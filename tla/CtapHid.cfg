SPECIFICATION Spec
CONSTANTS
    MaxPolls = 1
    App = {"browser", "tool"}
    Request <- MCRequest
    MaxPackets = 2
    Broadcast = 3
    KeepaliveEvery = 1
    MaxRequests <- MCMaxRequests
    MaxDropped = 1
CHECK_DEADLOCK FALSE
INVARIANTS
    HidInv
PROPERTIES
    RequestEnds
