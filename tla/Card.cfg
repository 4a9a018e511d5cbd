SPECIFICATION Spec
CONSTANTS
    ByteBase = 3
    ResponseBytes = 4
    Applet <- MCApplet
    Request <- MCRequest
    Workload <- MCWorkload
    ResponseLen = {4, 5}
    Capacity = 2
    PacketUnits = 2
    MaxMessages = 4
    Pipelined = 2
    MaxFaults = 1
CHECK_DEADLOCK FALSE
INVARIANTS
    CardInv
    ResponseOfThisSelection
    ParsesAsMeant
PROPERTIES
    EveryMessageAnswered
