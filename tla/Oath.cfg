CONSTANTS
    alice = alice
    bob = bob
    old = old
    new = new
    Name <- MCName
    AccessKey <- MCAccessKey
    NoAccessKey = NoAccessKey
    NoPending = 0
    MaxCredentials = 2
    MaxPuts = 2
    MaxCounter = 2
SPECIFICATION Spec
SYMMETRY Symmetry
INVARIANTS
    OathInv
    HotpCodeOnce
    ConfirmedStaysStored
