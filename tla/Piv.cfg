CONSTANTS
    a = a
    b = b
    k1 = k1
    k2 = k2
    Code <- MCCode
    DefaultCode = a
    Unset = Unset
    Absent = Absent
    MaxAttempts = 2
    KeySlot <- MCKeySlot
    Policies <- MCPolicies
    NoKey = NoKey
    MgmtKey <- MCMgmtKey
    DefaultMgmt = "m0"
    NoWitness = NoWitness
SPECIFICATION Spec
SYMMETRY Symmetry
CONSTRAINT Families
INVARIANTS
    GuessesAreBounded
    VerifiedShowsCurrentPin
    OneSignaturePerPin
    SessionInv
