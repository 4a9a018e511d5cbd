CONSTANTS
    p = p
    q = q
    r = r
    s = s
    ch1 = ch1
    ch2 = ch2
    Pin <- MCPin
    Rp <- MCRp
    Channel <- MCChannel
    Grants <- MCGrants
    NoPin = NoPin
    NoRp = NoRp
    NoToken = NoToken
    Nothing = Nothing
    DefaultRetries = 3
    MaxCredentials = 2
    MaxAllow = 2
    MaxCreated = 2
    MaxCount = 2
SPECIFICATION ManagementSpec
SYMMETRY Symmetry
CONSTRAINT Families
INVARIANTS
    PinInv
    CreatedIsDurable
    RemovedStaysRemoved
    AssertionInv
    CountersIncrease
    EnumeratesOnce
