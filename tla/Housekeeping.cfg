SPECIFICATION HousekeepingSpec
CONSTANTS
    Payload <- MCPayload
    Oversized = {}
    Blank = Blank
    Fault = Fault
    SeqModulus = 16
    MaxSequence = 6
    Identity <- MCIdentity
    BadIdentity = "bad"
    FirstPin = 1
    GpioCount = 4
    MaxTime = 3
    Profile <- MCProfile
    BoardIdentity = "board"
    Shipped <- MCShipped
    Header <- MCHeader
    Chunk <- MCChunk
    Erased = Erased
    Mixed = Mixed
    NoSession = NoSession
    StagingBase = 5
    FlashEnd = 8
    EraseSize = 2
    Word = 16
    InstalledRollback = 1
    Menu <- MCMenu
    MaxGivenUp = 1
    MaxFaults = 1
    MaxResets = 1
CHECK_DEADLOCK FALSE
INVARIANTS
    BoardIsSafe
    VerifiedImageStaged
    ChannelInv
PROPERTIES
    ImplementsAtomicRecord
    IdentitySetOnlyInFactory
    CommittedSurvives
    RequestEnds
