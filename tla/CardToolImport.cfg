SPECIFICATION Spec
CONSTANTS
    tool1 = tool1
    tool2 = tool2
    ByteBase = 256
    ResponseBytes = 4096
    Process <- MCProcess
    Job <- MCJob
    Slots <- MCSlots
    Certificates <- MCCertificates
    Cards <- MCCards
    Now = 36000
    MaxName = 64
    MaxSecret = 64
    MaxCredentials = 4
    MaxRecord = 1536
    MaxUnplugs = 1
SYMMETRY Symmetry
CHECK_DEADLOCK FALSE
INVARIANT ImportSucceeds
