CONSTANTS
    a = a
    b = b
    c = c
    Content <- MCContent
    Blob <- MCContent
    Empty = a
    Nothing = Nothing
    NoRecord = NoRecord
    MaxCounter = 5
    Shards = 2
    MaxSaves = 5
SPECIFICATION FlashSpec
SYMMETRY Symmetry
CONSTRAINT OneOfThem
INVARIANTS
    NonceOfRecordUnique
    RegionInv
    OneUnfinishedSaveIsHarmless
PROPERTIES
    NeverRollsBack
