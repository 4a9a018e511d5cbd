CONSTANTS
    a = a
    b = b
    Code <- MCCode
    DefaultCode = a
    Unset = Unset
    Absent = Absent
    KeySlot <- MCKeySlot
    MaxAttempts = 2
    MaxKeys = 2
    MaxSignatures = 2
SPECIFICATION Spec
CONSTRAINT Families
INVARIANT WrittenStateDecodes
