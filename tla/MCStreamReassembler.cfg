CONSTANTS
    SizeT = 64
    Capacity = 3
    StreamLength = 6
    MaxUnassembled = 7
SPECIFICATION Spec
INVARIANTS
    OutputIsPrefix
    StoredOnce
    NothingInWindowLost
    EndedAtEof
    LoopsAgree
