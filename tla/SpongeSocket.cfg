CONSTANTS
    Modulus = 16
    SizeT = 64
    UInt = 64
    UInt16 = 16
    MaxPayloadSize = 2
    MaxRetxAttempts = 8
    Capacity = 2
    CopySize = 2
    PipeSize = 1
    RtTimeout = 1
    TickTime = 10
    OurIsn = 15
    PeerIsn = 7
    Uses <- MCUses
SPECIFICATION FairSpec
INVARIANTS
    KeepsRunning FinOnce EndIsAll
PROPERTY
    Finishes
