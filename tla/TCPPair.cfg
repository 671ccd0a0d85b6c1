CONSTANTS
    Modulus = 16
    SizeT = 64
    UInt = 64
    UInt16 = 16
    MaxPayloadSize = 1
    MaxRetxAttempts = 1
    Capacity = 1
    RtTimeout = 1
    ClientIsn = 15
    ServerIsn = 7
    ClientLength = 2
    ServerLength = 0
    Ticks = {10}
    MaxNet = 2
    MaxRto = 2
SPECIFICATION Spec
CHECK_DEADLOCK FALSE
INVARIANTS
    AckedIsReceived
    NothingLeftInQueue
    PassiveCloserIsDone
PROPERTY
    ReliableStreams
