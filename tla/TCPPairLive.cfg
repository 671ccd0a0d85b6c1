CONSTANTS
    Modulus = 16
    SizeT = 64
    UInt = 64
    UInt16 = 16
    MaxPayloadSize = 1
    MaxRetxAttempts = 8
    Capacity = 1
    RtTimeout = 1
    ClientIsn = 15
    ServerIsn = 7
    ClientLength = 2
    ServerLength = 0
    Ticks = {1}
    MaxNet = 6
    MaxRto = 16
    MaxLosses = 2
SPECIFICATION LiveSpec
CHECK_DEADLOCK FALSE
PROPERTY
    EventuallyClean
