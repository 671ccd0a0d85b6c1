CONSTANTS
    Modulus = 16
    MaxPayloadSize = 2
    UInt = 8
    Capacity = 3
    Isn = 14
    RetxTimeout = 2
    StreamLength = 4
    Windows = {0, 1, 3}
    MaxQueue = 2
    MaxRetx = 2
SPECIFICATION Spec
INVARIANTS
    TypeOK
    FlightAccounting
    NothingForgotten
    PayloadsInPlace
    FinIsLast
    StatesAgree
    TimerArmed
    LoopsAgree
PROPERTY
    SendsWithinWindow
