SPECIFICATION FairSpec
CONSTANTS
    Broadcast = Broadcast
    NoAddress = NoAddress
    DefaultDatagram = DefaultDatagram
    Garbled = Garbled
    NoHop = NoHop
    Width = 6
    RequestTime = 8
    MappingTime = 12
    Retransmit = 3
    MaxLosses = 2
    Goal = 3
INVARIANTS
    
    HeardIntact
PROPERTY
    ProgramsEnd
