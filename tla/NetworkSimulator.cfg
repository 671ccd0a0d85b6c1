CONSTANTS
    Broadcast = Broadcast
    NoAddress = NoAddress
    DefaultDatagram = DefaultDatagram
    Garbled = Garbled
    NoHop = NoHop
    RequestTime = 1
    MappingTime = 2
    Width = 6
    Senders = {"applesauce", "dm42"}
    Destinations <- ScriptDestinations
    TTLs = {1, 2}
    MaxSends = 2
    Rounds = 7
SPECIFICATION Spec
CHECK_DEADLOCK FALSE
INVARIANTS
    NothingUnexpected
    AloneArrives
    QuietAtCheck
