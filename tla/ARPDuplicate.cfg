CONSTANTS
    Broadcast = Broadcast
    NoAddress = NoAddress
    DefaultDatagram = DefaultDatagram
    Garbled = Garbled
    RequestTime = 1
    MappingTime = 2
    Stations = {1, 2, 3}
    Datagrams <- Sends
    Ticks = {1, 2}
    MaxLink = 2
SPECIFICATION Spec
CHECK_DEADLOCK FALSE
INVARIANT RecvFrameReturns
