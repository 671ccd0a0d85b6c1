CONSTANTS
    Modulus = 16
    SizeT = 64
    Capacity = 4
    StreamLength = 18
    PeerIsn = 13
    MaxPayload = 3
SPECIFICATION Spec
INVARIANTS
    InboundIsPrefix
    UnwrapIsClosest
    StoredNearWindow
PROPERTY
    WindowNeverShrinks
