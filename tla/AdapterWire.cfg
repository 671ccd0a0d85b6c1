SPECIFICATION Spec
CONSTANTS
    Endpoint <- MCEndpoint
    Ethernet <- MCEthernet
    Segments <- MCSegments
    MaxWrites = 2
    Nothing = Nothing
INVARIANTS DamageCaught IntactArrives OneConversation ARPReadBack
CHECK_DEADLOCK FALSE
