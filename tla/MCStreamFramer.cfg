SPECIFICATION FairSpec
CONSTANTS
    Base = 2
    PrefixBytes = 2
    Payload <- MCPayload
    MaxSent = 4
    MaxDepth = 3
INVARIANTS
    Aligned
    NothingHeldBack
PROPERTIES
    ImplementsChannel
    EveryMessageDelivered
