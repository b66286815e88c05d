\* Streams with every kind of protection, in pieces of every size.
CONSTANTS
    PacketBuf = 48
    Uses <- MCUses
SPECIFICATION FairSpec
CHECK_DEADLOCK FALSE
INVARIANTS
    DeliveredRight
    TakenInBounds
    EagainMeansDrained
PROPERTIES
    AllDelivered
