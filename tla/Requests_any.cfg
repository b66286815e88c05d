\* Two or three callers on one session, in all the ways of MCUses.
CONSTANTS
    a = a
    b = b
    c = c
    Callers = {a, b, c}
    NoChan = NoChan
    NoDest = NoDest
    NoCall = NoCall
    NoPacket = NoPacket
    Uses <- MCUses
SPECIFICATION FairSpec
CHECK_DEADLOCK FALSE
INVARIANTS
    OwnDestination
    RepliesRight
    SerialNeverFails
    ChannelsOwned
    ExecOnce
PROPERTIES
    AllFinish
