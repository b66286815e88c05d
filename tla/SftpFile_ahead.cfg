\* A read has returned with a request that was sent in part.
CONSTANTS
    h1 = h1
    h2 = h2
    Handles = {h1, h2}
    FileLen = 3
    MaxRead = 2
    MaxWrite = 2
    ReadAhead = 2
    MaxAhead = 4
    PktLen = 2
    Uses <- AheadUses
SPECIFICATION Spec
CHECK_DEADLOCK FALSE
INVARIANT ReturnedIsSent
