SPECIFICATION FairSpec
CONSTANTS
    stdout = stdout  stderr = stderr
    Stream = {stdout, stderr}
    Stdout = stdout
    InitWindow = 4
    MinAdjust = 1
    PacketSize = 2
    HeadGap = 2
    Wrap = 64
    AskMax = 6
    Uses <- LiveUses
CHECK_DEADLOCK FALSE
PROPERTIES
    AllRead
    WaitEofReturns
