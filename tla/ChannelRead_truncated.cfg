SPECIFICATION Spec
CONSTANTS
    stdout = stdout  stderr = stderr
    Stream = {stdout}
    Stdout = stdout
    InitWindow = 4
    MinAdjust = 1
    PacketSize = 5
    HeadGap = 2
    Wrap = 64
    AskMax = 6
    Uses <- ResizedUses
INVARIANTS
    ZeroMeansComplete
