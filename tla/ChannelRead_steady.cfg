SPECIFICATION Spec
CONSTANTS
    stdout = stdout  stderr = stderr
    Stream = {stdout, stderr}
    Stdout = stdout
    InitWindow = 4
    MinAdjust = 3
    PacketSize = 3
    HeadGap = 2
    Wrap = 64
    AskMax = 6
    Uses <- SteadyUses
INVARIANTS
    WindowInSync
    ReadsRight
    ReadAvailExact
