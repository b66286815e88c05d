SPECIFICATION FairSpec
CONSTANTS
    c1 = c1  c2 = c2  w1 = w1  w2 = w2  a1 = a1  a2 = a2
    NoPacket = NoPacket
    Channel = {c1, c2}
    Writer = {w1, w2}
    Chan <- TwoChan
    BufLen <- TwoLen
    ChunkMax = 2
    PacketSize = 2
    InitWindow = 1
    GrantMax = 3
    StackAddr = {a1, a2}
    Blocking = FALSE
    Faults = {"drop", "peerclose"}
INVARIANTS
    TypeOK
    StreamIntact
    ReportExact
    WindowRespected
PROPERTIES
    WritesAsPromised
    AllWritten
