SPECIFICATION Spec
CONSTANTS
    c1 = c1  c2 = c2  w1 = w1  w2 = w2  a1 = a1  a2 = a2
    NoPacket = NoPacket
    Channel = {c1}
    Writer = {w1}
    Chan <- SoloChan
    BufLen <- SoloLen
    ChunkMax = 3
    PacketSize = 2
    InitWindow = 0
    GrantMax = 4
    StackAddr = {a1, a2}
    Blocking = TRUE
    Faults = {"drop", "timeout", "peerclose", "impatient"}
INVARIANTS
    ReturnMeansDone
PROPERTIES
    NoNewDataAfterEof
