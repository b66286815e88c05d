SPECIFICATION Spec
CONSTANTS
    a1 = a1  a2 = a2  f1 = f1  f2 = f2
    Agents = {a1, a2}
    Fds = {f1, f2}
    None = None
    MaxIds = 2
    MaxLists = 1
    Uses <- ReconnectUses
SYMMETRY Symmetry
INVARIANTS
    SocketsClosed
