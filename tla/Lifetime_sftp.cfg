SPECIFICATION Spec
CONSTANTS
    s = s  o1 = o1  o2 = o2  o3 = o3
    Obj = {s, o1, o2}
    Sess = s
    None = None
    Uses <- SftpUses
SYMMETRY Symmetry
INVARIANTS
    SftpNotLeft
