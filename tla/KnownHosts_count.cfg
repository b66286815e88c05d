\* What readfile answers, as its docstring has it.
CONSTANTS
    h = h  i2 = i2  k = k  l = l
    a1 = a1 a2 = a2 a3 = a3
    Addr = {a1, a2, a3}
    NoSave = NoSave
    ShortHost = {i2}
    FileBuf = 8
    Args <- MCArgs
    Lines <- MCLines
    Files <- MCFiles
    Queries <- MCQueries
    MaxAdds = 3
SPECIFICATION Spec
SYMMETRY Symmetry
CHECK_DEADLOCK FALSE
INVARIANTS
    CountRight
