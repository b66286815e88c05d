SPECIFICATION Spec
CONSTANTS
    Bytes = {"x", "cr", "lf", "nul"}
    Outside = {"x", "cr", "nul"}
    MaxLen = 6
INVARIANTS
    LinesRight
PROPERTIES
    MovesOn
