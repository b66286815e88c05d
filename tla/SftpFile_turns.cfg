\* Two files of one SFTP session, read in turns with small buffers.
CONSTANTS
    h1 = h1
    h2 = h2
    Handles = {h1, h2}
    FileLen = 2
    MaxRead = 2
    MaxWrite = 2
    ReadAhead = 3
    MaxAhead = 4
    PktLen = 2
    Uses <- TurnUses
SPECIFICATION Spec
CHECK_DEADLOCK FALSE
INVARIANT LeftoverFirst
