\* Files of one SFTP session, one handle for reading and writing.
CONSTANTS
    h1 = h1
    h2 = h2
    Handles = {h1, h2}
    FileLen = 3
    MaxRead = 2
    MaxWrite = 2
    ReadAhead = 2
    MaxAhead = 4
    PktLen = 2
    Uses <- RWUses
SPECIFICATION Spec
CHECK_DEADLOCK FALSE
INVARIANT AckedInFile
