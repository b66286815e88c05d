\* Files of one SFTP session, in all the ways of MCUses.
CONSTANTS
    h1 = h1
    h2 = h2
    Handles = {h1, h2}
    FileLen = 3
    MaxRead = 2
    MaxWrite = 2
    ReadAhead = 2
    MaxAhead = 4
    PktLen = 2
    Uses <- MCUses
SPECIFICATION LiveSpec
CHECK_DEADLOCK FALSE
INVARIANTS
    DataRight
    TellRight
    AckedInFile
    DialogueRight
PROPERTIES
    TransfersEnd
