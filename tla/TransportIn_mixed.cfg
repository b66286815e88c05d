\* Different ciphers in the two directions.
CONSTANTS
    PacketBuf = 48
    Uses <- MixedUses
SPECIFICATION Spec
CHECK_DEADLOCK FALSE
INVARIANTS
    NeverRejected
