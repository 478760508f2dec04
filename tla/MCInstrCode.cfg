SPECIFICATION Spec
CONSTANTS
  GROUP_BITS = 2
  GROUPS = 6
  TABLE_MAX <- MCTableMax
  ELT_BYTES_MAX <- MCTableMax
  UINT32 <- MCUINT32
  Given <- MCGiven
  Garbage <- MCGarbage
CONSTRAINT Bounded
INVARIANTS WalkedIsChecked OperandsKept LegalIsAccepted
