SPECIFICATION MCSpec
CONSTANTS
  PROC_INSTR_MAX = 12
  INSTR_OFFSET_MIN <- MCOffsetMin
  INSTR_OFFSET_MAX = 5
  MODULE_VTYPES_MAX = 2
  MODULE_PTYPES_MAX = 1
  MODULE_REGS_MAX = 3
  MODULE_PROCS_MAX = 5
  ELT_BYTES_MAX = 8
  ELT_VREFS_MAX = 1
  VAR_COUNT_MAX = 2
  UINT32 <- MCUINT32
  ByteSizes <- NoArguments
  Counts <- NoArguments
  VRefFlags <- NoArguments
  RegFlags <- NoArguments
  PTypeFlags <- NoArguments
  ProcFlags <- NoArguments
  Instrs <- MCInstrs
  InitialRefs <- MCInitialRefs
  EXTRA = 2
CONSTRAINT Bounded
CHECK_DEADLOCK FALSE
INVARIANT ReferencesAreCounted
