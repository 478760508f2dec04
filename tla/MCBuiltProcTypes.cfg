SPECIFICATION Spec
CONSTANTS
  PROC_INSTR_MAX = 1
  INSTR_OFFSET_MIN <- MCOffsetMin
  INSTR_OFFSET_MAX = 4
  MODULE_VTYPES_MAX = 3
  MODULE_PTYPES_MAX = 1
  MODULE_REGS_MAX = 2
  MODULE_PROCS_MAX = 1
  ELT_BYTES_MAX = 8
  ELT_VREFS_MAX = 1
  VAR_COUNT_MAX = 2
  UINT32 <- MCUINT32
  ByteSizes <- TablesByteSizes
  Counts <- TablesCounts
  VRefFlags <- TablesVRefFlags
  RegFlags <- TablesRegFlags
  PTypeFlags <- TablesPFlags
  ProcFlags <- TablesPFlags
  Instrs <- TablesInstrs
CONSTRAINT OneModule
INVARIANT ProcTypesResolve
