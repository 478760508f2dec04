SPECIFICATION Spec
CONSTANTS
  PROC_INSTR_MAX = 6
  INSTR_OFFSET_MIN <- MCOffsetMin
  INSTR_OFFSET_MAX = 4
  Regs <- MCRegs
INVARIANT JumpsKeepFrames
