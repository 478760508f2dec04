--------------------------- MODULE MCProcFrames ---------------------------
(* ProcFrames with one register: jumps see frames, not what they assign.   *)
EXTENDS ProcFrames

MCRegs == {PRESET_REG_ED}
MCOffsetMin == -2
=============================================================================
