------------------------------- MODULE VMDefs -------------------------------
(***************************************************************************)
(* What the builder and the code generator share (vmdefs.h, instr.h): ids, *)
(* the kinds of stack frame, and where an instruction branches to.         *)
(*                                                                         *)
(* An id is a vector index, from 0.  An instruction is a record with op    *)
(* its class:                                                              *)
(*   UO (INC, DEC), BO (ADD, SUB, MUL), UJ (JNZ), BJ (JG, JNG, JE), CPI    *)
(*   (CPI1 .. CPI8, size the operand's bytes), PUSH, PUSHR, PUSHH, POP,    *)
(*   JMP, CPB, LDE, LDB, LDR, STE, STB, STR, CALL, THROW, RET,             *)
(*   ILL (an Instr() that was never set: no operands, no bytes)            *)
(* and a field per operand, with the name instr.h gives its accessor.      *)
(***************************************************************************)
EXTENDS Integers, Sequences

At(table, id) == table[id + 1]
Ids(table) == 0 .. Len(table) - 1

(* FT_REG, the fourth FrameType, only asks for "any register frame".       *)
FrameTypes == {"HAND", "REGNR", "REGR"}

PRESET_REG_ED == 0

(* branches() and branchIndex(index).                                      *)
Branches(in) == in.op \in {"UJ", "BJ", "PUSHH", "JMP", "RET"}
BranchIndex(in, index) == IF in.op = "RET" THEN index + 1
                          ELSE index + in.offset
=============================================================================
