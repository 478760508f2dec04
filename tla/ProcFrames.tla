---------------------------- MODULE ProcFrames ----------------------------
(***************************************************************************)
(* ModuleBuilder::addProcInstr seen from one procedure: the stream of      *)
(* instructions a client offers, each accepted or refused by the checks of *)
(* ProcCon.  The instructions are classed by what they do to the ProcCon:  *)
(*   default - applyDefault only (arithmetic, loads, stores, CALL, THROW,  *)
(*             RET), jump - applyInstrOffset (JMP, JNZ, JG, JNG, JE),      *)
(*   PUSH/PUSHR, PUSHH and POP, and ILL, an Instr() that was never set.    *)
(* ModuleBuilder.tla has the operand checks and all procedures together.   *)
(*                                                                         *)
(* opened, stored and sites are history variables.  An instruction has an *)
(* index in the builder's count and, but for ILL, one in the code:         *)
(* opened[i + 1] is the set of frames open at number i of the count, each  *)
(* named by its firstInstr (unique: at most one frame is opened per        *)
(* instruction); stored[c + 1] is the number in the count of instruction c *)
(* of the code; sites holds, for each accepted jump, where it leads in the *)
(* count (to) and in the code (lands), and the frames open at the jump.    *)
(***************************************************************************)
EXTENDS ProcCon

CONSTANT Regs                    \* registers an instruction may name

ASSUME RegsAssumption == PRESET_REG_ED \in Regs

VARIABLES con,                   \* procCons[proc]
          exc,                   \* what the last addProcInstr reported
          opened,
          stored,
          sites

vars == << con, exc, opened, stored, sites >>

(* The frames open in c, by name.                                          *)
OpenIn(c) == {c.frames[k].firstInstr : k \in DOMAIN c.frames}

Init ==
    /\ \E io \in Regs : con = NewProcCon(io)
    /\ exc = OK
    /\ opened = << >> /\ stored = << >>
    /\ sites = {}

(* One addProcInstr with the outcome of the instruction's check: it is     *)
(* counted, and what it puts in the code follows.                          *)
Count(outcome) ==
    LET added == AddInstr(con, outcome)
    IN  /\ exc' = added.exc
        /\ con' = added.con
        /\ opened' = IF added.exc = OK THEN Append(opened, OpenIn(con))
                                       ELSE opened

Add(outcome, jumps) ==
    /\ Count(outcome)
    /\ stored' = IF exc' = OK THEN Append(stored, con.instrCount) ELSE stored
    /\ sites' = IF exc' = OK THEN sites \cup jumps ELSE sites

AddDefault == Add(Outcome(ApplyDefault(con), con, con), {})

(* OPCODE_ILL, what Instr() is, and every other opcode VIRTUAL_CALL does   *)
(* not list: assertConsistency checks nothing, size() is 0, so that no     *)
(* byte is copied to the code, and the instruction is counted all the same.*)
AddIll ==
    /\ Count(Outcome(OK, con, con))
    /\ UNCHANGED << stored, sites >>

(* Offsets one out of range on either side are offered too.                *)
Offsets == INSTR_OFFSET_MIN - 1 .. INSTR_OFFSET_MAX + 1

JumpSite(c, offset) ==
    [to |-> con.instrCount + offset, lands |-> Len(stored) + offset,
     open |-> OpenIn(c)]

AddJumpInstr(offset) ==
    Add(ApplyInstrOffset(con, offset), {JumpSite(con, offset)})

AddPush(ftype, reg) == Add(ApplyBeginFrame(con, ftype, reg), {})

AddPushH(offset) ==
    LET outcome == ApplyBeginHandler(con, offset)
    IN  Add(outcome, {JumpSite(outcome.con, offset)})

AddPop == Add(ApplyEndFrame(con), {})

Next ==
    \/ AddDefault
    \/ \E offset \in Offsets : AddJumpInstr(offset)
    \/ \E reg \in Regs, ftype \in {"REGNR", "REGR"} : AddPush(ftype, reg)
    \/ \E offset \in Offsets : AddPushH(offset)
    \/ AddPop
    \/ AddIll

Spec == Init /\ [][Next]_vars

-----------------------------------------------------------------------------
(* The ProcCon is well formed (ConType, FramesNested) and the history has  *)
(* one entry per counted instruction.                                      *)
Sites == [to : Nat, lands : Int, open : SUBSET Nat]
TypeOK ==
    /\ ConType(con, Regs)
    /\ FramesNested(con)
    /\ exc \in Verdicts
    /\ opened \in Seq(SUBSET Nat) /\ Len(opened) = con.instrCount
    /\ stored \in Seq(Nat)
    /\ sites \subseteq Sites

(* The code's own indices, which the code generator walks by, and the      *)
(* frames open at one of them.  They are the builder's as long as every    *)
(* instruction of its count is in the code: no ILL was added.              *)
InCode(c) == c \in 0 .. Len(stored) - 1
OpenAt(c) == opened[stored[c + 1] + 1]
Whole == Len(stored) = con.instrCount

(* A jump never leaves a frame: every frame open where the jump is made is *)
(* open where it lands, so a frame's POP is never bypassed (applyEndFrame  *)
(* and the range checks of applyInstrIndex together).  This is for a       *)
(* procedure without ILL; JumpsKeepFrames has what ILL makes of it.        *)
StaysInside(s) == InCode(s.lands) => s.open \subseteq OpenAt(s.lands)
NoJumpOutOfFrame == Whole => \A s \in sites : StaysInside(s)

(* A procedure createModule accepts, ILL apart, holds every instruction    *)
(* its jumps and handlers lead to: closed frames were checked one by one   *)
(* at their POP, the outermost one in assertConsistency.                   *)
JumpsLand ==
    Whole /\ Consistent(con) => \A s \in sites : InCode(s.lands)

(* A refused instruction leaves no trace, not even a refused PUSHH, which  *)
(* pushes its frame before it checks the handler's offset.                 *)
RefusedChangesNothing == [][exc' # OK => con' = con]_vars

(* Why these hold, an inductive invariant with TypeOK, in the builder's    *)
(* count, where ILL does no harm: an open frame has been open at every     *)
(* instruction since it began, and a jump either has landed well or is     *)
(* still among the jumps of an open frame, that frame being the innermost  *)
(* of those open at the jump.                                              *)
OpenSinceBegun ==
    \A k \in DOMAIN con.frames :
        \A i \in con.frames[k].firstInstr .. con.instrCount - 1 :
            con.frames[k].firstInstr \in opened[i + 1]

Landed(s) == s.to < con.instrCount /\ s.open \subseteq opened[s.to + 1]
Pending(s) ==
    \E k \in DOMAIN con.frames :
        /\ s.to \in con.frames[k].jumps
        /\ s.open = {con.frames[j].firstInstr : j \in 1 .. k}

(* ... and the two ways of counting agree until the first ILL.             *)
CountedAsStored ==
    /\ Len(stored) <= con.instrCount
    /\ Whole => /\ \A n \in DOMAIN stored : stored[n] = n - 1
                /\ \A s \in sites : s.lands = s.to

IInv ==
    /\ TypeOK
    /\ OpenSinceBegun
    /\ \A s \in sites : Landed(s) \/ Pending(s)
    /\ CountedAsStored

-----------------------------------------------------------------------------
(* What the documentation says and the code refutes.                       *)

(* vm.txt of JMP, JNZ, JG, JNG, JE and PUSHH: "The jump must be within    *)
(* current stack frame", so the frames open where it lands are exactly     *)
(* those open where it is made.  The code refutes it in both directions: a *)
(* backward jump is checked against the start of its frame only, a forward *)
(* one when the frames after it are opened and closed.                     *)
JumpsWithinFrame ==
    Whole => \A s \in sites : InCode(s.lands) => OpenAt(s.lands) = s.open

(* The same words, taken for the least they can mean: no jump of the code  *)
(* leads out of a frame open where it is made.  An ILL between the jump    *)
(* and its target refutes it: PUSH, JMP +3, ILL, INC, POP, RET is accepted *)
(* because number 4 is the POP; in the code the jump lands on the RET.     *)
JumpsKeepFrames == \A s \in sites : StaysInside(s)
=============================================================================
