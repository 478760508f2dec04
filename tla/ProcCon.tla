------------------------------ MODULE ProcCon ------------------------------
(***************************************************************************)
(* The record ModuleBuilder keeps of a procedure under construction (class *)
(* ProcCon of mbuilder.h) and the checks and updates the instructions run  *)
(* on it: opening and closing frames, recording jumps.                     *)
(*                                                                         *)
(* A ProcCon is [frames, instrCount].  A frame is [firstInstr, jumps,      *)
(* ftype, reg]: the index of the first instruction inside it, the targets  *)
(* of the jumps issued from it (a set: the code never looks at their order *)
(* or multiplicity), how it was opened, and the register it assigns.       *)
(* An instruction index i of the code is i here, from 0.                   *)
(***************************************************************************)
EXTENDS VMDefs, SequencesExt

CONSTANTS PROC_INSTR_MAX,        \* instructions a procedure may hold
          INSTR_OFFSET_MIN,      \* range of a jump's relative offset
          INSTR_OFFSET_MAX

ASSUME BoundsAssumption ==
    /\ PROC_INSTR_MAX \in Nat \ {0}
    /\ INSTR_OFFSET_MIN \in Int /\ INSTR_OFFSET_MIN < 0
    /\ INSTR_OFFSET_MAX \in Int /\ INSTR_OFFSET_MAX > 0

(* What a call reports: OK, or the exception class it threw.               *)
OK == "ok"
Exceptions == {"Range", "Operation", "Flags", "NotFound", "Type"}
Verdicts == Exceptions \cup {OK}

(* if(cond) throw e; and the sequence of two such statements.              *)
ThrowIf(cond, e) == IF cond THEN e ELSE OK
a & b == IF a = OK THEN b ELSE a

(* A call that throws before it assigns leaves con alone.                  *)
Outcome(verdict, con, con2) ==
    [exc |-> verdict, con |-> IF verdict = OK THEN con2 ELSE con]

Top(con) == Last(con.frames)
Outer(con) == {con.frames[k] : k \in 1 .. Len(con.frames) - 1}

(* ModuleBuilder::addProc: the frame of the IO register is always open.    *)
NewProcCon(io) ==
    [frames |-> << [firstInstr |-> 0, jumps |-> {}, ftype |-> "REGNR",
                    reg |-> io] >>,
     instrCount |-> 0]

-----------------------------------------------------------------------------
(* applyDefault: an instruction of an inner frame may not be the last one  *)
(* before the target of an outer frame's jump (only a POP may).            *)
ApplyDefault(con) ==
    ThrowIf(\E f \in Outer(con) : \E t \in f.jumps :
                t >= f.firstInstr /\ con.instrCount = t - 1,
            "Operation")

(* applyBeginFrame(proc, ftype, reg).                                      *)
PushFrame(con, ftype, reg) ==
    [con EXCEPT !.frames = Append(@, [firstInstr |-> con.instrCount + 1,
                                      jumps |-> {}, ftype |-> ftype,
                                      reg |-> reg])]
BeginFrameUnguarded(con, ftype, reg) ==
    Outcome(OK, con, PushFrame(con, ftype, reg))
ApplyBeginFrame(con, ftype, reg) ==
    Outcome(ThrowIf(\E k \in DOMAIN con.frames :
                        con.instrCount + 1 \in con.frames[k].jumps,
                    "Operation"),
            con, PushFrame(con, ftype, reg))

(* applyEndFrame: jumps of the frame may reach the POP itself, not beyond. *)
PopFrame(con) == [con EXCEPT !.frames = Front(@)]
EndFrameUnguarded(con) ==
    Outcome(ThrowIf(Len(con.frames) = 1, "Operation"), con, PopFrame(con))
ApplyEndFrame(con) ==
    Outcome(ThrowIf(Len(con.frames) = 1, "Operation")
              & ThrowIf(\E t \in Top(con).jumps : t > con.instrCount,
                        "Operation"),
            con, PopFrame(con))

(* applyInstrIndex: a forward jump may not reach a point an outer frame    *)
(* jumps to from inside (that point lies past this frame's POP); a         *)
(* backward one may not leave the frame through its start.                 *)
AddJump(con, index) ==
    [con EXCEPT !.frames[Len(con.frames)].jumps = @ \cup {index}]
ApplyInstrIndex(con, index) ==
    Outcome(ApplyDefault(con)
              & (IF index > con.instrCount
                 THEN ThrowIf(index >= PROC_INSTR_MAX, "Range")
                        & ThrowIf(\E f \in Outer(con) : \E t \in f.jumps :
                                      t >= Top(con).firstInstr /\ index >= t,
                                  "Range")
                 ELSE ThrowIf(index < Top(con).firstInstr, "Range")),
            con, AddJump(con, index))

(* applyInstrOffset.                                                       *)
ApplyInstrOffset(con, offset) ==
    IF offset \notin INSTR_OFFSET_MIN .. INSTR_OFFSET_MAX
         \/ con.instrCount + offset < 0
    THEN Outcome("Range", con, con)
    ELSE ApplyInstrIndex(con, con.instrCount + offset)

(* applyBeginFrame(proc, offset), the PUSHH of an exception handler: the   *)
(* frame is pushed first, the jump is checked inside it, and the catch     *)
(* clause takes the frame off again when the jump is refused.              *)
BeginHandlerNoRollback(con, offset) ==
    LET begun == ApplyBeginFrame(con, "HAND", PRESET_REG_ED)
    IN  IF begun.exc # OK THEN begun
        ELSE ApplyInstrOffset(begun.con, offset)
ApplyBeginHandler(con, offset) ==
    LET begun  == ApplyBeginFrame(con, "HAND", PRESET_REG_ED)
        jumped == ApplyInstrOffset(begun.con, offset)
    IN  IF begun.exc # OK THEN begun
        ELSE IF jumped.exc = OK THEN jumped
        ELSE [exc |-> jumped.exc, con |-> PopFrame(jumped.con)]

(* assertConsistency, the part about one procedure: every frame is closed  *)
(* and every jump of the procedure's own frame has landed.                 *)
ConsistentNoJumps(con) == Len(con.frames) = 1
Consistent(con) ==
    /\ Len(con.frames) = 1
    /\ \A t \in Top(con).jumps : t < con.instrCount

(* addProcInstr: the limit, the instruction's own check, and the count.    *)
AddInstr(con, outcome) ==
    IF con.instrCount >= PROC_INSTR_MAX THEN Outcome("Range", con, con)
    ELSE IF outcome.exc # OK THEN outcome
    ELSE [outcome EXCEPT !.con.instrCount = @ + 1]

(* The ProcCons there can be: the frames are nested, each starts after the *)
(* one around it and none after the next instruction, jumps never lead     *)
(* before their frame, and no outer jump targets the start of an inner     *)
(* frame.                                                                  *)
FrameRecords(R) == [firstInstr : Nat, jumps : SUBSET Nat,
                 ftype : FrameTypes, reg : R]
ConType(con, R) ==
    /\ con \in [frames : Seq(FrameRecords(R)), instrCount : 0 .. PROC_INSTR_MAX]
    /\ con.frames # << >>
FramesNested(con) ==
    LET fs == con.frames IN
    /\ fs[1].firstInstr = 0
    /\ \A k \in DOMAIN fs :
        /\ fs[k].firstInstr <= con.instrCount
        /\ \A t \in fs[k].jumps : t >= fs[k].firstInstr /\ t < PROC_INSTR_MAX
        /\ \A j \in 1 .. k - 1 : /\ fs[j].firstInstr < fs[k].firstInstr
                                 /\ fs[k].firstInstr \notin fs[j].jumps
=============================================================================
