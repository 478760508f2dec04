------------------------------ MODULE Codegen ------------------------------
(***************************************************************************)
(* The code generator of Runtime::ModuleData (mdata.cpp), as operators on  *)
(* a module m = [vtypes, ptypes, regs, procs] and a procedure p of it: the *)
(* frames it tracks while it walks the code, the basic blocks it cuts the  *)
(* code into, and the landing pads it gives to the calls.  LLVM's values   *)
(* and types are left out; control flow is what is kept.                   *)
(*                                                                         *)
(* LLVMContext::Frame is [at, ftype, reg, hindex]: at is the index of the  *)
(* instruction that pushed it (-1: prepareLLVMContext), which stands for   *)
(* the identity of the C++ object; hindex is where a handler starts (-1:   *)
(* not a handler); a handler's reg, never read, is -1.                     *)
(***************************************************************************)
EXTENDS VMDefs, SequencesExt, FiniteSetsExt

None == -1

Code(m, p) == At(m.procs, p).code
CodeIds(m, p) == Ids(Code(m, p))
InstrAt(m, p, i) == At(Code(m, p), i)

-----------------------------------------------------------------------------
(* pushRegFrame, pushHandFrame, popFrame, by the instruction in at i.      *)
StepFrames(frames, in, i) ==
    CASE in.op = "PUSH" ->
            Append(frames, [at |-> i, ftype |-> "REGNR", reg |-> in.reg,
                            hindex |-> None])
      [] in.op = "PUSHR" ->
            Append(frames, [at |-> i, ftype |-> "REGR", reg |-> in.reg,
                            hindex |-> None])
      [] in.op = "PUSHH" ->
            Append(frames, [at |-> i, ftype |-> "HAND", reg |-> None,
                            hindex |-> BranchIndex(in, i)])
      [] in.op = "POP" -> Front(frames)
      [] OTHER -> frames

(* The stack when instruction i is emitted: the code is walked once, in    *)
(* order, wherever control goes at run time.                               *)
FramesAt(m, p, i) ==
    LET base == << [at |-> None, ftype |-> "REGNR", hindex |-> None,
                    reg |-> At(m.ptypes, At(m.procs, p).ptype).io] >>
        walk[n \in Nat] ==
            IF n = 0 THEN base
            ELSE StepFrames(walk[n - 1], InstrAt(m, p, n - 1), n - 1)
    IN  walk[i]

(* findFrame: the innermost register frame that names reg, if any.         *)
Naming(frames, reg) ==
    {k \in DOMAIN frames : frames[k].ftype # "HAND" /\ frames[k].reg = reg}
FindFrame(frames, reg) == frames[Max(Naming(frames, reg))]

-----------------------------------------------------------------------------
(* prepareLLVMContext: where basic blocks start.                           *)
BlockIndexes(m, p) ==
    LET branching == {i \in CodeIds(m, p) : Branches(InstrAt(m, p, i))}
    IN  {0}
        \cup {BranchIndex(InstrAt(m, p, i), i) :
                i \in {j \in branching : BranchIndex(InstrAt(m, p, j), j) # j + 1}}
        \cup {i + 1 : i \in {j \in branching : j + 1 \in CodeIds(m, p)}}

(* The targets branchBlock is asked for: those of the jumps, and those of  *)
(* the handlers some pad branches to.                                      *)
JumpTargets(m, p) ==
    {BranchIndex(InstrAt(m, p, i), i) :
        i \in {j \in CodeIds(m, p) : InstrAt(m, p, j).op \in {"UJ", "BJ", "JMP"}}}

-----------------------------------------------------------------------------
(* emitFuncCall.  With no frame but the procedure's own it is a plain call *)
(* otherwise an invoke that unwinds to the block cached in the innermost   *)
(* frame, built at the first CALL or THROW emitted with that frame on top. *)
Invokes(m, p) ==
    {i \in CodeIds(m, p) : /\ InstrAt(m, p, i).op \in {"CALL", "THROW"}
                           /\ Len(FramesAt(m, p, i)) > 1}
BuiltAt(m, p, i) ==
    Min({j \in Invokes(m, p) :
            Last(FramesAt(m, p, j)) = Last(FramesAt(m, p, i))})

(* The frame the pad built at instruction i stops at, 0 for none: the      *)
(* innermost handler not yet entered at i; the procedure's frame and the   *)
(* one above it are never looked at.                                       *)
Catcher(frames, i) ==
    Max({0} \cup {k \in 3 .. Len(frames) :
                    frames[k].ftype = "HAND" /\ i < frames[k].hindex})

(* Where an exception leaving instruction i goes: a handler's index, or    *)
(* None when the pad resumes unwinding.                                    *)
PadTarget(m, p, i) ==
    LET frames == FramesAt(m, p, i)
        k == Catcher(frames, BuiltAt(m, p, i))
    IN  IF k = 0 THEN None ELSE frames[k].hindex

-----------------------------------------------------------------------------
(* Instructions that leave CB, the block being filled, other than          *)
(* blocks[blockIndex]: a null or range check (emitThrowIfNot), a reference *)
(* count (emitIncVarRefCount) or an invoke starts a new block.             *)
Dereferences(in) ==       \* registers emitRegValue looks through a reference
    CASE in.op \in {"UO", "UJ"} -> {in.it}
      [] in.op = "BO" -> {in.operand1, in.operand2, in.result}
      [] in.op = "BJ" -> {in.operand1, in.operand2}
      [] in.op = "CPI" -> {in.to}
      [] in.op \in {"CPB", "LDB", "STB"} -> {in.from, in.to}
      [] in.op \in {"LDE", "STE"} -> {in.from, in.to, in.elt}
      [] in.op = "LDR" -> {in.from}
      [] in.op = "STR" -> {in.to}
      [] OTHER -> {}

Indexed(in) == IF in.op = "LDE" THEN {in.from}
               ELSE IF in.op = "STE" THEN {in.to} ELSE {}

HoldsRefs(m, frame) ==    \* emitCleanupRegFrame emits something for it
    \/ frame.ftype = "REGR"
    \/ /\ frame.ftype = "REGNR"
       /\ At(m.vtypes, At(m.regs, frame.reg).vtype).vrefs # << >>

LeavesBlock(m, p, i) ==
    LET in == InstrAt(m, p, i)
        frames == FramesAt(m, p, i)
    IN  \/ \E reg \in Dereferences(in) :
              /\ Naming(frames, reg) # {}
              /\ FindFrame(frames, reg).ftype = "REGR"
        \/ \E reg \in Indexed(in) : Naming(frames, reg) # {}
        \/ in.op \in {"LDR", "STR"}
        \/ in.op = "POP" /\ HoldsRefs(m, Last(frames))
        \/ i \in Invokes(m, p)

(* emitLLVMCode ends with a return in blocks.back() unless that block has  *)
(* a terminator.  Returns: the block the code ends in has one.             *)
Terminates(in) == in.op \in {"UJ", "BJ", "JMP", "RET"}
Returns(m, p) ==
    LET size == Len(Code(m, p))
    IN  \/ size = 0
        \/ Terminates(InstrAt(m, p, size - 1))
        \/ \A i \in Max(BlockIndexes(m, p)) .. size - 1 : ~LeavesBlock(m, p, i)
=============================================================================
