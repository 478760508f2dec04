----------------------------- MODULE BuiltCode -----------------------------
(***************************************************************************)
(* ModuleBuilder together with the code generator that later walks what it *)
(* accepted: unpack() checks nothing, it relies on the static checks of    *)
(* addProcInstr and createModule.  No state of its own; what is stated     *)
(* here is what the one component takes for granted of the other.          *)
(***************************************************************************)
EXTENDS ModuleBuilder, Codegen

(* The tables as they stand, in the form createModule would store them.    *)
Current == [vtypes |-> vtypes, ptypes |-> ptypes, regs |-> regs,
            procs |-> procs]

VarSpecs == [flags : SUBSET {"NON_FIXED", "TOP_LEVEL", "THREAD_LOCAL"},
             vtype : Nat, count : 1 .. VAR_COUNT_MAX]
VarTypes == [bytes : 0 .. ELT_BYTES_MAX, vrefs : Seq(VarSpecs)]
ProcTypes == [flags : PTypeFlags, io : Nat]
Procs == [flags : ProcFlags, ptype : Nat, code : Seq(Instrs), ills : Nat]
ProcCons == [frames : Seq(FrameRecords(Nat)), instrCount : 0 .. PROC_INSTR_MAX]

TablesTyped(m) ==
    /\ m.vtypes \in Seq(VarTypes) /\ Len(m.vtypes) <= MODULE_VTYPES_MAX
    /\ \A t \in Ids(m.vtypes) : Len(At(m.vtypes, t).vrefs) <= ELT_VREFS_MAX
    /\ m.ptypes \in Seq(ProcTypes) /\ Len(m.ptypes) <= MODULE_PTYPES_MAX
    /\ m.regs \in Seq(VarSpecs) /\ Len(m.regs) <= MODULE_REGS_MAX
    /\ m.procs \in Seq(Procs) /\ Len(m.procs) <= MODULE_PROCS_MAX

(* The builder's state has its type: tables within their limits, one       *)
(* ProcCon per procedure (ModuleBuilder's fields, mbuilder.h:75-90).       *)
TypeOK ==
    /\ TablesTyped(Current) /\ TablesTyped(created)
    /\ procCons \in Seq(ProcCons) /\ Len(procCons) = Len(procs)
    /\ \A p \in Ids(procCons) : ConType(At(procCons, p), Nat)
    /\ exc \in Verdicts

-----------------------------------------------------------------------------
(* What holds.                                                             *)

(* The ids in the tables m and in their code.                             *)
References(in) ==
    IF in.op = "LDR" THEN {in.to} ELSE IF in.op = "STR" THEN {in.from} ELSE {}
VRefsResolve(m) ==
    \A t \in Ids(m.vtypes) : \A n \in DOMAIN At(m.vtypes, t).vrefs :
        At(m.vtypes, t).vrefs[n].vtype \in Ids(m.vtypes)
RegsResolve(m) == \A r \in Ids(m.regs) : At(m.regs, r).vtype \in Ids(m.vtypes)
InstrResolves(m, in) ==
    /\ Dereferences(in) \cup References(in) \subseteq Ids(m.regs)
    /\ in.op \in {"PUSH", "PUSHR"} => in.reg \in Ids(m.regs)
    /\ in.op = "CALL" => in.proc \in Ids(m.procs)
ProcsResolve(m) ==
    \A p \in Ids(m.procs) :
        /\ At(m.procs, p).ptype \in Ids(m.ptypes)
        /\ \A i \in CodeIds(m, p) : InstrResolves(m, InstrAt(m, p, i))
TablesResolve(m) == VRefsResolve(m) /\ RegsResolve(m) /\ ProcsResolve(m)
(* Every id stored in the tables, and in a module made from them, names an *)
(* entry of its table, through any sequence of calls, resets and failed    *)
(* calls; a procedure type's register is the exception (ProcTypesResolve). *)
(* The code generator indexes the tables with these ids unchecked          *)
(* (mdata.cpp:212-221, 526-547, 1000-1014).                                *)
IdsResolve == TablesResolve(Current) /\ TablesResolve(created)

(* Every instruction accepted into procedure p is in its code: no ILL was. *)
(* After one, the indices the builder counts, and checks jumps against,    *)
(* are no longer those of the code.                                        *)
AllInCode(m, p) == At(m.procs, p).ills = 0

(* The frames the builder tracks call by call, through refused             *)
(* instructions and instructions without bytes too, are the ones the code  *)
(* generator finds when it walks the accepted code (mbuilder.cpp:170-203   *)
(* against mdata.cpp:456-483, 551-565); and where every instruction is in  *)
(* the code they start where the builder says and its jumps are theirs.    *)
SameStart(frame, walked) ==
    /\ frame.firstInstr = walked.at + 1
    /\ walked.ftype = "HAND" => walked.hindex \in frame.jumps
FramesAgree ==
    \A p \in Ids(procs) :
        LET con == At(procCons, p)
            frames == FramesAt(Current, p, Len(Code(Current, p)))
        IN  /\ con.instrCount = Len(Code(Current, p)) + At(procs, p).ills
            /\ Len(con.frames) = Len(frames)
            /\ \A k \in DOMAIN frames :
                /\ con.frames[k].ftype = frames[k].ftype
                /\ frames[k].ftype # "HAND" =>
                        con.frames[k].reg = frames[k].reg
                /\ AllInCode(Current, p) => SameStart(con.frames[k], frames[k])

(* Every register operand that is not a top-level variable is found among  *)
(* the open frames when its instruction is emitted, in a reference frame   *)
(* where a reference is stored (mdata.cpp:339-347, 622-625, 656-657), and  *)
(* a call finds a register frame on top to pass (mdata.cpp:713-717).       *)
OperandsResolve ==
    \A p \in Ids(procs) : \A i \in CodeIds(Current, p) :
        LET in == InstrAt(Current, p, i)
            frames == FramesAt(Current, p, i)
        IN  /\ \A reg \in Dereferences(in) \cup References(in) :
                \/ "TOP_LEVEL" \in At(regs, reg).flags
                \/ /\ Naming(frames, reg) # {}
                   /\ reg \in References(in) =>
                        FindFrame(frames, reg).ftype = "REGR"
            /\ in.op = "CALL" => Last(frames).ftype = "REGNR"

(* vm.txt:90-92, CALL: "The last allocated frame must hold a stack         *)
(* allocated variable with a same variable type and with a same element    *)
(* count as a variable of IO register of callee procedure" (checked at     *)
(* mbuilder.cpp:66-80): the callee takes it for its own IO variable.       *)
SameVariable(m, a, b) ==
    {a, b} \subseteq Ids(m.regs) =>
        /\ At(m.regs, a).vtype = At(m.regs, b).vtype
        /\ At(m.regs, a).count = At(m.regs, b).count
CallAgrees(m, p, i) ==
    LET in == InstrAt(m, p, i)
    IN  in.op = "CALL" =>
            SameVariable(m, Last(FramesAt(m, p, i)).reg,
                         At(m.ptypes, At(m.procs, in.proc).ptype).io)
CallsAgree ==
    \A p \in Ids(procs) : \A i \in CodeIds(Current, p) : CallAgrees(Current, p, i)

(* addProcType's assertion (mbuilder.cpp:122), which is what makes the     *)
(* comparison last: once accepted, a call agrees whatever is added, as     *)
(* long as the procedure types name registers.                             *)
ProcTypesResolve == \A t \in Ids(ptypes) : At(ptypes, t).io \in Ids(regs)
CallsStayAgreed ==
    [][ProcTypesResolve /\ CallsAgree => CallsAgree']_<< regs, ptypes, procs >>

(* LDB and STB find a byte from their offset on (vm.txt:136-138, 184-186), *)
(* without which the code generator subtracts below zero (mdata.cpp:602,   *)
(* 643): but for the one offset that wraps the check's uint32_t.           *)
Whole(in) ==
    CASE in.op = "LDB" -> {in.from}
      [] in.op = "STB" -> {in.to}
      [] OTHER -> {}
Inside(in) ==
    \A reg \in Whole(in) : \/ in.offset < VarTypeOf(reg).bytes
                            \/ in.offset = UINT32 - 1
BytesStayInside ==
    \A p \in Ids(procs) : \A i \in CodeIds(Current, p) :
        Inside(InstrAt(Current, p, i))

(* In a created module, where every instruction is in the code, every      *)
(* branch and every landing pad leads to a block of the code               *)
(* (branchBlock's assertion, mdata.cpp:91), and every block is reached by  *)
(* the walk that fills it (mdata.cpp:846-853).                             *)
BlocksFilled ==
    \A p \in Ids(created.procs) : AllInCode(created, p) =>
        /\ JumpTargets(created, p) \subseteq BlockIndexes(created, p)
        /\ BlockIndexes(created, p) \subseteq {0} \cup CodeIds(created, p)
        /\ \A i \in Invokes(created, p) :
            PadTarget(created, p, i) \in {None} \cup BlockIndexes(created, p)

(* Where every instruction is in the code, a landing pad that catches      *)
(* jumps to code inside the handler's frame: at the target the frames up   *)
(* to the handler are the very ones open at the call (mdata.cpp:686-700),  *)
(* so no operand there refers to a variable the pad released.              *)
PadsLandInside ==
    \A p \in Ids(created.procs) : AllInCode(created, p) =>
      \A i \in Invokes(created, p) :
        LET frames == FramesAt(created, p, i)
            k == Catcher(frames, BuiltAt(created, p, i))
        IN  k # 0 => IsPrefix(SubSeq(frames, 1, k),
                              FramesAt(created, p, frames[k].hindex))

-----------------------------------------------------------------------------
(* What the code, its documentation or its tests say and the code refutes. *)

(* vm.txt:172-175, PUSHH: "When an exception is caught, an execution jumps *)
(* with relative offset": an exception leaving a call goes to the          *)
(* innermost handler open there that has not been entered (emitFuncCall    *)
(* passes over those that have, mdata.cpp:689), and up when there is none. *)
ExceptionReachesHandler ==
    \A p \in Ids(created.procs) : \A i \in Invokes(created, p) :
        LET frames == FramesAt(created, p, i)
            k == Max({0} \cup {j \in DOMAIN frames :
                        frames[j].ftype = "HAND" /\ i < frames[j].hindex})
        IN  PadTarget(created, p, i) = IF k = 0 THEN None
                                       ELSE frames[k].hindex

(* verifyModule, and BugException when it fails (mdata.cpp:1057-1058),     *)
(* claim of every module that its code is well formed: a conditional jump  *)
(* not taken has a next block to go to (mdata.cpp:399, 415), and the block *)
(* the code ends in has a terminator (mdata.cpp:856).                      *)
CodeVerifies ==
    \A p \in Ids(created.procs) :
        /\ \A i \in CodeIds(created, p) :
            InstrAt(created, p, i).op \in {"UJ", "BJ"}
                => i + 1 \in BlockIndexes(created, p)
        /\ Returns(created, p)
=============================================================================
