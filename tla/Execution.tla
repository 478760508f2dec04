----------------------------- MODULE Execution -----------------------------
(***************************************************************************)
(* Compiled code at run time: what the emitters of mdata.cpp make the      *)
(* instructions of an accepted procedure do to the stack, to the heap and  *)
(* to its reference counts, and what an exception then does to the calls   *)
(* in progress.  A client builds a module (ModuleBuilder), and Start calls *)
(* procedure 0 of it once, through callProc.                               *)
(*                                                                         *)
(* Bytes are left out: a variable is the reference it holds, of at most    *)
(* one (OneReference), and what depends on bytes, the conditional jumps    *)
(* and the index checks, goes either way.                                  *)
(***************************************************************************)
EXTENDS BuiltCode

CONSTANTS InitialRefs     \* what the heap and the caller's variable may hold

Null == 0
ASSUME RefsAssumption ==
    \A refs \in InitialRefs :
        LET H == DOMAIN refs.heap IN
        /\ IsFiniteSet(H) /\ Null \notin H
        /\ refs.heap \in [H -> H \cup {Null}] /\ refs.io \in H \cup {Null}

VARIABLES heap,           \* heap[h] = [count, ref]: a heap-allocated variable
          mem,            \* stack cells [reg, ftype, ref], the first is the
                          \* variable callProc was given
          acts,           \* calls in progress [proc, pc, env, base], innermost
                          \* last; env: by instruction, the cell its PUSH made
          run,            \* idle, running, unwinding, returned or thrown
          leaks,          \* history: counted references abandoned, by variable
          copied          \* history: LDE or STE has changed a reference

evars == << heap, mem, acts, run, leaks, copied >>

Heap == DOMAIN heap

-----------------------------------------------------------------------------
(* What is called: code whose LLVM form is well formed, that holds every   *)
(* accepted instruction, and whose jumps keep to the frames open where     *)
(* they are made.  What the builder accepts beyond that, and what it then  *)
(* does, is the other runs' subject.                                       *)
OneReference(m) ==
    /\ \A t \in Ids(m.vtypes) :
          /\ Len(At(m.vtypes, t).vrefs) <= 1
          /\ \A n \in DOMAIN At(m.vtypes, t).vrefs :
                At(m.vtypes, t).vrefs[n].count = 1
    /\ \A r \in Ids(m.regs) : At(m.regs, r).count = 1
KeepsFrames(m, p, i) ==
    LET in == InstrAt(m, p, i)
        frames == FramesAt(m, p, i)
    IN  CASE in.op \in {"UJ", "BJ", "JMP"} ->
                FramesAt(m, p, BranchIndex(in, i)) = frames
          [] in.op = "PUSHH" ->
                FramesAt(m, p, BranchIndex(in, i)) = FramesAt(m, p, i + 1)
          [] in.op \in {"LDR", "STR", "LDE", "STE"} ->
                \A reg \in {in.from, in.to} : Naming(frames, reg) # {}
          [] OTHER -> TRUE
Runnable ==
    /\ created.procs # << >>
    /\ OneReference(created)
    /\ CodeVerifies
    /\ \A p \in Ids(created.procs) : AllInCode(created, p)
    /\ \A p \in Ids(created.procs) : \A i \in CodeIds(created, p) :
          KeepsFrames(created, p, i)

-----------------------------------------------------------------------------
(* The call in progress.                                                   *)
Act == Last(acts)
In == InstrAt(created, Act.proc, Act.pc)
Frames(a) == FramesAt(created, a.proc, a.pc)
AtInstr(ops) == /\ run = "running"
                /\ Act.pc \in CodeIds(created, Act.proc)
                /\ In.op \in ops

Cell(a, frame) == a.env[frame.at]
RegFrames(frames, first) ==
    {k \in first .. Len(frames) : frames[k].ftype # "HAND"}

(* emitRegValue, dereferenced: the variable a register stands for, on the  *)
(* stack or in the heap.                                                   *)
Variable(reg) ==
    LET frame == FindFrame(Frames(Act), reg)
        cell == Cell(Act, frame)
    IN  [inHeap |-> frame.ftype = "REGR",
         at |-> IF frame.ftype = "REGR" THEN mem[cell].ref ELSE cell]
IsNull(v) == v.inHeap /\ v.at = Null
RefIn(v) == IF v.inHeap THEN heap[v.at].ref ELSE mem[v.at].ref

(* ... and the check that is made on the way.                              *)
NullDereference(in) ==
    \E reg \in Dereferences(in) :
        Naming(Frames(Act), reg) # {} /\ IsNull(Variable(reg))

(* emitIncVarRefCount, up and down: a null reference has no count, and a   *)
(* variable whose count becomes 0 stays as it is (destruction is an empty  *)
(* function).                                                              *)
Counted(hp, h, d) == IF h = Null THEN hp ELSE [hp EXCEPT ![h].count = @ + d]
Released(hp, cells) ==
    [h \in DOMAIN hp |->
        [hp[h] EXCEPT !.count = @ - Cardinality({c \in cells : mem[c].ref = h})]]
Abandon(cells) ==
    leaks' = [h \in Heap |->
                leaks[h] + Cardinality({c \in cells : mem[c].ref = h})]

GoTo(a, pc) == acts' = Append(Front(acts), [a EXCEPT !.pc = pc])
Advance == GoTo(Act, Act.pc + 1)

Write(hp, v, h) ==        \* store reference h in variable v
    IF v.inHeap THEN heap' = [hp EXCEPT ![v.at].ref = h] /\ UNCHANGED mem
    ELSE heap' = hp /\ mem' = [mem EXCEPT ![v.at].ref = h]

(* Leaving the innermost call, by return or by exception: its stack goes.  *)
Leave(how) ==
    LET rest == Front(acts) IN
    /\ mem' = SubSeq(mem, 1, Act.base)
    /\ IF how = "unwinding" \/ rest = << >>
       THEN acts' = rest
       ELSE acts' = [rest EXCEPT ![Len(rest)].pc = @ + 1]
    /\ run' = IF rest # << >> THEN how
              ELSE IF how = "running" THEN "returned" ELSE "thrown"

-----------------------------------------------------------------------------
ExecInit ==
    /\ \E refs \in InitialRefs :
        /\ heap = [h \in DOMAIN refs.heap |->
                     [ref |-> refs.heap[h],
                      count |-> Cardinality({g \in DOMAIN refs.heap :
                                               refs.heap[g] = h})
                                + IF refs.io = h THEN 1 ELSE 0]]
        /\ mem = << [reg |-> None, ftype |-> "REGNR", ref |-> refs.io] >>
        /\ leaks = [h \in DOMAIN refs.heap |-> 0]
    /\ acts = << >> /\ run = "idle" /\ copied = FALSE

Enter(proc, cell) ==
    [proc |-> proc, pc |-> 0, env |-> [i \in {None} |-> cell], base |-> Len(mem)]

(* callProc: procedure 0, with the caller's variable.                      *)
Start ==
    /\ run = "idle" /\ Runnable
    /\ acts' = << Enter(0, 1) >> /\ run' = "running"
    /\ UNCHANGED << heap, mem, leaks, copied >>

(* emitLLVMCodePUSH: a zeroed variable, or a null reference.               *)
Bound(env, i, cell) ==
    [x \in DOMAIN env \cup {i} |-> IF x = i THEN cell ELSE env[x]]
Push ==
    /\ AtInstr({"PUSH", "PUSHR"})
    /\ mem' = Append(mem, [reg |-> In.reg, ref |-> Null, ftype |->
                              IF In.op = "PUSHR" THEN "REGR" ELSE "REGNR"])
    /\ GoTo([Act EXCEPT !.env = Bound(@, Act.pc, Len(mem'))], Act.pc + 1)
    /\ UNCHANGED << heap, run, leaks, copied >>

(* emitLLVMCodePOP: release what the variable refers to, and restore the   *)
(* stack to what it was before the PUSH.                                   *)
RestoredToEntry(cell) == SubSeq(mem, 1, Act.base)
Restored(cell) == SubSeq(mem, 1, cell - 1)
Pop ==
    /\ AtInstr({"POP"})
    /\ LET frame == Last(Frames(Act)) IN
         IF frame.ftype = "HAND" THEN UNCHANGED << heap, mem >>
         ELSE LET cell == Cell(Act, frame) IN
              /\ heap' = Released(heap, {cell})
              /\ mem' = Restored(cell)
    /\ Advance
    /\ UNCHANGED << run, leaks, copied >>

(* Instructions that only touch bytes, and PUSHH, which emits nothing.     *)
Operate ==
    /\ AtInstr({"PUSHH", "UO", "BO", "CPI", "CPB", "LDB", "STB"})
    /\ ~NullDereference(In)
    /\ Advance
    /\ UNCHANGED << heap, mem, run, leaks, copied >>

Jump ==
    /\ AtInstr({"JMP", "UJ", "BJ"})
    /\ ~NullDereference(In)
    /\ \/ GoTo(Act, BranchIndex(In, Act.pc))
       \/ In.op # "JMP" /\ Advance
    /\ UNCHANGED << heap, mem, run, leaks, copied >>

(* emitLLVMCodeLDR, emitLLVMCodeSTR: retain the new reference, release the *)
(* old one, store.                                                         *)
Move(from, to, old) ==
    LET new == IF In.op = "LDR" THEN RefIn(from) ELSE mem[from].ref
    IN  Write(Counted(Counted(heap, new, 1), old, -1), to, new)
LoadRef ==
    /\ AtInstr({"LDR"})
    /\ ~NullDereference(In)
    /\ LET to == Cell(Act, FindFrame(Frames(Act), In.to))
       IN  Move(Variable(In.from), [inHeap |-> FALSE, at |-> to], mem[to].ref)
    /\ Advance
    /\ UNCHANGED << run, leaks, copied >>
StoreRef ==
    /\ AtInstr({"STR"})
    /\ ~NullDereference(In)
    /\ LET to == Variable(In.to)
       IN  Move(Cell(Act, FindFrame(Frames(Act), In.from)), to, RefIn(to))
    /\ Advance
    /\ UNCHANGED << run, leaks, copied >>

(* emitLLVMCodeLDE, emitLLVMCodeSTE: the element is copied as it is, its   *)
(* reference included.                                                     *)
CopyElement ==
    /\ AtInstr({"LDE", "STE"})
    /\ ~NullDereference(In)
    /\ LET new == RefIn(Variable(In.from))
           to == Variable(In.to)
       IN  /\ Write(heap, to, new)
           /\ copied' = (copied \/ new # RefIn(to))
    /\ Advance
    /\ UNCHANGED << run, leaks >>

(* emitThrowIfNot, of a null reference or of an element past the end: the  *)
(* throw is a plain call, so nothing of this procedure catches it or       *)
(* cleans up; STR has already retained the reference it was to store.      *)
(* (Of a reference that is not fixed the code checks element 0 as well     *)
(* (mdata.cpp:296-312): every heap variable here has it.)                  *)
Fail ==
    /\ run = "running" /\ Act.pc \in CodeIds(created, Act.proc)
    /\ NullDereference(In) \/ In.op \in {"LDE", "STE"}
    /\ LET frames == Frames(Act)
           open == {Cell(Act, frames[k]) : k \in RegFrames(frames, 2)}
           stored == IF In.op # "STR" THEN Null
                     ELSE mem[Cell(Act, FindFrame(frames, In.from))].ref
       IN  /\ heap' = Counted(heap, stored, 1)
           /\ leaks' = [h \in Heap |->
                 leaks[h] + Cardinality({c \in open : mem[c].ref = h})
                          + IF stored = h THEN 1 ELSE 0]
    /\ Leave("unwinding")
    /\ UNCHANGED copied

(* emitLLVMCodeCALL: the callee gets the variable of the innermost frame.  *)
ArgumentOwn(a) == a.env[None]
Argument(a) == Cell(a, Last(Frames(a)))
CallProcedure ==
    /\ AtInstr({"CALL"})
    /\ acts' = Append(acts, Enter(In.proc, Argument(Act)))
    /\ UNCHANGED << heap, mem, run, leaks, copied >>

(* emitLLVMCodeRET, and the return after the last instruction: no frame is *)
(* cleaned up.                                                             *)
Return ==
    /\ run = "running"
    /\ Act.pc \in CodeIds(created, Act.proc) => In.op = "RET"
    /\ LET frames == Frames(Act)
       IN  Abandon({Cell(Act, frames[k]) : k \in RegFrames(frames, 2)})
    /\ Leave("running")
    /\ UNCHANGED << heap, copied >>

Throw ==
    /\ AtInstr({"THROW"})
    /\ run' = "unwinding"
    /\ UNCHANGED << heap, mem, acts, leaks, copied >>

(* emitFuncCall's landing pad, for an exception that leaves the CALL or    *)
(* THROW the innermost call is at: the frames above the one that catches   *)
(* are cleaned up, the first two never, and the stack stays as it is.      *)
PadCleansAll(frames, k) == RegFrames(frames, 3)
PadCleans(frames, k) == RegFrames(frames, IF k = 0 THEN 3 ELSE k + 1)
Unwind ==
    /\ run = "unwinding"
    /\ LET frames == Frames(Act)
           k == Catcher(frames, BuiltAt(created, Act.proc, Act.pc))
           cleaned == {Cell(Act, frames[j]) : j \in PadCleans(frames, k)}
           open == {Cell(Act, frames[j]) : j \in RegFrames(frames, 2)}
       IN  IF Len(frames) = 1
           THEN Leave("unwinding") /\ UNCHANGED << heap, leaks >>
           ELSE /\ heap' = Released(heap, cleaned)
                /\ IF k = 0
                   THEN Leave("unwinding") /\ Abandon(open \ cleaned)
                   ELSE /\ GoTo(Act, frames[k].hindex) /\ run' = "running"
                        /\ UNCHANGED << mem, leaks >>
    /\ UNCHANGED copied

Execute == \/ Push \/ Pop \/ Operate \/ Jump \/ LoadRef \/ StoreRef
           \/ CopyElement \/ Fail \/ CallProcedure \/ Return \/ Throw \/ Unwind

ENext == \/ run = "idle" /\ Next /\ UNCHANGED evars
         \/ Start /\ UNCHANGED vars
         \/ Execute /\ UNCHANGED vars

ESpec == Init /\ ExecInit /\ [][ENext]_<< vars, evars >>

-----------------------------------------------------------------------------
(* The cells the frames open in call a stand for, its own first.           *)
OpenCells(a) == LET frames == Frames(a)
                IN  {Cell(a, frames[k]) : k \in RegFrames(frames, 1)}
Open == {1} \cup UNION {OpenCells(acts[n]) : n \in DOMAIN acts}

HeldBy(h) ==
    Cardinality({c \in Open : mem[c].ref = h})
        + Cardinality({g \in Heap : heap[g].ref = h})

(* Through every branch, call, return and exception, the register frames   *)
(* the code generator believes open at an instruction have their cells on  *)
(* the stack, made for that register, in order, above those of the callers *)
(* (mdata.cpp:456-483, 551-565, 678-711).                                  *)
FramesOnStack ==
    \A n \in DOMAIN acts :
        LET a == acts[n]
            frames == Frames(a)
            open == RegFrames(frames, 2)
        IN  /\ a.env[None] <= a.base /\ a.base <= Len(mem)
            /\ \A k \in open :
                /\ frames[k].at \in DOMAIN a.env
                /\ Cell(a, frames[k]) \in a.base + 1 .. Len(mem)
                /\ n < Len(acts) => Cell(a, frames[k]) <= acts[n + 1].base
                /\ mem[Cell(a, frames[k])].reg = frames[k].reg
                /\ mem[Cell(a, frames[k])].ftype = frames[k].ftype
                /\ \A j \in open :
                      j < k => Cell(a, frames[j]) < Cell(a, frames[k])

(* Until LDE or STE changes one, the count of a heap variable is the       *)
(* number of references to it from open frames and from the heap, and of   *)
(* those abandoned: by RET inside a frame, by a failed check (the          *)
(* reference STR had retained among them), and in a procedure's first      *)
(* frame by an exception.  So nothing is ever counted too low, by a pad    *)
(* that cleans up twice for one; what those steps abandon is taken from    *)
(* the code, not judged.                                                   *)
CountsExact ==
    ~copied => \A h \in Heap : heap[h].count = HeldBy(h) + leaks[h]

(* A call changes no variable of its callers but the one it was passed:    *)
(* that of the frame innermost at the CALL (mdata.cpp:713-717).            *)
CallsKeepToTheirIO ==
    [][ Len(acts) > 1 =>
          \A c \in 1 .. Act.base :
             /\ c \in DOMAIN mem'
             /\ c # Cell(acts[Len(acts) - 1], Last(Frames(acts[Len(acts) - 1])))
                  => mem'[c] = mem[c] ]_evars

(* vm.txt:36-38: "Each new reference to heap-allocated variable increments *)
(* the counter"; LDE and STE make references without (mdata.cpp:588-596,   *)
(* 628-636).                                                               *)
ReferencesAreCounted == \A h \in Heap : heap[h].count >= HeldBy(h)
=============================================================================
