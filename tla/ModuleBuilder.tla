--------------------------- MODULE ModuleBuilder ---------------------------
(***************************************************************************)
(* Class ModuleBuilder: the tables of variable types, procedure types,     *)
(* registers and procedures a client fills, and the static checks every    *)
(* addProcInstr runs (instr.h, instr.cpp, mbuilder.cpp).                   *)
(*                                                                         *)
(* Flags are sets of flag names; "RESERVED" stands for every bit from      *)
(* xFLAG_FIRST_RESERVED up.  Instructions are the records of VMDefs.       *)
(* prefs of a variable type stay empty: no operation fills them            *)
(* (addVarTypePRef is declared and has no definition).  ills, in an entry  *)
(* of procs, is a history field no operation reads: how many instructions  *)
(* were accepted there without being stored.                               *)
(***************************************************************************)
EXTENDS ProcCon, FiniteSetsExt

CONSTANTS MODULE_VTYPES_MAX, MODULE_PTYPES_MAX,   \* sizes of the tables
          MODULE_REGS_MAX, MODULE_PROCS_MAX,
          ELT_BYTES_MAX,         \* bytes of a variable element
          ELT_VREFS_MAX,         \* references of a variable element
          VAR_COUNT_MAX,         \* elements of a variable
          UINT32,                \* modulus of the uint32_t byte arithmetic
          ByteSizes, Counts,     \* arguments clients pass
          VRefFlags, RegFlags, PTypeFlags, ProcFlags,
          Instrs                 \* instructions clients offer

ASSUME TablesAssumption ==
    /\ {MODULE_VTYPES_MAX, MODULE_PTYPES_MAX, MODULE_REGS_MAX,
        MODULE_PROCS_MAX, ELT_VREFS_MAX, VAR_COUNT_MAX} \subseteq Nat \ {0}
    /\ ELT_BYTES_MAX \in Nat /\ ELT_BYTES_MAX >= 8   \* the ED register fits
    /\ UINT32 \in Nat /\ UINT32 > ELT_BYTES_MAX
    /\ ByteSizes \subseteq Nat /\ Counts \subseteq Nat
    /\ RegFlags \subseteq SUBSET {"NON_FIXED", "TOP_LEVEL", "THREAD_LOCAL",
                                  "RESERVED"}
    /\ \A in \in Instrs :     \* the operand is a uint32_t
          in.op \in {"LDB", "STB"} => in.offset \in 0 .. UINT32 - 1

VARIABLES vtypes, ptypes, regs, procs,   \* the four tables
          procCons,                      \* one ProcCon per procedure
          created,                       \* what createModule last stored
          exc                            \* what the last call reported

vars == << vtypes, ptypes, regs, procs, procCons, created, exc >>
tables == << vtypes, ptypes, regs, procs, procCons >>

Exists(table, id) == ThrowIf(id \notin Ids(table), "NotFound")
Replace(table, id, value) == [table EXCEPT ![id + 1] = value]

NoModule == [vtypes |-> << >>, ptypes |-> << >>, regs |-> << >>,
             procs |-> << >>]

(* resetModule's preset entries: the type and the register of the          *)
(* exception descriptor.                                                   *)
PresetVarTypes == << [bytes |-> 8, vrefs |-> << >>] >>
PresetRegs == << [flags |-> {"TOP_LEVEL", "THREAD_LOCAL"}, vtype |-> 0,
                  count |-> 1] >>
PRESET_VAR_TYPE_COUNT == 1

Init ==
    /\ vtypes = PresetVarTypes
    /\ regs = PresetRegs
    /\ ptypes = << >> /\ procs = << >> /\ procCons = << >>
    /\ created = NoModule
    /\ exc = OK

-----------------------------------------------------------------------------
(* The tables.  Each operation checks in the order of the code, and adds   *)
(* its entry when no check throws.                                         *)
Call(verdict, table, entry) ==
    /\ exc' = verdict
    /\ table' = IF verdict = OK THEN Append(table, entry) ELSE table

AddVarType(bytes) ==
    /\ Call(ThrowIf(Len(vtypes) >= MODULE_VTYPES_MAX, "Range")
              & ThrowIf(bytes > ELT_BYTES_MAX, "Range"),
            vtypes, [bytes |-> bytes, vrefs |-> << >>])
    /\ UNCHANGED << ptypes, regs, procs, procCons, created >>

CountUnbounded(count) == ThrowIf(count = 0, "Range")
CountVerdict(count) == ThrowIf(count = 0 \/ count > VAR_COUNT_MAX, "Range")

VRefVerdict(id, flags, vtype, count) ==
    ThrowIf(~(flags \subseteq {"NON_FIXED"}), "Flags")
      & CountVerdict(count)
      & Exists(vtypes, id)
      & ThrowIf(Len(At(vtypes, id).vrefs) >= ELT_VREFS_MAX, "Range")
      & Exists(vtypes, vtype)
AddVarTypeVRef(id, flags, vtype, count) ==
    LET verdict == VRefVerdict(id, flags, vtype, count)
        vref == [flags |-> flags, vtype |-> vtype, count |-> count]
    IN  /\ exc' = verdict
        /\ vtypes' = IF verdict # OK THEN vtypes
                     ELSE [vtypes EXCEPT ![id + 1].vrefs = Append(@, vref)]
        /\ UNCHANGED << ptypes, regs, procs, procCons, created >>

AddProcType(flags, io) ==
    /\ Call(ThrowIf(Len(ptypes) >= MODULE_PTYPES_MAX, "Range")
              & ThrowIf("RESERVED" \in flags, "Flags")
              & Exists(regs, io),
            ptypes, [flags |-> flags, io |-> io])
    /\ UNCHANGED << vtypes, regs, procs, procCons, created >>

RegVerdict(flags, vtype, count) ==
    ThrowIf(Len(regs) >= MODULE_REGS_MAX, "Range")
      & ThrowIf("RESERVED" \in flags, "Flags")
      & ThrowIf("THREAD_LOCAL" \in flags /\ "TOP_LEVEL" \notin flags, "Flags")
      & CountVerdict(count)
      & Exists(vtypes, vtype)
AddReg(flags, vtype, count) ==
    /\ Call(RegVerdict(flags, vtype, count),
            regs, [flags |-> flags, vtype |-> vtype, count |-> count])
    /\ UNCHANGED << vtypes, ptypes, procs, procCons, created >>

AddProc(flags, ptype) ==
    LET verdict == ThrowIf(Len(procs) >= MODULE_PROCS_MAX, "Range")
                     & ThrowIf("RESERVED" \in flags, "Flags")
                     & Exists(ptypes, ptype)
    IN  /\ Call(verdict, procs,
                [flags |-> flags, ptype |-> ptype, code |-> << >>, ills |-> 0])
        /\ procCons' = IF verdict # OK THEN procCons
                       ELSE Append(procCons, NewProcCon(At(ptypes, ptype).io))
        /\ UNCHANGED << vtypes, ptypes, regs, created >>

-----------------------------------------------------------------------------
(* Operands, as the assertions of class Instr see them in procedure p.     *)

(* assertRegAllocated: a top-level register is always assigned; any other  *)
(* one must be assigned by the innermost frame that names it, in the way   *)
(* the operand asks for.                                                   *)
AllocatedAnyFrame(p, ftype, reg) ==
    \/ "TOP_LEVEL" \in At(regs, reg).flags
    \/ \E k \in DOMAIN At(procCons, p).frames :
          At(procCons, p).frames[k].reg = reg
Allocated(p, ftype, reg) ==
    LET frames == At(procCons, p).frames
        naming == {k \in DOMAIN frames : frames[k].reg = reg}
    IN  \/ "TOP_LEVEL" \in At(regs, reg).flags
        \/ /\ naming # {}
           /\ LET found == frames[Max(naming)].ftype
              IN  ftype = found \/ (ftype = "REG" /\ found # "HAND")

RegAllocated(p, ftype, reg) ==
    Exists(regs, reg) & ThrowIf(~Allocated(p, ftype, reg), "Operation")

VarTypeOf(reg) == At(vtypes, At(regs, reg).vtype)

RegHasBytes(p, reg, bytes) ==
    RegAllocated(p, "REG", reg)
      & ThrowIf(VarTypeOf(reg).bytes < bytes, "Type")

(* LDE, STE: both registers hold elements of one type.                     *)
SameElements(p, from, to) ==
    RegAllocated(p, "REG", from)
      & RegAllocated(p, "REG", to)
      & ThrowIf(At(regs, from).vtype # At(regs, to).vtype, "Type")

(* vrefSpec: reg's element has a reference number vref.                    *)
HasVRef(p, reg, vref) ==
    RegAllocated(p, "REG", reg)
      & ThrowIf(vref >= Len(VarTypeOf(reg).vrefs), "Range")

(* assertSameVarType, assertSafeRefCopy.                                   *)
SafeRefCopy(a, b) ==
    ThrowIf(\/ a.vtype # b.vtype
            \/ ("NON_FIXED" \in a.flags) # ("NON_FIXED" \in b.flags)
            \/ "NON_FIXED" \notin a.flags /\ a.count # b.count,
            "Type")

ProcCallableAnyVariable(p, target, guess) ==
    ThrowIf(Top(At(procCons, p)).ftype # "REGNR", "Operation")

(* assertProcCallable.  A register id left over from before resetModule    *)
(* reads past the end of regs: guess is what the read happens to yield.    *)
ProcCallable(p, target, guess) ==
    LET frame == Top(At(procCons, p))
        io == At(ptypes, At(procs, target).ptype).io
    IN  ThrowIf(frame.ftype # "REGNR", "Operation")
          & IF {frame.reg, io} \subseteq Ids(regs)
            THEN ThrowIf(\/ At(regs, frame.reg).vtype # At(regs, io).vtype
                         \/ At(regs, frame.reg).count # At(regs, io).count,
                         "Operation")
            ELSE ThrowIf(~guess, "Operation")

(* The bytes LDB and STB need, in uint32_t arithmetic.                     *)
BytesBefore(offset) == offset % UINT32
BytesUpTo(offset) == (offset + 1) % UINT32

Operands(p, in, guess) ==
    CASE in.op \in {"UO", "UJ"} -> RegHasBytes(p, in.it, 8)
      [] in.op \in {"BO", "BJ"} ->
            RegHasBytes(p, in.operand1, 8)
              & RegHasBytes(p, in.operand2, 8)
              & IF in.op = "BO" THEN RegHasBytes(p, in.result, 8) ELSE OK
      [] in.op = "CPI" -> RegHasBytes(p, in.to, in.size)
      [] in.op \in {"PUSH", "PUSHR"} -> Exists(regs, in.reg)
      [] in.op = "CPB" -> RegHasBytes(p, in.from, 1)
                            & RegHasBytes(p, in.to, 1)
      [] in.op \in {"LDE", "STE"} -> SameElements(p, in.from, in.to)
                                       & RegHasBytes(p, in.elt, 8)
      [] in.op = "LDB" ->
            RegHasBytes(p, in.from, BytesUpTo(in.offset))
              & RegHasBytes(p, in.to, 1)
      [] in.op = "STB" ->
            RegHasBytes(p, in.from, 1)
              & RegHasBytes(p, in.to, BytesUpTo(in.offset))
      [] in.op = "LDR" ->
            HasVRef(p, in.from, in.vref)
              & RegAllocated(p, "REGR", in.to)
              & SafeRefCopy(VarTypeOf(in.from).vrefs[in.vref + 1],
                            At(regs, in.to))
      [] in.op = "STR" ->
            RegAllocated(p, "REGR", in.from)
              & HasVRef(p, in.to, in.vref)
              & SafeRefCopy(At(regs, in.from),
                            VarTypeOf(in.to).vrefs[in.vref + 1])
      [] in.op = "CALL" -> Exists(procs, in.proc)
                             & ProcCallable(p, in.proc, guess)
      [] OTHER -> OK             \* PUSHH, POP, JMP, THROW, RET, ILL

(* What the instruction then does to the ProcCon.  For an opcode that      *)
(* VIRTUAL_CALL does not list assertConsistency() does nothing at all.     *)
Effect(con, in) ==
    CASE in.op = "PUSH" -> ApplyBeginFrame(con, "REGNR", in.reg)
      [] in.op = "PUSHR" -> ApplyBeginFrame(con, "REGR", in.reg)
      [] in.op = "PUSHH" -> ApplyBeginHandler(con, in.offset)
      [] in.op = "POP" -> ApplyEndFrame(con)
      [] in.op \in {"JMP", "UJ", "BJ"} -> ApplyInstrOffset(con, in.offset)
      [] in.op = "ILL" -> Outcome(OK, con, con)
      [] OTHER -> Outcome(ApplyDefault(con), con, con)

(* The bytes addProcInstr copies, size() of them: an ILL has none, and so  *)
(* is counted by the ProcCon but not found in the code.                    *)
Stored(proc, in) == IF in.op = "ILL" THEN [proc EXCEPT !.ills = @ + 1]
                    ELSE [proc EXCEPT !.code = Append(@, in)]

(* addProcInstr: operands first (nothing is changed when they are refused) *)
(* then the effect, then code and count.                                   *)
AddProcInstr(p, in) ==
    /\ \E guess \in BOOLEAN :
         LET con == At(procCons, p)
             operands == Operands(p, in, guess)
             outcome == IF operands = OK THEN Effect(con, in)
                        ELSE Outcome(operands, con, con)
             added == AddInstr(con, outcome)
         IN  IF p \notin Ids(procs)
             THEN exc' = "NotFound" /\ UNCHANGED << procs, procCons >>
             ELSE /\ exc' = added.exc
                  /\ procCons' = Replace(procCons, p, added.con)
                  /\ procs' = IF added.exc # OK THEN procs
                              ELSE Replace(procs, p, Stored(At(procs, p), in))
    /\ UNCHANGED << vtypes, ptypes, regs, created >>

-----------------------------------------------------------------------------
(* resetModule: ptypes is not among what it clears.                        *)
ClearedButRegs ==
    /\ vtypes' = PresetVarTypes
    /\ procs' = << >> /\ procCons' = << >>
    /\ UNCHANGED << regs, ptypes >>
Cleared ==
    /\ vtypes' = PresetVarTypes
    /\ regs' = PresetRegs
    /\ procs' = << >> /\ procCons' = << >>
    /\ UNCHANGED ptypes

ResetModule == Cleared /\ exc' = OK /\ UNCHANGED created

(* assertConsistency: no empty element type but the preset ones, and every *)
(* procedure complete.                                                     *)
ConsistencyVerdict ==
    ThrowIf(\/ \E id \in Ids(vtypes) \ 0 .. PRESET_VAR_TYPE_COUNT - 1 :
                 At(vtypes, id).bytes = 0 /\ At(vtypes, id).vrefs = << >>
            \/ \E p \in Ids(procs) : ~Consistent(At(procCons, p)),
            "Operation")

(* createModule: check, copy the tables into the new module's data         *)
(* (fillVarTypes, fillProcs, ptypes, regs), reset.                         *)
CreateModule ==
    IF ConsistencyVerdict # OK
    THEN exc' = ConsistencyVerdict /\ UNCHANGED << tables, created >>
    ELSE /\ created' = [vtypes |-> vtypes, ptypes |-> ptypes, regs |-> regs,
                        procs |-> procs]
         /\ exc' = OK
         /\ Cleared

(* Arguments: every id of the table and the first past its end.            *)
AnyId(table) == 0 .. Len(table)

Next ==
    \/ \E bytes \in ByteSizes : AddVarType(bytes)
    \/ \E id, vtype \in AnyId(vtypes), flags \in VRefFlags, count \in Counts :
          AddVarTypeVRef(id, flags, vtype, count)
    \/ \E flags \in PTypeFlags, io \in AnyId(regs) : AddProcType(flags, io)
    \/ \E flags \in RegFlags, vtype \in AnyId(vtypes), count \in Counts :
          AddReg(flags, vtype, count)
    \/ \E flags \in ProcFlags, ptype \in AnyId(ptypes) : AddProc(flags, ptype)
    \/ \E p \in AnyId(procs), in \in Instrs : AddProcInstr(p, in)
    \/ ResetModule
    \/ CreateModule

Spec == Init /\ [][Next]_vars
=============================================================================
