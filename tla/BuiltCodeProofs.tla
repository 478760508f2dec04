-------------------------- MODULE BuiltCodeProofs --------------------------
(***************************************************************************)
(* Proofs about BuiltCode, for every size of the tables, every set of      *)
(* instructions a client may offer and every argument of the calls: the    *)
(* tables keep their types and limits, and every id stored in them, or in  *)
(* a created module, names an entry.  First what an accepted check says of *)
(* the ids it saw, then what each kind of entry does to well-formed        *)
(* tables, then one lemma per call.                                        *)
(***************************************************************************)
EXTENDS BuiltCode, ProcConProofs

(* A sequence of checks passes when each of them does.                     *)
LEMMA CheckFacts ==
    /\ \A a, b : (a & b = OK) <=> (a = OK /\ b = OK)
    /\ \A a, b \in Verdicts : a & b \in Verdicts
  BY DEF &, OK

LEMMA ExistsFacts ==
    ASSUME NEW table, NEW id
    PROVE  /\ Exists(table, id) \in Verdicts
           /\ (Exists(table, id) = OK) <=> (id \in Ids(table))
  BY DEF Exists, ThrowIf, Verdicts, Exceptions, OK

LEMMA AllocatedFacts ==
    ASSUME NEW p, NEW ftype, NEW reg
    PROVE  /\ RegAllocated(p, ftype, reg) \in Verdicts
           /\ RegAllocated(p, ftype, reg) = OK =>
                  reg \in Ids(regs) /\ Allocated(p, ftype, reg)
  <1> DEFINE a == ThrowIf(~Allocated(p, ftype, reg), "Operation")
  <1>1. a \in Verdicts /\ (a = OK => Allocated(p, ftype, reg))
    BY DEF ThrowIf, Verdicts, Exceptions, OK
  <1>2. RegAllocated(p, ftype, reg) = (Exists(regs, reg) & a)
    BY DEF RegAllocated
  <1> HIDE DEF a
  <1>. QED  BY <1>1, <1>2, CheckFacts, ExistsFacts

LEMMA BytesFacts ==
    ASSUME NEW p, NEW reg, NEW bytes
    PROVE  /\ RegHasBytes(p, reg, bytes) \in Verdicts
           /\ RegHasBytes(p, reg, bytes) = OK =>
                  /\ reg \in Ids(regs) /\ Allocated(p, "REG", reg)
                  /\ ~(VarTypeOf(reg).bytes < bytes)
  <1> DEFINE a == ThrowIf(VarTypeOf(reg).bytes < bytes, "Type")
  <1>1. a \in Verdicts /\ (a = OK => ~(VarTypeOf(reg).bytes < bytes))
    BY DEF ThrowIf, Verdicts, Exceptions, OK
  <1>2. RegHasBytes(p, reg, bytes) = (RegAllocated(p, "REG", reg) & a)
    BY DEF RegHasBytes
  <1> HIDE DEF a
  <1>. QED  BY <1>1, <1>2, CheckFacts, AllocatedFacts

LEMMA ElementsFacts ==
    ASSUME NEW p, NEW from, NEW to
    PROVE  /\ SameElements(p, from, to) \in Verdicts
           /\ SameElements(p, from, to) = OK =>
                  /\ {from, to} \subseteq Ids(regs)
                  /\ Allocated(p, "REG", from) /\ Allocated(p, "REG", to)
  <1> DEFINE a == RegAllocated(p, "REG", from)
             b == RegAllocated(p, "REG", to)
             c == ThrowIf(At(regs, from).vtype # At(regs, to).vtype, "Type")
  <1>1. c \in Verdicts
    BY DEF ThrowIf, Verdicts, Exceptions, OK
  <1>2. SameElements(p, from, to) = (a & b & c)
    BY DEF SameElements
  <1>3. /\ a \in Verdicts
        /\ a = OK => from \in Ids(regs) /\ Allocated(p, "REG", from)
        /\ b \in Verdicts
        /\ b = OK => to \in Ids(regs) /\ Allocated(p, "REG", to)
    BY AllocatedFacts
  <1> HIDE DEF a, b, c
  <1>. QED  BY <1>1, <1>2, <1>3, CheckFacts

LEMMA VRefFacts ==
    ASSUME NEW p, NEW reg, NEW vref
    PROVE  /\ HasVRef(p, reg, vref) \in Verdicts
           /\ HasVRef(p, reg, vref) = OK =>
                  reg \in Ids(regs) /\ Allocated(p, "REG", reg)
  <1> DEFINE a == ThrowIf(vref >= Len(VarTypeOf(reg).vrefs), "Range")
  <1>1. a \in Verdicts
    BY DEF ThrowIf, Verdicts, Exceptions, OK
  <1>2. HasVRef(p, reg, vref) = (RegAllocated(p, "REG", reg) & a)
    BY DEF HasVRef
  <1> HIDE DEF a
  <1>. QED  BY <1>1, <1>2, CheckFacts, AllocatedFacts

LEMMA CopyFacts == ASSUME NEW a, NEW b PROVE SafeRefCopy(a, b) \in Verdicts
  BY DEF SafeRefCopy, ThrowIf, Verdicts, Exceptions, OK

LEMMA CallableFacts ==
    ASSUME NEW p, NEW target, NEW guess
    PROVE  ProcCallable(p, target, guess) \in Verdicts
  BY DEF ProcCallable, &, ThrowIf, Verdicts, Exceptions, OK

(* The operands of an instruction: what the checks return, the ids they    *)
(* leave nothing to doubt about, and the frames that were open for them.   *)
InstrAllowed(p, in, guess) ==
    /\ \A reg \in Dereferences(in) : Allocated(p, "REG", reg)
    /\ \A reg \in References(in) : Allocated(p, "REGR", reg)
    /\ in.op = "CALL" => ProcCallable(p, in.proc, guess) = OK

LEMMA OperandsFacts ==
    ASSUME NEW p, NEW in, NEW guess
    PROVE  /\ Operands(p, in, guess) \in Verdicts
           /\ Operands(p, in, guess) = OK =>
                  InstrResolves(Current, in) /\ InstrAllowed(p, in, guess)
  <1> DEFINE v == Operands(p, in, guess)
             Good == /\ v \in Verdicts
                     /\ v = OK => /\ InstrResolves(Current, in)
                                  /\ InstrAllowed(p, in, guess)
  <1>0. Current.regs = regs /\ Current.procs = procs /\ OK \in Verdicts
    BY DEF Current, Verdicts
  <1>1. CASE in.op \in {"UO", "UJ"}
    <2>1. v = RegHasBytes(p, in.it, 8)
      BY <1>1 DEF Operands
    <2>. QED  BY <1>0, <1>1, <2>1, BytesFacts DEF InstrResolves, InstrAllowed, Dereferences, References
  <1>2. CASE in.op = "BO"
    <2>1. v = (RegHasBytes(p, in.operand1, 8) & RegHasBytes(p, in.operand2, 8)
                 & RegHasBytes(p, in.result, 8))
      BY <1>2 DEF Operands
    <2>. QED  BY <1>0, <1>2, <2>1, BytesFacts, CheckFacts
              DEF InstrResolves, InstrAllowed, Dereferences, References
  <1>3. CASE in.op = "BJ"
    <2>1. v = (RegHasBytes(p, in.operand1, 8) & RegHasBytes(p, in.operand2, 8) & OK)
      BY <1>3 DEF Operands
    <2>. QED  BY <1>0, <1>3, <2>1, BytesFacts, CheckFacts
              DEF InstrResolves, InstrAllowed, Dereferences, References
  <1>4. CASE in.op = "CPI"
    <2>1. v = RegHasBytes(p, in.to, in.size)
      BY <1>4 DEF Operands
    <2>. QED  BY <1>0, <1>4, <2>1, BytesFacts DEF InstrResolves, InstrAllowed, Dereferences, References
  <1>5. CASE in.op \in {"PUSH", "PUSHR"}
    <2>1. v = Exists(regs, in.reg)
      BY <1>5 DEF Operands
    <2>. QED  BY <1>0, <1>5, <2>1, ExistsFacts DEF InstrResolves, InstrAllowed, Dereferences, References
  <1>6. CASE in.op = "CPB"
    <2>1. v = (RegHasBytes(p, in.from, 1) & RegHasBytes(p, in.to, 1))
      BY <1>6 DEF Operands
    <2>. QED  BY <1>0, <1>6, <2>1, BytesFacts, CheckFacts
              DEF InstrResolves, InstrAllowed, Dereferences, References
  <1>7. CASE in.op \in {"LDE", "STE"}
    <2>1. v = (SameElements(p, in.from, in.to) & RegHasBytes(p, in.elt, 8))
      BY <1>7 DEF Operands
    <2>. QED  BY <1>0, <1>7, <2>1, ElementsFacts, BytesFacts, CheckFacts
              DEF InstrResolves, InstrAllowed, Dereferences, References
  <1>8. CASE in.op = "LDB"
    <2>1. v = (RegHasBytes(p, in.from, BytesUpTo(in.offset)) & RegHasBytes(p, in.to, 1))
      BY <1>8 DEF Operands
    <2>. QED  BY <1>0, <1>8, <2>1, BytesFacts, CheckFacts
              DEF InstrResolves, InstrAllowed, Dereferences, References
  <1>9. CASE in.op = "STB"
    <2>1. v = (RegHasBytes(p, in.from, 1) & RegHasBytes(p, in.to, BytesUpTo(in.offset)))
      BY <1>9 DEF Operands
    <2>. QED  BY <1>0, <1>9, <2>1, BytesFacts, CheckFacts
              DEF InstrResolves, InstrAllowed, Dereferences, References
  <1>10. CASE in.op = "LDR"
    <2> DEFINE c == SafeRefCopy(VarTypeOf(in.from).vrefs[in.vref + 1], At(regs, in.to))
    <2>1. v = (HasVRef(p, in.from, in.vref) & RegAllocated(p, "REGR", in.to) & c)
      BY <1>10 DEF Operands
    <2>2. c \in Verdicts
      BY CopyFacts
    <2> HIDE DEF c
    <2>. QED  BY <1>0, <1>10, <2>1, <2>2, VRefFacts, AllocatedFacts, CheckFacts
              DEF InstrResolves, InstrAllowed, Dereferences, References
  <1>11. CASE in.op = "STR"
    <2> DEFINE c == SafeRefCopy(At(regs, in.from), VarTypeOf(in.to).vrefs[in.vref + 1])
    <2>1. v = (RegAllocated(p, "REGR", in.from) & HasVRef(p, in.to, in.vref) & c)
      BY <1>11 DEF Operands
    <2>2. c \in Verdicts
      BY CopyFacts
    <2> HIDE DEF c
    <2>. QED  BY <1>0, <1>11, <2>1, <2>2, VRefFacts, AllocatedFacts, CheckFacts
              DEF InstrResolves, InstrAllowed, Dereferences, References
  <1>12. CASE in.op = "CALL"
    <2>1. v = (Exists(procs, in.proc) & ProcCallable(p, in.proc, guess))
      BY <1>12 DEF Operands
    <2>. QED  BY <1>0, <1>12, <2>1, ExistsFacts, CallableFacts, CheckFacts
              DEF InstrResolves, InstrAllowed, Dereferences, References
  <1>13. CASE in.op \notin {"UO", "UJ", "BO", "BJ", "CPI", "PUSH", "PUSHR", "CPB",
                            "LDE", "STE", "LDB", "STB", "LDR", "STR", "CALL"}
    <2>1. v = OK
      BY <1>13 DEF Operands
    <2>. QED  BY <1>0, <1>13, <2>1 DEF InstrResolves, InstrAllowed, Dereferences, References
  <1>. QED  BY <1>1, <1>2, <1>3, <1>4, <1>5, <1>6, <1>7, <1>8, <1>9, <1>10, <1>11,
               <1>12, <1>13

(* What a check of ProcCon may return, given c: a verdict and a ProcCon,    *)
(* with the instruction not yet counted, and c itself when it throws.      *)
Outcomes(o, c, R) ==
    \E v \in Verdicts : \E d :
        /\ o = [exc |-> v, con |-> d]
        /\ ConType(d, R) /\ d.instrCount = c.instrCount
        /\ v # OK => d = c

LEMMA ThrownOutcome ==
    ASSUME NEW R, NEW c, ConType(c, R), NEW v \in Verdicts
    PROVE  Outcomes([exc |-> v, con |-> c], c, R)
  BY DEF Outcomes

LEMMA BeginOutcome ==
    ASSUME NEW R, NEW c, ConType(c, R), NEW ftype \in FrameTypes, NEW reg \in R
    PROVE  Outcomes(ApplyBeginFrame(c, ftype, reg), c, R)
  <1>1. PICK v, d :
            /\ v \in Verdicts
            /\ ApplyBeginFrame(c, ftype, reg) = [exc |-> v, con |-> d]
            /\ ConType(d, R)
            /\ v # OK => d = c
            /\ v = OK => d = PushFrame(c, ftype, reg)
    BY BeginFacts
  <1>2. d.instrCount = c.instrCount
    BY <1>1, PushFrameFacts
  <1>. QED  BY <1>1, <1>2 DEF Outcomes

LEMMA OffsetOutcome ==
    ASSUME NEW R, NEW c, ConType(c, R), NEW offset
    PROVE  Outcomes(ApplyInstrOffset(c, offset), c, R)
  <1>1. CASE offset \notin INSTR_OFFSET_MIN .. INSTR_OFFSET_MAX
    <2>1. ApplyInstrOffset(c, offset) = [exc |-> "Range", con |-> c]
      BY <1>1 DEF ApplyInstrOffset, Outcome, OK
    <2>2. "Range" \in Verdicts
      BY VerdictFacts DEF Verdicts
    <2>. QED  BY <2>1, <2>2, ThrownOutcome
  <1>2. CASE offset \in INSTR_OFFSET_MIN .. INSTR_OFFSET_MAX
    <2>1. offset \in Int
      BY <1>2, BoundsAssumption
    <2>2. PICK v, d :
              /\ v \in Verdicts
              /\ ApplyInstrOffset(c, offset) = [exc |-> v, con |-> d]
              /\ ConType(d, R)
              /\ v # OK => d = c
              /\ v = OK => /\ c.instrCount + offset \in Nat
                           /\ d = AddJump(c, c.instrCount + offset)
      BY <2>1, OffsetFacts
    <2>3. d.instrCount = c.instrCount
      BY <2>2, AddJumpFacts
    <2>. QED  BY <2>2, <2>3 DEF Outcomes
  <1>. QED  BY <1>1, <1>2

LEMMA EndOutcome ==
    ASSUME NEW R, NEW c, ConType(c, R)
    PROVE  Outcomes(ApplyEndFrame(c), c, R)
  <1>1. PICK v, d :
            /\ v \in Verdicts
            /\ ApplyEndFrame(c) = [exc |-> v, con |-> d]
            /\ ConType(d, R)
            /\ v # OK => d = c
            /\ v = OK => d = PopFrame(c) /\ Len(c.frames) # 1
    BY EndFacts
  <1>2. d.instrCount = c.instrCount
    BY <1>1, PopFrameFacts
  <1>. QED  BY <1>1, <1>2 DEF Outcomes

(* A handler whose offset is out of range is refused, and its frame taken  *)
(* off again.                                                              *)
LEMMA HandlerOutcome ==
    ASSUME NEW R, NEW c, ConType(c, R), PRESET_REG_ED \in R, NEW offset
    PROVE  Outcomes(ApplyBeginHandler(c, offset), c, R)
  <1>0. "HAND" \in FrameTypes /\ "Range" \in Verdicts
    BY DEF FrameTypes, Verdicts, Exceptions
  <1>1. CASE offset \in INSTR_OFFSET_MIN .. INSTR_OFFSET_MAX
    <2>1. offset \in Int
      BY <1>1, BoundsAssumption
    <2>. QED  BY <2>1, HandlerFacts DEF Outcomes
  <1>2. CASE offset \notin INSTR_OFFSET_MIN .. INSTR_OFFSET_MAX
    <2>1. PICK u, b :
              /\ u \in Verdicts
              /\ ApplyBeginFrame(c, "HAND", PRESET_REG_ED) = [exc |-> u, con |-> b]
              /\ u # OK => b = c
              /\ u = OK => b = PushFrame(c, "HAND", PRESET_REG_ED)
      BY <1>0, BeginFacts
    <2>2. CASE u # OK
      <3>1. ApplyBeginHandler(c, offset) = [exc |-> u, con |-> c]
        BY <2>1, <2>2 DEF ApplyBeginHandler
      <3>. QED  BY <2>1, <3>1, ThrownOutcome
    <2>3. CASE u = OK
      <3>1. PopFrame(b) = c
        BY <1>0, <2>1, <2>3, PushFrameFacts
      <3>2. ApplyInstrOffset(b, offset) = [exc |-> "Range", con |-> b]
        BY <1>2 DEF ApplyInstrOffset, Outcome, OK
      <3>3. ApplyBeginHandler(c, offset) = [exc |-> "Range", con |-> c]
        BY <2>1, <2>3, <3>1, <3>2 DEF ApplyBeginHandler, OK
      <3>. QED  BY <1>0, <3>3, ThrownOutcome
    <2>. QED  BY <2>2, <2>3
  <1>. QED  BY <1>1, <1>2

(* What an instruction does to the ProcCon, whichever it is.               *)
LEMMA EffectFacts ==
    ASSUME NEW R, PRESET_REG_ED \in R, NEW c, ConType(c, R), NEW in,
           in.op \in {"PUSH", "PUSHR"} => in.reg \in R
    PROVE  Outcomes(Effect(c, in), c, R)
  <1>1. CASE in.op \in {"PUSH", "PUSHR"}
    <2>1. PICK ftype \in {"REGNR", "REGR"} :
              Effect(c, in) = ApplyBeginFrame(c, ftype, in.reg)
      BY <1>1 DEF Effect
    <2>2. PICK reg \in R : reg = in.reg
      BY <1>1
    <2>. QED  BY <2>1, <2>2, BeginOutcome DEF FrameTypes
  <1>2. CASE in.op = "PUSHH"
    <2>1. Effect(c, in) = ApplyBeginHandler(c, in.offset)
      BY <1>2 DEF Effect
    <2>. QED  BY <2>1, HandlerOutcome
  <1>3. CASE in.op = "POP"
    <2>1. Effect(c, in) = ApplyEndFrame(c)
      BY <1>3 DEF Effect
    <2>. QED  BY <2>1, EndOutcome
  <1>4. CASE in.op \in {"JMP", "UJ", "BJ"}
    <2>1. Effect(c, in) = ApplyInstrOffset(c, in.offset)
      BY <1>4 DEF Effect
    <2>. QED  BY <2>1, OffsetOutcome
  <1>5. CASE in.op = "ILL"
    <2>1. Effect(c, in) = [exc |-> OK, con |-> c]
      BY <1>5 DEF Effect, Outcome
    <2>2. OK \in Verdicts
      BY DEF Verdicts
    <2>. QED  BY <2>1, <2>2, ThrownOutcome
  <1>6. CASE in.op \notin {"PUSHH", "POP", "JMP", "UJ", "BJ", "PUSH", "PUSHR", "ILL"}
    <2>1. Effect(c, in) = [exc |-> ApplyDefault(c), con |-> c]
      BY <1>6 DEF Effect, Outcome
    <2>. QED  BY <2>1, DefaultFacts, ThrownOutcome
  <1>. QED  BY <1>1, <1>2, <1>3, <1>4, <1>5, <1>6

-----------------------------------------------------------------------------
(* The tables.  The lemmas are about four tables given as values; the      *)
(* calls below instantiate them with the variables.                        *)
Tables(vt, pt, rg, pr) == [vtypes |-> vt, ptypes |-> pt, regs |-> rg, procs |-> pr]
Sound(m) == TablesTyped(m) /\ TablesResolve(m)

(* u is t with one entry more, with another entry id.                      *)
Grown(u, t, e) ==
    /\ Len(t) \in Nat /\ Len(u) = Len(t) + 1
    /\ Ids(u) = Ids(t) \cup {Len(t)} /\ Len(t) \notin Ids(t)
    /\ At(u, Len(t)) = e
    /\ \A i \in Ids(t) : At(u, i) = At(t, i)
Changed(u, t, id, e) ==
    /\ Len(u) = Len(t) /\ Ids(u) = Ids(t)
    /\ At(u, id) = e
    /\ \A i \in Ids(t) \ {id} : At(u, i) = At(t, i)

LEMMA AppendFacts ==
    ASSUME NEW S, NEW t \in Seq(S), NEW e \in S
    PROVE  Append(t, e) \in Seq(S) /\ Grown(Append(t, e), t, e)
  BY DEF At, Ids, Grown

LEMMA ReplaceFacts ==
    ASSUME NEW S, NEW t \in Seq(S), NEW id \in Ids(t), NEW e \in S
    PROVE  Replace(t, id, e) \in Seq(S) /\ Changed(Replace(t, id, e), t, id, e)
  BY DEF At, Ids, Replace, Changed

LEMMA EntryFacts ==
    ASSUME NEW S, NEW t \in Seq(S)
    PROVE  Len(t) \in Nat /\ \A i \in Ids(t) : At(t, i) \in S /\ i \in Nat
  BY DEF At, Ids

(* An instruction keeps its ids when no table gets shorter.                *)
LEMMA InstrKept ==
    ASSUME NEW m, NEW n, NEW in, InstrResolves(m, in),
           Ids(m.regs) \subseteq Ids(n.regs), Ids(m.procs) \subseteq Ids(n.procs)
    PROVE  InstrResolves(n, in)
  BY DEF InstrResolves

(* Tables keep sound when their variable types change into sound ones.     *)
LEMMA VarTypesChanged ==
    ASSUME NEW vt, NEW pt, NEW rg, NEW pr, Sound(Tables(vt, pt, rg, pr)),
           NEW u \in Seq(VarTypes), Len(u) <= MODULE_VTYPES_MAX,
           Ids(vt) \subseteq Ids(u),
           \A t \in Ids(u) : /\ Len(At(u, t).vrefs) <= ELT_VREFS_MAX
                             /\ \A k \in DOMAIN At(u, t).vrefs :
                                    At(u, t).vrefs[k].vtype \in Ids(u)
    PROVE  Sound(Tables(u, pt, rg, pr))
  <1> DEFINE m == Tables(vt, pt, rg, pr)
             n == Tables(u, pt, rg, pr)
  <1>1. TablesTyped(n)
    BY DEF Sound, TablesTyped, Tables
  <1>2. VRefsResolve(n)
    BY DEF VRefsResolve, Tables
  <1>3. RegsResolve(n)
    BY DEF Sound, TablesResolve, RegsResolve, Tables
  <1>4. ProcsResolve(n)
    <2>1. ProcsResolve(m)
      BY DEF Sound, TablesResolve
    <2>. QED  BY <2>1 DEF ProcsResolve, InstrResolves, Tables, Code, CodeIds, InstrAt
  <1>. QED  BY <1>1, <1>2, <1>3, <1>4 DEF Sound, TablesResolve

(* addVarType: a type without references.                                  *)
LEMMA VarTypeAdded ==
    ASSUME NEW vt, NEW pt, NEW rg, NEW pr, Sound(Tables(vt, pt, rg, pr)),
           NEW bytes \in 0 .. ELT_BYTES_MAX, Len(vt) < MODULE_VTYPES_MAX,
           NEW e, e = [bytes |-> bytes, vrefs |-> << >>],
           NEW u, u = Append(vt, e)
    PROVE  Sound(Tables(u, pt, rg, pr))
  <1>1. e \in VarTypes /\ e.vrefs = << >>
    BY DEF VarTypes
  <1>2. vt \in Seq(VarTypes) /\ MODULE_VTYPES_MAX \in Nat /\ ELT_VREFS_MAX \in Nat
    BY TablesAssumption DEF Sound, TablesTyped, Tables
  <1>3. u \in Seq(VarTypes) /\ Grown(u, vt, e)
    BY <1>1, <1>2, AppendFacts
  <1>4. Len(u) <= MODULE_VTYPES_MAX
    BY <1>2, <1>3 DEF Grown
  <1>5. ASSUME NEW t \in Ids(u)
        PROVE  /\ Len(At(u, t).vrefs) <= ELT_VREFS_MAX
               /\ \A k \in DOMAIN At(u, t).vrefs : At(u, t).vrefs[k].vtype \in Ids(u)
    <2>1. CASE At(u, t) = e
      BY <1>1, <1>2, <2>1
    <2>2. CASE t \in Ids(vt) /\ At(u, t) = At(vt, t)
      BY <1>3, <2>2
      DEF Grown, Sound, TablesTyped, TablesResolve, VRefsResolve, Tables
    <2>. QED  BY <1>3, <2>1, <2>2 DEF Grown
  <1>6. Ids(vt) \subseteq Ids(u)
    BY <1>3 DEF Grown
  <1>. QED  BY <1>3, <1>4, <1>5, <1>6, VarTypesChanged

(* addVarTypeVRef: one more reference in type id.                          *)
LEMMA VRefAdded ==
    ASSUME NEW vt, NEW pt, NEW rg, NEW pr, Sound(Tables(vt, pt, rg, pr)),
           NEW id \in Ids(vt), Len(At(vt, id).vrefs) < ELT_VREFS_MAX,
           NEW vref \in VarSpecs, vref.vtype \in Ids(vt),
           NEW e, e = [At(vt, id) EXCEPT !.vrefs = Append(@, vref)],
           NEW u, u = Replace(vt, id, e)
    PROVE  Sound(Tables(u, pt, rg, pr))
  <1>1. vt \in Seq(VarTypes) /\ ELT_VREFS_MAX \in Nat
    BY TablesAssumption DEF Sound, TablesTyped, Tables
  <1>2. At(vt, id) \in VarTypes
    BY <1>1, EntryFacts
  <1> DEFINE vs == At(vt, id).vrefs
             ws == Append(vs, vref)
  <1>3. vs \in Seq(VarSpecs)
    BY <1>2 DEF VarTypes
  <1>4. /\ ws \in Seq(VarSpecs) /\ Len(ws) = Len(vs) + 1 /\ Len(vs) \in Nat
        /\ \A k \in DOMAIN ws : ws[k] = vref \/ (k \in DOMAIN vs /\ ws[k] = vs[k])
    <2> HIDE DEF vs
    <2>. QED  BY <1>3
  <1> HIDE DEF vs, ws
  <1>5. e \in VarTypes /\ e.vrefs = ws
    BY <1>2, <1>4 DEF VarTypes, vs, ws
  <1>6. u \in Seq(VarTypes) /\ Changed(u, vt, id, e)
    BY <1>1, <1>5, ReplaceFacts
  <1>7. Len(u) <= MODULE_VTYPES_MAX /\ Ids(u) = Ids(vt)
    BY <1>6 DEF Changed, Sound, TablesTyped, Tables
  <1>8. \A k \in DOMAIN vs : vs[k].vtype \in Ids(vt)
    BY DEF Sound, TablesResolve, VRefsResolve, Tables, vs
  <1>9. ASSUME NEW t \in Ids(u)
        PROVE  /\ Len(At(u, t).vrefs) <= ELT_VREFS_MAX
               /\ \A k \in DOMAIN At(u, t).vrefs : At(u, t).vrefs[k].vtype \in Ids(u)
    <2>1. CASE t = id
      <3>1. At(u, t).vrefs = ws
        BY <1>5, <1>6, <2>1 DEF Changed
      <3>2. Len(ws) <= ELT_VREFS_MAX
        BY <1>1, <1>4 DEF vs
      <3>. QED  BY <1>4, <1>7, <1>8, <3>1, <3>2
    <2>2. CASE t # id
      <3>1. t \in Ids(vt) /\ At(u, t) = At(vt, t)
        BY <1>6, <2>2 DEF Changed
      <3>. QED  BY <1>7, <3>1 DEF Sound, TablesTyped, TablesResolve, VRefsResolve, Tables
    <2>. QED  BY <2>1, <2>2
  <1>. QED  BY <1>6, <1>7, <1>9, VarTypesChanged

(* addProcType.                                                            *)
LEMMA ProcTypeAdded ==
    ASSUME NEW vt, NEW pt, NEW rg, NEW pr, Sound(Tables(vt, pt, rg, pr)),
           NEW e \in ProcTypes, Len(pt) < MODULE_PTYPES_MAX,
           NEW u, u = Append(pt, e)
    PROVE  Sound(Tables(vt, u, rg, pr))
  <1> DEFINE m == Tables(vt, pt, rg, pr)
             n == Tables(vt, u, rg, pr)
  <1>1. pt \in Seq(ProcTypes) /\ MODULE_PTYPES_MAX \in Nat
    BY TablesAssumption DEF Sound, TablesTyped, Tables
  <1>2. u \in Seq(ProcTypes) /\ Grown(u, pt, e)
    BY <1>1, AppendFacts
  <1>3. Len(u) <= MODULE_PTYPES_MAX /\ Ids(pt) \subseteq Ids(u)
    BY <1>1, <1>2 DEF Grown
  <1>4. TablesTyped(n)
    BY <1>2, <1>3 DEF Sound, TablesTyped, Tables
  <1>5. VRefsResolve(n) /\ RegsResolve(n)
    BY DEF Sound, TablesResolve, VRefsResolve, RegsResolve, Tables
  <1>6. ProcsResolve(n)
    <2>1. ProcsResolve(m)
      BY DEF Sound, TablesResolve
    <2>. QED  BY <1>3, <2>1 DEF ProcsResolve, InstrResolves, Tables, Code, CodeIds, InstrAt
  <1>. QED  BY <1>4, <1>5, <1>6 DEF Sound, TablesResolve

(* addReg: the code's registers stay where they are.                       *)
LEMMA RegAdded ==
    ASSUME NEW vt, NEW pt, NEW rg, NEW pr, Sound(Tables(vt, pt, rg, pr)),
           NEW e \in VarSpecs, e.vtype \in Ids(vt), Len(rg) < MODULE_REGS_MAX,
           NEW u, u = Append(rg, e)
    PROVE  Sound(Tables(vt, pt, u, pr))
  <1> DEFINE m == Tables(vt, pt, rg, pr)
             n == Tables(vt, pt, u, pr)
  <1>1. rg \in Seq(VarSpecs) /\ MODULE_REGS_MAX \in Nat
    BY TablesAssumption DEF Sound, TablesTyped, Tables
  <1>2. u \in Seq(VarSpecs) /\ Grown(u, rg, e)
    BY <1>1, AppendFacts
  <1>3. Len(u) <= MODULE_REGS_MAX /\ Ids(rg) \subseteq Ids(u)
    BY <1>1, <1>2 DEF Grown
  <1>4. TablesTyped(n)
    BY <1>2, <1>3 DEF Sound, TablesTyped, Tables
  <1>5. VRefsResolve(n)
    BY DEF Sound, TablesResolve, VRefsResolve, Tables
  <1>6. RegsResolve(n)
    <2>1. ASSUME NEW r \in Ids(u) PROVE At(u, r).vtype \in Ids(vt)
      <3>1. At(u, r) = e \/ (r \in Ids(rg) /\ At(u, r) = At(rg, r))
        BY <1>2 DEF Grown
      <3>. QED  BY <3>1 DEF Sound, TablesResolve, RegsResolve, Tables
    <2>. QED  BY <2>1 DEF RegsResolve, Tables
  <1>7. ProcsResolve(n)
    <2>1. ProcsResolve(m)
      BY DEF Sound, TablesResolve
    <2>2. \A in : InstrResolves(m, in) => InstrResolves(n, in)
      <3>1. /\ Ids(m.regs) \subseteq Ids(n.regs)
            /\ Ids(m.procs) \subseteq Ids(n.procs)
        BY <1>3 DEF Tables
      <3> HIDE DEF m, n
      <3>. QED  BY <3>1, InstrKept
    <2>3. ASSUME NEW p \in Ids(pr)
          PROVE  /\ At(pr, p).ptype \in Ids(pt)
                 /\ \A i \in CodeIds(n, p) : InstrResolves(n, InstrAt(n, p, i))
      <3>1. CodeIds(n, p) = CodeIds(m, p) /\ \A i : InstrAt(n, p, i) = InstrAt(m, p, i)
        BY DEF Tables, Code, CodeIds, InstrAt
      <3>. QED  BY <2>1, <2>2, <3>1 DEF ProcsResolve, Tables
    <2>. QED  BY <2>3 DEF ProcsResolve, Tables
  <1>. QED  BY <1>4, <1>5, <1>6, <1>7 DEF Sound, TablesResolve

(* Tables keep sound when their procedures change into sound ones.         *)
LEMMA ProcsChanged ==
    ASSUME NEW vt, NEW pt, NEW rg, NEW pr, Sound(Tables(vt, pt, rg, pr)),
           NEW u \in Seq(Procs), Len(u) <= MODULE_PROCS_MAX,
           \A p \in Ids(u) :
               /\ At(u, p).ptype \in Ids(pt)
               /\ \A i \in Ids(At(u, p).code) :
                      InstrResolves(Tables(vt, pt, rg, u), At(At(u, p).code, i))
    PROVE  Sound(Tables(vt, pt, rg, u))
  <1> DEFINE m == Tables(vt, pt, rg, pr)
             n == Tables(vt, pt, rg, u)
  <1>1. TablesTyped(n)
    BY DEF Sound, TablesTyped, Tables
  <1>2. VRefsResolve(n) /\ RegsResolve(n)
    BY DEF Sound, TablesResolve, VRefsResolve, RegsResolve, Tables
  <1>3. n.procs = u /\ n.ptypes = pt
    BY DEF Tables
  <1>4. ProcsResolve(n)
    <2>1. \A p \in Ids(u) :
              /\ At(u, p).ptype \in Ids(pt)
              /\ \A i \in Ids(At(u, p).code) : InstrResolves(n, At(At(u, p).code, i))
      OBVIOUS
    <2> HIDE DEF n
    <2>. QED  BY <1>3, <2>1 DEF ProcsResolve, Code, CodeIds, InstrAt
  <1>. QED  BY <1>1, <1>2, <1>4 DEF Sound, TablesResolve

(* What is known of a procedure of sound tables, and of its code when the  *)
(* table of procedures does not get shorter.                               *)
LEMMA ProcKept ==
    ASSUME NEW vt, NEW pt, NEW rg, NEW pr, Sound(Tables(vt, pt, rg, pr)),
           NEW u, Ids(pr) \subseteq Ids(u), NEW p \in Ids(pr)
    PROVE  /\ At(pr, p) \in Procs
           /\ At(pr, p).ptype \in Ids(pt)
           /\ \A i \in Ids(At(pr, p).code) :
                  InstrResolves(Tables(vt, pt, rg, u), At(At(pr, p).code, i))
  <1> DEFINE m == Tables(vt, pt, rg, pr)
             n == Tables(vt, pt, rg, u)
  <1>1. pr \in Seq(Procs)
    BY DEF Sound, TablesTyped, Tables
  <1>2. ProcsResolve(m) /\ m.procs = pr /\ m.ptypes = pt
    BY DEF Sound, TablesResolve, Tables
  <1>3. Ids(m.regs) \subseteq Ids(n.regs) /\ Ids(m.procs) \subseteq Ids(n.procs)
    BY DEF Tables
  <1> HIDE DEF m, n
  <1>4. /\ At(pr, p).ptype \in Ids(pt)
        /\ \A i \in Ids(At(pr, p).code) : InstrResolves(m, At(At(pr, p).code, i))
    BY <1>2 DEF ProcsResolve, Code, CodeIds, InstrAt
  <1>5. \A i \in Ids(At(pr, p).code) : InstrResolves(n, At(At(pr, p).code, i))
    BY <1>3, <1>4, InstrKept
  <1>. QED  BY <1>1, <1>4, <1>5, EntryFacts DEF n

(* addProc: a procedure without code.                                      *)
LEMMA ProcAdded ==
    ASSUME NEW vt, NEW pt, NEW rg, NEW pr, Sound(Tables(vt, pt, rg, pr)),
           NEW flags \in ProcFlags, NEW ptype \in Ids(pt), Len(pr) < MODULE_PROCS_MAX,
           NEW e, e = [flags |-> flags, ptype |-> ptype, code |-> << >>, ills |-> 0],
           NEW u, u = Append(pr, e)
    PROVE  Sound(Tables(vt, pt, rg, u))
  <1>1. pr \in Seq(Procs) /\ pt \in Seq(ProcTypes) /\ MODULE_PROCS_MAX \in Nat
    BY TablesAssumption DEF Sound, TablesTyped, Tables
  <1>2. ptype \in Nat
    BY <1>1, EntryFacts
  <1>3. e \in Procs /\ e.ptype = ptype /\ Ids(e.code) = {}
    BY <1>2 DEF Procs, Ids
  <1>4. u \in Seq(Procs) /\ Grown(u, pr, e)
    BY <1>1, <1>3, AppendFacts
  <1>5. Len(u) <= MODULE_PROCS_MAX /\ Ids(pr) \subseteq Ids(u)
    BY <1>1, <1>4 DEF Grown
  <1>6. ASSUME NEW p \in Ids(u)
        PROVE  /\ At(u, p).ptype \in Ids(pt)
               /\ \A i \in Ids(At(u, p).code) :
                      InstrResolves(Tables(vt, pt, rg, u), At(At(u, p).code, i))
    <2>1. At(u, p) = e \/ (p \in Ids(pr) /\ At(u, p) = At(pr, p))
      BY <1>4 DEF Grown
    <2>2. CASE At(u, p) = e
      BY <1>3, <2>2
    <2>3. CASE p \in Ids(pr) /\ At(u, p) = At(pr, p)
      BY <1>5, <2>3, ProcKept
    <2>. QED  BY <2>1, <2>2, <2>3
  <1>. QED  BY <1>4, <1>5, <1>6, ProcsChanged

(* The procedure addProcInstr leaves: one more instruction in its code, or *)
(* one more that is not in it.                                             *)
LEMMA StoredIs ==
    ASSUME NEW proc \in Procs, NEW in \in Instrs
    PROVE  /\ Stored(proc, in) \in Procs
           /\ Stored(proc, in).ptype = proc.ptype
           /\ in.op = "ILL" => /\ Stored(proc, in).code = proc.code
                               /\ Stored(proc, in).ills = proc.ills + 1
           /\ in.op # "ILL" => /\ Stored(proc, in).code = Append(proc.code, in)
                               /\ Stored(proc, in).ills = proc.ills
  <1>1. CASE in.op = "ILL"
    BY <1>1 DEF Stored, Procs
  <1>2. CASE in.op # "ILL"
    <2>1. Append(proc.code, in) \in Seq(Instrs)
      BY DEF Procs
    <2>2. Stored(proc, in) = [proc EXCEPT !.code = Append(@, in)]
      BY <1>2 DEF Stored
    <2>. QED  BY <1>2, <2>1, <2>2 DEF Procs
  <1>. QED  BY <1>1, <1>2

(* addProcInstr: one more instruction in procedure id.                     *)
LEMMA InstrAdded ==
    ASSUME NEW vt, NEW pt, NEW rg, NEW pr, Sound(Tables(vt, pt, rg, pr)),
           NEW id \in Ids(pr), NEW in \in Instrs,
           InstrResolves(Tables(vt, pt, rg, pr), in),
           NEW e, e = Stored(At(pr, id), in),
           NEW u, u = Replace(pr, id, e)
    PROVE  Sound(Tables(vt, pt, rg, u)) /\ Len(u) = Len(pr)
  <1>1. pr \in Seq(Procs)
    BY DEF Sound, TablesTyped, Tables
  <1>2. At(pr, id) \in Procs
    BY <1>1, EntryFacts
  <1> DEFINE cs == At(pr, id).code
             ds == e.code
  <1>3. cs \in Seq(Instrs)
    BY <1>2 DEF Procs
  <1>4. Grown(ds, cs, in) \/ ds = cs
    <2>1. ds = Append(cs, in) \/ ds = cs
      BY <1>2, StoredIs
    <2> HIDE DEF cs, ds
    <2>. QED  BY <1>3, <2>1, AppendFacts
  <1>5. e \in Procs /\ e.code = ds /\ e.ptype = At(pr, id).ptype
    BY <1>2, StoredIs
  <1> HIDE DEF cs, ds
  <1>6. u \in Seq(Procs) /\ Changed(u, pr, id, e)
    BY <1>1, <1>5, ReplaceFacts
  <1>7. Len(u) = Len(pr) /\ Len(u) <= MODULE_PROCS_MAX /\ Ids(u) = Ids(pr)
    BY <1>6 DEF Changed, Sound, TablesTyped, Tables
  <1>8. InstrResolves(Tables(vt, pt, rg, u), in)
    BY <1>7 DEF InstrResolves, Tables
  <1>9. ASSUME NEW p \in Ids(u)
        PROVE  /\ At(u, p).ptype \in Ids(pt)
               /\ \A i \in Ids(At(u, p).code) :
                      InstrResolves(Tables(vt, pt, rg, u), At(At(u, p).code, i))
    <2>1. /\ At(pr, p).ptype \in Ids(pt)
          /\ \A i \in Ids(At(pr, p).code) :
                 InstrResolves(Tables(vt, pt, rg, u), At(At(pr, p).code, i))
      BY <1>7, ProcKept
    <2>2. CASE p = id
      <3>1. At(u, p).code = ds /\ At(u, p).ptype = At(pr, p).ptype
        BY <1>5, <1>6, <2>2 DEF Changed
      <3>2. \A i \in Ids(cs) : InstrResolves(Tables(vt, pt, rg, u), At(cs, i))
        BY <2>1, <2>2 DEF cs
      <3>3. \A i \in Ids(ds) : InstrResolves(Tables(vt, pt, rg, u), At(ds, i))
        BY <1>4, <1>8, <3>2 DEF Grown
      <3>. QED  BY <2>1, <3>1, <3>3
    <2>3. CASE p # id
      <3>1. At(u, p) = At(pr, p)
        BY <1>6, <1>7, <2>3 DEF Changed
      <3>. QED  BY <2>1, <3>1
    <2>. QED  BY <2>2, <2>3
  <1>. QED  BY <1>6, <1>7, <1>9, ProcsChanged

(* resetModule's tables: the preset entries, and the procedure types that  *)
(* were there.                                                             *)
LEMMA ClearedSound ==
    ASSUME NEW pt \in Seq(ProcTypes), Len(pt) <= MODULE_PTYPES_MAX
    PROVE  Sound(Tables(PresetVarTypes, pt, PresetRegs, << >>))
  <1> DEFINE n == Tables(PresetVarTypes, pt, PresetRegs, << >>)
  <1>1. /\ PresetVarTypes \in Seq(VarTypes) /\ Len(PresetVarTypes) = 1
        /\ Ids(PresetVarTypes) = {0} /\ At(PresetVarTypes, 0).vrefs = << >>
    <2>1. [bytes |-> 8, vrefs |-> << >>] \in VarTypes
      BY TablesAssumption DEF VarTypes
    <2>. QED  BY <2>1 DEF PresetVarTypes, At, Ids
  <1>2. /\ PresetRegs \in Seq(VarSpecs) /\ Len(PresetRegs) = 1
        /\ Ids(PresetRegs) = {0} /\ At(PresetRegs, 0).vtype = 0
    <2>1. [flags |-> {"TOP_LEVEL", "THREAD_LOCAL"}, vtype |-> 0, count |-> 1] \in VarSpecs
      BY TablesAssumption DEF VarSpecs
    <2>. QED  BY <2>1 DEF PresetRegs, At, Ids
  <1>3. << >> \in Seq(Procs) /\ Len(<< >>) = 0 /\ Ids(<< >>) = {}
    BY DEF Ids
  <1>4. /\ {MODULE_VTYPES_MAX, MODULE_REGS_MAX, MODULE_PROCS_MAX} \subseteq Nat \ {0}
        /\ ELT_VREFS_MAX \in Nat
    BY TablesAssumption
  <1>5. TablesTyped(n)
    <2>1. /\ n.vtypes = PresetVarTypes /\ n.ptypes = pt
          /\ n.regs = PresetRegs /\ n.procs = << >>
      BY DEF Tables
    <2>2. /\ 1 <= MODULE_VTYPES_MAX /\ 1 <= MODULE_REGS_MAX /\ 0 <= MODULE_PROCS_MAX
          /\ 0 <= ELT_VREFS_MAX
      BY <1>4
    <2>3. \A t \in Ids(PresetVarTypes) : Len(At(PresetVarTypes, t).vrefs) <= ELT_VREFS_MAX
      BY <1>1, <1>3, <2>2
    <2> HIDE DEF n
    <2>. QED  BY <1>1, <1>2, <1>3, <2>1, <2>2, <2>3 DEF TablesTyped
  <1>6. VRefsResolve(n) /\ RegsResolve(n) /\ ProcsResolve(n)
    BY <1>1, <1>2, <1>3 DEF VRefsResolve, RegsResolve, ProcsResolve, Tables
  <1>. QED  BY <1>5, <1>6 DEF Sound, TablesResolve

-----------------------------------------------------------------------------
(* The invariant: TypeOK and IdsResolve, table by table.                   *)
ConsTyped(cs) == cs \in Seq(ProcCons) /\ \A p \in Ids(cs) : ConType(At(cs, p), Nat)
IInv ==
    /\ Sound(Tables(vtypes, ptypes, regs, procs))
    /\ Sound(created)
    /\ ConsTyped(procCons) /\ Len(procCons) = Len(procs)
    /\ exc \in Verdicts

LEMMA IInvParts == IInv => TypeOK /\ IdsResolve
  BY DEF IInv, TypeOK, IdsResolve, Sound, ConsTyped, Current, Tables

(* What the variables are like in a state of the invariant.                *)
LEMMA IInvFacts ==
    ASSUME IInv
    PROVE  /\ vtypes \in Seq(VarTypes) /\ ptypes \in Seq(ProcTypes)
           /\ regs \in Seq(VarSpecs) /\ procs \in Seq(Procs)
           /\ Len(ptypes) <= MODULE_PTYPES_MAX
           /\ Len(vtypes) \in Nat /\ Len(ptypes) \in Nat
           /\ Len(regs) \in Nat /\ Len(procs) \in Nat
           /\ {MODULE_VTYPES_MAX, MODULE_PTYPES_MAX, MODULE_REGS_MAX, MODULE_PROCS_MAX,
               ELT_VREFS_MAX, VAR_COUNT_MAX, ELT_BYTES_MAX} \subseteq Nat
  <1>1. /\ vtypes \in Seq(VarTypes) /\ ptypes \in Seq(ProcTypes)
        /\ regs \in Seq(VarSpecs) /\ procs \in Seq(Procs)
        /\ Len(ptypes) <= MODULE_PTYPES_MAX
    BY DEF IInv, Sound, TablesTyped, Tables
  <1>. QED  BY <1>1, TablesAssumption

LEMMA InitIInv == Init => IInv
  <1> SUFFICES ASSUME Init PROVE IInv
    OBVIOUS
  <1>1. << >> \in Seq(ProcTypes) /\ Len(<< >>) <= MODULE_PTYPES_MAX
    BY TablesAssumption
  <1>2. Sound(Tables(vtypes, ptypes, regs, procs))
    BY <1>1, ClearedSound DEF Init
  <1>3. Sound(created)
    <2>1. created = Tables(<< >>, << >>, << >>, << >>)
      BY DEF Init, NoModule, Tables
    <2>2. Ids(<< >>) = {}
      BY DEF Ids
    <2>3. TablesTyped(created)
      BY <2>1, <2>2, TablesAssumption DEF TablesTyped, Tables
    <2>4. TablesResolve(created)
      BY <2>1, <2>2
      DEF TablesResolve, VRefsResolve, RegsResolve, ProcsResolve, Tables
    <2>. QED  BY <2>3, <2>4 DEF Sound
  <1>4. ConsTyped(procCons) /\ Len(procCons) = Len(procs)
    BY DEF Init, ConsTyped, Ids
  <1>5. exc \in Verdicts
    BY DEF Init, Verdicts
  <1>. QED  BY <1>2, <1>3, <1>4, <1>5 DEF IInv

LEMMA AddVarTypeStep ==
    ASSUME IInv, NEW bytes \in ByteSizes, AddVarType(bytes)
    PROVE  IInv'
  <1> DEFINE a == ThrowIf(Len(vtypes) >= MODULE_VTYPES_MAX, "Range")
             b == ThrowIf(bytes > ELT_BYTES_MAX, "Range")
             e == [bytes |-> bytes, vrefs |-> << >>]
  <1>1. /\ a \in Verdicts /\ (a = OK => ~(Len(vtypes) >= MODULE_VTYPES_MAX))
        /\ b \in Verdicts /\ (b = OK => ~(bytes > ELT_BYTES_MAX))
    BY DEF ThrowIf, Verdicts, Exceptions, OK
  <1>2. /\ exc' = (a & b)
        /\ vtypes' = IF a & b = OK THEN Append(vtypes, e) ELSE vtypes
        /\ UNCHANGED << ptypes, regs, procs, procCons, created >>
    BY DEF AddVarType, Call
  <1> HIDE DEF a, b
  <1>3. a & b \in Verdicts /\ (a & b = OK <=> a = OK /\ b = OK)
    BY <1>1, CheckFacts
  <1>4. Sound(Tables(vtypes', ptypes, regs, procs))
    <2>1. CASE a & b = OK
      <3>1. Len(vtypes) < MODULE_VTYPES_MAX /\ bytes \in 0 .. ELT_BYTES_MAX
        BY <1>1, <1>3, <2>1, IInvFacts, TablesAssumption
      <3>2. vtypes' = Append(vtypes, e)
        BY <1>2, <2>1
      <3>. QED  BY <3>1, <3>2, VarTypeAdded DEF IInv
    <2>2. CASE ~(a & b = OK)
      BY <1>2, <2>2 DEF IInv
    <2>. QED  BY <2>1, <2>2
  <1>. QED  BY <1>2, <1>3, <1>4 DEF IInv

LEMMA CountFacts ==
    ASSUME NEW count \in Counts
    PROVE  /\ CountVerdict(count) \in Verdicts
           /\ CountVerdict(count) = OK => count \in 1 .. VAR_COUNT_MAX
  <1>1. count \in Nat /\ VAR_COUNT_MAX \in Nat
    BY TablesAssumption
  <1>2. CountVerdict(count) \in Verdicts
    BY DEF CountVerdict, ThrowIf, Verdicts, Exceptions, OK
  <1>3. CountVerdict(count) = OK => ~(count = 0 \/ count > VAR_COUNT_MAX)
    BY DEF CountVerdict, ThrowIf, OK
  <1>. QED  BY <1>1, <1>2, <1>3

LEMMA AddVarTypeVRefStep ==
    ASSUME IInv, NEW id, NEW flags, NEW vtype, NEW count \in Counts,
           AddVarTypeVRef(id, flags, vtype, count)
    PROVE  IInv'
  <1> DEFINE a == ThrowIf(~(flags \subseteq {"NON_FIXED"}), "Flags")
             c == CountVerdict(count)
             d == ThrowIf(Len(At(vtypes, id).vrefs) >= ELT_VREFS_MAX, "Range")
             v == VRefVerdict(id, flags, vtype, count)
             vref == [flags |-> flags, vtype |-> vtype, count |-> count]
             e == [At(vtypes, id) EXCEPT !.vrefs = Append(@, vref)]
  <1>1. /\ a \in Verdicts /\ (a = OK => flags \subseteq {"NON_FIXED"})
        /\ d \in Verdicts /\ (d = OK => ~(Len(At(vtypes, id).vrefs) >= ELT_VREFS_MAX))
    BY DEF ThrowIf, Verdicts, Exceptions, OK
  <1>2. v = (a & c & Exists(vtypes, id) & d & Exists(vtypes, vtype))
    BY DEF VRefVerdict
  <1>3. /\ exc' = v
        /\ vtypes' = IF v # OK THEN vtypes
                     ELSE [vtypes EXCEPT ![id + 1].vrefs = Append(@, vref)]
        /\ UNCHANGED << ptypes, regs, procs, procCons, created >>
    BY DEF AddVarTypeVRef
  <1> HIDE DEF a, c, d, v
  <1>4. /\ v \in Verdicts
        /\ v = OK => a = OK /\ c = OK /\ d = OK /\ id \in Ids(vtypes) /\ vtype \in Ids(vtypes)
    BY <1>1, <1>2, CountFacts, ExistsFacts, CheckFacts DEF c
  <1>5. Sound(Tables(vtypes', ptypes, regs, procs))
    <2>1. CASE v = OK
      <3>1. id \in Ids(vtypes) /\ vtype \in Ids(vtypes) /\ vtype \in Nat
        BY <1>4, <2>1, IInvFacts, EntryFacts
      <3>2. count \in 1 .. VAR_COUNT_MAX /\ flags \subseteq {"NON_FIXED"}
        BY <1>1, <1>4, <2>1, CountFacts DEF c
      <3>3. vref \in VarSpecs /\ vref.vtype = vtype
        BY <3>1, <3>2 DEF VarSpecs
      <3>4. At(vtypes, id) \in VarTypes
        BY <3>1, IInvFacts, EntryFacts
      <3>5. Len(At(vtypes, id).vrefs) < ELT_VREFS_MAX
        <4>1. At(vtypes, id).vrefs \in Seq(VarSpecs)
          BY <3>4 DEF VarTypes
        <4>. QED  BY <1>1, <1>4, <2>1, <4>1, IInvFacts
      <3>6. vtypes' = Replace(vtypes, id, e)
        BY <1>3, <2>1 DEF Replace, At
      <3>. QED  BY <3>1, <3>3, <3>5, <3>6, VRefAdded DEF IInv
    <2>2. CASE v # OK
      BY <1>3, <2>2 DEF IInv
    <2>. QED  BY <2>1, <2>2
  <1>. QED  BY <1>3, <1>4, <1>5 DEF IInv

LEMMA AddProcTypeStep ==
    ASSUME IInv, NEW flags \in PTypeFlags, NEW io, AddProcType(flags, io)
    PROVE  IInv'
  <1> DEFINE a == ThrowIf(Len(ptypes) >= MODULE_PTYPES_MAX, "Range")
             b == ThrowIf("RESERVED" \in flags, "Flags")
             v == a & b & Exists(regs, io)
             e == [flags |-> flags, io |-> io]
  <1>1. /\ a \in Verdicts /\ (a = OK => ~(Len(ptypes) >= MODULE_PTYPES_MAX))
        /\ b \in Verdicts
    BY DEF ThrowIf, Verdicts, Exceptions, OK
  <1>2. /\ exc' = v
        /\ ptypes' = IF v = OK THEN Append(ptypes, e) ELSE ptypes
        /\ UNCHANGED << vtypes, regs, procs, procCons, created >>
    BY DEF AddProcType, Call
  <1> HIDE DEF a, b
  <1>3. v \in Verdicts /\ (v = OK => a = OK /\ io \in Ids(regs))
    BY <1>1, ExistsFacts, CheckFacts
  <1> HIDE DEF v
  <1>4. Sound(Tables(vtypes, ptypes', regs, procs))
    <2>1. CASE v = OK
      <3>1. Len(ptypes) < MODULE_PTYPES_MAX /\ io \in Nat
        BY <1>1, <1>3, <2>1, IInvFacts, EntryFacts
      <3>2. e \in ProcTypes
        BY <3>1 DEF ProcTypes
      <3>3. ptypes' = Append(ptypes, e)
        BY <1>2, <2>1
      <3>. QED  BY <3>1, <3>2, <3>3, ProcTypeAdded DEF IInv
    <2>2. CASE v # OK
      BY <1>2, <2>2 DEF IInv
    <2>. QED  BY <2>1, <2>2
  <1>. QED  BY <1>2, <1>3, <1>4 DEF IInv

LEMMA AddRegStep ==
    ASSUME IInv, NEW flags \in RegFlags, NEW vtype, NEW count \in Counts,
           AddReg(flags, vtype, count)
    PROVE  IInv'
  <1> DEFINE a == ThrowIf(Len(regs) >= MODULE_REGS_MAX, "Range")
             b == ThrowIf("RESERVED" \in flags, "Flags")
             c == ThrowIf("THREAD_LOCAL" \in flags /\ "TOP_LEVEL" \notin flags, "Flags")
             d == CountVerdict(count)
             v == RegVerdict(flags, vtype, count)
             e == [flags |-> flags, vtype |-> vtype, count |-> count]
  <1>1. /\ a \in Verdicts /\ (a = OK => ~(Len(regs) >= MODULE_REGS_MAX))
        /\ b \in Verdicts /\ (b = OK => "RESERVED" \notin flags)
        /\ c \in Verdicts
    BY DEF ThrowIf, Verdicts, Exceptions, OK
  <1>2. v = (a & b & c & d & Exists(vtypes, vtype))
    BY DEF RegVerdict
  <1>3. /\ exc' = v
        /\ regs' = IF v = OK THEN Append(regs, e) ELSE regs
        /\ UNCHANGED << vtypes, ptypes, procs, procCons, created >>
    BY DEF AddReg, Call
  <1> HIDE DEF a, b, c, d, v
  <1>4. /\ v \in Verdicts
        /\ v = OK => a = OK /\ b = OK /\ d = OK /\ vtype \in Ids(vtypes)
    BY <1>1, <1>2, CountFacts, ExistsFacts, CheckFacts DEF d
  <1>5. Sound(Tables(vtypes, ptypes, regs', procs))
    <2>1. CASE v = OK
      <3>1. Len(regs) < MODULE_REGS_MAX
        BY <1>1, <1>4, <2>1, IInvFacts
      <3>2. vtype \in Ids(vtypes) /\ vtype \in Nat
        BY <1>4, <2>1, IInvFacts, EntryFacts
      <3>3. count \in 1 .. VAR_COUNT_MAX
        BY <1>4, <2>1, CountFacts DEF d
      <3>4. flags \subseteq {"NON_FIXED", "TOP_LEVEL", "THREAD_LOCAL"}
        BY <1>1, <1>4, <2>1, TablesAssumption
      <3>5. e \in VarSpecs /\ e.vtype = vtype
        BY <3>2, <3>3, <3>4 DEF VarSpecs
      <3>6. regs' = Append(regs, e)
        BY <1>3, <2>1
      <3>. QED  BY <3>1, <3>2, <3>5, <3>6, RegAdded DEF IInv
    <2>2. CASE v # OK
      BY <1>3, <2>2 DEF IInv
    <2>. QED  BY <2>1, <2>2
  <1>. QED  BY <1>3, <1>4, <1>5 DEF IInv

(* addProc, with the ProcCon it starts.                                    *)
LEMMA AddProcStep ==
    ASSUME IInv, NEW flags \in ProcFlags, NEW ptype, AddProc(flags, ptype)
    PROVE  IInv'
  <1> DEFINE a == ThrowIf(Len(procs) >= MODULE_PROCS_MAX, "Range")
             b == ThrowIf("RESERVED" \in flags, "Flags")
             v == a & b & Exists(ptypes, ptype)
             e == [flags |-> flags, ptype |-> ptype, code |-> << >>, ills |-> 0]
             new == NewProcCon(At(ptypes, ptype).io)
  <1>1. /\ a \in Verdicts /\ (a = OK => ~(Len(procs) >= MODULE_PROCS_MAX))
        /\ b \in Verdicts
    BY DEF ThrowIf, Verdicts, Exceptions, OK
  <1>2. /\ exc' = v
        /\ procs' = IF v = OK THEN Append(procs, e) ELSE procs
        /\ procCons' = IF v # OK THEN procCons ELSE Append(procCons, new)
        /\ UNCHANGED << vtypes, ptypes, regs, created >>
    BY DEF AddProc, Call
  <1> HIDE DEF a, b
  <1>3. v \in Verdicts /\ (v = OK => a = OK /\ ptype \in Ids(ptypes))
    BY <1>1, ExistsFacts, CheckFacts
  <1> HIDE DEF v, new
  <1>4. CASE v = OK
    <2>1. Len(procs) < MODULE_PROCS_MAX /\ ptype \in Ids(ptypes)
      BY <1>1, <1>3, <1>4, IInvFacts
    <2>2. procs' = Append(procs, e) /\ procCons' = Append(procCons, new)
      BY <1>2, <1>4
    <2>3. Sound(Tables(vtypes, ptypes, regs, procs'))
      BY <2>1, <2>2, ProcAdded DEF IInv
    <2>4. ConType(new, Nat)
      <3>1. At(ptypes, ptype) \in ProcTypes
        BY <2>1, IInvFacts, EntryFacts
      <3>2. At(ptypes, ptype).io \in Nat
        BY <3>1 DEF ProcTypes
      <3>. QED  BY <3>2, NewFacts DEF new
    <2>5. new \in ProcCons
      BY <2>4 DEF ConType, ProcCons
    <2>6. procCons \in Seq(ProcCons) /\ Len(procCons) = Len(procs)
      BY DEF IInv, ConsTyped
    <2>7. procCons' \in Seq(ProcCons) /\ Grown(procCons', procCons, new)
      BY <2>2, <2>5, <2>6, AppendFacts
    <2>8. ConsTyped(procCons')
      BY <2>4, <2>7 DEF Grown, ConsTyped, IInv
    <2>9. Len(procCons') = Len(procs')
      BY <2>2, <2>6, <2>7, IInvFacts DEF Grown
    <2>. QED  BY <1>2, <1>3, <2>3, <2>8, <2>9 DEF IInv
  <1>5. CASE v # OK
    BY <1>2, <1>3, <1>5 DEF IInv
  <1>. QED  BY <1>4, <1>5

(* addProcInstr: an instruction whose ids were not all checked is never    *)
(* stored, and the ProcCon stays typed whether it is stored or not.        *)
LEMMA AddProcInstrStep ==
    ASSUME IInv, NEW p, NEW in \in Instrs, AddProcInstr(p, in)
    PROVE  IInv'
  <1>1. UNCHANGED << vtypes, ptypes, regs, created >>
    BY DEF AddProcInstr
  <1>2. CASE p \notin Ids(procs)
    <2>1. exc' = "NotFound" /\ UNCHANGED << procs, procCons >>
      BY <1>2 DEF AddProcInstr
    <2>. QED  BY <1>1, <2>1 DEF IInv, Verdicts, Exceptions
  <1>3. CASE p \in Ids(procs)
    <2> DEFINE con == At(procCons, p)
    <2>1. PICK guess \in BOOLEAN :
              LET operands == Operands(p, in, guess)
                  outcome == IF operands = OK THEN Effect(con, in)
                             ELSE Outcome(operands, con, con)
                  added == AddInstr(con, outcome)
              IN  /\ exc' = added.exc
                  /\ procCons' = Replace(procCons, p, added.con)
                  /\ procs' = IF added.exc # OK THEN procs
                              ELSE Replace(procs, p, Stored(At(procs, p), in))
      BY <1>3 DEF AddProcInstr
    <2> DEFINE operands == Operands(p, in, guess)
               outcome == IF operands = OK THEN Effect(con, in)
                          ELSE Outcome(operands, con, con)
               added == AddInstr(con, outcome)
               e == Stored(At(procs, p), in)
    <2>2. /\ exc' = added.exc
          /\ procCons' = Replace(procCons, p, added.con)
          /\ procs' = IF added.exc # OK THEN procs ELSE Replace(procs, p, e)
      BY <2>1
    <2>3. /\ procCons \in Seq(ProcCons) /\ p \in Ids(procCons)
          /\ \A q \in Ids(procCons) : ConType(At(procCons, q), Nat)
      BY <1>3 DEF IInv, ConsTyped, Ids
    <2>4. ConType(con, Nat)
      BY <2>3
    <2>5. /\ operands \in Verdicts
          /\ operands = OK => InstrResolves(Current, in)
      BY OperandsFacts
    <2>6. operands = OK => (in.op \in {"PUSH", "PUSHR"} => in.reg \in Nat)
      <3>1. \A r \in Ids(regs) : r \in Nat
        BY IInvFacts, EntryFacts
      <3>. QED  BY <2>5, <3>1 DEF InstrResolves, Current
    <2> HIDE DEF con, operands
    <2>7. /\ Outcomes(outcome, con, Nat)
          /\ outcome.exc = OK => operands = OK
      <3>1. CASE operands = OK
        <4>1. PRESET_REG_ED \in Nat
          BY DEF PRESET_REG_ED
        <4>2. Outcomes(Effect(con, in), con, Nat)
          BY <2>4, <2>6, <3>1, <4>1, EffectFacts
        <4>. QED  BY <3>1, <4>2
      <3>2. CASE operands # OK
        <4>1. outcome = [exc |-> operands, con |-> con]
          BY <3>2 DEF Outcome
        <4> HIDE DEF outcome
        <4>. QED  BY <2>4, <2>5, <3>2, <4>1, ThrownOutcome
      <3>. QED  BY <3>1, <3>2
    <2> HIDE DEF outcome
    <2>8. PICK v, d :
              /\ v \in Verdicts
              /\ outcome = [exc |-> v, con |-> d]
              /\ ConType(d, Nat) /\ d.instrCount = con.instrCount
              /\ v # OK => d = con
      BY <2>7 DEF Outcomes
    <2>9. /\ added.exc \in Verdicts /\ (added.exc = OK => v = OK)
          /\ ConType(added.con, Nat)
      <3>1. added = AddInstr(con, [exc |-> v, con |-> d])
        BY <2>8
      <3> HIDE DEF added
      <3>. QED  BY <2>4, <2>8, <3>1, AddInstrFacts
    <2> HIDE DEF added, e
    <2>10. ConsTyped(procCons') /\ Len(procCons') = Len(procs)
      <3>1. added.con \in ProcCons
        BY <2>9 DEF ConType, ProcCons
      <3>2. procCons' \in Seq(ProcCons) /\ Changed(procCons', procCons, p, added.con)
        BY <2>2, <2>3, <3>1, ReplaceFacts
      <3>. QED  BY <2>3, <2>9, <3>2 DEF Changed, ConsTyped, IInv
    <2>11. CASE added.exc = OK
      <3>1. InstrResolves(Tables(vtypes, ptypes, regs, procs), in)
        <4>1. outcome.exc = OK
          BY <2>8, <2>9, <2>11
        <4>2. InstrResolves(Current, in)
          BY <2>5, <2>7, <4>1
        <4>3. Current = Tables(vtypes, ptypes, regs, procs)
          BY DEF Current, Tables
        <4>. QED  BY <4>2, <4>3
      <3>2. procs' = Replace(procs, p, e)
        BY <2>2, <2>11
      <3>3. Sound(Tables(vtypes, ptypes, regs, procs')) /\ Len(procs') = Len(procs)
        BY <1>3, <3>1, <3>2, InstrAdded DEF IInv, e
      <3>. QED  BY <1>1, <2>2, <2>9, <2>10, <3>3 DEF IInv
    <2>12. CASE added.exc # OK
      BY <1>1, <2>2, <2>9, <2>10, <2>12 DEF IInv
    <2>. QED  BY <2>11, <2>12
  <1>. QED  BY <1>2, <1>3

(* resetModule, and the tables createModule leaves.                        *)
LEMMA ClearedStep ==
    ASSUME IInv, Cleared
    PROVE  /\ Sound(Tables(vtypes', ptypes', regs', procs'))
           /\ ConsTyped(procCons') /\ Len(procCons') = Len(procs')
  <1>1. /\ vtypes' = PresetVarTypes /\ regs' = PresetRegs /\ procs' = << >>
        /\ procCons' = << >> /\ ptypes' = ptypes
    BY DEF Cleared
  <1>2. ConsTyped(<< >>)
    BY DEF ConsTyped, Ids
  <1>. QED  BY <1>1, <1>2, IInvFacts, ClearedSound

LEMMA CreateModuleStep == ASSUME IInv, CreateModule PROVE IInv'
  <1>1. CASE ConsistencyVerdict # OK
    <2>1. ConsistencyVerdict \in Verdicts
      BY DEF ConsistencyVerdict, ThrowIf, Verdicts, Exceptions, OK
    <2>2. exc' = ConsistencyVerdict /\ UNCHANGED << tables, created >>
      BY <1>1 DEF CreateModule
    <2>. QED  BY <2>1, <2>2 DEF IInv, tables
  <1>2. CASE ConsistencyVerdict = OK
    <2>1. /\ created' = Tables(vtypes, ptypes, regs, procs)
          /\ exc' = OK
          /\ Cleared
      BY <1>2 DEF CreateModule, Tables
    <2>2. Sound(created')
      BY <2>1 DEF IInv
    <2>3. exc' \in Verdicts
      BY <2>1 DEF Verdicts
    <2>. QED  BY <2>1, <2>2, <2>3, ClearedStep DEF IInv
  <1>. QED  BY <1>1, <1>2

(* Every call, refused or not, keeps the invariant.                        *)
LEMMA NextIInv == IInv /\ [Next]_vars => IInv'
  <1> SUFFICES ASSUME IInv, [Next]_vars PROVE IInv'
    OBVIOUS
  <1>1. ASSUME NEW bytes \in ByteSizes, AddVarType(bytes) PROVE IInv'
    BY <1>1, AddVarTypeStep
  <1>2. ASSUME NEW id, NEW vtype, NEW flags, NEW count \in Counts,
               AddVarTypeVRef(id, flags, vtype, count)
        PROVE  IInv'
    BY <1>2, AddVarTypeVRefStep
  <1>3. ASSUME NEW flags \in PTypeFlags, NEW io, AddProcType(flags, io) PROVE IInv'
    BY <1>3, AddProcTypeStep
  <1>4. ASSUME NEW flags \in RegFlags, NEW vtype, NEW count \in Counts,
               AddReg(flags, vtype, count)
        PROVE  IInv'
    BY <1>4, AddRegStep
  <1>5. ASSUME NEW flags \in ProcFlags, NEW ptype, AddProc(flags, ptype) PROVE IInv'
    BY <1>5, AddProcStep
  <1>6. ASSUME NEW p, NEW in \in Instrs, AddProcInstr(p, in) PROVE IInv'
    BY <1>6, AddProcInstrStep
  <1>7. CASE ResetModule
    <2>1. Cleared /\ exc' \in Verdicts /\ created' = created
      BY <1>7 DEF ResetModule, Verdicts
    <2>. QED  BY <2>1, ClearedStep DEF IInv
  <1>8. CASE CreateModule
    BY <1>8, CreateModuleStep
  <1>9. CASE UNCHANGED vars
    BY <1>9 DEF vars, IInv
  <1>. QED  BY <1>1, <1>2, <1>3, <1>4, <1>5, <1>6, <1>7, <1>8, <1>9 DEF Next

THEOREM Invariance == Spec => []IInv
  BY InitIInv, NextIInv, PTL DEF Spec

(* The builder's tables keep their types and their limits, and each        *)
(* procedure its ProcCon, through any calls.                               *)
THEOREM TablesTypeCorrect == Spec => []TypeOK
  BY Invariance, IInvParts, PTL

(* No id stored in the tables, in the code or in a created module ever     *)
(* dangles, a procedure type's register apart: what the code generator     *)
(* relies on when it indexes the tables.                                   *)
THEOREM IdsAlwaysResolve == Spec => []IdsResolve
  BY Invariance, IInvParts, PTL

-----------------------------------------------------------------------------
(* Bytes.  LDB and STB are checked when they are added, and the registers  *)
(* and types they were checked against are never changed after.            *)
LEMMA ModFacts == ASSUME NEW a \in Nat, NEW b \in Nat, a < b PROVE a % b = a
  OBVIOUS

LEMMA RegTypeFacts ==
    ASSUME IInv, NEW r \in Ids(regs)
    PROVE  /\ At(regs, r).vtype \in Ids(vtypes) /\ VarTypeOf(r).bytes \in Nat
  <1>1. At(regs, r).vtype \in Ids(vtypes)
    BY DEF IInv, Sound, TablesResolve, RegsResolve, Tables
  <1>2. VarTypeOf(r) \in VarTypes
    BY <1>1, IInvFacts, EntryFacts DEF VarTypeOf
  <1>. QED  BY <1>1, <1>2, TablesAssumption DEF VarTypes

(* An accepted LDB or STB finds its byte, or is at the offset that wraps.  *)
LEMMA OperandsInside ==
    ASSUME IInv, NEW p, NEW in \in Instrs, NEW guess, Operands(p, in, guess) = OK
    PROVE  Whole(in) \subseteq Ids(regs) /\ Inside(in)
  <1>1. CASE in.op \in {"LDB", "STB"}
    <2>1. in.offset \in 0 .. UINT32 - 1 /\ UINT32 \in Nat
      BY <1>1, TablesAssumption
    <2>2. PICK reg : /\ Whole(in) = {reg}
                     /\ RegHasBytes(p, reg, BytesUpTo(in.offset)) = OK
      <3>1. CASE in.op = "LDB"
        BY <3>1, CheckFacts DEF Operands, Whole
      <3>2. CASE in.op = "STB"
        BY <3>2, CheckFacts DEF Operands, Whole
      <3>. QED  BY <1>1, <3>1, <3>2
    <2>3. reg \in Ids(regs) /\ ~(VarTypeOf(reg).bytes < BytesUpTo(in.offset))
      BY <2>2, BytesFacts
    <2>4. VarTypeOf(reg).bytes \in Nat
      BY <2>3, RegTypeFacts
    <2>5. CASE in.offset # UINT32 - 1
      <3>1. in.offset + 1 \in Nat /\ in.offset + 1 < UINT32
        BY <2>1, <2>5
      <3>2. BytesUpTo(in.offset) = in.offset + 1
        BY <2>1, <3>1, ModFacts DEF BytesUpTo
      <3>3. in.offset < VarTypeOf(reg).bytes
        BY <2>1, <2>3, <2>4, <3>2
      <3>. QED  BY <2>2, <2>3, <3>3 DEF Inside
    <2>6. CASE in.offset = UINT32 - 1
      BY <2>2, <2>3, <2>6 DEF Inside
    <2>. QED  BY <2>5, <2>6
  <1>2. CASE in.op \notin {"LDB", "STB"}
    BY <1>2 DEF Whole, Inside
  <1>. QED  BY <1>1, <1>2

(* Code that was inside its registers stays so when no register's element  *)
(* changes size and what is new was checked.                               *)
KeepsBytes == \A r \in Ids(regs) : VarTypeOf(r)'.bytes = VarTypeOf(r).bytes
Old(p, i) == /\ p \in Ids(procs) /\ i \in Ids(At(procs, p).code)
             /\ At(At(procs', p).code, i) = At(At(procs, p).code, i)
Checked(in) == Whole(in) \subseteq Ids(regs) /\ Inside(in)
KeepsCode ==
    \A p \in Ids(procs') : \A i \in Ids(At(procs', p).code) :
        Old(p, i) \/ Checked(At(At(procs', p).code, i))

LEMMA BytesKept ==
    ASSUME IInv, BytesStayInside, KeepsBytes, KeepsCode
    PROVE  BytesStayInside'
  <1>1. ASSUME NEW in, Checked(in)
        PROVE  \A reg \in Whole(in) : \/ in.offset < VarTypeOf(reg)'.bytes
                                       \/ in.offset = UINT32 - 1
    <2>1. \A reg \in Whole(in) : VarTypeOf(reg)'.bytes = VarTypeOf(reg).bytes
      BY <1>1 DEF Checked, KeepsBytes
    <2>. QED  BY <1>1, <2>1 DEF Checked, Inside
  <1>2. ASSUME NEW p \in Ids(procs'), NEW i \in Ids(At(procs', p).code)
        PROVE  Checked(At(At(procs', p).code, i))
    <2>1. CASE Old(p, i)
      <3> DEFINE in == At(At(procs, p).code, i)
      <3>1. p \in Ids(procs) /\ i \in Ids(At(procs, p).code)
        BY <2>1 DEF Old
      <3>2. Inside(in)
        BY <3>1 DEF BytesStayInside, Code, CodeIds, InstrAt, Current
      <3>3. InstrResolves(Tables(vtypes, ptypes, regs, procs), in)
        BY <3>1, ProcKept DEF IInv
      <3>4. Whole(in) \subseteq Dereferences(in)
        BY DEF Whole, Dereferences
      <3>5. Checked(in)
        BY <3>2, <3>3, <3>4 DEF Checked, InstrResolves, Tables
      <3>. QED  BY <2>1, <3>5 DEF Old
    <2>2. CASE ~Old(p, i)
      BY <2>2 DEF KeepsCode
    <2>. QED  BY <2>1, <2>2
  <1>3. ASSUME NEW p \in Ids(procs'), NEW i \in Ids(At(procs', p).code)
        PROVE  Inside(At(At(procs, p).code, i))'
    <2>1. PICK in : in = At(At(procs', p).code, i)
      OBVIOUS
    <2>2. Checked(in)
      BY <1>2, <2>1
    <2>3. \A reg \in Whole(in) : \/ in.offset < VarTypeOf(reg)'.bytes
                                 \/ in.offset = UINT32 - 1
      BY <1>1, <2>2
    <2>. QED  BY <2>1, <2>3 DEF Inside
  <1>. QED  BY <1>3 DEF BytesStayInside, Code, CodeIds, InstrAt, Current

(* No table operation changes the size of a register's element.            *)
LEMMA TablesKeepBytes ==
    ASSUME IInv,
           \/ \E bytes \in ByteSizes : AddVarType(bytes)
           \/ \E id, vtype, flags : \E count \in Counts :
                  AddVarTypeVRef(id, flags, vtype, count)
           \/ \E flags, vtype : \E count \in Counts : AddReg(flags, vtype, count)
    PROVE  KeepsBytes
  <1>0. /\ vtypes \in Seq(VarTypes) /\ regs \in Seq(VarSpecs)
        /\ \A r \in Ids(regs) : At(regs, r).vtype \in Ids(vtypes)
    BY IInvFacts, RegTypeFacts
  <1>1. ASSUME NEW bytes \in ByteSizes, AddVarType(bytes) PROVE KeepsBytes
    <2> DEFINE e == [bytes |-> bytes, vrefs |-> << >>]
    <2>1. regs' = regs /\ (vtypes' = vtypes \/ vtypes' = Append(vtypes, e))
      BY <1>1 DEF AddVarType, Call
    <2>2. \A t \in Ids(vtypes) : At(Append(vtypes, e), t) = At(vtypes, t)
      BY <1>0 DEF At, Ids
    <2> HIDE DEF e
    <2>3. \A t \in Ids(vtypes) : At(vtypes', t) = At(vtypes, t)
      BY <2>1, <2>2
    <2>. QED  BY <1>0, <2>1, <2>3 DEF KeepsBytes, VarTypeOf
  <1>2. ASSUME NEW id, NEW vtype, NEW flags, NEW count \in Counts,
               AddVarTypeVRef(id, flags, vtype, count)
        PROVE  KeepsBytes
    <2> DEFINE vref == [flags |-> flags, vtype |-> vtype, count |-> count]
               w == [vtypes EXCEPT ![id + 1].vrefs = Append(@, vref)]
    <2>1. regs' = regs /\ (vtypes' = vtypes \/ vtypes' = w)
      BY <1>2 DEF AddVarTypeVRef
    <2>2. \A t \in Ids(vtypes) : At(w, t).bytes = At(vtypes, t).bytes
      <3>1. ASSUME NEW t \in Ids(vtypes) PROVE At(w, t).bytes = At(vtypes, t).bytes
        <4>1. t + 1 \in DOMAIN vtypes /\ vtypes[t + 1] \in VarTypes
          BY <1>0 DEF Ids
        <4>2. \/ w[t + 1] = vtypes[t + 1]
              \/ w[t + 1] = [vtypes[t + 1] EXCEPT !.vrefs = Append(@, vref)]
          BY <4>1
        <4> HIDE DEF w, vref
        <4>. QED  BY <4>1, <4>2 DEF At, VarTypes
      <3>. QED  BY <3>1
    <2> HIDE DEF w
    <2>3. \A t \in Ids(vtypes) : At(vtypes', t).bytes = At(vtypes, t).bytes
      BY <2>1, <2>2
    <2>. QED  BY <1>0, <2>1, <2>3 DEF KeepsBytes, VarTypeOf
  <1>3. ASSUME NEW flags, NEW vtype, NEW count \in Counts, AddReg(flags, vtype, count)
        PROVE  KeepsBytes
    <2> DEFINE e == [flags |-> flags, vtype |-> vtype, count |-> count]
    <2>1. vtypes' = vtypes /\ (regs' = regs \/ regs' = Append(regs, e))
      BY <1>3 DEF AddReg, Call
    <2>2. \A r \in Ids(regs) : At(Append(regs, e), r) = At(regs, r)
      BY <1>0 DEF At, Ids
    <2> HIDE DEF e
    <2>3. \A r \in Ids(regs) : At(regs', r) = At(regs, r)
      BY <2>1, <2>2
    <2>. QED  BY <2>1, <2>3 DEF KeepsBytes, VarTypeOf
  <1>. QED  BY <1>1, <1>2, <1>3

LEMMA SameProcs == ASSUME procs' = procs PROVE KeepsCode
  BY DEF KeepsCode, Old

LEMMA AddProcKeepsCode ==
    ASSUME IInv, NEW flags, NEW ptype, AddProc(flags, ptype)
    PROVE  KeepsCode
  <1> DEFINE e == [flags |-> flags, ptype |-> ptype, code |-> << >>, ills |-> 0]
  <1>1. procs' = procs \/ procs' = Append(procs, e)
    BY DEF AddProc, Call
  <1>2. CASE procs' = Append(procs, e)
    <2>1. ASSUME NEW p \in Ids(procs'), NEW i \in Ids(At(procs', p).code)
          PROVE  Old(p, i)
      <3>1. At(procs', p) = e \/ (p \in Ids(procs) /\ At(procs', p) = At(procs, p))
        BY <1>2, IInvFacts DEF At, Ids
      <3>2. Ids(e.code) = {}
        BY DEF Ids
      <3> HIDE DEF e
      <3>. QED  BY <3>1, <3>2 DEF Old
    <2>. QED  BY <2>1 DEF KeepsCode
  <1>. QED  BY <1>1, <1>2, SameProcs

LEMMA AddProcInstrKeepsCode ==
    ASSUME IInv, NEW p, NEW in \in Instrs, AddProcInstr(p, in)
    PROVE  KeepsCode
  <1>1. CASE procs' = procs
    BY <1>1, SameProcs
  <1>2. CASE procs' # procs
    <2>1. p \in Ids(procs)
      BY <1>2 DEF AddProcInstr
    <2> DEFINE w == Replace(procs, p, Stored(At(procs, p), in))
    <2>2. PICK guess \in BOOLEAN :
              LET operands == Operands(p, in, guess)
                  outcome == IF operands = OK THEN Effect(At(procCons, p), in)
                             ELSE Outcome(operands, At(procCons, p), At(procCons, p))
                  added == AddInstr(At(procCons, p), outcome)
              IN  /\ procs' = IF added.exc # OK THEN procs ELSE w
      BY <2>1 DEF AddProcInstr
    <2> DEFINE con == At(procCons, p)
               operands == Operands(p, in, guess)
               outcome == IF operands = OK THEN Effect(con, in)
                          ELSE Outcome(operands, con, con)
               added == AddInstr(con, outcome)
    <2>3. procs' = w /\ added.exc = OK
      BY <1>2, <2>2
    <2> HIDE DEF w, con
    <2>4. operands = OK
      <3>1. CASE operands # OK
        <4>1. outcome = [exc |-> operands, con |-> con]
          BY <3>1 DEF Outcome
        <4> HIDE DEF outcome, operands
        <4>2. added.exc # OK
          BY <3>1, <4>1 DEF AddInstr, Outcome, OK
        <4>. QED  BY <2>3, <4>2
      <3>. QED  BY <3>1
    <2>5. Checked(in)
      BY <2>4, OperandsInside DEF Checked
    <2>6. ASSUME NEW q \in Ids(w), NEW i \in Ids(At(w, q).code)
          PROVE  \/ /\ q \in Ids(procs) /\ i \in Ids(At(procs, q).code)
                    /\ At(At(w, q).code, i) = At(At(procs, q).code, i)
                 \/ At(At(w, q).code, i) = in
      <3>1. q \in Ids(procs) /\ At(procs, q) \in Procs
        <4>1. q \in Ids(procs)
          BY <2>1, IInvFacts DEF w, Replace, Ids
        <4>. QED  BY <4>1, IInvFacts, EntryFacts
      <3>2. \/ At(w, q) = At(procs, q)
            \/ At(w, q) = Stored(At(procs, q), in)
        <4>1. q + 1 \in DOMAIN procs
          BY <3>1, IInvFacts DEF Ids
        <4>2. w[q + 1] = procs[q + 1] \/ w[q + 1] = Stored(procs[q + 1], in)
          BY <4>1 DEF w, Replace, At
        <4>. QED  BY <4>2 DEF At
      <3>3. At(procs, q).code \in Seq(Instrs)
        BY <3>1 DEF Procs
      <3>4. CASE At(w, q) = Stored(At(procs, q), in)
        <4>1. At(w, q).code = At(procs, q).code \/ At(w, q).code = Append(At(procs, q).code, in)
          BY <3>1, <3>4, StoredIs
        <4>2. PICK c \in Seq(Instrs) : c = At(procs, q).code
          BY <3>3
        <4>3. CASE At(w, q).code = c
          BY <2>6, <3>1, <4>2, <4>3
        <4>4. CASE At(w, q).code = Append(c, in)
          <5>1. i \in Ids(Append(c, in))
            BY <2>6, <4>4
          <5>2. (i \in Ids(c) /\ At(Append(c, in), i) = At(c, i)) \/ At(Append(c, in), i) = in
            BY <5>1 DEF At, Ids
          <5>. QED  BY <3>1, <4>2, <4>4, <5>2
        <4>. QED  BY <4>1, <4>2, <4>3, <4>4
      <3>5. CASE At(w, q) = At(procs, q)
        BY <2>6, <3>1, <3>5
      <3>. QED  BY <3>2, <3>4, <3>5
    <2>. QED  BY <2>3, <2>5, <2>6 DEF KeepsCode, Old
  <1>. QED  BY <1>1, <1>2

LEMMA BytesStep == IInv /\ BytesStayInside /\ [Next]_vars => BytesStayInside'
  <1> SUFFICES ASSUME IInv, BytesStayInside, [Next]_vars PROVE BytesStayInside'
    OBVIOUS
  <1>1. CASE procs' = << >>
    BY <1>1 DEF BytesStayInside, Current, Ids
  <1>2. ASSUME vtypes' = vtypes, regs' = regs, KeepsCode PROVE BytesStayInside'
    <2>1. KeepsBytes
      BY <1>2 DEF KeepsBytes, VarTypeOf
    <2>. QED  BY <1>2, <2>1, BytesKept
  <1>3. CASE \/ \E bytes \in ByteSizes : AddVarType(bytes)
             \/ \E id, vtype, flags : \E count \in Counts :
                    AddVarTypeVRef(id, flags, vtype, count)
             \/ \E flags, vtype : \E count \in Counts : AddReg(flags, vtype, count)
    <2>1. procs' = procs
      BY <1>3 DEF AddVarType, AddVarTypeVRef, AddReg
    <2>. QED  BY <1>3, <2>1, TablesKeepBytes, SameProcs, BytesKept
  <1>4. ASSUME NEW flags, NEW io, AddProcType(flags, io) PROVE BytesStayInside'
    BY <1>2, <1>4, SameProcs DEF AddProcType
  <1>5. ASSUME NEW flags, NEW ptype, AddProc(flags, ptype) PROVE BytesStayInside'
    BY <1>2, <1>5, AddProcKeepsCode DEF AddProc
  <1>6. ASSUME NEW p, NEW in \in Instrs, AddProcInstr(p, in) PROVE BytesStayInside'
    BY <1>2, <1>6, AddProcInstrKeepsCode DEF AddProcInstr
  <1>7. CASE ResetModule
    BY <1>1, <1>7 DEF ResetModule, Cleared
  <1>8. CASE CreateModule
    <2>1. procs' = << >> \/ UNCHANGED tables
      BY <1>8 DEF CreateModule, Cleared
    <2>. QED  BY <1>1, <1>2, <2>1, SameProcs DEF tables
  <1>9. CASE UNCHANGED vars
    BY <1>2, <1>9, SameProcs DEF vars
  <1>. QED  BY <1>3, <1>4, <1>5, <1>6, <1>7, <1>8, <1>9 DEF Next

(* An accepted LDB or STB stays inside its variable's element whatever is  *)
(* added, refused or reset after it: the uint32_t sum of the check is      *)
(* wrong for one offset only.                                              *)
THEOREM BytesAlwaysInside == Spec => []BytesStayInside
  <1>1. Init => BytesStayInside
    BY DEF Init, BytesStayInside, Current, Ids
  <1>. QED  BY <1>1, BytesStep, Invariance, PTL DEF Spec

=============================================================================
