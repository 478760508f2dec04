----------------------------- MODULE InstrCode -----------------------------
(***************************************************************************)
(* Class Instr as bytes: a client constructs an instruction from its       *)
(* operands, addProcInstr reads them back, checks them and copies the      *)
(* bytes to the procedure's code, and whoever walks the code later reads   *)
(* them again (instr.cpp, instr.h, mbuilder.cpp:250-259).                  *)
(*                                                                         *)
(* The checks are those on the value of one operand; the tables are full,  *)
(* so that each id below TABLE_MAX names something that fits, and the      *)
(* procedure has room.  ModuleBuilder.tla has the other checks, on         *)
(* instructions that are records already.                                  *)
(*                                                                         *)
(* given and checked are history variables: the accepted instructions as   *)
(* they were constructed and as the checks saw them; offered is the last   *)
(* one constructed.                                                        *)
(***************************************************************************)
EXTENDS MBInt, SequencesExt

CONSTANTS TABLE_MAX,         \* entries of each table
          ELT_BYTES_MAX,
          UINT32,            \* modulus of the ids and of byte arithmetic
          Given,             \* instructions clients construct
          Garbage            \* what uninitialized bytes may hold

(* vmdefs.h:14-26 and instr.h:12, where 2^32 takes five groups of nine.    *)
ASSUME InstrAssumption ==
    /\ {TABLE_MAX, ELT_BYTES_MAX, UINT32} \subseteq Nat \ {0}
    /\ GROUPS >= 5
    /\ TABLE_MAX <= Power(Group, 2) /\ UINT32 <= Power(Group, GROUPS - 3)
    /\ Garbage \subseteq 0 .. ByteMax /\ Garbage # {}

VARIABLES code, given, checked, offered, exc

vars == << code, given, checked, offered, exc >>

OK == "ok"
INSTR_OFFSET_MIN == -(Group \div 2)        \* MB_INT_MIN(1)
INSTR_OFFSET_MAX == Group \div 2 - 1       \* MB_INT_MAX(1)

MaxInstrSizeShort == GROUPS + 1
MAX_INSTR_SIZE == GROUPS + 2

(* The operands of each class of instruction: an id (of a register or a    *)
(* procedure), a value that is not checked, a byte offset, the number of a *)
(* reference, or the offset of a jump, the one signed operand.             *)
Opcodes == << "ILL", "UO", "BO", "UJ", "BJ", "CPI", "PUSH", "PUSHR", "PUSHH",
              "POP", "JMP", "CPB", "LDE", "LDB", "LDR", "STE", "STB", "STR",
              "CALL", "THROW", "RET" >>
OpcodeOf(op) == (CHOOSE n \in DOMAIN Opcodes : Opcodes[n] = op) - 1
Kinds(op) ==
    CASE op \in {"ILL", "POP", "THROW", "RET"} -> << >>
      [] op \in {"UO", "PUSH", "PUSHR", "CALL"} -> << "id" >>
      [] op \in {"JMP", "PUSHH"} -> << "jump" >>
      [] op = "CPB" -> << "id", "id" >>
      [] op = "UJ" -> << "id", "jump" >>
      [] op = "CPI" -> << "value", "id" >>
      [] op \in {"BO", "LDE", "STE"} -> << "id", "id", "id" >>
      [] op = "BJ" -> << "id", "id", "jump" >>
      [] op = "LDB" -> << "id", "byte", "id" >>
      [] op = "LDR" -> << "id", "vref", "id" >>
      [] op = "STB" -> << "id", "id", "byte" >>
      [] op = "STR" -> << "id", "id", "vref" >>

(* The types of the constructors' parameters: uint32_t, size_t, ptrdiff_t. *)
ParamType(kind) ==
    CASE kind \in {"id", "byte", "vref"} -> 0 .. UINT32 - 1
      [] kind = "value" -> 0 .. Power(2, Width) - 1
      [] kind = "jump" -> -Power(2, Width - 1) .. Power(2, Width - 1) - 1

ASSUME GivenAssumption ==
    \A in \in Given :
        /\ in.op \in ToSet(Opcodes)
        /\ DOMAIN in.params = DOMAIN Kinds(in.op)
        /\ \A k \in DOMAIN in.params : in.params[k] \in ParamType(Kinds(in.op)[k])

(* The order in which assertConsistency reads them.                        *)
CheckOrder(op) == IF op = "LDE" THEN << 1, 3, 2 >>
                  ELSE [k \in DOMAIN Kinds(op) |-> k]

Allowed(kind, v) ==
    CASE kind \in {"id", "vref"} -> v < TABLE_MAX
      [] kind = "byte" -> (v + 1) % UINT32 <= ELT_BYTES_MAX
      [] kind = "jump" -> v \in INSTR_OFFSET_MIN .. INSTR_OFFSET_MAX
      [] kind = "value" -> TRUE

-----------------------------------------------------------------------------
(* setParam, set2Params2 ...: what the constructor writes, and the dat of  *)
(* the object after it, where a longer encoding runs past the end.         *)
Encoded(in) ==
    FlattenSeq([k \in DOMAIN in.params |->
        IF Kinds(in.op)[k] = "jump" THEN WriteMBInt(in.params[k])
                                    ELSE WriteMBUInt(in.params[k])])
Dat(in, garbage) ==
    LET bytes == Encoded(in)
    IN  [k \in 1 .. MAX_INSTR_SIZE - 1 |->
            IF k <= Len(bytes) THEN bytes[k] ELSE garbage]

(* Where operand k ends in dat, None when dat ends first: getParam reads   *)
(* every operand before the one it is asked for, size() all of them.       *)
None == -1
Rest(dat, end) == SubSeq(dat, end + 1, Len(dat))
After(dat, end) ==
    LET size == SizeIn(Rest(dat, end))
    IN  IF end = None \/ size = 0 THEN None ELSE end + size
EndOf(dat, k) ==
    LET end[n \in 0 .. k] == IF n = 0 THEN 0 ELSE After(dat, end[n - 1])
    IN  end[k]
Param(op, dat, k) ==
    LET bytes == Rest(dat, EndOf(dat, k - 1))
    IN  CASE Kinds(op)[k] = "jump" -> ReadMBInt(bytes)
          [] Kinds(op)[k] = "value" -> ReadMBUInt(bytes)
          [] OTHER -> ReadMBUInt(bytes) % UINT32

OperandCountShort(op) == IF op = "BJ" THEN 2 ELSE Len(Kinds(op))
OperandCount(op) == Len(Kinds(op))
InstrSize(op, dat) == IF op = "ILL" THEN 0     \* VIRTUAL_CALL's default
                      ELSE 1 + EndOf(dat, OperandCount(op))
InstrRead(op, dat) ==
    [op |-> op, params |-> [k \in DOMAIN Kinds(op) |-> Param(op, dat, k)]]

-----------------------------------------------------------------------------
Init == /\ code = << >> /\ given = << >> /\ checked = << >>
        /\ offered = [op |-> "POP", params |-> << >>]
        /\ exc = OK

(* assertConsistency, then size(): the first operand, in the order they    *)
(* are looked at, that cannot be read or is refused.                       *)
Verdict(op, dat) ==
    LET order == CheckOrder(op)
        wrong == {n \in DOMAIN order :
                    EndOf(dat, order[n]) = None
                      \/ ~Allowed(Kinds(op)[order[n]], Param(op, dat, order[n]))}
    IN  IF wrong = {} THEN OK
        ELSE IF EndOf(dat, order[Min(wrong)]) = None THEN "EndOfFile"
        ELSE "Refused"

AddProcInstr(in) ==
    \E garbage \in Garbage :
        LET dat == Dat(in, garbage)
            verdict == Verdict(in.op, dat)
        IN  /\ offered' = in
            /\ exc' = verdict
            /\ IF verdict # OK THEN UNCHANGED << code, given, checked >>
               ELSE /\ code' = code \o SubSeq(<< OpcodeOf(in.op) >> \o dat,
                                              1, InstrSize(in.op, dat))
                    /\ given' = Append(given, in)
                    /\ checked' = Append(checked, InstrRead(in.op, dat))

Next == \E in \in Given : AddProcInstr(in)

Spec == Init /\ [][Next]_vars

-----------------------------------------------------------------------------
(* The instruction that starts at an offset of the code, as Instr::set and *)
(* the accessors see it; the bytes it takes with it past the end of the    *)
(* code may be anything.                                                   *)
OpAt(at) == Opcodes[code[at + 1] + 1]
DatAt(at, garbage) ==
    [k \in 1 .. MAX_INSTR_SIZE - 1 |->
        IF at + 1 + k <= Len(code) THEN code[at + 1 + k] ELSE garbage]

(* The walks of the code (mdata.cpp:231-238, 806-810) meet, in order,      *)
(* exactly the instructions the builder checked, operands included, but    *)
(* for those of an Instr() that was never set, which were counted and      *)
(* stored no byte (mbuilder.cpp:255-258): no operand is longer or shorter  *)
(* in the code than it was in the object, whatever follows it.             *)
WalkedIsChecked ==
    \A garbage \in Garbage :
        LET start[n \in 0 .. Len(checked)] ==
                IF n = 0 THEN 0
                ELSE IF checked[n].op = "ILL" THEN start[n - 1]
                ELSE start[n - 1] + InstrSize(OpAt(start[n - 1]),
                                              DatAt(start[n - 1], garbage))
        IN  /\ start[Len(checked)] = Len(code)
            /\ \A n \in DOMAIN checked : checked[n].op # "ILL" =>
                InstrRead(OpAt(start[n - 1]), DatAt(start[n - 1], garbage))
                    = checked[n]

(* What was checked and stored is what the client gave, but for one family *)
(* of jumps: a negative offset whose first bits after the sign are a whole *)
(* group of zeros, group number k - 1, is taken for one that begins at the *)
(* highest group under it that is not zero, group number s - 1             *)
(* (util.cpp:84-95: writeMBUIntEx stops at the last group that is not      *)
(* zero).                                                                  *)
Folded(v, read) ==
    \E k \in 2 .. GROUPS - 1 : \E s \in 1 .. k - 1 :
        v = read + Power(Group, s) - Power(Group, k)
OperandsKept ==
    \A n \in DOMAIN given :
        /\ given[n].op = checked[n].op
        /\ \A k \in DOMAIN given[n].params :
            LET v == given[n].params[k]
                read == checked[n].params[k]
            IN  \/ v = read
                \/ Kinds(given[n].op)[k] = "jump" /\ Folded(v, read)

(* An instruction with operands in range is accepted, but for the one kind *)
(* that does not fit in MAX_INSTR_SIZE bytes (instr.h:12): a CPI8 of a     *)
(* value of full length to a register whose id takes two bytes.            *)
(* Its constructor writes past the object and its operand cannot be read.  *)
Legal(in) ==
    \A k \in DOMAIN in.params : Allowed(Kinds(in.op)[k], in.params[k])
TooLong(in) ==
    /\ in.op = "CPI"
    /\ in.params[1] >= Power(Group, GROUPS - 1)
    /\ in.params[2] >= Group
LegalIsAccepted ==
    Legal(offered) =>
        exc = IF TooLong(offered) THEN "EndOfFile" ELSE OK

(* vm/test/util.test.cpp:69-70 reads back the value it wrote: what an      *)
(* instruction was constructed with is what its accessors return.          *)
GivenIsStored == given = checked
=============================================================================
