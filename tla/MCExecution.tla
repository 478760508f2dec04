---------------------------- MODULE MCExecution ----------------------------
(***************************************************************************)
(* Execution for TLC.  One record type, 8 bytes and a reference to such a  *)
(* record, and three registers: ED, 1 a record (the IO of every procedure) *)
(* and 2 a reference to one.  Procedures 1 to 4 are there from the start;  *)
(* the client is some way into procedure 0 (Begun) and adds a few          *)
(* instructions and the POPs it needs.                                     *)
(***************************************************************************)
EXTENDS Execution

CONSTANT EXTRA            \* instructions added to procedure 0, POPs apart

MCOffsetMin == -3
MCUINT32 == 64
NoArguments == {}

Record == [flags |-> {}, vtype |-> 1, count |-> 1]
push == [op |-> "PUSH", reg |-> 1]
pushr == [op |-> "PUSHR", reg |-> 2]
pop == [op |-> "POP"]
load == [op |-> "LDR", from |-> 1, vref |-> 0, to |-> 2]
next == [op |-> "LDR", from |-> 2, vref |-> 0, to |-> 2]
store == [op |-> "STR", from |-> 2, to |-> 1, vref |-> 0]
throw == [op |-> "THROW"]
ret == [op |-> "RET"]
try(offset) == [op |-> "PUSHH", offset |-> offset]
call(p) == [op |-> "CALL", proc |-> p]

(* The callees: replaces its argument's reference; throws, fails or        *)
(* returns inside a frame; calls one that throws, with a variable of its   *)
(* own.                                                                    *)
Callees == << << pushr, load, next, store, pop, ret >>,
              << pushr, load, throw, pop, ret >>,
              << pushr, [op |-> "UO", it |-> 2], ret, pop, ret >>,
              << push, pushr, load, pop, call(2), pop, ret >> >>

(* How procedure 0 begins: with a loaded reference; with a variable to     *)
(* pass; with a loaded reference inside and outside a handler; with a      *)
(* variable to pass inside one; with a landing pad built for a handler.    *)
Begun == { << pushr, load >>,
           << pushr, load, push, store >>,
           << pushr, load, try(5), pushr, load >>,
           << push, pushr, load, store, try(3), push >>,
           << pushr, load, try(2), throw >> }

ConAfter(code) ==
    FoldLeft(LAMBDA con, in : AddInstr(con, Effect(con, in)).con,
             NewProcCon(1), code)

MCInit ==
    /\ vtypes = PresetVarTypes \o << [bytes |-> 8, vrefs |-> << Record >>] >>
    /\ regs = PresetRegs \o << Record, Record >>
    /\ ptypes = << [flags |-> {}, io |-> 1] >>
    /\ \E code \in Begun :
         LET codes == << code >> \o Callees IN
         /\ procs = [n \in DOMAIN codes |->
                       [flags |-> {}, ptype |-> 0, code |-> codes[n],
                        ills |-> 0]]
         /\ procCons = [n \in DOMAIN codes |-> ConAfter(codes[n])]
    /\ created = NoModule
    /\ exc = OK
    /\ ExecInit

(* The part of ENext in which the client adds to procedure 0 only.         *)
MCNext == \/ /\ run = "idle" /\ created = NoModule
             /\ \/ \E in \in Instrs : AddProcInstr(0, in)
                \/ CreateModule
             /\ UNCHANGED evars
          \/ Start /\ UNCHANGED vars
          \/ Execute /\ UNCHANGED vars
MCSpec == MCInit /\ [][MCNext]_<< vars, evars >>

(* A chain of two, a variable that refers to itself, and no reference.     *)
MCInitialRefs == {[io |-> 1, heap |-> << 2, Null >>],
                  [io |-> 1, heap |-> << 1 >>],
                  [io |-> Null, heap |-> << Null >>]}

MCInstrs == {push, pushr, pop, try(2), load, next, store, throw,
             [op |-> "LDE", from |-> 2, elt |-> 1, to |-> 1],
             [op |-> "STE", from |-> 1, to |-> 2, elt |-> 1],
             [op |-> "UJ", it |-> 1, offset |-> -2],
             ret}
            \cup {call(p) : p \in 1 .. 4}

-----------------------------------------------------------------------------
(* Bounds.  The client adds EXTRA instructions besides POPs, closes its    *)
(* frames and ends with RET; a loop is followed while its abandoned        *)
(* references and its stack stay few, and a count until it would wrap.     *)
Begins(code) == CHOOSE n \in 1 .. Len(code) :
                    /\ SubSeq(code, 1, n) \in Begun
                    /\ \A k \in n + 1 .. Len(code) : SubSeq(code, 1, k) \notin Begun
Added(code) == Cardinality({n \in Begins(code) + 1 .. Len(code) : code[n] # pop})
Building ==
    procs # << >> =>
        LET code == At(procs, 0).code
            open == Len(At(procCons, 0).frames) - 1
        IN  /\ exc = OK
            /\ Len(code) + open < PROC_INSTR_MAX \/ open = 0
            /\ \/ Added(code) <= EXTRA
               \/ Added(code) = EXTRA + 1 /\ Last(code) = ret /\ open = 0
Bounded == /\ Building
           /\ Len(mem) <= 8
           /\ \A h \in Heap : leaks[h] <= 3 /\ heap[h].count >= 0
=============================================================================
