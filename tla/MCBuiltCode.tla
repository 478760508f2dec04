---------------------------- MODULE MCBuiltCode ----------------------------
(***************************************************************************)
(* Instances of BuiltCode for TLC.  Tables: every table operation, from    *)
(* the empty builder, with the arguments at and around each limit.         *)
(* Code: the tables are those a client has already filled (Filled), and    *)
(* code is added to the one procedure: short code with every kind of       *)
(* operand (Operands), or longer code without operands (Control).          *)
(***************************************************************************)
EXTENDS BuiltCode

MCOffsetMin == -2
MCUINT32 == 64           \* scaled: any modulus above ELT_BYTES_MAX wraps alike

(* Values around the limits ELT_BYTES_MAX = 8 and VAR_COUNT_MAX = 2.       *)
TablesByteSizes == {8, 9}
TablesCounts == {0, 2, 3}
TablesVRefFlags == {{}, {"TOP_LEVEL"}}
TablesRegFlags == {{}, {"TOP_LEVEL"}, {"THREAD_LOCAL"}, {"RESERVED"}}
TablesPFlags == {{}, {"RESERVED"}}
TablesInstrs == {[op |-> "UO", it |-> 1], [op |-> "CALL", proc |-> 0],
                 [op |-> "PUSH", reg |-> 1], [op |-> "PUSH", reg |-> 2],
                 [op |-> "ILL"]}

NoArguments == {}

(* One module at a time: what follows createModule starts afresh.          *)
OneModule == created = NoModule

(* Element types 1 (a word), 2 (a word and a reference to a word).         *)
(* Registers: 1 a word (the procedures' IO), 2 a record of type 2, 3 a     *)
(* word reference, 4 a top-level word.                                     *)
Filled(types, registers, procedures) ==
    /\ vtypes = PresetVarTypes \o types
    /\ regs = PresetRegs \o registers
    /\ ptypes = << [flags |-> {}, io |-> 1] >>
    /\ procs = procedures
    /\ procCons = [n \in DOMAIN procedures |-> NewProcCon(1)]
    /\ created = NoModule
    /\ exc = OK
Word == [flags |-> {}, vtype |-> 1, count |-> 1]
EmptyProc == [flags |-> {}, ptype |-> 0, code |-> << >>, ills |-> 0]

OperandsInit ==
    Filled(<< [bytes |-> 8, vrefs |-> << >>],
              [bytes |-> 8, vrefs |-> << Word >>] >>,
           << Word, [Word EXCEPT !.vtype = 2], Word,
              [Word EXCEPT !.flags = {"TOP_LEVEL"}] >>,
           << EmptyProc >>)

RegChoice == {2, 3, 4, 5}       \* 5: past the end
OperandsInstrs ==
    {[op |-> "UO", it |-> r] : r \in RegChoice}
    \cup {[op |-> "BO", operand1 |-> 1, operand2 |-> 4, result |-> 3],
          [op |-> "CPI", size |-> 8, to |-> 3],
          [op |-> "CPB", from |-> 2, to |-> 3],
          [op |-> "LDE", from |-> 1, elt |-> 1, to |-> 3],
          [op |-> "LDE", from |-> 2, elt |-> 1, to |-> 3],
          [op |-> "STE", from |-> 1, to |-> 3, elt |-> 4],
          [op |-> "PUSH", reg |-> 2], [op |-> "PUSH", reg |-> 3],
          [op |-> "PUSHR", reg |-> 2], [op |-> "PUSHR", reg |-> 3],
          [op |-> "PUSH", reg |-> 4], [op |-> "PUSHH", offset |-> 1],
          [op |-> "POP"], [op |-> "CALL", proc |-> 0], [op |-> "ILL"]}
    \cup {[op |-> "LDB", from |-> 1, offset |-> o, to |-> 1] :
             o \in {7, 8, MCUINT32 - 1}}
    \cup {[op |-> "STB", from |-> 1, to |-> 3, offset |-> 7]}
    \cup {[op |-> "LDR", from |-> 2, vref |-> v, to |-> 3] : v \in {0, 1}}
    \cup {[op |-> "STR", from |-> 3, to |-> 2, vref |-> 0],
          [op |-> "LDR", from |-> 2, vref |-> 0, to |-> 4]}

ControlInit == Filled(<< [bytes |-> 8, vrefs |-> << >>] >>, << Word >>,
                      << EmptyProc >>)
ControlInstrs ==
    {[op |-> "PUSH", reg |-> 1], [op |-> "POP"], [op |-> "THROW"],
     [op |-> "RET"], [op |-> "ILL"]}
    \cup {[op |-> "PUSHH", offset |-> o] : o \in {2, 3}}
    \cup {[op |-> "JMP", offset |-> 2],
          [op |-> "UJ", it |-> 1, offset |-> -1],
          [op |-> "BJ", operand1 |-> 0, operand2 |-> 1, offset |-> 0]}

(* The part of Next in which a client adds to what it has begun, resets or *)
(* creates the module: at most four instructions of Operands, or as many   *)
(* of Control as a procedure takes.                                        *)
CodeInstrs == OperandsInstrs \cup ControlInstrs
Offered == IF Len(regs) < 5 THEN ControlInstrs
           ELSE IF procCons[1].instrCount < 4 THEN OperandsInstrs ELSE {}
CodeInit == OperandsInit \/ ControlInit
CodeNext == \/ procs # << >> /\ \E in \in Offered : AddProcInstr(0, in)
            \/ ResetModule
            \/ CreateModule
CodeSpec == CodeInit /\ [][CodeNext]_vars
=============================================================================
