---------------------------- MODULE MCInstrCode ----------------------------
(***************************************************************************)
(* Groups of 2 bits, at most 6 of them: as in the code, three operands of  *)
(* two bytes fit in an instruction, and so do two and a 32-bit one.        *)
(* Values: on both sides of every power of two, at both ends.              *)
(***************************************************************************)
EXTENDS InstrCode

MCTableMax == Group ^ 2 - 1            \* MB_UINT_MAX(2)
MCUINT32 == Group ^ 2 * 2              \* takes three bytes
MCGarbage == {0, Group - 1, ByteMax}

Edges == UNION {{2 ^ k - 1, 2 ^ k} : k \in 0 .. Width - 2}
Values == {v \in Edges \cup {2 ^ Width - 1, 2 ^ (Width - 1)} : v < 2 ^ Width}
Jumps == {v \in Edges \cup {-v : v \in Edges} \cup {4 - v : v \in Edges}
            \cup {2 ^ j - 1 - 2 ^ k : j \in 1 .. 5, k \in {6, 8, 10, 11}}
            \cup {-(2 ^ (Width - 1))} : v < 2 ^ (Width - 1)}
Ids == {0, Group - 1, Group, MCTableMax - 1, MCTableMax, MCUINT32 - 1}

IdEdges == {Group - 1, Group, MCTableMax}

(* A refused instruction changes nothing but exc and offered: what follows *)
(* it has been seen.  Two instructions are enough for one to follow.       *)
Bounded == exc = OK /\ Len(checked) < 2

MCGiven ==
    {[op |-> op, params |-> << i, j, k >>] :
        op \in {"LDE", "LDB", "LDR", "STR"}, i \in {0, Group}, j \in IdEdges, k \in Ids}
    \cup {[op |-> "BJ", params |-> << Group, Group, v >>] : v \in Jumps}
    \cup {[op |-> "JMP", params |-> << v >>] : v \in Jumps}
    \cup {[op |-> "CPI", params |-> << v, i >>] : v \in Values, i \in IdEdges}
    \cup {[op |-> "PUSH", params |-> << i >>] : i \in Ids}
    \cup {[op |-> op, params |-> << >>] : op \in {"ILL", "RET"}}
=============================================================================
