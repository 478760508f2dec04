------------------------------- MODULE MBInt -------------------------------
(***************************************************************************)
(* The multibyte integers of vm/util.cpp.  A number is written in groups   *)
(* of GROUP_BITS bits, lowest first, one to a byte; the bit above them     *)
(* (More) says that another byte follows.  The byte number GROUPS is the   *)
(* last a number can have and is all payload.  The code has 7 bits and 9   *)
(* bytes, which hold the 64 bits of a uint64_t.                            *)
(***************************************************************************)
EXTENDS Integers, Sequences, FiniteSetsExt

CONSTANTS GROUP_BITS, GROUPS

ASSUME GroupsAssumption == GROUP_BITS \in Nat \ {0, 1} /\ GROUPS \in Nat \ {0, 1, 2}

Power(base, n) ==
    LET power[k \in 0 .. n] == IF k = 0 THEN 1 ELSE base * power[k - 1]
    IN  power[n]

Width == GROUP_BITS * GROUPS + 1           \* bits of an integer: 64
Group == Power(2, GROUP_BITS)
More == Group                              \* 0x80
ByteMax == 2 * Group - 1                   \* 0xFF

(* Group number j of value, from 0; the groups below number j.             *)
GroupAt(value, j) == (value \div Power(Group, j)) % Group
Below(value, j) == value % Power(Group, j)
Highest(value) == value \div Power(Group, GROUPS - 1)  \* the last byte's 8 bits

Unsigned(value) == value % Power(2, Width)       \* uint64_t(value)
Signed(value) ==
    IF value < Power(2, Width - 1) THEN value ELSE value - Power(2, Width)

(* writeMBUIntEx: as many bytes as value has groups; extend says that      *)
(* another will follow the last one.                                       *)
WriteMBUIntEx(value, extend) ==
    LET size == Min({k \in 1 .. GROUPS : k = GROUPS \/ value < Power(Group, k)})
    IN  [k \in 1 .. size |->
            IF k = GROUPS THEN Highest(value)
            ELSE GroupAt(value, k - 1)
                   + IF k < size \/ extend THEN More ELSE 0]

WriteMBUInt(value) == WriteMBUIntEx(value, FALSE)

(* The dropped groups are not what the sign of the highest one kept says.  *)
ExtendsNegative(neg, group) == neg /\ group < Group \div 2
Extends(neg, group) == neg = (group < Group \div 2)

(* writeMBInt: the groups above the highest one that is not all sign are   *)
(* dropped, and a byte of sign is added when that one reads as the other   *)
(* sign.  The loop starts at group GROUPS - 2, the code's i = 49.          *)
WriteMBInt(value) ==
    LET v == Unsigned(value)
        neg == value < 0
        sign == IF neg THEN Group - 1 ELSE 0
        highest == Max({0} \cup {j \in 1 .. GROUPS - 2 : GroupAt(v, j) # sign})
        extend == Extends(neg, GroupAt(v, highest))
        extention == IF ~neg THEN 0
                     ELSE IF highest = GROUPS - 2 THEN ByteMax ELSE Group - 1
    IN  IF Highest(v) \notin {0, ByteMax} THEN WriteMBUIntEx(v, FALSE)
        ELSE WriteMBUIntEx(Below(v, highest + 1), extend)
               \o IF extend THEN << extention >> ELSE << >>

-----------------------------------------------------------------------------
(* readMBUInt: how many of the bytes the number takes, 0 when the stream   *)
(* ends before the number does (EndOfFileException), and its value.        *)
SizeIn(bytes) ==
    LET ends == {k \in 1 .. Len(bytes) : k = GROUPS \/ bytes[k] < More}
    IN  IF ends = {} THEN 0 ELSE Min(ends)
ValueOf(number) ==
    LET value[k \in 0 .. Len(number)] ==
            IF k = 0 THEN 0
            ELSE value[k - 1] + Power(Group, k - 1) *
                    IF k = GROUPS THEN number[k] ELSE number[k] % Group
    IN  value[Len(number)]
ReadMBUInt(bytes) == ValueOf(SubSeq(bytes, 1, SizeIn(bytes)))

(* readMBInt: a number shorter than GROUPS bytes has its sign extended.    *)
ReadMBInt(bytes) ==
    LET value == ReadMBUInt(bytes)
        size == SizeIn(bytes)
        negative == size < GROUPS /\ value >= Power(Group, size) \div 2
    IN  IF negative THEN value - Power(Group, size) ELSE Signed(value)
=============================================================================
