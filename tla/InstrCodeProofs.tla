-------------------------- MODULE InstrCodeProofs --------------------------
(***************************************************************************)
(* The three invariants of InstrCode, for groups and numbers of any size,  *)
(* any limits, any operands and any bytes left uninitialized.              *)
(*                                                                         *)
(* That the code is walked as it was checked rests on one fact about       *)
(* reading: how long a number is, and what it is, depends on its own bytes *)
(* only, so an instruction taken from the object it was checked in and set *)
(* among others is the same instruction, and the next one begins where its *)
(* last number ends.                                                       *)
(*                                                                         *)
(* That operands are kept, and legal ones accepted, rests on what reading  *)
(* makes of a number as it was written: the first lemmas say so, for       *)
(* unsigned numbers (UIntWritten), for the three forms of a signed one     *)
(* (IntWritten) and for the jumps (SmallIntWritten, RunsOnFolds); the last *)
(* ones set the operands of an instruction side by side in its object.     *)
(***************************************************************************)
EXTENDS InstrCode, SequenceTheorems, WellFoundedInduction, TLAPS

(* A set of numbers has a least element.                                   *)
LEMMA LeastOf ==
    ASSUME NEW S, S \subseteq Nat, S # {}
    PROVE  \E n \in S : \A k \in S : n <= k
  <1> DEFINE R == OpToRel(<, Nat)
  <1>1. PICK n \in S : \A k \in S : <<k, n>> \notin R
    <2>1. IsWellFoundedOn(R, Nat)
      BY NatLessThanWellFounded
    <2> HIDE DEF R
    <2>. QED  BY <2>1, WFMin
  <1>2. \A k \in S : ~(k < n)
    BY <1>1 DEF OpToRel
  <1>. QED  BY <1>2

LEMMA MinOf ==
    ASSUME NEW S, S \subseteq Nat, S # {}
    PROVE  Min(S) \in S /\ \A k \in S : Min(S) <= k
  BY LeastOf DEF Min

LEMMA SetInduction ==
    ASSUME NEW S, 0 \in S, \A n \in Nat : n \in S => n + 1 \in S
    PROVE  Nat \subseteq S
  <1> SUFFICES ASSUME Nat \ S # {} PROVE FALSE
    OBVIOUS
  <1>1. PICK n \in Nat \ S : \A k \in Nat \ S : n <= k
    BY LeastOf
  <1>2. n - 1 \in Nat /\ n - 1 \in S
    BY <1>1
  <1>. QED  BY <1>1, <1>2

-----------------------------------------------------------------------------
(* Powers.                                                                 *)
Powers(b, m, f) == f = [k \in 0 .. m |-> IF k = 0 THEN 1 ELSE b * f[k - 1]]

(* Power is a recursive function: one that satisfies its equation exists,  *)
(* and it is the only one.                                                 *)
LEMMA PowersExist ==
    ASSUME NEW b
    PROVE  \A m \in Nat : \E f : Powers(b, m, f)
  <1> DEFINE S == {m \in Nat : \E f : Powers(b, m, f)}
  <1>1. 0 \in S
    <2>1. Powers(b, 0, [k \in 0 .. 0 |-> 1])
      BY DEF Powers
    <2>. QED  BY <2>1
  <1>2. ASSUME NEW m \in Nat, m \in S
        PROVE  m + 1 \in S
    <2>1. PICK f : Powers(b, m, f)
      BY <1>2
    <2> DEFINE g == [k \in 0 .. m + 1 |-> IF k = m + 1 THEN b * f[m] ELSE f[k]]
    <2>2. \A k \in 0 .. m + 1 : g[k] = IF k = 0 THEN 1 ELSE b * g[k - 1]
      <3> SUFFICES ASSUME NEW k \in 0 .. m + 1
                   PROVE  g[k] = IF k = 0 THEN 1 ELSE b * g[k - 1]
        OBVIOUS
      <3>1. CASE k = m + 1
        <4>1. g[k] = b * f[m] /\ g[k - 1] = f[m] /\ k # 0
          BY <3>1
        <4> HIDE DEF g
        <4>. QED  BY <4>1
      <3>2. CASE k # m + 1
        <4>1. k \in 0 .. m
          BY <3>2
        <4>2. f[k] = IF k = 0 THEN 1 ELSE b * f[k - 1]
          BY <2>1, <4>1 DEF Powers
        <4>3. g[k] = f[k] /\ (k # 0 => g[k - 1] = f[k - 1])
          BY <4>1
        <4> HIDE DEF g
        <4>. QED  BY <4>2, <4>3
      <3>. QED  BY <3>1, <3>2
    <2>3. g = [k \in 0 .. m + 1 |-> g[k]]
      OBVIOUS
    <2> HIDE DEF g
    <2>4. Powers(b, m + 1, g)
      BY <2>2, <2>3 DEF Powers
    <2>. QED  BY <2>4
  <1> HIDE DEF S
  <1>3. Nat \subseteq S
    BY <1>1, <1>2, SetInduction
  <1>. QED  BY <1>3 DEF S

LEMMA PowersUnique ==
    ASSUME NEW b, NEW m \in Nat, NEW f, NEW g, Powers(b, m, f), Powers(b, m + 1, g)
    PROVE  f[m] = g[m]
  <1> DEFINE S == {n \in Nat : n <= m => f[n] = g[n]}
  <1>1. \A k \in 0 .. m : f[k] = IF k = 0 THEN 1 ELSE b * f[k - 1]
    BY DEF Powers
  <1>2. \A k \in 0 .. m + 1 : g[k] = IF k = 0 THEN 1 ELSE b * g[k - 1]
    BY DEF Powers
  <1>3. 0 \in S
    BY <1>1, <1>2
  <1>4. ASSUME NEW n \in Nat, n \in S
        PROVE  n + 1 \in S
    <2> SUFFICES ASSUME n + 1 <= m PROVE f[n + 1] = g[n + 1]
      OBVIOUS
    <2>1. f[n] = g[n] /\ n + 1 \in 0 .. m /\ n + 1 \in 0 .. m + 1 /\ (n + 1) - 1 = n
          /\ n + 1 # 0
      BY <1>4
    <2>. QED  BY <1>1, <1>2, <2>1
  <1> HIDE DEF S
  <1>5. Nat \subseteq S
    BY <1>3, <1>4, SetInduction
  <1>. QED  BY <1>5 DEF S

LEMMA PowerIs ==
    ASSUME NEW b
    PROVE  /\ Power(b, 0) = 1
           /\ \A n \in Nat : Power(b, n + 1) = b * Power(b, n)
  <1> DEFINE F(n) == CHOOSE f : Powers(b, n, f)
  <1>1. \A n \in Nat : Powers(b, n, F(n))
    BY PowersExist
  <1>2. \A n : Power(b, n) = F(n)[n]
    BY DEF Power, Powers
  <1> HIDE DEF F
  <1>3. F(0)[0] = 1
    BY <1>1 DEF Powers
  <1>4. ASSUME NEW n \in Nat
        PROVE  F(n + 1)[n + 1] = b * F(n)[n]
    <2>1. F(n + 1)[n + 1] = b * F(n + 1)[n]
      <3>1. Powers(b, n + 1, F(n + 1)) /\ n + 1 \in 0 .. n + 1 /\ n + 1 # 0
            /\ (n + 1) - 1 = n
        BY <1>1
      <3>. QED  BY <3>1 DEF Powers
    <2>2. F(n)[n] = F(n + 1)[n]
      BY <1>1, PowersUnique
    <2>. QED  BY <2>1, <2>2
  <1>. QED  BY <1>2, <1>3, <1>4

(* Powers are numbers, and multiply as powers do.                          *)
LEMMA PowerNat ==
    ASSUME NEW b \in Nat \ {0}
    PROVE  \A n \in Nat : Power(b, n) \in Nat \ {0}
  <1> DEFINE S == {n \in Nat : Power(b, n) \in Nat \ {0}}
  <1>1. 0 \in S
    BY PowerIs
  <1>2. ASSUME NEW n \in Nat, n \in S
        PROVE  n + 1 \in S
    <2>1. PICK p \in Nat \ {0} : p = Power(b, n)
      BY <1>2
    <2>2. Power(b, n + 1) = b * p
      BY <2>1, PowerIs
    <2>3. b * p \in Nat \ {0}
      OBVIOUS
    <2>. QED  BY <2>2, <2>3
  <1> HIDE DEF S
  <1>3. Nat \subseteq S
    BY <1>1, <1>2, SetInduction
  <1>. QED  BY <1>3 DEF S

LEMMA PowerPlus ==
    ASSUME NEW b \in Nat \ {0}, NEW m \in Nat
    PROVE  \A n \in Nat : Power(b, m + n) = Power(b, m) * Power(b, n)
  <1> DEFINE S == {n \in Nat : Power(b, m + n) = Power(b, m) * Power(b, n)}
  <1>1. 0 \in S
    BY PowerIs, PowerNat
  <1>2. ASSUME NEW n \in Nat, n \in S
        PROVE  n + 1 \in S
    <2>1. PICK p \in Nat, q \in Nat : p = Power(b, m) /\ q = Power(b, n)
      BY PowerNat
    <2>2. Power(b, m + n) = p * q
      BY <1>2, <2>1
    <2>3. Power(b, n + 1) = b * q
      BY <2>1, PowerIs
    <2>4. Power(b, (m + n) + 1) = b * (p * q)
      <3>1. PICK k \in Nat : k = m + n
        OBVIOUS
      <3>2. Power(b, k + 1) = b * Power(b, k)
        BY PowerIs
      <3>. QED  BY <2>2, <3>1, <3>2
    <2>5. b * (p * q) = p * (b * q) /\ (m + n) + 1 = m + (n + 1)
      OBVIOUS
    <2>. QED  BY <2>1, <2>3, <2>4, <2>5
  <1> HIDE DEF S
  <1>3. Nat \subseteq S
    BY <1>1, <1>2, SetInduction
  <1>. QED  BY <1>3 DEF S

LEMMA PowerOfPower ==
    ASSUME NEW b \in Nat \ {0}, NEW m \in Nat
    PROVE  \A n \in Nat : Power(b, m * n) = Power(Power(b, m), n)
  <1> DEFINE S == {n \in Nat : Power(b, m * n) = Power(Power(b, m), n)}
  <1>1. 0 \in S
    BY PowerIs
  <1>2. ASSUME NEW n \in Nat, n \in S
        PROVE  n + 1 \in S
    <2>1. PICK p \in Nat \ {0} : p = Power(b, m)
      BY PowerNat
    <2>2. PICK q \in Nat : q = Power(p, n)
      BY PowerNat
    <2>3. m * n \in Nat /\ m * (n + 1) = m * n + m
      OBVIOUS
    <2>4. Power(b, m * n + m) = Power(b, m * n) * Power(b, m)
      BY <2>3, PowerPlus
    <2>5. Power(p, n + 1) = p * q
      BY <2>2, PowerIs
    <2>6. Power(b, m * n) = q
      BY <1>2, <2>1, <2>2
    <2>7. q * p = p * q
      OBVIOUS
    <2>. QED  BY <2>1, <2>3, <2>4, <2>5, <2>6, <2>7
  <1> HIDE DEF S
  <1>3. Nat \subseteq S
    BY <1>1, <1>2, SetInduction
  <1>. QED  BY <1>3 DEF S

(* A group has half of its numbers below the bit of the sign, and an       *)
(* integer all groups and a bit.                                           *)
LEMMA GroupFacts ==
    /\ Group \in Nat /\ Group >= 4
    /\ Group \div 2 \in Nat /\ Group = 2 * (Group \div 2)
    /\ Power(2, Width) = 2 * Power(Group, GROUPS)
    /\ Power(2, Width - 1) = Power(Group, GROUPS)
  <1>1. GROUP_BITS \in Nat /\ GROUP_BITS >= 2 /\ GROUPS \in Nat /\ GROUPS >= 3
    BY GroupsAssumption
  <1>2. PICK n \in Nat : n + 2 = GROUP_BITS
    <2>1. GROUP_BITS - 2 \in Nat /\ (GROUP_BITS - 2) + 2 = GROUP_BITS
      BY <1>1
    <2>. QED  BY <2>1
  <1>3. PICK p \in Nat \ {0} : p = Power(2, n)
    BY PowerNat
  <1>4. Group = 2 * (2 * p)
    <2>1. Power(2, n + 1) = 2 * p
      BY <1>3, PowerIs
    <2>2. PICK k \in Nat : k = n + 1
      OBVIOUS
    <2>3. Power(2, k + 1) = 2 * (2 * p)
      BY <2>1, <2>2, PowerIs
    <2>4. k + 1 = GROUP_BITS
      BY <1>2, <2>2
    <2>. QED  BY <2>3, <2>4 DEF Group
  <1>5. Power(2, GROUP_BITS * GROUPS) = Power(Group, GROUPS)
    BY <1>1, PowerOfPower DEF Group
  <1>6. PICK w \in Nat : w = GROUP_BITS * GROUPS
    BY <1>1
  <1>7. Power(2, w + 1) = 2 * Power(2, w)
    BY PowerIs
  <1>8. Width = w + 1 /\ Width - 1 = w
    BY <1>6 DEF Width
  <1>9. Group \div 2 = 2 * p
    BY <1>4
  <1>. QED  BY <1>4, <1>5, <1>6, <1>7, <1>8, <1>9

LEMMA GroupPower ==
    /\ Power(Group, 0) = 1 /\ Power(Group, 1) = Group
    /\ \A n \in Nat : /\ Power(Group, n) \in Nat \ {0}
                      /\ Power(Group, n + 1) = Group * Power(Group, n)
  <1>1. Group \in Nat \ {0}
    BY GroupFacts
  <1>2. /\ Power(Group, 0) = 1
        /\ \A n \in Nat : Power(Group, n + 1) = Group * Power(Group, n)
    BY PowerIs
  <1>3. Power(Group, 1) = Group
    <2>1. Power(Group, 0 + 1) = Group * Power(Group, 0)
      BY <1>2
    <2>2. Power(Group, 1) = Group * 1
      BY <1>2, <2>1
    <2>. QED  BY <1>1, <2>2
  <1>4. \A n \in Nat : Power(Group, n) \in Nat \ {0}
    BY <1>1, PowerNat
  <1>. QED  BY <1>2, <1>3, <1>4

(* Greater powers are multiples of smaller ones.                           *)
LEMMA PowerOver ==
    ASSUME NEW m \in Nat, NEW n \in Nat, m <= n
    PROVE  /\ \E c \in Nat \ {0} : Power(Group, n) = c * Power(Group, m)
           /\ Power(Group, m) <= Power(Group, n)
  <1>1. PICK k \in Nat : n = m + k
    <2>1. n - m \in Nat /\ n = m + (n - m)
      OBVIOUS
    <2>. QED  BY <2>1
  <1>2. Group \in Nat \ {0}
    BY GroupFacts
  <1>3. PICK c \in Nat \ {0}, p \in Nat \ {0} : c = Power(Group, k) /\ p = Power(Group, m)
    BY GroupPower
  <1>4. Power(Group, n) = p * c
    BY <1>1, <1>2, <1>3, PowerPlus
  <1>5. p * c = c * p /\ p <= c * p
    OBVIOUS
  <1>. QED  BY <1>3, <1>4, <1>5

-----------------------------------------------------------------------------
(* Remainders and groups.                                                  *)
LEMMA RemainderIs ==
    ASSUME NEW u \in Nat \ {0}, NEW a \in Int, NEW q \in Int, NEW r \in 0 .. u - 1,
           a = u * q + r
    PROVE  a % u = r /\ a \div u = q
  <1>1. a = u * (a \div u) + (a % u) /\ a % u \in 0 .. u - 1 /\ a \div u \in Int
    OBVIOUS
  <1>2. u * (q - a \div u) = (a % u) - r
    BY <1>1
  <1>3. ASSUME NEW d \in Int, u * d \in -(u - 1) .. u - 1
        PROVE  d = 0
    <2>1. d >= 1 => u * d >= u
      OBVIOUS
    <2>2. d <= -1 => u * d <= -u
      OBVIOUS
    <2>. QED  BY <1>3, <2>1, <2>2
  <1>4. q - a \div u = 0
    BY <1>1, <1>2, <1>3
  <1>. QED  BY <1>1, <1>2, <1>4

(* One group more of a number.                                             *)
LEMMA GroupStep ==
    ASSUME NEW v \in Nat, NEW k \in Nat
    PROVE  /\ GroupAt(v, k) \in 0 .. Group - 1
           /\ Below(v, k) \in 0 .. Power(Group, k) - 1
           /\ Below(v, k + 1) = Below(v, k) + Power(Group, k) * GroupAt(v, k)
           /\ v = Below(v, k) + Power(Group, k) * (v \div Power(Group, k))
           /\ v \div Power(Group, k) \in Nat
  <1>1. PICK p \in Nat \ {0}, g \in Nat \ {0} : p = Power(Group, k) /\ g = Group
    BY GroupFacts, GroupPower
  <1>2. PICK a \in Nat, r \in 0 .. p - 1 : a = v \div p /\ r = v % p /\ v = p * a + r
    OBVIOUS
  <1>3. PICK c \in Nat, d \in 0 .. g - 1 : c = a \div g /\ d = a % g /\ a = g * c + d
    OBVIOUS
  <1>4. v = (g * p) * c + (p * d + r)
    <2>1. v = p * (g * c + d) + r
      BY <1>2, <1>3
    <2>2. p * (g * c + d) = p * (g * c) + p * d
      OBVIOUS
    <2>3. p * (g * c) = (g * p) * c
      OBVIOUS
    <2>. QED  BY <2>1, <2>2, <2>3
  <1>5. p * d + r \in 0 .. g * p - 1
    <2>1. p * d <= p * (g - 1) /\ p * d >= 0
      OBVIOUS
    <2>2. p * (g - 1) = g * p - p
      OBVIOUS
    <2>. QED  BY <2>1, <2>2
  <1>6. g * p \in Nat \ {0} /\ p * d \in Nat
    OBVIOUS
  <1>7. PICK q \in Nat \ {0}, rest \in Nat : q = g * p /\ rest = p * d + r
    BY <1>6
  <1>8. v % q = rest
    <2>1. v = q * c + rest /\ rest \in 0 .. q - 1
      BY <1>4, <1>5, <1>7
    <2>. QED  BY <2>1, RemainderIs
  <1>9. Power(Group, k + 1) = q
    BY <1>1, <1>7, GroupPower
  <1>10. /\ GroupAt(v, k) = d /\ Below(v, k) = r /\ Below(v, k + 1) = v % q
    BY <1>1, <1>2, <1>3, <1>9 DEF GroupAt, Below
  <1>11. Below(v, k + 1) = r + p * d
    BY <1>6, <1>7, <1>8, <1>10
  <1>12. v = r + p * a
    BY <1>2
  <1>. QED  BY <1>1, <1>2, <1>3, <1>10, <1>11, <1>12

(* The value of a number is the sum of its groups, whatever function of    *)
(* the number of groups gives that sum.                                    *)
Digit(number, k) == IF k = GROUPS THEN number[k] ELSE number[k] % Group
Sums(number, g) ==
    \A k \in 0 .. Len(number) :
        g[k] = IF k = 0 THEN 0 ELSE g[k - 1] + Power(Group, k - 1) * Digit(number, k)

(* The recursive function of ValueOf is one that exists.                   *)
LEMMA ValueIs ==
    ASSUME NEW number, Len(number) \in Nat, NEW g, Sums(number, g)
    PROVE  ValueOf(number) = g[Len(number)]
  <1>1. PICK n \in Nat : n = Len(number)
    OBVIOUS
  <1> DEFINE Summing(f) == f = [k \in 0 .. n |->
                 IF k = 0 THEN 0 ELSE f[k - 1] + Power(Group, k - 1) * Digit(number, k)]
             F == CHOOSE f : Summing(f)
             w == [k \in 0 .. n |-> g[k]]
  <1>2. Summing(w)
    <2>1. \A k \in 0 .. n : w[k] = IF k = 0 THEN 0
                                   ELSE w[k - 1] + Power(Group, k - 1) * Digit(number, k)
      <3> SUFFICES ASSUME NEW k \in 0 .. n
                   PROVE  w[k] = IF k = 0 THEN 0
                                 ELSE w[k - 1] + Power(Group, k - 1) * Digit(number, k)
        OBVIOUS
      <3>1. w[k] = g[k] /\ (k # 0 => w[k - 1] = g[k - 1])
        OBVIOUS
      <3>2. g[k] = IF k = 0 THEN 0 ELSE g[k - 1] + Power(Group, k - 1) * Digit(number, k)
        BY <1>1 DEF Sums
      <3> HIDE DEF w
      <3>. QED  BY <3>1, <3>2
    <2>2. w = [k \in 0 .. n |-> w[k]]
      OBVIOUS
    <2> HIDE DEF w
    <2>. QED  BY <2>1, <2>2
  <1>3. Summing(F)
    <2> HIDE DEF Summing
    <2>. QED  BY <1>2
  <1>4. ValueOf(number) = F[n]
    BY <1>1 DEF ValueOf, Digit
  <1> HIDE DEF F, w
  <1>5. \A k \in 0 .. n : F[k] = IF k = 0 THEN 0
                                 ELSE F[k - 1] + Power(Group, k - 1) * Digit(number, k)
    BY <1>3
  <1> DEFINE S == {k \in Nat : k <= n => F[k] = g[k]}
  <1>6. 0 \in S
    BY <1>1, <1>5 DEF Sums
  <1>7. ASSUME NEW k \in Nat, k \in S
        PROVE  k + 1 \in S
    <2> SUFFICES ASSUME k + 1 <= n PROVE F[k + 1] = g[k + 1]
      OBVIOUS
    <2>1. F[k] = g[k] /\ k + 1 \in 0 .. n /\ (k + 1) - 1 = k /\ k + 1 # 0
      BY <1>7
    <2>2. F[k + 1] = F[k] + Power(Group, k) * Digit(number, k + 1)
      BY <1>5, <2>1
    <2>3. g[k + 1] = g[k] + Power(Group, k) * Digit(number, k + 1)
      BY <1>1, <2>1 DEF Sums
    <2>. QED  BY <2>1, <2>2, <2>3
  <1> HIDE DEF S
  <1>8. Nat \subseteq S
    BY <1>6, <1>7, SetInduction
  <1>9. F[n] = g[n]
    BY <1>8 DEF S
  <1>. QED  BY <1>1, <1>4, <1>9

-----------------------------------------------------------------------------
(* Writing.                                                                *)
SizeOf(v) == Min({k \in 1 .. GROUPS : k = GROUPS \/ v < Power(Group, k)})

(* How many groups a number takes.                                         *)
LEMMA SizeOfFacts ==
    ASSUME NEW v \in Nat
    PROVE  /\ SizeOf(v) \in 1 .. GROUPS
           /\ SizeOf(v) # GROUPS => v < Power(Group, SizeOf(v))
           /\ \A k \in 1 .. GROUPS : v < Power(Group, k) => SizeOf(v) <= k
           /\ \A k \in 1 .. GROUPS : k < SizeOf(v) => v >= Power(Group, k)
  <1>1. GROUPS \in Nat /\ GROUPS >= 3
    BY GroupsAssumption
  <1>2. PICK S : S = {k \in 1 .. GROUPS : k = GROUPS \/ v < Power(Group, k)}
    OBVIOUS
  <1>3. S \subseteq Nat /\ GROUPS \in S /\ SizeOf(v) = Min(S)
    BY <1>1, <1>2 DEF SizeOf
  <1>4. SizeOf(v) \in S /\ \A k \in S : SizeOf(v) <= k
    BY <1>3, MinOf
  <1>5. \A k \in 1 .. GROUPS : v < Power(Group, k) => SizeOf(v) <= k
    BY <1>2, <1>4
  <1>6. SizeOf(v) \in 1 .. GROUPS /\ (SizeOf(v) # GROUPS => v < Power(Group, SizeOf(v)))
    BY <1>2, <1>4
  <1>7. \A k \in 1 .. GROUPS : Power(Group, k) \in Nat
    BY GroupPower
  <1>. QED  BY <1>1, <1>5, <1>6, <1>7

(* The bytes of v, with or without another one after them.                 *)
LEMMA WrittenFacts ==
    ASSUME NEW v \in Nat, NEW extend \in BOOLEAN
    PROVE  LET e == WriteMBUIntEx(v, extend)
           IN  /\ e \in Seq(Nat) /\ Len(e) = SizeOf(v)
               /\ \A k \in 1 .. SizeOf(v) : k # GROUPS =>
                     /\ e[k] % Group = GroupAt(v, k - 1)
                     /\ (e[k] >= More) = (k < SizeOf(v) \/ extend)
               /\ SizeOf(v) = GROUPS => e[GROUPS] = Highest(v)
  <1>1. PICK e, s : e = WriteMBUIntEx(v, extend) /\ s = SizeOf(v)
    OBVIOUS
  <1>2. e = [k \in 1 .. s |-> IF k = GROUPS THEN Highest(v)
                              ELSE GroupAt(v, k - 1)
                                     + IF k < s \/ extend THEN More ELSE 0]
    BY <1>1 DEF WriteMBUIntEx, SizeOf
  <1>3. s \in 1 .. GROUPS /\ GROUPS \in Nat
    BY <1>1, SizeOfFacts, GroupsAssumption
  <1>4. Group \in Nat /\ Group >= 4 /\ More = Group
    BY GroupFacts DEF More
  <1>5. ASSUME NEW k \in 1 .. s, k # GROUPS
        PROVE  /\ e[k] \in Nat /\ e[k] % Group = GroupAt(v, k - 1)
               /\ (e[k] >= More) = (k < s \/ extend)
    <2>1. PICK d : d = GroupAt(v, k - 1)
      OBVIOUS
    <2>2. d \in 0 .. Group - 1
      BY <1>3, <2>1, GroupStep
    <2>3. e[k] = d + IF k < s \/ extend THEN Group ELSE 0
      BY <1>2, <1>4, <1>5, <2>1
    <2>4. CASE k < s \/ extend
      <3>1. e[k] = d + Group
        BY <2>3, <2>4
      <3>2. PICK u \in Nat \ {0}, a \in Nat : u = Group /\ a = e[k]
        BY <1>4, <2>2, <3>1
      <3>3. a = u * 1 + d /\ d \in 0 .. u - 1
        BY <2>2, <3>1, <3>2
      <3>4. a % u = d
        BY <3>3, RemainderIs
      <3>. QED  BY <1>4, <2>1, <2>2, <2>4, <3>1, <3>2, <3>4
    <2>5. CASE ~(k < s \/ extend)
      <3>1. e[k] = d
        BY <2>2, <2>3, <2>5
      <3>2. d % Group = d
        BY <1>4, <2>2
      <3>. QED  BY <1>4, <2>1, <2>2, <2>5, <3>1, <3>2
    <2>. QED  BY <2>4, <2>5
  <1>6. Highest(v) \in Nat
    <2>1. GROUPS - 1 \in Nat
      BY GroupsAssumption
    <2>. QED  BY <2>1, GroupStep DEF Highest
  <1>7. s = GROUPS => e[GROUPS] = Highest(v)
    BY <1>2, <1>3
  <1>8. e \in [1 .. s -> Nat]
    <2>1. ASSUME NEW k \in 1 .. s PROVE e[k] \in Nat
      <3>1. CASE k = GROUPS
        <4>1. s = GROUPS
          BY <1>3, <3>1
        <4>. QED  BY <1>6, <1>7, <3>1, <4>1
      <3>2. CASE k # GROUPS
        BY <1>5, <3>2
      <3>. QED  BY <3>1, <3>2
    <2>2. e = [k \in 1 .. s |-> e[k]]
      BY <1>2
    <2>. QED  BY <2>1, <2>2
  <1>9. e \in Seq(Nat) /\ Len(e) = s
    BY <1>3, <1>8
  <1>. QED  BY <1>1, <1>5, <1>7, <1>9

(* The bytes of one number: all but the last say that another follows.     *)
IsNumber(e) ==
    /\ e \in Seq(Nat) /\ Len(e) \in 1 .. GROUPS
    /\ \A k \in 1 .. Len(e) - 1 : e[k] >= More
    /\ Len(e) = GROUPS \/ e[Len(e)] < More

(* What is written without a sign is read as it was written.               *)
LEMMA UIntWritten ==
    ASSUME NEW v \in Nat
    PROVE  /\ IsNumber(WriteMBUInt(v)) /\ Len(WriteMBUInt(v)) = SizeOf(v)
           /\ ValueOf(WriteMBUInt(v)) = v
  <1>1. PICK e, s : e = WriteMBUInt(v) /\ s = SizeOf(v)
    OBVIOUS
  <1>2. /\ e \in Seq(Nat) /\ Len(e) = s
        /\ \A k \in 1 .. s : k # GROUPS => /\ e[k] % Group = GroupAt(v, k - 1)
                                           /\ (e[k] >= More) = (k < s)
        /\ s = GROUPS => e[GROUPS] = Highest(v)
    <2>1. PICK no \in BOOLEAN : no = FALSE
      OBVIOUS
    <2>2. e = WriteMBUIntEx(v, no)
      BY <1>1, <2>1 DEF WriteMBUInt
    <2>3. /\ e \in Seq(Nat) /\ Len(e) = s
          /\ \A k \in 1 .. s : k # GROUPS => /\ e[k] % Group = GroupAt(v, k - 1)
                                             /\ (e[k] >= More) = (k < s \/ no)
          /\ s = GROUPS => e[GROUPS] = Highest(v)
      BY <1>1, <2>2, WrittenFacts
    <2>. QED  BY <2>1, <2>3
  <1>3. s \in 1 .. GROUPS /\ (s # GROUPS => v < Power(Group, s)) /\ GROUPS \in Nat
    BY <1>1, SizeOfFacts, GroupsAssumption
  <1>4. More \in Nat
    BY GroupFacts DEF More
  <1>5. IsNumber(e)
    <2>1. \A k \in 1 .. s - 1 : k \in 1 .. s /\ k # GROUPS /\ k < s
      BY <1>3
    <2>2. \A k \in 1 .. s - 1 : e[k] >= More
      BY <1>2, <2>1
    <2>3. s # GROUPS => e[s] < More
      <3> SUFFICES ASSUME s # GROUPS PROVE e[s] < More
        OBVIOUS
      <3>1. s \in 1 .. s /\ ~(s < s) /\ e[s] \in Nat
        BY <1>2, <1>3
      <3>. QED  BY <1>2, <1>4, <3>1
    <2>. QED  BY <1>2, <1>3, <2>2, <2>3 DEF IsNumber
  <1> DEFINE g == [k \in 0 .. s |-> IF k = GROUPS THEN v ELSE Below(v, k)]
  <1>6. Sums(e, g)
    <2> SUFFICES ASSUME NEW k \in 0 .. s
                 PROVE  g[k] = IF k = 0 THEN 0
                               ELSE g[k - 1] + Power(Group, k - 1) * Digit(e, k)
      BY <1>2 DEF Sums
    <2>1. CASE k = 0
      <3>1. Below(v, 0) = 0
        BY GroupPower DEF Below
      <3>2. 0 # GROUPS
        BY GroupsAssumption
      <3>. QED  BY <2>1, <3>1, <3>2
    <2>2. CASE k # 0
      <3>1. PICK j \in Nat : j = k - 1 /\ k = j + 1 /\ j < GROUPS
        BY <1>3, <2>2
      <3>2. g[j] = Below(v, j)
        BY <1>3, <3>1
      <3>3. CASE k = GROUPS
        <4>1. g[k] = v /\ Digit(e, k) = Highest(v) /\ s = GROUPS
          BY <1>2, <1>3, <3>3 DEF Digit
        <4>2. Highest(v) = v \div Power(Group, j)
          BY <3>1, <3>3 DEF Highest
        <4>3. v = Below(v, j) + Power(Group, j) * (v \div Power(Group, j))
          BY GroupStep
        <4> HIDE DEF g
        <4>. QED  BY <2>2, <3>1, <3>2, <4>1, <4>2, <4>3
      <3>4. CASE k # GROUPS
        <4>1. g[k] = Below(v, j + 1) /\ Digit(e, k) = GroupAt(v, j)
          <5>1. k \in 1 .. s
            BY <2>2
          <5>. QED  BY <1>2, <3>1, <3>4, <5>1 DEF Digit
        <4>2. Below(v, j + 1) = Below(v, j) + Power(Group, j) * GroupAt(v, j)
          BY GroupStep
        <4> HIDE DEF g
        <4>. QED  BY <2>2, <3>1, <3>2, <4>1, <4>2
      <3>. QED  BY <3>3, <3>4
    <2>. QED  BY <2>1, <2>2
  <1>7. g[s] = v
    <2>1. CASE s = GROUPS
      BY <1>3, <2>1
    <2>2. CASE s # GROUPS
      <3>1. g[s] = v % Power(Group, s)
        BY <1>3, <2>2 DEF Below
      <3>2. PICK p \in Nat \ {0} : p = Power(Group, s)
        BY <1>3, GroupPower
      <3>3. v % p = v
        BY <1>3, <2>2, <3>2
      <3> HIDE DEF g
      <3>. QED  BY <3>1, <3>2, <3>3
    <2>. QED  BY <2>1, <2>2
  <1> HIDE DEF g
  <1>8. ValueOf(e) = g[s]
    <2>1. Len(e) = s /\ s \in Nat
      BY <1>2, <1>3
    <2>2. ValueOf(e) = g[Len(e)]
      BY <1>6, <2>1, ValueIs
    <2>. QED  BY <2>1, <2>2
  <1>. QED  BY <1>1, <1>2, <1>5, <1>7, <1>8

(* Partial sums exist for any bytes, and are made of the groups read so    *)
(* far.                                                                    *)
LEMMA SumsExist ==
    ASSUME NEW number \in Seq(Nat)
    PROVE  \E g \in [0 .. Len(number) -> Nat] : Sums(number, g)
  <1>1. PICK n \in Nat : n = Len(number)
    OBVIOUS
  <1> DEFINE At(k, x) == x + Power(Group, k - 1) * Digit(number, k)
  <1>2. ASSUME NEW k \in 1 .. n, NEW x \in Nat
        PROVE  At(k, x) \in Nat
    <2>1. number[k] \in Nat
      BY <1>1
    <2>2. PICK G \in Nat \ {0} : G = Group
      BY GroupFacts
    <2>3. PICK y \in Nat : y = number[k]
      BY <2>1
    <2>4. y % G \in Nat
      OBVIOUS
    <2>5. PICK d \in Nat : d = Digit(number, k)
      BY <2>2, <2>3, <2>4 DEF Digit
    <2>6. PICK p \in Nat : p = Power(Group, k - 1)
      <3>1. k - 1 \in Nat
        OBVIOUS
      <3>. QED  BY <3>1, GroupPower
    <2>. QED  BY <2>5, <2>6
  <1> HIDE DEF At
  <1> DEFINE Part(m, g) == /\ g \in [0 .. m -> Nat]
                           /\ \A k \in 0 .. m :
                                 g[k] = IF k = 0 THEN 0 ELSE At(k, g[k - 1])
  <1> DEFINE S == {m \in Nat : m <= n => \E g : Part(m, g)}
  <1>3. 0 \in S
    <2>1. Part(0, [k \in 0 .. 0 |-> 0])
      OBVIOUS
    <2> HIDE DEF Part
    <2>. QED  BY <2>1
  <1>4. ASSUME NEW m \in Nat, m \in S
        PROVE  m + 1 \in S
    <2> SUFFICES ASSUME m + 1 <= n
                 PROVE  \E g : Part(m + 1, g)
      <3> HIDE DEF Part
      <3>. QED  OBVIOUS
    <2>1. PICK f : Part(m, f)
      <3> HIDE DEF Part
      <3>. QED  BY <1>4
    <2>2. PICK y \in Nat : y = At(m + 1, f[m])
      <3>1. f[m] \in Nat /\ m + 1 \in 1 .. n
        BY <2>1
      <3>. QED  BY <1>2, <3>1
    <2> DEFINE g == [k \in 0 .. m + 1 |-> IF k = m + 1 THEN y ELSE f[k]]
    <2>3. g \in [0 .. m + 1 -> Nat]
      BY <2>1
    <2>4. ASSUME NEW k \in 0 .. m + 1
          PROVE  g[k] = IF k = 0 THEN 0 ELSE At(k, g[k - 1])
      <3>1. CASE k = m + 1
        <4>1. g[k] = y /\ g[k - 1] = f[m] /\ k # 0
          BY <3>1
        <4> HIDE DEF g
        <4>. QED  BY <2>2, <3>1, <4>1
      <3>2. CASE k # m + 1
        <4>1. k \in 0 .. m
          BY <3>2
        <4>2. g[k] = f[k] /\ (k # 0 => g[k - 1] = f[k - 1])
          BY <4>1
        <4> HIDE DEF g
        <4>. QED  BY <2>1, <4>1, <4>2
      <3>. QED  BY <3>1, <3>2
    <2> HIDE DEF g
    <2>5. Part(m + 1, g)
      BY <2>3, <2>4
    <2> HIDE DEF Part
    <2>. QED  BY <2>5
  <1> HIDE DEF S
  <1>5. Nat \subseteq S
    BY <1>3, <1>4, SetInduction
  <1>6. PICK g : Part(n, g)
    <2> HIDE DEF Part
    <2>. QED  BY <1>5 DEF S
  <1>. QED  BY <1>1, <1>6 DEF Sums, At

(* The groups of a number sum up to what is below the next one.            *)
LEMMA LowSum ==
    ASSUME NEW number, Len(number) \in Nat, NEW g, Sums(number, g), NEW v \in Nat,
           NEW m \in Nat, m <= Len(number), m < GROUPS,
           \A k \in 1 .. m : number[k] % Group = GroupAt(v, k - 1)
    PROVE  g[m] = Below(v, m)
  <1>1. GROUPS \in Nat
    BY GroupsAssumption
  <1> DEFINE S == {k \in Nat : k <= m => g[k] = Below(v, k)}
  <1>2. 0 \in S
    <2>1. g[0] = 0
      BY DEF Sums
    <2>2. Below(v, 0) = 0
      BY GroupPower DEF Below
    <2>. QED  BY <2>1, <2>2
  <1>3. ASSUME NEW k \in Nat, k \in S
        PROVE  k + 1 \in S
    <2> SUFFICES ASSUME k + 1 <= m PROVE g[k + 1] = Below(v, k + 1)
      OBVIOUS
    <2>1. /\ g[k] = Below(v, k) /\ k + 1 \in 0 .. Len(number) /\ k + 1 \in 1 .. m
          /\ (k + 1) - 1 = k /\ k + 1 # 0 /\ k + 1 # GROUPS
      BY <1>1, <1>3
    <2>2. Digit(number, k + 1) = GroupAt(v, k)
      BY <2>1 DEF Digit
    <2>3. g[k + 1] = g[k] + Power(Group, k) * Digit(number, k + 1)
      BY <2>1 DEF Sums
    <2>4. Below(v, k + 1) = Below(v, k) + Power(Group, k) * GroupAt(v, k)
      BY GroupStep
    <2>. QED  BY <2>1, <2>2, <2>3, <2>4
  <1> HIDE DEF S
  <1>4. Nat \subseteq S
    BY <1>2, <1>3, SetInduction
  <1>. QED  BY <1>4 DEF S

(* What is added from some group on is a multiple of the power there.      *)
LEMMA HighSum ==
    ASSUME NEW number \in Seq(Nat), NEW g \in [0 .. Len(number) -> Nat],
           Sums(number, g), NEW m \in 0 .. Len(number)
    PROVE  \E c \in Nat : g[Len(number)] = g[m] + Power(Group, m) * c
  <1>1. PICK n \in Nat : n = Len(number)
    OBVIOUS
  <1>2. PICK p \in Nat \ {0} : p = Power(Group, m)
    BY GroupPower
  <1> DEFINE S == {i \in Nat : m + i <= n => \E c \in Nat : g[m + i] = g[m] + p * c}
  <1>3. 0 \in S
    <2>1. g[m] \in Nat
      BY <1>1
    <2>2. g[m + 0] = g[m] + p * 0
      BY <2>1
    <2>. QED  BY <2>2
  <1>4. ASSUME NEW i \in Nat, i \in S
        PROVE  i + 1 \in S
    <2> SUFFICES ASSUME m + (i + 1) <= n
                 PROVE  \E c \in Nat : g[m + (i + 1)] = g[m] + p * c
      OBVIOUS
    <2>1. PICK j \in Nat : j = m + i /\ j + 1 = m + (i + 1) /\ m <= j
      BY <1>1
    <2>2. j + 1 \in 0 .. n /\ j \in 0 .. n /\ j + 1 # 0 /\ (j + 1) - 1 = j /\ j + 1 \in 1 .. n
      BY <2>1
    <2>3. PICK c \in Nat : g[j] = g[m] + p * c
      BY <1>4, <2>1, <2>2
    <2>4. PICK a \in Nat : Power(Group, j) = a * p
      BY <1>2, <2>1, PowerOver
    <2>5. PICK d \in Nat : d = Digit(number, j + 1)
      <3>1. PICK y \in Nat, G \in Nat \ {0} : y = number[j + 1] /\ G = Group
        BY <1>1, <2>2, GroupFacts
      <3>2. y % G \in Nat
        OBVIOUS
      <3>. QED  BY <3>1, <3>2 DEF Digit
    <2>6. g[j + 1] = g[j] + (a * p) * d
      BY <1>1, <2>2, <2>4, <2>5 DEF Sums
    <2>7. PICK x \in Nat : x = g[m]
      BY <1>1
    <2>8. c + a * d \in Nat /\ p * (c + a * d) = p * c + (a * p) * d
      <3>1. PICK b \in Nat : b = a * d
        OBVIOUS
      <3>2. p * b = (a * p) * d
        BY <3>1
      <3>. QED  BY <3>1, <3>2
    <2>9. PICK f \in Nat, h \in Nat : f = p * c /\ h = (a * p) * d
      OBVIOUS
    <2>10. g[j + 1] = x + (f + h)
      BY <2>3, <2>6, <2>7, <2>9
    <2>11. PICK z \in Nat : z = c + a * d /\ p * z = f + h
      BY <2>8, <2>9
    <2>. QED  BY <2>1, <2>7, <2>10, <2>11
  <1> HIDE DEF S
  <1>5. Nat \subseteq S
    BY <1>3, <1>4, SetInduction
  <1>6. n - m \in Nat /\ m + (n - m) = n
    BY <1>1
  <1>7. PICK i \in Nat : i = n - m
    BY <1>6
  <1>8. \E c \in Nat : g[m + i] = g[m] + p * c
    BY <1>5, <1>6, <1>7 DEF S
  <1>. QED  BY <1>1, <1>2, <1>6, <1>7, <1>8

(* The bytes of b and the one that extends them.                           *)
Extended(b, x) == WriteMBUIntEx(b, TRUE) \o << x >>

LEMMA ExtendedFacts ==
    ASSUME NEW b \in Nat, SizeOf(b) # GROUPS, NEW x \in Nat
    PROVE  LET s == SizeOf(b)
               e == Extended(b, x)
           IN  /\ s \in 1 .. GROUPS - 1 /\ e \in Seq(Nat) /\ Len(e) = s + 1
               /\ \A k \in 1 .. s : e[k] % Group = GroupAt(b, k - 1) /\ e[k] >= More
               /\ e[s + 1] = x
               /\ ValueOf(e) = b + Power(Group, s) * Digit(e, s + 1)
  <1>0. PICK s, e : s = SizeOf(b) /\ e = Extended(b, x)
    OBVIOUS
  <1>1. s \in 1 .. GROUPS - 1 /\ b < Power(Group, s) /\ GROUPS \in Nat
    BY <1>0, SizeOfFacts, GroupsAssumption
  <1>2. PICK yes \in BOOLEAN : yes = TRUE
    OBVIOUS
  <1>3. PICK w : w = WriteMBUIntEx(b, yes)
    OBVIOUS
  <1>4. /\ w \in Seq(Nat) /\ Len(w) = s
        /\ \A k \in 1 .. s : k # GROUPS => /\ w[k] % Group = GroupAt(b, k - 1)
                                           /\ (w[k] >= More) = (k < s \/ yes)
    BY <1>0, <1>3, WrittenFacts
  <1>5. e = w \o << x >>
    BY <1>0, <1>2, <1>3 DEF Extended
  <1>6. /\ e \in Seq(Nat) /\ Len(e) = s + 1 /\ e[s + 1] = x
        /\ \A k \in 1 .. s : e[k] = w[k]
    BY <1>1, <1>4, <1>5
  <1>7. \A k \in 1 .. s : e[k] % Group = GroupAt(b, k - 1) /\ e[k] >= More
    <2> SUFFICES ASSUME NEW k \in 1 .. s
                 PROVE  e[k] % Group = GroupAt(b, k - 1) /\ e[k] >= More
      OBVIOUS
    <2>1. k # GROUPS
      BY <1>1
    <2>. QED  BY <1>2, <1>4, <1>6, <2>1
  <1>8. PICK g \in [0 .. Len(e) -> Nat] : Sums(e, g)
    BY <1>6, SumsExist
  <1>9. g[s] = b
    <2>1. s < GROUPS /\ s \in Nat /\ s <= Len(e) /\ Len(e) \in Nat
      BY <1>1, <1>6
    <2>2. g[s] = Below(b, s)
      BY <1>7, <1>8, <2>1, LowSum
    <2>3. PICK p \in Nat \ {0} : p = Power(Group, s)
      BY <2>1, GroupPower
    <2>4. b % p = b
      BY <1>1, <2>3
    <2>. QED  BY <2>2, <2>3, <2>4 DEF Below
  <1>10. g[s + 1] = g[s] + Power(Group, s) * Digit(e, s + 1)
    <2>1. s + 1 \in 0 .. Len(e) /\ s + 1 # 0 /\ (s + 1) - 1 = s
      BY <1>1, <1>6
    <2>. QED  BY <1>8, <2>1 DEF Sums
  <1>11. ValueOf(e) = g[s + 1]
    <2>1. Len(e) = s + 1 /\ Len(e) \in Nat
      BY <1>1, <1>6
    <2>. QED  BY <1>8, <2>1, ValueIs
  <1>. QED  BY <1>0, <1>1, <1>6, <1>7, <1>9, <1>10, <1>11

-----------------------------------------------------------------------------
(* Writing with a sign.  Size is the power of the whole integer, half of   *)
(* it the numbers without a sign.                                          *)
SignOf(v) == IF v < 0 THEN Group - 1 ELSE 0
TopGroup(v) == Max({0} \cup {j \in 1 .. GROUPS - 2 : GroupAt(Unsigned(v), j) # SignOf(v)})
IntRange == -Power(Group, GROUPS) .. Power(Group, GROUPS) - 1

(* A negative number as a uint64_t, its groups and its highest group that  *)
(* is not all sign.                                                        *)
LEMMA UnsignedFacts ==
    ASSUME NEW v \in IntRange
    PROVE  /\ Unsigned(v) = IF v < 0 THEN v + 2 * Power(Group, GROUPS) ELSE v
           /\ Unsigned(v) \in Nat /\ Signed(Unsigned(v)) = v
  <1>1. PICK m \in Nat \ {0} : m = Power(Group, GROUPS)
    BY GroupPower, GroupsAssumption
  <1>2. PICK M \in Nat \ {0} : M = 2 * m
    BY <1>1
  <1>3. v \in Int /\ -m <= v /\ v < m
    BY <1>1 DEF IntRange
  <1>4. Unsigned(v) = v % M /\ Power(2, Width) = M /\ Power(2, Width - 1) = m
    BY <1>1, <1>2, GroupFacts DEF Unsigned
  <1>5. CASE v >= 0
    <2>1. v % M = v
      BY <1>2, <1>3, <1>5
    <2>2. Unsigned(v) = v
      BY <1>4, <2>1
    <2>. QED  BY <1>3, <1>4, <1>5, <2>2 DEF Signed
  <1>6. CASE v < 0
    <2>1. PICK r \in Nat : r = v + M
      BY <1>2, <1>3
    <2>2. v = M * (-1) + r /\ r \in 0 .. M - 1
      BY <1>3, <1>6, <2>1
    <2>3. v % M = r
      BY <1>3, <2>2, RemainderIs
    <2>4. Unsigned(v) = r /\ r - M = v /\ ~(r < m)
      BY <1>2, <1>3, <1>4, <2>1, <2>3
    <2>5. Signed(r) = v
      BY <1>4, <2>4 DEF Signed
    <2>. QED  BY <1>1, <1>2, <1>6, <2>1, <2>4, <2>5
  <1>. QED  BY <1>3, <1>5, <1>6

LEMMA MaxOf ==
    ASSUME NEW n \in Nat, NEW S, S \subseteq 0 .. n, S # {}
    PROVE  Max(S) \in S /\ \A k \in S : k <= Max(S)
  <1>1. PICK R : R = {k \in Nat : n - k \in S}
    OBVIOUS
  <1>2. R \subseteq Nat /\ R # {}
    <2>1. PICK k \in S : TRUE
      OBVIOUS
    <2>2. n - k \in Nat /\ n - (n - k) = k
      OBVIOUS
    <2>. QED  BY <1>1, <2>2
  <1>3. PICK r \in R : \A k \in R : r <= k
    BY <1>2, LeastOf
  <1>4. n - r \in S /\ \A k \in S : k <= n - r
    <2>1. ASSUME NEW k \in S PROVE k <= n - r
      <3>1. k \in 0 .. n
        OBVIOUS
      <3>2. n - k \in Nat /\ n - (n - k) = k
        BY <3>1
      <3>3. n - k \in R
        BY <1>1, <3>2
      <3>4. r <= n - k /\ r \in Nat
        BY <1>1, <1>3, <3>3
      <3>. QED  BY <3>1, <3>4
    <2>. QED  BY <1>1, <1>3, <2>1
  <1>5. \E x \in S : \A k \in S : k <= x
    BY <1>4
  <1>. QED  BY <1>5 DEF Max

LEMMA TopFacts ==
    ASSUME NEW v
    PROVE  /\ TopGroup(v) \in 0 .. GROUPS - 2
           /\ TopGroup(v) # 0 => GroupAt(Unsigned(v), TopGroup(v)) # SignOf(v)
           /\ \A j \in TopGroup(v) + 1 .. GROUPS - 2 :
                 GroupAt(Unsigned(v), j) = SignOf(v)
  <1>1. PICK n \in Nat : n = GROUPS - 2
    BY GroupsAssumption
  <1>2. PICK S : S = {0} \cup {j \in 1 .. n : GroupAt(Unsigned(v), j) # SignOf(v)}
    OBVIOUS
  <1>3. S \subseteq 0 .. n /\ S # {} /\ TopGroup(v) = Max(S)
    BY <1>1, <1>2 DEF TopGroup
  <1>4. TopGroup(v) \in S /\ \A k \in S : k <= TopGroup(v)
    BY <1>3, MaxOf
  <1>5. TopGroup(v) \in 0 .. n
    BY <1>3, <1>4
  <1>6. ASSUME NEW j \in TopGroup(v) + 1 .. n, GroupAt(Unsigned(v), j) # SignOf(v)
        PROVE  FALSE
    <2>1. j \in 1 .. n /\ ~(j <= TopGroup(v))
      BY <1>5
    <2>. QED  BY <1>2, <1>4, <1>6, <2>1
  <1>. QED  BY <1>1, <1>2, <1>4, <1>5, <1>6

(* The last byte is all sign only if it is the sign of the integer.        *)
LEMMA HighestFacts ==
    ASSUME NEW v \in IntRange
    PROVE  LET u == Unsigned(v)
               H == Power(Group, GROUPS - 1)
           IN  /\ u = Below(u, GROUPS - 1) + H * Highest(u)
               /\ Below(u, GROUPS - 1) \in 0 .. H - 1 /\ Highest(u) \in Nat
               /\ Highest(u) = 0 => v >= 0
               /\ Highest(u) = ByteMax => v < 0
               /\ Power(Group, GROUPS) = Group * H /\ H \in Nat \ {0}
  <1>1. PICK u \in Nat : u = Unsigned(v)
    BY UnsignedFacts
  <1>2. PICK n \in Nat : n = GROUPS - 1 /\ n + 1 = GROUPS
    BY GroupsAssumption
  <1>3. PICK H \in Nat \ {0}, G \in Nat : H = Power(Group, n) /\ G = Group
    BY GroupPower, GroupFacts
  <1>4. Power(Group, GROUPS) = G * H
    BY <1>2, <1>3, GroupPower
  <1>5. PICK top \in Nat, r \in 0 .. H - 1 : /\ top = Highest(u) /\ r = Below(u, n)
                                             /\ u = r + H * top
    <2>1. /\ u = Below(u, n) + Power(Group, n) * (u \div Power(Group, n))
          /\ u \div Power(Group, n) \in Nat /\ Below(u, n) \in 0 .. Power(Group, n) - 1
      BY GroupStep
    <2>. QED  BY <1>2, <1>3, <2>1 DEF Highest
  <1>6. PICK m \in Nat : m = G * H
    OBVIOUS
  <1>7. u = (IF v < 0 THEN v + 2 * m ELSE v) /\ v \in -m .. m - 1 /\ H <= m
    <2>1. G >= 4
      BY <1>3, GroupFacts
    <2>2. H <= G * H
      BY <2>1
    <2>. QED  BY <1>1, <1>4, <1>6, <2>2, UnsignedFacts DEF IntRange
  <1>8. top = 0 => v >= 0
    <2>1. top = 0 => u < H
      BY <1>5
    <2>. QED  BY <1>7, <2>1
  <1>9. top = ByteMax => v < 0
    <2> SUFFICES ASSUME top = 2 * G - 1 PROVE v < 0
      BY <1>3 DEF ByteMax
    <2>1. H * (2 * G - 1) = 2 * (G * H) - H
      OBVIOUS
    <2>2. u >= 2 * m - H
      BY <1>5, <1>6, <2>1
    <2>. QED  BY <1>7, <2>2
  <1>. QED  BY <1>1, <1>2, <1>3, <1>4, <1>5, <1>8, <1>9

(* An integer is what its groups say, and the sign above them.             *)
SignAbove(v, k) == IF v < 0 THEN Power(Group, k) ELSE 0

(* What the groups above it are worth when they are all sign.              *)
LEMMA SignDropped ==
    ASSUME NEW v \in IntRange, Highest(Unsigned(v)) \in {0, ByteMax}
    PROVE  v = Below(Unsigned(v), TopGroup(v) + 1) - SignAbove(v, TopGroup(v) + 1)
  <1>1. PICK u \in Nat : u = Unsigned(v)
    BY UnsignedFacts
  <1>2. PICK n \in Nat : n = GROUPS - 1 /\ GROUPS - 2 = n - 1 /\ n >= 2
    BY GroupsAssumption
  <1>3. PICK h \in 0 .. n - 1 : h = TopGroup(v)
    BY <1>2, TopFacts
  <1>4. \A k \in h + 1 .. n - 1 : GroupAt(u, k) = SignOf(v)
    BY <1>1, <1>2, <1>3, TopFacts
  <1> DEFINE S == {i \in Nat : (h + 1) + i <= n =>
                       Below(u, (h + 1) + i) - SignAbove(v, (h + 1) + i)
                         = Below(u, h + 1) - SignAbove(v, h + 1)}
  <1>5. 0 \in S
    OBVIOUS
  <1>6. ASSUME NEW i \in Nat, i \in S
        PROVE  i + 1 \in S
    <2> SUFFICES ASSUME (h + 1) + (i + 1) <= n
                 PROVE  Below(u, (h + 1) + (i + 1)) - SignAbove(v, (h + 1) + (i + 1))
                          = Below(u, h + 1) - SignAbove(v, h + 1)
      OBVIOUS
    <2>1. PICK k \in Nat : k = (h + 1) + i /\ k + 1 = (h + 1) + (i + 1)
                           /\ k \in h + 1 .. n - 1
      OBVIOUS
    <2>2. Below(u, k) - SignAbove(v, k) = Below(u, h + 1) - SignAbove(v, h + 1)
      BY <1>6, <2>1
    <2>3. PICK p \in Nat \ {0}, G \in Nat \ {0} : p = Power(Group, k) /\ G = Group
      BY GroupPower, GroupFacts
    <2>4. PICK q \in Nat : q = G * p /\ q = Power(Group, k + 1)
      BY <2>3, GroupPower
    <2>5. Below(u, k + 1) = Below(u, k) + p * SignOf(v)
      BY <1>4, <2>1, <2>3, GroupStep
    <2>6. PICK b \in Nat : b = Below(u, k)
      <3>1. Below(u, k) \in 0 .. p - 1
        BY <2>3, GroupStep
      <3>. QED  BY <3>1
    <2>7. Below(u, k + 1) - SignAbove(v, k + 1) = Below(u, k) - SignAbove(v, k)
      <3>1. CASE v < 0
        <4>1. p * (G - 1) = q - p
          BY <2>4
        <4>2. SignOf(v) = G - 1 /\ SignAbove(v, k) = p /\ SignAbove(v, k + 1) = q
          BY <2>3, <2>4, <3>1 DEF SignOf, SignAbove
        <4>3. Below(u, k + 1) = b + (q - p)
          BY <2>5, <2>6, <4>1, <4>2
        <4>. QED  BY <2>6, <4>2, <4>3
      <3>2. CASE ~(v < 0)
        <4>1. SignOf(v) = 0 /\ SignAbove(v, k) = 0 /\ SignAbove(v, k + 1) = 0
          BY <3>2 DEF SignOf, SignAbove
        <4>2. p * 0 = 0
          OBVIOUS
        <4>3. Below(u, k + 1) = b
          BY <2>5, <2>6, <4>1, <4>2
        <4>. QED  BY <2>6, <4>1, <4>3
      <3>. QED  BY <3>1, <3>2
    <2>. QED  BY <2>1, <2>2, <2>7
  <1> HIDE DEF S
  <1>7. Nat \subseteq S
    BY <1>5, <1>6, SetInduction
  <1>8. Below(u, n) - SignAbove(v, n) = Below(u, h + 1) - SignAbove(v, h + 1)
    <2>1. n - (h + 1) \in Nat /\ (h + 1) + (n - (h + 1)) = n
      OBVIOUS
    <2>2. PICK i \in Nat : i = n - (h + 1) /\ (h + 1) + i = n
      BY <2>1
    <2>. QED  BY <1>7, <2>2 DEF S
  <1>9. v = Below(u, n) - SignAbove(v, n)
    <2>1. PICK H \in Nat \ {0} : H = Power(Group, n)
      BY GroupPower
    <2>2. PICK G \in Nat : G = Group
      BY GroupFacts
    <2>3. /\ u = Below(u, n) + H * Highest(u) /\ Below(u, n) \in 0 .. H - 1
          /\ (Highest(u) = 0 => v >= 0) /\ (Highest(u) = ByteMax => v < 0)
          /\ Power(Group, GROUPS) = G * H
      BY <1>1, <1>2, <2>1, <2>2, HighestFacts
    <2>4. u = IF v < 0 THEN v + 2 * (G * H) ELSE v
      BY <1>1, <2>3, UnsignedFacts
    <2>5. v \in Int
      BY GroupPower, GroupsAssumption DEF IntRange
    <2>6. CASE Highest(u) = 0
      <3>1. H * 0 = 0 /\ v >= 0
        BY <2>3, <2>6
      <3>2. u = Below(u, n) /\ u = v
        BY <2>3, <2>4, <2>5, <2>6, <3>1
      <3>3. SignAbove(v, n) = 0
        BY <2>5, <3>1 DEF SignAbove
      <3>. QED  BY <2>5, <3>2, <3>3
    <2>7. CASE Highest(u) = ByteMax
      <3>1. H * (2 * G - 1) = 2 * (G * H) - H
        OBVIOUS
      <3>2. SignAbove(v, n) = H
        BY <2>1, <2>3, <2>7 DEF SignAbove
      <3>3. PICK m \in Nat : m = 2 * (G * H)
        OBVIOUS
      <3>4. u = Below(u, n) + (m - H) /\ u = v + m
        BY <2>2, <2>3, <2>4, <2>7, <3>1, <3>3 DEF ByteMax
      <3>. QED  BY <2>3, <2>5, <3>2, <3>3, <3>4
    <2>. QED  BY <1>1, <2>6, <2>7
  <1>. QED  BY <1>1, <1>3, <1>8, <1>9

(* Which of the three forms an integer is written in.                      *)
Extension(v) == IF ~(v < 0) THEN 0
                ELSE IF TopGroup(v) = GROUPS - 2 THEN ByteMax ELSE Group - 1

(* The three forms writeMBInt has.                                         *)
LEMMA FormFacts ==
    ASSUME NEW v \in IntRange
    PROVE  LET u == Unsigned(v)
               h == TopGroup(v)
           IN  /\ Highest(u) \notin {0, ByteMax} => WriteMBInt(v) = WriteMBUInt(u)
               /\ Highest(u) \in {0, ByteMax} /\ Extends(v < 0, GroupAt(u, h)) =>
                     WriteMBInt(v) = Extended(Below(u, h + 1), Extension(v))
               /\ Highest(u) \in {0, ByteMax} /\ ~Extends(v < 0, GroupAt(u, h)) =>
                     WriteMBInt(v) = WriteMBUInt(Below(u, h + 1))
  <1>1. PICK u, h : u = Unsigned(v) /\ h = TopGroup(v)
    OBVIOUS
  <1>2. PICK ext \in BOOLEAN : ext = Extends(v < 0, GroupAt(u, h))
    BY DEF Extends
  <1>3. WriteMBInt(v) =
           IF Highest(u) \notin {0, ByteMax} THEN WriteMBUIntEx(u, FALSE)
           ELSE WriteMBUIntEx(Below(u, h + 1), ext)
                  \o IF ext THEN << Extension(v) >> ELSE << >>
    BY <1>1, <1>2 DEF WriteMBInt, TopGroup, SignOf, Extension
  <1>4. PICK w : w = WriteMBUIntEx(Below(u, h + 1), FALSE)
    OBVIOUS
  <1>5. CASE Highest(u) \notin {0, ByteMax}
    BY <1>1, <1>3, <1>5 DEF WriteMBUInt
  <1>6. CASE Highest(u) \in {0, ByteMax} /\ ext
    <2>1. ext = TRUE
      BY <1>6
    <2>. QED  BY <1>1, <1>2, <1>3, <1>6, <2>1 DEF Extended
  <1>7. CASE Highest(u) \in {0, ByteMax} /\ ~ext
    <2>1. ext = FALSE
      BY <1>7
    <2>2. WriteMBInt(v) = w \o << >>
      BY <1>3, <1>4, <1>7, <2>1
    <2>3. w \in Seq(Nat)
      <3>1. u \in Nat /\ h + 1 \in Nat
        <4>1. h \in 0 .. GROUPS - 2
          BY <1>1, TopFacts
        <4>. QED  BY <1>1, <4>1, UnsignedFacts, GroupsAssumption
      <3>2. Below(u, h + 1) \in Nat
        <4>1. Below(u, h + 1) \in 0 .. Power(Group, h + 1) - 1
          BY <3>1, GroupStep
        <4>. QED  BY <4>1
      <3>3. PICK no \in BOOLEAN : no = FALSE
        OBVIOUS
      <3>. QED  BY <1>4, <3>2, <3>3, WrittenFacts
    <2>4. w \o << >> = w
      BY <2>3
    <2>. QED  BY <1>1, <1>2, <1>4, <1>7, <2>2, <2>4 DEF WriteMBUInt
  <1>. QED  BY <1>5, <1>6, <1>7

(* What is left when the sign is dropped: p is the power of its highest    *)
(* group g, r what is below that.                                          *)
Shape(v, h, p, g, r) ==
    /\ h \in 0 .. GROUPS - 2 /\ p \in Nat \ {0} /\ g \in 0 .. Group - 1 /\ r \in 0 .. p - 1
    /\ h = TopGroup(v) /\ p = Power(Group, h) /\ g = GroupAt(Unsigned(v), h)
    /\ Below(Unsigned(v), h + 1) = r + p * g
    /\ v = (r + p * g) - IF v < 0 THEN Group * p ELSE 0
    /\ r + p * g \in 0 .. Group * p - 1 /\ Power(Group, h + 1) = Group * p
    /\ h # 0 => g # SignOf(v)
    /\ h = 0 => p = 1

(* The groups kept, p, and what they are worth with and without the sign.  *)
LEMMA ShapeFacts ==
    ASSUME NEW v \in IntRange, Highest(Unsigned(v)) \in {0, ByteMax}
    PROVE  \E h, p, g, r : Shape(v, h, p, g, r)
  <1>1. PICK u \in Nat : u = Unsigned(v)
    BY UnsignedFacts
  <1>2. PICK h \in 0 .. GROUPS - 2 : h = TopGroup(v)
    BY TopFacts
  <1>3. h \in Nat
    BY <1>2, GroupsAssumption
  <1>4. PICK p \in Nat \ {0}, G \in Nat \ {0} : p = Power(Group, h) /\ G = Group
    BY <1>3, GroupPower, GroupFacts
  <1>5. PICK g \in 0 .. G - 1, r \in 0 .. p - 1 :
            g = GroupAt(u, h) /\ r = Below(u, h) /\ Below(u, h + 1) = r + p * g
    <2>1. /\ GroupAt(u, h) \in 0 .. Group - 1 /\ Below(u, h) \in 0 .. Power(Group, h) - 1
          /\ Below(u, h + 1) = Below(u, h) + Power(Group, h) * GroupAt(u, h)
      BY <1>3, GroupStep
    <2>. QED  BY <1>4, <2>1
  <1>6. Power(Group, h + 1) = G * p
    BY <1>3, <1>4, GroupPower
  <1>7. r + p * g \in 0 .. G * p - 1
    <2>1. p * g <= p * (G - 1) /\ p * g >= 0
      OBVIOUS
    <2>2. p * (G - 1) = G * p - p
      OBVIOUS
    <2>. QED  BY <2>1, <2>2
  <1>8. v = (r + p * g) - IF v < 0 THEN G * p ELSE 0
    BY <1>1, <1>2, <1>5, <1>6, SignDropped DEF SignAbove
  <1>9. h # 0 => g # SignOf(v)
    BY <1>1, <1>2, <1>5, TopFacts
  <1>10. h = 0 => p = 1
    BY <1>4, GroupPower
  <1>11. Shape(v, h, p, g, r)
    BY <1>1, <1>2, <1>4, <1>5, <1>6, <1>7, <1>8, <1>9, <1>10 DEF Shape
  <1>. QED  BY <1>11

LEMMA ShapeSize ==
    ASSUME NEW v, NEW h, NEW p, NEW g, NEW r, Shape(v, h, p, g, r)
    PROVE  /\ SizeOf(r + p * g) \in 1 .. h + 1
           /\ SizeOf(r + p * g) # GROUPS
           /\ g # 0 \/ h = 0 => SizeOf(r + p * g) = h + 1
           /\ g = 0 /\ h # 0 => SizeOf(r + p * g) <= h
  <1>1. h \in 0 .. GROUPS - 2 /\ p \in Nat \ {0} /\ g \in 0 .. Group - 1 /\ r \in 0 .. p - 1
        /\ p = Power(Group, h) /\ Power(Group, h + 1) = Group * p
        /\ r + p * g \in 0 .. Group * p - 1 /\ GROUPS \in Nat
    BY GroupsAssumption DEF Shape
  <1>2. PICK b \in Nat : b = r + p * g
    BY <1>1
  <1>3. PICK s : s = SizeOf(b)
    OBVIOUS
  <1>4. /\ s \in 1 .. GROUPS /\ (s # GROUPS => b < Power(Group, s))
        /\ \A k \in 1 .. GROUPS : b < Power(Group, k) => s <= k
    BY <1>3, SizeOfFacts
  <1>5. s <= h + 1
    <2>1. h + 1 \in 1 .. GROUPS /\ b < Power(Group, h + 1)
      <3>1. PICK m \in Int : m = Group * p
        BY <1>1, GroupFacts
      <3>. QED  BY <1>1, <1>2, <3>1
    <2>. QED  BY <1>4, <2>1
  <1>6. s \in 1 .. h + 1 /\ s # GROUPS
    BY <1>1, <1>4, <1>5
  <1>7. g # 0 => s = h + 1
    <2> SUFFICES ASSUME g # 0, s <= h PROVE FALSE
      BY <1>1, <1>6
    <2>1. Power(Group, s) <= Power(Group, h)
      BY <1>1, <1>6, PowerOver
    <2>2. PICK c \in Nat : c = g /\ c >= 1
      BY <1>1, GroupFacts
    <2>3. p * c >= p
      BY <1>1, <2>2
    <2>4. b >= p
      BY <1>1, <1>2, <2>2, <2>3
    <2>5. b < Power(Group, s) /\ Power(Group, s) \in Nat
      <3>1. s \in Nat
        BY <1>4
      <3>. QED  BY <1>4, <1>6, <3>1, GroupPower
    <2>. QED  BY <1>1, <1>2, <2>1, <2>4, <2>5
  <1>8. h = 0 => s = h + 1
    BY <1>1, <1>6
  <1>9. g = 0 /\ h # 0 => s <= h
    <2> SUFFICES ASSUME g = 0, h # 0 PROVE s <= h
      OBVIOUS
    <2>1. p * 0 = 0
      BY <1>1
    <2>2. b < Power(Group, h) /\ h \in 1 .. GROUPS
      BY <1>1, <1>2, <2>1
    <2>. QED  BY <1>4, <2>2
  <1>. QED  BY <1>2, <1>3, <1>6, <1>7, <1>8, <1>9

-----------------------------------------------------------------------------
(* Reading with a sign.                                                    *)
IntOf(e) ==
    IF Len(e) < GROUPS /\ ValueOf(e) >= Power(Group, Len(e)) \div 2
    THEN ValueOf(e) - Power(Group, Len(e)) ELSE Signed(ValueOf(e))

(* What the reader makes of a number with a sign.                          *)
LEMMA IntOfFacts ==
    ASSUME NEW e, NEW n \in Nat, Len(e) = n + 1, ValueOf(e) \in Nat, n + 1 <= GROUPS
    PROVE  /\ n + 1 < GROUPS /\ ValueOf(e) < (Group \div 2) * Power(Group, n) =>
                 IntOf(e) = ValueOf(e)
           /\ n + 1 < GROUPS /\ ValueOf(e) >= (Group \div 2) * Power(Group, n) =>
                 IntOf(e) = ValueOf(e) - Group * Power(Group, n)
           /\ n + 1 = GROUPS => IntOf(e) = Signed(ValueOf(e))
  <1>1. PICK p \in Nat \ {0}, half \in Nat, G \in Nat :
            p = Power(Group, n) /\ half = Group \div 2 /\ G = Group /\ G = 2 * half
    BY GroupPower, GroupFacts
  <1>2. Power(Group, n + 1) = G * p
    BY <1>1, GroupPower
  <1>3. PICK x \in Nat : x = half * p
    OBVIOUS
  <1>4. G * p = 2 * x
    <2>1. (2 * half) * p = 2 * (half * p)
      OBVIOUS
    <2>. QED  BY <1>1, <1>3, <2>1
  <1>5. (2 * x) \div 2 = x
    OBVIOUS
  <1>6. PICK y \in Nat : y = ValueOf(e)
    OBVIOUS
  <1>7. IntOf(e) = IF n + 1 < GROUPS /\ y >= x THEN y - 2 * x ELSE Signed(y)
    BY <1>2, <1>4, <1>5, <1>6 DEF IntOf
  <1>8. n + 1 < GROUPS /\ y < x => Signed(y) = y
    <2> SUFFICES ASSUME y < x PROVE Signed(y) = y
      OBVIOUS
    <2>1. n + 1 \in Nat /\ GROUPS \in Nat
      BY GroupsAssumption
    <2>2. 2 * x <= Power(Group, GROUPS) /\ Power(Group, GROUPS) \in Nat
      <3>1. PICK k \in Nat : k = n + 1
        OBVIOUS
      <3>2. Power(Group, k) <= Power(Group, GROUPS)
        BY <2>1, <3>1, PowerOver
      <3>. QED  BY <1>2, <1>4, <2>1, <3>1, <3>2, GroupPower
    <2>3. y < Power(Group, GROUPS)
      BY <2>2
    <2>. QED  BY <2>3, GroupFacts DEF Signed
  <1>. QED  BY <1>1, <1>3, <1>4, <1>6, <1>7, <1>8, GroupsAssumption

(* Bytes that do not end: the reader takes those after them for more of    *)
(* the same number.                                                        *)
RunsOn(e, v) ==
    \E s \in 1 .. GROUPS - 2, b \in Nat :
        /\ e \in Seq(Nat) /\ Len(e) = s + 1
        /\ \A k \in 1 .. s + 1 : e[k] >= More
        /\ \A k \in 1 .. s : e[k] % Group = GroupAt(b, k - 1)
        /\ e[s + 1] % Group = Group - 1
        /\ b < Power(Group, s) /\ v = b - Power(Group, GROUPS - 1)

(* An integer that is not extended.                                        *)
LEMMA PlainWritten ==
    ASSUME NEW v \in IntRange, Highest(Unsigned(v)) \in {0, ByteMax},
           NEW h, NEW p, NEW g, NEW r, Shape(v, h, p, g, r), ~Extends(v < 0, g)
    PROVE  /\ IsNumber(WriteMBInt(v)) /\ IntOf(WriteMBInt(v)) = v
           /\ h = 0 => Len(WriteMBInt(v)) = 1
  <1>0. PICK b \in Nat : b = r + p * g
    BY GroupFacts DEF Shape
  <1>1. PICK e, s : b = r + p * g /\ e = WriteMBUInt(b) /\ s = SizeOf(b)
    BY <1>0
  <1>2. WriteMBInt(v) = e
    BY <1>1, FormFacts DEF Shape
  <1>3. IsNumber(e) /\ Len(e) = s /\ ValueOf(e) = b
    BY <1>1, UIntWritten
  <1>4. /\ s \in 1 .. h + 1 /\ (g # 0 \/ h = 0 => s = h + 1)
    BY <1>1, ShapeSize
  <1>5. PICK G \in Nat, half \in Nat : G = Group /\ half = Group \div 2 /\ G = 2 * half
    BY GroupFacts
  <1>6. /\ h \in 0 .. GROUPS - 2 /\ p \in Nat \ {0} /\ g \in 0 .. G - 1 /\ r \in 0 .. p - 1
        /\ p = Power(Group, h) /\ b = r + p * g /\ v = b - IF v < 0 THEN G * p ELSE 0
        /\ h # 0 => g # SignOf(v)
    BY <1>1, <1>5 DEF Shape
  <1>7. h \in Nat /\ h + 1 < GROUPS /\ h + 1 <= GROUPS
    BY <1>6, GroupsAssumption
  <1>8. s = h + 1
    <2>1. CASE v < 0
      <3>1. ~(g < half)
        BY <1>5, <2>1 DEF Extends
      <3>. QED  BY <1>4, <1>5, <1>6, <3>1, GroupFacts
    <2>2. CASE ~(v < 0)
      BY <1>4, <1>6, <2>2 DEF SignOf
    <2>. QED  BY <2>1, <2>2
  <1>9. IntOf(e) = v
    <2>1. /\ b < half * p => IntOf(e) = b
          /\ b >= half * p => IntOf(e) = b - G * p
      BY <1>3, <1>5, <1>6, <1>7, <1>8, IntOfFacts
    <2>2. CASE v < 0
      <3>1. g >= half
        BY <1>5, <1>6, <2>2 DEF Extends
      <3>2. p * g >= half * p
        BY <1>6, <3>1
      <3>3. b >= half * p
        BY <1>6, <3>2
      <3>. QED  BY <1>6, <2>1, <2>2, <3>3
    <2>3. CASE ~(v < 0)
      <3>1. g + 1 <= half
        BY <1>5, <1>6, <2>3 DEF Extends
      <3>2. p * (g + 1) <= half * p
        BY <1>6, <3>1
      <3>3. p * (g + 1) = p * g + p
        BY <1>6
      <3>4. b < half * p
        BY <1>6, <3>2, <3>3
      <3>. QED  BY <1>6, <2>1, <2>3, <3>4
    <2>. QED  BY <2>2, <2>3
  <1>. QED  BY <1>2, <1>3, <1>8, <1>9

(* An integer of all groups.                                               *)
LEMMA FullWritten ==
    ASSUME NEW v \in IntRange, Highest(Unsigned(v)) \notin {0, ByteMax}
    PROVE  IsNumber(WriteMBInt(v)) /\ IntOf(WriteMBInt(v)) = v
  <1>1. PICK u \in Nat : u = Unsigned(v)
    BY UnsignedFacts
  <1>2. PICK e, s : e = WriteMBUInt(u) /\ s = SizeOf(u)
    OBVIOUS
  <1>3. WriteMBInt(v) = e
    BY <1>1, <1>2, FormFacts
  <1>4. IsNumber(e) /\ Len(e) = s /\ ValueOf(e) = u
    BY <1>2, UIntWritten
  <1>5. s = GROUPS
    <2> SUFFICES ASSUME s # GROUPS PROVE FALSE
      OBVIOUS
    <2>1. PICK H \in Nat \ {0}, top \in Nat : H = Power(Group, GROUPS - 1) /\ top = Highest(u)
      BY <1>1, HighestFacts
    <2>2. u = Below(u, GROUPS - 1) + H * top /\ Below(u, GROUPS - 1) \in 0 .. H - 1
      BY <1>1, <2>1, HighestFacts
    <2>3. H * top >= H
      BY <1>1, <2>1
    <2>4. s \in 1 .. GROUPS - 1 /\ u < Power(Group, s) /\ GROUPS \in Nat
      BY <1>2, SizeOfFacts, GroupsAssumption
    <2>5. Power(Group, s) <= H /\ Power(Group, s) \in Nat
      <3>1. s \in Nat /\ GROUPS - 1 \in Nat /\ s <= GROUPS - 1
        BY <2>4
      <3>. QED  BY <2>1, <3>1, PowerOver, GroupPower
    <2>. QED  BY <2>2, <2>3, <2>4, <2>5
  <1>6. IntOf(e) = Signed(u)
    BY <1>4, <1>5, GroupsAssumption DEF IntOf
  <1>. QED  BY <1>1, <1>3, <1>4, <1>6, UnsignedFacts

(* An integer that is extended.                                            *)
LEMMA ExtendedWritten ==
    ASSUME NEW v \in IntRange, Highest(Unsigned(v)) \in {0, ByteMax},
           NEW h, NEW p, NEW g, NEW r, Shape(v, h, p, g, r), Extends(v < 0, g)
    PROVE  \/ IsNumber(WriteMBInt(v)) /\ IntOf(WriteMBInt(v)) = v
           \/ IsNumber(WriteMBInt(v)) /\ Folded(v, IntOf(WriteMBInt(v)))
           \/ RunsOn(WriteMBInt(v), v)
  <1>0. PICK b \in Nat : b = r + p * g
    BY GroupFacts DEF Shape
  <1>1. PICK x, e, s : x = Extension(v) /\ e = Extended(b, x) /\ s = SizeOf(b)
    OBVIOUS
  <1>2. WriteMBInt(v) = e
    BY <1>0, <1>1, FormFacts DEF Shape
  <1>3. PICK G \in Nat, half \in Nat :
            G = Group /\ half = Group \div 2 /\ G = 2 * half /\ half >= 2
    BY GroupFacts
  <1>4. /\ h \in 0 .. GROUPS - 2 /\ p \in Nat \ {0} /\ g \in 0 .. G - 1 /\ r \in 0 .. p - 1
        /\ p = Power(Group, h) /\ v = b - (IF v < 0 THEN G * p ELSE 0)
        /\ h # 0 => g # SignOf(v)
        /\ h = TopGroup(v) /\ b \in 0 .. G * p - 1 /\ Power(Group, h + 1) = G * p
    BY <1>0, <1>3 DEF Shape
  <1>5. h \in Nat /\ h + 1 < GROUPS /\ h + 1 <= GROUPS /\ GROUPS \in Nat
    BY <1>4, GroupsAssumption
  <1>6. /\ s \in 1 .. h + 1 /\ s # GROUPS /\ (g # 0 \/ h = 0 => s = h + 1)
        /\ g = 0 /\ h # 0 => s <= h
    BY <1>0, <1>1, ShapeSize
  <1>7. /\ x = (IF ~(v < 0) THEN 0 ELSE IF h = GROUPS - 2 THEN 2 * G - 1 ELSE G - 1)
        /\ x \in Nat
    BY <1>1, <1>3, <1>4 DEF Extension, ByteMax
  <1>8. /\ e \in Seq(Nat) /\ Len(e) = s + 1 /\ e[s + 1] = x
        /\ \A k \in 1 .. s : e[k] % Group = GroupAt(b, k - 1) /\ e[k] >= More
        /\ ValueOf(e) = b + Power(Group, s) * Digit(e, s + 1)
    BY <1>1, <1>6, <1>7, ExtendedFacts
  <1>9. s \in Nat /\ s + 1 <= GROUPS
    BY <1>5, <1>6
  <1>10. PICK q \in Nat \ {0} : q = Power(Group, s)
    BY <1>9, GroupPower
  <1>11. /\ \A k \in 1 .. Len(e) - 1 : e[k] >= More
         /\ Len(e) \in 1 .. GROUPS
    <2>1. Len(e) - 1 = s
      BY <1>8, <1>9
    <2>. QED  BY <1>5, <1>8, <1>9, <2>1
  <1>12. x < More \/ s + 1 = GROUPS => IsNumber(e)
    BY <1>8, <1>9, <1>11 DEF IsNumber
  <1>13. PICK d \in Nat : d = Digit(e, s + 1)
    <2>1. PICK y \in Nat, GG \in Nat \ {0} : y = e[s + 1] /\ GG = Group
      BY <1>7, <1>8, GroupFacts
    <2>2. y % GG \in Nat
      OBVIOUS
    <2>. QED  BY <2>1, <2>2 DEF Digit
  <1>14. ValueOf(e) = b + q * d /\ q * d \in Nat /\ ValueOf(e) \in Nat
    BY <1>8, <1>10, <1>13
  <1>15. /\ s + 1 < GROUPS /\ ValueOf(e) < half * q => IntOf(e) = ValueOf(e)
         /\ s + 1 < GROUPS /\ ValueOf(e) >= half * q => IntOf(e) = ValueOf(e) - G * q
         /\ s + 1 = GROUPS => IntOf(e) = Signed(ValueOf(e))
    BY <1>3, <1>8, <1>9, <1>10, <1>14, IntOfFacts
  <1>16. CASE ~(v < 0)
    <2>1. x = 0 /\ v = b /\ g >= half
      BY <1>3, <1>4, <1>7, <1>16 DEF Extends
    <2>2. s = h + 1 /\ q = G * p
      <3>1. s = h + 1
        BY <1>3, <1>4, <1>6, <2>1
      <3>. QED  BY <1>4, <1>10, <3>1
    <2>3. d = 0
      <3>1. 0 % Group = 0
        BY GroupFacts
      <3>. QED  BY <1>8, <1>13, <2>1, <3>1 DEF Digit
    <2>4. ValueOf(e) = b
      BY <1>14, <2>3
    <2>5. IsNumber(e)
      BY <1>3, <1>12, <2>1 DEF More
    <2>6. CASE s + 1 = GROUPS
      <3>1. Unsigned(v) = v /\ Signed(Unsigned(v)) = v
        BY <1>16, UnsignedFacts
      <3>. QED  BY <1>2, <1>15, <2>1, <2>4, <2>5, <2>6, <3>1
    <2>7. CASE s + 1 < GROUPS
      <3>1. half * q >= q
        BY <1>3, <1>10
      <3>2. b < q
        <4>1. PICK m \in Nat : m = G * p
          BY <1>4
        <4>. QED  BY <1>4, <2>2, <4>1
      <3>3. b < half * q
        BY <1>10, <3>1, <3>2
      <3>. QED  BY <1>2, <1>15, <2>1, <2>4, <2>5, <2>7, <3>3
    <2>. QED  BY <1>5, <1>9, <2>6, <2>7
  <1>17. CASE v < 0 /\ h # GROUPS - 2
    <2>1. x = G - 1 /\ v = b - G * p
      BY <1>4, <1>7, <1>17
    <2>2. IsNumber(e)
      BY <1>3, <1>12, <2>1 DEF More
    <2>3. s + 1 < GROUPS /\ s + 1 # GROUPS
      BY <1>4, <1>5, <1>6, <1>17
    <2>4. d = G - 1
      <3>1. (G - 1) % G = G - 1
        BY <1>3
      <3>. QED  BY <1>3, <1>8, <1>13, <2>1, <2>3, <3>1 DEF Digit
    <2>5. q * d >= half * q
      <3>1. d >= half
        BY <1>3, <2>4
      <3>2. q * d >= q * half
        BY <1>10, <3>1
      <3>. QED  BY <3>2
    <2>6. IntOf(e) = (b + q * d) - G * q
      BY <1>10, <1>14, <1>15, <2>3, <2>5
    <2>7. IntOf(e) = b - q
      <3>1. q * (G - 1) = G * q - q
        OBVIOUS
      <3>2. PICK m \in Nat : m = G * q
        OBVIOUS
      <3>. QED  BY <2>4, <2>6, <3>1, <3>2
    <2>8. CASE g # 0 \/ h = 0
      <3>1. q = G * p
        BY <1>4, <1>6, <1>10, <2>8
      <3>. QED  BY <1>2, <2>1, <2>2, <2>7, <3>1
    <2>9. CASE g = 0 /\ h # 0
      <3>1. PICK m \in Nat : m = G * p
        BY <1>4
      <3>2. v = IntOf(e) + q - m
        BY <2>1, <2>7, <3>1
      <3>3. h + 1 \in 2 .. GROUPS - 1 /\ s \in 1 .. (h + 1) - 1
        BY <1>4, <1>5, <1>6, <2>9
      <3>4. Folded(v, IntOf(e))
        BY <1>4, <1>10, <3>1, <3>2, <3>3 DEF Folded
      <3>. QED  BY <1>2, <2>2, <3>4
    <2>. QED  BY <2>8, <2>9
  <1>18. CASE v < 0 /\ h = GROUPS - 2
    <2>1. x = 2 * G - 1 /\ v = b - G * p /\ GROUPS - 1 = h + 1
      BY <1>4, <1>5, <1>7, <1>18
    <2>2. CASE g # 0 \/ h = 0
      <3>1. s + 1 = GROUPS /\ q = G * p
        BY <1>4, <1>5, <1>6, <1>10, <2>1, <2>2
      <3>2. d = 2 * G - 1
        BY <1>8, <1>13, <2>1, <3>1 DEF Digit
      <3>3. q * (2 * G - 1) = 2 * (G * q) - q
        OBVIOUS
      <3>4. PICK m \in Nat : m = G * q
        OBVIOUS
      <3>5. Power(Group, GROUPS) = m
        <4>1. Power(Group, s + 1) = G * q
          BY <1>3, <1>9, <1>10, GroupPower
        <4>. QED  BY <3>1, <3>4, <4>1
      <3>6. ValueOf(e) = b + (2 * m - q)
        BY <1>14, <3>2, <3>3, <3>4
      <3>7. Unsigned(v) = v + 2 * m
        BY <1>18, <3>5, UnsignedFacts
      <3>8. v = b - q
        BY <2>1, <3>1
      <3>9. ValueOf(e) = Unsigned(v)
        BY <1>10, <3>6, <3>7, <3>8
      <3>10. IntOf(e) = v
        BY <1>15, <3>1, <3>9, UnsignedFacts
      <3>. QED  BY <1>2, <1>12, <3>1, <3>10
    <2>3. CASE g = 0 /\ h # 0
      <3>1. s \in 1 .. GROUPS - 2
        BY <1>4, <1>6, <1>18, <2>3
      <3>2. x >= More /\ x % Group = G - 1
        <4>1. PICK GG \in Nat \ {0} : GG = G
          BY <1>3
        <4>2. x = GG * 1 + (GG - 1) /\ GG - 1 \in 0 .. GG - 1
          BY <2>1, <4>1
        <4>3. x % GG = GG - 1
          BY <1>7, <4>2, RemainderIs
        <4>. QED  BY <1>3, <2>1, <4>1, <4>3 DEF More
      <3>3. \A k \in 1 .. s + 1 : e[k] >= More
        <4>1. \A k \in 1 .. s + 1 : k \in 1 .. s \/ k = s + 1
          BY <1>9
        <4>. QED  BY <1>8, <3>2, <4>1
      <3>4. b < Power(Group, s)
        BY <1>1, <1>6, <3>1, SizeOfFacts
      <3>5. v = b - Power(Group, GROUPS - 1)
        BY <1>4, <2>1
      <3>6. e[s + 1] % Group = Group - 1
        BY <1>3, <1>8, <3>2
      <3>7. RunsOn(e, v)
        BY <1>8, <3>1, <3>3, <3>4, <3>5, <3>6 DEF RunsOn
      <3>. QED  BY <1>2, <3>7
    <2>. QED  BY <2>2, <2>3
  <1>. QED  BY <1>16, <1>17, <1>18

(* An integer is read as it was written, or as another one it folds to, or *)
(* its bytes do not end.                                                   *)
LEMMA IntWritten ==
    ASSUME NEW v \in IntRange
    PROVE  \/ /\ IsNumber(WriteMBInt(v))
              /\ IntOf(WriteMBInt(v)) = v \/ Folded(v, IntOf(WriteMBInt(v)))
           \/ RunsOn(WriteMBInt(v), v)
  <1>1. CASE Highest(Unsigned(v)) \notin {0, ByteMax}
    BY <1>1, FullWritten
  <1>2. CASE Highest(Unsigned(v)) \in {0, ByteMax}
    <2>1. PICK h, p, g, r : Shape(v, h, p, g, r)
      BY <1>2, ShapeFacts
    <2>2. CASE Extends(v < 0, g)
      BY <1>2, <2>1, <2>2, ExtendedWritten
    <2>3. CASE ~Extends(v < 0, g)
      BY <1>2, <2>1, <2>3, PlainWritten
    <2>. QED  BY <2>2, <2>3
  <1>. QED  BY <1>1, <1>2

(* One of a single byte is read as it was written.                         *)
LEMMA SmallIntWritten ==
    ASSUME NEW v \in INSTR_OFFSET_MIN .. INSTR_OFFSET_MAX
    PROVE  /\ IsNumber(WriteMBInt(v)) /\ Len(WriteMBInt(v)) = 1
           /\ IntOf(WriteMBInt(v)) = v
  <1>1. PICK half \in Nat, G \in Nat \ {0} :
            half = Group \div 2 /\ G = Group /\ G = 2 * half /\ half >= 2
    BY GroupFacts
  <1>2. v \in Int /\ -half <= v /\ v <= half - 1
    BY <1>1 DEF INSTR_OFFSET_MIN, INSTR_OFFSET_MAX
  <1>3. PICK H \in Nat \ {0}, m \in Nat : /\ H = Power(Group, GROUPS - 1) /\ m = G * H
                                          /\ m = Power(Group, GROUPS) /\ G <= H
    <2>1. PICK n \in Nat : n = GROUPS - 1 /\ n + 1 = GROUPS /\ 1 <= n
      BY GroupsAssumption
    <2>2. PICK H \in Nat \ {0} : H = Power(Group, n)
      BY GroupPower
    <2>3. Power(Group, n + 1) = G * H
      BY <1>1, <2>2, GroupPower
    <2>4. G <= H
      <3>1. Power(Group, 1) <= Power(Group, n)
        BY <2>1, PowerOver
      <3>. QED  BY <1>1, <2>2, <3>1, GroupPower
    <2>5. PICK m \in Nat : m = G * H
      OBVIOUS
    <2>. QED  BY <2>1, <2>2, <2>3, <2>4, <2>5
  <1>4. v \in IntRange
    <2>1. H <= m
      BY <1>1, <1>3
    <2>. QED  BY <1>1, <1>2, <1>3, <2>1 DEF IntRange
  <1>5. PICK u \in Nat, top \in Nat, b \in 0 .. H - 1 :
            /\ u = Unsigned(v) /\ top = Highest(u) /\ u = b + H * top
            /\ u = IF v < 0 THEN v + 2 * m ELSE v
    <2>1. PICK u \in Nat : u = Unsigned(v)
      BY <1>4, UnsignedFacts
    <2>2. /\ u = Below(u, GROUPS - 1) + H * Highest(u)
          /\ Below(u, GROUPS - 1) \in 0 .. H - 1 /\ Highest(u) \in Nat
      BY <1>3, <1>4, <2>1, HighestFacts
    <2>. QED  BY <1>3, <1>4, <2>1, <2>2, UnsignedFacts
  <1>6. top \in {0, ByteMax}
    <2>1. CASE v < 0
      <3>1. u \in 2 * m - half .. 2 * m - 1
        BY <1>2, <1>5, <2>1
      <3>2. top < 2 * G
        <4> SUFFICES ASSUME top >= 2 * G PROVE FALSE
          BY <1>1
        <4>1. H * top >= H * (2 * G)
          BY <1>1
        <4>2. H * (2 * G) = 2 * (G * H)
          OBVIOUS
        <4>. QED  BY <1>3, <1>5, <3>1, <4>1, <4>2
      <3>3. top > 2 * G - 2
        <4> SUFFICES ASSUME top <= 2 * G - 2 PROVE FALSE
          BY <1>1
        <4>1. H * top <= H * (2 * G - 2)
          BY <1>1
        <4>2. H * (2 * G - 2) = 2 * (G * H) - 2 * H
          OBVIOUS
        <4>. QED  BY <1>1, <1>3, <1>5, <3>1, <4>1, <4>2
      <3>. QED  BY <1>1, <3>2, <3>3 DEF ByteMax
    <2>2. CASE ~(v < 0)
      <3> SUFFICES ASSUME top >= 1 PROVE FALSE
        OBVIOUS
      <3>1. H * top >= H
        OBVIOUS
      <3>. QED  BY <1>1, <1>2, <1>3, <1>5, <2>2, <3>1
    <2>. QED  BY <2>1, <2>2
  <1>7. PICK h, p, g, r : Shape(v, h, p, g, r)
    BY <1>4, <1>5, <1>6, ShapeFacts
  <1>8. /\ h \in 0 .. GROUPS - 2 /\ p \in Nat \ {0} /\ g \in 0 .. G - 1 /\ r \in 0 .. p - 1
        /\ p = Power(Group, h) /\ v = (r + p * g) - (IF v < 0 THEN G * p ELSE 0)
        /\ (h # 0 => g # SignOf(v)) /\ (h = 0 => p = 1)
    BY <1>1, <1>7 DEF Shape
  <1>9. h = 0
    <2> SUFFICES ASSUME h # 0 PROVE FALSE
      OBVIOUS
    <2>1. G <= p
      <3>1. h \in Nat /\ 1 <= h
        BY <1>8, GroupsAssumption
      <3>2. Power(Group, 1) <= Power(Group, h)
        BY <3>1, PowerOver
      <3>. QED  BY <1>1, <1>8, <3>2, GroupPower
    <2>2. CASE v < 0
      <3>1. g <= G - 2
        BY <1>1, <1>8, <2>2 DEF SignOf
      <3>2. p * g <= p * (G - 2)
        BY <1>1, <1>8, <3>1
      <3>3. p * (G - 2) = G * p - 2 * p
        BY <1>8
      <3>4. PICK x \in Int, y \in Int : x = p * g /\ y = G * p
        BY <1>8
      <3>. QED  BY <1>1, <1>2, <1>8, <2>1, <2>2, <3>2, <3>3, <3>4
    <2>3. CASE ~(v < 0)
      <3>1. g >= 1
        BY <1>8, <2>3 DEF SignOf
      <3>2. p * g >= p
        BY <1>8, <3>1
      <3>. QED  BY <1>1, <1>2, <1>8, <2>1, <2>3, <3>2
    <2>. QED  BY <2>2, <2>3
  <1>10. p = 1 /\ r = 0 /\ v = g - (IF v < 0 THEN G ELSE 0)
    BY <1>8, <1>9
  <1>11. ~Extends(v < 0, g)
    <2>1. CASE v < 0
      BY <1>1, <1>2, <1>8, <1>10, <2>1 DEF Extends
    <2>2. CASE ~(v < 0)
      BY <1>1, <1>2, <1>8, <1>10, <2>2 DEF Extends
    <2>. QED  BY <2>1, <2>2
  <1>. QED  BY <1>4, <1>5, <1>6, <1>7, <1>9, <1>11, PlainWritten

(* A number that begins with bytes that do not end: if it is read as a     *)
(* small integer, the one written folds to that.                           *)
LEMMA RunsOnFolds ==
    ASSUME NEW e, NEW v, RunsOn(e, v), NEW f, IsNumber(f), Len(e) < Len(f),
           \A k \in 1 .. Len(e) : f[k] = e[k],
           IntOf(f) \in INSTR_OFFSET_MIN .. INSTR_OFFSET_MAX
    PROVE  Folded(v, IntOf(f))
  <1>1. PICK s \in 1 .. GROUPS - 2, b \in Nat :
        /\ e \in Seq(Nat) /\ Len(e) = s + 1
        /\ \A k \in 1 .. s : e[k] % Group = GroupAt(b, k - 1)
        /\ e[s + 1] % Group = Group - 1
        /\ b < Power(Group, s) /\ v = b - Power(Group, GROUPS - 1)
    BY DEF RunsOn
  <1>2. PICK half \in Nat, G \in Nat \ {0} :
            half = Group \div 2 /\ G = Group /\ G = 2 * half /\ half >= 2
    BY GroupFacts
  <1>3. PICK t \in Nat : t = Len(f) /\ f \in Seq(Nat) /\ t <= GROUPS /\ s + 1 < t
    BY <1>1 DEF IsNumber
  <1>4. s \in Nat /\ GROUPS \in Nat /\ s + 1 # GROUPS /\ 1 <= s /\ s < GROUPS
    BY <1>1, GroupsAssumption
  <1>5. PICK p \in Nat \ {0}, q \in Nat \ {0} :
            p = Power(Group, s) /\ q = G * p /\ q = Power(Group, s + 1) /\ G <= p
    <2>1. PICK p \in Nat \ {0} : p = Power(Group, s)
      BY <1>4, GroupPower
    <2>2. Power(Group, s + 1) = G * p
      BY <1>2, <1>4, <2>1, GroupPower
    <2>3. G * p \in Nat \ {0}
      OBVIOUS
    <2>4. Power(Group, 1) <= Power(Group, s)
      BY <1>4, PowerOver
    <2>. QED  BY <1>2, <2>1, <2>2, <2>3, <2>4, GroupPower
  <1>6. PICK g \in [0 .. Len(f) -> Nat] : Sums(f, g)
    BY <1>3, SumsExist
  <1>7. g[s] = b
    <2>1. \A k \in 1 .. s : f[k] % Group = GroupAt(b, k - 1)
      BY <1>1, <1>4
    <2>2. s <= Len(f) /\ Len(f) \in Nat
      BY <1>3, <1>4
    <2>3. g[s] = Below(b, s)
      BY <1>4, <1>6, <2>1, <2>2, LowSum
    <2>4. b < p
      BY <1>1, <1>5
    <2>5. b % p = b
      BY <2>4
    <2>. QED  BY <1>5, <2>3, <2>5 DEF Below
  <1>8. g[s + 1] = b + (q - p)
    <2>1. s + 1 \in 0 .. Len(f) /\ s + 1 # 0 /\ (s + 1) - 1 = s /\ s + 1 \in 1 .. Len(e)
      BY <1>1, <1>3, <1>4
    <2>2. g[s + 1] = g[s] + Power(Group, s) * Digit(f, s + 1)
      BY <1>6, <2>1 DEF Sums
    <2>3. Digit(f, s + 1) = G - 1
      BY <1>1, <1>2, <1>4, <2>1 DEF Digit
    <2>4. p * (G - 1) = G * p - p
      OBVIOUS
    <2>. QED  BY <1>5, <1>7, <2>2, <2>3, <2>4
  <1>9. PICK c \in Nat : ValueOf(f) = b + (q - p) + q * c
    <2>1. s + 1 \in 0 .. Len(f)
      BY <1>3, <1>4
    <2>2. PICK c \in Nat : g[Len(f)] = g[s + 1] + Power(Group, s + 1) * c
      BY <1>3, <1>6, <2>1, HighSum
    <2>3. ValueOf(f) = g[Len(f)]
      BY <1>3, <1>6, ValueIs
    <2>. QED  BY <1>5, <1>8, <2>2, <2>3
  <1>10. PICK x \in Nat : x = ValueOf(f)
    <2>1. b + (q - p) + q * c \in Nat
      <3>1. p <= q
        BY <1>2, <1>5
      <3>. QED  BY <3>1
    <2>. QED  BY <1>9, <2>1
  <1>11. PICK a \in Int : IntOf(f) = x - q * a
    <2>1. PICK c1 \in Nat : Power(Group, t) = c1 * q
      <3>1. PICK k \in Nat : k = s + 1 /\ k <= t
        BY <1>3, <1>4
      <3>. QED  BY <1>5, <3>1, PowerOver
    <2>2. PICK c2 \in Nat : Power(Group, GROUPS) = c2 * q
      <3>1. PICK k \in Nat : k = s + 1 /\ k <= GROUPS
        BY <1>4
      <3>. QED  BY <1>4, <1>5, <3>1, PowerOver
    <2>3. \/ IntOf(f) = x - c1 * q
          \/ IntOf(f) = x
          \/ IntOf(f) = x - 2 * (c2 * q)
      BY <1>3, <1>10, <2>1, <2>2, GroupFacts DEF IntOf, Signed
    <2>4. CASE IntOf(f) = x - c1 * q
      <3>1. c1 * q = q * c1 /\ c1 \in Int
        OBVIOUS
      <3>. QED  BY <2>4, <3>1
    <2>5. CASE IntOf(f) = x
      <3>1. x - q * 0 = x
        OBVIOUS
      <3>. QED  BY <2>5, <3>1
    <2>6. CASE IntOf(f) = x - 2 * (c2 * q)
      <3>1. PICK z \in Int : z = 2 * c2
        OBVIOUS
      <3>2. q * z = 2 * (c2 * q)
        BY <3>1
      <3>. QED  BY <2>6, <3>2
    <2>. QED  BY <2>3, <2>4, <2>5, <2>6
  <1>12. PICK d \in Int : IntOf(f) = (b - p) + q * d
    <2>1. PICK d \in Int : d = (1 + c) - a
      OBVIOUS
    <2>2. q * d = (q + q * c) - q * a
      BY <2>1
    <2>. QED  BY <1>9, <1>10, <1>11, <2>2
  <1>13. d = 0
    <2>1. IntOf(f) \in -half .. half - 1
      BY <1>2 DEF INSTR_OFFSET_MIN, INSTR_OFFSET_MAX
    <2>2. b < p
      BY <1>1, <1>5
    <2>3. q >= 4 * p
      BY <1>2, <1>5
    <2>4. PICK y \in Int : y = q * d
      OBVIOUS
    <2>5. d >= 1 => y >= q
      BY <2>4
    <2>6. d <= -1 => y <= -q
      BY <2>4
    <2>7. y < q /\ y > -q
      <3>1. PICK z \in Int : z = IntOf(f) /\ z \in -half .. half - 1 /\ z = (b - p) + y
        BY <1>12, <2>1, <2>4
      <3>2. half <= p
        BY <1>2, <1>5
      <3>. QED  BY <2>2, <2>3, <3>1, <3>2
    <2>. QED  BY <2>5, <2>6, <2>7
  <1>14. IntOf(f) = b - p
    BY <1>12, <1>13
  <1>15. GROUPS - 1 \in 2 .. GROUPS - 1 /\ s \in 1 .. (GROUPS - 1) - 1
    BY <1>1, <1>4
  <1>16. PICK P \in Nat : P = Power(Group, GROUPS - 1)
    BY <1>4, GroupPower, GroupsAssumption
  <1>17. v = IntOf(f) + p - P
    BY <1>1, <1>14, <1>16
  <1>. QED  BY <1>5, <1>15, <1>16, <1>17 DEF Folded
-----------------------------------------------------------------------------
(* Reading a number.                                                       *)
SameUpTo(b, c, m) == \A i \in 1 .. m : b[i] = c[i]
Ends(bytes) == {k \in 1 .. Len(bytes) : k = GROUPS \/ bytes[k] < More}

LEMMA SizeFacts ==
    ASSUME NEW T, NEW b \in Seq(T)
    PROVE  /\ SizeIn(b) \in 0 .. Len(b)
           /\ SizeIn(b) # 0 => /\ SizeIn(b) \in Ends(b)
                               /\ \A k \in Ends(b) : SizeIn(b) <= k
           /\ SizeIn(b) = 0 => Ends(b) = {}
  <1>1. Len(b) \in Nat /\ Ends(b) \subseteq 1 .. Len(b)
    BY DEF Ends
  <1>2. SizeIn(b) = IF Ends(b) = {} THEN 0 ELSE Min(Ends(b))
    BY DEF SizeIn, Ends
  <1>3. Ends(b) # {} => /\ Min(Ends(b)) \in Ends(b)
                        /\ \A k \in Ends(b) : Min(Ends(b)) <= k
    <2>1. Ends(b) \subseteq Nat
      BY <1>1
    <2>. QED  BY <2>1, MinOf
  <1>. QED  BY <1>1, <1>2, <1>3

(* The size of a number is that of its own bytes.                          *)
LEMMA SizeSame ==
    ASSUME NEW T, NEW b \in Seq(T), NEW c \in Seq(T), Len(b) = Len(c),
           SizeIn(b) # 0, SameUpTo(b, c, SizeIn(b))
    PROVE  SizeIn(c) = SizeIn(b)
  <1>1. Len(b) \in Nat /\ SizeIn(b) \in 1 .. Len(b)
    BY SizeFacts
  <1>2. \A k \in 1 .. SizeIn(b) : k \in Ends(c) <=> k \in Ends(b)
    BY <1>1 DEF Ends, SameUpTo
  <1>3. SizeIn(b) \in Ends(c) /\ SizeIn(c) # 0
    BY <1>1, <1>2, SizeFacts
  <1>4. SizeIn(c) <= SizeIn(b) /\ SizeIn(c) \in 1 .. Len(b)
    BY <1>1, <1>3, SizeFacts
  <1>5. SizeIn(c) \in Ends(c)
    BY <1>3, SizeFacts
  <1>6. SizeIn(c) \in Ends(b)
    BY <1>1, <1>2, <1>4, <1>5
  <1>. QED  BY <1>1, <1>4, <1>6, SizeFacts

(* And so is its value.                                                    *)
LEMMA NumberSame ==
    ASSUME NEW T, NEW b \in Seq(T), NEW c \in Seq(T), Len(b) = Len(c),
           SizeIn(b) # 0, SameUpTo(b, c, SizeIn(b))
    PROVE  ReadMBUInt(c) = ReadMBUInt(b) /\ ReadMBInt(c) = ReadMBInt(b)
  <1>1. SizeIn(c) = SizeIn(b) /\ SizeIn(b) \in 1 .. Len(b) /\ Len(b) \in Nat
    BY SizeSame, SizeFacts
  <1>2. SubSeq(c, 1, SizeIn(b)) = SubSeq(b, 1, SizeIn(b))
    <2>1. /\ SubSeq(c, 1, SizeIn(b)) \in Seq(T)
          /\ SubSeq(b, 1, SizeIn(b)) \in Seq(T)
          /\ Len(SubSeq(c, 1, SizeIn(b))) = SizeIn(b)
          /\ Len(SubSeq(b, 1, SizeIn(b))) = SizeIn(b)
      BY <1>1
    <2>2. \A i \in 1 .. SizeIn(b) : /\ SubSeq(c, 1, SizeIn(b))[i] = c[i]
                                    /\ SubSeq(b, 1, SizeIn(b))[i] = b[i]
      BY <1>1
    <2>. QED  BY <2>1, <2>2, SeqEqual DEF SameUpTo
  <1>3. ReadMBUInt(c) = ReadMBUInt(b)
    BY <1>1, <1>2 DEF ReadMBUInt
  <1>. QED  BY <1>1, <1>3 DEF ReadMBInt

-----------------------------------------------------------------------------
(* Reading the operands.                                                   *)
LEMMA AfterFacts ==
    ASSUME NEW T, NEW d \in Seq(T), NEW end \in 0 .. Len(d), After(d, end) # None
    PROVE  /\ After(d, end) = end + SizeIn(Rest(d, end))
           /\ After(d, end) \in end + 1 .. Len(d)
           /\ SizeIn(Rest(d, end)) # 0
  <1>1. Rest(d, end) \in Seq(T) /\ Len(Rest(d, end)) = Len(d) - end /\ Len(d) \in Nat
    BY DEF Rest
  <1>2. SizeIn(Rest(d, end)) \in 0 .. Len(d) - end
    BY <1>1, SizeFacts
  <1>. QED  BY <1>1, <1>2 DEF After, None

(* An operand stands where it stood, and is what it was, among other bytes *)
(* after it.                                                               *)
LEMMA OperandSame ==
    ASSUME NEW T, NEW d \in Seq(T), NEW e \in Seq(T), Len(d) = Len(e),
           NEW end \in 0 .. Len(d), After(d, end) # None,
           SameUpTo(d, e, After(d, end))
    PROVE  /\ After(e, end) = After(d, end)
           /\ ReadMBUInt(Rest(e, end)) = ReadMBUInt(Rest(d, end))
           /\ ReadMBInt(Rest(e, end)) = ReadMBInt(Rest(d, end))
  <1>1. /\ Rest(d, end) \in Seq(T) /\ Len(Rest(d, end)) = Len(d) - end
        /\ Rest(e, end) \in Seq(T) /\ Len(Rest(e, end)) = Len(d) - end
        /\ Len(d) \in Nat
    BY DEF Rest
  <1>2. /\ After(d, end) = end + SizeIn(Rest(d, end))
        /\ After(d, end) \in end + 1 .. Len(d)
        /\ SizeIn(Rest(d, end)) # 0 /\ SizeIn(Rest(d, end)) \in 1 .. Len(d) - end
    BY <1>1, AfterFacts, SizeFacts
  <1>3. \A i \in 1 .. Len(d) - end : /\ Rest(d, end)[i] = d[end + i]
                                     /\ Rest(e, end)[i] = e[end + i]
    BY <1>1 DEF Rest
  <1>4. SameUpTo(Rest(d, end), Rest(e, end), SizeIn(Rest(d, end)))
    <2> SUFFICES ASSUME NEW i \in 1 .. SizeIn(Rest(d, end))
                 PROVE  Rest(d, end)[i] = Rest(e, end)[i]
      BY DEF SameUpTo
    <2>1. i \in 1 .. Len(d) - end /\ end + i \in 1 .. After(d, end)
      BY <1>1, <1>2
    <2>. QED  BY <1>3, <2>1 DEF SameUpTo
  <1>5. SizeIn(Rest(e, end)) = SizeIn(Rest(d, end))
    BY <1>1, <1>2, <1>4, SizeSame
  <1>6. After(e, end) = After(d, end)
    BY <1>2, <1>5 DEF After, None
  <1>. QED  BY <1>1, <1>2, <1>4, <1>6, NumberSame

(* EndOf without its recursion, for the operands an instruction can have.  *)
LEMMA EndOfFacts ==
    ASSUME NEW d
    PROVE  /\ EndOf(d, 0) = 0
           /\ \A k \in 1 .. 3 : EndOf(d, k) = After(d, EndOf(d, k - 1))
  <1> DEFINE A1 == After(d, 0)
             A2 == After(d, A1)
             A3 == After(d, A2)
             Ending(k, f) == f = [n \in 0 .. k |-> IF n = 0 THEN 0 ELSE After(d, f[n - 1])]
             w == [n \in 0 .. 3 |-> IF n = 0 THEN 0 ELSE IF n = 1 THEN A1
                                    ELSE IF n = 2 THEN A2 ELSE A3]
  <1>1. \A k \in 0 .. 3 : EndOf(d, k) = (CHOOSE f : Ending(k, f))[k]
    BY DEF EndOf
  <1>2. ASSUME NEW k \in 0 .. 3
        PROVE  \E f : Ending(k, f)
    <2> DEFINE g == [n \in 0 .. k |-> w[n]]
    <2>1. \A n \in 0 .. k : g[n] = IF n = 0 THEN 0 ELSE After(d, g[n - 1])
      <3> SUFFICES ASSUME NEW n \in 0 .. k
                   PROVE  g[n] = IF n = 0 THEN 0 ELSE After(d, g[n - 1])
        OBVIOUS
      <3>1. n \in 0 .. 3 /\ g[n] = w[n] /\ (n # 0 => n - 1 \in 0 .. k)
        BY <1>2
      <3>2. n # 0 => g[n - 1] = w[n - 1]
        BY <3>1
      <3>3. w[n] = IF n = 0 THEN 0 ELSE After(d, w[n - 1])
        <4> HIDE DEF A1, A2, A3
        <4>1. w[0] = 0 /\ w[1] = A1 /\ w[2] = A2 /\ w[3] = A3
          OBVIOUS
        <4>2. w[1] = After(d, w[0]) /\ w[2] = After(d, w[1]) /\ w[3] = After(d, w[2])
          BY <4>1 DEF A1, A2, A3
        <4> HIDE DEF w
        <4>3. n = 0 \/ n = 1 \/ n = 2 \/ n = 3
          BY <3>1
        <4>. QED  BY <4>1, <4>2, <4>3
      <3> HIDE DEF g, w
      <3>. QED  BY <3>1, <3>2, <3>3
    <2>2. g = [n \in 0 .. k |-> IF n = 0 THEN 0 ELSE After(d, g[n - 1])]
      <3>1. g = [n \in 0 .. k |-> g[n]]
        OBVIOUS
      <3> HIDE DEF g
      <3>. QED  BY <2>1, <3>1
    <2> HIDE DEF g
    <2>. QED  BY <2>2
  <1>3. ASSUME NEW k \in 0 .. 3
        PROVE  Ending(k, CHOOSE f : Ending(k, f))
    <2> HIDE DEF Ending
    <2>. QED  BY <1>2, <1>3
  <1> DEFINE F(k) == CHOOSE f : Ending(k, f)
  <1>4. \A k \in 0 .. 3 : F(k) = [n \in 0 .. k |-> IF n = 0 THEN 0 ELSE After(d, F(k)[n - 1])]
    BY <1>3
  <1> HIDE DEF F
  <1>5. \A k \in 0 .. 3 : \A n \in 0 .. k : F(k)[n] = IF n = 0 THEN 0 ELSE After(d, F(k)[n - 1])
    BY <1>4
  <1>6. \A k \in 0 .. 3 : /\ F(k)[0] = 0
                          /\ k >= 1 => F(k)[1] = A1
                          /\ k >= 2 => F(k)[2] = A2
                          /\ k >= 3 => F(k)[3] = A3
    <2> SUFFICES ASSUME NEW k \in 0 .. 3
                 PROVE  /\ F(k)[0] = 0
                        /\ k >= 1 => F(k)[1] = A1
                        /\ k >= 2 => F(k)[2] = A2
                        /\ k >= 3 => F(k)[3] = A3
      OBVIOUS
    <2>1. F(k)[0] = 0
      BY <1>5
    <2>2. k >= 1 => F(k)[1] = After(d, F(k)[0])
      BY <1>5
    <2>3. k >= 2 => F(k)[2] = After(d, F(k)[1])
      BY <1>5
    <2>4. k >= 3 => F(k)[3] = After(d, F(k)[2])
      BY <1>5
    <2>. QED  BY <2>1, <2>2, <2>3, <2>4
  <1>7. \A k \in 0 .. 3 : EndOf(d, k) = F(k)[k]
    BY <1>1 DEF F
  <1> HIDE DEF A1, A2, A3
  <1>8. EndOf(d, 0) = 0 /\ EndOf(d, 1) = A1 /\ EndOf(d, 2) = A2 /\ EndOf(d, 3) = A3
    BY <1>6, <1>7
  <1>9. A1 = After(d, 0) /\ A2 = After(d, A1) /\ A3 = After(d, A2)
    BY DEF A1, A2, A3
  <1>10. \A k \in 1 .. 3 : k = 1 \/ k = 2 \/ k = 3
    OBVIOUS
  <1>. QED  BY <1>8, <1>9, <1>10

(* An instruction has at most three operands, and each is checked.         *)
LEMMA KindsFacts ==
    ASSUME NEW op \in ToSet(Opcodes)
    PROVE  /\ OperandCount(op) \in 0 .. 3
           /\ DOMAIN Kinds(op) = 1 .. OperandCount(op)
           /\ \A k \in 1 .. OperandCount(op) :
                 \E n \in DOMAIN CheckOrder(op) : CheckOrder(op)[n] = k
           /\ Opcodes[OpcodeOf(op) + 1] = op
  <1>1. \E n \in DOMAIN Opcodes : Opcodes[n] = op
    BY DEF ToSet
  <1>2. Opcodes[OpcodeOf(op) + 1] = op
    <2>1. DOMAIN Opcodes \subseteq Int
      BY DEF Opcodes
    <2>2. PICK n \in DOMAIN Opcodes :
             Opcodes[n] = op /\ n = CHOOSE k \in DOMAIN Opcodes : Opcodes[k] = op
      BY <1>1
    <2>3. OpcodeOf(op) = n - 1 /\ n \in Int
      BY <2>1, <2>2 DEF OpcodeOf
    <2>4. OpcodeOf(op) + 1 = n
      BY <2>3
    <2>. QED  BY <2>2, <2>4
  <1>3. op \in {"ILL", "UO", "BO", "UJ", "BJ", "CPI", "PUSH", "PUSHR", "PUSHH", "POP",
              "JMP", "CPB", "LDE", "LDB", "LDR", "STE", "STB", "STR", "CALL",
              "THROW", "RET"}
    BY <1>1 DEF Opcodes
  <1>4. /\ OperandCount(op) \in 0 .. 3
        /\ DOMAIN Kinds(op) = 1 .. OperandCount(op)
    <2>1. \/ Kinds(op) = << >>
          \/ \E a : Kinds(op) = << a >>
          \/ \E a, b : Kinds(op) = << a, b >>
          \/ \E a, b, c : Kinds(op) = << a, b, c >>
      <3>1. CASE op \in {"ILL", "POP", "THROW", "RET"}
        BY <3>1 DEF Kinds
      <3>2. CASE op \in {"UO", "PUSH", "PUSHR", "CALL"}
        BY <3>2 DEF Kinds
      <3>3. CASE op \in {"JMP", "PUSHH", "CPB", "UJ", "CPI"}
        BY <3>3 DEF Kinds
      <3>4. CASE op \in {"BO", "LDE", "STE", "BJ"}
        BY <3>4 DEF Kinds
      <3>5. CASE op \in {"LDB", "LDR", "STB", "STR"}
        BY <3>5 DEF Kinds
      <3>. QED  BY <1>3, <3>1, <3>2, <3>3, <3>4, <3>5
    <2>2. CASE Kinds(op) = << >>
      BY <2>2 DEF OperandCount
    <2>3. CASE \E a : Kinds(op) = << a >>
      BY <2>3 DEF OperandCount
    <2>4. CASE \E a, b : Kinds(op) = << a, b >>
      BY <2>4 DEF OperandCount
    <2>5. CASE \E a, b, c : Kinds(op) = << a, b, c >>
      BY <2>5 DEF OperandCount
    <2>. QED  BY <2>1, <2>2, <2>3, <2>4, <2>5
  <1>5. \A k \in 1 .. OperandCount(op) :
           \E n \in DOMAIN CheckOrder(op) : CheckOrder(op)[n] = k
    <2>1. CASE op = "LDE"
      <3>1. CheckOrder(op) = << 1, 3, 2 >> /\ OperandCount(op) = 3
        BY <2>1 DEF CheckOrder, OperandCount, Kinds
      <3>2. DOMAIN CheckOrder(op) = 1 .. 3
        BY <3>1
      <3>. QED  BY <3>1, <3>2
    <2>2. CASE op # "LDE"
      BY <1>4, <2>2 DEF CheckOrder
    <2>. QED  BY <2>1, <2>2
  <1>. QED  BY <1>2, <1>4, <1>5

(* All operands of an instruction can be read.                             *)
Whole(op, d) == \A k \in 0 .. OperandCount(op) : EndOf(d, k) # None

LEMMA WholeFacts ==
    ASSUME NEW op \in ToSet(Opcodes), NEW T, NEW d \in Seq(T), Whole(op, d)
    PROVE  /\ \A k \in 0 .. OperandCount(op) :
                 EndOf(d, k) \in 0 .. EndOf(d, OperandCount(op))
           /\ EndOf(d, OperandCount(op)) <= Len(d)
           /\ op # "ILL" => InstrSize(op, d) \in 1 .. Len(d) + 1
  <1>1. /\ OperandCount(op) = 0 \/ OperandCount(op) = 1 \/ OperandCount(op) = 2
           \/ OperandCount(op) = 3
        /\ Len(d) \in Nat
    BY KindsFacts
  <1>2. EndOf(d, 0) = 0
    BY EndOfFacts
  <1>3. \A k \in 1 .. 3 : k <= OperandCount(op) /\ EndOf(d, k - 1) \in 0 .. Len(d) =>
           EndOf(d, k) \in EndOf(d, k - 1) + 1 .. Len(d)
    <2> SUFFICES ASSUME NEW k \in 1 .. 3, k <= OperandCount(op),
                        EndOf(d, k - 1) \in 0 .. Len(d)
                 PROVE  EndOf(d, k) \in EndOf(d, k - 1) + 1 .. Len(d)
      OBVIOUS
    <2>1. EndOf(d, k) = After(d, EndOf(d, k - 1)) /\ EndOf(d, k) # None
      BY <1>1, EndOfFacts DEF Whole
    <2>. QED  BY <2>1, AfterFacts
  <1>4. OperandCount(op) >= 1 => EndOf(d, 1) \in 1 .. Len(d)
    BY <1>1, <1>2, <1>3
  <1>5. OperandCount(op) >= 2 => EndOf(d, 2) \in EndOf(d, 1) + 1 .. Len(d)
    BY <1>1, <1>3, <1>4
  <1>6. OperandCount(op) >= 3 => EndOf(d, 3) \in EndOf(d, 2) + 1 .. Len(d)
    BY <1>1, <1>3, <1>4, <1>5
  <1>7. \A k \in 0 .. OperandCount(op) : k = 0 \/ k = 1 \/ k = 2 \/ k = 3
    BY <1>1
  <1>. QED  BY <1>1, <1>2, <1>4, <1>5, <1>6, <1>7 DEF InstrSize

(* An instruction is as long, and reads as the same, among other bytes     *)
(* after it.                                                               *)
LEMMA InstrSame ==
    ASSUME NEW op \in ToSet(Opcodes), NEW T, NEW d \in Seq(T), NEW e \in Seq(T),
           Len(d) = Len(e), Whole(op, d), op # "ILL",
           SameUpTo(d, e, InstrSize(op, d) - 1)
    PROVE  /\ InstrSize(op, e) = InstrSize(op, d)
           /\ InstrRead(op, e) = InstrRead(op, d)
  <1>1. /\ OperandCount(op) \in 0 .. 3 /\ Len(d) \in Nat
        /\ DOMAIN Kinds(op) = 1 .. OperandCount(op)
        /\ \A k \in 0 .. OperandCount(op) :
              EndOf(d, k) \in 0 .. EndOf(d, OperandCount(op))
        /\ EndOf(d, OperandCount(op)) <= Len(d)
        /\ InstrSize(op, d) - 1 = EndOf(d, OperandCount(op))
    <2>1. /\ OperandCount(op) \in 0 .. 3 /\ Len(d) \in Nat
          /\ DOMAIN Kinds(op) = 1 .. OperandCount(op)
      BY KindsFacts
    <2>2. /\ \A k \in 0 .. OperandCount(op) :
                EndOf(d, k) \in 0 .. EndOf(d, OperandCount(op))
          /\ EndOf(d, OperandCount(op)) <= Len(d)
      BY WholeFacts
    <2>3. EndOf(d, OperandCount(op)) \in Int
      BY <2>1, <2>2
    <2>. QED  BY <2>1, <2>2, <2>3 DEF InstrSize
  <1>2. ASSUME NEW k \in 1 .. OperandCount(op), EndOf(e, k - 1) = EndOf(d, k - 1)
        PROVE  /\ EndOf(e, k) = EndOf(d, k)
               /\ Param(op, e, k) = Param(op, d, k)
    <2>1. /\ EndOf(d, k - 1) \in 0 .. Len(d)
          /\ EndOf(d, k) \in 0 .. EndOf(d, OperandCount(op))
          /\ EndOf(d, k) = After(d, EndOf(d, k - 1))
          /\ EndOf(e, k) = After(e, EndOf(d, k - 1))
          /\ After(d, EndOf(d, k - 1)) # None
      <3>1. k \in 1 .. 3 /\ k - 1 \in 0 .. OperandCount(op) /\ k \in 0 .. OperandCount(op)
        BY <1>1
      <3>2. /\ EndOf(d, k) = After(d, EndOf(d, k - 1))
            /\ EndOf(e, k) = After(e, EndOf(e, k - 1))
        BY <3>1, EndOfFacts
      <3>. QED  BY <1>1, <1>2, <3>1, <3>2 DEF Whole
    <2>2. SameUpTo(d, e, After(d, EndOf(d, k - 1)))
      BY <1>1, <2>1 DEF SameUpTo
    <2>3. /\ After(e, EndOf(d, k - 1)) = After(d, EndOf(d, k - 1))
          /\ ReadMBUInt(Rest(e, EndOf(d, k - 1))) = ReadMBUInt(Rest(d, EndOf(d, k - 1)))
          /\ ReadMBInt(Rest(e, EndOf(d, k - 1))) = ReadMBInt(Rest(d, EndOf(d, k - 1)))
      BY <2>1, <2>2, OperandSame
    <2>4. Param(op, e, k) = Param(op, d, k)
      BY <1>2, <2>3 DEF Param
    <2>. QED  BY <2>1, <2>3, <2>4
  <1>3. EndOf(e, 0) = EndOf(d, 0)
    BY EndOfFacts
  <1>4. \A k \in 1 .. OperandCount(op) :
           EndOf(e, k) = EndOf(d, k) /\ Param(op, e, k) = Param(op, d, k)
    <2>1. \A k \in 1 .. OperandCount(op) : EndOf(e, k - 1) = EndOf(d, k - 1) =>
             EndOf(e, k) = EndOf(d, k) /\ Param(op, e, k) = Param(op, d, k)
      BY <1>2
    <2>2. OperandCount(op) >= 1 => EndOf(e, 1) = EndOf(d, 1)
      BY <1>1, <1>3, <2>1
    <2>3. OperandCount(op) >= 2 => EndOf(e, 2) = EndOf(d, 2)
      BY <1>1, <2>1, <2>2
    <2>4. \A k \in 1 .. OperandCount(op) : k = 1 \/ k = 2 \/ k = 3
      BY <1>1
    <2>. QED  BY <1>1, <1>3, <2>1, <2>2, <2>3, <2>4
  <1>5. EndOf(e, OperandCount(op)) = EndOf(d, OperandCount(op))
    BY <1>1, <1>3, <1>4
  <1>. QED  BY <1>1, <1>4, <1>5 DEF InstrSize, InstrRead

-----------------------------------------------------------------------------
(* The inductive invariant: the code is the instructions that were checked *)
(* and have bytes, one after the other, each with those of its object.     *)
Object(d) == \E T : d \in [1 .. MAX_INSTR_SIZE - 1 -> T]
Stands(c, in, at, d) ==
    /\ Object(d)
    /\ in.op \in ToSet(Opcodes) /\ in.op # "ILL"
    /\ Whole(in.op, d)
    /\ in = InstrRead(in.op, d)
    /\ at + InstrSize(in.op, d) <= Len(c)
    /\ c[at + 1] = OpcodeOf(in.op)
    /\ \A i \in 1 .. InstrSize(in.op, d) - 1 : c[at + 1 + i] = d[i]
Passes(c, in, from, to) ==
    IF in.op = "ILL" THEN to = from
    ELSE \E d : Stands(c, in, from, d) /\ to = from + InstrSize(in.op, d)
Walk(c, ins, start) ==
    /\ start \in [0 .. Len(ins) -> Nat]
    /\ start[0] = 0
    /\ start[Len(ins)] = Len(c)
    /\ \A n \in DOMAIN ins : Passes(c, ins[n], start[n - 1], start[n])
IInv ==
    /\ \E T : code \in Seq(T)
    /\ \E T : checked \in Seq(T)
    /\ \E start : Walk(code, checked, start)

LEMMA WiderSeq ==
    ASSUME NEW S, NEW T, S \subseteq T, NEW s \in Seq(S)
    PROVE  s \in Seq(T)
  <1>1. s \in [1 .. Len(s) -> T] /\ Len(s) \in Nat
    OBVIOUS
  <1>. QED  BY <1>1

LEMMA ConcatFacts ==
    ASSUME NEW S, NEW s \in Seq(S), NEW t \in Seq(S)
    PROVE  /\ s \o t \in Seq(S) /\ Len(s \o t) = Len(s) + Len(t)
           /\ \A i \in 1 .. Len(s) : (s \o t)[i] = s[i]
           /\ \A i \in 1 .. Len(t) : (s \o t)[Len(s) + i] = t[i]
  <1>1. Len(s) \in Nat /\ Len(t) \in Nat
    OBVIOUS
  <1>2. s \o t \in Seq(S) /\ Len(s \o t) = Len(s) + Len(t)
    OBVIOUS
  <1>3. \A i \in 1 .. Len(s) + Len(t) :
           (s \o t)[i] = IF i <= Len(s) THEN s[i] ELSE t[i - Len(s)]
    OBVIOUS
  <1>4. \A i \in 1 .. Len(t) : (s \o t)[Len(s) + i] = t[i]
    BY <1>1, <1>3
  <1>. QED  BY <1>1, <1>2, <1>3, <1>4

LEMMA SizesType == MAX_INSTR_SIZE \in Nat /\ MAX_INSTR_SIZE > 1
  BY GroupsAssumption DEF MAX_INSTR_SIZE

LEMMA ObjectFacts ==
    ASSUME NEW d, Object(d)
    PROVE  (\E T : d \in Seq(T)) /\ Len(d) = MAX_INSTR_SIZE - 1
  <1>1. PICK T : d \in [1 .. MAX_INSTR_SIZE - 1 -> T]
    BY DEF Object
  <1>2. MAX_INSTR_SIZE - 1 \in Nat
    BY SizesType
  <1>. QED  BY <1>1, <1>2

(* What stands in the code is what a walk finds there.                     *)
LEMMA FoundThere ==
    ASSUME NEW in, NEW at \in Nat, NEW d, NEW garbage, Stands(code, in, at, d)
    PROVE  /\ OpAt(at) = in.op
           /\ InstrSize(OpAt(at), DatAt(at, garbage)) = InstrSize(in.op, d)
           /\ InstrRead(OpAt(at), DatAt(at, garbage)) = in
  <1> DEFINE e == DatAt(at, garbage)
  <1>1. OpAt(at) = in.op
    BY KindsFacts DEF Stands, OpAt
  <1>2. e = [k \in 1 .. MAX_INSTR_SIZE - 1 |->
                IF at + 1 + k <= Len(code) THEN code[at + 1 + k] ELSE garbage]
    BY DEF DatAt
  <1> HIDE DEF e
  <1>3. PICK T : d \in [1 .. MAX_INSTR_SIZE - 1 -> T]
    BY DEF Stands, Object
  <1> DEFINE Both == T \cup {e[k] : k \in 1 .. MAX_INSTR_SIZE - 1}
  <1>4. MAX_INSTR_SIZE - 1 \in Nat
    BY SizesType
  <1>5. /\ d \in Seq(Both) /\ e \in Seq(Both)
        /\ Len(d) = MAX_INSTR_SIZE - 1 /\ Len(e) = MAX_INSTR_SIZE - 1
    <2>1. d \in [1 .. MAX_INSTR_SIZE - 1 -> Both] /\ e \in [1 .. MAX_INSTR_SIZE - 1 -> Both]
      BY <1>2, <1>3
    <2> HIDE DEF Both
    <2>. QED  BY <1>4, <2>1
  <1> HIDE DEF Both
  <1>6. InstrSize(in.op, d) \in 1 .. MAX_INSTR_SIZE
    BY <1>4, <1>5, WholeFacts, SizesType DEF Stands
  <1>7. SameUpTo(d, e, InstrSize(in.op, d) - 1)
    <2> SUFFICES ASSUME NEW i \in 1 .. InstrSize(in.op, d) - 1
                 PROVE  d[i] = e[i]
      BY DEF SameUpTo
    <2>1. i \in 1 .. MAX_INSTR_SIZE - 1
      BY <1>6, SizesType
    <2>2. at + InstrSize(in.op, d) <= Len(code) /\ code[at + 1 + i] = d[i]
      BY DEF Stands
    <2>3. at + 1 + i <= at + InstrSize(in.op, d)
      BY <1>6, SizesType
    <2>4. at + 1 + i <= Len(code)
      BY <1>6, <2>2, <2>3, SizesType
    <2>. QED  BY <1>2, <2>1, <2>2, <2>4
  <1>8. InstrSize(in.op, e) = InstrSize(in.op, d) /\ InstrRead(in.op, e) = InstrRead(in.op, d)
    BY <1>5, <1>7, InstrSame DEF Stands
  <1>. QED  BY <1>1, <1>8 DEF e, Stands

LEMMA InitIInv == Init => IInv
  <1> SUFFICES ASSUME Init PROVE IInv
    OBVIOUS
  <1>1. code = << >> /\ checked = << >>
    BY DEF Init
  <1>2. Walk(code, checked, [n \in 0 .. 0 |-> 0])
    BY <1>1 DEF Walk
  <1>. QED  BY <1>1, <1>2 DEF IInv

(* What is found in the code stays where it is when bytes are added.       *)
LEMMA PassesOn ==
    ASSUME NEW C, code \in Seq(C), code' \in Seq(C), Len(code) <= Len(code'),
           \A i \in 1 .. Len(code) : code'[i] = code[i],
           NEW one, NEW at \in Nat, NEW to, Passes(code, one, at, to)
    PROVE  Passes(code', one, at, to)
  <1>1. CASE one.op = "ILL"
    BY <1>1 DEF Passes
  <1>2. CASE one.op # "ILL"
    <2>1. PICK b : Stands(code, one, at, b) /\ to = at + InstrSize(one.op, b)
      BY <1>2 DEF Passes
    <2>2. InstrSize(one.op, b) \in Nat /\ InstrSize(one.op, b) >= 1
      <3>1. PICK B : b \in Seq(B)
        BY <2>1, ObjectFacts DEF Stands
      <3>2. one.op \in ToSet(Opcodes) /\ Whole(one.op, b)
        BY <2>1 DEF Stands
      <3>3. InstrSize(one.op, b) \in 1 .. Len(b) + 1 /\ Len(b) \in Nat
        BY <1>2, <3>1, <3>2, WholeFacts
      <3>. QED  BY <3>3
    <2>3. at + InstrSize(one.op, b) <= Len(code)
      BY <2>1 DEF Stands
    <2>4. Len(code) \in Nat /\ Len(code') \in Nat
      OBVIOUS
    <2>5. \A i \in 1 .. InstrSize(one.op, b) : at + i \in 1 .. Len(code)
      BY <2>2, <2>3, <2>4
    <2>6. at + InstrSize(one.op, b) <= Len(code')
      BY <2>2, <2>3, <2>4
    <2>7. code'[at + 1] = OpcodeOf(one.op)
      BY <2>1, <2>2, <2>5 DEF Stands
    <2>8. \A i \in 1 .. InstrSize(one.op, b) - 1 : code'[at + 1 + i] = b[i]
      <3> SUFFICES ASSUME NEW i \in 1 .. InstrSize(one.op, b) - 1
                   PROVE  code'[at + 1 + i] = b[i]
        OBVIOUS
      <3>1. i + 1 \in 1 .. InstrSize(one.op, b) /\ at + (i + 1) = at + 1 + i
        BY <2>2
      <3>2. code[at + 1 + i] = b[i]
        BY <2>1 DEF Stands
      <3>3. at + 1 + i \in 1 .. Len(code)
        BY <2>5, <3>1
      <3>. QED  BY <3>2, <3>3
    <2>9. Stands(code', one, at, b)
      BY <2>1, <2>6, <2>7, <2>8 DEF Stands
    <2>. QED  BY <1>2, <2>1, <2>9 DEF Passes
  <1>. QED  BY <1>1, <1>2

(* A walk goes on over one instruction more.                               *)
LEMMA WalkGoesOn ==
    ASSUME NEW C, code \in Seq(C), code' \in Seq(C), Len(code) <= Len(code'),
           \A i \in 1 .. Len(code) : code'[i] = code[i],
           NEW I, checked \in Seq(I), NEW in, checked' = Append(checked, in),
           IInv, Passes(code', in, Len(code), Len(code'))
    PROVE  IInv'
  <1>1. /\ checked' \in Seq(I \cup {in}) /\ Len(checked') = Len(checked) + 1
        /\ Len(checked) \in Nat
        /\ \A n \in 1 .. Len(checked) : checked'[n] = checked[n]
        /\ checked'[Len(checked) + 1] = in
    <2>1. checked \in Seq(I \cup {in}) /\ Len(checked) \in Nat
      <3>1. checked \in [1 .. Len(checked) -> I \cup {in}] /\ Len(checked) \in Nat
        OBVIOUS
      <3>. QED  BY <3>1
    <2>. QED  BY <2>1
  <1>2. PICK start : Walk(code, checked, start)
    BY DEF IInv
  <1>3. PICK N : N = Len(checked)
    OBVIOUS
  <1> DEFINE next == [n \in 0 .. N + 1 |-> IF n = N + 1 THEN Len(code') ELSE start[n]]
  <1>4. /\ N \in Nat /\ start \in [0 .. N -> Nat]
        /\ start[0] = 0 /\ start[N] = Len(code)
    BY <1>1, <1>2, <1>3 DEF Walk
  <1>5. /\ next \in [0 .. N + 1 -> Nat] /\ next[0] = 0 /\ next[N + 1] = Len(code')
        /\ \A n \in 0 .. N : next[n] = start[n]
    <2>1. Len(code') \in Nat
      OBVIOUS
    <2>. QED  BY <1>4, <2>1
  <1> HIDE DEF next
  <1>6. Len(checked') = N + 1 /\ DOMAIN checked' = 1 .. N + 1
    BY <1>1, <1>3
  <1>7. ASSUME NEW n \in DOMAIN checked'
        PROVE  Passes(code', checked'[n], next[n - 1], next[n])
    <2>1. CASE n \in 1 .. N
      <3>1. n \in DOMAIN checked /\ n - 1 \in 0 .. N /\ n \in 0 .. N
        BY <1>3, <1>4, <2>1
      <3>2. Passes(code, checked[n], start[n - 1], start[n])
        BY <1>2, <3>1 DEF Walk
      <3>3. start[n - 1] \in Nat
        BY <1>4, <3>1
      <3>4. Passes(code', checked[n], start[n - 1], start[n])
        BY <3>2, <3>3, PassesOn
      <3>5. checked'[n] = checked[n] /\ next[n - 1] = start[n - 1] /\ next[n] = start[n]
        BY <1>1, <1>3, <1>5, <2>1, <3>1
      <3>. QED  BY <3>4, <3>5
    <2>2. CASE n = N + 1
      <3>1. n - 1 = N /\ N \in 0 .. N
        BY <1>4, <2>2
      <3>2. checked'[n] = in /\ next[n - 1] = Len(code) /\ next[n] = Len(code')
        BY <1>1, <1>3, <1>4, <1>5, <2>2, <3>1
      <3>. QED  BY <3>2
    <2>3. n \in 1 .. N \/ n = N + 1
      BY <1>4, <1>6
    <2>. QED  BY <2>1, <2>2, <2>3
  <1>8. Walk(code', checked', next)
    BY <1>5, <1>6, <1>7 DEF Walk
  <1>. QED  BY <1>1, <1>8 DEF IInv

(* An instruction accepted adds itself to the walk, or, without bytes, is  *)
(* passed over.                                                            *)
LEMMA StepIInv == IInv /\ [Next]_vars => IInv'
  <1> SUFFICES ASSUME IInv, [Next]_vars PROVE IInv'
    OBVIOUS
  <1>1. CASE UNCHANGED << code, checked >>
    BY <1>1 DEF IInv
  <1>2. ASSUME NEW in \in Given, NEW garbage \in Garbage,
               Verdict(in.op, Dat(in, garbage)) = OK,
               code' = code \o SubSeq(<< OpcodeOf(in.op) >> \o Dat(in, garbage), 1,
                                      InstrSize(in.op, Dat(in, garbage))),
               checked' = Append(checked, InstrRead(in.op, Dat(in, garbage)))
        PROVE  IInv'
    <2>1. PICK op, d : op = in.op /\ d = Dat(in, garbage)
      OBVIOUS
    <2>2. op \in ToSet(Opcodes)
      BY <2>1, GivenAssumption
    <2>3. MAX_INSTR_SIZE - 1 \in Nat
      BY SizesType
    <2>4. Object(d)
      <3> DEFINE T == {d[k] : k \in 1 .. MAX_INSTR_SIZE - 1}
      <3>1. \E bytes : d = [k \in 1 .. MAX_INSTR_SIZE - 1 |->
                               IF k <= Len(bytes) THEN bytes[k] ELSE garbage]
        BY <2>1 DEF Dat
      <3>2. d \in [1 .. MAX_INSTR_SIZE - 1 -> T]
        BY <3>1
      <3>. QED  BY <3>2 DEF Object
    <2>5. PICK D : d \in Seq(D)
      BY <2>4, ObjectFacts
    <2>6. Len(d) = MAX_INSTR_SIZE - 1
      BY <2>4, ObjectFacts
    <2>7. Whole(op, d)
      <3>1. EndOf(d, 0) # None
        BY EndOfFacts DEF None
      <3>2. \A n \in DOMAIN CheckOrder(op) : EndOf(d, CheckOrder(op)[n]) # None
        <4> SUFFICES ASSUME NEW n \in DOMAIN CheckOrder(op),
                            EndOf(d, CheckOrder(op)[n]) = None
                     PROVE  FALSE
          OBVIOUS
        <4>1. \E wrong : n \in wrong /\
                 Verdict(op, d) = IF wrong = {} THEN OK
                                  ELSE IF EndOf(d, CheckOrder(op)[Min(wrong)]) = None
                                  THEN "EndOfFile" ELSE "Refused"
          BY DEF Verdict
        <4>. QED  BY <1>2, <2>1, <4>1 DEF OK
      <3>3. \A k \in 1 .. OperandCount(op) : EndOf(d, k) # None
        BY <2>2, <3>2, KindsFacts
      <3>. QED  BY <2>2, <3>1, <3>3, KindsFacts DEF Whole
    <2>8. PICK size : size = InstrSize(op, d)
      OBVIOUS
    <2>9. size \in 0 .. Len(d) + 1 /\ Len(d) \in Nat /\ (op # "ILL" => size >= 1)
          /\ (op = "ILL" => size = 0)
      <3>1. Len(d) \in Nat
        BY <2>5
      <3>2. CASE op = "ILL"
        BY <2>8, <3>1, <3>2 DEF InstrSize
      <3>3. CASE op # "ILL"
        <4>1. InstrSize(op, d) \in 1 .. Len(d) + 1
          BY <2>2, <2>5, <2>7, <3>3, WholeFacts
        <4>. QED  BY <2>8, <3>1, <3>3, <4>1
      <3>. QED  BY <3>2, <3>3
    <2>10. PICK bytes : bytes = SubSeq(<< OpcodeOf(op) >> \o d, 1, size)
      OBVIOUS
    <2>11. /\ Len(bytes) = size
           /\ size >= 1 => bytes[1] = OpcodeOf(op)
           /\ \A i \in 1 .. size - 1 : bytes[i + 1] = d[i]
           /\ bytes \in Seq(D \cup {OpcodeOf(op)})
      <3> DEFINE E == D \cup {OpcodeOf(op)}
      <3>1. << OpcodeOf(op) >> \in Seq(E) /\ d \in Seq(E)
        <4>1. D \subseteq E
          OBVIOUS
        <4>2. << OpcodeOf(op) >> \in Seq(E)
          OBVIOUS
        <4> HIDE DEF E
        <4>. QED  BY <2>5, <4>1, <4>2, WiderSeq
      <3>2. PICK one, all : one = << OpcodeOf(op) >> /\ all = one \o d
        OBVIOUS
      <3>3. one \in Seq(E) /\ Len(one) = 1 /\ one[1] = OpcodeOf(op)
        BY <3>1, <3>2
      <3> HIDE DEF E
      <3>4. /\ all \in Seq(E) /\ Len(all) = 1 + Len(d) /\ all[1] = OpcodeOf(op)
            /\ \A i \in 1 .. Len(d) : all[1 + i] = d[i]
        <4>1. one \o d \in Seq(E) /\ Len(one \o d) = Len(one) + Len(d)
          BY <3>1, <3>3, ConcatFacts
        <4>2. \A i \in 1 .. Len(one) : (one \o d)[i] = one[i]
          BY <3>1, <3>3, ConcatFacts
        <4>3. \A i \in 1 .. Len(d) : (one \o d)[Len(one) + i] = d[i]
          <5>1. one \in Seq(E) /\ d \in Seq(E)
            BY <3>1, <3>3
          <5>. QED  BY ONLY <5>1, ConcatFacts
        <4>. QED  BY <3>2, <3>3, <4>1, <4>2, <4>3
      <3>5. bytes = SubSeq(all, 1, size)
        BY <2>10, <3>2
      <3>6. /\ bytes \in Seq(E) /\ Len(bytes) = size
            /\ \A i \in 1 .. size : bytes[i] = all[i]
        BY <2>9, <3>4, <3>5
      <3>7. \A i \in 1 .. size - 1 : bytes[i + 1] = d[i]
        <4> SUFFICES ASSUME NEW i \in 1 .. size - 1 PROVE bytes[i + 1] = d[i]
          OBVIOUS
        <4>1. i + 1 \in 1 .. size /\ i \in 1 .. Len(d) /\ i + 1 = 1 + i
          BY <2>9
        <4>. QED  BY <3>4, <3>6, <4>1
      <3>. QED  BY <2>9, <3>4, <3>6, <3>7 DEF E
    <2>12. PICK C : code \in Seq(C) /\ bytes \in Seq(C)
      <3>1. PICK A : code \in Seq(A)
        BY DEF IInv
      <3>2. PICK B : bytes \in Seq(B)
        BY <2>11
      <3>3. A \subseteq A \cup B /\ B \subseteq A \cup B
        OBVIOUS
      <3>4. code \in Seq(A \cup B) /\ bytes \in Seq(A \cup B)
        BY <3>1, <3>2, <3>3, WiderSeq
      <3>. QED  BY <3>4
    <2>13. code' = code \o bytes
      BY <1>2, <2>1, <2>8, <2>10
    <2>14. /\ code' \in Seq(C) /\ Len(code') = Len(code) + size
           /\ Len(code) \in Nat /\ size \in Nat
           /\ \A i \in 1 .. Len(code) : code'[i] = code[i]
           /\ \A i \in 1 .. size : code'[Len(code) + i] = bytes[i]
      <3>1. size \in Nat
        BY <2>9
      <3>2. code \in Seq(C) /\ bytes \in Seq(C) /\ Len(bytes) = size
        BY <2>11, <2>12
      <3>3. PICK before : before = code
        OBVIOUS
      <3>4. before \in Seq(C)
        BY <3>2, <3>3
      <3>5. before \o bytes \in Seq(C) /\ Len(before \o bytes) = Len(before) + Len(bytes)
        BY <3>2, <3>4, ConcatFacts
      <3>6. \A i \in 1 .. Len(before) : (before \o bytes)[i] = before[i]
        BY <3>2, <3>4, ConcatFacts
      <3>7. \A i \in 1 .. Len(bytes) : (before \o bytes)[Len(before) + i] = bytes[i]
        BY <3>2, <3>4, ConcatFacts
      <3>8. Len(before) \in Nat
        BY <3>4
      <3>9. code' = before \o bytes
        BY <2>13, <3>3
      <3>10. Len(bytes) = size
        BY <3>2
      <3>. QED  BY ONLY <3>1, <3>3, <3>5, <3>6, <3>7, <3>8, <3>9, <3>10
    <2>15. PICK in2 : in2 = InstrRead(op, d)
      OBVIOUS
    <2>16. in2.op = op
      BY <2>15 DEF InstrRead
    <2>17. Passes(code', in2, Len(code), Len(code'))
      <3>1. CASE op = "ILL"
        BY <2>9, <2>14, <2>16, <3>1 DEF Passes
      <3>2. CASE op # "ILL"
        <4>1. code'[Len(code) + 1] = OpcodeOf(op)
          <5>1. size >= 1
            BY <2>9, <3>2
          <5>2. 1 \in 1 .. size
            BY <2>14, <5>1
          <5>. QED  BY <2>11, <2>14, <5>1, <5>2
        <4>2. \A i \in 1 .. size - 1 : code'[Len(code) + 1 + i] = d[i]
          <5> SUFFICES ASSUME NEW i \in 1 .. size - 1
                       PROVE  code'[Len(code) + 1 + i] = d[i]
            OBVIOUS
          <5>1. i + 1 \in 1 .. size /\ Len(code) + (i + 1) = Len(code) + 1 + i
            BY <2>14
          <5>2. code'[Len(code) + (i + 1)] = bytes[i + 1] /\ bytes[i + 1] = d[i]
            BY <2>11, <2>14, <5>1
          <5>. QED  BY <5>1, <5>2
        <4>3. Len(code) + size <= Len(code')
          BY <2>14
        <4>4. Stands(code', in2, Len(code), d)
          BY <2>2, <2>4, <2>7, <2>8, <2>15, <2>16, <3>2, <4>1, <4>2, <4>3 DEF Stands
        <4>5. Len(code') = Len(code) + InstrSize(in2.op, d)
          BY <2>8, <2>14, <2>16
        <4>. QED  BY <2>16, <3>2, <4>4, <4>5 DEF Passes
      <3>. QED  BY <3>1, <3>2
    <2>18. PICK I : checked \in Seq(I)
      BY DEF IInv
    <2>19. checked' = Append(checked, in2)
      BY <1>2, <2>1, <2>15
    <2>20. Len(code) <= Len(code')
      BY <2>14
    <2>. QED  BY <2>12, <2>14, <2>17, <2>18, <2>19, <2>20, WalkGoesOn
  <1>3. CASE Next
    <2>1. PICK in \in Given : AddProcInstr(in)
      BY <1>3 DEF Next
    <2>2. PICK garbage \in Garbage :
             IF Verdict(in.op, Dat(in, garbage)) # OK
             THEN UNCHANGED << code, given, checked >>
             ELSE /\ code' = code \o SubSeq(<< OpcodeOf(in.op) >> \o Dat(in, garbage),
                                            1, InstrSize(in.op, Dat(in, garbage)))
                  /\ checked' = Append(checked, InstrRead(in.op, Dat(in, garbage)))
      BY <2>1 DEF AddProcInstr
    <2>3. CASE Verdict(in.op, Dat(in, garbage)) # OK
      BY <1>1, <2>2, <2>3
    <2>4. CASE Verdict(in.op, Dat(in, garbage)) = OK
      BY <1>2, <2>2, <2>4
    <2>. QED  BY <2>3, <2>4
  <1>4. CASE UNCHANGED vars
    BY <1>1, <1>4 DEF vars
  <1>. QED  BY <1>3, <1>4

(* Reading a function defined by recursion up to a bound: it is the one    *)
(* function that satisfies its definition.                                 *)
LEMMA WalkFound ==
    ASSUME IInv, NEW garbage
    PROVE  LET start[n \in 0 .. Len(checked)] ==
                   IF n = 0 THEN 0
                   ELSE IF checked[n].op = "ILL" THEN start[n - 1]
                   ELSE start[n - 1] + InstrSize(OpAt(start[n - 1]),
                                                 DatAt(start[n - 1], garbage))
           IN  /\ start[Len(checked)] = Len(code)
               /\ \A n \in DOMAIN checked : checked[n].op # "ILL" =>
                   InstrRead(OpAt(start[n - 1]), DatAt(start[n - 1], garbage))
                       = checked[n]
  <1>1. PICK N : N = Len(checked)
    OBVIOUS
  <1>2. N \in Nat /\ DOMAIN checked = 1 .. N
    <2>1. PICK T : checked \in Seq(T)
      BY DEF IInv
    <2>. QED  BY <1>1, <2>1
  <1>3. PICK start : Walk(code, checked, start)
    BY DEF IInv
  <1>4. /\ start \in [0 .. N -> Nat] /\ start[0] = 0 /\ start[N] = Len(code)
    BY <1>1, <1>3 DEF Walk
  <1> DEFINE Size(at) == InstrSize(OpAt(at), DatAt(at, garbage))
             Found(at) == InstrRead(OpAt(at), DatAt(at, garbage))
             Moved(n, at) == IF checked[n].op = "ILL" THEN at ELSE at + Size(at)
             Walks(f) == f = [n \in 0 .. N |-> IF n = 0 THEN 0
                                               ELSE Moved(n, f[n - 1])]
             F == CHOOSE f : Walks(f)
  <1>5. \A n \in 1 .. N : /\ start[n] = Moved(n, start[n - 1])
                          /\ checked[n].op # "ILL" => Found(start[n - 1]) = checked[n]
    <2> SUFFICES ASSUME NEW n \in 1 .. N
                 PROVE  /\ start[n] = Moved(n, start[n - 1])
                        /\ checked[n].op # "ILL" => Found(start[n - 1]) = checked[n]
      OBVIOUS
    <2>1. Passes(code, checked[n], start[n - 1], start[n])
      BY <1>2, <1>3 DEF Walk
    <2>2. start[n - 1] \in Nat
      BY <1>2, <1>4
    <2>3. CASE checked[n].op = "ILL"
      BY <2>1, <2>3 DEF Passes
    <2>4. CASE checked[n].op # "ILL"
      <3>1. PICK d : /\ Stands(code, checked[n], start[n - 1], d)
                     /\ start[n] = start[n - 1] + InstrSize(checked[n].op, d)
        BY <2>1, <2>4 DEF Passes
      <3>2. /\ Size(start[n - 1]) = InstrSize(checked[n].op, d)
            /\ Found(start[n - 1]) = checked[n]
        BY <2>2, <3>1, FoundThere
      <3>. QED  BY <2>4, <3>1, <3>2
    <2>. QED  BY <2>3, <2>4
  <1> HIDE DEF Size, Found, Moved
  <1>6. Walks(start)
    <2>1. \A n \in 0 .. N : start[n] = IF n = 0 THEN 0
                                       ELSE Moved(n, start[n - 1])
      BY <1>2, <1>4, <1>5
    <2>2. start = [n \in 0 .. N |-> start[n]]
      BY <1>4
    <2>. QED  BY <2>1, <2>2
  <1>7. Walks(F)
    <2> HIDE DEF Walks
    <2>. QED  BY <1>6
  <1> HIDE DEF F
  <1>8. \A n \in 0 .. N : F[n] = IF n = 0 THEN 0 ELSE Moved(n, F[n - 1])
    BY <1>7
  <1>9. \A n \in 0 .. N : F[n] = start[n]
    <2> DEFINE S == {n \in Nat : n \in 0 .. N => F[n] = start[n]}
    <2>1. 0 \in S
      BY <1>2, <1>4, <1>8
    <2>2. ASSUME NEW n \in Nat, n \in S
          PROVE  n + 1 \in S
      <3> SUFFICES ASSUME n + 1 \in 0 .. N PROVE F[n + 1] = start[n + 1]
        OBVIOUS
      <3>1. n \in 0 .. N /\ n + 1 \in 1 .. N /\ (n + 1) - 1 = n
        BY <1>2
      <3>2. F[n] = start[n]
        BY <2>2, <3>1
      <3>3. F[n + 1] = Moved(n + 1, F[n])
        BY <1>8, <3>1
      <3>4. start[n + 1] = Moved(n + 1, start[n])
        BY <1>5, <3>1
      <3>. QED  BY <3>2, <3>3, <3>4
    <2> HIDE DEF S
    <2>3. Nat \subseteq S
      <3> SUFFICES ASSUME Nat \ S # {} PROVE FALSE
        OBVIOUS
      <3>1. PICK n \in Nat \ S : \A k \in Nat \ S : n <= k
        BY LeastOf
      <3>2. n - 1 \in Nat /\ n - 1 \in S
        BY <2>1, <3>1
      <3>. QED  BY <2>2, <3>1, <3>2
    <2>. QED  BY <1>2, <2>3 DEF S
  <1>10. F[N] = Len(code) /\ \A n \in 1 .. N :
                                checked[n].op # "ILL" => Found(F[n - 1]) = checked[n]
    <2>1. \A n \in 1 .. N : n - 1 \in 0 .. N
      BY <1>2
    <2>. QED  BY <1>2, <1>4, <1>5, <1>9, <2>1
  <1>11. F = CHOOSE f : f = [n \in 0 .. Len(checked) |->
                                IF n = 0 THEN 0
                                ELSE IF checked[n].op = "ILL" THEN f[n - 1]
                                ELSE f[n - 1] + InstrSize(OpAt(f[n - 1]),
                                                          DatAt(f[n - 1], garbage))]
    BY <1>1 DEF F, Size, Moved
  <1>. QED  BY <1>1, <1>2, <1>10, <1>11 DEF Found

-----------------------------------------------------------------------------
THEOREM Invariance == Spec => []IInv
  <1>. QED  BY InitIInv, StepIInv, PTL DEF Spec

(* Whoever walks the code finds the instructions that were checked, with   *)
(* the operands that were checked, and nothing between or after them.      *)
THEOREM WalkedAsChecked == Spec => []WalkedIsChecked
  <1>1. IInv => WalkedIsChecked
    BY WalkFound DEF WalkedIsChecked
  <1>. QED  BY <1>1, Invariance, PTL

-----------------------------------------------------------------------------
(* What the readers make of bytes is the number they begin with.           *)
LEMMA NumberIn ==
    ASSUME NEW bytes \in Seq(Nat), SizeIn(bytes) # 0
    PROVE  LET f == SubSeq(bytes, 1, SizeIn(bytes))
           IN  /\ IsNumber(f) /\ Len(f) = SizeIn(bytes)
               /\ \A k \in 1 .. Len(f) : f[k] = bytes[k]
               /\ ReadMBUInt(bytes) = ValueOf(f) /\ ReadMBInt(bytes) = IntOf(f)
  <1>1. PICK f, n : f = SubSeq(bytes, 1, n) /\ n = SizeIn(bytes)
    OBVIOUS
  <1>2. /\ n \in 1 .. Len(bytes) /\ Len(bytes) \in Nat /\ GROUPS \in Nat /\ GROUPS >= 3
        /\ n \in Ends(bytes) /\ \A k \in Ends(bytes) : n <= k
    BY <1>1, SizeFacts, GroupsAssumption
  <1>3. f \in Seq(Nat) /\ Len(f) = n /\ \A k \in 1 .. n : f[k] = bytes[k]
    BY <1>1, <1>2
  <1>4. n <= GROUPS
    <2> SUFFICES ASSUME n > GROUPS PROVE FALSE
      BY <1>2
    <2>1. GROUPS \in 1 .. Len(bytes)
      BY <1>2
    <2>2. GROUPS \in Ends(bytes)
      BY <2>1 DEF Ends
    <2>. QED  BY <1>2, <2>2
  <1>5. More \in Nat
    BY GroupFacts DEF More
  <1>6. ASSUME NEW k \in 1 .. n - 1 PROVE f[k] >= More
    <2>1. k \in 1 .. Len(bytes) /\ k \in 1 .. n /\ ~(n <= k)
      BY <1>2
    <2>2. k \notin Ends(bytes)
      BY <1>2, <2>1
    <2>3. ~(bytes[k] < More) /\ bytes[k] \in Nat
      BY <2>1, <2>2 DEF Ends
    <2>. QED  BY <1>3, <1>5, <2>1, <2>3
  <1>7. n = GROUPS \/ f[n] < More
    BY <1>2, <1>3 DEF Ends
  <1>8. IsNumber(f)
    BY <1>2, <1>3, <1>4, <1>6, <1>7 DEF IsNumber
  <1>9. ReadMBUInt(bytes) = ValueOf(f)
    BY <1>1 DEF ReadMBUInt
  <1>10. ReadMBInt(bytes) = IntOf(f)
    BY <1>1, <1>3, <1>9 DEF ReadMBInt, IntOf
  <1>. QED  BY <1>1, <1>3, <1>8, <1>9, <1>10

(* Bytes that all say another follows are not a number.                    *)
LEMMA NoEnd ==
    ASSUME NEW bytes \in Seq(Nat), Len(bytes) < GROUPS,
           \A k \in 1 .. Len(bytes) : bytes[k] >= More
    PROVE  SizeIn(bytes) = 0
  <1>1. Len(bytes) \in Nat /\ GROUPS \in Nat /\ More \in Nat
    BY GroupsAssumption, GroupFacts DEF More
  <1>2. \A k \in 1 .. Len(bytes) : k # GROUPS /\ ~(bytes[k] < More)
    <2> SUFFICES ASSUME NEW k \in 1 .. Len(bytes)
                 PROVE  k # GROUPS /\ ~(bytes[k] < More)
      OBVIOUS
    <2>1. bytes[k] \in Nat /\ bytes[k] >= More
      OBVIOUS
    <2>. QED  BY <1>1, <2>1
  <1>3. Ends(bytes) = {}
    BY <1>2 DEF Ends
  <1>. QED  BY <1>3, SizeFacts

(* A number among other bytes.                                             *)
LEMMA NumberFirst ==
    ASSUME NEW bytes \in Seq(Nat), NEW e, IsNumber(e), Len(e) <= Len(bytes),
           \A k \in 1 .. Len(e) : bytes[k] = e[k]
    PROVE  /\ SizeIn(bytes) = Len(e)
           /\ ReadMBUInt(bytes) = ValueOf(e) /\ ReadMBInt(bytes) = IntOf(e)
  <1>1. PICK n \in Nat : /\ n = Len(e) /\ n \in 1 .. GROUPS /\ e \in Seq(Nat)
                         /\ Len(bytes) \in Nat /\ GROUPS \in Nat /\ More \in Nat
    BY GroupsAssumption, GroupFacts DEF More, IsNumber
  <1>2. n \in Ends(bytes)
    BY <1>1 DEF IsNumber, Ends
  <1>3. \A k \in 1 .. n - 1 : k \notin Ends(bytes)
    <2> SUFFICES ASSUME NEW k \in 1 .. n - 1 PROVE k \notin Ends(bytes)
      OBVIOUS
    <2>1. k # GROUPS /\ bytes[k] = e[k] /\ e[k] >= More /\ k \in 1 .. Len(bytes)
      BY <1>1 DEF IsNumber
    <2>2. bytes[k] \in Nat
      BY <2>1
    <2>. QED  BY <1>1, <2>1, <2>2 DEF Ends
  <1>4. SizeIn(bytes) # 0
    BY <1>2, SizeFacts
  <1>5. PICK m \in Nat : m = SizeIn(bytes) /\ m \in Ends(bytes) /\ m <= n
    BY <1>1, <1>2, <1>4, SizeFacts
  <1>6. m = n
    <2>1. m \in 1 .. Len(bytes)
      BY <1>5 DEF Ends
    <2>. QED  BY <1>1, <1>3, <1>5, <2>1
  <1>7. PICK f : f = SubSeq(bytes, 1, SizeIn(bytes))
    OBVIOUS
  <1>8. /\ IsNumber(f) /\ Len(f) = n /\ \A k \in 1 .. n : f[k] = bytes[k]
        /\ ReadMBUInt(bytes) = ValueOf(f) /\ ReadMBInt(bytes) = IntOf(f)
    BY <1>4, <1>5, <1>6, <1>7, NumberIn
  <1>9. f = e
    <2>1. f \in Seq(Nat) /\ e \in Seq(Nat) /\ Len(f) = Len(e)
      BY <1>1, <1>8 DEF IsNumber
    <2>2. \A k \in 1 .. Len(f) : f[k] = e[k]
      BY <1>1, <1>8
    <2>. QED  BY <2>1, <2>2, SeqEqual
  <1>. QED  BY <1>1, <1>5, <1>6, <1>8, <1>9

(* Reading, at the place where they were written, the bytes e of a number  *)
(* or those of an integer that do not end; the object may end before them. *)
Placed(d, end, e) ==
    /\ d \in Seq(Nat) /\ end \in 0 .. Len(d) /\ e \in Seq(Nat)
    /\ \A k \in 1 .. Len(e) : end + k <= Len(d) => d[end + k] = e[k]

(* What is left of the bytes after an operand.                             *)
LEMMA RestFacts ==
    ASSUME NEW d, NEW end, NEW e, Placed(d, end, e)
    PROVE  /\ Rest(d, end) \in Seq(Nat) /\ Len(Rest(d, end)) = Len(d) - end
           /\ Len(d) \in Nat /\ end \in Nat
           /\ \A k \in 1 .. Len(e) : k <= Len(d) - end => Rest(d, end)[k] = e[k]
           /\ After(d, end) = IF SizeIn(Rest(d, end)) = 0 THEN None
                              ELSE end + SizeIn(Rest(d, end))
  <1>1. d \in Seq(Nat) /\ end \in 0 .. Len(d) /\ Len(d) \in Nat /\ Len(e) \in Nat
    BY DEF Placed
  <1>2. /\ Rest(d, end) \in Seq(Nat) /\ Len(Rest(d, end)) = Len(d) - end
        /\ \A k \in 1 .. Len(d) - end : Rest(d, end)[k] = d[end + k]
    BY <1>1 DEF Rest
  <1>3. ASSUME NEW k \in 1 .. Len(e), k <= Len(d) - end
        PROVE  Rest(d, end)[k] = e[k]
    <2>1. k \in 1 .. Len(d) - end /\ end + k <= Len(d)
      BY <1>1, <1>3
    <2>. QED  BY <1>2, <2>1 DEF Placed
  <1>4. end # None
    BY <1>1 DEF None
  <1>. QED  BY <1>1, <1>2, <1>3, <1>4 DEF After

(* A number that stands in the bytes is found there.                       *)
LEMMA NumberThere ==
    ASSUME NEW d, NEW end, NEW e, Placed(d, end, e), IsNumber(e),
           end + Len(e) <= Len(d)
    PROVE  /\ After(d, end) = end + Len(e)
           /\ ReadMBUInt(Rest(d, end)) = ValueOf(e)
           /\ ReadMBInt(Rest(d, end)) = IntOf(e)
  <1>1. Len(e) \in Nat /\ Len(e) # 0
    BY DEF IsNumber
  <1>2. /\ Rest(d, end) \in Seq(Nat) /\ Len(Rest(d, end)) = Len(d) - end
        /\ Len(d) \in Nat /\ end \in Nat
        /\ \A k \in 1 .. Len(e) : k <= Len(d) - end => Rest(d, end)[k] = e[k]
        /\ After(d, end) = IF SizeIn(Rest(d, end)) = 0 THEN None
                           ELSE end + SizeIn(Rest(d, end))
    BY RestFacts
  <1>3. Len(e) <= Len(Rest(d, end)) /\ \A k \in 1 .. Len(e) : Rest(d, end)[k] = e[k]
    BY <1>1, <1>2
  <1>4. /\ SizeIn(Rest(d, end)) = Len(e)
        /\ ReadMBUInt(Rest(d, end)) = ValueOf(e) /\ ReadMBInt(Rest(d, end)) = IntOf(e)
    BY <1>2, <1>3, NumberFirst
  <1>. QED  BY <1>1, <1>2, <1>4

(* A number that runs past the end of the bytes cannot be read.            *)
LEMMA CutOff ==
    ASSUME NEW d, NEW end, NEW e, Placed(d, end, e), Len(e) <= GROUPS,
           \A k \in 1 .. Len(e) - 1 : e[k] >= More,
           end + Len(e) > Len(d)
    PROVE  After(d, end) = None
  <1>1. Len(e) \in Nat /\ GROUPS \in Nat
    BY GroupsAssumption DEF Placed
  <1>2. /\ Rest(d, end) \in Seq(Nat) /\ Len(Rest(d, end)) = Len(d) - end
        /\ Len(d) \in Nat /\ end \in Nat /\ end <= Len(d)
        /\ \A k \in 1 .. Len(e) : k <= Len(d) - end => Rest(d, end)[k] = e[k]
        /\ After(d, end) = IF SizeIn(Rest(d, end)) = 0 THEN None
                           ELSE end + SizeIn(Rest(d, end))
    BY RestFacts
  <1>3. Len(Rest(d, end)) < GROUPS
    BY <1>1, <1>2
  <1>4. \A k \in 1 .. Len(Rest(d, end)) : Rest(d, end)[k] >= More
    <2> SUFFICES ASSUME NEW k \in 1 .. Len(Rest(d, end))
                 PROVE  Rest(d, end)[k] >= More
      OBVIOUS
    <2>1. k \in 1 .. Len(e) - 1 /\ k \in 1 .. Len(e) /\ k <= Len(d) - end
      BY <1>1, <1>2
    <2>. QED  BY <1>2, <2>1
  <1>. QED  BY <1>2, <1>3, <1>4, NoEnd

(* A jump whose last byte says that another follows is read into what      *)
(* comes after it; no value in range comes of that but one of Folded.      *)
LEMMA RunsOnThere ==
    ASSUME NEW d, NEW end, NEW e, NEW v, Placed(d, end, e), RunsOn(e, v),
           After(d, end) # None,
           ReadMBInt(Rest(d, end)) \in INSTR_OFFSET_MIN .. INSTR_OFFSET_MAX
    PROVE  Folded(v, ReadMBInt(Rest(d, end)))
  <1>1. PICK n \in Nat : /\ n = Len(e) /\ n < GROUPS /\ n >= 1
                         /\ \A k \in 1 .. n : e[k] >= More
    BY GroupsAssumption DEF RunsOn
  <1>2. PICK rest : rest = Rest(d, end)
    OBVIOUS
  <1>3. /\ rest \in Seq(Nat) /\ Len(rest) = Len(d) - end
        /\ Len(d) \in Nat /\ end \in Nat /\ SizeIn(rest) # 0
        /\ \A k \in 1 .. n : k <= Len(d) - end => rest[k] = e[k]
    BY <1>1, <1>2, RestFacts
  <1>4. end + n <= Len(d)
    <2> SUFFICES ASSUME end + n > Len(d) PROVE FALSE
      BY <1>1, <1>3
    <2>1. n <= GROUPS /\ \A k \in 1 .. n - 1 : e[k] >= More
      BY <1>1, GroupsAssumption
    <2>. QED  BY <1>1, <2>1, CutOff
  <1>5. PICK f : f = SubSeq(rest, 1, SizeIn(rest))
    OBVIOUS
  <1>6. /\ IsNumber(f) /\ Len(f) = SizeIn(rest) /\ \A k \in 1 .. Len(f) : f[k] = rest[k]
        /\ ReadMBInt(rest) = IntOf(f)
    BY <1>3, <1>5, NumberIn
  <1>7. Len(f) > n
    <2> SUFFICES ASSUME Len(f) <= n PROVE FALSE
      BY <1>1, <1>6 DEF IsNumber
    <2>1. Len(f) \in 1 .. n /\ Len(f) # GROUPS /\ Len(f) <= Len(d) - end
      BY <1>1, <1>3, <1>4, <1>6 DEF IsNumber
    <2>2. f[Len(f)] = e[Len(f)] /\ f[Len(f)] < More
      <3>1. PICK m \in 1 .. n : m = Len(f)
        BY <2>1
      <3>2. m \in 1 .. Len(f) /\ m <= Len(d) - end
        BY <2>1, <3>1
      <3>3. f[m] = rest[m]
        BY <1>6, <3>2
      <3>4. rest[m] = e[m]
        BY <1>3, <3>2
      <3>5. f[m] < More
        BY <1>6, <2>1, <3>1 DEF IsNumber
      <3>. QED  BY <3>1, <3>3, <3>4, <3>5
    <2>3. f[Len(f)] >= More /\ f[Len(f)] \in Nat /\ More \in Nat
      BY <1>1, <1>6, <2>1, <2>2, GroupFacts DEF IsNumber, More
    <2>. QED  BY <2>2, <2>3
  <1>8. \A k \in 1 .. Len(e) : f[k] = e[k]
    <2> SUFFICES ASSUME NEW k \in 1 .. n PROVE f[k] = e[k]
      BY <1>1
    <2>1. k \in 1 .. Len(f) /\ k <= Len(d) - end
      BY <1>1, <1>3, <1>4, <1>6, <1>7 DEF IsNumber
    <2>. QED  BY <1>3, <1>6, <2>1
  <1>9. Len(e) < Len(f)
    BY <1>1, <1>6, <1>7 DEF IsNumber
  <1>10. IntOf(f) \in INSTR_OFFSET_MIN .. INSTR_OFFSET_MAX
    BY <1>2, <1>6
  <1>11. Folded(v, IntOf(f))
    BY <1>6, <1>8, <1>9, <1>10, RunsOnFolds
  <1>. QED  BY <1>2, <1>6, <1>11

-----------------------------------------------------------------------------
(* The bytes of an instruction are those of its operands, one after the    *)
(* other.                                                                  *)
LEMMA Flattened ==
    ASSUME NEW n \in 0 .. 3, NEW T, NEW w \in [1 .. n -> T]
    PROVE  /\ n = 0 => FlattenSeq(w) = << >>
           /\ n = 1 => FlattenSeq(w) = w[1]
           /\ n = 2 => FlattenSeq(w) = w[1] \o w[2]
           /\ n = 3 => FlattenSeq(w) = (w[1] \o w[2]) \o w[3]
  <1>1. Len(w) = n /\ w \in Seq(T)
    OBVIOUS
  <1>2. CASE n = 0
    BY <1>1, <1>2 DEF FlattenSeq
  <1>3. CASE n # 0
    <2> DEFINE A1 == w[1]
               A2 == A1 \o w[2]
               A3 == A2 \o w[3]
               Flat(f) == f = [i \in 1 .. n |-> IF i = 1 THEN w[i] ELSE f[i - 1] \o w[i]]
               F == CHOOSE f : Flat(f)
               g == [i \in 1 .. n |-> IF i = 1 THEN A1 ELSE IF i = 2 THEN A2 ELSE A3]
    <2>1. FlattenSeq(w) = F[n]
      BY <1>1, <1>3 DEF FlattenSeq
    <2>2. Flat(g)
      <3>1. \A i \in 1 .. n : g[i] = IF i = 1 THEN w[i] ELSE g[i - 1] \o w[i]
        <4> SUFFICES ASSUME NEW i \in 1 .. n
                     PROVE  g[i] = IF i = 1 THEN w[i] ELSE g[i - 1] \o w[i]
          OBVIOUS
        <4>1. i = 1 \/ i = 2 \/ i = 3
          OBVIOUS
        <4>2. (1 \in 1 .. n => g[1] = A1) /\ (2 \in 1 .. n => g[2] = A2)
              /\ (3 \in 1 .. n => g[3] = A3)
          <5> HIDE DEF A1, A2, A3
          <5>. QED  OBVIOUS
        <4>3. (i = 2 => 1 \in 1 .. n /\ i - 1 = 1) /\ (i = 3 => 2 \in 1 .. n /\ i - 1 = 2)
          OBVIOUS
        <4> HIDE DEF g
        <4>4. CASE i = 1
          BY <4>2, <4>4
        <4>5. CASE i = 2
          BY <4>2, <4>3, <4>5
        <4>6. CASE i = 3
          BY <4>2, <4>3, <4>6
        <4>. QED  BY <4>1, <4>4, <4>5, <4>6
      <3>2. g = [i \in 1 .. n |-> g[i]]
        OBVIOUS
      <3> HIDE DEF g
      <3>. QED  BY <3>1, <3>2
    <2>3. Flat(F)
      <3> HIDE DEF Flat, g
      <3>. QED  BY <2>2
    <2> HIDE DEF F, g
    <2>4. \A i \in 1 .. n : F[i] = IF i = 1 THEN w[i] ELSE F[i - 1] \o w[i]
      BY <2>3
    <2> HIDE DEF Flat
    <2>5. F[1] = w[1]
      BY <1>3, <2>4
    <2>6. n >= 2 => F[2] = w[1] \o w[2]
      <3> SUFFICES ASSUME n >= 2 PROVE F[2] = w[1] \o w[2]
        OBVIOUS
      <3>1. 2 \in 1 .. n /\ 2 - 1 = 1 /\ 2 # 1
        OBVIOUS
      <3>2. F[2] = F[2 - 1] \o w[2]
        BY <2>4, <3>1
      <3>. QED  BY <2>5, <3>1, <3>2
    <2>7. n >= 3 => F[3] = (w[1] \o w[2]) \o w[3]
      <3> SUFFICES ASSUME n >= 3 PROVE F[3] = (w[1] \o w[2]) \o w[3]
        OBVIOUS
      <3>1. 3 \in 1 .. n /\ 3 - 1 = 2 /\ 3 # 1 /\ n >= 2
        OBVIOUS
      <3>2. F[3] = F[3 - 1] \o w[3]
        BY <2>4, <3>1
      <3>. QED  BY <2>6, <3>1, <3>2
    <2>8. n = 1 \/ n = 2 \/ n = 3
      BY <1>3
    <2>9. PICK fs : fs = FlattenSeq(w)
      OBVIOUS
    <2>10. (n = 1 => fs = w[1]) /\ (n = 2 => fs = w[1] \o w[2])
           /\ (n = 3 => fs = (w[1] \o w[2]) \o w[3])
      <3>1. CASE n = 1
        BY <2>1, <2>5, <2>9, <3>1
      <3>2. CASE n = 2
        BY <2>1, <2>6, <2>9, <3>2
      <3>3. CASE n = 3
        BY <2>1, <2>7, <2>9, <3>3
      <3>. QED  BY <2>8, <3>1, <3>2, <3>3
    <2>. QED  BY <1>3, <2>9, <2>10
  <1>. QED  BY <1>2, <1>3

(* Where operand k of the parts w ends in the object.                      *)
Offset(w, k) ==
    IF k = 0 THEN 0 ELSE IF k = 1 THEN Len(w[1])
    ELSE IF k = 2 THEN Len(w[1]) + Len(w[2]) ELSE (Len(w[1]) + Len(w[2])) + Len(w[3])

LEMMA OffsetFacts ==
    ASSUME NEW n \in 0 .. 3, NEW w \in [1 .. n -> Seq(Nat)]
    PROVE  /\ Offset(w, n) \in Nat
           /\ \A k \in 1 .. n :
                /\ Offset(w, k - 1) \in Nat /\ Offset(w, k) \in Nat /\ Len(w[k]) \in Nat
                /\ Offset(w, k) = Offset(w, k - 1) + Len(w[k])
                /\ Offset(w, k) <= Offset(w, n)
  <1>1. \A k \in 1 .. n : Len(w[k]) \in Nat
    <2> SUFFICES ASSUME NEW k \in 1 .. n PROVE Len(w[k]) \in Nat
      OBVIOUS
    <2>1. w[k] \in Seq(Nat)
      OBVIOUS
    <2>. QED  BY <2>1
  <1>2. Offset(w, 0) = 0 /\ Offset(w, 1) = Len(w[1]) /\ Offset(w, 2) = Len(w[1]) + Len(w[2])
        /\ Offset(w, 3) = (Len(w[1]) + Len(w[2])) + Len(w[3])
    BY DEF Offset
  <1>4. CASE n = 0
    BY <1>2, <1>4
  <1>5. CASE n = 1
    <2>1. PICK a \in Nat : a = Len(w[1])
      BY <1>1, <1>5
    <2>2. \A k \in 1 .. n : k = 1 /\ k - 1 = 0
      BY <1>5
    <2>. QED  BY <1>2, <1>5, <2>1, <2>2
  <1>6. CASE n = 2
    <2>1. PICK a \in Nat, b \in Nat : a = Len(w[1]) /\ b = Len(w[2])
      BY <1>1, <1>6
    <2>2. \A k \in 1 .. n : (k = 1 /\ k - 1 = 0) \/ (k = 2 /\ k - 1 = 1)
      BY <1>6
    <2>. QED  BY <1>2, <1>6, <2>1, <2>2
  <1>7. CASE n = 3
    <2>1. PICK a \in Nat, b \in Nat, c \in Nat :
              a = Len(w[1]) /\ b = Len(w[2]) /\ c = Len(w[3])
      BY <1>1, <1>7
    <2>2. /\ Offset(w, 0) = 0 /\ Offset(w, 1) = a /\ Offset(w, 2) = a + b
          /\ Offset(w, n) = (a + b) + c /\ Offset(w, 3) = (a + b) + c
      BY <1>2, <1>7, <2>1
    <2>3. ASSUME NEW k \in 1 .. n
          PROVE  /\ Offset(w, k - 1) \in Nat /\ Offset(w, k) \in Nat /\ Len(w[k]) \in Nat
                 /\ Offset(w, k) = Offset(w, k - 1) + Len(w[k])
                 /\ Offset(w, k) <= Offset(w, n)
      <3>1. CASE k = 1
        <4>1. k - 1 = 0
          BY <3>1
        <4>2. /\ Offset(w, k - 1) = 0 /\ Offset(w, k) = a /\ Len(w[k]) = a
              /\ Offset(w, n) = (a + b) + c
          BY <2>1, <2>2, <3>1, <4>1
        <4>. QED  BY <4>2
      <3>2. CASE k = 2
        <4>1. k - 1 = 1
          BY <3>2
        <4>2. /\ Offset(w, k - 1) = a /\ Offset(w, k) = a + b /\ Len(w[k]) = b
              /\ Offset(w, n) = (a + b) + c
          BY <2>1, <2>2, <3>2, <4>1
        <4>. QED  BY <4>2
      <3>3. CASE k = 3
        <4>1. k - 1 = 2
          BY <3>3
        <4>2. /\ Offset(w, k - 1) = a + b /\ Offset(w, k) = (a + b) + c /\ Len(w[k]) = c
              /\ Offset(w, n) = (a + b) + c
          BY <2>1, <2>2, <3>3, <4>1
        <4>. QED  BY <4>2
      <3>. QED  BY <1>7, <3>1, <3>2, <3>3
    <2>. QED  BY <2>2, <2>3
  <1>8. n = 0 \/ n = 1 \/ n = 2 \/ n = 3
    OBVIOUS
  <1>. QED  BY <1>4, <1>5, <1>6, <1>7, <1>8

LEMMA Layout ==
    ASSUME NEW n \in 0 .. 3, NEW w \in [1 .. n -> Seq(Nat)]
    PROVE  /\ FlattenSeq(w) \in Seq(Nat) /\ Len(FlattenSeq(w)) = Offset(w, n)
           /\ \A k \in 1 .. n : \A i \in 1 .. Len(w[k]) :
                FlattenSeq(w)[Offset(w, k - 1) + i] = w[k][i]
  <1>1. n = 0 \/ n = 1 \/ n = 2 \/ n = 3
    OBVIOUS
  <1>2. PICK b : b = FlattenSeq(w)
    OBVIOUS
  <1>3. /\ n = 0 => b = << >>
        /\ n = 1 => b = w[1]
        /\ n = 2 => b = w[1] \o w[2]
        /\ n = 3 => b = (w[1] \o w[2]) \o w[3]
    BY <1>2, Flattened
  <1>4. Offset(w, 0) = 0 /\ Offset(w, 1) = Len(w[1]) /\ Offset(w, 2) = Len(w[1]) + Len(w[2])
        /\ Offset(w, 3) = (Len(w[1]) + Len(w[2])) + Len(w[3])
    BY DEF Offset
  <1> DEFINE Laid(s, m) == /\ s \in Seq(Nat) /\ Len(s) = Offset(w, m)
                           /\ \A k \in 1 .. m : \A i \in 1 .. Len(w[k]) :
                                s[Offset(w, k - 1) + i] = w[k][i]
  <1>5. ASSUME NEW s, NEW m \in 0 .. 2, m < n, Laid(s, m)
        PROVE  Laid(s \o w[m + 1], m + 1)
    <2>1. PICK x \in Seq(Nat) : x = w[m + 1]
      BY <1>5
    <2>2. s \in Seq(Nat) /\ Len(s) = Offset(w, m)
      BY <1>5
    <2>3. /\ s \o x \in Seq(Nat) /\ Len(s \o x) = Len(s) + Len(x)
          /\ \A i \in 1 .. Len(s) : (s \o x)[i] = s[i]
          /\ \A i \in 1 .. Len(x) : (s \o x)[Len(s) + i] = x[i]
      <3>1. s \o x \in Seq(Nat) /\ Len(s \o x) = Len(s) + Len(x)
        BY <2>2, ConcatFacts
      <3>2. \A i \in 1 .. Len(s) : (s \o x)[i] = s[i]
        BY <2>2, ConcatFacts
      <3>3. \A i \in 1 .. Len(x) : (s \o x)[Len(s) + i] = x[i]
        <4>1. PICK y \in Seq(Nat) : y = s
          BY <2>2
        <4>2. \A i \in 1 .. Len(x) : (y \o x)[Len(y) + i] = x[i]
          BY ConcatFacts
        <4>. QED  BY <4>1, <4>2
      <3>. QED  BY <3>1, <3>2, <3>3
    <2>4. m + 1 \in 1 .. n /\ (m + 1) - 1 = m
      BY <1>5
    <2>5. Offset(w, m + 1) = Offset(w, m) + Len(x)
      <3>1. Offset(w, m + 1) = Offset(w, (m + 1) - 1) + Len(w[m + 1])
        BY <2>4, OffsetFacts
      <3>. QED  BY <2>1, <2>4, <3>1
    <2>6. ASSUME NEW k \in 1 .. m + 1, NEW i \in 1 .. Len(w[k])
          PROVE  (s \o x)[Offset(w, k - 1) + i] = w[k][i]
      <3>1. CASE k = m + 1
        BY <2>1, <2>2, <2>3, <2>4, <3>1
      <3>2. CASE k # m + 1
        <4>1. k \in 1 .. m /\ k \in 1 .. n
          BY <1>5, <3>2
        <4>2. PICK j \in Int : j = Offset(w, k - 1) + i /\ j \in 1 .. Offset(w, k)
          <5>1. /\ Offset(w, k - 1) \in Nat /\ Offset(w, k) \in Nat /\ Len(w[k]) \in Nat
                /\ Offset(w, k) = Offset(w, k - 1) + Len(w[k])
            BY <4>1, OffsetFacts
          <5>2. PICK a \in Nat, l \in Nat : a = Offset(w, k - 1) /\ l = Len(w[k])
            BY <5>1
          <5>3. i \in 1 .. l /\ Offset(w, k) = a + l
            BY <5>1, <5>2
          <5>4. a + i \in Int /\ a + i \in 1 .. a + l
            BY <5>3
          <5>. QED  BY <5>2, <5>3, <5>4
        <4>3. Offset(w, k) <= Offset(w, m) /\ Offset(w, m) \in Nat
          <5>1. CASE k = m
            <6>1. Offset(w, k) \in Nat
              BY <4>1, OffsetFacts
            <6>. QED  BY <5>1, <6>1
          <5>2. CASE k = 1 /\ m = 2
            <6>1. 2 \in 1 .. n /\ 2 - 1 = 1
              BY <1>5, <5>2
            <6>2. /\ Offset(w, 2 - 1) \in Nat /\ Len(w[2]) \in Nat
                  /\ Offset(w, 2) = Offset(w, 2 - 1) + Len(w[2])
              BY <6>1, OffsetFacts
            <6>. QED  BY <5>2, <6>1, <6>2
          <5>3. k = m \/ (k = 1 /\ m = 2)
            BY <1>5, <4>1
          <5>. QED  BY <5>1, <5>2, <5>3
        <4>4. j \in 1 .. Len(s)
          <5>1. Offset(w, k) \in Nat
            BY <4>1, OffsetFacts
          <5>. QED  BY <2>2, <4>2, <4>3, <5>1
        <4>5. s[Offset(w, k - 1) + i] = w[k][i]
          BY <1>5, <4>1
        <4>. QED  BY <2>3, <4>2, <4>4, <4>5
      <3>. QED  BY <3>1, <3>2
    <2>. QED  BY <2>1, <2>2, <2>3, <2>5, <2>6
  <1>6. Laid(<< >>, 0)
    BY <1>4
  <1> HIDE DEF Laid
  <1>7. n >= 1 => Laid(w[1], 1)
    <2> SUFFICES ASSUME n >= 1 PROVE Laid(w[1], 1)
      OBVIOUS
    <2>1. PICK m \in 0 .. 2 : m = 0 /\ m < n /\ m + 1 = 1
      OBVIOUS
    <2>2. Laid(<< >> \o w[m + 1], m + 1)
      BY <1>5, <1>6, <2>1
    <2>3. << >> \o w[1] = w[1]
      <3>1. w[1] \in Seq(Nat)
        OBVIOUS
      <3>. QED  BY <3>1
    <2>. QED  BY <2>1, <2>2, <2>3
  <1>8. n >= 2 => Laid(w[1] \o w[2], 2)
    <2> SUFFICES ASSUME n >= 2 PROVE Laid(w[1] \o w[2], 2)
      OBVIOUS
    <2>1. PICK m \in 0 .. 2 : m = 1 /\ m < n /\ m + 1 = 2
      OBVIOUS
    <2>2. Laid(w[1] \o w[m + 1], m + 1)
      BY <1>5, <1>7, <2>1
    <2>. QED  BY <2>1, <2>2
  <1>9. n >= 3 => Laid((w[1] \o w[2]) \o w[3], 3)
    <2> SUFFICES ASSUME n >= 3 PROVE Laid((w[1] \o w[2]) \o w[3], 3)
      OBVIOUS
    <2>1. PICK m \in 0 .. 2 : m = 2 /\ m < n /\ m + 1 = 3
      OBVIOUS
    <2>2. Laid((w[1] \o w[2]) \o w[m + 1], m + 1)
      BY <1>5, <1>8, <2>1
    <2>. QED  BY <2>1, <2>2
  <1>10. Laid(b, n)
    <2>1. CASE n = 0
      BY <1>3, <1>6, <2>1
    <2>2. CASE n = 1
      BY <1>3, <1>7, <2>2
    <2>3. CASE n = 2
      <3>1. n >= 2
        BY <2>3
      <3>2. b = w[1] \o w[2]
        BY <1>3, <2>3
      <3>. QED  BY <1>8, <2>3, <3>1, <3>2, Zenon
    <2>4. CASE n = 3
      <3>1. n >= 3
        BY <2>4
      <3>2. b = (w[1] \o w[2]) \o w[3]
        BY <1>3, <2>4
      <3>. QED  BY <1>9, <2>4, <3>1, <3>2, Zenon
    <2>. QED  BY <1>1, <2>1, <2>2, <2>3, <2>4
  <1>. QED  BY <1>2, <1>10 DEF Laid

(* What the constructor writes of each operand.                            *)
Part(in) ==
    [k \in DOMAIN in.params |->
        IF Kinds(in.op)[k] = "jump" THEN WriteMBInt(in.params[k])
                                    ELSE WriteMBUInt(in.params[k])]

(* The kinds of operands an instruction has: a jump comes last, and only   *)
(* CPI has a value.                                                        *)
LEMMA JumpIsLast ==
    ASSUME NEW op \in ToSet(Opcodes), NEW k \in 1 .. OperandCount(op)
    PROVE  /\ Kinds(op)[k] \in {"id", "byte", "vref", "value", "jump"}
           /\ Kinds(op)[k] = "jump" => k = OperandCount(op)
           /\ Kinds(op)[k] = "value" => op = "CPI" /\ k = 1
  <1>1. op \in {"ILL", "UO", "BO", "UJ", "BJ", "CPI", "PUSH", "PUSHR", "PUSHH", "POP",
              "JMP", "CPB", "LDE", "LDB", "LDR", "STE", "STB", "STR", "CALL",
              "THROW", "RET"}
    BY DEF ToSet, Opcodes
  <1>2. OperandCount(op) \in 0 .. 3
    BY KindsFacts
  <1>3. k = 1 \/ k = 2 \/ k = 3
    BY <1>2
  <1>4. OperandCount(op) = Len(Kinds(op))
    BY DEF OperandCount
  <1>5. CASE op \in {"ILL", "POP", "THROW", "RET"}
    <2>1. Kinds(op) = << >> /\ OperandCount(op) = 0
      BY <1>4, <1>5 DEF Kinds
    <2>. QED  BY <2>1
  <1>6. CASE op \in {"UO", "PUSH", "PUSHR", "CALL"}
    <2>1. Kinds(op) = << "id" >> /\ OperandCount(op) = 1
      BY <1>4, <1>6 DEF Kinds
    <2>2. k = 1
      BY <2>1
    <2>. QED  BY <2>1, <2>2
  <1>7. CASE op \in {"JMP", "PUSHH"}
    <2>1. Kinds(op) = << "jump" >> /\ OperandCount(op) = 1
      BY <1>4, <1>7 DEF Kinds
    <2>2. k = 1
      BY <2>1
    <2>. QED  BY <2>1, <2>2
  <1>8. CASE op = "CPB"
    <2>1. Kinds(op) = << "id", "id" >> /\ OperandCount(op) = 2
      BY <1>4, <1>8 DEF Kinds
    <2>2. k = 1 \/ k = 2
      BY <2>1
    <2>. QED  BY <2>1, <2>2
  <1>9. CASE op = "UJ"
    <2>1. Kinds(op) = << "id", "jump" >> /\ OperandCount(op) = 2
      BY <1>4, <1>9 DEF Kinds
    <2>2. k = 1 \/ k = 2
      BY <2>1
    <2>. QED  BY <2>1, <2>2
  <1>10. CASE op = "CPI"
    <2>1. Kinds(op) = << "value", "id" >> /\ OperandCount(op) = 2
      BY <1>4, <1>10 DEF Kinds
    <2>2. k = 1 \/ k = 2
      BY <2>1
    <2>. QED  BY <1>10, <2>1, <2>2
  <1>11. CASE op \in {"BO", "LDE", "STE"}
    <2>1. Kinds(op) = << "id", "id", "id" >> /\ OperandCount(op) = 3
      BY <1>4, <1>11 DEF Kinds
    <2>. QED  BY <1>3, <2>1
  <1>12. CASE op = "BJ"
    <2>1. Kinds(op) = << "id", "id", "jump" >> /\ OperandCount(op) = 3
      BY <1>4, <1>12 DEF Kinds
    <2>. QED  BY <1>3, <2>1
  <1>13. CASE op \in {"LDB", "LDR", "STB", "STR"}
    <2>1. /\ OperandCount(op) = 3
          /\ \/ Kinds(op) = << "id", "byte", "id" >> \/ Kinds(op) = << "id", "vref", "id" >>
             \/ Kinds(op) = << "id", "id", "byte" >> \/ Kinds(op) = << "id", "id", "vref" >>
      BY <1>4, <1>13 DEF Kinds
    <2>. QED  BY <1>3, <2>1
  <1>. QED  BY <1>1, <1>5, <1>6, <1>7, <1>8, <1>9, <1>10, <1>11, <1>12, <1>13

(* Each operand as it is written: a number that reads as the operand, or,  *)
(* for a jump, one of the two ways that does not.                          *)
LEMMA PartFacts ==
    ASSUME NEW in \in Given
    PROVE  /\ in.op \in ToSet(Opcodes) /\ OperandCount(in.op) \in 0 .. 3
           /\ DOMAIN in.params = 1 .. OperandCount(in.op)
           /\ Part(in) \in [1 .. OperandCount(in.op) -> Seq(Nat)]
           /\ Encoded(in) = FlattenSeq(Part(in))
           /\ \A k \in 1 .. OperandCount(in.op) :
                /\ Len(Part(in)[k]) \in 1 .. GROUPS
                /\ \A i \in 1 .. Len(Part(in)[k]) - 1 : Part(in)[k][i] >= More
                /\ Kinds(in.op)[k] # "jump" =>
                     /\ in.params[k] \in Nat /\ IsNumber(Part(in)[k])
                     /\ Part(in)[k] = WriteMBUInt(in.params[k])
                     /\ ValueOf(Part(in)[k]) = in.params[k]
                     /\ Kinds(in.op)[k] # "value" =>
                          /\ in.params[k] < UINT32 /\ in.params[k] % UINT32 = in.params[k]
                /\ Kinds(in.op)[k] = "jump" =>
                     /\ in.params[k] \in IntRange
                     /\ Part(in)[k] = WriteMBInt(in.params[k])
                     /\ \/ /\ IsNumber(Part(in)[k])
                           /\ \/ IntOf(Part(in)[k]) = in.params[k]
                              \/ Folded(in.params[k], IntOf(Part(in)[k]))
                        \/ RunsOn(Part(in)[k], in.params[k])
  <1>0. PICK op, p, w : op = in.op /\ p = in.params /\ w = Part(in)
    OBVIOUS
  <1>1. PICK n \in 0 .. 3 :
            op = in.op /\ n = OperandCount(op) /\ p = in.params /\ w = Part(in)
    <2>1. in.op \in ToSet(Opcodes)
      BY GivenAssumption
    <2>2. OperandCount(in.op) \in 0 .. 3
      BY <2>1, KindsFacts
    <2>. QED  BY <1>0, <2>2
  <1>2. op \in ToSet(Opcodes) /\ DOMAIN p = 1 .. n
    BY <1>1, GivenAssumption, KindsFacts
  <1>3. w = [k \in 1 .. n |-> IF Kinds(op)[k] = "jump" THEN WriteMBInt(p[k])
                              ELSE WriteMBUInt(p[k])]
    BY <1>1, <1>2 DEF Part
  <1>4. Encoded(in) = FlattenSeq(w)
    BY <1>1 DEF Encoded, Part
  <1> DEFINE Good(k) ==
                /\ w[k] \in Seq(Nat)
                /\ Len(w[k]) \in 1 .. GROUPS
                /\ \A i \in 1 .. Len(w[k]) - 1 : w[k][i] >= More
                /\ Kinds(op)[k] # "jump" =>
                     /\ p[k] \in Nat /\ IsNumber(w[k])
                     /\ w[k] = WriteMBUInt(p[k])
                     /\ ValueOf(w[k]) = p[k]
                     /\ Kinds(op)[k] # "value" => p[k] < UINT32 /\ p[k] % UINT32 = p[k]
                /\ Kinds(op)[k] = "jump" =>
                     /\ p[k] \in IntRange
                     /\ w[k] = WriteMBInt(p[k])
                     /\ \/ /\ IsNumber(w[k])
                           /\ \/ IntOf(w[k]) = p[k]
                              \/ Folded(p[k], IntOf(w[k]))
                        \/ RunsOn(w[k], p[k])
  <1>5. ASSUME NEW k \in 1 .. n
        PROVE  Good(k)
    <2>1. p[k] \in ParamType(Kinds(op)[k])
      BY <1>1, <1>2, GivenAssumption
    <2>2. Kinds(op)[k] \in {"id", "byte", "vref", "value", "jump"}
      BY <1>1, <1>2, JumpIsLast
    <2>3. PICK v, e : v = p[k] /\ e = w[k]
      OBVIOUS
    <2>4. CASE Kinds(op)[k] = "jump"
      <3>1. ParamType(Kinds(op)[k]) = IntRange
        BY <2>4, GroupFacts DEF ParamType, IntRange
      <3>2. v \in IntRange /\ e = WriteMBInt(v)
        BY <1>3, <2>1, <2>3, <2>4, <3>1
      <3>3. \/ IsNumber(e) /\ (IntOf(e) = v \/ Folded(v, IntOf(e)))
            \/ RunsOn(e, v)
        BY <3>2, IntWritten
      <3>4. e \in Seq(Nat) /\ Len(e) \in 1 .. GROUPS /\ \A i \in 1 .. Len(e) - 1 : e[i] >= More
        <4>1. CASE IsNumber(e)
          BY <4>1 DEF IsNumber
        <4>2. CASE RunsOn(e, v)
          <5>1. PICK s \in 1 .. GROUPS - 2 : /\ e \in Seq(Nat) /\ Len(e) = s + 1
                                            /\ \A i \in 1 .. s + 1 : e[i] >= More
            BY <4>2 DEF RunsOn
          <5>2. Len(e) \in 1 .. GROUPS /\ \A i \in 1 .. Len(e) - 1 : i \in 1 .. s + 1
            BY <5>1, GroupsAssumption
          <5>. QED  BY <5>1, <5>2
        <4>. QED  BY <3>3, <4>1, <4>2
      <3>. QED  BY <2>3, <2>4, <3>2, <3>3, <3>4
    <2>5. CASE Kinds(op)[k] # "jump"
      <3>1. v \in Nat
        <4>1. CASE Kinds(op)[k] = "value"
          <5>1. ParamType(Kinds(op)[k]) \subseteq Nat
            BY <4>1, GroupFacts, GroupPower, GroupsAssumption DEF ParamType
          <5>. QED  BY <2>1, <2>3, <5>1
        <4>2. CASE Kinds(op)[k] # "value"
          <5>1. ParamType(Kinds(op)[k]) \subseteq Nat
            BY <2>2, <2>5, <4>2, InstrAssumption DEF ParamType
          <5>. QED  BY <2>1, <2>3, <5>1
        <4>. QED  BY <4>1, <4>2
      <3>2. e = WriteMBUInt(v)
        BY <1>3, <2>3, <2>5
      <3>3. IsNumber(e) /\ ValueOf(e) = v
        BY <3>1, <3>2, UIntWritten
      <3>4. e \in Seq(Nat) /\ Len(e) \in 1 .. GROUPS /\ \A i \in 1 .. Len(e) - 1 : e[i] >= More
        BY <3>3 DEF IsNumber
      <3>5. Kinds(op)[k] # "value" => v < UINT32 /\ v % UINT32 = v
        <4> SUFFICES ASSUME Kinds(op)[k] # "value" PROVE v < UINT32 /\ v % UINT32 = v
          OBVIOUS
        <4>1. ParamType(Kinds(op)[k]) = 0 .. UINT32 - 1
          BY <2>2, <2>5 DEF ParamType
        <4>2. PICK m \in Nat \ {0} : m = UINT32
          BY InstrAssumption
        <4>3. v < m
          BY <2>1, <2>3, <3>1, <4>1, <4>2
        <4>4. v % m = v
          BY <3>1, <4>3
        <4>. QED  BY <4>2, <4>3, <4>4
      <3>. QED  BY <2>3, <2>5, <3>1, <3>2, <3>3, <3>4, <3>5
    <2>. QED  BY <2>4, <2>5
  <1>6. w \in [1 .. n -> Seq(Nat)]
    <2>1. \A k \in 1 .. n : w[k] \in Seq(Nat)
      BY <1>5
    <2>2. w = [k \in 1 .. n |-> w[k]]
      BY <1>3
    <2>. QED  BY <2>1, <2>2
  <1>. QED  BY <1>1, <1>2, <1>4, <1>5, <1>6

(* The object an instruction is constructed in.                            *)
LEMMA DatFacts ==
    ASSUME NEW in \in Given, NEW garbage \in Garbage, NEW k \in 1 .. OperandCount(in.op),
           Offset(Part(in), k - 1) <= GROUPS + 1
    PROVE  /\ Dat(in, garbage) \in Seq(Nat) /\ Len(Dat(in, garbage)) = GROUPS + 1
           /\ Placed(Dat(in, garbage), Offset(Part(in), k - 1), Part(in)[k])
  <1>1. PICK n \in 0 .. 3, N \in Nat : n = OperandCount(in.op) /\ N = GROUPS + 1
    BY PartFacts, GroupsAssumption
  <1>2. PICK w \in [1 .. n -> Seq(Nat)] : w = Part(in)
    BY <1>1, PartFacts
  <1>3. PICK b \in Seq(Nat) : b = Encoded(in) /\ b = FlattenSeq(w)
    BY <1>1, <1>2, PartFacts, Layout
  <1>4. /\ Len(b) = Offset(w, n) /\ \A i \in 1 .. Len(w[k]) : b[Offset(w, k - 1) + i] = w[k][i]
        /\ Offset(w, k - 1) \in Nat /\ Len(w[k]) \in Nat
        /\ Offset(w, k) = Offset(w, k - 1) + Len(w[k]) /\ Offset(w, k) <= Offset(w, n)
        /\ Offset(w, n) \in Nat
    <2>1. k \in 1 .. n
      BY <1>1
    <2>2. /\ Len(b) = Offset(w, n)
          /\ \A i \in 1 .. Len(w[k]) : b[Offset(w, k - 1) + i] = w[k][i]
      <3>1. Len(FlattenSeq(w)) = Offset(w, n)
        BY Layout
      <3>2. \A i \in 1 .. Len(w[k]) : FlattenSeq(w)[Offset(w, k - 1) + i] = w[k][i]
        BY <2>1, Layout
      <3>. QED  BY <1>3, <3>1, <3>2
    <2>3. /\ Offset(w, k - 1) \in Nat /\ Len(w[k]) \in Nat
          /\ Offset(w, k) = Offset(w, k - 1) + Len(w[k]) /\ Offset(w, k) <= Offset(w, n)
          /\ Offset(w, n) \in Nat
      BY <2>1, OffsetFacts
    <2>. QED  BY <2>2, <2>3
  <1>5. PICK d : d = Dat(in, garbage)
    OBVIOUS
  <1>6. d = [i \in 1 .. N |-> IF i <= Len(b) THEN b[i] ELSE garbage]
    <2>1. MAX_INSTR_SIZE - 1 = N
      BY <1>1, GroupsAssumption DEF MAX_INSTR_SIZE
    <2>. QED  BY <1>3, <1>5, <2>1 DEF Dat
  <1>7. garbage \in Nat
    <2>1. ByteMax \in Int
      BY GroupFacts DEF ByteMax
    <2>2. garbage \in 0 .. ByteMax
      <3>1. PICK B : B = 0 .. ByteMax
        OBVIOUS
      <3>2. Garbage \subseteq B
        BY <3>1, InstrAssumption, Zenon
      <3>. QED  BY <3>1, <3>2
    <2>. QED  BY <2>1, <2>2
  <1>8. d \in Seq(Nat) /\ Len(d) = N
    <2>1. ASSUME NEW i \in 1 .. N PROVE d[i] \in Nat
      <3>1. CASE i <= Len(b)
        <4>1. i \in 1 .. Len(b)
          BY <1>4, <3>1
        <4>. QED  BY <1>6, <3>1, <4>1
      <3>2. CASE ~(i <= Len(b))
        BY <1>6, <1>7, <3>2
      <3>. QED  BY <3>1, <3>2
    <2>2. d \in [1 .. N -> Nat]
      BY <1>6, <2>1
    <2>. QED  BY <2>2
  <1>9. PICK end \in 0 .. N : end = Offset(w, k - 1)
    BY <1>1, <1>2, <1>4
  <1>10. \A i \in 1 .. Len(w[k]) : end + i <= N => d[end + i] = w[k][i]
    <2> SUFFICES ASSUME NEW i \in 1 .. Len(w[k]), end + i <= N
                 PROVE  d[end + i] = w[k][i]
      OBVIOUS
    <2>1. end + i \in 1 .. N /\ end + i <= Len(b)
      <3>1. PICK l \in Nat, m \in Nat : l = Len(w[k]) /\ m = Offset(w, n)
        BY <1>4
      <3>2. i \in 1 .. l /\ end + l <= m /\ Len(b) = m
        BY <1>4, <1>9, <3>1
      <3>. QED  BY <3>2
    <2>2. d[end + i] = b[end + i]
      BY <1>6, <2>1
    <2>. QED  BY <1>4, <1>9, <2>2
  <1>11. w[k] \in Seq(Nat)
    BY <1>1
  <1>12. Placed(d, end, w[k])
    BY <1>8, <1>10, <1>11 DEF Placed
  <1>. QED  BY <1>1, <1>2, <1>5, <1>8, <1>9, <1>12

(* One operand, when those before it stand where they were written.        *)
LEMMA OneOperand ==
    ASSUME NEW in \in Given, NEW garbage \in Garbage, NEW k \in 1 .. OperandCount(in.op),
           Offset(Part(in), k - 1) <= GROUPS + 1,
           EndOf(Dat(in, garbage), k - 1) = Offset(Part(in), k - 1)
    PROVE  LET d == Dat(in, garbage)
               w == Part(in)
               v == in.params[k]
               jump == Kinds(in.op)[k] = "jump"
           IN  /\ Offset(w, k) > GROUPS + 1 => EndOf(d, k) = None
               /\ IsNumber(w[k]) /\ Offset(w, k) <= GROUPS + 1 =>
                     /\ EndOf(d, k) = Offset(w, k)
                     /\ Param(in.op, d, k) = IF jump THEN IntOf(w[k]) ELSE v
               /\ jump /\ EndOf(d, k) # None
                    /\ Param(in.op, d, k) \in INSTR_OFFSET_MIN .. INSTR_OFFSET_MAX =>
                     Param(in.op, d, k) = v \/ Folded(v, Param(in.op, d, k))
  <1>1. PICK op, v : op = in.op /\ v = in.params[k]
    OBVIOUS
  <1>2. PICK d, e, kind : /\ d = Dat(in, garbage) /\ e = Part(in)[k]
                          /\ kind = Kinds(op)[k]
    OBVIOUS
  <1>3. PICK end : end = Offset(Part(in), k - 1)
    OBVIOUS
  <1>4. d \in Seq(Nat) /\ Len(d) = GROUPS + 1 /\ Placed(d, end, e)
    BY <1>2, <1>3, DatFacts
  <1>5. /\ OperandCount(in.op) \in 0 .. 3 /\ Len(e) \in 1 .. GROUPS
        /\ \A i \in 1 .. Len(e) - 1 : e[i] >= More
        /\ kind # "jump" =>
              /\ v \in Nat /\ IsNumber(e) /\ ValueOf(e) = v
              /\ kind # "value" => v % UINT32 = v
        /\ kind = "jump" =>
              \/ IsNumber(e) /\ (IntOf(e) = v \/ Folded(v, IntOf(e)))
              \/ RunsOn(e, v)
    BY <1>1, <1>2, PartFacts
  <1>6. Offset(Part(in), k) = end + Len(e) /\ end \in Nat
    <2>1. PICK n \in 0 .. 3 : n = OperandCount(in.op)
      BY <1>5
    <2>2. Part(in) \in [1 .. n -> Seq(Nat)]
      BY <2>1, PartFacts
    <2>. QED  BY <1>2, <1>3, <2>1, <2>2, OffsetFacts
  <1>7. EndOf(d, k) = After(d, end)
    <2>1. k \in 1 .. 3
      BY <1>5
    <2>. QED  BY <1>2, <1>3, <2>1, EndOfFacts
  <1>8. Param(op, d, k) = CASE kind = "jump" -> ReadMBInt(Rest(d, end))
                            [] kind = "value" -> ReadMBUInt(Rest(d, end))
                            [] OTHER -> ReadMBUInt(Rest(d, end)) % UINT32
    BY <1>2, <1>3 DEF Param
  <1>9. GROUPS \in Nat
    BY GroupsAssumption
  <1>10. end + Len(e) > GROUPS + 1 => EndOf(d, k) = None
    <2> SUFFICES ASSUME end + Len(e) > GROUPS + 1 PROVE EndOf(d, k) = None
      OBVIOUS
    <2>1. Len(e) <= GROUPS /\ end + Len(e) > Len(d)
      BY <1>4, <1>5
    <2>. QED  BY <1>4, <1>5, <1>7, <2>1, CutOff
  <1>11. ASSUME IsNumber(e), end + Len(e) <= GROUPS + 1
         PROVE  /\ EndOf(d, k) = end + Len(e)
                /\ Param(op, d, k) = IF kind = "jump" THEN IntOf(e) ELSE v
    <2>1. end + Len(e) <= Len(d)
      BY <1>4, <1>11
    <2>2. /\ After(d, end) = end + Len(e)
          /\ ReadMBUInt(Rest(d, end)) = ValueOf(e)
          /\ ReadMBInt(Rest(d, end)) = IntOf(e)
      BY <1>4, <1>11, <2>1, NumberThere
    <2>. QED  BY <1>5, <1>7, <1>8, <2>2
  <1>12. ASSUME kind = "jump", EndOf(d, k) # None,
                Param(op, d, k) \in INSTR_OFFSET_MIN .. INSTR_OFFSET_MAX
         PROVE  Param(op, d, k) = v \/ Folded(v, Param(op, d, k))
    <2>1. Param(op, d, k) = ReadMBInt(Rest(d, end))
      BY <1>8, <1>12
    <2>2. CASE IsNumber(e) /\ (IntOf(e) = v \/ Folded(v, IntOf(e)))
      <3>1. end + Len(e) <= GROUPS + 1
        <4>1. Len(e) \in Nat
          BY <1>5
        <4>. QED  BY <1>6, <1>9, <1>10, <1>12, <4>1
      <3>. QED  BY <1>5, <1>11, <1>12, <2>2, <3>1
    <2>3. CASE RunsOn(e, v)
      BY <1>4, <1>7, <1>12, <2>1, <2>3, RunsOnThere
    <2>4. (IsNumber(e) /\ (IntOf(e) = v \/ Folded(v, IntOf(e)))) \/ RunsOn(e, v)
      BY <1>5, <1>12
    <2>. QED  BY <2>2, <2>3, <2>4
  <1>. QED  BY <1>1, <1>2, <1>6, <1>10, <1>11, <1>12

-----------------------------------------------------------------------------
(* The checks.                                                             *)
LEMMA OrderFacts ==
    ASSUME NEW op \in ToSet(Opcodes)
    PROVE  /\ DOMAIN CheckOrder(op) \subseteq Nat
           /\ \A n \in DOMAIN CheckOrder(op) : CheckOrder(op)[n] \in 1 .. OperandCount(op)
           /\ \A k \in 1 .. OperandCount(op) :
                 \E n \in DOMAIN CheckOrder(op) : CheckOrder(op)[n] = k
           /\ op # "LDE" => \A n \in DOMAIN CheckOrder(op) : CheckOrder(op)[n] = n
  <1>1. /\ OperandCount(op) \in 0 .. 3 /\ DOMAIN Kinds(op) = 1 .. OperandCount(op)
        /\ \A k \in 1 .. OperandCount(op) :
              \E n \in DOMAIN CheckOrder(op) : CheckOrder(op)[n] = k
    BY KindsFacts
  <1>2. CASE op = "LDE"
    <2>1. CheckOrder(op) = << 1, 3, 2 >> /\ OperandCount(op) = 3
      BY <1>2 DEF CheckOrder, OperandCount, Kinds
    <2>2. DOMAIN CheckOrder(op) = 1 .. 3
      BY <2>1
    <2>. QED  BY <1>1, <1>2, <2>1, <2>2
  <1>3. CASE op # "LDE"
    <2>1. CheckOrder(op) = [k \in 1 .. OperandCount(op) |-> k]
      BY <1>1, <1>3 DEF CheckOrder
    <2>. QED  BY <1>1, <2>1
  <1>. QED  BY <1>2, <1>3

(* An operand passes its check in assertConsistency.                       *)
Right(op, d, k) == EndOf(d, k) # None /\ Allowed(Kinds(op)[k], Param(op, d, k))

LEMMA VerdictFacts ==
    ASSUME NEW op \in ToSet(Opcodes), NEW d
    PROVE  /\ Verdict(op, d) = OK <=> \A k \in 1 .. OperandCount(op) : Right(op, d, k)
           /\ op = "CPI" /\ EndOf(d, 1) # None /\ EndOf(d, 2) = None =>
                 Verdict(op, d) = "EndOfFile"
  <1>1. PICK wrong : wrong = {n \in DOMAIN CheckOrder(op) :
                                EndOf(d, CheckOrder(op)[n]) = None
                                  \/ ~Allowed(Kinds(op)[CheckOrder(op)[n]],
                                              Param(op, d, CheckOrder(op)[n]))}
    OBVIOUS
  <1>2. Verdict(op, d) = IF wrong = {} THEN OK
                         ELSE IF EndOf(d, CheckOrder(op)[Min(wrong)]) = None
                         THEN "EndOfFile" ELSE "Refused"
    BY <1>1 DEF Verdict
  <1>3. Verdict(op, d) = OK <=> wrong = {}
    BY <1>2 DEF OK
  <1>4. \A n \in DOMAIN CheckOrder(op) : n \in wrong <=> ~Right(op, d, CheckOrder(op)[n])
    BY <1>1 DEF Right
  <1>5. wrong \subseteq DOMAIN CheckOrder(op)
    BY <1>1
  <1>6. wrong = {} <=> \A k \in 1 .. OperandCount(op) : Right(op, d, k)
    <2>1. ASSUME wrong = {}, NEW k \in 1 .. OperandCount(op) PROVE Right(op, d, k)
      <3>1. PICK n \in DOMAIN CheckOrder(op) : CheckOrder(op)[n] = k
        BY OrderFacts
      <3>. QED  BY <1>4, <2>1, <3>1
    <2>2. ASSUME \A k \in 1 .. OperandCount(op) : Right(op, d, k), NEW n \in wrong
          PROVE  FALSE
      BY <1>4, <1>5, <2>2, OrderFacts
    <2>. QED  BY <2>1, <2>2
  <1>7. ASSUME op = "CPI", EndOf(d, 1) # None, EndOf(d, 2) = None
        PROVE  Verdict(op, d) = "EndOfFile"
    <2>1. Kinds(op) = << "value", "id" >> /\ OperandCount(op) = 2
      BY <1>7 DEF Kinds, OperandCount
    <2>2. Right(op, d, 1) /\ ~Right(op, d, 2)
      <3>1. PICK kind, x : kind = Kinds(op)[1] /\ x = Param(op, d, 1)
        OBVIOUS
      <3>2. kind = "value"
        BY <2>1, <3>1
      <3>3. Allowed(kind, x)
        BY <3>2 DEF Allowed
      <3>4. Right(op, d, 1)
        BY <1>7, <3>1, <3>3 DEF Right
      <3>5. ~Right(op, d, 2)
        BY <1>7 DEF Right
      <3>. QED  BY <3>4, <3>5
    <2>3. wrong # {}
      BY <1>6, <2>1, <2>2
    <2>4. Min(wrong) \in wrong
      <3>1. wrong \subseteq Nat
        BY <1>5, OrderFacts
      <3>. QED  BY <2>3, <3>1, MinOf
    <2>5. PICK n : n = Min(wrong) /\ n \in DOMAIN CheckOrder(op) /\ CheckOrder(op)[n] = n
      BY <1>5, <1>7, <2>4, OrderFacts
    <2>6. n = 2
      <3>1. n \in 1 .. 2 /\ ~Right(op, d, n)
        BY <1>4, <2>1, <2>4, <2>5, OrderFacts
      <3>2. n = 1 \/ n = 2
        BY <3>1
      <3>. QED  BY <2>2, <3>1, <3>2
    <2>. QED  BY <1>2, <1>7, <2>3, <2>5, <2>6
  <1>. QED  BY <1>3, <1>6, <1>7

(* An instruction that is accepted reads as it was given.                  *)
Stood(in, d, k) ==
    Offset(Part(in), k) <= GROUPS + 1 /\ EndOf(d, k) = Offset(Part(in), k)

LEMMA StoodFirst ==
    ASSUME NEW in, NEW d
    PROVE  Stood(in, d, 0)
  <1>1. Offset(Part(in), 0) = 0 /\ EndOf(d, 0) = 0
    BY EndOfFacts DEF Offset
  <1>. QED  BY <1>1, GroupsAssumption DEF Stood

LEMMA Kept ==
    ASSUME NEW in \in Given, NEW garbage \in Garbage,
           Verdict(in.op, Dat(in, garbage)) = OK
    PROVE  \A k \in 1 .. OperandCount(in.op) :
              LET read == Param(in.op, Dat(in, garbage), k)
              IN  \/ in.params[k] = read
                  \/ Kinds(in.op)[k] = "jump" /\ Folded(in.params[k], read)
  <1>1. PICK op, d : op = in.op /\ d = Dat(in, garbage)
    OBVIOUS
  <1>2. PICK n \in 0 .. 3 : n = OperandCount(op)
    BY <1>1, PartFacts
  <1>3. op \in ToSet(Opcodes) /\ \A k \in 1 .. n : Right(op, d, k)
    BY <1>1, <1>2, PartFacts, VerdictFacts
  <1>4. ASSUME NEW k \in 1 .. n, Stood(in, d, k - 1)
        PROVE  /\ Kinds(op)[k] # "jump" => Stood(in, d, k) /\ Param(op, d, k) = in.params[k]
               /\ Kinds(op)[k] = "jump" =>
                     \/ in.params[k] = Param(op, d, k)
                     \/ Folded(in.params[k], Param(op, d, k))
    <2>1. PICK v, e : v = in.params[k] /\ e = Part(in)[k]
      OBVIOUS
    <2>2. /\ Offset(Part(in), k) > GROUPS + 1 => EndOf(d, k) = None
          /\ IsNumber(e) /\ Offset(Part(in), k) <= GROUPS + 1 =>
                /\ EndOf(d, k) = Offset(Part(in), k)
                /\ Param(op, d, k) = IF Kinds(op)[k] = "jump" THEN IntOf(e) ELSE v
          /\ Kinds(op)[k] = "jump" /\ EndOf(d, k) # None
               /\ Param(op, d, k) \in INSTR_OFFSET_MIN .. INSTR_OFFSET_MAX =>
                Param(op, d, k) = v \/ Folded(v, Param(op, d, k))
      BY <1>1, <1>2, <1>4, <2>1, OneOperand DEF Stood
    <2>3. EndOf(d, k) # None /\ Allowed(Kinds(op)[k], Param(op, d, k))
      BY <1>3 DEF Right
    <2>4. Offset(Part(in), k) <= GROUPS + 1
      <3>1. Offset(Part(in), k) \in Nat
        <4>1. Part(in) \in [1 .. n -> Seq(Nat)]
          BY <1>1, <1>2, PartFacts
        <4>. QED  BY <4>1, OffsetFacts
      <3>. QED  BY <2>2, <2>3, <3>1, GroupsAssumption
    <2>5. CASE Kinds(op)[k] # "jump"
      <3>1. IsNumber(e)
        BY <1>1, <1>2, <2>1, <2>5, PartFacts
      <3>. QED  BY <2>1, <2>2, <2>4, <2>5, <3>1 DEF Stood
    <2>6. CASE Kinds(op)[k] = "jump"
      <3>1. Param(op, d, k) \in INSTR_OFFSET_MIN .. INSTR_OFFSET_MAX
        BY <2>3, <2>6 DEF Allowed
      <3>. QED  BY <2>1, <2>2, <2>3, <2>6, <3>1
    <2>. QED  BY <2>5, <2>6
  <1>5. \A k \in 1 .. n : k < n => Kinds(op)[k] # "jump"
    BY <1>2, <1>3, JumpIsLast
  <1>6. Stood(in, d, 0)
    BY StoodFirst
  <1>7. \A k \in 1 .. n : Stood(in, d, k - 1)
    <2>1. n >= 2 => Stood(in, d, 1)
      <3> SUFFICES ASSUME n >= 2 PROVE Stood(in, d, 1)
        OBVIOUS
      <3>1. PICK k \in 1 .. n : k = 1 /\ k - 1 = 0 /\ k < n
        OBVIOUS
      <3>. QED  BY <1>4, <1>5, <1>6, <3>1
    <2>2. n >= 3 => Stood(in, d, 2)
      <3> SUFFICES ASSUME n >= 3 PROVE Stood(in, d, 2)
        OBVIOUS
      <3>1. PICK k \in 1 .. n : k = 2 /\ k - 1 = 1 /\ k < n
        OBVIOUS
      <3>. QED  BY <1>4, <1>5, <2>1, <3>1
    <2>3. \A k \in 1 .. n : k - 1 = 0 \/ (k - 1 = 1 /\ n >= 2) \/ (k - 1 = 2 /\ n >= 3)
      OBVIOUS
    <2>. QED  BY <1>6, <2>1, <2>2, <2>3
  <1>. QED  BY <1>1, <1>2, <1>4, <1>7

-----------------------------------------------------------------------------
(* What legal operands take.                                               *)
LEMMA SizeUnder ==
    ASSUME NEW v \in Nat, NEW k \in 1 .. GROUPS, v < Power(Group, k)
    PROVE  Len(WriteMBUInt(v)) <= k
  BY SizeOfFacts, UIntWritten

(* What legal operands take.                                               *)
LEMMA LegalPart ==
    ASSUME NEW in \in Given, Legal(in), NEW k \in 1 .. OperandCount(in.op)
    PROVE  /\ IsNumber(Part(in)[k])
           /\ Allowed(Kinds(in.op)[k], in.params[k])
           /\ Kinds(in.op)[k] = "jump" =>
                Len(Part(in)[k]) = 1 /\ IntOf(Part(in)[k]) = in.params[k]
           /\ Kinds(in.op)[k] \in {"id", "vref"} => Len(Part(in)[k]) <= 2
           /\ Kinds(in.op)[k] = "byte" => Len(Part(in)[k]) <= GROUPS - 3
  <1>1. PICK v, e, kind : v = in.params[k] /\ e = Part(in)[k] /\ kind = Kinds(in.op)[k]
    OBVIOUS
  <1>2. Allowed(kind, v)
    BY <1>1, PartFacts DEF Legal
  <1>3. GROUPS \in Nat /\ GROUPS >= 5 /\ TABLE_MAX \in Nat /\ UINT32 \in Nat
    BY InstrAssumption, GroupsAssumption
  <1>4. CASE kind = "jump"
    <2>1. v \in INSTR_OFFSET_MIN .. INSTR_OFFSET_MAX
      BY <1>2, <1>4 DEF Allowed
    <2>2. e = WriteMBInt(v)
      BY <1>1, <1>4, PartFacts
    <2>3. IsNumber(e) /\ Len(e) = 1 /\ IntOf(e) = v
      BY <2>1, <2>2, SmallIntWritten
    <2>. QED  BY <1>1, <1>2, <1>4, <2>3
  <1>5. CASE kind # "jump"
    <2>1. v \in Nat /\ IsNumber(e) /\ e = WriteMBUInt(v) /\ (kind # "value" => v < UINT32)
      BY <1>1, <1>5, PartFacts
    <2>2. kind \in {"id", "vref"} => Len(e) <= 2
      <3> SUFFICES ASSUME kind \in {"id", "vref"} PROVE Len(e) <= 2
        OBVIOUS
      <3>1. v < TABLE_MAX
        BY <1>2 DEF Allowed
      <3>2. PICK two \in 1 .. GROUPS : two = 2
        BY <1>3
      <3>3. PICK p \in Nat : p = Power(Group, two)
        BY GroupPower
      <3>4. v < p
        BY <1>3, <2>1, <3>1, <3>2, <3>3, InstrAssumption
      <3>. QED  BY <2>1, <3>2, <3>3, <3>4, SizeUnder
    <2>3. kind = "byte" => Len(e) <= GROUPS - 3
      <3> SUFFICES ASSUME kind = "byte" PROVE Len(e) <= GROUPS - 3
        OBVIOUS
      <3>1. PICK m \in 1 .. GROUPS : m = GROUPS - 3
        BY <1>3
      <3>2. PICK p \in Nat : p = Power(Group, m)
        BY GroupPower
      <3>3. v < p
        BY <1>3, <2>1, <3>1, <3>2, InstrAssumption
      <3>. QED  BY <2>1, <3>1, <3>2, <3>3, SizeUnder
    <2>. QED  BY <1>1, <1>2, <1>5, <2>1, <2>2, <2>3
  <1>. QED  BY <1>4, <1>5

(* At most one operand is a byte offset, and only a CPI has a value.       *)
LEMMA OneByte ==
    ASSUME NEW op \in ToSet(Opcodes), op # "CPI"
    PROVE  \/ \A k \in 1 .. OperandCount(op) : Kinds(op)[k] \in {"id", "vref", "jump"}
           \/ /\ OperandCount(op) = 3
              /\ \E j \in 1 .. 3 : \A k \in 1 .. 3 :
                    IF k = j THEN Kinds(op)[k] = "byte"
                    ELSE Kinds(op)[k] \in {"id", "vref", "jump"}
  <1>1. ASSUME NEW k \in 1 .. OperandCount(op)
        PROVE  Kinds(op)[k] \in {"id", "byte", "vref", "jump"}
    BY JumpIsLast
  <1>2. CASE op = "LDB"
    <2>1. Kinds(op) = << "id", "byte", "id" >> /\ OperandCount(op) = 3
      BY <1>2 DEF Kinds, OperandCount
    <2>2. PICK j \in 1 .. 3 : j = 2
      OBVIOUS
    <2>3. \A k \in 1 .. 3 : k = 1 \/ k = 2 \/ k = 3
      OBVIOUS
    <2>. QED  BY <2>1, <2>2, <2>3
  <1>3. CASE op = "STB"
    <2>1. Kinds(op) = << "id", "id", "byte" >> /\ OperandCount(op) = 3
      BY <1>3 DEF Kinds, OperandCount
    <2>2. PICK j \in 1 .. 3 : j = 3
      OBVIOUS
    <2>3. \A k \in 1 .. 3 : k = 1 \/ k = 2 \/ k = 3
      OBVIOUS
    <2>. QED  BY <2>1, <2>2, <2>3
  <1>4. CASE op \notin {"LDB", "STB"}
    <2>1. op \in {"ILL", "UO", "BO", "UJ", "BJ", "PUSH", "PUSHR", "PUSHH", "POP",
              "JMP", "CPB", "LDE", "LDR", "STE", "STR", "CALL", "THROW", "RET"}
      BY <1>4 DEF ToSet, Opcodes
    <2>2. \A k \in 1 .. OperandCount(op) : k \in DOMAIN Kinds(op)
      BY KindsFacts
    <2>3. \A k \in DOMAIN Kinds(op) : Kinds(op)[k] # "byte"
      <3>1. CASE op \in {"ILL", "POP", "THROW", "RET"}
        BY <3>1 DEF Kinds
      <3>2. CASE op \in {"UO", "PUSH", "PUSHR", "CALL", "JMP", "PUSHH"}
        <4>1. Kinds(op) = << "id" >> \/ Kinds(op) = << "jump" >>
          BY <3>2 DEF Kinds
        <4>. QED  BY <4>1
      <3>3. CASE op \in {"CPB", "UJ"}
        <4>1. Kinds(op) = << "id", "id" >> \/ Kinds(op) = << "id", "jump" >>
          BY <3>3 DEF Kinds
        <4>. QED  BY <4>1
      <3>4. CASE op \in {"BO", "LDE", "STE", "BJ", "LDR", "STR"}
        <4>1. \/ Kinds(op) = << "id", "id", "id" >> \/ Kinds(op) = << "id", "id", "jump" >>
              \/ Kinds(op) = << "id", "vref", "id" >> \/ Kinds(op) = << "id", "id", "vref" >>
          BY <3>4 DEF Kinds
        <4>. QED  BY <4>1
      <3>. QED  BY <2>1, <3>1, <3>2, <3>3, <3>4
    <2>. QED  BY <1>1, <2>2, <2>3
  <1>. QED  BY <1>2, <1>3, <1>4

(* All but the one kind of legal instruction fit in their object.          *)
LEMMA LegalFits ==
    ASSUME NEW in \in Given, Legal(in), ~TooLong(in)
    PROVE  Offset(Part(in), OperandCount(in.op)) <= GROUPS + 1
  <1>1. PICK op : op = in.op
    OBVIOUS
  <1>2. PICK n \in 0 .. 3 : n = OperandCount(op)
    BY <1>1, PartFacts
  <1>20. PICK w \in [1 .. n -> Seq(Nat)] : w = Part(in)
    BY <1>1, <1>2, PartFacts
  <1>3. GROUPS \in Nat /\ GROUPS >= 5 /\ op \in ToSet(Opcodes)
    BY <1>1, InstrAssumption, GroupsAssumption, PartFacts
  <1>4. \A k \in 1 .. n :
           /\ Len(w[k]) \in 1 .. GROUPS
           /\ Kinds(op)[k] \in {"id", "vref", "jump"} => Len(w[k]) <= 2
           /\ Kinds(op)[k] = "byte" => Len(w[k]) <= GROUPS - 3
    <2> SUFFICES ASSUME NEW k \in 1 .. n
                 PROVE  /\ Len(w[k]) \in 1 .. GROUPS
                        /\ Kinds(op)[k] \in {"id", "vref", "jump"} => Len(w[k]) <= 2
                        /\ Kinds(op)[k] = "byte" => Len(w[k]) <= GROUPS - 3
      OBVIOUS
    <2>1. Len(w[k]) \in 1 .. GROUPS
      BY <1>1, <1>2, <1>20, PartFacts
    <2>2. Kinds(op)[k] \in {"id", "vref", "jump"} => Len(w[k]) <= 2
      <3>1. PICK kind, m : kind = Kinds(op)[k] /\ m = Len(w[k])
        OBVIOUS
      <3>2. kind = "jump" => m = 1
        BY <1>1, <1>2, <1>20, <3>1, LegalPart
      <3>3. kind \in {"id", "vref"} => m <= 2
        BY <1>1, <1>2, <1>20, <3>1, LegalPart
      <3>. QED  BY <3>1, <3>2, <3>3
    <2>3. Kinds(op)[k] = "byte" => Len(w[k]) <= GROUPS - 3
      BY <1>1, <1>2, <1>20, LegalPart
    <2>. QED  BY <2>1, <2>2, <2>3
  <1>5. PICK len : len = [k \in 1 .. n |-> Len(w[k])]
    OBVIOUS
  <1>6. \A k \in 1 .. n : len[k] \in 1 .. GROUPS
    BY <1>4, <1>5
  <1>7. /\ n = 0 => Offset(w, n) = 0
        /\ n = 1 => Offset(w, n) = len[1]
        /\ n = 2 => Offset(w, n) = len[1] + len[2]
        /\ n = 3 => Offset(w, n) = (len[1] + len[2]) + len[3]
    <2>1. /\ Offset(w, 0) = 0 /\ Offset(w, 1) = Len(w[1])
          /\ Offset(w, 2) = Len(w[1]) + Len(w[2])
          /\ Offset(w, 3) = (Len(w[1]) + Len(w[2])) + Len(w[3])
      BY DEF Offset
    <2>2. \A k \in 1 .. n : Len(w[k]) = len[k]
      BY <1>5
    <2>3. n = 1 => Len(w[1]) = len[1]
      BY <2>2
    <2>4. n = 2 => Len(w[1]) = len[1] /\ Len(w[2]) = len[2]
      BY <2>2
    <2>5. n = 3 => Len(w[1]) = len[1] /\ Len(w[2]) = len[2] /\ Len(w[3]) = len[3]
      BY <2>2
    <2>. QED  BY <2>1, <2>3, <2>4, <2>5
  <1>8. CASE op # "CPI" /\ \A k \in 1 .. n : Kinds(op)[k] \in {"id", "vref", "jump"}
    <2>1. \A k \in 1 .. n : len[k] \in 1 .. GROUPS /\ len[k] <= 2
      BY <1>4, <1>5, <1>8
    <2>2. n = 0 \/ n = 1 \/ n = 2 \/ n = 3
      OBVIOUS
    <2>. QED  BY <1>1, <1>2, <1>20, <1>3, <1>7, <2>1, <2>2
  <1>9. CASE op # "CPI" /\ n = 3 /\ \E j \in 1 .. 3 : \A k \in 1 .. 3 :
                IF k = j THEN Kinds(op)[k] = "byte"
                ELSE Kinds(op)[k] \in {"id", "vref", "jump"}
    <2>1. PICK j \in 1 .. 3 : \A k \in 1 .. 3 :
                IF k = j THEN Kinds(op)[k] = "byte"
                ELSE Kinds(op)[k] \in {"id", "vref", "jump"}
      BY <1>9
    <2>2. \A k \in 1 .. 3 : /\ len[k] \in 1 .. GROUPS
                            /\ IF k = j THEN len[k] <= GROUPS - 3 ELSE len[k] <= 2
      BY <1>4, <1>5, <1>9, <2>1
    <2>3. PICK a \in Nat, b \in Nat, c \in Nat : a = len[1] /\ b = len[2] /\ c = len[3]
      BY <2>2
    <2>4. (a + b) + c <= GROUPS + 1
      <3>1. j = 1 \/ j = 2 \/ j = 3
        OBVIOUS
      <3>2. /\ IF j = 1 THEN a <= GROUPS - 3 ELSE a <= 2
            /\ IF j = 2 THEN b <= GROUPS - 3 ELSE b <= 2
            /\ IF j = 3 THEN c <= GROUPS - 3 ELSE c <= 2
        BY <2>2, <2>3
      <3>3. PICK g \in Nat : g = GROUPS /\ g >= 5
        BY <1>3
      <3>4. \/ a <= g - 3 /\ b <= 2 /\ c <= 2
            \/ a <= 2 /\ b <= g - 3 /\ c <= 2
            \/ a <= 2 /\ b <= 2 /\ c <= g - 3
        BY <3>1, <3>2, <3>3
      <3>5. (a + b) + c <= g + 1
        BY <3>3, <3>4
      <3>. QED  BY <3>3, <3>5
    <2>. QED  BY <1>1, <1>2, <1>20, <1>7, <1>9, <2>3, <2>4
  <1>10. CASE op = "CPI"
    <2>1. Kinds(op) = << "value", "id" >> /\ n = 2
      BY <1>2, <1>20, <1>10 DEF Kinds, OperandCount
    <2>2. PICK a \in 1 .. GROUPS, b \in 1 .. GROUPS :
              a = len[1] /\ b = len[2] /\ a = Len(w[1]) /\ b = Len(w[2])
      BY <1>5, <1>6, <2>1
    <2>3. Kinds(op)[2] = "id" /\ Kinds(op)[1] = "value" /\ b <= 2
      BY <1>4, <2>1, <2>2
    <2>4. PICK x \in Nat, y \in Nat : /\ x = in.params[1] /\ y = in.params[2]
                                      /\ w[1] = WriteMBUInt(x) /\ w[2] = WriteMBUInt(y)
      <3>1. \A k \in 1 .. 2 : Kinds(in.op)[k] # "jump" =>
                in.params[k] \in Nat /\ Part(in)[k] = WriteMBUInt(in.params[k])
        BY <1>1, <1>2, <1>20, <2>1, PartFacts
      <3>. QED  BY <1>1, <1>2, <1>20, <2>3, <3>1
    <2>5. x < Power(Group, GROUPS - 1) => a <= GROUPS - 1
      <3>1. PICK m \in 1 .. GROUPS : m = GROUPS - 1
        BY <1>3
      <3>. QED  BY <2>2, <2>4, <3>1, SizeUnder
    <2>6. y < Group => b <= 1
      <3>1. PICK one \in 1 .. GROUPS : one = 1
        BY <1>3
      <3>2. Power(Group, one) = Group
        BY <3>1, GroupPower
      <3>. QED  BY <2>2, <2>4, <3>1, <3>2, SizeUnder
    <2>7. x < Power(Group, GROUPS - 1) \/ y < Group
      <3>1. PICK p \in Nat, q \in Nat : p = Power(Group, GROUPS - 1) /\ q = Group
        <4>1. PICK m \in Nat : m = GROUPS - 1
          BY <1>3
        <4>. QED  BY <4>1, GroupPower, GroupFacts
      <3>. QED  BY <1>1, <1>10, <2>4, <3>1 DEF TooLong
    <2>8. a + b <= GROUPS + 1
      BY <1>3, <2>3, <2>5, <2>6, <2>7
    <2>. QED  BY <1>1, <1>2, <1>20, <1>7, <2>1, <2>2, <2>8
  <1>11. \/ \A k \in 1 .. n : Kinds(op)[k] \in {"id", "vref", "jump"}
         \/ op = "CPI"
         \/ n = 3 /\ \E j \in 1 .. 3 : \A k \in 1 .. 3 :
                IF k = j THEN Kinds(op)[k] = "byte"
                ELSE Kinds(op)[k] \in {"id", "vref", "jump"}
    BY <1>2, <1>20, <1>3, OneByte
  <1>. QED  BY <1>8, <1>9, <1>10, <1>11

(* A legal instruction of that kind is cut off in its second operand.      *)
LEMMA TooLongCut ==
    ASSUME NEW in \in Given, TooLong(in)
    PROVE  /\ OperandCount(in.op) = 2 /\ Part(in) \in [1 .. 2 -> Seq(Nat)]
           /\ Kinds(in.op)[1] = "value" /\ IsNumber(Part(in)[1])
           /\ Offset(Part(in), 1) = GROUPS /\ Offset(Part(in), 2) > GROUPS + 1
  <1>1. in.op = "CPI" /\ OperandCount(in.op) = 2 /\ Kinds(in.op) = << "value", "id" >>
    BY DEF TooLong, OperandCount, Kinds
  <1>2. Kinds(in.op)[1] = "value" /\ Kinds(in.op)[2] = "id"
    BY <1>1
  <1>3. PICK w \in [1 .. 2 -> Seq(Nat)] : w = Part(in)
    <2>1. PICK n : n = OperandCount(in.op) /\ n = 2
      BY <1>1
    <2>2. Part(in) \in [1 .. n -> Seq(Nat)]
      BY <2>1, PartFacts
    <2>. QED  BY <2>1, <2>2
  <1>4. \A k \in 1 .. 2 : Kinds(in.op)[k] # "jump" =>
            /\ in.params[k] \in Nat /\ w[k] = WriteMBUInt(in.params[k])
            /\ IsNumber(w[k]) /\ Len(w[k]) \in 1 .. GROUPS
    BY <1>1, <1>3, PartFacts
  <1>5. PICK x \in Nat, y \in Nat :
           /\ x = in.params[1] /\ y = in.params[2]
           /\ Len(w[1]) = SizeOf(x) /\ Len(w[2]) = SizeOf(y) /\ IsNumber(w[1])
    BY <1>2, <1>4, UIntWritten
  <1>6. GROUPS \in Nat /\ GROUPS >= 3
    BY GroupsAssumption
  <1>7. SizeOf(x) = GROUPS
    <2> SUFFICES ASSUME SizeOf(x) # GROUPS PROVE FALSE
      OBVIOUS
    <2>1. PICK s \in 1 .. GROUPS : s = SizeOf(x)
      BY SizeOfFacts
    <2>2. PICK m \in Nat : m = GROUPS - 1 /\ s <= m /\ s \in Nat
      BY <1>6, <2>1
    <2>3. PICK p \in Nat, q \in Nat : p = Power(Group, s) /\ q = Power(Group, m)
      BY <2>2, GroupPower
    <2>4. p <= q
      BY <2>2, <2>3, PowerOver
    <2>5. x < p
      BY <2>1, <2>3, SizeOfFacts
    <2>6. x >= q
      BY <1>5, <2>2, <2>3 DEF TooLong
    <2>. QED  BY <2>3, <2>4, <2>5, <2>6
  <1>8. SizeOf(y) \in 2 .. GROUPS
    <2>1. PICK s \in 1 .. GROUPS : s = SizeOf(y)
      BY SizeOfFacts
    <2>2. s # 1
      <3> SUFFICES ASSUME s = 1 PROVE FALSE
        OBVIOUS
      <3>1. y < Power(Group, s)
        BY <1>6, <2>1, SizeOfFacts
      <3>2. PICK g \in Nat : g = Group /\ Power(Group, s) = g
        BY GroupPower, GroupFacts
      <3>3. y >= g
        BY <1>5, <3>2 DEF TooLong
      <3>. QED  BY <3>1, <3>2, <3>3
    <2>. QED  BY <2>1, <2>2
  <1>9. Offset(w, 1) = Len(w[1]) /\ Offset(w, 2) = Len(w[1]) + Len(w[2])
    BY DEF Offset
  <1>. QED  BY <1>1, <1>2, <1>3, <1>5, <1>6, <1>7, <1>8, <1>9

(* The verdict on a legal instruction.                                     *)
LEMMA LegalVerdict ==
    ASSUME NEW in \in Given, NEW garbage \in Garbage, Legal(in)
    PROVE  Verdict(in.op, Dat(in, garbage)) = IF TooLong(in) THEN "EndOfFile" ELSE OK
  <1>1. PICK op, d : op = in.op /\ d = Dat(in, garbage)
    OBVIOUS
  <1>2. PICK n \in 0 .. 3 : n = OperandCount(op)
    BY <1>1, PartFacts
  <1>3. op \in ToSet(Opcodes) /\ GROUPS \in Nat
    BY <1>1, PartFacts, GroupsAssumption
  <1>4. CASE TooLong(in)
    <2>1. /\ n = 2 /\ Kinds(op)[1] = "value" /\ IsNumber(Part(in)[1])
          /\ Offset(Part(in), 1) = GROUPS /\ Offset(Part(in), 2) > GROUPS + 1
      BY <1>1, <1>2, <1>4, TooLongCut
    <2>2. EndOf(d, 1) # None
      <3>1. PICK k \in 1 .. n : k = 1 /\ k - 1 = 0
        BY <2>1
      <3>2. Stood(in, d, k - 1)
        BY <3>1, StoodFirst
      <3>3. IsNumber(Part(in)[k]) /\ Offset(Part(in), k) <= GROUPS + 1 =>
                EndOf(d, k) = Offset(Part(in), k)
        BY <1>1, <1>2, <3>2, OneOperand DEF Stood
      <3>. QED  BY <1>3, <2>1, <3>1, <3>3 DEF None
    <2>3. Stood(in, d, 1)
      <3>1. PICK k \in 1 .. n : k = 1 /\ k - 1 = 0
        BY <2>1
      <3>2. Stood(in, d, k - 1)
        BY <3>1, StoodFirst
      <3>3. IsNumber(Part(in)[k]) /\ Offset(Part(in), k) <= GROUPS + 1 =>
                EndOf(d, k) = Offset(Part(in), k)
        BY <1>1, <1>2, <3>2, OneOperand DEF Stood
      <3>. QED  BY <1>3, <2>1, <3>1, <3>3 DEF Stood
    <2>4. EndOf(d, 2) = None
      <3>1. PICK k \in 1 .. n : k = 2 /\ k - 1 = 1
        BY <2>1
      <3>2. Offset(Part(in), k) > GROUPS + 1 => EndOf(d, k) = None
        BY <1>1, <1>2, <2>3, <3>1, OneOperand DEF Stood
      <3>. QED  BY <2>1, <3>1, <3>2
    <2>5. op = "CPI"
      BY <1>1, <1>4 DEF TooLong
    <2>. QED  BY <1>1, <1>3, <1>4, <2>2, <2>4, <2>5, VerdictFacts
  <1>5. CASE ~TooLong(in)
    <2>1. PICK w \in [1 .. n -> Seq(Nat)] : w = Part(in)
      BY <1>1, <1>2, PartFacts
    <2>2. Offset(w, n) <= GROUPS + 1
      BY <1>1, <1>2, <1>5, <2>1, LegalFits
    <2>3. \A k \in 1 .. n : Offset(w, k) \in Nat /\ Offset(w, k) <= GROUPS + 1
      <3> SUFFICES ASSUME NEW k \in 1 .. n
                   PROVE  Offset(w, k) \in Nat /\ Offset(w, k) <= GROUPS + 1
        OBVIOUS
      <3>1. PICK m \in Nat, p \in Nat : m = Offset(w, n) /\ p = Offset(w, k) /\ p <= m
        BY OffsetFacts
      <3>. QED  BY <1>3, <2>2, <3>1
    <2>4. ASSUME NEW k \in 1 .. n, Stood(in, d, k - 1)
          PROVE  Stood(in, d, k) /\ Right(op, d, k)
      <3>1. PICK v, kind, e : v = in.params[k] /\ kind = Kinds(op)[k] /\ e = w[k]
        OBVIOUS
      <3>2. /\ IsNumber(e) /\ Allowed(kind, v)
            /\ kind = "jump" => IntOf(e) = v
        BY <1>1, <1>2, <2>1, <3>1, LegalPart
      <3>3. IsNumber(e) /\ Offset(w, k) <= GROUPS + 1 =>
                /\ EndOf(d, k) = Offset(w, k)
                /\ Param(op, d, k) = IF kind = "jump" THEN IntOf(e) ELSE v
        BY <1>1, <1>2, <2>1, <2>4, <3>1, OneOperand DEF Stood
      <3>4. EndOf(d, k) = Offset(w, k) /\ Param(op, d, k) = v
        BY <2>3, <3>2, <3>3
      <3>5. EndOf(d, k) # None
        BY <2>3, <3>4 DEF None
      <3>. QED  BY <2>1, <2>3, <3>1, <3>2, <3>4, <3>5 DEF Stood, Right
    <2>5. Stood(in, d, 0)
      BY StoodFirst
    <2>6. \A k \in 1 .. n : Right(op, d, k)
      <3>1. n >= 1 => Stood(in, d, 1) /\ Right(op, d, 1)
        <4> SUFFICES ASSUME n >= 1 PROVE Stood(in, d, 1) /\ Right(op, d, 1)
          OBVIOUS
        <4>1. PICK k \in 1 .. n : k = 1 /\ k - 1 = 0
          OBVIOUS
        <4>. QED  BY <2>4, <2>5, <4>1
      <3>2. n >= 2 => Stood(in, d, 2) /\ Right(op, d, 2)
        <4> SUFFICES ASSUME n >= 2 PROVE Stood(in, d, 2) /\ Right(op, d, 2)
          OBVIOUS
        <4>1. PICK k \in 1 .. n : k = 2 /\ k - 1 = 1
          OBVIOUS
        <4>. QED  BY <2>4, <3>1, <4>1
      <3>3. n >= 3 => Right(op, d, 3)
        <4> SUFFICES ASSUME n >= 3 PROVE Right(op, d, 3)
          OBVIOUS
        <4>1. PICK k \in 1 .. n : k = 3 /\ k - 1 = 2
          OBVIOUS
        <4>. QED  BY <2>4, <3>2, <4>1
      <3>4. \A k \in 1 .. n : (k = 1 /\ n >= 1) \/ (k = 2 /\ n >= 2) \/ (k = 3 /\ n >= 3)
        OBVIOUS
      <3>. QED  BY <3>1, <3>2, <3>3, <3>4
    <2>7. Verdict(op, d) = OK
      BY <1>2, <1>3, <2>6, VerdictFacts
    <2>. QED  BY <1>1, <1>5, <2>7
  <1>. QED  BY <1>4, <1>5

-----------------------------------------------------------------------------
(* The second inductive invariant: each accepted instruction is one of     *)
(* Given, was accepted in some object and was checked as it reads there;   *)
(* the last verdict is that of the instruction offered.                    *)
Accepted(in, read) ==
    \E garbage \in Garbage :
        /\ Verdict(in.op, Dat(in, garbage)) = OK
        /\ read = InstrRead(in.op, Dat(in, garbage))
Offered(in, verdict) ==
    \/ in = [op |-> "POP", params |-> << >>] /\ verdict = OK
    \/ /\ in \in Given
       /\ \E garbage \in Garbage : verdict = Verdict(in.op, Dat(in, garbage))
GivenInv ==
    /\ given \in Seq(Given) /\ (\E T : checked \in Seq(T))
    /\ Len(given) = Len(checked)
    /\ \A n \in DOMAIN given : Accepted(given[n], checked[n])
    /\ Offered(offered, exc)

LEMMA InitGiven == Init => GivenInv
  BY DEF Init, GivenInv, Offered

LEMMA StepGiven == GivenInv /\ [Next]_vars => GivenInv'
  <1> SUFFICES ASSUME GivenInv, [Next]_vars PROVE GivenInv'
    OBVIOUS
  <1>1. CASE UNCHANGED vars
    BY <1>1 DEF GivenInv, vars
  <1>2. ASSUME NEW in \in Given, AddProcInstr(in) PROVE GivenInv'
    <2>1. PICK garbage \in Garbage :
            /\ offered' = in
            /\ exc' = Verdict(in.op, Dat(in, garbage))
            /\ IF Verdict(in.op, Dat(in, garbage)) # OK THEN UNCHANGED << given, checked >>
               ELSE /\ given' = Append(given, in)
                    /\ checked' = Append(checked, InstrRead(in.op, Dat(in, garbage)))
      BY <1>2 DEF AddProcInstr
    <2>2. Offered(offered', exc')
      BY <2>1 DEF Offered
    <2>3. CASE UNCHANGED << given, checked >>
      BY <2>2, <2>3 DEF GivenInv
    <2>4. CASE /\ Verdict(in.op, Dat(in, garbage)) = OK
               /\ given' = Append(given, in)
               /\ checked' = Append(checked, InstrRead(in.op, Dat(in, garbage)))
      <3>1. PICK read : read = InstrRead(in.op, Dat(in, garbage))
        OBVIOUS
      <3>2. Accepted(in, read)
        BY <2>4, <3>1 DEF Accepted
      <3>3. PICK T : checked \in Seq(T)
        BY DEF GivenInv
      <3>4. PICK U : U = T \cup {read}
        OBVIOUS
      <3>5. checked \in Seq(U) /\ read \in U
        BY <3>3, <3>4, WiderSeq
      <3>6. /\ given \in Seq(Given) /\ Len(given) = Len(checked)
            /\ \A n \in DOMAIN given : Accepted(given[n], checked[n])
        BY DEF GivenInv
      <3>7. given' \in Seq(Given) /\ checked' \in Seq(U) /\ Len(given') = Len(checked')
        BY <2>4, <3>1, <3>5, <3>6
      <3>8. ASSUME NEW n \in DOMAIN given' PROVE Accepted(given'[n], checked'[n])
        <4>1. CASE n \in DOMAIN given
          <5>1. given'[n] = given[n] /\ checked'[n] = checked[n]
            BY <2>4, <3>5, <3>6, <4>1
          <5>. QED  BY <3>6, <4>1, <5>1
        <4>2. CASE n \notin DOMAIN given
          <5>1. given'[n] = in /\ checked'[n] = read
            BY <2>4, <3>1, <3>5, <3>6, <3>8, <4>2
          <5>. QED  BY <3>2, <5>1
        <4>. QED  BY <4>1, <4>2
      <3>. QED  BY <2>2, <3>7, <3>8 DEF GivenInv
    <2>. QED  BY <2>1, <2>3, <2>4
  <1>. QED  BY <1>1, <1>2 DEF Next

(* GivenInv is an invariant of the instructions a client adds              *)
(* (mbuilder.cpp:250-259), from which the two theorems below follow.       *)
THEOREM GivenInvariance == Spec => []GivenInv
  BY InitGiven, StepGiven, PTL DEF Spec

(* OperandsKept for any instructions, any limits and any garbage: an       *)
(* operand that addProcInstr accepts (mbuilder.cpp:250-259) is the one the *)
(* constructor was given (instr.h, util.cpp:67-115), but for the jumps of  *)
(* Folded.                                                                 *)
THEOREM OperandsAreKept == Spec => []OperandsKept
  <1>1. GivenInv => OperandsKept
    <2> SUFFICES ASSUME GivenInv, NEW n \in DOMAIN given
                 PROVE  /\ given[n].op = checked[n].op
                        /\ \A k \in DOMAIN given[n].params :
                              \/ given[n].params[k] = checked[n].params[k]
                              \/ /\ Kinds(given[n].op)[k] = "jump"
                                 /\ Folded(given[n].params[k], checked[n].params[k])
      BY DEF OperandsKept
    <2>1. PICK in \in Given : in = given[n]
      BY DEF GivenInv
    <2>2. PICK garbage \in Garbage :
             /\ Verdict(in.op, Dat(in, garbage)) = OK
             /\ checked[n] = InstrRead(in.op, Dat(in, garbage))
      BY <2>1 DEF GivenInv, Accepted
    <2>3. DOMAIN in.params = 1 .. OperandCount(in.op)
          /\ DOMAIN Kinds(in.op) = 1 .. OperandCount(in.op)
      BY PartFacts, KindsFacts
    <2>4. checked[n].op = in.op
      BY <2>2 DEF InstrRead
    <2>5. ASSUME NEW k \in 1 .. OperandCount(in.op)
          PROVE  checked[n].params[k] = Param(in.op, Dat(in, garbage), k)
      BY <2>2, <2>3 DEF InstrRead
    <2>. QED  BY <2>1, <2>2, <2>3, <2>4, <2>5, Kept
  <1>. QED  BY <1>1, GivenInvariance, PTL

(* LegalIsAccepted for any instructions, any limits and any garbage: of    *)
(* the instructions with operands in range, addProcInstr                   *)
(* (mbuilder.cpp:250-259) accepts all but the one whose constructor runs   *)
(* over the end of its object (instr.h:12).                                *)
THEOREM LegalAccepted == Spec => []LegalIsAccepted
  <1>1. GivenInv => LegalIsAccepted
    <2> SUFFICES ASSUME GivenInv, Legal(offered)
                 PROVE  exc = IF TooLong(offered) THEN "EndOfFile" ELSE OK
      BY DEF LegalIsAccepted
    <2>1. CASE offered = [op |-> "POP", params |-> << >>] /\ exc = OK
      BY <2>1 DEF TooLong
    <2>2. CASE /\ offered \in Given
               /\ \E garbage \in Garbage : exc = Verdict(offered.op, Dat(offered, garbage))
      BY <2>2, LegalVerdict
    <2>. QED  BY <2>1, <2>2 DEF GivenInv, Offered
  <1>. QED  BY <1>1, GivenInvariance, PTL
=============================================================================
