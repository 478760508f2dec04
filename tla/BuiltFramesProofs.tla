------------------------- MODULE BuiltFramesProofs -------------------------
(***************************************************************************)
(* Proofs about the frames of BuiltCode: what the builder tracks call by   *)
(* call is what the code generator finds when it walks the accepted code,  *)
(* and the static checks give the generator what it never checks itself:   *)
(* operands among the open frames, branches to blocks it will fill, and    *)
(* handlers whose code lies inside their frame.                            *)
(*                                                                         *)
(* First the generator's walk, and what an accepted instruction does to    *)
(* the ProcCon; then the parts of the invariant, for tables m, a procedure *)
(* p of them and its ProcCon con, and that an instruction more in the code *)
(* keeps each; then the calls, and what the parts imply.                   *)
(***************************************************************************)
EXTENDS BuiltCodeProofs, SequenceTheorems, WellFoundedInduction

-----------------------------------------------------------------------------
(***************************************************************************)
(* Lemmas about the code generator's walk of a procedure: the frames at an *)
(* instruction are those one step of the walk makes of the frames at the   *)
(* instruction before; they depend on the code before it only; and the     *)
(* stack is its own history, each frame lying on the stack it was pushed   *)
(* on.  FramesAt is a recursive function, so the lemmas are by induction,  *)
(* over sets of natural numbers.                                           *)
(***************************************************************************)

LEMMA Least ==
    ASSUME NEW S, S \subseteq Nat, S # {}
    PROVE  \E n \in S : \A k \in S : n <= k
  <1> DEFINE R == OpToRel(<, Nat)
  <1>1. PICK n \in S : \A k \in S : <<k, n>> \notin R
    <2>1. IsWellFoundedOn(R, Nat)
      BY NatLessThanWellFounded
    <2> HIDE DEF R
    <2>. QED  BY <2>1, WFMin
  <1>2. \A k \in S : ~(k < n)
    BY <1>1 DEF OpToRel
  <1>. QED  BY <1>2

LEMMA SetInduction ==
    ASSUME NEW S, 0 \in S, \A n \in Nat : n \in S => n + 1 \in S
    PROVE  Nat \subseteq S
  <1> SUFFICES ASSUME Nat \ S # {} PROVE FALSE
    OBVIOUS
  <1>1. PICK n \in Nat \ S : \A k \in Nat \ S : n <= k
    BY Least
  <1>2. n - 1 \in Nat /\ n - 1 \in S
    BY <1>1
  <1>. QED  BY <1>1, <1>2

(* Of the numbers up to a bound there is a greatest in every set.          *)
LEMMA MaxFacts ==
    ASSUME NEW S, NEW n \in Nat, S \subseteq 0 .. n, S # {}
    PROVE  /\ Max(S) \in S
           /\ \A k \in S : k <= Max(S)
  <1> DEFINE T == {n - k : k \in S}
  <1>0. \A k \in S : n - k \in Nat
    OBVIOUS
  <1>1. T \subseteq Nat /\ T # {}
    BY <1>0
  <1>2. PICK t \in T : \A k \in T : t <= k
    BY <1>1, Least
  <1>3. \E x \in S : \A y \in S : x >= y
    <2>1. PICK x \in S : t = n - x
      BY <1>2
    <2>2. \A y \in S : n - x <= n - y
      BY <1>2, <2>1
    <2>. QED  BY <2>2
  <1>4. Max(S) \in S /\ \A y \in S : Max(S) >= y
    BY <1>3 DEF Max
  <1>. QED  BY <1>4

-----------------------------------------------------------------------------
Base(m, p) == << [at |-> None, ftype |-> "REGNR", hindex |-> None,
                  reg |-> At(m.ptypes, At(m.procs, p).ptype).io] >>
Step(m, p, frames, i) == StepFrames(frames, InstrAt(m, p, i), i)

(* A walk as far as instruction n.                                         *)
WalkTo(m, p, n, g) ==
    g = [k \in 0 .. n |-> IF k = 0 THEN Base(m, p)
                          ELSE Step(m, p, g[k - 1], k - 1)]

LEMMA WalkToExists ==
    ASSUME NEW m, NEW p
    PROVE  \A n \in Nat : \E g : WalkTo(m, p, n, g)
  <1> DEFINE S == {n \in Nat : \E g : WalkTo(m, p, n, g)}
  <1>1. 0 \in S
    <2>1. WalkTo(m, p, 0, [k \in 0 .. 0 |-> Base(m, p)])
      BY DEF WalkTo
    <2>. QED  BY <2>1
  <1>2. ASSUME NEW n \in Nat, n \in S
        PROVE  n + 1 \in S
    <2>1. PICK g : WalkTo(m, p, n, g)
      BY <1>2
    <2> DEFINE h == [k \in 0 .. n + 1 |->
                        IF k = n + 1 THEN Step(m, p, g[n], n) ELSE g[k]]
    <2>2. \A k \in 0 .. n + 1 :
             h[k] = IF k = 0 THEN Base(m, p) ELSE Step(m, p, h[k - 1], k - 1)
      <3> SUFFICES ASSUME NEW k \in 0 .. n + 1
                   PROVE  h[k] = IF k = 0 THEN Base(m, p)
                                 ELSE Step(m, p, h[k - 1], k - 1)
        OBVIOUS
      <3>1. CASE k = n + 1
        <4>1. h[k] = Step(m, p, g[n], n) /\ h[k - 1] = g[n] /\ k # 0 /\ k - 1 = n
          BY <3>1
        <4>. QED  BY <4>1
      <3>2. CASE k # n + 1
        <4>1. k \in 0 .. n
          BY <3>2
        <4>2. g[k] = IF k = 0 THEN Base(m, p) ELSE Step(m, p, g[k - 1], k - 1)
          BY <2>1, <4>1 DEF WalkTo
        <4>3. h[k] = g[k] /\ (k # 0 => h[k - 1] = g[k - 1])
          BY <4>1
        <4>. QED  BY <4>2, <4>3
      <3>. QED  BY <3>1, <3>2
    <2>3. WalkTo(m, p, n + 1, h)
      <3> HIDE DEF h
      <3>1. h = [k \in 0 .. n + 1 |-> h[k]]
        BY DEF h
      <3>. QED  BY <2>2, <3>1 DEF WalkTo
    <2>. QED  BY <2>3
  <1> HIDE DEF S
  <1>3. Nat \subseteq S
    BY <1>1, <1>2, SetInduction
  <1>. QED  BY <1>3 DEF S

LEMMA WalkToUnique ==
    ASSUME NEW m, NEW p, NEW n \in Nat, NEW g, WalkTo(m, p, n, g),
           NEW n2 \in Nat, NEW h, WalkTo(m, p, n2, h)
    PROVE  \A k \in Nat : k <= n /\ k <= n2 => g[k] = h[k]
  <1> DEFINE S == {k \in Nat : k <= n /\ k <= n2 => g[k] = h[k]}
  <1>1. 0 \in S
    BY DEF WalkTo
  <1>2. ASSUME NEW k \in Nat, k \in S
        PROVE  k + 1 \in S
    <2> SUFFICES ASSUME k + 1 <= n, k + 1 <= n2
                 PROVE  g[k + 1] = h[k + 1]
      OBVIOUS
    <2>1. g[k] = h[k]
      BY <1>2
    <2>2. g[k + 1] = Step(m, p, g[k], k) /\ h[k + 1] = Step(m, p, h[k], k)
      BY DEF WalkTo
    <2>. QED  BY <2>1, <2>2
  <1> HIDE DEF S
  <1>3. Nat \subseteq S
    BY <1>1, <1>2, SetInduction
  <1>. QED  BY <1>3 DEF S

(* FramesAt is what its recursive definition says.                         *)
LEMMA WalkFacts ==
    ASSUME NEW m, NEW p
    PROVE  /\ FramesAt(m, p, 0) = Base(m, p)
           /\ \A i \in Nat : FramesAt(m, p, i + 1)
                                = Step(m, p, FramesAt(m, p, i), i)
  <1> DEFINE To(n) == CHOOSE g : WalkTo(m, p, n, g)
             f == [n \in Nat |-> To(n)[n]]
             Walks(w) == w = [n \in Nat |-> IF n = 0 THEN Base(m, p)
                                      ELSE Step(m, p, w[n - 1], n - 1)]
             walk == CHOOSE w : Walks(w)
  <1>1. \A n \in Nat : WalkTo(m, p, n, To(n))
    BY WalkToExists
  <1>2. \A n \in Nat : f[n] = IF n = 0 THEN Base(m, p)
                              ELSE Step(m, p, f[n - 1], n - 1)
    <2> SUFFICES ASSUME NEW n \in Nat
                 PROVE  f[n] = IF n = 0 THEN Base(m, p)
                               ELSE Step(m, p, f[n - 1], n - 1)
      OBVIOUS
    <2> HIDE DEF To
    <2>1. To(n)[n] = IF n = 0 THEN Base(m, p) ELSE Step(m, p, To(n)[n - 1], n - 1)
      BY <1>1 DEF WalkTo
    <2>2. CASE n = 0
      BY <2>1, <2>2
    <2>3. CASE n # 0
      <3>1. n - 1 \in Nat
        BY <2>3
      <3>2. To(n)[n - 1] = To(n - 1)[n - 1]
        BY <1>1, <3>1, WalkToUnique
      <3>. QED  BY <2>1, <2>3, <3>1, <3>2
    <2>. QED  BY <2>2, <2>3
  <1>3. Walks(f)
    <2> HIDE DEF f
    <2>1. f = [n \in Nat |-> f[n]]
      BY DEF f
    <2>. QED  BY <1>2, <2>1
  <1>4. Walks(walk)
    <2> HIDE DEF Walks, f
    <2>. QED  BY <1>3
  <1>5. \A i : FramesAt(m, p, i) = walk[i]
    BY DEF FramesAt, Base, Step
  <1> HIDE DEF walk
  <1>6. walk[0] = Base(m, p) /\ \A i \in Nat : walk[i + 1] = Step(m, p, walk[i], i)
    BY <1>4
  <1>. QED  BY <1>5, <1>6

-----------------------------------------------------------------------------
(* What a step needs to know of its instruction: what is pushed has a      *)
(* register or an offset, and no POP takes the procedure's own frame.      *)
Walkable(m, p) ==
    /\ Len(Code(m, p)) \in Nat
    /\ At(m.ptypes, At(m.procs, p).ptype).io \in Int
    /\ \A i \in CodeIds(m, p) :
          /\ InstrAt(m, p, i).op \in {"PUSH", "PUSHR"}
                => InstrAt(m, p, i).reg \in Int
          /\ InstrAt(m, p, i).op = "PUSHH" => InstrAt(m, p, i).offset \in Int
          /\ InstrAt(m, p, i).op = "POP" => Len(FramesAt(m, p, i)) > 1

GenFrames == [at : Int, ftype : FrameTypes, reg : Int, hindex : Int]
Pushes(in) == in.op \in {"PUSH", "PUSHR", "PUSHH"}

(* The frame an instruction pushes.                                        *)
Pushed(in, i) ==
    [at |-> i,
     ftype |-> IF in.op = "PUSH" THEN "REGNR"
               ELSE IF in.op = "PUSHR" THEN "REGR" ELSE "HAND",
     reg |-> IF in.op = "PUSHH" THEN None ELSE in.reg,
     hindex |-> IF in.op = "PUSHH" THEN BranchIndex(in, i) ELSE None]

LEMMA StepCases ==
    ASSUME NEW frames, NEW in, NEW i
    PROVE  /\ Pushes(in) => StepFrames(frames, in, i) = Append(frames, Pushed(in, i))
           /\ in.op = "POP" => StepFrames(frames, in, i) = Front(frames)
           /\ ~Pushes(in) /\ in.op # "POP" => StepFrames(frames, in, i) = frames
  <1>1. in.op = "PUSH" => StepFrames(frames, in, i) = Append(frames, Pushed(in, i))
    BY DEF StepFrames, Pushed
  <1>2. in.op = "PUSHR" => StepFrames(frames, in, i) = Append(frames, Pushed(in, i))
    BY DEF StepFrames, Pushed
  <1>3. in.op = "PUSHH" => StepFrames(frames, in, i) = Append(frames, Pushed(in, i))
    BY DEF StepFrames, Pushed
  <1>4. in.op = "POP" => StepFrames(frames, in, i) = Front(frames)
    BY DEF StepFrames
  <1>5. ~Pushes(in) /\ in.op # "POP" => StepFrames(frames, in, i) = frames
    BY DEF StepFrames, Pushes
  <1>. QED  BY <1>1, <1>2, <1>3, <1>4, <1>5 DEF Pushes

LEMMA PushedType ==
    ASSUME NEW m, NEW p, Walkable(m, p), NEW i \in CodeIds(m, p),
           Pushes(InstrAt(m, p, i))
    PROVE  Pushed(InstrAt(m, p, i), i) \in GenFrames
  <1> DEFINE in == InstrAt(m, p, i)
             f == Pushed(in, i)
  <1>1. i \in Int
    BY DEF CodeIds, Ids, Walkable
  <1>2. /\ in.op \in {"PUSH", "PUSHR"} => in.reg \in Int
        /\ in.op = "PUSHH" => in.offset \in Int
    BY DEF Walkable
  <1> HIDE DEF in
  <1>3. f.hindex \in Int
    BY <1>1, <1>2 DEF Pushed, BranchIndex, None
  <1>4. f.reg \in Int
    BY <1>1, <1>2 DEF Pushed, None, Pushes, in
  <1>5. f.ftype \in FrameTypes
    BY DEF Pushed, FrameTypes
  <1>6. f = [at |-> i, ftype |-> f.ftype, reg |-> f.reg, hindex |-> f.hindex]
    BY DEF Pushed
  <1> HIDE DEF f
  <1>7. f \in GenFrames
    BY <1>1, <1>3, <1>4, <1>5, <1>6 DEF GenFrames
  <1>. QED  BY <1>7 DEF f, in

(* Sequences cut short.                                                    *)
LEMMA CutFacts ==
    ASSUME NEW S, NEW s \in Seq(S), NEW k \in 0 .. Len(s)
    PROVE  /\ SubSeq(s, 1, k) \in Seq(S)
           /\ Len(SubSeq(s, 1, k)) = k
           /\ \A j \in 1 .. k : SubSeq(s, 1, k)[j] = s[j]
           /\ \A j \in 0 .. k : SubSeq(SubSeq(s, 1, k), 1, j) = SubSeq(s, 1, j)
           /\ SubSeq(s, 1, Len(s)) = s
  <1>1. /\ SubSeq(s, 1, k) \in Seq(S)
        /\ Len(SubSeq(s, 1, k)) = k
        /\ \A j \in 1 .. k : SubSeq(s, 1, k)[j] = s[j]
    OBVIOUS
  <1>2. ASSUME NEW j \in 0 .. k
        PROVE  SubSeq(SubSeq(s, 1, k), 1, j) = SubSeq(s, 1, j)
    <2> DEFINE t == SubSeq(s, 1, k)
    <2>1. /\ t \in Seq(S) /\ Len(t) = k
          /\ \A i \in 1 .. k : t[i] = s[i]
      BY <1>1
    <2> HIDE DEF t
    <2>2. /\ SubSeq(t, 1, j) \in Seq(S) /\ Len(SubSeq(t, 1, j)) = j
          /\ \A i \in 1 .. j : SubSeq(t, 1, j)[i] = t[i]
      BY <2>1
    <2>3. /\ SubSeq(s, 1, j) \in Seq(S) /\ Len(SubSeq(s, 1, j)) = j
          /\ \A i \in 1 .. j : SubSeq(s, 1, j)[i] = s[i]
      OBVIOUS
    <2>4. SubSeq(t, 1, j) = SubSeq(s, 1, j)
      <3>1. \A i \in 1 .. j : SubSeq(t, 1, j)[i] = SubSeq(s, 1, j)[i]
        BY <2>1, <2>2, <2>3
      <3>. QED  BY <2>2, <2>3, <3>1, SeqEqual
    <2>. QED  BY <2>4 DEF t
  <1>3. SubSeq(s, 1, Len(s)) = s
    BY SeqEqual
  <1>. QED  BY <1>1, <1>2, <1>3

LEMMA ExtendFacts ==
    ASSUME NEW S, NEW s \in Seq(S), NEW e \in S
    PROVE  /\ Append(s, e) \in Seq(S)
           /\ Len(Append(s, e)) = Len(s) + 1
           /\ Append(s, e)[Len(s) + 1] = e
           /\ \A j \in 1 .. Len(s) : Append(s, e)[j] = s[j]
           /\ \A j \in 0 .. Len(s) : SubSeq(Append(s, e), 1, j) = SubSeq(s, 1, j)
  <1>1. /\ Append(s, e) \in Seq(S)
        /\ Len(Append(s, e)) = Len(s) + 1
        /\ Append(s, e)[Len(s) + 1] = e
        /\ \A j \in 1 .. Len(s) : Append(s, e)[j] = s[j]
    OBVIOUS
  <1>2. ASSUME NEW j \in 0 .. Len(s)
        PROVE  SubSeq(Append(s, e), 1, j) = SubSeq(s, 1, j)
    <2>1. /\ SubSeq(s, 1, j) \in Seq(S) /\ Len(SubSeq(s, 1, j)) = j
          /\ \A i \in 1 .. j : SubSeq(s, 1, j)[i] = s[i]
      BY CutFacts
    <2> DEFINE t == Append(s, e)
    <2>2. /\ t \in Seq(S) /\ j \in 0 .. Len(t)
          /\ \A i \in 1 .. j : t[i] = s[i]
      BY <1>1
    <2> HIDE DEF t
    <2>3. /\ SubSeq(t, 1, j) \in Seq(S) /\ Len(SubSeq(t, 1, j)) = j
          /\ \A i \in 1 .. j : SubSeq(t, 1, j)[i] = t[i]
      BY <2>2, CutFacts
    <2>4. SubSeq(t, 1, j) = SubSeq(s, 1, j)
      <3>1. \A i \in 1 .. j : SubSeq(t, 1, j)[i] = SubSeq(s, 1, j)[i]
        BY <2>1, <2>2, <2>3
      <3>. QED  BY <2>1, <2>3, <3>1, SeqEqual
    <2>. QED  BY <2>4 DEF t
  <1>. QED  BY <1>1, <1>2
(* The frames at every instruction, and after the last, are frames, and    *)
(* the procedure's own is always there.                                    *)
LEMMA WalkType ==
    ASSUME NEW m, NEW p, Walkable(m, p)
    PROVE  \A i \in 0 .. Len(Code(m, p)) :
               /\ FramesAt(m, p, i) \in Seq(GenFrames)
               /\ Len(FramesAt(m, p, i)) \in Nat \ {0}
               /\ FramesAt(m, p, i) # << >>
  <1> DEFINE F(i) == FramesAt(m, p, i)
             S == {i \in Nat : i <= Len(Code(m, p)) =>
                                  F(i) \in Seq(GenFrames) /\ Len(F(i)) \in Nat \ {0}}
  <1>1. 0 \in S
    <2> DEFINE f == [at |-> None, ftype |-> "REGNR", hindex |-> None,
                     reg |-> At(m.ptypes, At(m.procs, p).ptype).io]
    <2>1. f \in GenFrames
      BY DEF Walkable, GenFrames, None, FrameTypes
    <2>2. F(0) = << f >>
      BY WalkFacts DEF Base
    <2> HIDE DEF f, F
    <2>3. F(0) \in Seq(GenFrames) /\ Len(F(0)) = 1
      BY <2>1, <2>2
    <2>. QED  BY <2>3 DEF F
  <1>2. ASSUME NEW i \in Nat, i \in S
        PROVE  i + 1 \in S
    <2> SUFFICES ASSUME i + 1 <= Len(Code(m, p))
                 PROVE  F(i + 1) \in Seq(GenFrames) /\ Len(F(i + 1)) \in Nat \ {0}
      OBVIOUS
    <2> DEFINE in == InstrAt(m, p, i)
    <2>1. F(i) \in Seq(GenFrames) /\ Len(F(i)) \in Nat \ {0}
      BY <1>2 DEF Walkable
    <2>2. i \in CodeIds(m, p)
      BY DEF CodeIds, Ids, Walkable
    <2>3. F(i + 1) = StepFrames(F(i), in, i)
      BY WalkFacts DEF Step
    <2> HIDE DEF F
    <2>4. CASE Pushes(in)
      <3>1. F(i + 1) = Append(F(i), Pushed(in, i)) /\ Pushed(in, i) \in GenFrames
        BY <2>2, <2>3, <2>4, StepCases, PushedType
      <3>. QED  BY <2>1, <3>1
    <2>5. CASE in.op = "POP"
      <3>1. F(i + 1) = SubSeq(F(i), 1, Len(F(i)) - 1) /\ Len(F(i)) > 1
        BY <2>2, <2>3, <2>5, StepCases DEF Walkable, Front, F
      <3>2. Len(F(i)) - 1 \in 0 .. Len(F(i))
        BY <2>1, <3>1
      <3>. QED  BY <2>1, <3>1, <3>2, CutFacts
    <2>6. CASE ~Pushes(in) /\ in.op # "POP"
      BY <2>1, <2>3, <2>6, StepCases
    <2>. QED  BY <2>4, <2>5, <2>6
  <1> HIDE DEF S
  <1>3. Nat \subseteq S
    BY <1>1, <1>2, SetInduction
  <1>4. Len(Code(m, p)) \in Nat
    BY DEF Walkable
  <1>5. ASSUME NEW i \in 0 .. Len(Code(m, p))
        PROVE  F(i) \in Seq(GenFrames) /\ Len(F(i)) \in Nat \ {0}
    BY <1>3, <1>4, <1>5 DEF S
  <1>. QED  BY <1>5

(* The walk of one procedure is that of another as long as they start with *)
(* one frame and have one code.                                            *)
LEMMA SameWalk ==
    ASSUME NEW m, NEW p, NEW n, NEW q, NEW size \in Nat, Base(m, p) = Base(n, q),
           \A i \in 0 .. size - 1 : InstrAt(m, p, i) = InstrAt(n, q, i)
    PROVE  \A i \in 0 .. size : FramesAt(m, p, i) = FramesAt(n, q, i)
  <1> DEFINE S == {i \in Nat : i <= size => FramesAt(m, p, i) = FramesAt(n, q, i)}
  <1>1. 0 \in S
    BY WalkFacts
  <1>2. ASSUME NEW i \in Nat, i \in S
        PROVE  i + 1 \in S
    <2> SUFFICES ASSUME i + 1 <= size
                 PROVE  FramesAt(m, p, i + 1) = FramesAt(n, q, i + 1)
      OBVIOUS
    <2>1. FramesAt(m, p, i) = FramesAt(n, q, i) /\ InstrAt(m, p, i) = InstrAt(n, q, i)
      BY <1>2
    <2>2. /\ FramesAt(m, p, i + 1) = Step(m, p, FramesAt(m, p, i), i)
          /\ FramesAt(n, q, i + 1) = Step(n, q, FramesAt(n, q, i), i)
      BY WalkFacts
    <2>. QED  BY <2>1, <2>2 DEF Step
  <1> HIDE DEF S
  <1>3. Nat \subseteq S
    BY <1>1, <1>2, SetInduction
  <1>. QED  BY <1>3 DEF S

(* Frame k of a stack s, as it is at instruction i: the procedure's own,   *)
(* or pushed before i by an instruction that found the frames below it.    *)
Remembered(m, p, s, i, k) ==
    LET f == s[k] IN
    /\ f.at \in Int /\ f.at < i
    /\ SubSeq(s, 1, k) = FramesAt(m, p, f.at + 1)
    /\ IF k = 1 THEN f = Base(m, p)[1] /\ f.at = None
       ELSE /\ f.at \in CodeIds(m, p) /\ Pushes(InstrAt(m, p, f.at))
            /\ f = Pushed(InstrAt(m, p, f.at), f.at)

LEMMA StackHistory ==
    ASSUME NEW m, NEW p, Walkable(m, p)
    PROVE  \A i \in 0 .. Len(Code(m, p)) : \A k \in 1 .. Len(FramesAt(m, p, i)) :
               Remembered(m, p, FramesAt(m, p, i), i, k)
  <1> DEFINE F(i) == FramesAt(m, p, i)
             R(i) == \A k \in 1 .. Len(F(i)) : Remembered(m, p, F(i), i, k)
             S == {i \in Nat : i <= Len(Code(m, p)) => R(i)}
  <1>0. Len(Code(m, p)) \in Nat
    BY DEF Walkable
  <1>1. 0 \in S
    <2>1. F(0) = Base(m, p) /\ Len(Base(m, p)) = 1 /\ Base(m, p)[1].at = None
      BY WalkFacts DEF Base
    <2>2. SubSeq(F(0), 1, 1) = F(0)
      BY <1>0, <2>1, WalkType, CutFacts
    <2>3. Remembered(m, p, F(0), 0, 1)
      BY <2>1, <2>2 DEF Remembered, None
    <2>4. \A k \in 1 .. Len(F(0)) : k = 1
      <3>1. Len(F(0)) = 1
        BY <2>1
      <3>2. \A k \in 1 .. 1 : k = 1
        OBVIOUS
      <3>. QED  BY ONLY <3>1, <3>2
    <2>5. R(0)
      BY <2>3, <2>4
    <2> HIDE DEF R
    <2>. QED  BY <2>5
  <1>2. ASSUME NEW i \in Nat, i \in S
        PROVE  i + 1 \in S
    <2> SUFFICES ASSUME i + 1 <= Len(Code(m, p)), NEW k \in 1 .. Len(F(i + 1))
                 PROVE  Remembered(m, p, F(i + 1), i + 1, k)
      OBVIOUS
    <2> DEFINE in == InstrAt(m, p, i)
    <2>1. /\ F(i) \in Seq(GenFrames) /\ Len(F(i)) \in Nat \ {0}
          /\ F(i + 1) \in Seq(GenFrames) /\ Len(F(i + 1)) \in Nat \ {0}
      BY <1>0, WalkType
    <2>2. i \in CodeIds(m, p)
      BY <1>0 DEF CodeIds, Ids
    <2>3. F(i + 1) = StepFrames(F(i), in, i)
      BY WalkFacts DEF Step
    <2>4. \A j \in 1 .. Len(F(i)) : Remembered(m, p, F(i), i, j)
      BY <1>0, <1>2
    <2> HIDE DEF F
    <2>5. ASSUME k <= Len(F(i)), F(i + 1)[k] = F(i)[k],
                 SubSeq(F(i + 1), 1, k) = SubSeq(F(i), 1, k)
          PROVE  Remembered(m, p, F(i + 1), i + 1, k)
      <3>1. Remembered(m, p, F(i), i, k)
        BY <2>1, <2>4, <2>5
      <3>. QED  BY <2>5, <3>1 DEF Remembered
    <2>6. CASE Pushes(in)
      <3>1. F(i + 1) = Append(F(i), Pushed(in, i)) /\ Pushed(in, i) \in GenFrames
        BY <2>2, <2>3, <2>6, StepCases, PushedType
      <3>2. CASE k <= Len(F(i))
        <4>1. k \in 1 .. Len(F(i)) /\ k \in 0 .. Len(F(i))
          BY <2>1, <3>2
        <4>2. F(i + 1)[k] = F(i)[k] /\ SubSeq(F(i + 1), 1, k) = SubSeq(F(i), 1, k)
          <5>1. PICK s \in Seq(GenFrames) : s = F(i)
            BY <2>1
          <5>2. PICK e \in GenFrames : e = Pushed(in, i)
            BY <3>1
          <5>3. k \in 1 .. Len(s) /\ k \in 0 .. Len(s)
            BY <4>1, <5>1
          <5>4. /\ Append(s, e)[k] = s[k]
                /\ SubSeq(Append(s, e), 1, k) = SubSeq(s, 1, k)
            BY <5>3, ExtendFacts
          <5>. QED  BY <3>1, <5>1, <5>2, <5>4
        <4>. QED  BY <2>5, <3>2, <4>2
      <3>3. CASE ~(k <= Len(F(i)))
        <4>1. k = Len(F(i)) + 1 /\ k # 1 /\ k = Len(F(i + 1))
          BY <2>1, <3>1, <3>3, ExtendFacts
        <4>2. F(i + 1)[k] = Pushed(in, i)
          BY <2>1, <3>1, <4>1, ExtendFacts
        <4>3. SubSeq(F(i + 1), 1, k) = F(i + 1)
          BY <2>1, <4>1, CutFacts
        <4>4. Pushed(in, i).at = i
          BY DEF Pushed
        <4>. QED  BY <2>2, <2>6, <4>1, <4>2, <4>3, <4>4 DEF Remembered, F
      <3>. QED  BY <3>2, <3>3
    <2>7. CASE in.op = "POP"
      <3>1. F(i + 1) = SubSeq(F(i), 1, Len(F(i)) - 1) /\ Len(F(i)) > 1
        BY <2>2, <2>3, <2>7, StepCases DEF Walkable, Front, F
      <3>2. Len(F(i)) - 1 \in 0 .. Len(F(i))
        BY <2>1, <3>1
      <3>3. k \in 1 .. Len(F(i)) - 1 /\ k \in 0 .. Len(F(i)) - 1
        BY <2>1, <3>1, <3>2, CutFacts
      <3>4. F(i + 1)[k] = F(i)[k] /\ SubSeq(F(i + 1), 1, k) = SubSeq(F(i), 1, k)
        <4> DEFINE c == Len(F(i)) - 1
        <4>1. c \in 0 .. Len(F(i)) /\ k \in 1 .. c /\ k \in 0 .. c
          BY <3>2, <3>3
        <4>2. F(i + 1) = SubSeq(F(i), 1, c)
          BY <3>1
        <4> HIDE DEF c
        <4>. QED  BY <2>1, <4>1, <4>2, CutFacts
      <3>. QED  BY <2>1, <2>5, <3>3, <3>4
    <2>8. CASE ~Pushes(in) /\ in.op # "POP"
      <3>1. F(i + 1) = F(i)
        BY <2>3, <2>8, StepCases
      <3>. QED  BY <2>1, <2>5, <3>1
    <2>. QED  BY <2>6, <2>7, <2>8
  <1> HIDE DEF S
  <1>3. Nat \subseteq S
    BY <1>1, <1>2, SetInduction
  <1>4. ASSUME NEW i \in 0 .. Len(Code(m, p))
        PROVE  R(i)
    BY <1>0, <1>3, <1>4 DEF S
  <1>. QED  BY <1>4

-----------------------------------------------------------------------------
(* What an accepted instruction does to the ProcCon.                       *)
Jumps(in) == in.op \in {"UJ", "BJ", "JMP", "PUSHH"}
Target(m, p, i) == BranchIndex(InstrAt(m, p, i), i)

(* What an accepted instruction makes of c.                                *)
Effected(c, in, d) ==
    LET t == BranchIndex(in, c.instrCount) IN
    /\ in.op = "PUSH" => d = PushFrame(c, "REGNR", in.reg)
    /\ in.op = "PUSHR" => d = PushFrame(c, "REGR", in.reg)
    /\ in.op = "PUSHH" => /\ in.offset \in Int /\ t \in Nat /\ t > c.instrCount
                          /\ d = AddJump(PushFrame(c, "HAND", PRESET_REG_ED), t)
    /\ in.op = "POP" => /\ Len(c.frames) # 1 /\ d = PopFrame(c)
                        /\ \A t2 \in c.frames[Len(c.frames)].jumps : ~(t2 > c.instrCount)
    /\ in.op \in {"JMP", "UJ", "BJ"} => t \in Nat /\ d = AddJump(c, t)
    /\ in.op \notin {"PUSH", "PUSHR", "PUSHH", "POP", "JMP", "UJ", "BJ"} => d = c

LEMMA HandlerEffect ==
    ASSUME NEW c, ConType(c, Nat), NEW offset, ApplyBeginHandler(c, offset).exc = OK
    PROVE  /\ offset \in Int /\ c.instrCount + offset \in Nat
           /\ c.instrCount + offset > c.instrCount
           /\ ApplyBeginHandler(c, offset).con
                = AddJump(PushFrame(c, "HAND", PRESET_REG_ED), c.instrCount + offset)
  <1>0. "HAND" \in FrameTypes /\ PRESET_REG_ED \in Nat
    BY DEF FrameTypes, PRESET_REG_ED
  <1>1. PICK u, b :
            /\ ApplyBeginFrame(c, "HAND", PRESET_REG_ED) = [exc |-> u, con |-> b]
            /\ ConType(b, Nat)
            /\ u # OK => b = c
            /\ u = OK => b = PushFrame(c, "HAND", PRESET_REG_ED)
    BY <1>0, BeginFacts
  <1>2. u = OK
    BY <1>1 DEF ApplyBeginHandler
  <1>3. /\ b.instrCount = c.instrCount /\ c.instrCount \in Nat
        /\ b.frames[Len(b.frames)].firstInstr = c.instrCount + 1
    BY <1>0, <1>1, <1>2, PushFrameFacts, ConFacts
  <1>4. offset \in INSTR_OFFSET_MIN .. INSTR_OFFSET_MAX
    <2>1. CASE offset \notin INSTR_OFFSET_MIN .. INSTR_OFFSET_MAX
      <3>1. ApplyInstrOffset(b, offset) = [exc |-> "Range", con |-> b]
        BY <2>1 DEF ApplyInstrOffset, Outcome, OK
      <3>. QED  BY <1>1, <1>2, <3>1 DEF ApplyBeginHandler, OK
    <2>. QED  BY <2>1
  <1>5. offset \in Int
    BY <1>4, BoundsAssumption
  <1>6. PICK v, d :
            /\ ApplyInstrOffset(b, offset) = [exc |-> v, con |-> d]
            /\ v = OK =>
                  /\ b.instrCount + offset \in Nat
                  /\ d = AddJump(b, b.instrCount + offset)
                  /\ \/ /\ b.instrCount + offset > b.instrCount
                        /\ b.instrCount + offset < PROC_INSTR_MAX
                     \/ /\ b.instrCount + offset <= b.instrCount
                        /\ b.instrCount + offset >= b.frames[Len(b.frames)].firstInstr
    BY <1>1, <1>5, OffsetFacts
  <1>. QED  BY <1>1, <1>2, <1>3, <1>5, <1>6 DEF ApplyBeginHandler

LEMMA OffsetEffect ==
    ASSUME NEW c, ConType(c, Nat), NEW offset, ApplyInstrOffset(c, offset).exc = OK
    PROVE  /\ c.instrCount + offset \in Nat
           /\ ApplyInstrOffset(c, offset).con = AddJump(c, c.instrCount + offset)
  <1>1. offset \in INSTR_OFFSET_MIN .. INSTR_OFFSET_MAX
    <2>1. CASE offset \notin INSTR_OFFSET_MIN .. INSTR_OFFSET_MAX
      BY <2>1 DEF ApplyInstrOffset, Outcome, OK
    <2>. QED  BY <2>1
  <1>2. offset \in Int
    BY <1>1, BoundsAssumption
  <1>. QED  BY <1>2, OffsetFacts

LEMMA EffectShape ==
    ASSUME NEW c, ConType(c, Nat), NEW in,
           in.op \in {"PUSH", "PUSHR"} => in.reg \in Nat, Effect(c, in).exc = OK
    PROVE  Effected(c, in, Effect(c, in).con)
  <1> DEFINE t == BranchIndex(in, c.instrCount)
  <1>0. {"REGNR", "REGR"} \subseteq FrameTypes
    BY DEF FrameTypes
  <1>1. CASE in.op = "PUSH"
    <2>1. Effect(c, in) = ApplyBeginFrame(c, "REGNR", in.reg)
      BY <1>1 DEF Effect
    <2>2. PICK reg \in Nat : reg = in.reg
      BY <1>1
    <2>3. Effect(c, in).con = PushFrame(c, "REGNR", in.reg)
      BY <1>0, <2>1, <2>2, BeginFacts
    <2>. QED  BY <1>1, <2>3 DEF Effected
  <1>2. CASE in.op = "PUSHR"
    <2>1. Effect(c, in) = ApplyBeginFrame(c, "REGR", in.reg)
      BY <1>2 DEF Effect
    <2>2. PICK reg \in Nat : reg = in.reg
      BY <1>2
    <2>3. Effect(c, in).con = PushFrame(c, "REGR", in.reg)
      BY <1>0, <2>1, <2>2, BeginFacts
    <2>. QED  BY <1>2, <2>3 DEF Effected
  <1>3. CASE in.op = "PUSHH"
    <2>1. Effect(c, in) = ApplyBeginHandler(c, in.offset)
      BY <1>3 DEF Effect
    <2>2. t = c.instrCount + in.offset
      BY <1>3 DEF BranchIndex
    <2>. QED  BY <1>3, <2>1, <2>2, HandlerEffect DEF Effected
  <1>4. CASE in.op = "POP"
    <2>1. Effect(c, in) = ApplyEndFrame(c)
      BY <1>4 DEF Effect
    <2>2. PICK v, d :
              /\ ApplyEndFrame(c) = [exc |-> v, con |-> d]
              /\ v = OK => /\ d = PopFrame(c) /\ Len(c.frames) # 1
                           /\ \A t2 \in c.frames[Len(c.frames)].jumps :
                                  ~(t2 > c.instrCount)
      BY EndFacts
    <2>3. v = OK /\ Effect(c, in).con = d
      BY <2>1, <2>2
    <2>. QED  BY <1>4, <2>2, <2>3 DEF Effected
  <1>5. CASE in.op \in {"JMP", "UJ", "BJ"}
    <2>1. Effect(c, in) = ApplyInstrOffset(c, in.offset)
      BY <1>5 DEF Effect
    <2>2. t = c.instrCount + in.offset
      BY <1>5 DEF BranchIndex
    <2>. QED  BY <1>5, <2>1, <2>2, OffsetEffect DEF Effected
  <1>6. CASE in.op \notin {"PUSHH", "POP", "JMP", "UJ", "BJ", "PUSH", "PUSHR"}
    <2>1. CASE in.op = "ILL"
      <3>1. Effect(c, in) = [exc |-> OK, con |-> c]
        BY <2>1 DEF Effect, Outcome
      <3>. QED  BY <1>6, <3>1 DEF Effected
    <2>2. CASE in.op # "ILL"
      <3>1. Effect(c, in) = [exc |-> ApplyDefault(c), con |-> c]
        BY <1>6, <2>2 DEF Effect, Outcome
      <3>. QED  BY <1>6, <3>1 DEF Effected
    <2>. QED  BY <2>1, <2>2
  <1>. QED  BY <1>1, <1>2, <1>3, <1>4, <1>5, <1>6

-----------------------------------------------------------------------------
(* The parts of the invariant.                                             *)

(* A frame c of the builder and the frame f of the code generator, where   *)
(* the indices of the one are exact for the other or not.                  *)
Mirrors(c, f, exact) ==
    /\ c.ftype = f.ftype
    /\ IF f.ftype = "HAND" THEN c.reg = PRESET_REG_ED ELSE c.reg = f.reg
    /\ exact => SameStart(c, f)
Agrees(m, p, con) ==
    LET frames == FramesAt(m, p, Len(Code(m, p))) IN
    /\ Walkable(m, p)
    /\ At(m.procs, p).ills \in Nat
    /\ con.instrCount = Len(Code(m, p)) + At(m.procs, p).ills
    /\ Len(con.frames) = Len(frames)
    /\ \A k \in 1 .. Len(frames) :
          Mirrors(con.frames[k], frames[k], AllInCode(m, p))

(* A jump has landed in the code, or is still owed by an open frame: where *)
(* every instruction accepted is in the code.                              *)
Landing(m, p, con) ==
    \A i \in CodeIds(m, p) : Jumps(InstrAt(m, p, i)) =>
        /\ Target(m, p, i) \in Nat
        /\ \/ Target(m, p, i) < Len(Code(m, p))
           \/ \E k \in 1 .. Len(con.frames) : Target(m, p, i) \in con.frames[k].jumps

(* A handler lies inside its frame where it has been reached; and where it *)
(* has not, its frame is open yet, and owes the jump.                      *)
Lies(s, t) == Len(s) <= Len(t) /\ SubSeq(t, 1, Len(s)) = s
Guarding(m, p, con) ==
    \A i \in CodeIds(m, p) : InstrAt(m, p, i).op = "PUSHH" =>
        LET t == Target(m, p, i)
            inside == FramesAt(m, p, i + 1)
            size == Len(Code(m, p))
        IN  /\ t > i
            /\ t < size => Lies(inside, FramesAt(m, p, t))
            /\ ~(t < size) => /\ Lies(inside, FramesAt(m, p, size))
                              /\ t \in con.frames[Len(inside)].jumps

(* The operands of an instruction emitted with the frames open.            *)
Assigned(m, in, frames, reg) ==
    \/ "TOP_LEVEL" \in At(m.regs, reg).flags
    \/ /\ Naming(frames, reg) # {}
       /\ reg \in References(in) => FindFrame(frames, reg).ftype = "REGR"
Found(m, in, frames) ==
    /\ \A reg \in Dereferences(in) \cup References(in) : Assigned(m, in, frames, reg)
    /\ in.op = "CALL" => Last(frames).ftype = "REGNR"
AllFound(m, p) ==
    \A i \in CodeIds(m, p) : Found(m, InstrAt(m, p, i), FramesAt(m, p, i))

(* Procedure p of n is that of m with the instruction in added.            *)
Appended(m, n, p, in) ==
    /\ Base(n, p) = Base(m, p) /\ At(n.procs, p).ills = At(m.procs, p).ills
    /\ Len(Code(n, p)) = Len(Code(m, p)) + 1
    /\ InstrAt(n, p, Len(Code(m, p))) = in
    /\ \A i \in CodeIds(m, p) : InstrAt(n, p, i) = InstrAt(m, p, i)

LEMMA AppendedWalk ==
    ASSUME NEW m, NEW n, NEW p, NEW in, Len(Code(m, p)) \in Nat, Appended(m, n, p, in)
    PROVE  /\ \A i \in 0 .. Len(Code(m, p)) : FramesAt(n, p, i) = FramesAt(m, p, i)
           /\ FramesAt(n, p, Len(Code(m, p)) + 1)
                = StepFrames(FramesAt(m, p, Len(Code(m, p))), in, Len(Code(m, p)))
           /\ CodeIds(n, p) = CodeIds(m, p) \cup {Len(Code(m, p))}
           /\ CodeIds(m, p) = 0 .. Len(Code(m, p)) - 1
  <1> DEFINE size == Len(Code(m, p))
  <1>1. \A i \in 0 .. size - 1 : InstrAt(m, p, i) = InstrAt(n, p, i)
    BY DEF Appended, CodeIds, Ids
  <1>2. \A i \in 0 .. size : FramesAt(m, p, i) = FramesAt(n, p, i)
    <2>1. size \in Nat /\ Base(m, p) = Base(n, p)
      BY DEF Appended
    <2> HIDE DEF size
    <2>. QED  BY <1>1, <2>1, SameWalk
  <1>3. FramesAt(n, p, size + 1) = Step(n, p, FramesAt(n, p, size), size)
    BY WalkFacts
  <1>4. FramesAt(n, p, size) = FramesAt(m, p, size)
    BY <1>2
  <1>5. CodeIds(n, p) = CodeIds(m, p) \cup {size} /\ CodeIds(m, p) = 0 .. size - 1
    BY DEF Appended, CodeIds, Ids
  <1>. QED  BY <1>2, <1>3, <1>4, <1>5 DEF Step, Appended

LEMMA MirrorsMore ==
    ASSUME NEW c, NEW d, NEW f, NEW exact, Mirrors(c, f, exact),
           d.ftype = c.ftype, d.reg = c.reg,
           d.firstInstr = c.firstInstr, c.jumps \subseteq d.jumps
    PROVE  Mirrors(d, f, exact)
  BY DEF Mirrors, SameStart

(* What was pushed at the builder's index j is pushed at the generator's i, *)
(* which is the same where the indices are exact.                          *)
LEMMA MirrorsPushed ==
    ASSUME NEW c, NEW in, NEW i, NEW j, Mirrors(c, Pushed(in, j), TRUE),
           NEW exact, exact => i = j
    PROVE  Mirrors(c, Pushed(in, i), exact)
  <1>1. /\ Pushed(in, i).ftype = Pushed(in, j).ftype
        /\ Pushed(in, i).reg = Pushed(in, j).reg
    BY DEF Pushed
  <1>2. exact => SameStart(c, Pushed(in, i))
    BY DEF Mirrors
  <1>. QED  BY <1>1, <1>2 DEF Mirrors

(* The ProcCon after an accepted instruction, frame by frame: those that   *)
(* were there keep what opened them and the jumps they owe, but for the    *)
(* one a POP takes.                                                        *)
LEMMA EffectedFrames ==
    ASSUME NEW c, ConType(c, Nat), NEW in, NEW d, Effected(c, in, d),
           in.op \in {"PUSH", "PUSHR"} => in.reg \in Nat
    PROVE  /\ ConType(d, Nat) /\ d.instrCount = c.instrCount
           /\ Len(d.frames) = IF Pushes(in) THEN Len(c.frames) + 1
                              ELSE IF in.op = "POP" THEN Len(c.frames) - 1
                              ELSE Len(c.frames)
           /\ \A k \in 1 .. Len(c.frames) : k <= Len(d.frames) =>
                 /\ d.frames[k].ftype = c.frames[k].ftype
                 /\ d.frames[k].reg = c.frames[k].reg
                 /\ d.frames[k].firstInstr = c.frames[k].firstInstr
                 /\ c.frames[k].jumps \subseteq d.frames[k].jumps
           /\ Pushes(in) =>
                 Mirrors(d.frames[Len(d.frames)], Pushed(in, c.instrCount), TRUE)
           /\ Jumps(in) => BranchIndex(in, c.instrCount) \in d.frames[Len(d.frames)].jumps
  <1> DEFINE t == BranchIndex(in, c.instrCount)
  <1>0. /\ {"REGNR", "REGR", "HAND"} \subseteq FrameTypes /\ PRESET_REG_ED \in Nat
        /\ c.instrCount \in Nat /\ Len(c.frames) \in Nat \ {0}
    BY ConFacts DEF FrameTypes, PRESET_REG_ED
  <1>1. CASE in.op \in {"PUSH", "PUSHR"}
    <2>1. PICK ftype \in {"REGNR", "REGR"} :
              d = PushFrame(c, ftype, in.reg) /\ Pushed(in, c.instrCount).ftype = ftype
      BY <1>1 DEF Effected, Pushed
    <2>2. /\ ConType(d, Nat) /\ d.instrCount = c.instrCount
          /\ Len(d.frames) = Len(c.frames) + 1
          /\ \A k \in 1 .. Len(c.frames) : d.frames[k] = c.frames[k]
          /\ d.frames[Len(d.frames)].firstInstr = c.instrCount + 1
          /\ d.frames[Len(d.frames)].ftype = ftype
          /\ d.frames[Len(d.frames)].reg = in.reg
      BY <1>0, <1>1, <2>1, PushFrameFacts
    <2>3. /\ Pushed(in, c.instrCount).at = c.instrCount
          /\ Pushed(in, c.instrCount).reg = in.reg
      BY <1>1 DEF Pushed
    <2>. QED  BY <1>1, <2>1, <2>2, <2>3 DEF Pushes, Jumps, Mirrors, SameStart
  <1>2. CASE in.op = "PUSHH"
    <2> DEFINE b == PushFrame(c, "HAND", PRESET_REG_ED)
    <2>1. t \in Nat /\ d = AddJump(b, t)
      BY <1>2 DEF Effected
    <2>2. /\ ConType(b, Nat) /\ b.instrCount = c.instrCount
          /\ Len(b.frames) = Len(c.frames) + 1
          /\ \A k \in 1 .. Len(c.frames) : b.frames[k] = c.frames[k]
          /\ b.frames[Len(b.frames)].firstInstr = c.instrCount + 1
          /\ b.frames[Len(b.frames)].ftype = "HAND"
          /\ b.frames[Len(b.frames)].reg = PRESET_REG_ED
      BY <1>0, PushFrameFacts
    <2> HIDE DEF b, t
    <2>3. /\ ConType(d, Nat)
          /\ d.instrCount = b.instrCount
          /\ Len(d.frames) = Len(b.frames)
          /\ \A k \in 1 .. Len(b.frames) :
                /\ d.frames[k].firstInstr = b.frames[k].firstInstr
                /\ d.frames[k].ftype = b.frames[k].ftype
                /\ d.frames[k].reg = b.frames[k].reg
                /\ k # Len(b.frames) => d.frames[k].jumps = b.frames[k].jumps
          /\ d.frames[Len(b.frames)].jumps = b.frames[Len(b.frames)].jumps \cup {t}
      BY <2>1, <2>2, AddJumpFacts
    <2>4. /\ Pushed(in, c.instrCount).at = c.instrCount
          /\ Pushed(in, c.instrCount).ftype = "HAND"
          /\ Pushed(in, c.instrCount).hindex = t
      BY <1>2 DEF Pushed, t
    <2>5. \A k \in 1 .. Len(c.frames) : k \in 1 .. Len(b.frames) /\ k # Len(b.frames)
      BY <1>0, <2>2
    <2>6. Mirrors(d.frames[Len(d.frames)], Pushed(in, c.instrCount), TRUE)
      <3>1. Len(b.frames) \in 1 .. Len(b.frames)
        BY <1>0, <2>2
      <3>. QED  BY <2>2, <2>3, <2>4, <3>1 DEF Mirrors, SameStart
    <2>7. t \in d.frames[Len(d.frames)].jumps
      BY <2>3
    <2>8. \A k \in 1 .. Len(c.frames) :
              /\ d.frames[k].ftype = c.frames[k].ftype
              /\ d.frames[k].reg = c.frames[k].reg
              /\ d.frames[k].firstInstr = c.frames[k].firstInstr
              /\ d.frames[k].jumps = c.frames[k].jumps
      BY <2>2, <2>3, <2>5
    <2>. QED  BY <1>2, <2>2, <2>3, <2>6, <2>7, <2>8 DEF Pushes, t
  <1>3. CASE in.op = "POP"
    <2>1. Len(c.frames) # 1 /\ d = PopFrame(c)
      BY <1>3 DEF Effected
    <2>2. /\ ConType(d, Nat) /\ d.instrCount = c.instrCount
          /\ Len(d.frames) = Len(c.frames) - 1
          /\ \A k \in 1 .. Len(d.frames) : d.frames[k] = c.frames[k]
      BY <2>1, PopFrameFacts
    <2>3. \A k \in 1 .. Len(c.frames) : k <= Len(d.frames) => d.frames[k] = c.frames[k]
      BY <1>0, <2>2
    <2>. QED  BY <1>3, <2>2, <2>3 DEF Pushes, Jumps
  <1>4. CASE in.op \in {"JMP", "UJ", "BJ"}
    <2>1. t \in Nat /\ d = AddJump(c, t)
      BY <1>4 DEF Effected
    <2> HIDE DEF t
    <2>2. /\ ConType(d, Nat)
          /\ d.instrCount = c.instrCount
          /\ Len(d.frames) = Len(c.frames)
          /\ \A k \in 1 .. Len(c.frames) :
                /\ d.frames[k].firstInstr = c.frames[k].firstInstr
                /\ d.frames[k].ftype = c.frames[k].ftype
                /\ d.frames[k].reg = c.frames[k].reg
                /\ k # Len(c.frames) => d.frames[k].jumps = c.frames[k].jumps
          /\ d.frames[Len(c.frames)].jumps = c.frames[Len(c.frames)].jumps \cup {t}
      BY <2>1, AddJumpFacts
    <2>. QED  BY <1>4, <2>2 DEF Pushes, t
  <1>5. CASE ~Pushes(in) /\ in.op # "POP" /\ ~Jumps(in)
    <2>1. d = c
      BY <1>5 DEF Effected, Pushes, Jumps
    <2>. QED  BY <1>5, <2>1
  <1>. QED  BY <1>1, <1>2, <1>3, <1>4, <1>5 DEF Pushes, Jumps

LEMMA AgreesStep ==
    ASSUME NEW m, NEW n, NEW p, NEW in, NEW c, ConType(c, Nat), Agrees(m, p, c),
           Appended(m, n, p, in), in.op \in {"PUSH", "PUSHR"} => in.reg \in Nat,
           NEW d, Effected(c, in, d),
           NEW e, e.frames = d.frames, e.instrCount = c.instrCount + 1
    PROVE  Agrees(n, p, e)
  <1> DEFINE size == Len(Code(m, p))
             s == FramesAt(m, p, size)
             t == FramesAt(n, p, size + 1)
             exact == AllInCode(m, p)
  <1>1. /\ Walkable(m, p) /\ size \in Nat /\ At(m.procs, p).ills \in Nat
        /\ c.instrCount = size + At(m.procs, p).ills
        /\ exact => size = c.instrCount
    BY DEF Agrees, Walkable, AllInCode
  <1>2. /\ \A i \in 0 .. size : FramesAt(n, p, i) = FramesAt(m, p, i)
        /\ t = StepFrames(s, in, size)
        /\ CodeIds(n, p) = CodeIds(m, p) \cup {size} /\ CodeIds(m, p) = 0 .. size - 1
    BY <1>1, AppendedWalk
  <1>3. /\ Len(c.frames) = Len(s)
        /\ \A k \in 1 .. Len(s) : Mirrors(c.frames[k], s[k], exact)
    BY DEF Agrees
  <1>4. s \in Seq(GenFrames) /\ Len(s) \in Nat \ {0}
    BY <1>1, WalkType
  <1>5. Walkable(n, p)
    <2>1. Len(Code(n, p)) \in Nat
      BY <1>1 DEF Appended
    <2>2. At(n.ptypes, At(n.procs, p).ptype).io \in Int
      <3>1. Base(n, p)[1] = Base(m, p)[1]
        BY DEF Appended
      <3>2. At(n.ptypes, At(n.procs, p).ptype).io = At(m.ptypes, At(m.procs, p).ptype).io
        BY <3>1 DEF Base
      <3>. QED  BY <1>1, <3>2 DEF Walkable
    <2>3. ASSUME NEW i \in CodeIds(n, p)
          PROVE  /\ InstrAt(n, p, i).op \in {"PUSH", "PUSHR"} => InstrAt(n, p, i).reg \in Int
                 /\ InstrAt(n, p, i).op = "PUSHH" => InstrAt(n, p, i).offset \in Int
                 /\ InstrAt(n, p, i).op = "POP" => Len(FramesAt(n, p, i)) > 1
      <3>1. CASE i \in CodeIds(m, p)
        <4>1. InstrAt(n, p, i) = InstrAt(m, p, i) /\ FramesAt(n, p, i) = FramesAt(m, p, i)
          BY <1>1, <1>2, <3>1 DEF Appended
        <4>. QED  BY <1>1, <3>1, <4>1 DEF Walkable
      <3>2. CASE i = size
        <4>1. InstrAt(n, p, i) = in /\ FramesAt(n, p, i) = s
          BY <1>1, <1>2, <3>2 DEF Appended
        <4>2. in.op = "POP" => Len(s) > 1
          <5>1. in.op = "POP" => Len(s) # 1
            BY <1>3 DEF Effected
          <5>2. \A x \in Nat \ {0} : x # 1 => x > 1
            OBVIOUS
          <5>. QED  BY <1>4, <5>1, <5>2
        <4>3. in.op = "PUSHH" => in.offset \in Int
          BY DEF Effected
        <4>. QED  BY <4>1, <4>2, <4>3
      <3>. QED  BY <1>2, <3>1, <3>2
    <2>. QED  BY <2>1, <2>2, <2>3 DEF Walkable
  <1>6. /\ Len(d.frames) = IF Pushes(in) THEN Len(c.frames) + 1
                           ELSE IF in.op = "POP" THEN Len(c.frames) - 1
                           ELSE Len(c.frames)
        /\ \A k \in 1 .. Len(c.frames) : k <= Len(d.frames) =>
              /\ d.frames[k].ftype = c.frames[k].ftype
              /\ d.frames[k].reg = c.frames[k].reg
              /\ d.frames[k].firstInstr = c.frames[k].firstInstr
              /\ c.frames[k].jumps \subseteq d.frames[k].jumps
        /\ Pushes(in) =>
              Mirrors(d.frames[Len(d.frames)], Pushed(in, c.instrCount), TRUE)
    BY <1>1, EffectedFrames
  <1> HIDE DEF exact
  <1>7. \A k \in 1 .. Len(s) :
            k <= Len(d.frames) => Mirrors(d.frames[k], s[k], exact)
    BY <1>3, <1>6, MirrorsMore
  <1>8. /\ Len(t) = Len(d.frames)
        /\ \A k \in 1 .. Len(t) : Mirrors(d.frames[k], t[k], exact)
    <2> HIDE DEF s, t
    <2>1. CASE Pushes(in)
      <3>1. t = Append(s, Pushed(in, size))
        BY <1>2, <2>1, StepCases
      <3>2. /\ Len(t) = Len(s) + 1 /\ t[Len(s) + 1] = Pushed(in, size)
            /\ \A k \in 1 .. Len(s) : t[k] = s[k]
        BY <1>4, <3>1
      <3>3. Len(d.frames) = Len(s) + 1
        BY <1>3, <1>6, <2>1
      <3>4. ASSUME NEW k \in 1 .. Len(t) PROVE Mirrors(d.frames[k], t[k], exact)
        <4>1. CASE k = Len(s) + 1
          <5>1. Mirrors(d.frames[Len(d.frames)], Pushed(in, size), exact)
            BY <1>1, <1>6, <2>1, MirrorsPushed
          <5>. QED  BY <3>2, <3>3, <4>1, <5>1
        <4>2. CASE k # Len(s) + 1
          <5>1. k \in 1 .. Len(s) /\ k <= Len(d.frames)
            BY <1>4, <3>2, <3>3, <4>2
          <5>. QED  BY <1>7, <3>2, <5>1
        <4>. QED  BY <4>1, <4>2
      <3>. QED  BY <3>2, <3>3, <3>4
    <2>2. CASE in.op = "POP"
      <3>1. t = SubSeq(s, 1, Len(s) - 1)
        BY <1>2, <2>2, StepCases DEF Front
      <3>2. Len(s) - 1 \in 0 .. Len(s)
        BY <1>4
      <3>3. Len(t) = Len(s) - 1 /\ \A k \in 1 .. Len(s) - 1 : t[k] = s[k]
        BY <1>4, <3>1, <3>2, CutFacts
      <3>4. Len(d.frames) = Len(s) - 1
        BY <1>3, <1>6, <2>2 DEF Pushes
      <3>5. \A k \in 1 .. Len(s) - 1 : k \in 1 .. Len(s) /\ k <= Len(d.frames)
        BY <1>4, <3>4
      <3>. QED  BY <1>7, <3>3, <3>4, <3>5
    <2>3. CASE ~Pushes(in) /\ in.op # "POP"
      <3>1. t = s
        BY <1>2, <2>3, StepCases
      <3>2. Len(d.frames) = Len(s)
        BY <1>3, <1>6, <2>3
      <3>. QED  BY <1>4, <1>7, <3>1, <3>2
    <2>. QED  BY <2>1, <2>2, <2>3
  <1>9. /\ exact = AllInCode(n, p) /\ Len(Code(n, p)) = size + 1
        /\ At(n.procs, p).ills = At(m.procs, p).ills
    BY DEF exact, AllInCode, Appended
  <1>10. e.instrCount = Len(Code(n, p)) + At(n.procs, p).ills
    BY <1>1, <1>9
  <1>. QED  BY <1>1, <1>5, <1>8, <1>9, <1>10 DEF Agrees

(* A jump that had landed, or was owed, still is: what a POP drops lands   *)
(* at the latest on the POP.                                               *)
LEMMA LandingStep ==
    ASSUME NEW m, NEW n, NEW p, NEW in, NEW c, ConType(c, Nat), Agrees(m, p, c),
           AllInCode(m, p), Landing(m, p, c),
           Appended(m, n, p, in), in.op \in {"PUSH", "PUSHR"} => in.reg \in Nat,
           NEW d, Effected(c, in, d), NEW e, e.frames = d.frames
    PROVE  Landing(n, p, e)
  <1> DEFINE size == Len(Code(m, p))
  <1>1. size \in Nat /\ c.instrCount = size
    BY DEF Agrees, Walkable, AllInCode
  <1>2. /\ CodeIds(n, p) = CodeIds(m, p) \cup {size} /\ Len(Code(n, p)) = size + 1
        /\ CodeIds(m, p) = 0 .. size - 1
    BY <1>1, AppendedWalk DEF Appended
  <1>3. /\ ConType(d, Nat)
        /\ Len(d.frames) = IF Pushes(in) THEN Len(c.frames) + 1
                           ELSE IF in.op = "POP" THEN Len(c.frames) - 1
                           ELSE Len(c.frames)
        /\ \A k \in 1 .. Len(c.frames) :
               k <= Len(d.frames) => c.frames[k].jumps \subseteq d.frames[k].jumps
        /\ Jumps(in) => BranchIndex(in, size) \in d.frames[Len(d.frames)].jumps
    BY <1>1, EffectedFrames
  <1>4. Len(c.frames) \in Nat \ {0} /\ Len(d.frames) \in Nat \ {0}
    BY <1>3, ConFacts
  <1> SUFFICES ASSUME NEW i \in CodeIds(n, p), Jumps(InstrAt(n, p, i))
               PROVE  /\ Target(n, p, i) \in Nat
                      /\ \/ Target(n, p, i) < size + 1
                         \/ \E k \in 1 .. Len(d.frames) : Target(n, p, i) \in d.frames[k].jumps
    BY <1>2 DEF Landing
  <1> DEFINE t == Target(n, p, i)
  <1>5. CASE i \in CodeIds(m, p)
    <2>1. t = Target(m, p, i) /\ Jumps(InstrAt(m, p, i))
      BY <1>5 DEF Appended, Target
    <2>2. t \in Nat /\ (t < size \/ \E k \in 1 .. Len(c.frames) : t \in c.frames[k].jumps)
      BY <1>5, <2>1 DEF Landing
    <2> HIDE DEF t
    <2>3. CASE t < size
      BY <1>1, <2>2, <2>3 DEF t
    <2>4. ASSUME NEW k \in 1 .. Len(c.frames), t \in c.frames[k].jumps
          PROVE  t < size + 1 \/ \E j \in 1 .. Len(d.frames) : t \in d.frames[j].jumps
      <3>1. CASE k <= Len(d.frames)
        BY <1>3, <1>4, <2>4, <3>1
      <3>2. CASE ~(k <= Len(d.frames))
        <4>1. in.op = "POP" /\ k = Len(c.frames)
          BY <1>3, <1>4, <3>2
        <4>2. ~(t > size)
          BY <1>1, <2>4, <4>1 DEF Effected
        <4>. QED  BY <1>1, <2>2, <4>2
      <3>. QED  BY <3>1, <3>2
    <2>. QED  BY <2>2, <2>3, <2>4 DEF t
  <1>6. CASE i = size
    <2>1. InstrAt(n, p, i) = in /\ t = BranchIndex(in, size)
      BY <1>6 DEF Appended, Target
    <2>2. t \in Nat
      BY <1>1, <2>1 DEF Effected, Jumps
    <2>3. Len(d.frames) \in 1 .. Len(d.frames)
      BY <1>4
    <2>. QED  BY <1>3, <2>1, <2>2, <2>3
  <1>. QED  BY <1>2, <1>5, <1>6

(* The frame open at a handler's start stays under the top of the stack    *)
(* until the handler is reached: it owes the jump there, and a POP leaves  *)
(* no jump of its frame to come.                                           *)
LEMMA GuardingStep ==
    ASSUME NEW m, NEW n, NEW p, NEW in, NEW c, ConType(c, Nat), Agrees(m, p, c),
           AllInCode(m, p), Guarding(m, p, c),
           Appended(m, n, p, in), in.op \in {"PUSH", "PUSHR"} => in.reg \in Nat,
           NEW d, Effected(c, in, d),
           NEW e, e.frames = d.frames, e.instrCount = c.instrCount + 1
    PROVE  Guarding(n, p, e)
  <1> DEFINE size == Len(Code(m, p))
             s == FramesAt(m, p, size)
             u == FramesAt(n, p, size + 1)
  <1>1. size \in Nat /\ c.instrCount = size /\ Walkable(m, p)
    BY DEF Agrees, Walkable, AllInCode
  <1>2. /\ \A i \in 0 .. size : FramesAt(n, p, i) = FramesAt(m, p, i)
        /\ u = StepFrames(s, in, size)
        /\ CodeIds(n, p) = CodeIds(m, p) \cup {size} /\ Len(Code(n, p)) = size + 1
        /\ CodeIds(m, p) = 0 .. size - 1
    BY <1>1, AppendedWalk DEF Appended
  <1>3. /\ ConType(d, Nat)
        /\ Len(d.frames) = IF Pushes(in) THEN Len(c.frames) + 1
                           ELSE IF in.op = "POP" THEN Len(c.frames) - 1
                           ELSE Len(c.frames)
        /\ \A k \in 1 .. Len(c.frames) :
               k <= Len(d.frames) => c.frames[k].jumps \subseteq d.frames[k].jumps
        /\ Jumps(in) => BranchIndex(in, size) \in d.frames[Len(d.frames)].jumps
    BY <1>1, EffectedFrames
  <1>4. Agrees(n, p, e) /\ Walkable(n, p)
    <2>1. Agrees(n, p, e)
      BY AgreesStep
    <2>. QED  BY <2>1 DEF Agrees
  <1>5. /\ s \in Seq(GenFrames) /\ Len(s) \in Nat \ {0} /\ Len(c.frames) = Len(s)
        /\ u \in Seq(GenFrames) /\ Len(u) \in Nat \ {0} /\ Len(d.frames) = Len(u)
    <2>1. size + 1 \in 0 .. Len(Code(n, p)) /\ size \in 0 .. size
      BY <1>1, <1>2
    <2>. QED  BY <1>1, <1>2, <1>4, <2>1, WalkType DEF Agrees
  <1> SUFFICES ASSUME NEW i \in CodeIds(n, p), InstrAt(n, p, i).op = "PUSHH"
               PROVE  LET t == Target(n, p, i)
                          inside == FramesAt(n, p, i + 1)
                      IN  /\ t > i
                          /\ t < size + 1 => Lies(inside, FramesAt(n, p, t))
                          /\ ~(t < size + 1) => /\ Lies(inside, u)
                                                /\ t \in d.frames[Len(inside)].jumps
    BY <1>2 DEF Guarding
  <1> DEFINE t == Target(n, p, i)
             inside == FramesAt(n, p, i + 1)
  <1>6. CASE i \in CodeIds(m, p)
    <2>1. t = Target(m, p, i) /\ InstrAt(m, p, i).op = "PUSHH"
      BY <1>6 DEF Appended, Target
    <2>2. i + 1 \in 0 .. size /\ i \in Nat
      BY <1>1, <1>2, <1>6
    <2>3. inside = FramesAt(m, p, i + 1) /\ inside \in Seq(GenFrames)
          /\ Len(inside) \in Nat \ {0}
      BY <1>1, <1>2, <2>2, WalkType
    <2>4. /\ t > i
          /\ t < size => Lies(inside, FramesAt(m, p, t))
          /\ ~(t < size) => Lies(inside, s) /\ t \in c.frames[Len(inside)].jumps
      BY <1>6, <2>1, <2>3 DEF Guarding
    <2>5. t \in Int
      BY <1>1, <1>6, <2>1, <2>2 DEF Target, BranchIndex, Walkable
    <2> HIDE DEF t, inside, s, u
    <2>6. CASE t < size
      <3>1. t \in 0 .. size
        BY <1>1, <2>2, <2>4, <2>5, <2>6
      <3>2. FramesAt(n, p, t) = FramesAt(m, p, t)
        BY <1>2, <3>1
      <3>3. t < size + 1
        BY <1>1, <2>5, <2>6
      <3>. QED  BY <2>4, <2>6, <3>2, <3>3 DEF t, inside, u
    <2>7. CASE t = size
      <3>1. FramesAt(n, p, t) = s /\ ~(t < size) /\ t < size + 1
        BY <1>1, <1>2, <2>7 DEF s
      <3>. QED  BY <2>4, <3>1 DEF t, inside, u
    <2>8. CASE t > size
      <3>1. ~(t < size) /\ ~(t < size + 1)
        BY <1>1, <2>5, <2>8
      <3>2. /\ Len(inside) <= Len(s) /\ SubSeq(s, 1, Len(inside)) = inside
            /\ t \in c.frames[Len(inside)].jumps
        BY <2>4, <3>1 DEF Lies
      <3>3. Len(inside) \in 1 .. Len(s)
        BY <1>5, <2>3, <3>2
      <3>4. Len(inside) <= Len(u)
        <4>1. CASE in.op = "POP"
          <5>1. Len(inside) # Len(c.frames)
            BY <1>1, <2>8, <3>2, <4>1 DEF Effected
          <5>. QED  BY <1>3, <1>5, <3>3, <4>1, <5>1 DEF Pushes
        <4>2. CASE in.op # "POP"
          BY <1>3, <1>5, <3>3, <4>2
        <4>. QED  BY <4>1, <4>2
      <3>5. SubSeq(u, 1, Len(inside)) = inside
        <4>1. Len(inside) \in 0 .. Len(s)
          BY <3>3
        <4>2. CASE Pushes(in)
          <5>1. size \in CodeIds(n, p) /\ InstrAt(n, p, size) = in
            BY <1>2 DEF Appended
          <5>2. Pushed(in, size) \in GenFrames
            BY <1>4, <4>2, <5>1, PushedType
          <5>3. u = Append(s, Pushed(in, size))
            BY <1>2, <4>2, StepCases
          <5>4. PICK f \in GenFrames : f = Pushed(in, size)
            BY <5>2
          <5>5. SubSeq(Append(s, f), 1, Len(inside)) = SubSeq(s, 1, Len(inside))
            BY <1>5, <4>1, ExtendFacts
          <5>. QED  BY <3>2, <5>3, <5>4, <5>5
        <4>3. CASE in.op = "POP"
          <5> DEFINE k == Len(s) - 1
          <5>1. u = SubSeq(s, 1, k)
            BY <1>2, <4>3, StepCases DEF Front
          <5>2. k \in 0 .. Len(s) /\ Len(u) = k
            BY <1>3, <1>5, <4>3 DEF Pushes
          <5>3. Len(inside) \in 0 .. k
            BY <3>3, <3>4, <5>2
          <5> HIDE DEF k
          <5>4. SubSeq(SubSeq(s, 1, k), 1, Len(inside)) = SubSeq(s, 1, Len(inside))
            BY <1>5, <5>2, <5>3, CutFacts
          <5>. QED  BY <3>2, <5>1, <5>4
        <4>4. CASE ~Pushes(in) /\ in.op # "POP"
          BY <1>2, <3>2, <4>4, StepCases
        <4>. QED  BY <4>2, <4>3, <4>4
      <3>6. t \in d.frames[Len(inside)].jumps
        BY <1>3, <1>5, <3>2, <3>3, <3>4
      <3>. QED  BY <2>4, <3>1, <3>4, <3>5, <3>6 DEF t, inside, u, Lies
    <2>. QED  BY <1>1, <2>5, <2>6, <2>7, <2>8
  <1>7. CASE i = size
    <2>1. in.op = "PUSHH" /\ t = BranchIndex(in, size) /\ inside = u
      BY <1>7 DEF Appended, Target
    <2>2. t \in Nat /\ t > size
      BY <1>1, <2>1 DEF Effected
    <2>3. ~(t < size + 1)
      BY <1>1, <2>2
    <2> HIDE DEF t, inside, s, u
    <2>4. SubSeq(u, 1, Len(u)) = u
      BY <1>5, CutFacts
    <2>5. Lies(u, u)
      BY <1>5, <2>4 DEF Lies
    <2>6. t \in d.frames[Len(u)].jumps
      BY <1>3, <1>5, <2>1 DEF Jumps
    <2>. QED  BY <1>7, <2>1, <2>2, <2>3, <2>5, <2>6 DEF t, inside, u
  <1>. QED  BY <1>2, <1>6, <1>7

(* A register operand the builder found allocated is found among the       *)
(* generator's frames: no handler's frame names it, but the preset         *)
(* register, which is top-level.                                           *)
PresetTop == 0 \in Ids(regs) /\ "TOP_LEVEL" \in At(regs, 0).flags

LEMMA AllocatedAssigned ==
    ASSUME PresetTop, NEW p, Agrees(Current, p, At(procCons, p)),
           ConType(At(procCons, p), Nat),
           NEW ftype, NEW reg, Allocated(p, ftype, reg),
           NEW s, s = FramesAt(Current, p, Len(Code(Current, p)))
    PROVE  \/ "TOP_LEVEL" \in At(regs, reg).flags
           \/ /\ Naming(s, reg) # {}
              /\ ftype = "REGR" => FindFrame(s, reg).ftype = "REGR"
  <1> DEFINE c == At(procCons, p)
             naming == {k \in DOMAIN c.frames : c.frames[k].reg = reg}
  <1>1. /\ Len(c.frames) = Len(s) /\ Len(s) \in Nat
        /\ \A k \in 1 .. Len(s) : Mirrors(c.frames[k], s[k], AllInCode(Current, p))
        /\ DOMAIN c.frames = 1 .. Len(s) /\ DOMAIN s = 1 .. Len(s)
    <2>1. Len(Code(Current, p)) \in 0 .. Len(Code(Current, p))
      BY DEF Agrees, Walkable
    <2>2. s \in Seq(GenFrames)
      BY <2>1, WalkType DEF Agrees
    <2>. QED  BY <2>2, ConFacts DEF Agrees
  <1> SUFFICES ASSUME "TOP_LEVEL" \notin At(regs, reg).flags
               PROVE  /\ Naming(s, reg) # {}
                      /\ ftype = "REGR" => FindFrame(s, reg).ftype = "REGR"
    OBVIOUS
  <1>2. reg # PRESET_REG_ED
    BY DEF PresetTop, PRESET_REG_ED
  <1>3. naming = Naming(s, reg)
    BY <1>1, <1>2 DEF Naming, Mirrors
  <1>4. /\ naming # {}
        /\ \/ ftype = c.frames[Max(naming)].ftype
           \/ ftype = "REG"
    BY DEF Allocated
  <1> HIDE DEF naming
  <1>5. Naming(s, reg) \subseteq 1 .. Len(s)
    BY <1>1 DEF Naming
  <1>6. Max(Naming(s, reg)) \in 1 .. Len(s)
    <2>1. Naming(s, reg) \subseteq 0 .. Len(s)
      BY <1>1, <1>5
    <2>. QED  BY <1>1, <1>3, <1>4, <1>5, <2>1, MaxFacts
  <1>7. c.frames[Max(naming)].ftype = FindFrame(s, reg).ftype
    BY <1>1, <1>3, <1>6 DEF Mirrors, FindFrame
  <1>. QED  BY <1>3, <1>4, <1>7

(* A call that was accepted passes a register frame's variable, and when   *)
(* both registers are there they were compared.                            *)
LEMMA CallPasses ==
    ASSUME NEW p, NEW target, NEW guess, ProcCallable(p, target, guess) = OK
    PROVE  /\ Top(At(procCons, p)).ftype = "REGNR"
           /\ SameVariable(Current, Top(At(procCons, p)).reg,
                           At(ptypes, At(procs, target).ptype).io)
  <1> DEFINE frame == Top(At(procCons, p))
             io == At(ptypes, At(procs, target).ptype).io
             a == ThrowIf(frame.ftype # "REGNR", "Operation")
             differ == \/ At(regs, frame.reg).vtype # At(regs, io).vtype
                       \/ At(regs, frame.reg).count # At(regs, io).count
             both == {frame.reg, io} \subseteq Ids(regs)
             b == IF both THEN ThrowIf(differ, "Operation")
                  ELSE ThrowIf(~guess, "Operation")
  <1>1. ProcCallable(p, target, guess) = (a & b)
    BY DEF ProcCallable
  <1>2. (a = OK => frame.ftype = "REGNR") /\ (b = OK /\ both => ~differ)
    BY DEF ThrowIf, OK
  <1> HIDE DEF a, b
  <1>3. a = OK /\ b = OK
    BY <1>1, CheckFacts
  <1>. QED  BY <1>2, <1>3 DEF SameVariable, Current

LEMMA AcceptedFound ==
    ASSUME PresetTop, NEW p, Agrees(Current, p, At(procCons, p)),
           ConType(At(procCons, p), Nat),
           NEW in, NEW guess, InstrAllowed(p, in, guess)
    PROVE  Found(Current, in, FramesAt(Current, p, Len(Code(Current, p))))
  <1> DEFINE s == FramesAt(Current, p, Len(Code(Current, p)))
  <1>0. Current.regs = regs
    BY DEF Current
  <1>1. ASSUME NEW reg \in Dereferences(in) \cup References(in)
        PROVE  Assigned(Current, in, s, reg)
    <2>1. CASE reg \in References(in)
      BY <1>0, <2>1, AllocatedAssigned DEF InstrAllowed, Assigned
    <2>2. CASE reg \notin References(in)
      BY <1>0, <1>1, <2>2, AllocatedAssigned DEF InstrAllowed, Assigned
    <2>. QED  BY <2>1, <2>2
  <1>2. in.op = "CALL" => Last(s).ftype = "REGNR"
    <2>1. Last(s).ftype = Top(At(procCons, p)).ftype
      <3> DEFINE c == At(procCons, p)
      <3>1. /\ Len(c.frames) = Len(s)
            /\ \A k \in 1 .. Len(s) :
                  Mirrors(c.frames[k], s[k], AllInCode(Current, p))
        BY DEF Agrees
      <3>2. Len(s) \in 1 .. Len(s)
        BY <3>1, ConFacts
      <3>3. Mirrors(c.frames[Len(s)], s[Len(s)], AllInCode(Current, p))
        BY <3>1, <3>2
      <3>. QED  BY <3>1, <3>3 DEF Top, Last, Mirrors
    <2>2. in.op = "CALL" => Top(At(procCons, p)).ftype = "REGNR"
      BY CallPasses DEF InstrAllowed
    <2>. QED  BY <2>1, <2>2
  <1>. QED  BY <1>1, <1>2 DEF Found

LEMMA FoundStep ==
    ASSUME NEW m, NEW n, NEW p, NEW in, Len(Code(m, p)) \in Nat, AllFound(m, p),
           Appended(m, n, p, in), n.regs = m.regs,
           Found(m, in, FramesAt(m, p, Len(Code(m, p))))
    PROVE  AllFound(n, p)
  <1> DEFINE size == Len(Code(m, p))
  <1> SUFFICES ASSUME NEW i \in CodeIds(n, p)
               PROVE  Found(n, InstrAt(n, p, i), FramesAt(n, p, i))
    BY DEF AllFound
  <1>1. /\ \A j \in 0 .. size : FramesAt(n, p, j) = FramesAt(m, p, j)
        /\ CodeIds(n, p) = CodeIds(m, p) \cup {size} /\ CodeIds(m, p) = 0 .. size - 1
    BY AppendedWalk
  <1>2. \A x, y : Found(m, x, y) => Found(n, x, y)
    BY DEF Found, Assigned
  <1>3. CASE i \in CodeIds(m, p)
    <2>1. InstrAt(n, p, i) = InstrAt(m, p, i) /\ FramesAt(n, p, i) = FramesAt(m, p, i)
      BY <1>1, <1>3 DEF Appended
    <2>. QED  BY <1>2, <1>3, <2>1 DEF AllFound
  <1>4. CASE i = size
    <2>1. InstrAt(n, p, i) = in /\ FramesAt(n, p, i) = FramesAt(m, p, size)
      BY <1>1, <1>4 DEF Appended
    <2>. QED  BY <1>2, <2>1
  <1>. QED  BY <1>1, <1>3, <1>4

(* What is known of a procedure being built and its ProcCon, and of one    *)
(* that is complete.                                                       *)
BuiltProc(m, p, con) ==
    /\ Agrees(m, p, con) /\ AllFound(m, p)
    /\ AllInCode(m, p) => Landing(m, p, con) /\ Guarding(m, p, con)
Complete(m, p) ==
    /\ Walkable(m, p) /\ AllFound(m, p)
    /\ AllInCode(m, p) => \A i \in CodeIds(m, p) :
        /\ Jumps(InstrAt(m, p, i)) => Target(m, p, i) \in CodeIds(m, p)
        /\ InstrAt(m, p, i).op = "PUSHH"
              => Lies(FramesAt(m, p, i + 1), FramesAt(m, p, Target(m, p, i)))

(* The walk of a procedure, and what its operands find, stay when tables   *)
(* other than the code grow.                                               *)
LEMMA SameCode ==
    ASSUME NEW m, NEW n, NEW p, Walkable(m, p), AllFound(m, p),
           Base(n, p) = Base(m, p), Code(n, p) = Code(m, p),
           \A i \in CodeIds(m, p) : InstrResolves(m, InstrAt(m, p, i)),
           \A r \in Ids(m.regs) : At(n.regs, r) = At(m.regs, r)
    PROVE  /\ CodeIds(n, p) = CodeIds(m, p)
           /\ \A i : InstrAt(n, p, i) = InstrAt(m, p, i)
           /\ \A i \in 0 .. Len(Code(m, p)) : FramesAt(n, p, i) = FramesAt(m, p, i)
           /\ Walkable(n, p) /\ AllFound(n, p)
  <1> DEFINE size == Len(Code(m, p))
  <1>1. size \in Nat
    BY DEF Walkable
  <1>2. /\ CodeIds(n, p) = CodeIds(m, p) /\ CodeIds(m, p) = 0 .. size - 1
        /\ \A i : InstrAt(n, p, i) = InstrAt(m, p, i)
    BY DEF CodeIds, Ids, InstrAt
  <1>3. \A i \in 0 .. size : FramesAt(n, p, i) = FramesAt(m, p, i)
    <2>1. \A i \in 0 .. size - 1 : InstrAt(n, p, i) = InstrAt(m, p, i)
      BY <1>2
    <2> HIDE DEF size
    <2>. QED  BY <1>1, <2>1, SameWalk
  <1>4. \A i \in CodeIds(m, p) : i \in 0 .. size
    BY <1>1, <1>2
  <1>5. Walkable(n, p)
    <2>1. Base(n, p)[1] = Base(m, p)[1]
      OBVIOUS
    <2>2. At(n.ptypes, At(n.procs, p).ptype).io = At(m.ptypes, At(m.procs, p).ptype).io
      BY <2>1 DEF Base
    <2>. QED  BY <1>1, <1>2, <1>3, <1>4, <2>2 DEF Walkable
  <1>6. AllFound(n, p)
    <2> SUFFICES ASSUME NEW i \in CodeIds(m, p)
                 PROVE  Found(n, InstrAt(m, p, i), FramesAt(m, p, i))
      BY <1>2, <1>3, <1>4 DEF AllFound
    <2> DEFINE in == InstrAt(m, p, i)
    <2>1. Found(m, in, FramesAt(m, p, i))
      BY DEF AllFound
    <2>2. \A reg \in Dereferences(in) \cup References(in) : At(n.regs, reg) = At(m.regs, reg)
      BY DEF InstrResolves
    <2> HIDE DEF in
    <2>3. Found(n, in, FramesAt(m, p, i))
      BY <2>1, <2>2 DEF Found, Assigned
    <2>. QED  BY <2>3 DEF in
  <1>. QED  BY <1>2, <1>3, <1>5, <1>6

(* What is known of a procedure being built is kept then, too.             *)
LEMMA BuiltKept ==
    ASSUME NEW m, NEW n, NEW p, NEW con, BuiltProc(m, p, con),
           Base(n, p) = Base(m, p), Code(n, p) = Code(m, p),
           At(n.procs, p).ills = At(m.procs, p).ills,
           \A i \in CodeIds(m, p) : InstrResolves(m, InstrAt(m, p, i)),
           \A r \in Ids(m.regs) : At(n.regs, r) = At(m.regs, r)
    PROVE  BuiltProc(n, p, con)
  <1> DEFINE size == Len(Code(m, p))
  <1>1. size \in Nat /\ Walkable(m, p) /\ AllFound(m, p)
    BY DEF BuiltProc, Agrees, Walkable
  <1>2. /\ CodeIds(n, p) = CodeIds(m, p) /\ CodeIds(m, p) = 0 .. size - 1
        /\ \A i : InstrAt(n, p, i) = InstrAt(m, p, i)
        /\ \A i : Target(n, p, i) = Target(m, p, i)
        /\ AllInCode(n, p) = AllInCode(m, p)
    BY DEF CodeIds, Ids, InstrAt, Target, AllInCode
  <1>3. /\ \A i \in 0 .. size : FramesAt(n, p, i) = FramesAt(m, p, i)
        /\ Walkable(n, p) /\ AllFound(n, p)
    BY <1>1, SameCode
  <1>4. \A i \in CodeIds(m, p) : i \in 0 .. size /\ i + 1 \in 0 .. size
    BY <1>1, <1>2
  <1>5. FramesAt(n, p, size) = FramesAt(m, p, size)
    BY <1>1, <1>3
  <1>6. Agrees(n, p, con)
    BY <1>2, <1>3, <1>5 DEF BuiltProc, Agrees
  <1>7. AllInCode(m, p) => Landing(n, p, con)
    BY <1>2 DEF BuiltProc, Landing
  <1>8. ASSUME AllInCode(m, p) PROVE Guarding(n, p, con)
    <2> SUFFICES ASSUME NEW i \in CodeIds(n, p), InstrAt(n, p, i).op = "PUSHH"
                 PROVE  LET t == Target(n, p, i)
                            inside == FramesAt(n, p, i + 1)
                        IN  /\ t > i
                            /\ t < size => Lies(inside, FramesAt(n, p, t))
                            /\ ~(t < size) => /\ Lies(inside, FramesAt(n, p, size))
                                              /\ t \in con.frames[Len(inside)].jumps
      BY DEF Guarding
    <2> DEFINE t == Target(m, p, i)
    <2>1. /\ t = Target(n, p, i) /\ FramesAt(n, p, i + 1) = FramesAt(m, p, i + 1)
          /\ InstrAt(m, p, i).op = "PUSHH" /\ i \in CodeIds(m, p)
      BY <1>2, <1>3, <1>4
    <2>2. /\ t > i
          /\ t < size => Lies(FramesAt(m, p, i + 1), FramesAt(m, p, t))
          /\ ~(t < size) => /\ Lies(FramesAt(m, p, i + 1), FramesAt(m, p, size))
                            /\ t \in con.frames[Len(FramesAt(m, p, i + 1))].jumps
      BY <1>8, <2>1 DEF BuiltProc, Guarding
    <2>3. t \in Int /\ i \in Nat
      BY <1>1, <1>2, <2>1 DEF Target, BranchIndex, Walkable
    <2>4. t < size => FramesAt(n, p, t) = FramesAt(m, p, t)
      <3>1. t < size => t \in 0 .. size
        BY <1>1, <2>2, <2>3
      <3>. QED  BY <1>3, <3>1
    <2>. QED  BY <1>5, <2>1, <2>2, <2>4
  <1>. QED  BY <1>2, <1>3, <1>6, <1>7, <1>8 DEF BuiltProc

(* An instruction that is counted and not stored leaves the frames what    *)
(* they were; where they start is said no more.                            *)
LEMMA IllBuilt ==
    ASSUME NEW m, NEW n, NEW p, NEW con, BuiltProc(m, p, con),
           Base(n, p) = Base(m, p), Code(n, p) = Code(m, p),
           At(n.procs, p).ills = At(m.procs, p).ills + 1,
           \A i \in CodeIds(m, p) : InstrResolves(m, InstrAt(m, p, i)),
           \A r \in Ids(m.regs) : At(n.regs, r) = At(m.regs, r),
           NEW e, e.frames = con.frames, e.instrCount = con.instrCount + 1
    PROVE  BuiltProc(n, p, e)
  <1> DEFINE size == Len(Code(m, p))
             frames == FramesAt(m, p, size)
  <1>1. /\ size \in Nat /\ Walkable(m, p) /\ AllFound(m, p)
        /\ At(m.procs, p).ills \in Nat
        /\ con.instrCount = size + At(m.procs, p).ills
        /\ Len(con.frames) = Len(frames)
        /\ \A k \in 1 .. Len(frames) :
              Mirrors(con.frames[k], frames[k], AllInCode(m, p))
    BY DEF BuiltProc, Agrees, Walkable
  <1>2. /\ FramesAt(n, p, size) = frames
        /\ Walkable(n, p) /\ AllFound(n, p)
    BY <1>1, SameCode
  <1>3. /\ At(n.procs, p).ills \in Nat /\ ~AllInCode(n, p)
        /\ e.instrCount = size + At(n.procs, p).ills
    BY <1>1 DEF AllInCode
  <1>4. \A k \in 1 .. Len(frames) :
            Mirrors(e.frames[k], frames[k], AllInCode(n, p))
    BY <1>1, <1>3 DEF Mirrors
  <1>5. Agrees(n, p, e)
    BY <1>1, <1>2, <1>3, <1>4 DEF Agrees
  <1>. QED  BY <1>2, <1>3, <1>5 DEF BuiltProc

(* A procedure createModule finds consistent is complete, in any tables    *)
(* with its code.                                                          *)
LEMMA ConsistentComplete ==
    ASSUME NEW m, NEW p, NEW con, ConType(con, Nat), BuiltProc(m, p, con),
           Consistent(con)
    PROVE  Complete(m, p)
  <1> DEFINE size == Len(Code(m, p))
  <1>1. /\ size \in Nat /\ Walkable(m, p)
        /\ AllInCode(m, p) => con.instrCount = size
        /\ Len(con.frames) = 1 /\ \A t \in con.frames[1].jumps : t < con.instrCount
    BY DEF BuiltProc, Agrees, Walkable, AllInCode, Consistent, Top, Last
  <1>2. ASSUME AllInCode(m, p), NEW i \in CodeIds(m, p), Jumps(InstrAt(m, p, i))
        PROVE  Target(m, p, i) \in CodeIds(m, p) /\ Target(m, p, i) < size
    <2>1. /\ Target(m, p, i) \in Nat
          /\ \/ Target(m, p, i) < size
             \/ \E k \in 1 .. 1 : Target(m, p, i) \in con.frames[k].jumps
      BY <1>1, <1>2 DEF BuiltProc, Landing
    <2>2. Target(m, p, i) < size
      BY <1>1, <1>2, <2>1
    <2>. QED  BY <1>1, <2>1, <2>2 DEF CodeIds, Ids
  <1>3. ASSUME AllInCode(m, p), NEW i \in CodeIds(m, p),
               InstrAt(m, p, i).op = "PUSHH"
        PROVE  Lies(FramesAt(m, p, i + 1), FramesAt(m, p, Target(m, p, i)))
    <2>1. Target(m, p, i) < size
      BY <1>2, <1>3 DEF Jumps
    <2>. QED  BY <1>3, <2>1 DEF BuiltProc, Guarding
  <1>. QED  BY <1>1, <1>2, <1>3 DEF Complete, BuiltProc

-----------------------------------------------------------------------------
(* The invariant, and the calls.                                           *)
FramesInv ==
    /\ PresetTop
    /\ \A p \in Ids(procs) : BuiltProc(Current, p, At(procCons, p))
    /\ \A p \in Ids(created.procs) : Complete(created, p)

(* What IInv says of a procedure.                                          *)
LEMMA ProcFacts ==
    ASSUME IInv, NEW p \in Ids(procs)
    PROVE  /\ ConType(At(procCons, p), Nat)
           /\ At(procs, p) \in Procs /\ At(procs, p).ptype \in Ids(ptypes)
           /\ At(ptypes, At(procs, p).ptype).io \in Nat
           /\ \A i \in CodeIds(Current, p) : InstrResolves(Current, InstrAt(Current, p, i))
  <1>1. p \in Ids(procCons)
    BY DEF IInv, Ids
  <1>2. At(procs, p) \in Procs /\ At(procs, p).ptype \in Ids(ptypes)
    BY ProcKept DEF IInv
  <1>3. At(ptypes, At(procs, p).ptype) \in ProcTypes
    BY <1>2, IInvFacts, EntryFacts
  <1>4. \A i \in CodeIds(Current, p) : InstrResolves(Current, InstrAt(Current, p, i))
    <2>1. ProcsResolve(Current) /\ Current.procs = procs
      BY DEF IInv, Sound, TablesResolve, Tables, Current
    <2>. QED  BY <2>1 DEF ProcsResolve
  <1>. QED  BY <1>1, <1>2, <1>3, <1>4 DEF IInv, ConsTyped, ProcTypes

(* One procedure, when its code and ProcCon stay and the tables grow.      *)
Grows ==
    /\ \A t \in Ids(ptypes) : At(ptypes', t) = At(ptypes, t)
    /\ \A r \in Ids(regs) : At(regs', r) = At(regs, r)
    /\ Ids(regs) \subseteq Ids(regs')

LEMMA OtherKept ==
    ASSUME IInv, FramesInv, Grows, NEW p \in Ids(procs),
           At(procs', p) = At(procs, p), At(procCons', p) = At(procCons, p)
    PROVE  BuiltProc(Current', p, At(procCons', p))
  <1>1. PICK m : m = Current
    OBVIOUS
  <1>2. PICK n : n = Current'
    OBVIOUS
  <1>3. /\ m.ptypes = ptypes /\ m.procs = procs /\ m.regs = regs
        /\ n.ptypes = ptypes' /\ n.procs = procs' /\ n.regs = regs'
    BY <1>1, <1>2 DEF Current
  <1>4. /\ Base(n, p) = Base(m, p) /\ Code(n, p) = Code(m, p)
        /\ At(n.procs, p).ills = At(m.procs, p).ills
    <2>1. At(procs, p).ptype \in Ids(ptypes)
      BY ProcFacts
    <2>. QED  BY <1>3, <2>1 DEF Base, Code, Grows
  <1>5. BuiltProc(m, p, At(procCons, p))
    BY <1>1 DEF FramesInv
  <1>6. \A i \in CodeIds(m, p) : InstrResolves(m, InstrAt(m, p, i))
    BY <1>1, ProcFacts
  <1>7. \A r \in Ids(m.regs) : At(n.regs, r) = At(m.regs, r)
    BY <1>3 DEF Grows
  <1>8. BuiltProc(n, p, At(procCons, p))
    BY <1>4, <1>5, <1>6, <1>7, BuiltKept
  <1>. QED  BY <1>2, <1>8

LEMMA TablesGrown ==
    ASSUME IInv, FramesInv, Grows, UNCHANGED << procs, procCons, created >>
    PROVE  FramesInv'
  <1>1. \A p \in Ids(procs') : BuiltProc(Current', p, At(procCons', p))
    BY OtherKept
  <1>2. PresetTop'
    BY DEF FramesInv, PresetTop, Grows
  <1>3. \A p \in Ids(created'.procs) : Complete(created', p)
    BY DEF FramesInv
  <1>. QED  BY <1>1, <1>2, <1>3 DEF FramesInv

(* addProc: a procedure without code, with the frame of its IO register.   *)
LEMMA EmptyBuilt ==
    ASSUME NEW m, NEW p, Code(m, p) = << >>, At(m.procs, p).ills = 0,
           NEW io \in Nat, At(m.ptypes, At(m.procs, p).ptype).io = io
    PROVE  BuiltProc(m, p, NewProcCon(io))
  <1> DEFINE f == [firstInstr |-> 0, jumps |-> {}, ftype |-> "REGNR", reg |-> io]
             g == [at |-> None, ftype |-> "REGNR", hindex |-> None, reg |-> io]
             con == NewProcCon(io)
  <1>1. con.frames = << f >> /\ con.instrCount = 0
    BY DEF NewProcCon
  <1>2. Len(Code(m, p)) = 0 /\ CodeIds(m, p) = {}
    BY DEF CodeIds, Ids
  <1>3. FramesAt(m, p, 0) = << g >>
    BY WalkFacts DEF Base
  <1>4. Mirrors(f, g, AllInCode(m, p))
    BY DEF Mirrors, SameStart, None
  <1>5. Walkable(m, p)
    BY <1>2 DEF Walkable
  <1> HIDE DEF f, g, con
  <1>6. Agrees(m, p, con)
    <2>1. Len(<< f >>) = 1 /\ Len(<< g >>) = 1 /\ << f >>[1] = f /\ << g >>[1] = g
      OBVIOUS
    <2>2. \A k \in 1 .. 1 : k = 1
      OBVIOUS
    <2>. QED  BY <1>1, <1>2, <1>3, <1>4, <1>5, <2>1, <2>2 DEF Agrees
  <1>. QED  BY <1>2, <1>6 DEF BuiltProc, Landing, Guarding, AllFound, con

LEMMA AddProcFrames ==
    ASSUME IInv, FramesInv, NEW flags, NEW ptype, AddProc(flags, ptype)
    PROVE  FramesInv'
  <1> DEFINE a == ThrowIf(Len(procs) >= MODULE_PROCS_MAX, "Range")
             b == ThrowIf("RESERVED" \in flags, "Flags")
             v == a & b & Exists(ptypes, ptype)
             e == [flags |-> flags, ptype |-> ptype, code |-> << >>, ills |-> 0]
             new == NewProcCon(At(ptypes, ptype).io)
  <1>1. /\ procs' = IF v = OK THEN Append(procs, e) ELSE procs
        /\ procCons' = IF v # OK THEN procCons ELSE Append(procCons, new)
        /\ UNCHANGED << vtypes, ptypes, regs, created >>
    BY DEF AddProc, Call
  <1> HIDE DEF a, b
  <1>2. v = OK => ptype \in Ids(ptypes)
    BY ExistsFacts, CheckFacts
  <1> HIDE DEF v, new
  <1>3. Grows
    BY <1>1 DEF Grows
  <1>4. CASE v # OK
    BY <1>1, <1>3, <1>4, TablesGrown
  <1>5. CASE v = OK
    <2>1. procs' = Append(procs, e) /\ procCons' = Append(procCons, new)
      BY <1>1, <1>5
    <2>2. procs \in Seq(Procs) /\ procCons \in Seq(ProcCons) /\ Len(procCons) = Len(procs)
      BY IInvFacts DEF IInv, ConsTyped
    <2> HIDE DEF e
    <2>3. /\ Ids(procs') = Ids(procs) \cup {Len(procs)}
          /\ At(procs', Len(procs)) = e /\ At(procCons', Len(procs)) = new
          /\ \A p \in Ids(procs) : /\ At(procs', p) = At(procs, p)
                                   /\ At(procCons', p) = At(procCons, p)
      BY <2>1, <2>2 DEF At, Ids
    <2>4. \A p \in Ids(procs) : BuiltProc(Current', p, At(procCons', p))
      BY <1>3, <2>3, OtherKept
    <2>5. BuiltProc(Current', Len(procs), At(procCons', Len(procs)))
      <3>1. PICK n : n = Current'
        OBVIOUS
      <3>2. PICK p : p = Len(procs)
        OBVIOUS
      <3>3. n.procs = procs' /\ n.ptypes = ptypes
        BY <1>1, <3>1 DEF Current
      <3>4. /\ Code(n, p) = << >> /\ At(n.procs, p).ills = 0
            /\ At(n.procs, p).ptype = ptype
        BY <2>3, <3>2, <3>3 DEF Code, e
      <3>5. PICK io \in Nat : io = At(ptypes, ptype).io
        <4>1. At(ptypes, ptype) \in ProcTypes
          BY <1>2, <1>5, IInvFacts, EntryFacts
        <4>. QED  BY <4>1 DEF ProcTypes
      <3>6. BuiltProc(n, p, NewProcCon(io))
        BY <3>3, <3>4, <3>5, EmptyBuilt
      <3>. QED  BY <2>3, <3>1, <3>2, <3>5, <3>6 DEF new
    <2>6. PresetTop'
      BY <1>1 DEF FramesInv, PresetTop
    <2>7. \A p \in Ids(created'.procs) : Complete(created', p)
      BY <1>1 DEF FramesInv
    <2>. QED  BY <2>3, <2>4, <2>5, <2>6, <2>7 DEF FramesInv
  <1>. QED  BY <1>4, <1>5

(* What addProcInstr stores, and what had been checked of it.              *)
LEMMA StoredFacts ==
    ASSUME IInv, NEW p, NEW in \in Instrs, AddProcInstr(p, in), procs' # procs
    PROVE  /\ p \in Ids(procs)
           /\ procs' = Replace(procs, p, Stored(At(procs, p), in))
           /\ InstrResolves(Current, in)
           /\ in.op \in {"PUSH", "PUSHR"} => in.reg \in Nat
           /\ \E guess : InstrAllowed(p, in, guess)
           /\ \E d, e : /\ Effected(At(procCons, p), in, d)
                        /\ e.frames = d.frames
                        /\ e.instrCount = At(procCons, p).instrCount + 1
                        /\ procCons' = Replace(procCons, p, e)
  <1>1. p \in Ids(procs)
    BY DEF AddProcInstr
  <1> DEFINE con == At(procCons, p)
  <1>2. PICK guess \in BOOLEAN :
            LET operands == Operands(p, in, guess)
                outcome == IF operands = OK THEN Effect(con, in)
                           ELSE Outcome(operands, con, con)
                added == AddInstr(con, outcome)
            IN  /\ procCons' = Replace(procCons, p, added.con)
                /\ procs' = IF added.exc # OK THEN procs
                            ELSE Replace(procs, p, Stored(At(procs, p), in))
    BY <1>1 DEF AddProcInstr
  <1> DEFINE operands == Operands(p, in, guess)
             outcome == IF operands = OK THEN Effect(con, in)
                        ELSE Outcome(operands, con, con)
             added == AddInstr(con, outcome)
             w == Replace(procs, p, Stored(At(procs, p), in))
  <1>3. /\ procCons' = Replace(procCons, p, added.con)
        /\ procs' = w /\ added.exc = OK
    BY <1>2
  <1>4. procs' = Replace(procs, p, Stored(At(procs, p), in))
    BY <1>3
  <1> HIDE DEF w, con, operands
  <1>5. operands = OK /\ outcome = Effect(con, in)
    <2>1. CASE operands # OK
      <3>1. outcome = [exc |-> operands, con |-> con]
        BY <2>1 DEF Outcome
      <3> HIDE DEF outcome
      <3>2. added.exc # OK
        BY <2>1, <3>1 DEF AddInstr, Outcome, OK
      <3>. QED  BY <1>3, <3>2
    <2>. QED  BY <2>1
  <1>6. InstrResolves(Current, in) /\ InstrAllowed(p, in, guess)
    BY <1>5, OperandsFacts DEF operands
  <1>7. in.op \in {"PUSH", "PUSHR"} => in.reg \in Nat
    <2>1. \A r \in Ids(regs) : r \in Nat
      BY IInvFacts, EntryFacts
    <2>. QED  BY <1>6, <2>1 DEF InstrResolves, Current
  <1>8. ConType(con, Nat)
    BY <1>1, ProcFacts DEF con
  <1>9. PICK v \in Verdicts : \E d :
            /\ outcome = [exc |-> v, con |-> d]
            /\ ConType(d, Nat) /\ d.instrCount = con.instrCount
    <2>1. PRESET_REG_ED \in Nat
      BY DEF PRESET_REG_ED
    <2>2. Outcomes(Effect(con, in), con, Nat)
      BY <1>7, <1>8, <2>1, EffectFacts
    <2>. QED  BY <1>5, <2>2 DEF Outcomes
  <1>10. PICK d : /\ outcome = [exc |-> v, con |-> d]
                  /\ ConType(d, Nat) /\ d.instrCount = con.instrCount
    BY <1>9
  <1>11. v = OK /\ added.con = [d EXCEPT !.instrCount = @ + 1]
    <2> HIDE DEF outcome
    <2>1. added = AddInstr(con, [exc |-> v, con |-> d])
      BY <1>10
    <2> HIDE DEF added
    <2>. QED  BY <1>3, <2>1 DEF AddInstr, Outcome, OK
  <1>12. Effected(con, in, d)
    <2>1. Effect(con, in).exc = OK /\ Effect(con, in).con = d
      BY <1>5, <1>10, <1>11
    <2>. QED  BY <1>7, <1>8, <2>1, EffectShape
  <1>13. added.con.frames = d.frames /\ added.con.instrCount = con.instrCount + 1
    <2>1. d \in [frames : Seq(FrameRecords(Nat)), instrCount : 0 .. PROC_INSTR_MAX]
      BY <1>10 DEF ConType
    <2> HIDE DEF added
    <2>. QED  BY <1>10, <1>11, <2>1
  <1> HIDE DEF added
  <1>. QED  BY <1>1, <1>3, <1>4, <1>6, <1>7, <1>12, <1>13 DEF con

(* A refused instruction leaves the ProcCon as it was, whatever its check  *)
(* had already done to it.                                                 *)
LEMMA RefusedFacts ==
    ASSUME IInv, NEW p, NEW in \in Instrs, AddProcInstr(p, in), procs' = procs
    PROVE  procCons' = procCons
  <1>1. CASE p \notin Ids(procs)
    BY <1>1 DEF AddProcInstr
  <1>2. CASE p \in Ids(procs)
    <2> DEFINE con == At(procCons, p)
    <2>1. PICK guess \in BOOLEAN :
              LET operands == Operands(p, in, guess)
                  outcome == IF operands = OK THEN Effect(con, in)
                             ELSE Outcome(operands, con, con)
                  added == AddInstr(con, outcome)
              IN  /\ procCons' = Replace(procCons, p, added.con)
                  /\ procs' = IF added.exc # OK THEN procs
                              ELSE Replace(procs, p, Stored(At(procs, p), in))
      BY <1>2 DEF AddProcInstr
    <2> DEFINE operands == Operands(p, in, guess)
               outcome == IF operands = OK THEN Effect(con, in)
                          ELSE Outcome(operands, con, con)
               added == AddInstr(con, outcome)
               w == Replace(procs, p, Stored(At(procs, p), in))
    <2>2. /\ procCons' = Replace(procCons, p, added.con)
          /\ procs' = IF added.exc # OK THEN procs ELSE w
      BY <2>1
    <2>3. w # procs
      <3>1. p + 1 \in DOMAIN procs /\ At(procs, p) \in Procs
        BY <1>2, IInvFacts DEF Ids, At
      <3>2. PICK proc \in Procs : proc = At(procs, p)
        BY <3>1
      <3>3. Stored(proc, in) # proc
        <4>1. proc.code \in Seq(Instrs) /\ proc.ills \in Nat
          BY DEF Procs
        <4>2. Append(proc.code, in) # proc.code /\ proc.ills + 1 # proc.ills
          BY <4>1
        <4>. QED  BY <4>2, StoredIs
      <3>4. At(w, p) = Stored(proc, in)
        BY <3>1, <3>2 DEF Replace, At
      <3> HIDE DEF w
      <3>. QED  BY <3>2, <3>3, <3>4
    <2> HIDE DEF w, con, operands
    <2>4. added.exc # OK
      BY <2>2, <2>3
    <2>5. ConType(con, Nat) /\ PRESET_REG_ED \in Nat
      BY <1>2, ProcFacts DEF con, PRESET_REG_ED
    <2>6. /\ operands \in Verdicts
          /\ operands = OK => (in.op \in {"PUSH", "PUSHR"} => in.reg \in Nat)
      <3>1. \A r \in Ids(regs) : r \in Nat
        BY IInvFacts, EntryFacts
      <3>2. operands \in Verdicts /\ (operands = OK => InstrResolves(Current, in))
        BY OperandsFacts DEF operands
      <3>. QED  BY <3>1, <3>2 DEF InstrResolves, Current
    <2>7. Outcomes(outcome, con, Nat)
      <3>1. CASE operands = OK
        BY <2>5, <2>6, <3>1, EffectFacts
      <3>2. CASE operands # OK
        <4>1. outcome = [exc |-> operands, con |-> con]
          BY <3>2 DEF Outcome
        <4>. QED  BY <2>5, <2>6, <4>1, ThrownOutcome
      <3>. QED  BY <3>1, <3>2
    <2> HIDE DEF outcome
    <2>8. PICK v \in Verdicts : \E d :
              /\ outcome = [exc |-> v, con |-> d]
              /\ ConType(d, Nat) /\ d.instrCount = con.instrCount
              /\ v # OK => d = con
      BY <2>7 DEF Outcomes
    <2>9. PICK d :
              /\ outcome = [exc |-> v, con |-> d]
              /\ ConType(d, Nat) /\ d.instrCount = con.instrCount
              /\ v # OK => d = con
      BY <2>8
    <2>10. added.con = con
      BY <2>4, <2>5, <2>9, AddInstrFacts
    <2>11. Replace(procCons, p, con) = procCons
      <3>1. procCons \in Seq(ProcCons) /\ p + 1 \in DOMAIN procCons
        BY <1>2 DEF IInv, ConsTyped, Ids
      <3>. QED  BY <3>1 DEF Replace, con, At
    <2>. QED  BY <2>2, <2>10, <2>11
  <1>. QED  BY <1>1, <1>2

LEMMA AddProcInstrFrames ==
    ASSUME IInv, FramesInv, NEW p, NEW in \in Instrs, AddProcInstr(p, in)
    PROVE  FramesInv'
  <1>1. UNCHANGED << vtypes, ptypes, regs, created >>
    BY DEF AddProcInstr
  <1>2. Grows
    BY <1>1 DEF Grows
  <1>3. CASE procs' = procs
    BY <1>1, <1>2, <1>3, RefusedFacts, TablesGrown
  <1>4. CASE procs' # procs
    <2> DEFINE f == Stored(At(procs, p), in)
               c == At(procCons, p)
    <2>1. /\ p \in Ids(procs) /\ procs' = Replace(procs, p, f)
          /\ InstrResolves(Current, in)
          /\ in.op \in {"PUSH", "PUSHR"} => in.reg \in Nat
      BY <1>4, StoredFacts
    <2>2. PICK guess : InstrAllowed(p, in, guess)
      BY <1>4, StoredFacts
    <2>3. PICK d, e : /\ Effected(c, in, d)
                      /\ e.frames = d.frames
                      /\ e.instrCount = c.instrCount + 1
                      /\ procCons' = Replace(procCons, p, e)
      BY <1>4, StoredFacts
    <2>4. /\ procs \in Seq(Procs) /\ procCons \in Seq(ProcCons)
          /\ Len(procCons) = Len(procs)
          /\ p \in Ids(procCons)
      BY <2>1, IInvFacts DEF IInv, ConsTyped, Ids
    <2>5. /\ ConType(c, Nat) /\ At(procs, p) \in Procs
          /\ BuiltProc(Current, p, c)
      BY <2>1, ProcFacts DEF FramesInv
    <2> HIDE DEF f, c
    <2>6. /\ Ids(procs') = Ids(procs)
          /\ At(procs', p) = f /\ At(procCons', p) = e
          /\ \A q \in Ids(procs) \ {p} : /\ At(procs', q) = At(procs, q)
                                         /\ At(procCons', q) = At(procCons, q)
      BY <2>1, <2>3, <2>4 DEF Replace, At, Ids
    <2>7. \A q \in Ids(procs) \ {p} : BuiltProc(Current', q, At(procCons', q))
      BY <1>2, <2>6, OtherKept
    <2>8. BuiltProc(Current', p, At(procCons', p))
      <3>1. PICK m : m = Current
        OBVIOUS
      <3>2. PICK n : n = Current'
        OBVIOUS
      <3>3. /\ m.ptypes = ptypes /\ m.procs = procs /\ m.regs = regs
            /\ n.ptypes = ptypes /\ n.procs = procs' /\ n.regs = regs
        BY <1>1, <3>1, <3>2 DEF Current
      <3>4. PICK code \in Seq(Instrs) : code = At(procs, p).code
        BY <2>5 DEF Procs
      <3>5. /\ f.ptype = At(procs, p).ptype
            /\ in.op = "ILL" => f.code = code /\ f.ills = At(procs, p).ills + 1
            /\ in.op # "ILL" => f.code = Append(code, in) /\ f.ills = At(procs, p).ills
        BY <2>5, <3>4, StoredIs DEF f
      <3>6. Base(n, p) = Base(m, p) /\ Code(m, p) = code
        BY <2>6, <3>3, <3>4, <3>5 DEF Base, Code
      <3>7. BuiltProc(m, p, c) /\ Len(Code(m, p)) \in Nat
        BY <2>5, <3>1, <3>4, <3>6
      <3>8. CASE in.op = "ILL"
        <4>1. Code(n, p) = Code(m, p) /\ At(n.procs, p).ills = At(m.procs, p).ills + 1
          BY <2>6, <3>3, <3>4, <3>5, <3>8 DEF Code
        <4>2. d = c
          BY <2>3, <3>8 DEF Effected
        <4>3. \A i \in CodeIds(m, p) : InstrResolves(m, InstrAt(m, p, i))
          BY <2>1, <3>1, ProcFacts
        <4>4. \A r \in Ids(m.regs) : At(n.regs, r) = At(m.regs, r)
          BY <3>3
        <4>5. BuiltProc(n, p, e)
          BY <2>3, <3>6, <3>7, <4>1, <4>2, <4>3, <4>4, IllBuilt
        <4>. QED  BY <2>6, <3>2, <4>5
      <3>9. CASE in.op # "ILL"
        <4>1. Appended(m, n, p, in)
          <5>1. Code(n, p) = Append(code, in) /\ At(n.procs, p).ills = At(m.procs, p).ills
            BY <2>6, <3>3, <3>4, <3>5, <3>9 DEF Code
          <5>2. /\ Len(Append(code, in)) = Len(code) + 1
                /\ At(Append(code, in), Len(code)) = in
                /\ \A i \in Ids(code) : At(Append(code, in), i) = At(code, i)
            BY <3>4 DEF At, Ids
          <5>. QED  BY <3>6, <5>1, <5>2 DEF Appended, InstrAt, CodeIds
        <4>2. Found(m, in, FramesAt(m, p, Len(Code(m, p))))
          BY <2>2, <2>5, <3>1, AcceptedFound DEF BuiltProc, FramesInv, c
        <4>3. Agrees(n, p, e)
          BY <2>1, <2>3, <2>5, <3>7, <4>1, AgreesStep DEF BuiltProc
        <4>4. AllInCode(n, p) = AllInCode(m, p)
          BY <4>1 DEF AllInCode, Appended
        <4>5. AllInCode(m, p) => Landing(n, p, e)
          BY <2>1, <2>3, <2>5, <3>7, <4>1, LandingStep DEF BuiltProc
        <4>6. AllInCode(m, p) => Guarding(n, p, e)
          BY <2>1, <2>3, <2>5, <3>7, <4>1, GuardingStep DEF BuiltProc
        <4>7. AllFound(n, p)
          BY <3>3, <3>7, <4>1, <4>2, FoundStep DEF BuiltProc
        <4>. QED  BY <2>6, <3>2, <4>3, <4>4, <4>5, <4>6, <4>7 DEF BuiltProc
      <3>. QED  BY <3>8, <3>9
    <2>9. PresetTop'
      BY <1>1 DEF FramesInv, PresetTop
    <2>10. \A q \in Ids(created'.procs) : Complete(created', q)
      BY <1>1 DEF FramesInv
    <2>. QED  BY <2>6, <2>7, <2>8, <2>9, <2>10 DEF FramesInv
  <1>. QED  BY <1>3, <1>4

(* resetModule, and the one after createModule.                            *)
LEMMA PresetFacts == 0 \in Ids(PresetRegs) /\ "TOP_LEVEL" \in At(PresetRegs, 0).flags
  BY DEF PresetRegs, Ids, At

LEMMA ClearedFrames ==
    ASSUME Cleared, \A p \in Ids(created'.procs) : Complete(created', p)
    PROVE  FramesInv'
  <1>1. Ids(procs') = {} /\ regs' = PresetRegs
    BY DEF Cleared, Ids
  <1>. QED  BY <1>1, PresetFacts DEF FramesInv, PresetTop

LEMMA CreateModuleFrames ==
    ASSUME IInv, FramesInv, CreateModule
    PROVE  FramesInv'
  <1>1. CASE ConsistencyVerdict # OK
    <2>1. UNCHANGED << tables, created >>
      BY <1>1 DEF CreateModule
    <2>. QED  BY <2>1, TablesGrown DEF tables, Grows
  <1>2. CASE ConsistencyVerdict = OK
    <2>1. created' = Current /\ Cleared
      BY <1>2 DEF CreateModule, Current
    <2>2. ASSUME NEW p \in Ids(procs)
          PROVE  Complete(Current, p)
      <3>1. Consistent(At(procCons, p))
        BY <1>2 DEF ConsistencyVerdict, ThrowIf, OK
      <3>2. ConType(At(procCons, p), Nat) /\ BuiltProc(Current, p, At(procCons, p))
        BY ProcFacts DEF FramesInv
      <3>. QED  BY <3>1, <3>2, ConsistentComplete
    <2>3. Current.procs = procs
      BY DEF Current
    <2>. QED  BY <2>1, <2>2, <2>3, ClearedFrames
  <1>. QED  BY <1>1, <1>2

LEMMA InitFrames == Init => FramesInv
  <1> SUFFICES ASSUME Init PROVE FramesInv
    OBVIOUS
  <1>1. Ids(procs) = {} /\ Ids(created.procs) = {} /\ regs = PresetRegs
    BY DEF Init, NoModule, Ids
  <1>. QED  BY <1>1, PresetFacts DEF FramesInv, PresetTop

LEMMA AppendedGrows ==
    ASSUME IInv, UNCHANGED << procs, procCons, created >>,
           \/ regs' = regs /\ (ptypes' = ptypes \/ \E e : ptypes' = Append(ptypes, e))
           \/ ptypes' = ptypes /\ \E e : regs' = Append(regs, e)
    PROVE  Grows
  <1>1. ptypes \in Seq(ProcTypes) /\ regs \in Seq(VarSpecs)
    BY IInvFacts
  <1>. QED  BY <1>1 DEF Grows, At, Ids

(* Every call, refused or not, keeps the invariant.                        *)
LEMMA NextFrames == IInv /\ FramesInv /\ [Next]_vars => FramesInv'
  <1> SUFFICES ASSUME IInv, FramesInv, [Next]_vars PROVE FramesInv'
    OBVIOUS
  <1>1. ASSUME NEW bytes \in ByteSizes, AddVarType(bytes) PROVE FramesInv'
    BY <1>1, AppendedGrows, TablesGrown DEF AddVarType
  <1>2. ASSUME NEW id, NEW vtype, NEW flags, NEW count,
               AddVarTypeVRef(id, flags, vtype, count)
        PROVE  FramesInv'
    BY <1>2, AppendedGrows, TablesGrown DEF AddVarTypeVRef
  <1>3. ASSUME NEW flags, NEW io, AddProcType(flags, io) PROVE FramesInv'
    <2>1. /\ regs' = regs /\ UNCHANGED << procs, procCons, created >>
          /\ ptypes' = ptypes \/ \E e : ptypes' = Append(ptypes, e)
      BY <1>3 DEF AddProcType, Call
    <2>. QED  BY <2>1, AppendedGrows, TablesGrown
  <1>4. ASSUME NEW flags, NEW vtype, NEW count, AddReg(flags, vtype, count)
        PROVE  FramesInv'
    <2>1. /\ ptypes' = ptypes /\ UNCHANGED << procs, procCons, created >>
          /\ regs' = regs \/ \E e : regs' = Append(regs, e)
      BY <1>4 DEF AddReg, Call
    <2>. QED  BY <2>1, AppendedGrows, TablesGrown
  <1>5. ASSUME NEW flags, NEW ptype, AddProc(flags, ptype) PROVE FramesInv'
    BY <1>5, AddProcFrames
  <1>6. ASSUME NEW p, NEW in \in Instrs, AddProcInstr(p, in) PROVE FramesInv'
    BY <1>6, AddProcInstrFrames
  <1>7. CASE ResetModule
    BY <1>7, ClearedFrames DEF ResetModule, FramesInv
  <1>8. CASE CreateModule
    BY <1>8, CreateModuleFrames
  <1>9. CASE UNCHANGED vars
    BY <1>9, TablesGrown DEF vars, Grows
  <1>. QED  BY <1>1, <1>2, <1>3, <1>4, <1>5, <1>6, <1>7, <1>8, <1>9 DEF Next

THEOREM FramesInvariance == Spec => [](IInv /\ FramesInv)
  <1>1. Spec => []IInv
    BY Invariance
  <1>. QED  BY <1>1, InitFrames, NextFrames, PTL DEF Spec

-----------------------------------------------------------------------------
(* What the builder promises the code generator.                           *)

LEMMA AgreesMeans ==
    ASSUME NEW p, Agrees(Current, p, At(procCons, p)),
           NEW frames, frames = FramesAt(Current, p, Len(Code(Current, p)))
    PROVE  /\ At(procCons, p).instrCount
                = Len(Code(Current, p)) + At(procs, p).ills
           /\ Len(At(procCons, p).frames) = Len(frames)
           /\ \A k \in DOMAIN frames :
                /\ At(procCons, p).frames[k].ftype = frames[k].ftype
                /\ frames[k].ftype # "HAND" =>
                        At(procCons, p).frames[k].reg = frames[k].reg
                /\ AllInCode(Current, p) =>
                        SameStart(At(procCons, p).frames[k], frames[k])
  <1>1. DOMAIN frames = 1 .. Len(frames)
    <2>1. Len(Code(Current, p)) \in 0 .. Len(Code(Current, p))
      BY DEF Agrees, Walkable
    <2>2. frames \in Seq(GenFrames)
      BY <2>1, WalkType DEF Agrees
    <2>. QED  BY <2>2
  <1>2. Current.procs = procs
    BY DEF Current
  <1>. QED  BY <1>1, <1>2 DEF Agrees, Mirrors

(* The frames the builder tracks, through refused instructions, resets and *)
(* new modules, are those the code generator finds when it walks the       *)
(* accepted code, and an ILL, which is in no code, opens and closes none;  *)
(* they start at the same instruction, and owe the handler's jump, as long *)
(* as no ILL was accepted in the procedure.                                *)
THEOREM FramesAlwaysAgree == Spec => []FramesAgree
  <1>1. FramesInv => FramesAgree
    <2> SUFFICES ASSUME FramesInv PROVE FramesAgree
      OBVIOUS
    <2>1. ASSUME NEW p \in Ids(procs)
          PROVE  Agrees(Current, p, At(procCons, p))
      BY DEF FramesInv, BuiltProc
    <2>. QED  BY <2>1, AgreesMeans DEF FramesAgree
  <1>. QED  BY <1>1, FramesInvariance, PTL

(* Every register operand of accepted code that is not top-level is found  *)
(* among the frames the code generator has open at the instruction, in a   *)
(* reference frame where a reference is stored, and every call finds a     *)
(* register frame on top: emitRegValue and emitFuncCall never miss.        *)
THEOREM OperandsAlwaysResolve == Spec => []OperandsResolve
  <1>1. FramesInv => OperandsResolve
    <2> SUFFICES ASSUME FramesInv PROVE OperandsResolve
      OBVIOUS
    <2>1. ASSUME NEW p \in Ids(procs), NEW i \in CodeIds(Current, p)
          PROVE  Found(Current, InstrAt(Current, p, i), FramesAt(Current, p, i))
      BY DEF FramesInv, BuiltProc, AllFound
    <2>2. Current.regs = regs
      BY DEF Current
    <2>. QED  BY <2>1, <2>2 DEF OperandsResolve, Found, Assigned
  <1>. QED  BY <1>1, FramesInvariance, PTL

-----------------------------------------------------------------------------
(* Complete procedures.                                                    *)

(* An open handler's frame is one the walk pushed at a PUSHH, on the       *)
(* frames below it.                                                        *)
LEMMA HandlerPushed ==
    ASSUME NEW m, NEW p, Walkable(m, p), NEW i \in CodeIds(m, p),
           NEW k \in DOMAIN FramesAt(m, p, i),
           FramesAt(m, p, i)[k].ftype = "HAND"
    PROVE  \E j \in CodeIds(m, p) :
               /\ InstrAt(m, p, j).op = "PUSHH"
               /\ FramesAt(m, p, i)[k].hindex = Target(m, p, j)
               /\ SubSeq(FramesAt(m, p, i), 1, k) = FramesAt(m, p, j + 1)
  <1> DEFINE s == FramesAt(m, p, i)
             j == s[k].at
  <1>1. i \in 0 .. Len(Code(m, p))
    BY DEF CodeIds, Ids, Walkable
  <1>2. s \in Seq(GenFrames)
    BY <1>1, WalkType
  <1>3. k \in 1 .. Len(s)
    BY <1>2
  <1>4. Remembered(m, p, s, i, k)
    BY <1>1, <1>3, StackHistory
  <1>5. k # 1
    BY <1>4 DEF Remembered, Base
  <1>6. /\ j \in CodeIds(m, p) /\ Pushes(InstrAt(m, p, j))
        /\ s[k] = Pushed(InstrAt(m, p, j), j)
        /\ SubSeq(s, 1, k) = FramesAt(m, p, j + 1)
    BY <1>4, <1>5 DEF Remembered
  <1>7. InstrAt(m, p, j).op = "PUSHH"
    BY <1>6 DEF Pushes, Pushed
  <1>8. s[k].hindex = Target(m, p, j)
    BY <1>6, <1>7 DEF Pushed, Target
  <1>. QED  BY <1>6, <1>7, <1>8

(* What a landing pad stops at is an open handler.                         *)
LEMMA CatcherFacts ==
    ASSUME NEW frames, Len(frames) \in Nat, DOMAIN frames = 1 .. Len(frames),
           NEW i, Catcher(frames, i) # 0
    PROVE  /\ Catcher(frames, i) \in DOMAIN frames /\ Catcher(frames, i) >= 3
           /\ frames[Catcher(frames, i)].ftype = "HAND"
  <1> DEFINE T == {k \in 3 .. Len(frames) :
                      frames[k].ftype = "HAND" /\ i < frames[k].hindex}
  <1>1. {0} \cup T \subseteq 0 .. Len(frames)
    OBVIOUS
  <1>2. Max({0} \cup T) \in {0} \cup T
    <2> HIDE DEF T
    <2>. QED  BY <1>1, MaxFacts
  <1>3. Catcher(frames, i) \in T
    BY <1>2 DEF Catcher
  <1>. QED  BY <1>3

(* A branch of complete code leads to a block of it.                       *)
LEMMA BranchBlocks ==
    ASSUME NEW m, NEW p, Complete(m, p), AllInCode(m, p),
           NEW j \in CodeIds(m, p),
           Jumps(InstrAt(m, p, j))
    PROVE  Target(m, p, j) \in BlockIndexes(m, p)
  <1>1. Target(m, p, j) \in CodeIds(m, p) /\ Branches(InstrAt(m, p, j))
    BY DEF Complete, Jumps, Branches
  <1>. QED  BY <1>1 DEF BlockIndexes, Target

LEMMA CompleteBlocks ==
    ASSUME NEW m, NEW p, Complete(m, p), AllInCode(m, p)
    PROVE  /\ JumpTargets(m, p) \subseteq BlockIndexes(m, p)
           /\ BlockIndexes(m, p) \subseteq {0} \cup CodeIds(m, p)
           /\ \A i \in Invokes(m, p) :
                 PadTarget(m, p, i) \in {None} \cup BlockIndexes(m, p)
  <1>1. JumpTargets(m, p) \subseteq BlockIndexes(m, p)
    BY BranchBlocks DEF JumpTargets, Jumps, Target
  <1>2. ASSUME NEW j \in CodeIds(m, p), Branches(InstrAt(m, p, j)),
               Target(m, p, j) # j + 1
        PROVE  Target(m, p, j) \in CodeIds(m, p)
    <2>1. Jumps(InstrAt(m, p, j))
      BY <1>2 DEF Branches, BranchIndex, Target, Jumps
    <2>. QED  BY <2>1 DEF Complete
  <1>3. BlockIndexes(m, p) \subseteq {0} \cup CodeIds(m, p)
    BY <1>2 DEF BlockIndexes, Target
  <1>4. ASSUME NEW i \in Invokes(m, p)
        PROVE  PadTarget(m, p, i) \in {None} \cup BlockIndexes(m, p)
    <2> DEFINE frames == FramesAt(m, p, i)
               k == Catcher(frames, BuiltAt(m, p, i))
    <2>1. CASE k = 0
      BY <2>1 DEF PadTarget
    <2>2. CASE k # 0
      <3>1. i \in CodeIds(m, p) /\ Walkable(m, p)
        BY DEF Invokes, Complete
      <3>2. i \in 0 .. Len(Code(m, p))
        BY <3>1 DEF CodeIds, Ids, Walkable
      <3>3. frames \in Seq(GenFrames)
        BY <3>1, <3>2, WalkType
      <3>4. k \in DOMAIN frames /\ frames[k].ftype = "HAND"
        BY <2>2, <3>3, CatcherFacts
      <3>5. PICK j \in CodeIds(m, p) : /\ InstrAt(m, p, j).op = "PUSHH"
                                       /\ frames[k].hindex = Target(m, p, j)
        BY <3>1, <3>4, HandlerPushed
      <3>6. Target(m, p, j) \in BlockIndexes(m, p)
        BY <3>5, BranchBlocks DEF Jumps
      <3>7. PadTarget(m, p, i) = frames[k].hindex
        BY <2>2 DEF PadTarget
      <3>. QED  BY <3>5, <3>6, <3>7
    <2>. QED  BY <2>1, <2>2
  <1>. QED  BY <1>1, <1>3, <1>4

LEMMA LiesPrefix ==
    ASSUME NEW S, NEW s \in Seq(S), NEW t \in Seq(S), Lies(s, t)
    PROVE  IsPrefix(s, t)
  BY DEF Lies, IsPrefix

LEMMA CompletePads ==
    ASSUME NEW m, NEW p, Complete(m, p), AllInCode(m, p),
           NEW i \in Invokes(m, p),
           NEW frames, frames = FramesAt(m, p, i),
           NEW k, k = Catcher(frames, BuiltAt(m, p, i)), k # 0
    PROVE  IsPrefix(SubSeq(frames, 1, k), FramesAt(m, p, frames[k].hindex))
  <1>1. i \in CodeIds(m, p) /\ Walkable(m, p)
    BY DEF Invokes, Complete
  <1>2. i \in 0 .. Len(Code(m, p))
    BY <1>1 DEF CodeIds, Ids, Walkable
  <1>3. frames \in Seq(GenFrames)
    BY <1>1, <1>2, WalkType
  <1>4. k \in DOMAIN frames /\ frames[k].ftype = "HAND"
    BY <1>3, CatcherFacts
  <1>5. PICK j \in CodeIds(m, p) :
            /\ InstrAt(m, p, j).op = "PUSHH"
            /\ frames[k].hindex = Target(m, p, j)
            /\ SubSeq(frames, 1, k) = FramesAt(m, p, j + 1)
    BY <1>1, <1>4, HandlerPushed
  <1>6. /\ Target(m, p, j) \in CodeIds(m, p)
        /\ Lies(FramesAt(m, p, j + 1), FramesAt(m, p, Target(m, p, j)))
    BY <1>5 DEF Complete, Jumps
  <1>7. j + 1 \in 0 .. Len(Code(m, p)) /\ Target(m, p, j) \in 0 .. Len(Code(m, p))
    BY <1>1, <1>6 DEF CodeIds, Ids, Walkable
  <1>8. /\ FramesAt(m, p, j + 1) \in Seq(GenFrames)
        /\ FramesAt(m, p, Target(m, p, j)) \in Seq(GenFrames)
    BY <1>1, <1>7, WalkType
  <1>. QED  BY <1>5, <1>6, <1>8, LiesPrefix

-----------------------------------------------------------------------------
(* Calls, once accepted.                                                   *)

(* The register of the frame a call passes names a variable: it is the     *)
(* procedure's own, or the operand of a PUSH.                              *)
LEMMA PassedResolves ==
    ASSUME NEW m, NEW p, Walkable(m, p), AllFound(m, p),
           At(m.ptypes, At(m.procs, p).ptype).io \in Ids(m.regs),
           \A j \in CodeIds(m, p) : InstrResolves(m, InstrAt(m, p, j)),
           NEW i \in CodeIds(m, p), InstrAt(m, p, i).op = "CALL"
    PROVE  Last(FramesAt(m, p, i)).reg \in Ids(m.regs)
  <1> DEFINE s == FramesAt(m, p, i)
             k == Len(s)
             j == s[k].at
  <1>1. i \in 0 .. Len(Code(m, p))
    BY DEF CodeIds, Ids, Walkable
  <1>2. k \in 1 .. Len(s) /\ Last(s) = s[k]
    BY <1>1, WalkType DEF Last
  <1>3. Remembered(m, p, s, i, k)
    BY <1>1, <1>2, StackHistory
  <1>4. s[k].ftype = "REGNR"
    BY <1>2 DEF AllFound, Found
  <1>5. CASE k = 1
    BY <1>2, <1>3, <1>5 DEF Remembered, Base
  <1>6. CASE k # 1
    <2>1. /\ j \in CodeIds(m, p) /\ Pushes(InstrAt(m, p, j))
          /\ s[k] = Pushed(InstrAt(m, p, j), j)
      BY <1>3, <1>6 DEF Remembered
    <2>2. InstrAt(m, p, j).op = "PUSH" /\ s[k].reg = InstrAt(m, p, j).reg
      BY <1>4, <2>1 DEF Pushes, Pushed
    <2>. QED  BY <1>2, <2>1, <2>2 DEF InstrResolves
  <1>. QED  BY <1>5, <1>6

LEMMA CallKept ==
    ASSUME NEW m, NEW n, NEW p, NEW i, CallAgrees(m, p, i),
           InstrAt(n, p, i) = InstrAt(m, p, i), FramesAt(n, p, i) = FramesAt(m, p, i),
           NEW q, q = InstrAt(m, p, i).proc,
           InstrAt(m, p, i).op = "CALL" =>
               /\ Last(FramesAt(m, p, i)).reg \in Ids(m.regs)
               /\ At(m.ptypes, At(m.procs, q).ptype).io \in Ids(m.regs)
               /\ At(n.ptypes, At(n.procs, q).ptype).io
                    = At(m.ptypes, At(m.procs, q).ptype).io,
           \A r \in Ids(m.regs) : At(n.regs, r) = At(m.regs, r)
    PROVE  CallAgrees(n, p, i)
  BY DEF CallAgrees, SameVariable

(* A call of the code as it was, whatever a step adds.                     *)
LEMMA OldCall ==
    ASSUME IInv, FramesInv, ProcTypesResolve, CallsAgree, Grows,
           \A q \in Ids(procs) : At(procs', q).ptype = At(procs, q).ptype,
           NEW p \in Ids(procs), NEW i \in CodeIds(Current, p),
           InstrAt(Current', p, i) = InstrAt(Current, p, i),
           FramesAt(Current', p, i) = FramesAt(Current, p, i)
    PROVE  CallAgrees(Current', p, i)
  <1>1. PICK m : m = Current
    OBVIOUS
  <1>2. PICK n : n = Current'
    OBVIOUS
  <1>3. /\ m.ptypes = ptypes /\ m.procs = procs /\ m.regs = regs
        /\ n.ptypes = ptypes' /\ n.procs = procs' /\ n.regs = regs'
    BY <1>1, <1>2 DEF Current
  <1>4. PICK q : q = InstrAt(m, p, i).proc
    OBVIOUS
  <1>5. /\ CallAgrees(m, p, i) /\ i \in CodeIds(m, p)
        /\ InstrAt(n, p, i) = InstrAt(m, p, i)
        /\ FramesAt(n, p, i) = FramesAt(m, p, i)
    BY <1>1, <1>2 DEF CallsAgree
  <1>6. ASSUME InstrAt(m, p, i).op = "CALL"
        PROVE  /\ Last(FramesAt(m, p, i)).reg \in Ids(m.regs)
               /\ At(m.ptypes, At(m.procs, q).ptype).io \in Ids(m.regs)
               /\ At(n.ptypes, At(n.procs, q).ptype).io
                    = At(m.ptypes, At(m.procs, q).ptype).io
    <2>1. /\ At(procs, p).ptype \in Ids(ptypes)
          /\ \A j \in CodeIds(m, p) : InstrResolves(m, InstrAt(m, p, j))
      BY <1>1, ProcFacts
    <2>2. At(m.ptypes, At(m.procs, p).ptype).io \in Ids(m.regs)
      BY <1>3, <2>1 DEF ProcTypesResolve
    <2>3. Walkable(m, p) /\ AllFound(m, p)
      BY <1>1 DEF FramesInv, BuiltProc, Agrees
    <2>4. q \in Ids(procs)
      BY <1>3, <1>4, <1>5, <1>6, <2>1 DEF InstrResolves
    <2>5. At(procs, q).ptype \in Ids(ptypes) /\ At(procs', q).ptype = At(procs, q).ptype
      BY <2>4, ProcFacts
    <2>6. /\ At(ptypes, At(procs, q).ptype).io \in Ids(regs)
          /\ At(ptypes', At(procs', q).ptype) = At(ptypes, At(procs, q).ptype)
      BY <2>5 DEF ProcTypesResolve, Grows
    <2>7. Last(FramesAt(m, p, i)).reg \in Ids(m.regs)
      BY <1>5, <1>6, <2>1, <2>2, <2>3, PassedResolves
    <2>. QED  BY <1>3, <2>6, <2>7
  <1>7. \A r \in Ids(m.regs) : At(n.regs, r) = At(m.regs, r)
    BY <1>3 DEF Grows
  <1>8. CallAgrees(n, p, i)
    BY <1>4, <1>5, <1>6, <1>7, CallKept
  <1>. QED  BY <1>2, <1>8

LEMMA SameCodeCalls ==
    ASSUME IInv, FramesInv, ProcTypesResolve, CallsAgree, Grows,
           \A q \in Ids(procs) : At(procs', q).ptype = At(procs, q).ptype,
           NEW p \in Ids(procs), At(procs', p) = At(procs, p)
    PROVE  \A i \in CodeIds(Current', p) : CallAgrees(Current', p, i)
  <1>1. PICK m : m = Current
    OBVIOUS
  <1>2. PICK n : n = Current'
    OBVIOUS
  <1>3. /\ m.ptypes = ptypes /\ m.procs = procs
        /\ n.ptypes = ptypes' /\ n.procs = procs'
    BY <1>1, <1>2 DEF Current
  <1>4. Base(n, p) = Base(m, p) /\ Code(n, p) = Code(m, p)
    <2>1. At(procs, p).ptype \in Ids(ptypes)
      BY ProcFacts
    <2>. QED  BY <1>3, <2>1 DEF Base, Code, Grows
  <1>5. PICK size \in Nat : size = Len(Code(m, p))
    BY <1>1 DEF FramesInv, BuiltProc, Agrees, Walkable
  <1>6. CodeIds(n, p) = CodeIds(m, p) /\ \A i : InstrAt(n, p, i) = InstrAt(m, p, i)
    BY <1>4 DEF CodeIds, InstrAt
  <1>7. \A i \in 0 .. size : FramesAt(m, p, i) = FramesAt(n, p, i)
    BY <1>4, <1>6, SameWalk
  <1>8. \A i \in CodeIds(m, p) : i \in 0 .. size
    BY <1>5 DEF CodeIds, Ids
  <1>. QED  BY <1>1, <1>2, <1>6, <1>7, <1>8, OldCall

LEMMA AddProcInstrCalls ==
    ASSUME IInv, FramesInv, ProcTypesResolve, CallsAgree,
           NEW p, NEW in \in Instrs, AddProcInstr(p, in)
    PROVE  CallsAgree'
  <1>1. UNCHANGED << vtypes, ptypes, regs, created >>
    BY DEF AddProcInstr
  <1>2. Grows
    BY <1>1 DEF Grows
  <1>3. CASE procs' = procs
    <2>1. \A q \in Ids(procs') : \A i \in CodeIds(Current', q) : CallAgrees(Current', q, i)
      BY <1>2, <1>3, SameCodeCalls
    <2>. QED  BY <2>1 DEF CallsAgree
  <1>4. CASE procs' # procs
    <2> DEFINE f == Stored(At(procs, p), in)
               c == At(procCons, p)
    <2>1. p \in Ids(procs) /\ procs' = Replace(procs, p, f)
      BY <1>4, StoredFacts
    <2>2. PICK guess : InstrAllowed(p, in, guess)
      BY <1>4, StoredFacts
    <2>3. procs \in Seq(Procs) /\ At(procs, p) \in Procs
      BY <2>1, IInvFacts, ProcFacts
    <2>4. f.ptype = At(procs, p).ptype
      BY <2>3, StoredIs
    <2> HIDE DEF f
    <2>5. /\ Ids(procs') = Ids(procs)
          /\ At(procs', p) = f
          /\ \A q \in Ids(procs) \ {p} : At(procs', q) = At(procs, q)
      BY <2>1, <2>3 DEF Replace, At, Ids
    <2>6. \A q \in Ids(procs) : At(procs', q).ptype = At(procs, q).ptype
      BY <2>4, <2>5
    <2>7. \A q \in Ids(procs) \ {p} :
              \A i \in CodeIds(Current', q) : CallAgrees(Current', q, i)
      BY <1>2, <2>5, <2>6, SameCodeCalls
    <2>8. \A i \in CodeIds(Current', p) : CallAgrees(Current', p, i)
      <3>1. PICK m : m = Current
        OBVIOUS
      <3>2. PICK n : n = Current'
        OBVIOUS
      <3>3. /\ m.ptypes = ptypes /\ m.procs = procs /\ m.regs = regs
            /\ n.ptypes = ptypes /\ n.procs = procs' /\ n.regs = regs
        BY <1>1, <3>1, <3>2 DEF Current
      <3>4. PICK code \in Seq(Instrs) : code = At(procs, p).code
        BY <2>3 DEF Procs
      <3>5. /\ in.op = "ILL" => f.code = code
            /\ in.op # "ILL" => /\ f.code = Append(code, in)
                               /\ f.ills = At(procs, p).ills
        BY <2>3, <3>4, StoredIs DEF f
      <3>6. Code(m, p) = code /\ Base(n, p) = Base(m, p)
        BY <2>4, <2>5, <3>3, <3>4 DEF Code, Base
      <3>7. PICK size \in Nat : size = Len(Code(m, p))
        BY <3>4, <3>6
      <3>8. CASE in.op = "ILL"
        <4>1. CodeIds(n, p) = CodeIds(m, p) /\ \A i : InstrAt(n, p, i) = InstrAt(m, p, i)
          BY <2>5, <3>3, <3>5, <3>6, <3>8 DEF Code, CodeIds, InstrAt
        <4>2. \A i \in 0 .. size : FramesAt(m, p, i) = FramesAt(n, p, i)
          BY <3>6, <4>1, SameWalk
        <4>3. \A i \in CodeIds(m, p) : i \in 0 .. size
          BY <3>7 DEF CodeIds, Ids
        <4>. QED  BY <1>2, <2>1, <2>6, <3>1, <3>2, <4>1, <4>2, <4>3, OldCall
      <3>9. CASE in.op # "ILL"
        <4>1. Appended(m, n, p, in)
          <5>1. Code(n, p) = Append(code, in) /\ At(n.procs, p).ills = At(m.procs, p).ills
            BY <2>5, <3>3, <3>5, <3>9 DEF Code
          <5>2. /\ Len(Append(code, in)) = Len(code) + 1
                /\ At(Append(code, in), Len(code)) = in
                /\ \A i \in Ids(code) : At(Append(code, in), i) = At(code, i)
            BY <3>4 DEF At, Ids
          <5>. QED  BY <3>6, <5>1, <5>2 DEF Appended, InstrAt, CodeIds
        <4>2. /\ \A i \in 0 .. size : FramesAt(n, p, i) = FramesAt(m, p, i)
              /\ CodeIds(n, p) = CodeIds(m, p) \cup {size}
              /\ CodeIds(m, p) = 0 .. size - 1
          BY <4>1, <3>7, AppendedWalk
        <4>3. ASSUME NEW i \in CodeIds(m, p) PROVE CallAgrees(n, p, i)
          <5>1. /\ InstrAt(n, p, i) = InstrAt(m, p, i)
                /\ FramesAt(n, p, i) = FramesAt(m, p, i)
            BY <4>1, <4>2 DEF Appended
          <5>. QED  BY <1>2, <2>1, <2>6, <3>1, <3>2, <5>1, OldCall
        <4>4. CallAgrees(n, p, size)
          <5>1. InstrAt(n, p, size) = in /\ FramesAt(n, p, size) = FramesAt(m, p, size)
            BY <4>1, <3>7, <4>2 DEF Appended
          <5> SUFFICES ASSUME in.op = "CALL"
                       PROVE  SameVariable(n, Last(FramesAt(m, p, size)).reg,
                                  At(n.ptypes, At(n.procs, in.proc).ptype).io)
            BY <5>1 DEF CallAgrees
          <5>2. ProcCallable(p, in.proc, guess) = OK /\ InstrResolves(Current, in)
            BY <1>4, <2>2, StoredFacts DEF InstrAllowed
          <5>3. /\ Top(c).ftype = "REGNR"
                /\ SameVariable(Current, Top(c).reg,
                                At(ptypes, At(procs, in.proc).ptype).io)
            BY <5>2, CallPasses
          <5>4. Last(FramesAt(m, p, size)).reg = Top(c).reg
            <6> DEFINE s == FramesAt(m, p, size)
            <6>1. Agrees(m, p, c) /\ ConType(c, Nat)
              BY <2>1, <3>1, ProcFacts DEF FramesInv, BuiltProc
            <6>2. /\ Len(c.frames) = Len(s)
                  /\ \A k \in 1 .. Len(s) :
                        Mirrors(c.frames[k], s[k], AllInCode(m, p))
              BY <3>7, <6>1 DEF Agrees
            <6>3. Mirrors(c.frames[Len(s)], s[Len(s)], AllInCode(m, p))
              BY <6>1, <6>2, ConFacts
            <6> HIDE DEF s, c
            <6>4. Mirrors(Top(c), Last(s), AllInCode(m, p))
              BY <6>2, <6>3 DEF Top, Last
            <6>5. Top(c).reg = Last(s).reg
              BY <5>3, <6>4 DEF Mirrors
            <6>. QED  BY <6>5 DEF s
          <5>5. At(procs', in.proc).ptype = At(procs, in.proc).ptype
            <6>1. in.proc \in Ids(procs)
              BY <5>2 DEF InstrResolves, Current
            <6>. QED  BY <2>6, <6>1
          <5>6. SameVariable(m, Top(c).reg, At(ptypes, At(procs, in.proc).ptype).io)
            BY <3>1, <5>3
          <5>. QED  BY <3>3, <5>4, <5>5, <5>6 DEF SameVariable
        <4>. QED  BY <3>2, <4>2, <4>3, <4>4
      <3>. QED  BY <3>8, <3>9
    <2>9. Current'.procs = procs'
      BY DEF Current
    <2>. QED  BY <2>5, <2>7, <2>8 DEF CallsAgree
  <1>. QED  BY <1>3, <1>4

LEMMA AddProcCalls ==
    ASSUME IInv, FramesInv, ProcTypesResolve, CallsAgree,
           NEW flags, NEW ptype, AddProc(flags, ptype)
    PROVE  CallsAgree'
  <1> DEFINE e == [flags |-> flags, ptype |-> ptype, code |-> << >>, ills |-> 0]
  <1>1. /\ procs' = procs \/ procs' = Append(procs, e)
        /\ UNCHANGED << ptypes, regs >>
    BY DEF AddProc, Call
  <1>2. Grows
    BY <1>1 DEF Grows
  <1>3. procs \in Seq(Procs)
    BY IInvFacts
  <1> HIDE DEF e
  <1>4. /\ \A q \in Ids(procs) : At(procs', q) = At(procs, q)
        /\ \A q \in Ids(procs') : q \in Ids(procs) \/ At(procs', q) = e
    BY <1>1, <1>3 DEF At, Ids
  <1>5. ASSUME NEW q \in Ids(procs'), NEW i \in CodeIds(Current', q)
        PROVE  CallAgrees(Current', q, i)
    <2>1. CASE q \in Ids(procs)
      BY <1>2, <1>4, <2>1, SameCodeCalls
    <2>2. CASE At(procs', q) = e
      <3>1. CodeIds(Current', q) = Ids(<< >>)
        BY <2>2 DEF CodeIds, Code, Current, e
      <3>. QED  BY <3>1 DEF Ids
    <2>. QED  BY <1>4, <2>1, <2>2
  <1>. QED  BY <1>5 DEF CallsAgree

(* Every call of the builder keeps the calls accepted so far.              *)
LEMMA NextCalls ==
    IInv /\ FramesInv /\ ProcTypesResolve /\ CallsAgree /\ [Next]_vars => CallsAgree'
  <1> SUFFICES ASSUME IInv, FramesInv, ProcTypesResolve, CallsAgree, [Next]_vars
               PROVE  CallsAgree'
    OBVIOUS
  <1>1. ASSUME Grows, procs' = procs PROVE CallsAgree'
    BY <1>1, SameCodeCalls DEF CallsAgree
  <1>2. ASSUME Cleared PROVE CallsAgree'
    <2>1. Ids(procs') = {}
      BY <1>2 DEF Cleared, Ids
    <2>. QED  BY <2>1 DEF CallsAgree
  <1>3. ASSUME NEW bytes \in ByteSizes, AddVarType(bytes) PROVE CallsAgree'
    BY <1>1, <1>3, AppendedGrows DEF AddVarType
  <1>4. ASSUME NEW id, NEW vtype, NEW flags, NEW count,
               AddVarTypeVRef(id, flags, vtype, count)
        PROVE  CallsAgree'
    BY <1>1, <1>4, AppendedGrows DEF AddVarTypeVRef
  <1>5. ASSUME NEW flags, NEW io, AddProcType(flags, io) PROVE CallsAgree'
    <2>1. /\ regs' = regs /\ UNCHANGED << procs, procCons, created >>
          /\ ptypes' = ptypes \/ \E e : ptypes' = Append(ptypes, e)
      BY <1>5 DEF AddProcType, Call
    <2>. QED  BY <1>1, <2>1, AppendedGrows
  <1>6. ASSUME NEW flags, NEW vtype, NEW count, AddReg(flags, vtype, count)
        PROVE  CallsAgree'
    <2>1. /\ ptypes' = ptypes /\ UNCHANGED << procs, procCons, created >>
          /\ regs' = regs \/ \E e : regs' = Append(regs, e)
      BY <1>6 DEF AddReg, Call
    <2>. QED  BY <1>1, <2>1, AppendedGrows
  <1>7. ASSUME NEW flags, NEW ptype, AddProc(flags, ptype) PROVE CallsAgree'
    BY <1>7, AddProcCalls
  <1>8. ASSUME NEW p, NEW in \in Instrs, AddProcInstr(p, in) PROVE CallsAgree'
    BY <1>8, AddProcInstrCalls
  <1>9. CASE ResetModule
    BY <1>2, <1>9 DEF ResetModule
  <1>10. CASE CreateModule
    <2>1. CASE ConsistencyVerdict # OK
      BY <1>1, <1>10, <2>1 DEF CreateModule, tables, Grows
    <2>2. CASE ConsistencyVerdict = OK
      BY <1>2, <1>10, <2>2 DEF CreateModule
    <2>. QED  BY <2>1, <2>2
  <1>11. CASE UNCHANGED vars
    BY <1>1, <1>11 DEF vars, Grows
  <1>. QED  BY <1>3, <1>4, <1>5, <1>6, <1>7, <1>8, <1>9, <1>10, <1>11 DEF Next

(* While the procedure types name registers, every step keeps the          *)
(* agreement of caller and callee: new entries never change what an        *)
(* accepted CALL passes, and a new CALL was compared.                      *)
THEOREM CallsAlwaysStayAgreed == Spec => CallsStayAgreed
  <1>1. IInv /\ FramesInv /\ [Next]_vars =>
            [ProcTypesResolve /\ CallsAgree => CallsAgree']_<< regs, ptypes, procs >>
    BY NextCalls
  <1>2. Spec => [](IInv /\ FramesInv)
    BY FramesInvariance
  <1>. QED  BY <1>1, <1>2, PTL DEF Spec, CallsStayAgreed

(* A client whose procedure types always name registers, one that adds     *)
(* none before the builder's tables are first reset or never resets them,  *)
(* gets only calls that pass the callee the variable it expects.           *)
THEOREM ResolvedCallsAgree == Spec /\ []ProcTypesResolve => []CallsAgree
  <1>1. Init => CallsAgree
    BY DEF Init, CallsAgree, Ids
  <1>2. Spec => [](IInv /\ FramesInv)
    BY FramesInvariance
  <1>. QED  BY <1>1, <1>2, NextCalls, PTL DEF Spec

(* In a created module every branch, and every landing pad, of a procedure *)
(* in which no ILL was accepted leads to a basic block, and every block    *)
(* starts at an instruction, where the walk fills it: branchBlock's        *)
(* assertion never fires there.                                            *)
THEOREM BlocksAlwaysFilled == Spec => []BlocksFilled
  <1>1. FramesInv => BlocksFilled
    BY CompleteBlocks DEF FramesInv, BlocksFilled
  <1>. QED  BY <1>1, FramesInvariance, PTL

(* Where no ILL was accepted the handler a landing pad jumps to lies       *)
(* inside the frame the pad leaves open: at its first instruction the      *)
(* frames up to the handler's are the very ones open at the call.          *)
THEOREM PadsAlwaysLandInside == Spec => []PadsLandInside
  <1>1. FramesInv => PadsLandInside
    BY CompletePads DEF FramesInv, PadsLandInside
  <1>. QED  BY <1>1, FramesInvariance, PTL
=============================================================================
