-------------------------- MODULE ExecutionProofs --------------------------
(***************************************************************************)
(* Proofs about Execution: the stack the compiled code works on is the one *)
(* the code generator has in mind, through branches, calls, returns and    *)
(* exceptions, and a call keeps to the variable it was passed; and, in the *)
(* second part, the references on that stack are counted.                  *)
(***************************************************************************)
EXTENDS Execution, BuiltFramesProofs, FiniteSetTheorems

(* A complete procedure in which no ILL was accepted, as Runnable asks.    *)
Exact(m, p) == Complete(m, p) /\ AllInCode(m, p)

(* What is known of a module m that runs.                                  *)
Ready(m) ==
    /\ m.procs # << >>
    /\ \A p \in Ids(m.procs) :
        /\ Exact(m, p)
        /\ \A i \in CodeIds(m, p) :
            /\ KeepsFrames(m, p, i)
            /\ InstrAt(m, p, i).op = "CALL" => InstrAt(m, p, i).proc \in Ids(m.procs)
            /\ InstrAt(m, p, i).op \in {"PUSH", "PUSHR"} => InstrAt(m, p, i).reg \in Nat

FramesOf(m, a) == FramesAt(m, a.proc, a.pc)

(* Call a among the stack cells s, whose own end at limit.                 *)
Placed(m, a, s, limit) ==
    LET frames == FramesOf(m, a) IN
    /\ a.proc \in Ids(m.procs)
    /\ a.pc \in 0 .. Len(Code(m, a.proc))
    /\ a.base \in Nat /\ a.base <= limit
    /\ None \in DOMAIN a.env /\ a.env[None] \in 1 .. a.base
    /\ \A k \in RegFrames(frames, 2) :
        /\ frames[k].at \in DOMAIN a.env
        /\ Cell(a, frames[k]) \in a.base + 1 .. limit
        /\ s[Cell(a, frames[k])].reg = frames[k].reg
        /\ s[Cell(a, frames[k])].ftype = frames[k].ftype
        /\ \A j \in RegFrames(frames, 2) :
              j < k => Cell(a, frames[j]) < Cell(a, frames[k])

(* Call a has called b.                                                    *)
Passes(m, a, b) ==
    /\ a.pc \in CodeIds(m, a.proc) /\ InstrAt(m, a.proc, a.pc).op = "CALL"
    /\ b.env[None] = Cell(a, Last(FramesOf(m, a)))

(* Where the cells of call n end.                                          *)
Limit(cs, s, n) == IF n = Len(cs) THEN Len(s) ELSE cs[n + 1].base
Stacked(m, cs, s) ==
    /\ \A n \in 1 .. Len(cs) : Placed(m, cs[n], s, Limit(cs, s, n))
    /\ \A n \in 1 .. Len(cs) - 1 : Passes(m, cs[n], cs[n + 1])
    /\ \A n, k \in 1 .. Len(cs) : n <= k => cs[n].base <= cs[k].base

(* Types.                                                                  *)
CellRecords(H) == [reg : Int, ftype : FrameTypes, ref : H \cup {Null}]
Variables(H) == [count : Int, ref : H \cup {Null}]
Envs == UNION {[D -> Nat] : D \in SUBSET Int}
Calls == [proc : Nat, pc : Nat, env : Envs, base : Nat]
ETyped ==
    /\ IsFiniteSet(Heap) /\ Null \notin Heap
    /\ heap \in [Heap -> Variables(Heap)]
    /\ mem \in Seq(CellRecords(Heap)) /\ Len(mem) >= 1
    /\ leaks \in [Heap -> Nat]
    /\ acts \in Seq(Calls)
    /\ run \in {"idle", "running", "unwinding", "returned", "thrown"}

EInv ==
    /\ ETyped
    /\ run # "idle" => Ready(created)
    /\ run \in {"running", "unwinding"} <=> acts # << >>
    /\ Stacked(created, acts, mem)

LEMMA EnvFacts ==
    ASSUME NEW env \in Envs, NEW i \in Int, NEW c \in Nat
    PROVE  /\ Bound(env, i, c) \in Envs
           /\ DOMAIN Bound(env, i, c) = DOMAIN env \cup {i}
           /\ Bound(env, i, c)[i] = c
           /\ \A x \in DOMAIN env : x # i => Bound(env, i, c)[x] = env[x]
  <1> DEFINE f == Bound(env, i, c)
  <1>1. PICK D \in SUBSET Int : env \in [D -> Nat]
    BY DEF Envs
  <1>2. f = [x \in D \cup {i} |-> IF x = i THEN c ELSE env[x]]
    BY <1>1 DEF Bound
  <1>3. f \in [D \cup {i} -> Nat] /\ D \cup {i} \in SUBSET Int
    BY <1>1, <1>2
  <1> HIDE DEF f
  <1>4. f \in Envs
    BY <1>3 DEF Envs
  <1>. QED  BY <1>1, <1>2, <1>4 DEF f

LEMMA EntryEnv ==
    ASSUME NEW c \in Nat
    PROVE  [i \in {None} |-> c] \in Envs
  <1>1. {None} \in SUBSET Int
    BY DEF None
  <1>2. [i \in {None} |-> c] \in [{None} -> Nat]
    OBVIOUS
  <1>. QED  BY <1>1, <1>2 DEF Envs

-----------------------------------------------------------------------------
(* The frames at an instruction of code that is ready.                     *)
LEMMA FramesShape ==
    ASSUME NEW m, NEW p, Exact(m, p), NEW i \in 0 .. Len(Code(m, p)),
           NEW s, s = FramesAt(m, p, i)
    PROVE  /\ s \in Seq(GenFrames) /\ Len(s) \in Nat \ {0} /\ DOMAIN s = 1 .. Len(s)
           /\ s[1].at = None /\ s[1].ftype = "REGNR"
           /\ \A k \in 2 .. Len(s) : s[k].at \in Nat /\ s[k].at < i
  <1>1. Walkable(m, p)
    BY DEF Exact, Complete
  <1>2. s \in Seq(GenFrames) /\ Len(s) \in Nat \ {0} /\ DOMAIN s = 1 .. Len(s)
    BY <1>1, WalkType
  <1>3. \A k \in 1 .. Len(s) : Remembered(m, p, s, i, k)
    BY <1>1, StackHistory
  <1>4. s[1].at = None /\ s[1].ftype = "REGNR"
    BY <1>2, <1>3 DEF Remembered, Base
  <1>5. \A k \in 2 .. Len(s) : s[k].at \in Nat /\ s[k].at < i
    <2> SUFFICES ASSUME NEW k \in 2 .. Len(s) PROVE s[k].at \in Nat /\ s[k].at < i
      OBVIOUS
    <2>1. Remembered(m, p, s, i, k) /\ k # 1
      BY <1>2, <1>3
    <2>2. s[k].at \in CodeIds(m, p) /\ s[k].at < i
      BY <2>1 DEF Remembered
    <2>. QED  BY <1>1, <2>2 DEF CodeIds, Ids, Walkable
  <1>. QED  BY <1>2, <1>4, <1>5

(* Where the next instruction finds the frames.                            *)
LEMMA NextFramesAt ==
    ASSUME NEW m, NEW p, Exact(m, p), NEW i \in CodeIds(m, p),
           NEW in, in = InstrAt(m, p, i)
    PROVE  /\ i + 1 \in 0 .. Len(Code(m, p)) /\ i \in 0 .. Len(Code(m, p))
           /\ Pushes(in) => /\ FramesAt(m, p, i + 1) = Append(FramesAt(m, p, i), Pushed(in, i))
                            /\ Pushed(in, i) \in GenFrames
           /\ in.op = "POP" => /\ FramesAt(m, p, i + 1) = Front(FramesAt(m, p, i))
                               /\ Len(FramesAt(m, p, i)) > 1
           /\ ~Pushes(in) /\ in.op # "POP" => FramesAt(m, p, i + 1) = FramesAt(m, p, i)
  <1>1. Walkable(m, p) /\ i \in Nat
    BY DEF Exact, Complete, Walkable, CodeIds, Ids
  <1>2. FramesAt(m, p, i + 1) = StepFrames(FramesAt(m, p, i), in, i)
    BY <1>1, WalkFacts DEF Step
  <1>3. i + 1 \in 0 .. Len(Code(m, p)) /\ i \in 0 .. Len(Code(m, p))
    BY <1>1 DEF Walkable, CodeIds, Ids
  <1>4. Pushes(in) => Pushed(in, i) \in GenFrames
    BY <1>1, PushedType
  <1>5. in.op = "POP" => Len(FramesAt(m, p, i)) > 1
    BY <1>1 DEF Walkable
  <1>. QED  BY <1>2, <1>3, <1>4, <1>5, StepCases

(* Cells of a call that is placed.                                         *)
LEMMA CellFacts ==
    ASSUME NEW m, Ready(m), NEW a, NEW s, NEW limit \in Nat, Placed(m, a, s, limit),
           NEW frames, frames = FramesOf(m, a)
    PROVE  /\ frames \in Seq(GenFrames) /\ Len(frames) \in Nat \ {0}
           /\ DOMAIN frames = 1 .. Len(frames)
           /\ frames[1].at = None /\ frames[1].ftype = "REGNR"
           /\ \A k \in RegFrames(frames, 1) :
                 /\ frames[k].at \in DOMAIN a.env
                 /\ Cell(a, frames[k]) \in 1 .. limit
                 /\ k = 1 => Cell(a, frames[k]) = a.env[None]
                 /\ k # 1 => k \in RegFrames(frames, 2)
  <1>1. Exact(m, a.proc) /\ a.pc \in 0 .. Len(Code(m, a.proc))
    BY DEF Ready, Placed
  <1>2. /\ frames \in Seq(GenFrames) /\ Len(frames) \in Nat \ {0}
        /\ DOMAIN frames = 1 .. Len(frames)
        /\ frames[1].at = None /\ frames[1].ftype = "REGNR"
    BY <1>1, FramesShape DEF FramesOf
  <1>3. ASSUME NEW k \in RegFrames(frames, 1)
        PROVE  /\ frames[k].at \in DOMAIN a.env
               /\ Cell(a, frames[k]) \in 1 .. limit
               /\ k = 1 => Cell(a, frames[k]) = a.env[None]
               /\ k # 1 => k \in RegFrames(frames, 2)
    <2>1. CASE k = 1
      BY <1>2, <2>1 DEF Placed, Cell
    <2>2. CASE k # 1
      <3>1. k \in RegFrames(frames, 2)
        BY <1>2, <2>2 DEF RegFrames
      <3>. QED  BY <2>2, <3>1 DEF Placed
    <2>. QED  BY <2>1, <2>2
  <1>. QED  BY <1>2, <1>3

(* Two stacks with cells made for the same registers up to a limit.        *)
Similar(s, t, limit) ==
    \A c \in 1 .. limit : t[c].reg = s[c].reg /\ t[c].ftype = s[c].ftype

(* A call whose register frames are among those it had.                    *)
LEMMA PlacedCut ==
    ASSUME NEW m, NEW a, NEW b, NEW s, NEW t, NEW limit \in Nat, NEW end \in Nat,
           Placed(m, a, s, limit), Similar(s, t, end),
           b.proc = a.proc, b.base = a.base, b.env = a.env, b.base <= end,
           b.pc \in 0 .. Len(Code(m, a.proc)),
           NEW frames, frames = FramesOf(m, a), NEW cut, cut = FramesOf(m, b),
           \A k \in RegFrames(cut, 2) :
               k \in RegFrames(frames, 2) /\ cut[k] = frames[k] /\ Cell(a, frames[k]) <= end
    PROVE  Placed(m, b, t, end)
  <1>1. \A f : Cell(b, f) = Cell(a, f)
    BY DEF Cell
  <1>2. \A k \in RegFrames(cut, 2) :
            k \in RegFrames(frames, 2) /\ cut[k] = frames[k] /\ Cell(a, frames[k]) <= end
    OBVIOUS
  <1>3. ASSUME NEW k \in RegFrames(cut, 2)
        PROVE  /\ cut[k].at \in DOMAIN b.env
               /\ Cell(b, cut[k]) \in b.base + 1 .. end
               /\ t[Cell(b, cut[k])].reg = cut[k].reg
               /\ t[Cell(b, cut[k])].ftype = cut[k].ftype
               /\ \A j \in RegFrames(cut, 2) :
                     j < k => Cell(b, cut[j]) < Cell(b, cut[k])
    <2>1. /\ frames[k].at \in DOMAIN a.env
          /\ Cell(a, frames[k]) \in a.base + 1 .. limit
          /\ s[Cell(a, frames[k])].reg = frames[k].reg
          /\ s[Cell(a, frames[k])].ftype = frames[k].ftype
          /\ \A j \in RegFrames(frames, 2) :
                j < k => Cell(a, frames[j]) < Cell(a, frames[k])
      BY <1>2 DEF Placed
    <2>2. Cell(a, frames[k]) <= end /\ a.base \in Nat
      BY <1>2 DEF Placed
    <2>3. Cell(a, frames[k]) \in 1 .. end
      BY <2>1, <2>2
    <2>. QED  BY <1>1, <1>2, <2>1, <2>2, <2>3 DEF Similar
  <1>. QED  BY <1>3 DEF Placed

LEMMA PlacedSimilar ==
    ASSUME NEW m, NEW a, NEW s, NEW t, NEW limit \in Nat,
           Placed(m, a, s, limit), Similar(s, t, limit)
    PROVE  Placed(m, a, t, limit)
  <1> DEFINE frames == FramesOf(m, a)
  <1>1. \A k \in RegFrames(frames, 2) :
            /\ Cell(a, frames[k]) \in a.base + 1 .. limit
            /\ s[Cell(a, frames[k])].reg = frames[k].reg
            /\ s[Cell(a, frames[k])].ftype = frames[k].ftype
    BY DEF Placed
  <1>2. \A k \in RegFrames(frames, 2) :
            /\ t[Cell(a, frames[k])].reg = frames[k].reg
            /\ t[Cell(a, frames[k])].ftype = frames[k].ftype
    <2>1. \A k \in RegFrames(frames, 2) : Cell(a, frames[k]) \in 1 .. limit
      BY <1>1 DEF Placed
    <2>. QED  BY <1>1, <2>1 DEF Similar
  <1>. QED  BY <1>2 DEF Placed

(* A call that has pushed a register frame on the top of the stack.        *)
LEMMA PlacedPush ==
    ASSUME NEW m, Ready(m), NEW a, NEW b, NEW s, NEW t, NEW limit \in Nat,
           Placed(m, a, s, limit), Similar(s, t, limit),
           a.env \in Envs, a.pc \in CodeIds(m, a.proc),
           NEW in, in = InstrAt(m, a.proc, a.pc), in.op \in {"PUSH", "PUSHR"},
           b.proc = a.proc, b.base = a.base, b.pc = a.pc + 1,
           b.env = Bound(a.env, a.pc, limit + 1),
           t[limit + 1].reg = in.reg,
           t[limit + 1].ftype = IF in.op = "PUSHR" THEN "REGR" ELSE "REGNR"
    PROVE  Placed(m, b, t, limit + 1)
  <1> DEFINE frames == FramesOf(m, a)
             after == FramesOf(m, b)
             new == Pushed(in, a.pc)
  <1>1. Exact(m, a.proc) /\ a.pc \in Nat
    BY DEF Ready, Placed, CodeIds, Ids
  <1>2. /\ b.pc \in 0 .. Len(Code(m, a.proc))
        /\ after = Append(frames, new) /\ new \in GenFrames
    BY <1>1, NextFramesAt DEF Pushes, FramesOf
  <1>3. /\ frames \in Seq(GenFrames) /\ Len(frames) \in Nat \ {0}
        /\ \A k \in 2 .. Len(frames) : frames[k].at \in Nat /\ frames[k].at < a.pc
    BY <1>1, FramesShape DEF FramesOf, Placed
  <1>4. new.at = a.pc /\ new.reg = in.reg
        /\ new.ftype = IF in.op = "PUSHR" THEN "REGR" ELSE "REGNR"
    BY DEF Pushed
  <1> HIDE DEF frames, after, new
  <1>5. /\ Len(after) = Len(frames) + 1 /\ after[Len(frames) + 1] = new
        /\ \A k \in 1 .. Len(frames) : after[k] = frames[k]
    BY <1>2, <1>3
  <1>6. /\ DOMAIN b.env = DOMAIN a.env \cup {a.pc} /\ b.env[a.pc] = limit + 1
        /\ \A x \in DOMAIN a.env : x # a.pc => b.env[x] = a.env[x]
    <2>1. PICK env \in Envs : env = a.env
      OBVIOUS
    <2>2. PICK i \in Int : i = a.pc
      BY <1>1
    <2>3. PICK c \in Nat : c = limit + 1
      OBVIOUS
    <2>4. PICK e : e = Bound(env, i, c)
      OBVIOUS
    <2>5. /\ DOMAIN e = DOMAIN env \cup {i} /\ e[i] = c
          /\ \A x \in DOMAIN env : x # i => e[x] = env[x]
      BY ONLY env \in Envs, i \in Int, c \in Nat, <2>4, EnvFacts
    <2>6. b.env = e
      BY <2>1, <2>2, <2>3, <2>4
    <2>. QED  BY <2>1, <2>2, <2>3, <2>5, <2>6
  <1>7. ASSUME NEW k \in RegFrames(after, 2), k # Len(frames) + 1
        PROVE  /\ k \in RegFrames(frames, 2) /\ after[k] = frames[k]
               /\ Cell(b, after[k]) = Cell(a, frames[k])
    <2>1. k \in 2 .. Len(frames) /\ k \in 1 .. Len(frames) /\ after[k].ftype # "HAND"
      BY <1>3, <1>5, <1>7 DEF RegFrames
    <2>2. k \in RegFrames(frames, 2)
      BY <1>5, <2>1 DEF RegFrames
    <2>3. frames[k].at \in DOMAIN a.env /\ frames[k].at # a.pc
      BY <1>1, <1>3, <2>1, <2>2 DEF Placed, frames
    <2>. QED  BY <1>5, <1>6, <2>1, <2>2, <2>3 DEF Cell
  <1>8. Cell(b, after[Len(frames) + 1]) = limit + 1
    BY <1>4, <1>5, <1>6 DEF Cell
  <1>9. ASSUME NEW k \in RegFrames(frames, 2)
        PROVE  /\ frames[k].at \in DOMAIN a.env
               /\ Cell(a, frames[k]) \in a.base + 1 .. limit
               /\ s[Cell(a, frames[k])].reg = frames[k].reg
               /\ s[Cell(a, frames[k])].ftype = frames[k].ftype
               /\ \A j \in RegFrames(frames, 2) :
                     j < k => Cell(a, frames[j]) < Cell(a, frames[k])
    BY DEF Placed, frames
  <1>10. a.base \in Nat /\ a.base <= limit
    BY DEF Placed
  <1>11. ASSUME NEW k \in RegFrames(after, 2)
         PROVE  /\ after[k].at \in DOMAIN b.env
                /\ Cell(b, after[k]) \in b.base + 1 .. limit + 1
                /\ t[Cell(b, after[k])].reg = after[k].reg
                /\ t[Cell(b, after[k])].ftype = after[k].ftype
                /\ \A j \in RegFrames(after, 2) :
                      j < k => Cell(b, after[j]) < Cell(b, after[k])
    <2>1. CASE k = Len(frames) + 1
      <3>1. ASSUME NEW j \in RegFrames(after, 2), j < k
            PROVE  Cell(b, after[j]) < limit + 1
        <4>1. /\ Cell(b, after[j]) = Cell(a, frames[j])
              /\ j \in RegFrames(frames, 2)
          BY <1>3, <1>7, <2>1, <3>1
        <4>. QED  BY <1>9, <1>10, <4>1
      <3>. QED  BY <1>4, <1>5, <1>6, <1>8, <1>10, <2>1, <3>1
    <2>2. CASE k # Len(frames) + 1
      <3>1. /\ k \in RegFrames(frames, 2) /\ after[k] = frames[k]
            /\ Cell(b, after[k]) = Cell(a, frames[k])
        BY <1>7, <2>2
      <3>2. ASSUME NEW j \in RegFrames(after, 2), j < k
            PROVE  Cell(b, after[j]) < Cell(b, after[k])
        <4>1. j # Len(frames) + 1
          BY <1>3, <1>5, <3>2 DEF RegFrames
        <4>2. j \in RegFrames(frames, 2) /\ Cell(b, after[j]) = Cell(a, frames[j])
          BY <1>7, <4>1
        <4>. QED  BY <1>9, <3>1, <3>2, <4>2
      <3>3. Cell(a, frames[k]) \in 1 .. limit /\ Cell(a, frames[k]) \in b.base + 1 .. limit + 1
        BY <1>9, <1>10, <3>1
      <3>4. t[Cell(a, frames[k])].reg = frames[k].reg /\ t[Cell(a, frames[k])].ftype = frames[k].ftype
        BY <1>9, <3>1, <3>3 DEF Similar
      <3>. QED  BY <1>6, <1>9, <3>1, <3>2, <3>3, <3>4
    <2>. QED  BY <2>1, <2>2
  <1>12. b.env[None] = a.env[None] /\ None \in DOMAIN b.env
    BY <1>1, <1>6 DEF Placed, None
  <1>13. /\ b.proc \in Ids(m.procs) /\ b.env[None] \in 1 .. b.base
         /\ b.base \in Nat /\ b.base <= limit + 1
    BY <1>10, <1>12 DEF Placed
  <1>14. b.pc \in 0 .. Len(Code(m, b.proc))
    BY <1>2
  <1>. QED  BY <1>11, <1>12, <1>13, <1>14 DEF Placed, after

-----------------------------------------------------------------------------
(* The calls in progress: the innermost one goes on, leaves, or calls.     *)
LEMMA LastFacts ==
    ASSUME NEW S, NEW cs \in Seq(S), cs # << >>, NEW b \in S
    PROVE  /\ Last(cs) = cs[Len(cs)] /\ Last(cs) \in S /\ Len(cs) \in Nat \ {0}
           /\ Front(cs) \in Seq(S) /\ Len(Front(cs)) = Len(cs) - 1
           /\ \A n \in 1 .. Len(cs) - 1 : Front(cs)[n] = cs[n]
           /\ Append(Front(cs), b) \in Seq(S) /\ Len(Append(Front(cs), b)) = Len(cs)
           /\ Append(Front(cs), b)[Len(cs)] = b
           /\ \A n \in 1 .. Len(cs) - 1 : Append(Front(cs), b)[n] = cs[n]
  <1>1. Last(cs) = cs[Len(cs)] /\ Len(cs) \in Nat \ {0} /\ cs[Len(cs)] \in S
    BY DEF Last
  <1>2. Front(cs) = SubSeq(cs, 1, Len(cs) - 1) /\ Len(cs) - 1 \in 0 .. Len(cs)
    BY <1>1 DEF Front
  <1>3. PICK f : f = Front(cs)
    OBVIOUS
  <1>4. /\ f \in Seq(S) /\ Len(f) = Len(cs) - 1
        /\ \A n \in 1 .. Len(cs) - 1 : f[n] = cs[n]
    <2>1. PICK k \in 0 .. Len(cs) : k = Len(cs) - 1
      BY <1>2
    <2>2. f = SubSeq(cs, 1, k)
      BY <1>2, <1>3, <2>1
    <2>. QED  BY <2>1, <2>2, CutFacts
  <1>5. /\ Append(f, b) \in Seq(S) /\ Len(Append(f, b)) = Len(f) + 1
        /\ Append(f, b)[Len(f) + 1] = b
        /\ \A n \in 1 .. Len(f) : Append(f, b)[n] = f[n]
    BY <1>4, ExtendFacts
  <1>6. Len(f) + 1 = Len(cs) /\ Len(f) = Len(cs) - 1
    BY <1>1, <1>4
  <1>. QED  BY <1>1, <1>3, <1>4, <1>5, <1>6

(* A step of the innermost call touches no cell below its base but to      *)
(* store a reference in it.                                                *)
LEMMA StackedStep ==
    ASSUME NEW m, NEW S, NEW cs \in Seq(S), cs # << >>, NEW s, NEW t, Stacked(m, cs, s),
           Len(s) \in Nat, Len(t) \in Nat,
           NEW b \in S, b.base = Last(cs).base, b.env[None] = Last(cs).env[None],
           Placed(m, b, t, Len(t)), Similar(s, t, Last(cs).base)
    PROVE  Stacked(m, Append(Front(cs), b), t)
  <1> DEFINE bs == Append(Front(cs), b)
             size == Len(cs)
  <1>1. /\ Last(cs) = cs[size] /\ size \in Nat \ {0} /\ Len(bs) = size /\ bs[size] = b
        /\ \A n \in 1 .. size - 1 : bs[n] = cs[n]
    BY LastFacts
  <1> HIDE DEF bs, size
  <1>2. \A n \in 1 .. size : bs[n].base = cs[n].base /\ bs[n].env[None] = cs[n].env[None]
    BY <1>1
  <1>3. \A n \in 1 .. size : Placed(m, cs[n], s, Limit(cs, s, n)) /\ cs[n].base \in Nat
    BY DEF Stacked, size, Placed
  <1>4. ASSUME NEW n \in 1 .. size
        PROVE  Placed(m, bs[n], t, Limit(bs, t, n))
    <2>1. CASE n = size
      <3>1. Limit(bs, t, n) = Len(t)
        BY <1>1, <2>1 DEF Limit
      <3>. QED  BY <1>1, <2>1, <3>1
    <2>2. CASE n # size
      <3>1. n \in 1 .. size - 1 /\ n + 1 \in 1 .. size
        BY <1>1, <2>2
      <3>2. /\ Limit(bs, t, n) = cs[n + 1].base /\ Limit(cs, s, n) = cs[n + 1].base
            /\ bs[n] = cs[n]
        BY <1>1, <1>2, <2>2, <3>1 DEF Limit, size
      <3>3. cs[n + 1].base \in Nat /\ cs[n + 1].base <= cs[size].base
        BY <1>1, <1>3, <3>1 DEF Stacked, size
      <3>4. PICK end \in Nat : end = cs[n + 1].base
        BY <3>3
      <3>5. Similar(s, t, end)
        BY <1>1, <1>3, <3>3, <3>4 DEF Similar
      <3>6. Placed(m, cs[n], s, end)
        BY <1>3, <3>2, <3>4
      <3>7. Placed(m, cs[n], t, end)
        BY <3>5, <3>6, PlacedSimilar
      <3>. QED  BY <3>2, <3>4, <3>7
    <2>. QED  BY <2>1, <2>2
  <1>5. ASSUME NEW n \in 1 .. size - 1
        PROVE  Passes(m, bs[n], bs[n + 1])
    <2>1. Passes(m, cs[n], cs[n + 1]) /\ n + 1 \in 1 .. size
      BY <1>1 DEF Stacked, size
    <2>2. bs[n] = cs[n] /\ bs[n + 1].env[None] = cs[n + 1].env[None]
      BY <1>1, <1>2, <2>1
    <2>. QED  BY <2>1, <2>2 DEF Passes
  <1>6. \A n, k \in 1 .. size : n <= k => bs[n].base <= bs[k].base
    BY <1>2 DEF Stacked, size
  <1>. QED  BY <1>1, <1>4, <1>5, <1>6 DEF Stacked, bs

LEMMA StackedLeave ==
    ASSUME NEW m, NEW S, NEW cs \in Seq(S), cs # << >>, NEW C, NEW s \in Seq(C),
           Stacked(m, cs, s), NEW t, t = SubSeq(s, 1, Last(cs).base)
    PROVE  /\ Stacked(m, Front(cs), t)
           /\ t \in Seq(C) /\ Len(t) = Last(cs).base /\ Len(t) \in Nat \ {0}
           /\ Len(t) <= Len(s) /\ \A c \in 1 .. Len(t) : t[c] = s[c]
  <1> DEFINE bs == Front(cs)
             size == Len(cs)
  <1>1. PICK b \in S : b = Last(cs)
    BY DEF Last
  <1>2. /\ b = cs[size] /\ size \in Nat \ {0} /\ Len(bs) = size - 1
        /\ \A n \in 1 .. size - 1 : bs[n] = cs[n]
    BY <1>1, LastFacts
  <1> HIDE DEF bs, size
  <1>3. Placed(m, b, s, Len(s))
    BY <1>2 DEF Stacked, Limit, size
  <1>4. b.base \in Nat \ {0} /\ b.base <= Len(s) /\ b.base \in 0 .. Len(s)
    BY <1>3 DEF Placed
  <1>5. /\ t \in Seq(C) /\ Len(t) = b.base
        /\ \A c \in 1 .. b.base : t[c] = s[c]
    BY <1>1, <1>4, CutFacts
  <1>6. \A n \in 1 .. size : Placed(m, cs[n], s, Limit(cs, s, n)) /\ cs[n].base \in Nat
    BY DEF Stacked, size, Placed
  <1>7. ASSUME NEW n \in 1 .. size - 1
        PROVE  Placed(m, bs[n], t, Limit(bs, t, n))
    <2>1. n \in 1 .. size /\ n + 1 \in 1 .. size
      BY <1>2
    <2>2. PICK end \in Nat : end = cs[n + 1].base
      BY <1>6, <2>1
    <2>3. Placed(m, cs[n], s, end)
      BY <1>2, <1>6, <2>1, <2>2 DEF Limit, size
    <2>4. Limit(bs, t, n) = end
      <3>1. CASE n = size - 1
        BY <1>2, <1>5, <2>2, <3>1 DEF Limit
      <3>2. CASE n # size - 1
        <4>1. n + 1 \in 1 .. size - 1
          BY <1>2, <3>2
        <4>. QED  BY <1>2, <2>2, <3>2, <4>1 DEF Limit
      <3>. QED  BY <3>1, <3>2
    <2>5. end <= b.base
      BY <1>2, <2>1, <2>2 DEF Stacked, size
    <2>6. Similar(s, t, end)
      <3>1. \A c \in 1 .. end : c \in 1 .. b.base
        BY <1>4, <2>5
      <3>. QED  BY ONLY <1>5, <3>1 DEF Similar
    <2>7. Placed(m, cs[n], t, end)
      BY <2>2, <2>3, <2>6, PlacedSimilar
    <2>. QED  BY <1>2, <2>4, <2>7
  <1>8. ASSUME NEW n \in 1 .. (size - 1) - 1
        PROVE  Passes(m, bs[n], bs[n + 1])
    <2>1. n \in 1 .. size - 1 /\ n + 1 \in 1 .. size - 1
      BY <1>2
    <2>. QED  BY <1>2, <2>1 DEF Stacked, size
  <1>9. \A n, k \in 1 .. size - 1 : n <= k => bs[n].base <= bs[k].base
    <2>1. \A n \in 1 .. size - 1 : n \in 1 .. size
      BY <1>2
    <2>. QED  BY <1>2, <2>1 DEF Stacked, size
  <1>. QED  BY <1>1, <1>2, <1>4, <1>5, <1>7, <1>8, <1>9 DEF Stacked, bs

LEMMA StackedCall ==
    ASSUME NEW m, Ready(m), NEW S, NEW cs \in Seq(S), cs # << >>,
           NEW s, Len(s) \in Nat, Stacked(m, cs, s), NEW p \in Ids(m.procs),
           Last(cs).pc \in CodeIds(m, Last(cs).proc),
           InstrAt(m, Last(cs).proc, Last(cs).pc).op = "CALL",
           NEW b \in S, b.proc = p, b.pc = 0, b.base = Len(s),
           b.env = [i \in {None} |-> Cell(Last(cs), Last(FramesOf(m, Last(cs))))]
    PROVE  Stacked(m, Append(cs, b), s)
  <1> DEFINE bs == Append(cs, b)
             size == Len(cs)
  <1>1. PICK a \in S : a = Last(cs)
    BY DEF Last
  <1>2. /\ a = cs[size] /\ size \in Nat \ {0} /\ Len(bs) = size + 1 /\ bs[size + 1] = b
        /\ \A n \in 1 .. size : bs[n] = cs[n]
    BY <1>1, LastFacts, ExtendFacts
  <1> HIDE DEF bs, size
  <1>3. \A n \in 1 .. size : Placed(m, cs[n], s, Limit(cs, s, n)) /\ cs[n].base \in Nat
    BY DEF Stacked, size, Placed
  <1>4. Placed(m, a, s, Len(s)) /\ a.base <= Len(s)
    BY <1>2, <1>3 DEF Limit, size, Placed
  <1>5. b.env[None] \in 1 .. Len(s) /\ b.env[None] = Cell(a, Last(FramesOf(m, a)))
    <2> DEFINE frames == FramesOf(m, a)
    <2>1. /\ frames \in Seq(GenFrames) /\ Len(frames) \in Nat \ {0}
          /\ \A k \in RegFrames(frames, 1) : Cell(a, frames[k]) \in 1 .. Len(s)
      BY <1>4, CellFacts
    <2>2. Last(frames).ftype = "REGNR"
      <3>1. AllFound(m, a.proc)
        BY <1>4 DEF Ready, Exact, Complete, Placed
      <3>. QED  BY <1>1, <3>1 DEF AllFound, Found, FramesOf
    <2>3. Last(frames) = frames[Len(frames)] /\ Len(frames) \in RegFrames(frames, 1)
      BY <2>1, <2>2 DEF Last, RegFrames
    <2>. QED  BY <1>1, <2>1, <2>3
  <1>6. Placed(m, b, s, Len(s))
    <2>1. Exact(m, p) /\ Len(Code(m, p)) \in Nat
      BY DEF Ready, Exact, Complete, Walkable
    <2>2. FramesOf(m, b) = Base(m, p) /\ Len(Base(m, p)) = 1
      BY WalkFacts DEF FramesOf, Base
    <2>3. RegFrames(FramesOf(m, b), 2) = {}
      BY <2>2 DEF RegFrames
    <2>4. 0 \in 0 .. Len(Code(m, p))
      BY <2>1
    <2>. QED  BY <1>5, <2>3, <2>4 DEF Placed
  <1>7. ASSUME NEW n \in 1 .. size + 1
        PROVE  Placed(m, bs[n], s, Limit(bs, s, n))
    <2>1. CASE n = size + 1
      BY <1>2, <1>6, <2>1 DEF Limit
    <2>2. CASE n = size
      <3>1. Limit(bs, s, n) = Len(s) /\ n \in 1 .. size
        BY <1>2, <2>2 DEF Limit
      <3>. QED  BY <1>2, <1>4, <2>2, <3>1
    <2>3. CASE n # size /\ n # size + 1
      <3>1. n \in 1 .. size /\ n + 1 \in 1 .. size
        BY <1>2, <2>3
      <3>2. Limit(bs, s, n) = Limit(cs, s, n)
        BY <1>2, <2>3, <3>1 DEF Limit, size
      <3>. QED  BY <1>2, <1>3, <3>1, <3>2
    <2>. QED  BY <2>1, <2>2, <2>3
  <1>8. ASSUME NEW n \in 1 .. size
        PROVE  Passes(m, bs[n], bs[n + 1])
    <2>1. CASE n = size
      BY <1>1, <1>2, <1>5, <2>1 DEF Passes
    <2>2. CASE n # size
      <3>1. n \in 1 .. size - 1 /\ n + 1 \in 1 .. size
        BY <1>2, <2>2
      <3>. QED  BY <1>2, <3>1 DEF Stacked, size
    <2>. QED  BY <2>1, <2>2
  <1>9. \A n, k \in 1 .. size + 1 : n <= k => bs[n].base <= bs[k].base
    <2>1. \A n \in 1 .. size : cs[n].base <= b.base
      <3>1. \A n \in 1 .. size : cs[n].base <= cs[size].base
        BY <1>2 DEF Stacked, size
      <3>. QED  BY <1>2, <1>3, <1>4, <3>1
    <2>2. ASSUME NEW n \in 1 .. size + 1, NEW k \in 1 .. size + 1, n <= k
          PROVE  bs[n].base <= bs[k].base
      <3>1. CASE k = size + 1 /\ n = size + 1
        BY <1>2, <3>1
      <3>2. CASE k = size + 1 /\ n # size + 1
        <4>1. n \in 1 .. size
          BY <1>2, <3>2
        <4>. QED  BY <1>2, <2>1, <3>2, <4>1
      <3>3. CASE k # size + 1
        <4>1. n \in 1 .. size /\ k \in 1 .. size
          BY <1>2, <2>2, <3>3
        <4>. QED  BY <1>2, <2>2, <4>1 DEF Stacked, size
      <3>. QED  BY <3>1, <3>2, <3>3
    <2>. QED  BY <2>2
  <1>. QED  BY <1>2, <1>7, <1>8, <1>9 DEF Stacked, bs

-----------------------------------------------------------------------------
(* What may be called is ready.                                            *)
LEMMA RunnableReady ==
    ASSUME IInv, FramesInv, Runnable
    PROVE  Ready(created)
  <1>1. Sound(created) /\ created.procs # << >>
    BY DEF IInv, Runnable
  <1>2. ASSUME NEW p \in Ids(created.procs)
        PROVE  /\ Exact(created, p)
               /\ \A i \in CodeIds(created, p) :
                    LET in == InstrAt(created, p, i) IN
                    /\ KeepsFrames(created, p, i)
                    /\ in.op = "CALL" => in.proc \in Ids(created.procs)
                    /\ in.op \in {"PUSH", "PUSHR"} => in.reg \in Nat
    <2>1. Exact(created, p)
      BY DEF FramesInv, Runnable, Exact
    <2>2. ASSUME NEW i \in CodeIds(created, p)
          PROVE  /\ KeepsFrames(created, p, i)
                 /\ InstrResolves(created, InstrAt(created, p, i))
      BY <1>1 DEF Runnable, Sound, TablesResolve, ProcsResolve
    <2>3. Ids(created.regs) \subseteq Nat
      BY <1>1 DEF Sound, TablesTyped, Ids
    <2>. QED  BY <2>1, <2>2, <2>3 DEF InstrResolves
  <1>. QED  BY <1>1, <1>2 DEF Ready

(* The innermost call of a state of the invariant.                         *)
LEMMA InnermostFacts ==
    ASSUME EInv, acts # << >>, NEW a, a = Act
    PROVE  /\ Ready(created) /\ Exact(created, a.proc)
           /\ a \in Calls /\ a = acts[Len(acts)] /\ Len(acts) \in Nat \ {0}
           /\ a.pc \in 0 .. Len(Code(created, a.proc))
           /\ a.base \in Nat \ {0} /\ a.base <= Len(mem) /\ Len(mem) \in Nat
           /\ a.env[None] \in 1 .. a.base
           /\ Placed(created, a, mem, Len(mem))
           /\ Frames(a) = FramesOf(created, a)
           /\ run \in {"running", "unwinding"}
  <1>1. acts \in Seq(Calls) /\ Len(mem) \in Nat /\ run \in {"running", "unwinding"}
    BY DEF EInv, ETyped
  <1>2. a = acts[Len(acts)] /\ Len(acts) \in Nat \ {0} /\ a \in Calls
    BY <1>1, LastFacts DEF Act
  <1>3. Placed(created, a, mem, Len(mem))
    <2>1. Placed(created, acts[Len(acts)], mem, Limit(acts, mem, Len(acts)))
      BY <1>2 DEF EInv, Stacked
    <2>. QED  BY <1>2, <2>1 DEF Limit
  <1>4. Ready(created)
    BY <1>1 DEF EInv
  <1>5. Exact(created, a.proc)
    BY <1>3, <1>4 DEF Placed, Ready
  <1>6. /\ a.pc \in 0 .. Len(Code(created, a.proc))
        /\ a.base \in Nat \ {0} /\ a.base <= Len(mem)
        /\ a.env[None] \in 1 .. a.base
    BY <1>3 DEF Placed
  <1>7. Frames(a) = FramesOf(created, a)
    BY DEF Frames, FramesOf
  <1>. QED  BY <1>1, <1>2, <1>3, <1>4, <1>5, <1>6, <1>7

(* The innermost frame that names a register, where there is one.          *)
LEMMA FindFacts ==
    ASSUME NEW frames \in Seq(GenFrames), NEW reg, Naming(frames, reg) # {}
    PROVE  \E k \in RegFrames(frames, 1) : FindFrame(frames, reg) = frames[k]
  <1> DEFINE S == Naming(frames, reg)
  <1>1. Len(frames) \in Nat /\ DOMAIN frames = 1 .. Len(frames)
    OBVIOUS
  <1>2. S \subseteq 0 .. Len(frames)
    BY <1>1 DEF Naming
  <1>3. Max(S) \in S
    BY <1>1, <1>2, MaxFacts
  <1>4. Max(S) \in RegFrames(frames, 1)
    BY <1>1, <1>3 DEF Naming, RegFrames
  <1>. QED  BY <1>4 DEF FindFrame

(* The cell of a register, and the variable it stands for.                 *)
AVariable(v) ==
    /\ v.inHeap \in BOOLEAN
    /\ v.inHeap => v.at \in Heap \cup {Null}
    /\ ~v.inHeap => v.at \in 1 .. Len(mem) /\ (v.at > Act.base \/ v.at = Act.env[None])
LEMMA CellOf ==
    ASSUME EInv, acts # << >>, NEW reg, Naming(Frames(Act), reg) # {},
           NEW cell, cell = Cell(Act, FindFrame(Frames(Act), reg))
    PROVE  /\ cell \in 1 .. Len(mem) /\ (cell > Act.base \/ cell = Act.env[None])
           /\ mem[cell].ref \in Heap \cup {Null}
  <1>1. PICK a : a = Act
    OBVIOUS
  <1>2. PICK frames : frames = Frames(a)
    OBVIOUS
  <1>3. /\ Ready(created) /\ Placed(created, a, mem, Len(mem))
        /\ Len(mem) \in Nat /\ a.base \in Nat /\ frames = FramesOf(created, a)
    BY <1>1, <1>2, InnermostFacts
  <1>4. /\ frames \in Seq(GenFrames)
        /\ \A k \in RegFrames(frames, 1) :
              /\ Cell(a, frames[k]) \in 1 .. Len(mem)
              /\ k = 1 => Cell(a, frames[k]) = a.env[None]
              /\ k # 1 => k \in RegFrames(frames, 2)
    BY <1>3, CellFacts
  <1>5. PICK k \in RegFrames(frames, 1) : FindFrame(frames, reg) = frames[k]
    BY <1>1, <1>2, <1>4, FindFacts
  <1>6. cell = Cell(a, frames[k]) /\ cell \in 1 .. Len(mem)
    BY <1>1, <1>2, <1>4, <1>5
  <1>7. k # 1 => cell > a.base
    <2>1. k # 1 => cell \in a.base + 1 .. Len(mem)
      BY <1>3, <1>4, <1>6 DEF Placed
    <2>. QED  BY <1>3, <2>1
  <1>8. mem[cell].ref \in Heap \cup {Null}
    <2>1. mem \in Seq(CellRecords(Heap))
      BY DEF EInv, ETyped
    <2>2. mem[cell] \in CellRecords(Heap)
      BY <1>6, <2>1
    <2>. QED  BY <2>2 DEF CellRecords
  <1>. QED  BY <1>1, <1>4, <1>6, <1>7, <1>8

LEMMA VariableFacts ==
    ASSUME EInv, acts # << >>, NEW reg, Naming(Frames(Act), reg) # {},
           NEW v, v = Variable(reg)
    PROVE  /\ AVariable(v)
           /\ ~IsNull(v) => RefIn(v) \in Heap \cup {Null}
  <1> DEFINE frame == FindFrame(Frames(Act), reg)
             cell == Cell(Act, frame)
  <1>1. /\ cell \in 1 .. Len(mem) /\ (cell > Act.base \/ cell = Act.env[None])
        /\ mem[cell].ref \in Heap \cup {Null}
    BY CellOf
  <1>2. v.inHeap = (frame.ftype = "REGR") /\ v.at = IF frame.ftype = "REGR" THEN mem[cell].ref ELSE cell
    BY DEF Variable
  <1> HIDE DEF cell, frame
  <1>3. AVariable(v)
    BY <1>1, <1>2 DEF AVariable
  <1>4. ASSUME ~IsNull(v) PROVE RefIn(v) \in Heap \cup {Null}
    <2>1. CASE v.inHeap
      BY <1>3, <1>4, <2>1 DEF AVariable, IsNull, RefIn, EInv, ETyped, Variables
    <2>2. CASE ~v.inHeap
      BY <1>1, <1>2, <2>2 DEF RefIn
    <2>. QED  BY <2>1, <2>2
  <1>. QED  BY <1>3, <1>4


(* The operations on the heap keep it a heap of the same variables.        *)
Heaps == [Heap -> Variables(Heap)]
LEMMA CountType ==
    ASSUME NEW cells, IsFiniteSet(cells), NEW S \in SUBSET cells
    PROVE  IsFiniteSet(S) /\ Cardinality(S) \in Nat
  <1>1. IsFiniteSet(S)
    BY FS_Subset
  <1>. QED  BY <1>1, FS_CardinalityType

LEMMA CountedType ==
    ASSUME NEW hp \in Heaps, NEW h \in Heap \cup {Null}, NEW d \in Int
    PROVE  Counted(hp, h, d) \in Heaps
  <1>1. CASE h = Null
    BY <1>1 DEF Counted
  <1>2. CASE h # Null
    <2>1. h \in Heap /\ hp[h] \in Variables(Heap)
      BY <1>2 DEF Heaps
    <2>2. [hp[h] EXCEPT !.count = @ + d] \in Variables(Heap)
      BY <2>1 DEF Variables
    <2>3. Counted(hp, h, d) = [hp EXCEPT ![h] = [hp[h] EXCEPT !.count = @ + d]]
      BY <1>2, <2>1 DEF Counted, Heaps
    <2>. QED  BY <2>1, <2>2, <2>3 DEF Heaps
  <1>. QED  BY <1>1, <1>2

LEMMA ReleasedType ==
    ASSUME heap \in Heaps, NEW cells, IsFiniteSet(cells)
    PROVE  Released(heap, cells) \in Heaps
  <1>1. ASSUME NEW h \in Heap
        PROVE  [heap[h] EXCEPT !.count = @ - Cardinality({c \in cells : mem[c].ref = h})]
                    \in Variables(Heap)
    <2>1. Cardinality({c \in cells : mem[c].ref = h}) \in Nat
      BY CountType
    <2>2. heap[h] \in Variables(Heap)
      BY DEF Heaps
    <2>. QED  BY <2>1, <2>2 DEF Variables
  <1>. QED  BY <1>1 DEF Released, Heaps, Heap

LEMMA WriteFacts ==
    ASSUME EInv, NEW hp \in Heaps, NEW v, AVariable(v), NEW h \in Heap \cup {Null},
           Write(hp, v, h)
    PROVE  /\ heap' \in Heaps
           /\ mem' \in Seq(CellRecords(Heap)) /\ Len(mem') = Len(mem)
           /\ \A c \in 1 .. Len(mem) :
                 /\ mem'[c].reg = mem[c].reg /\ mem'[c].ftype = mem[c].ftype
                 /\ mem'[c] = mem[c] \/ (~v.inHeap /\ v.at = c)
  <1>1. mem \in Seq(CellRecords(Heap)) /\ Len(mem) \in Nat
    BY DEF EInv, ETyped
  <1>2. CASE v.inHeap
    <2>1. heap' = [hp EXCEPT ![v.at].ref = h] /\ mem' = mem
      BY <1>2 DEF Write
    <2>2. CASE v.at \in Heap
      <3>1. [hp[v.at] EXCEPT !.ref = h] \in Variables(Heap)
        BY <2>2 DEF Heaps, Variables
      <3>2. heap' = [hp EXCEPT ![v.at] = [hp[v.at] EXCEPT !.ref = h]]
        BY <2>1, <2>2 DEF Heaps
      <3>3. heap' \in Heaps
        BY <3>1, <3>2 DEF Heaps
      <3>. QED  BY <1>1, <2>1, <3>3
    <2>3. CASE v.at \notin Heap
      <3>1. heap' = hp
        BY <2>1, <2>3 DEF Heaps
      <3>. QED  BY <1>1, <2>1, <3>1
    <2>. QED  BY <2>2, <2>3
  <1>3. CASE ~v.inHeap
    <2>1. v.at \in 1 .. Len(mem)
      BY <1>3 DEF AVariable
    <2>2. heap' = hp /\ mem' = [mem EXCEPT ![v.at].ref = h]
      BY <1>3 DEF Write
    <2>3. PICK e : e = [mem[v.at] EXCEPT !.ref = h]
      OBVIOUS
    <2>4. mem[v.at] \in CellRecords(Heap)
      BY <1>1, <2>1
    <2>5. e \in CellRecords(Heap) /\ e.reg = mem[v.at].reg /\ e.ftype = mem[v.at].ftype
      BY <2>3, <2>4 DEF CellRecords
    <2>6. mem' = [mem EXCEPT ![v.at] = e]
      BY <1>1, <2>1, <2>2, <2>3
    <2>7. /\ mem' \in Seq(CellRecords(Heap)) /\ Len(mem') = Len(mem)
          /\ \A c \in 1 .. Len(mem) : mem'[c] = IF c = v.at THEN e ELSE mem[c]
      BY <1>1, <2>1, <2>5, <2>6
    <2>. QED  BY <1>3, <2>2, <2>5, <2>7
  <1>. QED  BY <1>2, <1>3 DEF AVariable

-----------------------------------------------------------------------------
(* What a step of the innermost call does to the cells of the others: it   *)
(* may store in the one it was passed.                                     *)
Keeps(t) ==
    \A c \in 1 .. Act.base : c \in DOMAIN t /\ (c # Act.env[None] => t[c] = mem[c])
Marked(t) == Similar(mem, t, Act.base)
Settled == /\ UNCHANGED created /\ Heap' = Heap
           /\ heap' \in Heaps /\ leaks' \in [Heap -> Nat]

LEMMA GoneOn ==
    ASSUME EInv, acts # << >>, Settled, NEW b \in Calls,
           acts' = Append(Front(acts), b),
           b.base = Act.base, b.env[None] = Act.env[None],
           mem' \in Seq(CellRecords(Heap)), Placed(created, b, mem', Len(mem')),
           Marked(mem'), run' \in {"running", "unwinding"}
    PROVE  EInv'
  <1>1. /\ acts \in Seq(Calls) /\ Len(mem) \in Nat /\ Len(mem') \in Nat
        /\ Ready(created)
    BY InnermostFacts DEF EInv, ETyped
  <1>2. Stacked(created, Append(Front(acts), b), mem')
    BY <1>1, StackedStep DEF EInv, Act, Marked
  <1>3. acts' \in Seq(Calls) /\ Len(acts') \in Nat \ {0}
    BY <1>1, LastFacts
  <1>4. Len(mem') >= 1
    <2>1. b.base \in Nat \ {0}
      BY InnermostFacts
    <2>. QED  BY <1>1, <2>1 DEF Placed
  <1>5. ETyped'
    <2>1. IsFiniteSet(Heap') /\ Null \notin Heap'
      BY DEF EInv, ETyped, Settled
    <2>. QED  BY <1>3, <1>4, <2>1 DEF ETyped, Settled, Heaps
  <1>6. acts' # << >>
    BY <1>3
  <1>. QED  BY <1>1, <1>2, <1>5, <1>6 DEF EInv, Settled

(* A call moved to another instruction.                                    *)
LEMMA MovedFacts ==
    ASSUME NEW a \in Calls, NEW pc \in Nat, NEW b, b = [a EXCEPT !.pc = pc]
    PROVE  b \in Calls /\ b.proc = a.proc /\ b.pc = pc /\ b.env = a.env /\ b.base = a.base
  BY DEF Calls

LEMMA PlacedMoved ==
    ASSUME NEW m, Ready(m), NEW a \in Calls, NEW s, NEW limit \in Nat,
           Placed(m, a, s, limit), NEW pc \in 0 .. Len(Code(m, a.proc)),
           FramesAt(m, a.proc, pc) = FramesOf(m, a),
           NEW b, b = [a EXCEPT !.pc = pc], NEW t, Similar(s, t, limit)
    PROVE  Placed(m, b, t, limit)
  <1>0. PICK frames : frames = FramesOf(m, a)
    OBVIOUS
  <1>1. pc \in Nat
    OBVIOUS
  <1>2. b \in Calls /\ b.proc = a.proc /\ b.pc = pc /\ b.env = a.env /\ b.base = a.base
    BY <1>1, MovedFacts
  <1>3. FramesOf(m, b) = frames
    BY <1>0, <1>2 DEF FramesOf
  <1>4. /\ Len(frames) \in Nat
        /\ \A k \in RegFrames(frames, 1) : Cell(a, frames[k]) \in 1 .. limit
    BY <1>0, CellFacts
  <1>5. a.base <= limit
    BY DEF Placed
  <1>6. \A k \in RegFrames(frames, 2) : Cell(a, frames[k]) <= limit
    <2>1. \A k \in RegFrames(frames, 2) : k \in RegFrames(frames, 1)
      BY <1>4 DEF RegFrames
    <2>. QED  BY <1>4, <2>1
  <1>. QED
    <2>1. PICK cut : cut = FramesOf(m, b)
      OBVIOUS
    <2>2. /\ b.pc \in 0 .. Len(Code(m, a.proc)) /\ b.base <= limit
          /\ cut = frames
      BY <1>2, <1>3, <1>5, <2>1
    <2>3. \A k \in RegFrames(cut, 2) :
              k \in RegFrames(frames, 2) /\ cut[k] = frames[k] /\ Cell(a, frames[k]) <= limit
      BY <1>6, <2>2
    <2>. QED  BY ONLY limit \in Nat, Placed(m, a, s, limit), Similar(s, t, limit),
                     <1>0, <1>2, <2>1, <2>2, <2>3, PlacedCut

(* The innermost call goes to an instruction with the same frames open.    *)
LEMMA WentOn ==
    ASSUME EInv, acts # << >>, Settled, NEW pc \in 0 .. Len(Code(created, Act.proc)),
           FramesAt(created, Act.proc, pc) = Frames(Act), GoTo(Act, pc),
           mem' \in Seq(CellRecords(Heap)), Len(mem') = Len(mem),
           Similar(mem, mem', Len(mem)), run' \in {"running", "unwinding"}
    PROVE  EInv'
  <1>1. PICK a : a = Act
    OBVIOUS
  <1>2. /\ Ready(created) /\ a \in Calls /\ Len(mem) \in Nat
        /\ Placed(created, a, mem, Len(mem)) /\ Frames(a) = FramesOf(created, a)
        /\ a.base \in Nat /\ a.base <= Len(mem)
    BY <1>1, InnermostFacts
  <1>3. PICK b : b = [a EXCEPT !.pc = pc]
    OBVIOUS
  <1>4. b \in Calls /\ b.base = a.base /\ b.env = a.env
    BY <1>2, <1>3, MovedFacts
  <1>5. Placed(created, b, mem', Len(mem'))
    BY <1>1, <1>2, <1>3, PlacedMoved
  <1>6. Marked(mem')
    BY <1>1, <1>2 DEF Marked, Similar
  <1>7. acts' = Append(Front(acts), b)
    BY <1>1, <1>3 DEF GoTo
  <1>. QED  BY <1>1, <1>4, <1>5, <1>6, <1>7, GoneOn

(* The innermost call is left.                                             *)
LEMMA WasLeft ==
    ASSUME EInv, acts # << >>, Settled, NEW how \in {"running", "unwinding"}, Leave(how)
    PROVE  EInv' /\ Keeps(mem')
  <1> DEFINE rest == Front(acts)
             size == Len(acts)
  <1>1. PICK a : a = Act
    OBVIOUS
  <1>2. /\ Ready(created) /\ a \in Calls /\ size \in Nat \ {0}
        /\ a.base \in Nat \ {0} /\ acts \in Seq(Calls)
        /\ mem \in Seq(CellRecords(Heap))
    BY <1>1, InnermostFacts DEF EInv, ETyped
  <1>3. /\ rest \in Seq(Calls) /\ Len(rest) = size - 1
        /\ \A n \in 1 .. size - 1 : rest[n] = acts[n]
    BY <1>2, LastFacts
  <1>4. mem' = SubSeq(mem, 1, a.base)
    BY <1>1 DEF Leave
  <1>5. /\ Stacked(created, rest, mem')
        /\ mem' \in Seq(CellRecords(Heap)) /\ Len(mem') = a.base
        /\ \A c \in 1 .. a.base : mem'[c] = mem[c]
    <2>1. Stacked(created, acts, mem)
      BY DEF EInv
    <2>2. a = Last(acts)
      BY <1>1 DEF Act
    <2>3. Stacked(created, Front(acts), mem')
      BY <1>2, <1>4, <2>1, <2>2, StackedLeave
    <2>4. mem' \in Seq(CellRecords(Heap))
      BY <1>2, <1>4, <2>1, <2>2, StackedLeave
    <2>5. Len(mem') = a.base
      BY <1>2, <1>4, <2>1, <2>2, StackedLeave
    <2>6. \A c \in 1 .. Len(mem') : mem'[c] = mem[c]
      BY <1>2, <1>4, <2>1, <2>2, StackedLeave
    <2>. QED  BY <2>3, <2>4, <2>5, <2>6
  <1>6. Keeps(mem')
    BY <1>1, <1>2, <1>5 DEF Keeps
  <1>7. ASSUME acts' \in Seq(Calls), Stacked(created, acts', mem'), (acts' = << >>) = (rest = << >>)
        PROVE  EInv'
    <2>1. run' = IF rest # << >> THEN how
                 ELSE IF how = "running" THEN "returned" ELSE "thrown"
      <3>1. CASE rest # << >>
        BY <3>1 DEF Leave
      <3>2. CASE rest = << >> /\ how = "running"
        BY <3>2 DEF Leave
      <3>3. CASE rest = << >> /\ how # "running"
        BY <3>3 DEF Leave
      <3>. QED  BY <3>1, <3>2, <3>3
    <2>2. ETyped'
      <3>1. IsFiniteSet(Heap') /\ Null \notin Heap'
        BY DEF EInv, ETyped, Settled
      <3>. QED  BY <1>2, <1>5, <1>7, <2>1, <3>1 DEF ETyped, Settled, Heaps
    <2>3. run' \in {"running", "unwinding"} <=> acts' # << >>
      BY <1>7, <2>1
    <2>. QED  BY <1>2, <1>7, <2>2, <2>3 DEF EInv, Settled
  <1>8. CASE how = "unwinding" \/ rest = << >>
    <2>1. acts' = rest
      BY <1>8 DEF Leave
    <2>. QED  BY <1>3, <1>5, <1>6, <1>7, <2>1
  <1>9. CASE how = "running" /\ rest # << >>
    <2> HIDE DEF rest, size
    <2>1. acts' = [rest EXCEPT ![Len(rest)].pc = @ + 1]
      BY <1>9 DEF Leave, rest
    <2>2. PICK c : c = Last(rest)
      OBVIOUS
    <2>3. /\ c = rest[Len(rest)] /\ Len(rest) \in Nat \ {0} /\ c \in Calls
      BY <1>3, <1>9, <2>2, LastFacts
    <2>4. /\ c.pc \in CodeIds(created, c.proc)
          /\ InstrAt(created, c.proc, c.pc).op = "CALL"
      <3>1. size - 1 \in 1 .. size - 1 /\ c = acts[size - 1]
        BY <1>2, <1>3, <2>3
      <3>2. Passes(created, acts[size - 1], acts[(size - 1) + 1])
        BY <3>1 DEF EInv, Stacked, size
      <3>. QED  BY <3>1, <3>2 DEF Passes
    <2>5. Placed(created, c, mem', Len(mem'))
      <3>1. Placed(created, rest[Len(rest)], mem', Limit(rest, mem', Len(rest)))
        BY <1>5, <2>3 DEF Stacked
      <3>. QED  BY <2>3, <3>1 DEF Limit
    <2>6. /\ c.pc + 1 \in 0 .. Len(Code(created, c.proc))
          /\ FramesAt(created, c.proc, c.pc + 1) = FramesOf(created, c)
      <3>1. Exact(created, c.proc)
        BY <1>2, <2>5 DEF Ready, Placed
      <3>. QED  BY <2>4, <3>1, NextFramesAt DEF Pushes, FramesOf
    <2>7. PICK b : b = [c EXCEPT !.pc = c.pc + 1]
      OBVIOUS
    <2>8. b \in Calls /\ b.base = c.base /\ b.env = c.env
      <3>1. c.pc + 1 \in Nat
        BY <2>3 DEF Calls
      <3>. QED  BY <2>3, <2>7, <3>1, MovedFacts
    <2>9. Placed(created, b, mem', Len(mem'))
      <3>1. Similar(mem', mem', Len(mem'))
        BY DEF Similar
      <3>. QED  BY <1>2, <1>5, <2>3, <2>5, <2>6, <2>7, <3>1, PlacedMoved
    <2>10. Stacked(created, Append(Front(rest), b), mem')
      <3>1. Similar(mem', mem', c.base)
        BY DEF Similar
      <3>2. rest # << >> /\ Len(mem') \in Nat
        BY <1>2, <1>5, <1>9
      <3>. QED  BY <1>3, <1>5, <2>2, <2>8, <2>9, <3>1, <3>2, StackedStep
    <2>11. acts' = Append(Front(rest), b)
      <3>1. acts' = [rest EXCEPT ![Len(rest)] = b]
        BY <1>3, <2>1, <2>3, <2>7
      <3>2. /\ acts' \in Seq(Calls) /\ Len(acts') = Len(rest) /\ acts'[Len(rest)] = b
            /\ \A n \in 1 .. Len(rest) - 1 : acts'[n] = rest[n]
        <4>1. rest \in Seq(Calls)
          BY <1>3
        <4>. QED  BY ONLY <4>1, <2>3, <2>8, <3>1
      <3>3. PICK e : e = Append(Front(rest), b)
        OBVIOUS
      <3>4. /\ e \in Seq(Calls) /\ Len(e) = Len(rest) /\ e[Len(rest)] = b
            /\ \A n \in 1 .. Len(rest) - 1 : e[n] = rest[n]
        BY <1>3, <1>9, <2>8, <3>3, LastFacts
      <3>5. \A n \in 1 .. Len(rest) : acts'[n] = e[n]
        BY <2>3, <3>2, <3>4
      <3>6. acts' = e
        BY <3>2, <3>4, <3>5, SeqEqual
      <3>. QED  BY <3>3, <3>6
    <2>12. acts' \in Seq(Calls) /\ acts' # << >>
      BY <1>3, <1>9, <2>8, <2>11, LastFacts
    <2>. QED  BY <1>6, <1>7, <1>9, <2>10, <2>11, <2>12
  <1>. QED  BY <1>8, <1>9

-----------------------------------------------------------------------------
(* The steps, one by one.                                                  *)
LEMMA Settles ==
    ASSUME EInv, UNCHANGED vars, heap' \in Heaps, leaks' \in [Heap -> Nat]
    PROVE  Settled
  <1>1. Heap' = Heap
    BY DEF Heap, Heaps
  <1>. QED  BY <1>1 DEF Settled, vars

LEMMA StillSettled ==
    ASSUME EInv, UNCHANGED << vars, heap, leaks >>
    PROVE  Settled
  BY Settles DEF EInv, ETyped, Heaps, vars

(* Cells of open frames are cells.                                         *)
LEMMA OpenFinite ==
    ASSUME EInv, acts # << >>, NEW S \in SUBSET RegFrames(Frames(Act), 2)
    PROVE  /\ IsFiniteSet({Cell(Act, Frames(Act)[k]) : k \in S})
           /\ \A k \in S : Cell(Act, Frames(Act)[k]) \in Act.base + 1 .. Len(mem)
  <1>1. PICK a : a = Act
    OBVIOUS
  <1>2. /\ Placed(created, a, mem, Len(mem)) /\ Len(mem) \in Nat
        /\ Frames(a) = FramesOf(created, a) /\ a.base \in Nat
    BY <1>1, InnermostFacts
  <1>3. \A k \in RegFrames(Frames(a), 2) : Cell(a, Frames(a)[k]) \in a.base + 1 .. Len(mem)
    BY <1>2 DEF Placed
  <1>4. {Cell(a, Frames(a)[k]) : k \in S} \subseteq 1 .. Len(mem)
    BY <1>1, <1>2, <1>3
  <1>5. IsFiniteSet(1 .. Len(mem))
    BY <1>2, FS_Interval
  <1>. QED  BY <1>1, <1>3, <1>4, <1>5, FS_Subset

LEMMA AbandonType ==
    ASSUME EInv, NEW cells, IsFiniteSet(cells), Abandon(cells)
    PROVE  leaks' \in [Heap -> Nat]
  <1>1. ASSUME NEW h \in Heap
        PROVE  leaks[h] + Cardinality({c \in cells : mem[c].ref = h}) \in Nat
    <2>1. Cardinality({c \in cells : mem[c].ref = h}) \in Nat
      BY CountType
    <2>2. leaks[h] \in Nat
      BY DEF EInv, ETyped
    <2>. QED  BY <2>1, <2>2
  <1>. QED  BY <1>1 DEF Abandon

(* Memory that stays is kept, and so is memory that grows.                 *)
LEMMA KeepsSame ==
    ASSUME EInv, acts # << >>, UNCHANGED mem
    PROVE  /\ Keeps(mem') /\ mem' \in Seq(CellRecords(Heap)) /\ Len(mem') = Len(mem)
           /\ Similar(mem, mem', Len(mem))
  <1>1. Act.base \in Nat /\ Act.base <= Len(mem) /\ Len(mem) \in Nat
    BY InnermostFacts
  <1>2. mem \in Seq(CellRecords(Heap))
    BY DEF EInv, ETyped
  <1>. QED  BY <1>1, <1>2 DEF Keeps, Similar

LEMMA KeepsWrite ==
    ASSUME EInv, acts # << >>, NEW hp \in Heaps, NEW v, AVariable(v),
           NEW h \in Heap \cup {Null}, Write(hp, v, h)
    PROVE  /\ Keeps(mem') /\ mem' \in Seq(CellRecords(Heap)) /\ Len(mem') = Len(mem)
           /\ Similar(mem, mem', Len(mem)) /\ heap' \in Heaps
  <1>1. /\ Act.base \in Nat /\ Act.base <= Len(mem) /\ Len(mem) \in Nat
    BY InnermostFacts
  <1>2. /\ heap' \in Heaps
        /\ mem' \in Seq(CellRecords(Heap)) /\ Len(mem') = Len(mem)
        /\ \A c \in 1 .. Len(mem) :
              /\ mem'[c].reg = mem[c].reg /\ mem'[c].ftype = mem[c].ftype
              /\ mem'[c] = mem[c] \/ (~v.inHeap /\ v.at = c)
    BY WriteFacts
  <1>3. Similar(mem, mem', Len(mem))
    BY <1>2 DEF Similar
  <1>4. Keeps(mem')
    <2>1. \A c \in 1 .. Act.base : c \in 1 .. Len(mem) /\ c \in DOMAIN mem'
      BY <1>1, <1>2
    <2>2. ASSUME NEW c \in 1 .. Act.base, c # Act.env[None] PROVE mem'[c] = mem[c]
      <3>1. ~v.inHeap => v.at # c
        BY <1>1, <2>1, <2>2 DEF AVariable
      <3>. QED  BY <1>2, <2>1, <3>1
    <2>. QED  BY <2>1, <2>2 DEF Keeps
  <1>. QED  BY <1>2, <1>3, <1>4

(* The instruction that runs, and the next.                                *)
LEMMA AtFacts ==
    ASSUME EInv, NEW ops, AtInstr(ops)
    PROVE  /\ acts # << >> /\ Act.pc \in CodeIds(created, Act.proc)
           /\ Act.proc \in Ids(created.procs)
           /\ KeepsFrames(created, Act.proc, Act.pc) /\ In.op \in ops
           /\ Act.pc + 1 \in 0 .. Len(Code(created, Act.proc))
           /\ ~Pushes(In) /\ In.op # "POP"
                 => FramesAt(created, Act.proc, Act.pc + 1) = Frames(Act)
  <1>1. PICK a : a = Act
    OBVIOUS
  <1>2. acts # << >> /\ a.pc \in CodeIds(created, a.proc) /\ In.op \in ops
    BY <1>1 DEF AtInstr, EInv
  <1>3. Ready(created) /\ Exact(created, a.proc) /\ Placed(created, a, mem, Len(mem))
    BY <1>1, <1>2, InnermostFacts
  <1>4. In = InstrAt(created, a.proc, a.pc) /\ Frames(a) = FramesAt(created, a.proc, a.pc)
    BY <1>1 DEF In, Frames
  <1>5. /\ a.pc + 1 \in 0 .. Len(Code(created, a.proc))
        /\ ~Pushes(In) /\ In.op # "POP"
              => FramesAt(created, a.proc, a.pc + 1) = Frames(a)
    BY <1>2, <1>3, <1>4, NextFramesAt
  <1>6. a.proc \in Ids(created.procs) /\ KeepsFrames(created, a.proc, a.pc)
    BY <1>2, <1>3 DEF Ready, Placed
  <1>. QED  BY <1>1, <1>2, <1>5, <1>6

Does == EInv' /\ Keeps(mem')

LEMMA OperateStep ==
    ASSUME EInv, Operate, UNCHANGED vars PROVE Does
  <1>1. /\ AtInstr({"PUSHH", "UO", "BO", "CPI", "CPB", "LDB", "STB"}) /\ GoTo(Act, Act.pc + 1)
        /\ UNCHANGED << heap, mem, run, leaks, copied >> /\ run = "running"
    BY DEF Operate, Advance, AtInstr
  <1>2. /\ acts # << >> /\ Act.pc \in CodeIds(created, Act.proc)
        /\ Act.pc + 1 \in 0 .. Len(Code(created, Act.proc))
        /\ In.op \in {"PUSHH", "UO", "BO", "CPI", "CPB", "LDB", "STB"}
        /\ ~Pushes(In) /\ In.op # "POP"
              => FramesAt(created, Act.proc, Act.pc + 1) = Frames(Act)
    BY <1>1, AtFacts
  <1>3. Settled
    BY <1>1, StillSettled
  <1>4. /\ Keeps(mem') /\ mem' \in Seq(CellRecords(Heap)) /\ Len(mem') = Len(mem)
        /\ Similar(mem, mem', Len(mem))
    BY <1>1, <1>2, KeepsSame
  <1>5. CASE In.op # "PUSHH"
    <2>1. FramesAt(created, Act.proc, Act.pc + 1) = Frames(Act)
      BY <1>2, <1>5 DEF Pushes
    <2>. QED  BY <1>1, <1>2, <1>3, <1>4, <2>1, WentOn DEF Does
  <1>6. CASE In.op = "PUSHH"
    <2>1. PICK a : a = Act
      OBVIOUS
    <2>2. PICK b : b = [a EXCEPT !.pc = a.pc + 1]
      OBVIOUS
    <2>3. /\ a \in Calls /\ Len(mem) \in Nat /\ Exact(created, a.proc) /\ Ready(created)
          /\ Placed(created, a, mem, Len(mem)) /\ a.base <= Len(mem) /\ a.base \in Nat
      BY <1>2, <2>1, InnermostFacts
    <2>4. b \in Calls /\ b.proc = a.proc /\ b.pc = a.pc + 1 /\ b.env = a.env /\ b.base = a.base
      <3>1. a.pc + 1 \in Nat
        BY <2>3 DEF Calls
      <3>. QED  BY <2>2, <2>3, <3>1, MovedFacts
    <2>5. PICK frames : frames = FramesOf(created, a)
      OBVIOUS
    <2>6. PICK cut : cut = FramesOf(created, b)
      OBVIOUS
    <2>7. PICK f : f = Pushed(In, a.pc)
      OBVIOUS
    <2>8. cut = Append(frames, f) /\ f \in GenFrames
      <3>1. In = InstrAt(created, a.proc, a.pc) /\ Pushes(In) /\ a.pc \in CodeIds(created, a.proc)
        BY <1>2, <1>6, <2>1 DEF In, Pushes
      <3>. QED  BY <2>3, <2>4, <2>5, <2>6, <2>7, <3>1, NextFramesAt DEF FramesOf
    <2>9. f.ftype = "HAND"
      BY <1>6, <2>7 DEF Pushed
    <2>10. /\ frames \in Seq(GenFrames) /\ Len(frames) \in Nat
           /\ \A k \in RegFrames(frames, 1) : Cell(a, frames[k]) \in 1 .. Len(mem)
      BY <2>3, <2>5, CellFacts
    <2>11. \A k \in RegFrames(cut, 2) :
               k \in RegFrames(frames, 2) /\ cut[k] = frames[k] /\ Cell(a, frames[k]) <= Len(mem)
      <3>1. /\ Len(cut) = Len(frames) + 1 /\ cut[Len(frames) + 1] = f
            /\ \A k \in 1 .. Len(frames) : cut[k] = frames[k]
        BY <2>8, <2>10
      <3>2. ASSUME NEW k \in RegFrames(cut, 2)
            PROVE  k \in RegFrames(frames, 2) /\ cut[k] = frames[k] /\ Cell(a, frames[k]) <= Len(mem)
        <4>1. k \in 2 .. Len(frames) + 1 /\ cut[k].ftype # "HAND"
          BY <3>1 DEF RegFrames
        <4>2. k \in 2 .. Len(frames)
          BY <2>9, <2>10, <3>1, <4>1
        <4>3. k \in RegFrames(frames, 2) /\ cut[k] = frames[k] /\ k \in RegFrames(frames, 1)
          BY <2>10, <3>1, <4>1, <4>2 DEF RegFrames
        <4>. QED  BY <2>10, <4>3
      <3>. QED  BY <3>2
    <2>12. Similar(mem, mem', Len(mem)) /\ b.base <= Len(mem)
           /\ b.pc \in 0 .. Len(Code(created, a.proc))
      BY <1>2, <1>4, <2>1, <2>3, <2>4
    <2>13. Placed(created, b, mem', Len(mem))
      BY ONLY <2>3, <2>4, <2>5, <2>6, <2>11, <2>12, PlacedCut
    <2>14. Marked(mem')
      BY <1>4, <2>1, <2>3 DEF Marked, Similar
    <2>15. acts' = Append(Front(acts), b)
      BY <1>1, <2>1, <2>2 DEF GoTo
    <2>16. EInv'
      BY <1>1, <1>2, <1>3, <1>4, <2>1, <2>4, <2>13, <2>14, <2>15, GoneOn
    <2>. QED  BY <1>4, <2>16 DEF Does
  <1>. QED  BY <1>5, <1>6

(* A jump goes where the frames are the same.                              *)
LEMMA BranchFrames ==
    ASSUME EInv, AtInstr({"JMP", "UJ", "BJ"})
    PROVE  /\ FramesAt(created, Act.proc, BranchIndex(In, Act.pc)) = Frames(Act)
           /\ BranchIndex(In, Act.pc) \in 0 .. Len(Code(created, Act.proc))
  <1>1. /\ acts # << >> /\ Act.pc \in CodeIds(created, Act.proc)
        /\ In.op \in {"JMP", "UJ", "BJ"} /\ KeepsFrames(created, Act.proc, Act.pc)
    BY AtFacts
  <1>2. FramesAt(created, Act.proc, BranchIndex(In, Act.pc)) = Frames(Act)
    <2>1. PICK in : in = InstrAt(created, Act.proc, Act.pc)
      OBVIOUS
    <2>2. in = In
      BY <2>1 DEF In
    <2>3. KeepsFrames(created, Act.proc, Act.pc) =>
              FramesAt(created, Act.proc, BranchIndex(in, Act.pc)) = FramesAt(created, Act.proc, Act.pc)
      BY <1>1, <2>1, <2>2 DEF KeepsFrames
    <2>. QED  BY <1>1, <2>2, <2>3 DEF Frames
  <1>3. BranchIndex(In, Act.pc) \in 0 .. Len(Code(created, Act.proc))
    <2>1. Exact(created, Act.proc)
      BY <1>1, InnermostFacts
    <2>2. Target(created, Act.proc, Act.pc) \in CodeIds(created, Act.proc)
      BY <1>1, <2>1 DEF Exact, Complete, Jumps, In
    <2>. QED  BY <2>1, <2>2 DEF Target, In, CodeIds, Ids, Exact, Complete, Walkable
  <1>. QED  BY <1>2, <1>3

LEMMA JumpStep ==
    ASSUME EInv, Jump, UNCHANGED vars PROVE Does
  <1>1. /\ AtInstr({"JMP", "UJ", "BJ"})
        /\ GoTo(Act, BranchIndex(In, Act.pc)) \/ GoTo(Act, Act.pc + 1)
        /\ UNCHANGED << heap, mem, run, leaks, copied >> /\ run = "running"
    BY DEF Jump, Advance, AtInstr
  <1>2. /\ acts # << >> /\ Act.pc \in CodeIds(created, Act.proc)
        /\ Act.pc + 1 \in 0 .. Len(Code(created, Act.proc))
        /\ In.op \in {"JMP", "UJ", "BJ"}
        /\ KeepsFrames(created, Act.proc, Act.pc)
        /\ FramesAt(created, Act.proc, Act.pc + 1) = Frames(Act)
    BY <1>1, AtFacts DEF Pushes
  <1>3. Settled
    BY <1>1, StillSettled
  <1>4. /\ Keeps(mem') /\ mem' \in Seq(CellRecords(Heap)) /\ Len(mem') = Len(mem)
        /\ Similar(mem, mem', Len(mem))
    BY <1>1, <1>2, KeepsSame
  <1>5. CASE GoTo(Act, Act.pc + 1)
    BY <1>1, <1>2, <1>3, <1>4, <1>5, WentOn DEF Does
  <1>6. CASE GoTo(Act, BranchIndex(In, Act.pc))
    <2>1. /\ FramesAt(created, Act.proc, BranchIndex(In, Act.pc)) = Frames(Act)
          /\ BranchIndex(In, Act.pc) \in 0 .. Len(Code(created, Act.proc))
      BY <1>1, BranchFrames
    <2>. QED  BY <1>1, <1>2, <1>3, <1>4, <1>6, <2>1, WentOn DEF Does
  <1>. QED  BY <1>1, <1>5, <1>6

(* The registers of the instructions that move references.                 *)
LEMMA MoveRegs ==
    ASSUME EInv, AtInstr({"LDR", "STR", "LDE", "STE"}), NEW reg \in {In.from, In.to}
    PROVE  Naming(Frames(Act), reg) # {}
  <1>1. PICK in : in = InstrAt(created, Act.proc, Act.pc)
    OBVIOUS
  <1>2. in = In
    BY <1>1 DEF In
  <1>3. KeepsFrames(created, Act.proc, Act.pc) /\ In.op \in {"LDR", "STR", "LDE", "STE"}
    BY AtFacts
  <1>4. PICK frames : frames = FramesAt(created, Act.proc, Act.pc)
    OBVIOUS
  <1>5. \A r \in {in.from, in.to} : Naming(frames, r) # {}
    BY <1>1, <1>2, <1>3, <1>4 DEF KeepsFrames
  <1>. QED  BY <1>2, <1>4, <1>5 DEF Frames

LEMMA NotNull ==
    ASSUME ~NullDereference(In), NEW reg \in Dereferences(In), Naming(Frames(Act), reg) # {}
    PROVE  ~IsNull(Variable(reg))
  BY DEF NullDereference

(* A step that writes a variable and goes on.                              *)
LEMMA WriteStep ==
    ASSUME EInv, NEW ops \in SUBSET {"LDR", "STR", "LDE", "STE"}, AtInstr(ops),
           NEW hp \in Heaps, NEW v, AVariable(v), NEW h \in Heap \cup {Null},
           Write(hp, v, h), Advance, UNCHANGED << vars, run, leaks >>
    PROVE  Does
  <1>1. /\ acts # << >> /\ Act.pc + 1 \in 0 .. Len(Code(created, Act.proc))
        /\ FramesAt(created, Act.proc, Act.pc + 1) = Frames(Act)
    BY AtFacts DEF Pushes
  <1>2. /\ Keeps(mem') /\ mem' \in Seq(CellRecords(Heap)) /\ Len(mem') = Len(mem)
        /\ Similar(mem, mem', Len(mem)) /\ heap' \in Heaps
    BY <1>1, KeepsWrite
  <1>3. Settled
    BY <1>2, Settles DEF EInv, ETyped
  <1>4. run' \in {"running", "unwinding"}
    BY DEF AtInstr
  <1>5. GoTo(Act, Act.pc + 1)
    BY DEF Advance
  <1>6. EInv'
    BY <1>1, <1>2, <1>3, <1>4, <1>5, WentOn
  <1>. QED  BY <1>2, <1>6 DEF Does

LEMMA LoadRefStep ==
    ASSUME EInv, LoadRef, UNCHANGED vars PROVE Does
  <1> DEFINE from == Variable(In.from)
             to == Cell(Act, FindFrame(Frames(Act), In.to))
             v == [inHeap |-> FALSE, at |-> to]
             new == RefIn(from)
             hp == Counted(Counted(heap, new, 1), mem[to].ref, -1)
  <1>1. /\ AtInstr({"LDR"}) /\ ~NullDereference(In) /\ Advance
        /\ Move(from, v, mem[to].ref) /\ UNCHANGED << run, leaks >>
    BY DEF LoadRef
  <1>2. In.op = "LDR" /\ acts # << >> /\ AtInstr({"LDR", "STR", "LDE", "STE"})
    BY <1>1, AtFacts DEF AtInstr
  <1>3. Naming(Frames(Act), In.from) # {} /\ Naming(Frames(Act), In.to) # {}
    BY <1>2, MoveRegs
  <1>4. to \in 1 .. Len(mem) /\ (to > Act.base \/ to = Act.env[None])
        /\ mem[to].ref \in Heap \cup {Null}
    BY <1>2, <1>3, CellOf
  <1>5. ~IsNull(from)
    <2>1. In.from \in Dereferences(In)
      BY <1>2 DEF Dereferences
    <2>. QED  BY <1>1, <1>3, <2>1, NotNull
  <1>6. new \in Heap \cup {Null}
    BY <1>2, <1>3, <1>5, VariableFacts
  <1>7. Write(hp, v, new)
    BY <1>1, <1>2 DEF Move
  <1> HIDE DEF from, to, new
  <1>8. hp \in Heaps
    <2>1. heap \in Heaps
      BY DEF EInv, ETyped, Heaps
    <2>2. Counted(heap, new, 1) \in Heaps
      BY <1>6, <2>1, CountedType
    <2>. QED  BY <1>4, <2>2, CountedType
  <1>9. AVariable(v)
    BY <1>4 DEF AVariable
  <1> HIDE DEF hp, v
  <1>. QED  BY <1>1, <1>2, <1>6, <1>7, <1>8, <1>9, WriteStep

LEMMA StoreRefStep ==
    ASSUME EInv, StoreRef, UNCHANGED vars PROVE Does
  <1> DEFINE from == Cell(Act, FindFrame(Frames(Act), In.from))
             to == Variable(In.to)
             new == mem[from].ref
             hp == Counted(Counted(heap, new, 1), RefIn(to), -1)
  <1>1. /\ AtInstr({"STR"}) /\ ~NullDereference(In) /\ Advance
        /\ Move(from, to, RefIn(to)) /\ UNCHANGED << run, leaks >>
    BY DEF StoreRef
  <1>2. In.op = "STR" /\ acts # << >> /\ AtInstr({"LDR", "STR", "LDE", "STE"})
    BY <1>1, AtFacts DEF AtInstr
  <1>3. Naming(Frames(Act), In.from) # {} /\ Naming(Frames(Act), In.to) # {}
    BY <1>2, MoveRegs
  <1>4. new \in Heap \cup {Null}
    BY <1>2, <1>3, CellOf
  <1>5. ~IsNull(to)
    <2>1. In.to \in Dereferences(In)
      BY <1>2 DEF Dereferences
    <2>. QED  BY <1>1, <1>3, <2>1, NotNull
  <1>6. AVariable(to) /\ RefIn(to) \in Heap \cup {Null}
    BY <1>2, <1>3, <1>5, VariableFacts
  <1>7. Write(hp, to, new)
    BY <1>1, <1>2 DEF Move
  <1> HIDE DEF from, to, new
  <1>8. hp \in Heaps
    <2>1. heap \in Heaps
      BY DEF EInv, ETyped, Heaps
    <2>2. Counted(heap, new, 1) \in Heaps
      BY <1>4, <2>1, CountedType
    <2>. QED  BY <1>6, <2>2, CountedType
  <1> HIDE DEF hp
  <1>. QED  BY <1>1, <1>2, <1>4, <1>6, <1>7, <1>8, WriteStep

LEMMA CopyElementStep ==
    ASSUME EInv, CopyElement, UNCHANGED vars PROVE Does
  <1> DEFINE from == Variable(In.from)
             to == Variable(In.to)
  <1>1. /\ AtInstr({"LDE", "STE"}) /\ ~NullDereference(In) /\ Advance
        /\ Write(heap, to, RefIn(from)) /\ UNCHANGED << run, leaks >>
    BY DEF CopyElement
  <1>2. In.op \in {"LDE", "STE"} /\ acts # << >> /\ AtInstr({"LDR", "STR", "LDE", "STE"})
    BY <1>1, AtFacts DEF AtInstr
  <1>3. Naming(Frames(Act), In.from) # {} /\ Naming(Frames(Act), In.to) # {}
    BY <1>2, MoveRegs
  <1>4. ~IsNull(from)
    <2>1. In.from \in Dereferences(In)
      BY <1>2 DEF Dereferences
    <2>. QED  BY <1>1, <1>3, <2>1, NotNull
  <1>5. RefIn(from) \in Heap \cup {Null} /\ AVariable(to)
    BY <1>2, <1>3, <1>4, VariableFacts
  <1>6. heap \in Heaps
    BY DEF EInv, ETyped, Heaps
  <1> HIDE DEF from, to
  <1>. QED  BY <1>1, <1>2, <1>5, <1>6, WriteStep

LEMMA PushStep ==
    ASSUME EInv, Push, UNCHANGED vars PROVE Does
  <1>1. PICK a : a = Act
    OBVIOUS
  <1>2. PICK in : in = In
    OBVIOUS
  <1>3. PICK e : e = [reg |-> in.reg, ref |-> Null,
                      ftype |-> IF in.op = "PUSHR" THEN "REGR" ELSE "REGNR"]
    OBVIOUS
  <1>4. PICK env : env = Bound(a.env, a.pc, Len(mem) + 1)
    OBVIOUS
  <1>5. PICK c : c = [a EXCEPT !.env = env]
    OBVIOUS
  <1>6. PICK b : b = [c EXCEPT !.pc = a.pc + 1]
    OBVIOUS
  <1>7. /\ AtInstr({"PUSH", "PUSHR"}) /\ mem' = Append(mem, e)
        /\ UNCHANGED << heap, run, leaks >> /\ run = "running"
    BY <1>2, <1>3 DEF Push, AtInstr
  <1>8. /\ acts # << >> /\ a.pc \in CodeIds(created, a.proc) /\ in.op \in {"PUSH", "PUSHR"}
        /\ a.proc \in Ids(created.procs) /\ in = InstrAt(created, a.proc, a.pc)
    BY <1>1, <1>2, <1>7, AtFacts DEF In
  <1>9. /\ a \in Calls /\ Len(mem) \in Nat /\ Ready(created)
        /\ Placed(created, a, mem, Len(mem)) /\ a.base <= Len(mem) /\ a.base \in Nat
        /\ a.env[None] \in 1 .. a.base
    BY <1>1, <1>8, InnermostFacts
  <1>10. e \in CellRecords(Heap)
    <2>1. in.reg \in Nat
      BY <1>8, <1>9 DEF Ready
    <2>. QED  BY <1>3, <2>1 DEF CellRecords, FrameTypes
  <1>11. /\ mem' \in Seq(CellRecords(Heap)) /\ Len(mem') = Len(mem) + 1
         /\ mem'[Len(mem) + 1] = e /\ \A k \in 1 .. Len(mem) : mem'[k] = mem[k]
    BY <1>7, <1>10, ExtendFacts DEF EInv, ETyped
  <1>12. acts' = Append(Front(acts), b)
    BY <1>1, <1>4, <1>5, <1>6, <1>11 DEF Push, GoTo
  <1>13. /\ env \in Envs /\ a.env \in Envs
         /\ \A x \in DOMAIN a.env : x # a.pc => env[x] = a.env[x]
    <2>1. a.env \in Envs /\ a.pc \in Int /\ Len(mem) + 1 \in Nat
      BY <1>9 DEF Calls
    <2>. QED  BY <1>4, <2>1, EnvFacts
  <1>14. /\ b \in Calls /\ b.proc = a.proc /\ b.pc = a.pc + 1 /\ b.base = a.base /\ b.env = env
    <2>1. c \in Calls /\ c.proc = a.proc /\ c.base = a.base /\ c.env = env
      BY <1>5, <1>9, <1>13 DEF Calls
    <2>2. a.pc + 1 \in Nat
      BY <1>9 DEF Calls
    <2>. QED  BY <1>6, <2>1, <2>2, MovedFacts
  <1>15. Similar(mem, mem', Len(mem)) /\ Marked(mem')
    BY <1>1, <1>9, <1>11 DEF Similar, Marked
  <1>16. Placed(created, b, mem', Len(mem'))
    <2>1. /\ mem'[Len(mem) + 1].reg = in.reg
          /\ mem'[Len(mem) + 1].ftype = IF in.op = "PUSHR" THEN "REGR" ELSE "REGNR"
      BY <1>3, <1>11
    <2>2. Placed(created, b, mem', Len(mem) + 1)
      BY <1>4, <1>8, <1>9, <1>13, <1>14, <1>15, <2>1, PlacedPush
    <2>. QED  BY <1>11, <2>2
  <1>17. b.env[None] = a.env[None]
    <2>1. None \in DOMAIN a.env /\ a.pc # None
      BY <1>9 DEF Placed, Calls, None
    <2>. QED  BY <1>13, <1>14, <2>1
  <1>18. Settled
    BY <1>7, StillSettled
  <1>19. Keeps(mem')
    BY <1>1, <1>9, <1>11 DEF Keeps
  <1>20. EInv'
    BY <1>1, <1>7, <1>8, <1>11, <1>12, <1>14, <1>15, <1>16, <1>17, <1>18, GoneOn
  <1>. QED  BY <1>19, <1>20 DEF Does

LEMMA PopStep ==
    ASSUME EInv, Pop, UNCHANGED vars PROVE Does
  <1>1. PICK a : a = Act
    OBVIOUS
  <1>2. PICK frames : frames = Frames(a)
    OBVIOUS
  <1>3. PICK b : b = [a EXCEPT !.pc = a.pc + 1]
    OBVIOUS
  <1>4. PICK cut : cut = FramesOf(created, b)
    OBVIOUS
  <1>5. /\ AtInstr({"POP"}) /\ acts' = Append(Front(acts), b)
        /\ UNCHANGED << run, leaks >> /\ run = "running"
    BY <1>1, <1>3 DEF Pop, Advance, GoTo, AtInstr
  <1>6. /\ acts # << >> /\ a.pc \in CodeIds(created, a.proc) /\ In.op = "POP"
        /\ In = InstrAt(created, a.proc, a.pc)
        /\ a.pc + 1 \in 0 .. Len(Code(created, a.proc))
    BY <1>1, <1>5, AtFacts DEF In
  <1>7. /\ a \in Calls /\ Len(mem) \in Nat /\ Ready(created) /\ Exact(created, a.proc)
        /\ Placed(created, a, mem, Len(mem)) /\ a.base <= Len(mem) /\ a.base \in Nat
        /\ frames = FramesOf(created, a)
    BY <1>1, <1>2, <1>6, InnermostFacts
  <1>8. /\ b \in Calls /\ b.proc = a.proc /\ b.pc = a.pc + 1 /\ b.base = a.base /\ b.env = a.env
    <2>1. a.pc + 1 \in Nat
      BY <1>7 DEF Calls
    <2>. QED  BY <1>3, <1>7, <2>1, MovedFacts
  <1>9. cut = Front(frames) /\ Len(frames) > 1
    BY <1>4, <1>6, <1>7, <1>8, NextFramesAt DEF FramesOf
  <1>10. /\ frames \in Seq(GenFrames) /\ Len(frames) \in Nat
         /\ \A k \in RegFrames(frames, 1) : Cell(a, frames[k]) \in 1 .. Len(mem)
    BY <1>7, CellFacts
  <1>11. Last(frames) = frames[Len(frames)]
    BY DEF Last
  <1>12. \A k \in RegFrames(cut, 2) :
             k \in RegFrames(frames, 2) /\ cut[k] = frames[k] /\ k < Len(frames)
    <2>1. Front(frames) = SubSeq(frames, 1, Len(frames) - 1) /\ Len(frames) - 1 \in 0 .. Len(frames)
      BY <1>9, <1>10 DEF Front
    <2>2. Len(cut) = Len(frames) - 1 /\ \A k \in 1 .. Len(frames) - 1 : cut[k] = frames[k]
      BY <1>9, <1>10, <2>1, CutFacts
    <2>. QED  BY <1>10, <2>2 DEF RegFrames
  <1>13. mem \in Seq(CellRecords(Heap)) /\ heap \in Heaps
    BY DEF EInv, ETyped, Heaps
  <1>14. CASE Last(frames).ftype = "HAND"
    <2>1. UNCHANGED << heap, mem >>
      BY <1>1, <1>2, <1>14 DEF Pop
    <2>2. /\ Keeps(mem') /\ mem' \in Seq(CellRecords(Heap)) /\ Len(mem') = Len(mem)
          /\ Similar(mem, mem', Len(mem))
      BY <1>6, <2>1, KeepsSame
    <2>3. \A k \in RegFrames(cut, 2) :
              k \in RegFrames(frames, 2) /\ cut[k] = frames[k] /\ Cell(a, frames[k]) <= Len(mem)
      <3>1. \A k \in RegFrames(frames, 2) : Cell(a, frames[k]) <= Len(mem)
        BY <1>7 DEF Placed
      <3>. QED  BY <1>12, <3>1
    <2>4. /\ Similar(mem, mem', Len(mem)) /\ b.base <= Len(mem)
          /\ b.pc \in 0 .. Len(Code(created, a.proc))
      BY <1>6, <1>7, <1>8, <2>2
    <2>5. Placed(created, b, mem', Len(mem))
      BY ONLY <1>4, <1>7, <1>8, <2>3, <2>4, PlacedCut
    <2>6. Marked(mem')
      BY <1>1, <1>7, <2>2 DEF Marked, Similar
    <2>7. Settled
      BY <1>5, <2>1, StillSettled
    <2>8. EInv'
      BY <1>1, <1>5, <1>6, <1>8, <2>2, <2>5, <2>6, <2>7, GoneOn
    <2>. QED  BY <2>2, <2>8 DEF Does
  <1>15. CASE Last(frames).ftype # "HAND"
    <2>1. PICK cell : cell = Cell(a, frames[Len(frames)])
      OBVIOUS
    <2>2. PICK end : end = cell - 1
      OBVIOUS
    <2>3. heap' = Released(heap, {cell}) /\ mem' = SubSeq(mem, 1, end)
      BY <1>1, <1>2, <1>11, <1>15, <2>1, <2>2 DEF Pop, Restored
    <2>4. Len(frames) \in RegFrames(frames, 2)
      BY <1>9, <1>10, <1>11, <1>15 DEF RegFrames
    <2>5. /\ cell \in a.base + 1 .. Len(mem)
          /\ \A j \in RegFrames(frames, 2) :
                j < Len(frames) => Cell(a, frames[j]) < cell
          /\ \A j \in RegFrames(frames, 2) : Cell(a, frames[j]) \in a.base + 1 .. Len(mem)
      BY <1>7, <2>1, <2>4 DEF Placed
    <2>6. end \in Nat /\ a.base <= end /\ end \in 0 .. Len(mem)
      BY <1>7, <2>2, <2>5
    <2>7. /\ mem' \in Seq(CellRecords(Heap)) /\ Len(mem') = end
          /\ \A k \in 1 .. end : mem'[k] = mem[k]
      BY <1>13, <2>3, <2>6, CutFacts
    <2>8. \A k \in RegFrames(cut, 2) :
              k \in RegFrames(frames, 2) /\ cut[k] = frames[k] /\ Cell(a, frames[k]) <= end
      <3>1. ASSUME NEW k \in RegFrames(cut, 2)
            PROVE  Cell(a, frames[k]) <= end
        <4>1. k \in RegFrames(frames, 2) /\ k < Len(frames)
          BY <1>12
        <4>2. Cell(a, frames[k]) < cell /\ Cell(a, frames[k]) \in Int /\ cell \in Int
          BY <1>7, <2>5, <4>1
        <4>. QED  BY <2>2, <4>2
      <3>. QED  BY <1>12, <3>1
    <2>9. /\ Similar(mem, mem', end) /\ b.base <= end
          /\ b.pc \in 0 .. Len(Code(created, a.proc)) /\ end \in Nat
      BY <1>6, <1>8, <2>6, <2>7 DEF Similar
    <2>10. Placed(created, b, mem', end)
      BY ONLY <1>4, <1>7, <1>8, <2>8, <2>9, PlacedCut
    <2>11. Marked(mem') /\ Keeps(mem')
      BY <1>1, <1>7, <2>6, <2>7 DEF Marked, Similar, Keeps
    <2>12. heap' \in Heaps
      <3>1. IsFiniteSet({cell})
        BY FS_Singleton
      <3>. QED  BY <1>13, <2>3, <3>1, ReleasedType
    <2>13. Settled
      BY <1>5, <2>12, Settles DEF EInv, ETyped
    <2>14. EInv'
      BY <1>1, <1>5, <1>6, <1>8, <2>7, <2>10, <2>11, <2>13, GoneOn
    <2>. QED  BY <2>11, <2>14 DEF Does
  <1>. QED  BY <1>14, <1>15

LEMMA FailStep ==
    ASSUME EInv, Fail, UNCHANGED vars PROVE Does
  <1> DEFINE frames == Frames(Act)
             open == {Cell(Act, frames[k]) : k \in RegFrames(frames, 2)}
             stored == IF In.op # "STR" THEN Null
                       ELSE mem[Cell(Act, FindFrame(frames, In.from))].ref
  <1>1. /\ AtInstr({In.op}) /\ heap' = Counted(heap, stored, 1)
        /\ leaks' = [h \in Heap |->
               leaks[h] + Cardinality({c \in open : mem[c].ref = h})
                        + IF stored = h THEN 1 ELSE 0]
        /\ Leave("unwinding")
    BY DEF Fail, AtInstr
  <1>2. acts # << >>
    BY <1>1, AtFacts
  <1>3. stored \in Heap \cup {Null}
    <2>1. CASE In.op # "STR"
      BY <2>1
    <2>2. CASE In.op = "STR"
      <3>1. AtInstr({"LDR", "STR", "LDE", "STE"})
        BY <1>1, <2>2 DEF AtInstr
      <3>2. Naming(Frames(Act), In.from) # {}
        BY <3>1, MoveRegs
      <3>3. mem[Cell(Act, FindFrame(Frames(Act), In.from))].ref \in Heap \cup {Null}
        BY <1>2, <3>2, CellOf
      <3>. QED  BY <2>2, <3>3
    <2>. QED  BY <2>1, <2>2
  <1>4. IsFiniteSet(open)
    BY <1>2, OpenFinite
  <1> HIDE DEF stored, open, frames
  <1>5. heap' \in Heaps
    <2>1. heap \in Heaps
      BY DEF EInv, ETyped, Heaps
    <2>. QED  BY <1>1, <1>3, <2>1, CountedType
  <1>6. leaks' \in [Heap -> Nat]
    <2>1. ASSUME NEW h \in Heap
          PROVE  leaks[h] + Cardinality({c \in open : mem[c].ref = h})
                    + (IF stored = h THEN 1 ELSE 0) \in Nat
      <3>1. Cardinality({c \in open : mem[c].ref = h}) \in Nat
        BY <1>4, CountType
      <3>2. leaks[h] \in Nat
        BY DEF EInv, ETyped
      <3>. QED  BY <3>1, <3>2
    <2>. QED  BY <1>1, <2>1
  <1>7. Settled
    BY <1>5, <1>6, Settles
  <1>. QED  BY <1>1, <1>2, <1>7, WasLeft DEF Does

LEMMA ReturnStep ==
    ASSUME EInv, Return, UNCHANGED vars PROVE Does
  <1> DEFINE frames == Frames(Act)
             open == {Cell(Act, frames[k]) : k \in RegFrames(frames, 2)}
  <1>1. run = "running" /\ Abandon(open) /\ Leave("running") /\ UNCHANGED heap
    BY DEF Return
  <1>2. acts # << >>
    BY <1>1 DEF EInv
  <1>3. IsFiniteSet(open)
    BY <1>2, OpenFinite
  <1> HIDE DEF open
  <1>4. Settled
    <2>1. leaks' \in [Heap -> Nat]
      BY <1>1, <1>3, AbandonType
    <2>. QED  BY <1>1, <2>1, Settles DEF EInv, ETyped, Heaps
  <1>. QED  BY <1>1, <1>2, <1>4, WasLeft DEF Does

LEMMA ThrowStep ==
    ASSUME EInv, Throw, UNCHANGED vars PROVE Does
  <1>1. /\ AtInstr({"THROW"}) /\ run' = "unwinding" /\ UNCHANGED << heap, mem, acts, leaks >>
        /\ run = "running"
    BY DEF Throw, AtInstr
  <1>2. acts # << >>
    BY <1>1, AtFacts
  <1>3. Keeps(mem')
    BY <1>1, <1>2, KeepsSame
  <1>4. EInv'
    BY <1>1, <1>2 DEF EInv, ETyped, Heap, vars
  <1>. QED  BY <1>3, <1>4 DEF Does

LEMMA CallProcedureStep ==
    ASSUME EInv, CallProcedure, UNCHANGED vars PROVE Does
  <1>1. PICK a : a = Act
    OBVIOUS
  <1>2. PICK b : b = Enter(In.proc, Argument(a))
    OBVIOUS
  <1>3. /\ AtInstr({"CALL"}) /\ acts' = Append(acts, b) /\ run = "running"
        /\ UNCHANGED << heap, mem, run, leaks, copied >>
    BY <1>1, <1>2 DEF CallProcedure, AtInstr
  <1>4. /\ acts # << >> /\ a.pc \in CodeIds(created, a.proc) /\ In.op = "CALL"
        /\ In = InstrAt(created, a.proc, a.pc) /\ a.proc \in Ids(created.procs)
    BY <1>1, <1>3, AtFacts DEF In
  <1>5. /\ Ready(created) /\ Len(mem) \in Nat /\ acts \in Seq(Calls)
        /\ Placed(created, a, mem, Len(mem)) /\ Frames(a) = FramesOf(created, a)
        /\ Exact(created, a.proc)
    BY <1>1, <1>4, InnermostFacts DEF EInv, ETyped
  <1>6. In.proc \in Ids(created.procs) /\ In.proc \in Nat
    BY <1>4, <1>5 DEF Ready, Ids
  <1>7. PICK frames : frames = FramesOf(created, a)
    OBVIOUS
  <1>8. /\ frames \in Seq(GenFrames) /\ Len(frames) \in Nat \ {0}
        /\ \A k \in RegFrames(frames, 1) : Cell(a, frames[k]) \in 1 .. Len(mem)
    BY <1>5, <1>7, CellFacts
  <1>9. Last(frames).ftype = "REGNR" /\ Last(frames) = frames[Len(frames)]
    <2>1. AllFound(created, a.proc)
      BY <1>5 DEF Exact, Complete
    <2>. QED  BY <1>4, <1>7, <2>1 DEF AllFound, Found, FramesOf, Last
  <1>10. PICK cell : cell = Argument(a)
    OBVIOUS
  <1>11. cell = Cell(a, Last(frames)) /\ cell \in 1 .. Len(mem)
    <2>1. Len(frames) \in RegFrames(frames, 1)
      BY <1>8, <1>9 DEF RegFrames
    <2>. QED  BY <1>5, <1>7, <1>8, <1>9, <1>10, <2>1 DEF Argument
  <1>12. b = [proc |-> In.proc, pc |-> 0, env |-> [i \in {None} |-> cell], base |-> Len(mem)]
    BY <1>2, <1>10 DEF Enter
  <1>13. b \in Calls
    <2>1. [i \in {None} |-> cell] \in Envs
      <3>1. cell \in Nat
        BY <1>5, <1>11
      <3>. QED  BY ONLY <3>1, EntryEnv
    <2>. QED  BY <1>5, <1>6, <1>12, <2>1 DEF Calls
  <1>14. Stacked(created, Append(acts, b), mem)
    <2>1. Stacked(created, acts, mem) /\ a = Last(acts)
      BY <1>1 DEF EInv, Act
    <2>2. /\ b.proc = In.proc /\ b.pc = 0 /\ b.base = Len(mem)
          /\ b.env = [i \in {None} |-> Cell(a, Last(FramesOf(created, a)))]
      BY <1>7, <1>11, <1>12
    <2>. QED  BY ONLY <1>4, <1>5, <1>6, <1>13, <2>1, <2>2, StackedCall
  <1>15. Append(acts, b) \in Seq(Calls) /\ Append(acts, b) # << >>
    BY <1>5, <1>13
  <1>16. Keeps(mem')
    BY <1>3, <1>4, KeepsSame
  <1>17. EInv'
    BY <1>3, <1>14, <1>15 DEF EInv, ETyped, Heap, vars
  <1>. QED  BY <1>16, <1>17 DEF Does

(* A handler that an exception enters: control goes where its frame is     *)
(* innermost.                                                              *)
LEMMA HandlerFrames ==
    ASSUME NEW m, NEW p, Ready(m), p \in Ids(m.procs), NEW i \in 0 .. Len(Code(m, p)),
           NEW s, s = FramesAt(m, p, i), NEW k \in 2 .. Len(s), s[k].ftype = "HAND"
    PROVE  /\ s[k].hindex \in 0 .. Len(Code(m, p))
           /\ FramesAt(m, p, s[k].hindex) = SubSeq(s, 1, k)
  <1>1. Exact(m, p) /\ Walkable(m, p)
    BY DEF Ready, Exact, Complete
  <1>2. Len(s) \in Nat
    BY <1>1, WalkType
  <1>3. Remembered(m, p, s, i, k)
    BY <1>1, <1>2, StackHistory
  <1>4. PICK j : j = s[k].at
    OBVIOUS
  <1>5. PICK in : in = InstrAt(m, p, j)
    OBVIOUS
  <1>6. /\ SubSeq(s, 1, k) = FramesAt(m, p, j + 1) /\ j \in CodeIds(m, p)
        /\ s[k] = Pushed(in, j)
    BY <1>2, <1>3, <1>4, <1>5 DEF Remembered
  <1>7. in.op = "PUSHH" /\ s[k].hindex = BranchIndex(in, j)
    <2>1. Pushes(in)
      BY <1>2, <1>3, <1>4, <1>5 DEF Remembered
    <2>. QED  BY <1>6, <2>1 DEF Pushed, Pushes
  <1>8. Target(m, p, j) \in CodeIds(m, p)
    BY <1>1, <1>5, <1>6, <1>7 DEF Exact, Complete, Jumps
  <1>9. KeepsFrames(m, p, j)
    BY <1>6 DEF Ready
  <1>10. FramesAt(m, p, BranchIndex(in, j)) = FramesAt(m, p, j + 1)
    BY <1>5, <1>7, <1>9 DEF KeepsFrames
  <1>11. CodeIds(m, p) \subseteq 0 .. Len(Code(m, p))
    BY <1>1 DEF Walkable, CodeIds, Ids
  <1>. QED  BY <1>5, <1>6, <1>7, <1>8, <1>10, <1>11 DEF Target

LEMMA UnwindStep ==
    ASSUME EInv, Unwind, UNCHANGED vars PROVE Does
  <1>1. PICK a : a = Act
    OBVIOUS
  <1>2. PICK frames : frames = Frames(a)
    OBVIOUS
  <1>3. PICK k : k = Catcher(frames, BuiltAt(created, a.proc, a.pc))
    OBVIOUS
  <1> DEFINE cleaned == {Cell(a, frames[j]) : j \in PadCleans(frames, k)}
             open == {Cell(a, frames[j]) : j \in RegFrames(frames, 2)}
  <1>4. /\ run = "unwinding"
        /\ IF Len(frames) = 1
           THEN Leave("unwinding") /\ UNCHANGED << heap, leaks >>
           ELSE /\ heap' = Released(heap, cleaned)
                /\ IF k = 0
                   THEN Leave("unwinding") /\ Abandon(open \ cleaned)
                   ELSE /\ GoTo(a, frames[k].hindex) /\ run' = "running"
                        /\ UNCHANGED << mem, leaks >>
    BY <1>1, <1>2, <1>3 DEF Unwind
  <1>5. acts # << >>
    BY <1>4 DEF EInv
  <1>6. /\ a \in Calls /\ Len(mem) \in Nat /\ Ready(created)
        /\ Placed(created, a, mem, Len(mem)) /\ a.base <= Len(mem) /\ a.base \in Nat
        /\ frames = FramesOf(created, a) /\ a.pc \in 0 .. Len(Code(created, a.proc))
        /\ a.proc \in Ids(created.procs)
    BY <1>1, <1>2, <1>5, InnermostFacts DEF Placed
  <1>7. /\ frames \in Seq(GenFrames) /\ Len(frames) \in Nat
        /\ \A j \in RegFrames(frames, 1) : Cell(a, frames[j]) \in 1 .. Len(mem)
    BY <1>6, CellFacts
  <1>8. k # 0 => k \in 3 .. Len(frames) /\ frames[k].ftype = "HAND"
    <2>1. DOMAIN frames = 1 .. Len(frames)
      BY <1>7
    <2>2. k # 0 => k \in DOMAIN frames /\ k >= 3 /\ frames[k].ftype = "HAND"
      BY <1>3, <1>7, <2>1, CatcherFacts
    <2>. QED  BY <1>7, <2>1, <2>2
  <1>9. PadCleans(frames, k) \subseteq RegFrames(frames, 2)
    BY <1>7, <1>8 DEF PadCleans, RegFrames
  <1>10. IsFiniteSet(cleaned) /\ IsFiniteSet(open)
    BY <1>1, <1>2, <1>5, <1>9, OpenFinite
  <1> HIDE DEF cleaned, open
  <1>11. Released(heap, cleaned) \in Heaps /\ heap \in Heaps
    <2>1. heap \in Heaps
      BY DEF EInv, ETyped, Heaps
    <2>. QED  BY <1>10, <2>1, ReleasedType
  <1>12. CASE Len(frames) = 1
    <2>1. Leave("unwinding") /\ UNCHANGED << heap, leaks >>
      BY <1>4, <1>12
    <2>2. Settled
      BY <2>1, StillSettled
    <2>. QED  BY <1>5, <2>1, <2>2, WasLeft DEF Does
  <1>13. CASE Len(frames) # 1 /\ k = 0
    <2>1. heap' = Released(heap, cleaned) /\ Leave("unwinding") /\ Abandon(open \ cleaned)
      BY <1>4, <1>13
    <2>2. IsFiniteSet(open \ cleaned)
      BY <1>10, FS_Subset
    <2>3. leaks' \in [Heap -> Nat]
      BY <2>1, <2>2, AbandonType
    <2>4. Settled
      BY <1>11, <2>1, <2>3, Settles
    <2>. QED  BY <1>5, <2>1, <2>4, WasLeft DEF Does
  <1>14. CASE Len(frames) # 1 /\ k # 0
    <2>1. /\ heap' = Released(heap, cleaned) /\ GoTo(a, frames[k].hindex)
          /\ run' = "running" /\ UNCHANGED << mem, leaks >>
      BY <1>4, <1>14
    <2>2. Settled
      BY <1>11, <2>1, Settles DEF EInv, ETyped
    <2>3. /\ Keeps(mem') /\ mem' \in Seq(CellRecords(Heap)) /\ Len(mem') = Len(mem)
          /\ Similar(mem, mem', Len(mem))
      BY <1>5, <2>1, KeepsSame
    <2>4. PICK pc : pc = frames[k].hindex
      OBVIOUS
    <2>5. k \in 2 .. Len(frames) /\ frames[k].ftype = "HAND"
      BY <1>7, <1>8, <1>14
    <2>6. /\ pc \in 0 .. Len(Code(created, a.proc))
          /\ FramesAt(created, a.proc, pc) = SubSeq(frames, 1, k)
      BY <1>6, <2>4, <2>5, HandlerFrames DEF FramesOf
    <2>7. PICK b : b = [a EXCEPT !.pc = pc]
      OBVIOUS
    <2>8. /\ b \in Calls /\ b.proc = a.proc /\ b.pc = pc /\ b.env = a.env /\ b.base = a.base
      BY <1>6, <2>6, <2>7, MovedFacts
    <2>9. PICK cut : cut = FramesOf(created, b)
      OBVIOUS
    <2>10. \A j \in RegFrames(cut, 2) :
               j \in RegFrames(frames, 2) /\ cut[j] = frames[j] /\ Cell(a, frames[j]) <= Len(mem)
      <3>1. cut = SubSeq(frames, 1, k) /\ k \in 0 .. Len(frames)
        BY <1>7, <2>5, <2>6, <2>8, <2>9 DEF FramesOf
      <3>2. Len(cut) = k /\ \A j \in 1 .. k : cut[j] = frames[j]
        BY <1>7, <3>1, CutFacts
      <3>3. \A j \in RegFrames(cut, 2) : j \in RegFrames(frames, 2) /\ cut[j] = frames[j]
        BY <1>7, <2>5, <3>2 DEF RegFrames
      <3>4. \A j \in RegFrames(frames, 2) : Cell(a, frames[j]) <= Len(mem)
        BY <1>6 DEF Placed
      <3>. QED  BY <3>3, <3>4
    <2>11. /\ Similar(mem, mem', Len(mem)) /\ b.base <= Len(mem)
           /\ b.pc \in 0 .. Len(Code(created, a.proc))
      BY <1>6, <2>3, <2>6, <2>8
    <2>12. Placed(created, b, mem', Len(mem'))
      <3>1. Placed(created, b, mem', Len(mem))
        BY ONLY <1>6, <2>8, <2>9, <2>10, <2>11, PlacedCut
      <3>. QED  BY <2>3, <3>1
    <2>13. Marked(mem')
      BY <1>1, <1>6, <2>3 DEF Marked, Similar
    <2>14. acts' = Append(Front(acts), b)
      BY <2>1, <2>4, <2>7 DEF GoTo
    <2>15. EInv'
      BY <1>1, <1>5, <2>1, <2>2, <2>3, <2>8, <2>12, <2>13, <2>14, GoneOn
    <2>. QED  BY <2>3, <2>15 DEF Does
  <1>. QED  BY <1>12, <1>13, <1>14

LEMMA ExecuteStep ==
    ASSUME EInv, Execute, UNCHANGED vars PROVE Does
  BY PushStep, PopStep, OperateStep, JumpStep, LoadRefStep, StoreRefStep,
     CopyElementStep, FailStep, CallProcedureStep, ReturnStep, ThrowStep, UnwindStep
     DEF Execute

LEMMA StartStep ==
    ASSUME IInv, FramesInv, EInv, Start, UNCHANGED vars PROVE EInv'
  <1>1. PICK b : b = Enter(0, 1)
    OBVIOUS
  <1>2. /\ run = "idle" /\ Runnable /\ acts' = << b >> /\ run' = "running"
        /\ UNCHANGED << heap, mem, leaks >>
    BY <1>1 DEF Start
  <1>3. Ready(created) /\ created.procs # << >>
    BY <1>2, RunnableReady DEF Ready
  <1>4. mem \in Seq(CellRecords(Heap)) /\ Len(mem) \in Nat /\ Len(mem) >= 1
    BY DEF EInv, ETyped
  <1>5. b = [proc |-> 0, pc |-> 0, env |-> [i \in {None} |-> 1], base |-> Len(mem)]
    BY <1>1 DEF Enter
  <1>6. b \in Calls
    <2>1. [i \in {None} |-> 1] \in Envs
      BY EntryEnv
    <2>. QED  BY <1>4, <1>5, <2>1 DEF Calls
  <1>7. 0 \in Ids(created.procs)
    <2>1. created.procs \in Seq(Procs)
      BY DEF IInv, Sound, TablesTyped
    <2>. QED  BY <1>3, <2>1 DEF Ids
  <1>8. Placed(created, b, mem, Len(mem))
    <2>1. Exact(created, 0) /\ Len(Code(created, 0)) \in Nat
      BY <1>3, <1>7 DEF Ready, Exact, Complete, Walkable
    <2>2. FramesOf(created, b) = Base(created, 0) /\ Len(Base(created, 0)) = 1
      BY <1>5, WalkFacts DEF FramesOf, Base
    <2>3. RegFrames(FramesOf(created, b), 2) = {}
      BY <2>2 DEF RegFrames
    <2>. QED  BY <1>4, <1>5, <1>7, <2>1, <2>3 DEF Placed
  <1>9. Stacked(created, << b >>, mem)
    <2>1. Len(<< b >>) = 1 /\ << b >>[1] = b
      OBVIOUS
    <2>. QED  BY <1>4, <1>5, <1>8, <2>1 DEF Stacked, Limit
  <1>10. << b >> \in Seq(Calls) /\ << b >> # << >>
    BY <1>6
  <1>. QED  BY <1>2, <1>3, <1>9, <1>10 DEF EInv, ETyped, Heap, vars

LEMMA IdleStep ==
    ASSUME EInv, run = "idle", UNCHANGED evars PROVE EInv'
  <1>1. acts = << >> /\ acts' = << >> /\ run' = "idle"
    BY DEF EInv, evars
  <1>2. Stacked(created', acts', mem')
    BY <1>1 DEF Stacked
  <1>3. ETyped'
    BY DEF EInv, ETyped, evars, Heap
  <1>. QED  BY <1>1, <1>2, <1>3 DEF EInv

LEMMA InitStacked == Init /\ ExecInit => EInv
  <1> SUFFICES ASSUME ExecInit PROVE EInv
    OBVIOUS
  <1>1. PICK refs \in InitialRefs :
           /\ heap = [h \in DOMAIN refs.heap |->
                        [ref |-> refs.heap[h],
                         count |-> Cardinality({g \in DOMAIN refs.heap :
                                                  refs.heap[g] = h})
                                   + IF refs.io = h THEN 1 ELSE 0]]
           /\ mem = << [reg |-> None, ftype |-> "REGNR", ref |-> refs.io] >>
           /\ leaks = [h \in DOMAIN refs.heap |-> 0]
    BY DEF ExecInit
  <1>2. PICK H : H = DOMAIN refs.heap
    OBVIOUS
  <1>3. /\ IsFiniteSet(H) /\ Null \notin H
        /\ refs.heap \in [H -> H \cup {Null}] /\ refs.io \in H \cup {Null}
    BY <1>2, RefsAssumption
  <1>4. Heap = H
    BY <1>1, <1>2 DEF Heap
  <1>5. heap \in [H -> Variables(H)]
    <2>1. ASSUME NEW h \in H
          PROVE  [ref |-> refs.heap[h],
                  count |-> Cardinality({g \in H : refs.heap[g] = h})
                            + IF refs.io = h THEN 1 ELSE 0] \in Variables(H)
      <3>1. Cardinality({g \in H : refs.heap[g] = h}) \in Nat
        BY <1>3, CountType
      <3>2. refs.heap[h] \in H \cup {Null}
        BY <1>3
      <3>. QED  BY <3>1, <3>2 DEF Variables
    <2>. QED  BY <1>1, <1>2, <2>1
  <1>6. mem \in Seq(CellRecords(H)) /\ Len(mem) = 1
    <2>1. [reg |-> None, ftype |-> "REGNR", ref |-> refs.io] \in CellRecords(H)
      BY <1>3 DEF CellRecords, None, FrameTypes
    <2>. QED  BY <1>1, <2>1
  <1>7. leaks \in [H -> Nat]
    BY <1>1, <1>2
  <1>8. acts = << >> /\ run = "idle"
    BY DEF ExecInit
  <1>9. Stacked(created, acts, mem)
    BY <1>8 DEF Stacked
  <1>. QED  BY <1>3, <1>4, <1>5, <1>6, <1>7, <1>8, <1>9 DEF EInv, ETyped

LEMMA NextStacked ==
    IInv /\ FramesInv /\ EInv /\ [ENext]_<< vars, evars >> => EInv'
  <1> SUFFICES ASSUME IInv, FramesInv, EInv, [ENext]_<< vars, evars >> PROVE EInv'
    OBVIOUS
  <1>1. CASE run = "idle" /\ Next /\ UNCHANGED evars
    BY <1>1, IdleStep
  <1>2. CASE Start /\ UNCHANGED vars
    BY <1>2, StartStep
  <1>3. CASE Execute /\ UNCHANGED vars
    BY <1>3, ExecuteStep DEF Does
  <1>4. CASE UNCHANGED << vars, evars >>
    BY <1>4 DEF EInv, ETyped, evars, vars, Heap
  <1>. QED  BY <1>1, <1>2, <1>3, <1>4 DEF ENext

(* The invariant: of the builder, of the frames of what it has built, and  *)
(* of the stack of what runs.                                              *)
THEOREM StackInvariance == ESpec => [](IInv /\ FramesInv /\ EInv)
  <1>1. ESpec => Spec
    <2>1. [ENext]_<< vars, evars >> => [Next]_vars
      BY DEF ENext, vars
    <2>. QED  BY <2>1, PTL DEF ESpec, Spec
  <1>2. ESpec => [](IInv /\ FramesInv)
    BY <1>1, FramesInvariance, PTL
  <1>. QED  BY <1>2, InitStacked, NextStacked, PTL DEF ESpec

(* FramesOnStack: the frames the code generator has open at an instruction *)
(* have their cells on the stack when control gets there (mdata.cpp:456-   *)
(* 483, 551-565, 678-711).                                                 *)
THEOREM FramesAlwaysOnStack == ESpec => []FramesOnStack
  <1>1. EInv => FramesOnStack
    <2> SUFFICES ASSUME EInv PROVE FramesOnStack
      OBVIOUS
    <2>1. /\ acts \in Seq(Calls) /\ Len(mem) \in Nat /\ Stacked(created, acts, mem)
          /\ DOMAIN acts = 1 .. Len(acts) /\ Len(acts) \in Nat
      BY DEF EInv, ETyped
    <2>2. ASSUME NEW n \in DOMAIN acts, NEW a, a = acts[n], NEW frames, frames = Frames(a)
          PROVE  /\ a.env[None] <= a.base /\ a.base <= Len(mem)
                 /\ \A k \in RegFrames(frames, 2) :
                     /\ frames[k].at \in DOMAIN a.env
                     /\ Cell(a, frames[k]) \in a.base + 1 .. Len(mem)
                     /\ n < Len(acts) => Cell(a, frames[k]) <= acts[n + 1].base
                     /\ mem[Cell(a, frames[k])].reg = frames[k].reg
                     /\ mem[Cell(a, frames[k])].ftype = frames[k].ftype
                     /\ \A j \in RegFrames(frames, 2) :
                           j < k => Cell(a, frames[j]) < Cell(a, frames[k])
      <3>1. PICK limit : limit = Limit(acts, mem, n)
        OBVIOUS
      <3>2. Placed(created, a, mem, limit) /\ n \in 1 .. Len(acts)
        BY <2>1, <2>2, <3>1 DEF Stacked
      <3>3. limit \in Nat /\ limit <= Len(mem)
        <4>1. CASE n = Len(acts)
          BY <2>1, <3>1, <4>1 DEF Limit
        <4>2. CASE n # Len(acts)
          <5>1. n + 1 \in 1 .. Len(acts) /\ Len(acts) \in 1 .. Len(acts) /\ limit = acts[n + 1].base
            BY <2>1, <3>1, <3>2, <4>2 DEF Limit
          <5>2. Placed(created, acts[Len(acts)], mem, Len(mem))
            BY <2>1, <5>1 DEF Stacked, Limit
          <5>3. acts[n + 1].base <= acts[Len(acts)].base
            BY <2>1, <5>1 DEF Stacked
          <5>4. acts[n + 1].base \in Nat /\ acts[Len(acts)].base \in Nat
            BY <2>1, <5>1 DEF Stacked, Placed
          <5>. QED  BY <2>1, <5>1, <5>2, <5>3, <5>4 DEF Placed
        <4>. QED  BY <4>1, <4>2
      <3>4. frames = FramesOf(created, a)
        BY <2>2 DEF Frames, FramesOf
      <3>5. n < Len(acts) => limit = acts[n + 1].base
        BY <2>1, <3>1, <3>2 DEF Limit
      <3>6. /\ a.base \in Nat /\ a.base <= limit /\ a.env[None] \in 1 .. a.base
            /\ \A k \in RegFrames(frames, 2) :
                 /\ frames[k].at \in DOMAIN a.env
                 /\ Cell(a, frames[k]) \in a.base + 1 .. limit
                 /\ mem[Cell(a, frames[k])].reg = frames[k].reg
                 /\ mem[Cell(a, frames[k])].ftype = frames[k].ftype
                 /\ \A j \in RegFrames(frames, 2) :
                       j < k => Cell(a, frames[j]) < Cell(a, frames[k])
        BY <3>2, <3>4 DEF Placed
      <3>7. \A k \in RegFrames(frames, 2) :
                /\ Cell(a, frames[k]) \in a.base + 1 .. Len(mem)
                /\ Cell(a, frames[k]) <= limit
        BY <2>1, <3>3, <3>6
      <3>8. a.env[None] <= a.base /\ a.base <= Len(mem)
        BY <2>1, <3>3, <3>6
      <3>. QED  BY <3>5, <3>6, <3>7, <3>8
    <2>. QED  BY <2>2 DEF FramesOnStack
  <1>. QED  BY <1>1, StackInvariance, PTL

(* CallsKeepToTheirIO: of the variables of its callers, a call changes at  *)
(* most the one it was passed (mdata.cpp:713-717).                         *)
THEOREM CallsAlwaysKeepToTheirIO == ESpec => CallsKeepToTheirIO
  <1>1. ASSUME EInv, [ENext]_<< vars, evars >>, Len(acts) > 1, ~UNCHANGED evars,
               NEW c \in 1 .. Act.base
        PROVE  /\ c \in DOMAIN mem'
               /\ c # Cell(acts[Len(acts) - 1], Last(Frames(acts[Len(acts) - 1])))
                    => mem'[c] = mem[c]
    <2>1. acts # << >> /\ Len(acts) \in Nat /\ run # "idle"
      BY <1>1 DEF EInv, ETyped
    <2>2. Execute /\ UNCHANGED vars
      BY <1>1, <2>1 DEF ENext, Start
    <2>3. Keeps(mem')
      BY <1>1, <2>2, ExecuteStep DEF Does
    <2>4. Act.env[None] = Cell(acts[Len(acts) - 1], Last(Frames(acts[Len(acts) - 1])))
      <3>1. PICK n : n = Len(acts) - 1
        OBVIOUS
      <3>2. n \in 1 .. Len(acts) - 1 /\ n + 1 = Len(acts)
        BY <1>1, <2>1, <3>1
      <3>3. Passes(created, acts[n], acts[n + 1])
        BY <1>1, <3>2 DEF EInv, Stacked
      <3>4. Act = acts[n + 1]
        BY <1>1, <2>1, <3>2, InnermostFacts
      <3>. QED  BY <3>1, <3>3, <3>4 DEF Passes, Frames, FramesOf
    <2>. QED  BY <1>1, <2>3, <2>4 DEF Keeps
  <1>2. EInv /\ [ENext]_<< vars, evars >> =>
            [Len(acts) > 1 =>
                \A c \in 1 .. Act.base :
                   /\ c \in DOMAIN mem'
                   /\ c # Cell(acts[Len(acts) - 1], Last(Frames(acts[Len(acts) - 1])))
                        => mem'[c] = mem[c] ]_evars
    BY <1>1
  <1>. QED  BY <1>2, StackInvariance, PTL DEF ESpec, CallsKeepToTheirIO

-----------------------------------------------------------------------------
(***************************************************************************)
(* Reference counting of compiled code: until LDE or STE has written one   *)
(* reference over another, a heap variable's count is the number of        *)
(* references to it, from the frames open and from the heap, and of those  *)
(* abandoned.  It rests on what is said of the stack above: the cells of   *)
(* different frames are different, so leaving a frame takes exactly its    *)
(* cell out.                                                               *)
(***************************************************************************)

(* The cells that hold references: of a call, of the frames it opened      *)
(* itself, and of all calls.                                               *)
CellsOf(m, a) == {Cell(a, FramesOf(m, a)[k]) : k \in RegFrames(FramesOf(m, a), 1)}
OwnCells(m, a) == {Cell(a, FramesOf(m, a)[k]) : k \in RegFrames(FramesOf(m, a), 2)}
OpenIn(m, cs) == {1} \cup UNION {CellsOf(m, cs[n]) : n \in DOMAIN cs}

LEMMA OpenIs == Open = OpenIn(created, acts)
  <1>1. \A a : OpenCells(a) = CellsOf(created, a)
    BY DEF OpenCells, CellsOf, Frames, FramesOf
  <1>. QED  BY <1>1 DEF Open, OpenIn

(* The first call begins above the one cell of callProc's caller.          *)
Based ==
    /\ run = "idle" => Len(mem) = 1
    /\ acts # << >> => acts[1].base = 1
CInv == Based /\ CountsExact

-----------------------------------------------------------------------------
(* Counting.                                                               *)
LEMMA SplitCount ==
    ASSUME NEW A, IsFiniteSet(A), NEW D
    PROVE  /\ Cardinality(A) = Cardinality(A \ D) + Cardinality(A \cap D)
           /\ Cardinality(A) \in Nat /\ Cardinality(A \ D) \in Nat
           /\ Cardinality(A \cap D) \in Nat
  <1>1. IsFiniteSet(A \ D) /\ Cardinality(A \ D) = Cardinality(A) - Cardinality(A \cap D)
    BY FS_Difference
  <1>2. IsFiniteSet(A \cap D)
    BY FS_Intersection
  <1>3. /\ Cardinality(A) \in Nat /\ Cardinality(A \ D) \in Nat
        /\ Cardinality(A \cap D) \in Nat
    BY <1>1, <1>2, FS_CardinalityType
  <1>. QED  BY <1>1, <1>3

(* Two sets that may differ in one element.                                *)
LEMMA SameButOne ==
    ASSUME NEW A, IsFiniteSet(A), NEW B, IsFiniteSet(B), NEW x, A \ {x} = B \ {x}
    PROVE  /\ Cardinality(A) \in Nat /\ Cardinality(B) \in Nat
           /\ Cardinality(B) + (IF x \in A THEN 1 ELSE 0)
                = Cardinality(A) + (IF x \in B THEN 1 ELSE 0)
  <1>1. Cardinality(A) \in Nat /\ Cardinality(B) \in Nat
    BY FS_CardinalityType
  <1>2. Cardinality(A \ {x}) = IF x \in A THEN Cardinality(A) - 1 ELSE Cardinality(A)
    BY FS_RemoveElement
  <1>3. Cardinality(B \ {x}) = IF x \in B THEN Cardinality(B) - 1 ELSE Cardinality(B)
    BY FS_RemoveElement
  <1>. QED  BY <1>1, <1>2, <1>3

-----------------------------------------------------------------------------
(* The cells of the innermost call, apart from those below.                *)
LEMMA CellsSplit ==
    ASSUME NEW m, Ready(m), NEW a, NEW s, NEW limit \in Nat, Placed(m, a, s, limit)
    PROVE  /\ CellsOf(m, a) = {a.env[None]} \cup OwnCells(m, a)
           /\ OwnCells(m, a) \subseteq a.base + 1 .. limit
           /\ CellsOf(m, a) \subseteq 1 .. limit
  <1> DEFINE frames == FramesOf(m, a)
  <1>1. /\ Len(frames) \in Nat \ {0} /\ frames[1].ftype = "REGNR"
        /\ \A k \in RegFrames(frames, 1) :
              /\ Cell(a, frames[k]) \in 1 .. limit
              /\ k = 1 => Cell(a, frames[k]) = a.env[None]
              /\ k # 1 => k \in RegFrames(frames, 2)
    BY CellFacts
  <1>2. \A k \in RegFrames(frames, 2) : Cell(a, frames[k]) \in a.base + 1 .. limit
    BY DEF Placed
  <1>3. 1 \in RegFrames(frames, 1) /\ RegFrames(frames, 2) \subseteq RegFrames(frames, 1)
    BY <1>1 DEF RegFrames
  <1> HIDE DEF frames
  <1>. QED  BY <1>1, <1>2, <1>3 DEF CellsOf, OwnCells, frames

LEMMA OpenSplit ==
    ASSUME NEW m, Ready(m), NEW S, NEW cs \in Seq(S), cs # << >>, NEW s, Len(s) \in Nat,
           Stacked(m, cs, s), cs[1].base = 1, NEW a, a = Last(cs)
    PROVE  /\ OpenIn(m, cs) = OpenIn(m, Front(cs)) \cup OwnCells(m, a)
           /\ OpenIn(m, Front(cs)) \subseteq 1 .. a.base
           /\ OwnCells(m, a) \subseteq a.base + 1 .. Len(s)
           /\ a.env[None] \in OpenIn(m, Front(cs))
           /\ OpenIn(m, cs) \subseteq 1 .. Len(s)
  <1> DEFINE size == Len(cs)
             rest == Front(cs)
  <1>1. /\ a = cs[size] /\ size \in Nat \ {0} /\ rest \in Seq(S) /\ Len(rest) = size - 1
        /\ \A n \in 1 .. size - 1 : rest[n] = cs[n]
    <2>1. cs[1] \in S
      OBVIOUS
    <2>. QED  BY <2>1, LastFacts
  <1>2. DOMAIN cs = 1 .. size /\ DOMAIN rest = 1 .. size - 1
    BY <1>1
  <1> HIDE DEF size, rest
  <1>3. \A n \in 1 .. size : Placed(m, cs[n], s, Limit(cs, s, n)) /\ cs[n].base \in Nat
    BY DEF Stacked, size, Placed
  <1>4. Placed(m, a, s, Len(s)) /\ a.base <= Len(s) /\ a.env[None] \in 1 .. a.base /\ a.base \in Nat
    <2>1. size \in 1 .. size /\ Limit(cs, s, size) = Len(s)
      BY <1>1 DEF Limit, size
    <2>2. Placed(m, a, s, Len(s))
      BY <1>1, <1>3, <2>1
    <2>. QED  BY <2>2 DEF Placed
  <1>5. /\ CellsOf(m, a) = {a.env[None]} \cup OwnCells(m, a)
        /\ OwnCells(m, a) \subseteq a.base + 1 .. Len(s)
    BY <1>4, CellsSplit
  <1>6. ASSUME NEW n \in 1 .. size - 1
        PROVE  CellsOf(m, cs[n]) \subseteq 1 .. a.base
    <2>1. n \in 1 .. size /\ n + 1 \in 1 .. size /\ size \in 1 .. size /\ n # size
      BY <1>1
    <2>2. PICK end \in Nat : end = cs[n + 1].base
      BY <1>3, <2>1
    <2>3. Placed(m, cs[n], s, end)
      BY <1>3, <2>1, <2>2 DEF Limit, size
    <2>4. CellsOf(m, cs[n]) \subseteq 1 .. end
      BY <2>3, CellsSplit
    <2>5. end <= a.base
      <3>1. cs[n + 1].base <= cs[size].base
        BY <1>1, <2>1 DEF Stacked, size
      <3>. QED  BY <1>1, <2>2, <3>1
    <2>. QED  BY <1>4, <2>2, <2>4, <2>5
  <1>7. OpenIn(m, rest) \subseteq 1 .. a.base
    <2>1. 1 \in 1 .. a.base
      BY <1>4
    <2>. QED  BY <1>1, <1>2, <1>6, <2>1 DEF OpenIn
  <1>8. OpenIn(m, cs) = OpenIn(m, rest) \cup CellsOf(m, a)
    <2>1. 1 .. size = (1 .. size - 1) \cup {size}
      BY <1>1
    <2>2. UNION {CellsOf(m, cs[n]) : n \in 1 .. size}
            = (UNION {CellsOf(m, cs[n]) : n \in 1 .. size - 1}) \cup CellsOf(m, cs[size])
      BY <2>1
    <2>3. {CellsOf(m, cs[n]) : n \in 1 .. size - 1} = {CellsOf(m, rest[n]) : n \in 1 .. size - 1}
      BY <1>1
    <2>. QED  BY <1>1, <1>2, <2>2, <2>3 DEF OpenIn
  <1>9. a.env[None] \in OpenIn(m, rest)
    <2>1. CASE size = 1
      BY <1>1, <1>4, <2>1 DEF OpenIn
    <2>2. CASE size # 1
      <3>1. PICK n : n = size - 1
        OBVIOUS
      <3>2. n \in 1 .. size - 1 /\ n \in 1 .. size /\ n + 1 = size
        BY <1>1, <2>2, <3>1
      <3>3. PICK c : c = cs[n]
        OBVIOUS
      <3>4. Passes(m, c, a)
        BY <1>1, <3>2, <3>3 DEF Stacked, size
      <3>5. PICK end \in Nat : Placed(m, c, s, end)
        <4>1. n + 1 \in 1 .. size /\ n # size
          BY <1>1, <3>2
        <4>. QED  BY <1>3, <3>2, <3>3, <4>1 DEF Limit, size
      <3>6. PICK frames : frames = FramesOf(m, c)
        OBVIOUS
      <3>7. Len(frames) \in Nat \ {0}
        BY <3>5, <3>6, CellFacts
      <3>8. Last(frames).ftype = "REGNR" /\ Last(frames) = frames[Len(frames)]
        <4>1. AllFound(m, c.proc)
          BY <3>5 DEF Ready, Exact, Complete, Placed
        <4>. QED  BY <3>4, <3>6, <4>1 DEF AllFound, Found, FramesOf, Passes, Last
      <3>9. a.env[None] \in CellsOf(m, c)
        <4>1. Len(frames) \in RegFrames(frames, 1)
          BY <3>7, <3>8 DEF RegFrames
        <4>. QED  BY <3>4, <3>6, <3>8, <4>1 DEF Passes, CellsOf
      <3>. QED  BY <1>1, <1>2, <3>2, <3>3, <3>9 DEF OpenIn
    <2>. QED  BY <2>1, <2>2
  <1>10. OpenIn(m, cs) = OpenIn(m, rest) \cup OwnCells(m, a)
    BY <1>5, <1>8, <1>9
  <1>11. OpenIn(m, cs) \subseteq 1 .. Len(s)
    BY <1>4, <1>5, <1>7, <1>10
  <1>. QED  BY <1>5, <1>7, <1>9, <1>10, <1>11 DEF rest

-----------------------------------------------------------------------------
(* A call cut back to its first n frames loses the cells of the others.    *)
CutCells(m, a, n) == {Cell(a, FramesOf(m, a)[k]) : k \in RegFrames(FramesOf(m, a), n + 1)}

LEMMA OwnCut ==
    ASSUME NEW m, Ready(m), NEW a, NEW s, NEW limit \in Nat, Placed(m, a, s, limit),
           NEW frames, frames = FramesOf(m, a), NEW n \in 1 .. Len(frames),
           NEW b, b.env = a.env, FramesOf(m, b) = SubSeq(frames, 1, n)
    PROVE  /\ CutCells(m, a, n) \subseteq OwnCells(m, a)
           /\ OwnCells(m, b) = OwnCells(m, a) \ CutCells(m, a, n)
  <1> DEFINE cut == FramesOf(m, b)
  <1>0. PICK D : D = CutCells(m, a, n)
    OBVIOUS
  <1>1. frames \in Seq(GenFrames) /\ Len(frames) \in Nat \ {0} /\ n \in 0 .. Len(frames)
    BY CellFacts
  <1>2. Len(cut) = n /\ \A k \in 1 .. n : cut[k] = frames[k]
    BY <1>1, CutFacts
  <1>3. \A f : Cell(b, f) = Cell(a, f)
    BY DEF Cell
  <1>4. /\ \A k \in RegFrames(cut, 2) : k \in RegFrames(frames, 2) /\ cut[k] = frames[k] /\ k <= n
        /\ \A k \in RegFrames(frames, 2) : k <= n => k \in RegFrames(cut, 2) /\ cut[k] = frames[k]
        /\ \A k \in RegFrames(frames, n + 1) : k \in RegFrames(frames, 2) /\ n < k
        /\ \A k \in RegFrames(frames, 2) : ~(k <= n) => k \in RegFrames(frames, n + 1)
    BY <1>1, <1>2 DEF RegFrames
  <1> HIDE DEF cut
  <1>5. ASSUME NEW j \in RegFrames(frames, 2), NEW k \in RegFrames(frames, n + 1), j <= n
        PROVE  Cell(a, frames[j]) # Cell(a, frames[k])
    <2>1. k \in RegFrames(frames, 2) /\ j < k
      BY <1>1, <1>4, <1>5 DEF RegFrames
    <2>2. /\ Cell(a, frames[j]) \in Int
          /\ Cell(a, frames[j]) < Cell(a, frames[k])
      BY <2>1 DEF Placed
    <2>. QED  BY <2>2
  <1>6. D \subseteq OwnCells(m, a)
    BY <1>0, <1>4 DEF OwnCells, CutCells
  <1>7. OwnCells(m, b) \subseteq OwnCells(m, a) \ D
    <2> SUFFICES ASSUME NEW j \in RegFrames(cut, 2)
                 PROVE  Cell(b, cut[j]) \in OwnCells(m, a) \ D
      BY DEF OwnCells, cut
    <2>1. j \in RegFrames(frames, 2) /\ cut[j] = frames[j] /\ j <= n
      BY <1>4
    <2>. QED  BY <1>0, <1>3, <1>5, <2>1 DEF OwnCells, CutCells
  <1>8. OwnCells(m, a) \ D \subseteq OwnCells(m, b)
    <2> SUFFICES ASSUME NEW j \in RegFrames(frames, 2), Cell(a, frames[j]) \notin D
                 PROVE  Cell(a, frames[j]) \in OwnCells(m, b)
      BY DEF OwnCells
    <2>1. j <= n
      BY <1>0, <1>4 DEF CutCells
    <2>. QED  BY <1>3, <1>4, <2>1 DEF OwnCells, cut
  <1>. QED  BY <1>0, <1>6, <1>7, <1>8

(* The open cells of a state, and of the state a step of the innermost     *)
(* call leads to.                                                          *)
LEMMA OpenFacts ==
    ASSUME EInv, Based, acts # << >>
    PROVE  /\ Open = OpenIn(created, Front(acts)) \cup OwnCells(created, Act)
           /\ OpenIn(created, Front(acts)) \subseteq 1 .. Act.base
           /\ OwnCells(created, Act) \subseteq Act.base + 1 .. Len(mem)
           /\ OpenIn(created, Front(acts)) \cap OwnCells(created, Act) = {}
           /\ Act.env[None] \in OpenIn(created, Front(acts))
           /\ Open \subseteq 1 .. Len(mem) /\ IsFiniteSet(Open)
           /\ CellsOf(created, Act) \subseteq Open
  <1>1. /\ Ready(created) /\ acts \in Seq(Calls) /\ Len(mem) \in Nat
        /\ Stacked(created, acts, mem) /\ acts[1].base = 1 /\ Act.base \in Nat
        /\ Placed(created, Act, mem, Len(mem))
    BY InnermostFacts DEF EInv, ETyped, Based
  <1>2. /\ OpenIn(created, acts) = OpenIn(created, Front(acts)) \cup OwnCells(created, Act)
        /\ OpenIn(created, Front(acts)) \subseteq 1 .. Act.base
        /\ OwnCells(created, Act) \subseteq Act.base + 1 .. Len(mem)
        /\ Act.env[None] \in OpenIn(created, Front(acts))
        /\ OpenIn(created, acts) \subseteq 1 .. Len(mem)
    BY <1>1, OpenSplit DEF Act
  <1>3. IsFiniteSet(1 .. Len(mem))
    BY <1>1, FS_Interval
  <1>4. OpenIn(created, Front(acts)) \cap OwnCells(created, Act) = {}
    BY <1>1, <1>2
  <1>5. CellsOf(created, Act) = {Act.env[None]} \cup OwnCells(created, Act)
    BY <1>1, CellsSplit
  <1>. QED  BY <1>2, <1>3, <1>4, <1>5, OpenIs, FS_Subset

LEMMA OpenIsNext == Open' = OpenIn(created', acts')
  <1>1. \A n : OpenCells(acts[n])' = CellsOf(created', acts'[n])
    BY DEF OpenCells, CellsOf, Frames, FramesOf
  <1>. QED  BY <1>1 DEF Open, OpenIn

LEMMA OpenGone ==
    ASSUME EInv, EInv', Based', acts # << >>, UNCHANGED created, NEW b \in Calls,
           acts' = Append(Front(acts), b)
    PROVE  /\ Open' = OpenIn(created, Front(acts)) \cup OwnCells(created, b)
           /\ Open' \subseteq 1 .. Len(mem')
  <1>1. /\ Ready(created) /\ acts \in Seq(Calls) /\ acts' \in Seq(Calls)
        /\ Stacked(created, acts', mem') /\ Len(mem') \in Nat
    BY InnermostFacts DEF EInv, ETyped
  <1>2. PICK cs : cs = acts'
    OBVIOUS
  <1>3. PICK t : t = mem'
    OBVIOUS
  <1>4. PICK rest : rest = Front(cs)
    OBVIOUS
  <1>5. /\ Front(acts) \in Seq(Calls) /\ Len(acts) \in Nat \ {0}
        /\ Len(Front(acts)) = Len(acts) - 1
        /\ cs \in Seq(Calls) /\ Len(cs) = Len(acts) /\ cs[Len(acts)] = b
        /\ \A n \in 1 .. Len(acts) - 1 : cs[n] = Front(acts)[n]
    <2>1. PICK as1 : as1 = acts
      OBVIOUS
    <2>2. as1 \in Seq(Calls) /\ as1 # << >> /\ cs = Append(Front(as1), b)
      BY <1>1, <1>2, <2>1
    <2>3. /\ Front(as1) \in Seq(Calls) /\ Len(as1) \in Nat \ {0}
          /\ Len(Front(as1)) = Len(as1) - 1
          /\ \A n \in 1 .. Len(as1) - 1 : Front(as1)[n] = as1[n]
      BY ONLY <2>2, b \in Calls, LastFacts
    <2>4. /\ cs \in Seq(Calls) /\ Len(cs) = Len(as1) /\ cs[Len(as1)] = b
          /\ \A n \in 1 .. Len(as1) - 1 : cs[n] = as1[n]
      BY ONLY <2>2, b \in Calls, LastFacts
    <2>. QED  BY <2>1, <2>3, <2>4
  <1>6. cs # << >>
    BY <1>5
  <1>7. /\ rest \in Seq(Calls) /\ Len(rest) = Len(acts) - 1 /\ Last(cs) = b
        /\ \A n \in 1 .. Len(acts) - 1 : rest[n] = cs[n]
    BY <1>4, <1>5, <1>6, LastFacts
  <1>8. rest = Front(acts)
    <2>1. \A n \in 1 .. Len(rest) : rest[n] = Front(acts)[n]
      BY <1>5, <1>7
    <2>. QED  BY <1>5, <1>7, <2>1, SeqEqual
  <1>9. cs[1].base = 1
    BY <1>2, <1>6 DEF Based
  <1>10. /\ Stacked(created, cs, t) /\ Len(t) \in Nat
    BY <1>1, <1>2, <1>3
  <1>11. /\ OpenIn(created, cs) = OpenIn(created, rest) \cup OwnCells(created, b)
         /\ OpenIn(created, cs) \subseteq 1 .. Len(t)
    BY <1>1, <1>4, <1>5, <1>6, <1>7, <1>9, <1>10, OpenSplit
  <1>12. Open' = OpenIn(created, cs)
    BY <1>2, OpenIsNext
  <1>. QED  BY <1>3, <1>8, <1>11, <1>12

-----------------------------------------------------------------------------
(* What a step leaves open.                                                *)
LEMMA CellsSame ==
    ASSUME NEW m, NEW a, NEW b, b.env = a.env, FramesOf(m, b) = FramesOf(m, a)
    PROVE  CellsOf(m, b) = CellsOf(m, a) /\ OwnCells(m, b) = OwnCells(m, a)
  BY DEF CellsOf, OwnCells, Cell

LEMMA BasedOn ==
    ASSUME EInv, Based, acts # << >>, NEW b \in Calls, b.base = Act.base,
           acts' = Append(Front(acts), b), run' # "idle"
    PROVE  Based'
  <1>1. PICK as1 : as1 = acts
    OBVIOUS
  <1>2. as1 \in Seq(Calls) /\ as1 # << >>
    BY <1>1 DEF EInv, ETyped
  <1>3. PICK cs : cs = Append(Front(as1), b)
    OBVIOUS
  <1>4. /\ Last(as1) = as1[Len(as1)] /\ Len(as1) \in Nat \ {0}
        /\ cs[Len(as1)] = b /\ \A n \in 1 .. Len(as1) - 1 : cs[n] = as1[n]
    BY <1>2, <1>3, LastFacts
  <1>5. as1[1].base = 1 /\ b.base = Last(as1).base
    BY <1>1, <1>2 DEF Based, Act
  <1>6. cs[1].base = 1
    <2>1. CASE Len(as1) = 1
      BY <1>4, <1>5, <2>1
    <2>2. CASE Len(as1) # 1
      <3>1. PICK size \in Nat \ {0} : size = Len(as1)
        BY <1>4
      <3>2. 1 \in 1 .. size - 1
        BY <2>2, <3>1
      <3>. QED  BY <1>4, <1>5, <3>1, <3>2
    <2>. QED  BY <2>1, <2>2
  <1>7. acts' = cs
    BY <1>1, <1>3
  <1>. QED  BY <1>6, <1>7 DEF Based

(* The innermost call is left: its own cells go.                           *)
LEMMA OpenLeft ==
    ASSUME EInv, Based, acts # << >>, UNCHANGED created,
           NEW how \in {"running", "unwinding"}, Leave(how)
    PROVE  /\ Based'
           /\ Open' = Open \ OwnCells(created, Act)
           /\ OwnCells(created, Act) \subseteq Open
           /\ \A c \in Open' : mem'[c] = mem[c]
  <1>1. PICK a : a = Act
    OBVIOUS
  <1>2. PICK as1 : as1 = acts
    OBVIOUS
  <1>3. PICK rest : rest = Front(as1)
    OBVIOUS
  <1>4. /\ Open = OpenIn(created, rest) \cup OwnCells(created, a)
        /\ OpenIn(created, rest) \subseteq 1 .. a.base
        /\ OpenIn(created, rest) \cap OwnCells(created, a) = {}
    BY <1>1, <1>2, <1>3, OpenFacts
  <1>5. /\ as1 \in Seq(Calls) /\ as1 # << >> /\ Stacked(created, as1, mem)
        /\ mem \in Seq(CellRecords(Heap)) /\ a = Last(as1) /\ Ready(created)
        /\ as1[1].base = 1 /\ a \in Calls
    BY <1>1, <1>2, InnermostFacts DEF EInv, ETyped, Act, Based
  <1>6. /\ rest \in Seq(Calls) /\ Len(rest) = Len(as1) - 1 /\ Len(as1) \in Nat \ {0}
        /\ \A n \in 1 .. Len(as1) - 1 : rest[n] = as1[n]
    BY <1>3, <1>5, LastFacts
  <1>7. PICK t : t = mem'
    OBVIOUS
  <1>8. t = SubSeq(mem, 1, Last(as1).base)
    BY <1>1, <1>5, <1>7 DEF Leave
  <1>9. Len(t) = a.base /\ \A c \in 1 .. Len(t) : t[c] = mem[c]
    <2>1. a.base \in 0 .. Len(mem)
      BY <1>1, InnermostFacts
    <2>. QED  BY <1>5, <1>8, <2>1, CutFacts
  <1>10. rest # << >> => rest[1] = as1[1] /\ Len(rest) \in Nat \ {0}
    <2>1. rest # << >> => Len(rest) # 0
      BY <1>6
    <2>2. Len(rest) # 0 => 1 \in 1 .. Len(as1) - 1
      BY <1>6
    <2>. QED  BY <1>6, <2>1, <2>2
  <1>11. run' # "idle"
    <2>1. run' \in {how, "returned", "thrown"}
      BY DEF Leave
    <2>. QED  BY <2>1
  <1>12. PICK cs : cs = acts'
    OBVIOUS
  <1>13. /\ DOMAIN cs = DOMAIN rest
         /\ \A n \in DOMAIN rest : CellsOf(created, cs[n]) = CellsOf(created, rest[n])
         /\ cs # << >> => rest # << >> /\ cs[1].base = rest[1].base
    <2>1. CASE how = "unwinding" \/ rest = << >>
      <3>1. cs = rest
        BY <1>2, <1>3, <1>12, <2>1 DEF Leave
      <3>. QED  BY <3>1
    <2>2. CASE how = "running" /\ rest # << >>
      <3>1. PICK size : size = Len(rest)
        OBVIOUS
      <3>2. size \in 1 .. Len(as1) - 1 /\ size + 1 = Len(as1) /\ DOMAIN rest = 1 .. size
        BY <1>6, <1>10, <2>2, <3>1
      <3>3. PICK c : c = rest[size]
        OBVIOUS
      <3>4. c \in Calls
        BY <1>6, <3>1, <3>2, <3>3
      <3>5. PICK b : b = [c EXCEPT !.pc = @ + 1]
        OBVIOUS
      <3>6. cs = [rest EXCEPT ![size] = b]
        BY <1>2, <1>3, <1>12, <2>2, <3>1, <3>3, <3>5 DEF Leave
      <3>7. b.proc = c.proc /\ b.pc = c.pc + 1 /\ b.env = c.env /\ b.base = c.base
        BY <3>4, <3>5 DEF Calls
      <3>8. FramesOf(created, b) = FramesOf(created, c)
        <4>1. Passes(created, as1[size], as1[size + 1]) /\ c = as1[size]
          BY <1>5, <1>6, <3>2, <3>3 DEF Stacked
        <4>2. c.pc \in CodeIds(created, c.proc) /\ InstrAt(created, c.proc, c.pc).op = "CALL"
          BY <4>1 DEF Passes
        <4>3. c.proc \in Ids(created.procs)
          <5>1. size \in 1 .. Len(as1)
            BY <1>6, <3>2
          <5>. QED  BY <1>5, <4>1, <5>1 DEF Stacked, Placed
        <4>4. Exact(created, c.proc)
          BY <1>5, <4>3 DEF Ready
        <4>. QED  BY <3>7, <4>2, <4>4, NextFramesAt DEF Pushes, FramesOf
      <3>9. CellsOf(created, b) = CellsOf(created, c)
        BY <3>7, <3>8, CellsSame
      <3>10. \A n \in DOMAIN rest : cs[n] = IF n = size THEN b ELSE rest[n]
        BY <3>6
      <3>11. DOMAIN cs = DOMAIN rest
        BY <3>6
      <3>12. 1 \in DOMAIN rest
        BY <1>10, <2>2, <3>1, <3>2
      <3>13. cs[1].base = rest[1].base
        BY <3>3, <3>7, <3>10, <3>12
      <3>. QED  BY <2>2, <3>3, <3>9, <3>10, <3>11, <3>13
    <2>. QED  BY <2>1, <2>2
  <1>14. Open' = OpenIn(created, rest)
    <2>1. {CellsOf(created, cs[n]) : n \in DOMAIN cs} = {CellsOf(created, rest[n]) : n \in DOMAIN rest}
      BY <1>13
    <2>2. OpenIn(created, cs) = OpenIn(created, rest)
      BY <2>1 DEF OpenIn
    <2>. QED  BY <1>12, <2>2, OpenIsNext
  <1>15. Based'
    BY <1>5, <1>10, <1>11, <1>12, <1>13 DEF Based
  <1>16. \A c \in Open' : t[c] = mem[c]
    BY <1>4, <1>9, <1>14
  <1>. QED  BY <1>1, <1>4, <1>7, <1>14, <1>15, <1>16

-----------------------------------------------------------------------------
(* What a step does to the counts.                                         *)
LEMMA CountedFacts ==
    ASSUME NEW hp \in Heaps, NEW x, NEW d \in Int, Null \notin Heap, NEW h \in Heap
    PROVE  /\ Counted(hp, x, d)[h].ref = hp[h].ref
           /\ Counted(hp, x, d)[h].count = hp[h].count + (IF h = x THEN d ELSE 0)
           /\ hp[h].count \in Int
  <1>1. hp[h] \in Variables(Heap)
    BY DEF Heaps
  <1>2. hp[h].count \in Int
    BY <1>1 DEF Variables
  <1>3. CASE h # x
    BY <1>1, <1>2, <1>3 DEF Counted, Heaps
  <1>4. CASE h = x
    <2>1. Counted(hp, x, d) = [hp EXCEPT ![h].count = @ + d]
      BY <1>4 DEF Counted
    <2>2. Counted(hp, x, d)[h] = [hp[h] EXCEPT !.count = @ + d]
      BY <2>1 DEF Heaps
    <2>3. [hp[h] EXCEPT !.count = @ + d].ref = hp[h].ref
      BY <1>1 DEF Variables
    <2>4. [hp[h] EXCEPT !.count = @ + d].count = hp[h].count + d
      BY <1>1 DEF Variables
    <2>. QED  BY <1>2, <1>4, <2>2, <2>3, <2>4
  <1>. QED  BY <1>3, <1>4

LEMMA ReleasedFacts ==
    ASSUME heap \in Heaps, NEW cells, NEW h \in Heap
    PROVE  /\ Released(heap, cells)[h].ref = heap[h].ref
           /\ Released(heap, cells)[h].count
                = heap[h].count - Cardinality({c \in cells : mem[c].ref = h})
  <1>1. heap[h] \in Variables(Heap)
    BY DEF Heaps
  <1>2. Released(heap, cells)[h]
            = [heap[h] EXCEPT !.count = @ - Cardinality({c \in cells : mem[c].ref = h})]
    BY DEF Released, Heap
  <1>. QED  BY <1>1, <1>2 DEF Variables

(* A step that takes the cells D out, and stores no other reference.       *)
LEMMA StillExact ==
    ASSUME EInv, EInv', CountsExact, Heap' = Heap, copied' = copied,
           IsFiniteSet(Open), NEW D \in SUBSET Open,
           \A h \in Heap : heap'[h].ref = heap[h].ref,
           \A h \in Heap : {c \in Open' : mem'[c].ref = h} = {c \in Open \ D : mem[c].ref = h},
           \A h \in Heap : heap'[h].count - leaks'[h] = heap[h].count - leaks[h]
                               - Cardinality({c \in D : mem[c].ref = h})
    PROVE  CountsExact'
  <1> SUFFICES ASSUME ~copied', NEW h \in Heap'
               PROVE  heap'[h].count = (HeldBy(h) + leaks[h])'
    BY DEF CountsExact
  <1>1. h \in Heap /\ ~copied
    OBVIOUS
  <1>2. /\ heap[h].count \in Int /\ leaks[h] \in Nat
        /\ heap'[h].count \in Int /\ leaks'[h] \in Nat
    BY <1>1 DEF EInv, ETyped, Variables
  <1> DEFINE A == {c \in Open : mem[c].ref = h}
             B == {c \in Open' : mem'[c].ref = h}
             G == {g \in Heap : heap[g].ref = h}
             X == {c \in D : mem[c].ref = h}
  <1>3. heap[h].count = Cardinality(A) + Cardinality(G) + leaks[h]
    BY <1>1 DEF CountsExact, HeldBy
  <1>4. {g \in Heap' : heap'[g].ref = h} = G
    OBVIOUS
  <1>5. B = A \ X /\ X = A \cap D /\ A \ X = A \ D
    <2>1. B = {c \in Open \ D : mem[c].ref = h}
      BY <1>1
    <2>2. {c \in Open \ D : mem[c].ref = h} = A \ X
      OBVIOUS
    <2>. QED  BY <2>1, <2>2
  <1>6. IsFiniteSet(A)
    BY FS_Subset
  <1>7. Cardinality(G) \in Nat
    <2>1. IsFiniteSet(G)
      BY FS_Subset DEF EInv, ETyped
    <2>. QED  BY <2>1, FS_CardinalityType
  <1>8. /\ Cardinality(A) = Cardinality(B) + Cardinality(X)
        /\ Cardinality(A) \in Nat /\ Cardinality(B) \in Nat /\ Cardinality(X) \in Nat
    <2>1. /\ Cardinality(A) = Cardinality(A \ D) + Cardinality(A \cap D)
          /\ Cardinality(A) \in Nat /\ Cardinality(A \ D) \in Nat
          /\ Cardinality(A \cap D) \in Nat
      BY ONLY <1>6, SplitCount
    <2>2. B = A \ D /\ X = A \cap D
      BY <1>5
    <2>. QED  BY ONLY <2>1, <2>2
  <1>9. heap'[h].count - leaks'[h] = heap[h].count - leaks[h] - Cardinality(X)
    BY <1>1
  <1>10. (HeldBy(h) + leaks[h])' = Cardinality(B) + Cardinality(G) + leaks'[h]
    BY <1>4 DEF HeldBy
  <1> HIDE DEF A, B, G, X
  <1>. QED  BY <1>2, <1>3, <1>7, <1>8, <1>9, <1>10

(* A step that stores a reference: it retains the new one, releases the    *)
(* old.                                                                    *)
LEMMA WriteExact ==
    ASSUME EInv, EInv', CountsExact, Heap' = Heap, copied' = copied, leaks' = leaks,
           IsFiniteSet(Open), Open' = Open, Open \subseteq 1 .. Len(mem),
           NEW v, AVariable(v), ~IsNull(v), ~v.inHeap => v.at \in Open,
           NEW new, NEW old, old = RefIn(v),
           NEW hp, hp = Counted(Counted(heap, new, 1), old, -1), Write(hp, v, new)
    PROVE  CountsExact'
  <1> SUFFICES ASSUME ~copied', NEW h \in Heap'
               PROVE  heap'[h].count = (HeldBy(h) + leaks[h])'
    BY DEF CountsExact
  <1>1. h \in Heap /\ ~copied
    OBVIOUS
  <1>2. /\ heap \in Heaps /\ Null \notin Heap /\ IsFiniteSet(Heap)
        /\ leaks[h] \in Nat /\ mem \in Seq(CellRecords(Heap)) /\ Len(mem) \in Nat
    BY <1>1 DEF EInv, ETyped, Heaps
  <1>3. /\ heap \in Heaps /\ hp \in [Heap -> Variables(Heap)]
        /\ \A g \in Heap : hp[g].ref = heap[g].ref
        /\ hp[h].count = heap[h].count + (IF h = new THEN 1 ELSE 0) - (IF h = old THEN 1 ELSE 0)
        /\ heap[h].count \in Int
    <2> DEFINE mid == Counted(heap, new, 1)
    <2>1. mid \in Heaps
      <3>1. CASE new \in Heap \cup {Null}
        BY <1>2, <3>1, CountedType
      <3>2. CASE new \notin Heap \cup {Null}
        BY <1>2, <3>2 DEF Counted, Heaps
      <3>. QED  BY <3>1, <3>2
    <2>2. /\ \A g \in Heap : mid[g].ref = heap[g].ref
          /\ mid[h].count = heap[h].count + (IF h = new THEN 1 ELSE 0)
          /\ heap[h].count \in Int /\ mid[h].count \in Int
      <3>1. \A g \in Heap : /\ mid[g].ref = heap[g].ref
                            /\ mid[g].count = heap[g].count + (IF g = new THEN 1 ELSE 0)
                            /\ heap[g].count \in Int
        BY <1>2, CountedFacts
      <3>. QED  BY <1>1, <3>1
    <2> HIDE DEF mid
    <2>3. /\ \A g \in Heap : hp[g].ref = mid[g].ref
          /\ hp[h].count = mid[h].count + (IF h = old THEN -1 ELSE 0)
      <3>1. hp = Counted(mid, old, -1) /\ -1 \in Int
        BY DEF mid
      <3>2. \A g \in Heap : /\ Counted(mid, old, -1)[g].ref = mid[g].ref
                            /\ Counted(mid, old, -1)[g].count = mid[g].count + (IF g = old THEN -1 ELSE 0)
        BY <1>2, <2>1, <3>1, CountedFacts
      <3>. QED  BY <1>1, <3>1, <3>2
    <2>4. hp \in [Heap -> Variables(Heap)]
      <3>1. CASE old \in Heap \cup {Null}
        <4>1. hp = Counted(mid, old, -1) /\ -1 \in Int
          BY DEF mid
        <4>2. hp \in Heaps
          BY ONLY <2>1, <3>1, <4>1, CountedType
        <4>. QED  BY <4>2 DEF Heaps
      <3>2. CASE old \notin Heap \cup {Null}
        <4>1. hp = [mid EXCEPT ![old].count = @ + -1]
          BY <3>2 DEF Counted, mid
        <4>2. hp = mid
          BY <2>1, <3>2, <4>1 DEF Heaps
        <4>. QED  BY <2>1, <4>2 DEF Heaps
      <3>. QED  BY <3>1, <3>2
    <2>. QED  BY <1>2, <2>2, <2>3, <2>4
  <1> DEFINE A == {c \in Open : mem[c].ref = h}
             B == {c \in Open : mem'[c].ref = h}
             G == {g \in Heap : heap[g].ref = h}
             K == {g \in Heap : heap'[g].ref = h}
  <1>4. heap[h].count = Cardinality(A) + Cardinality(G) + leaks[h]
    BY <1>1 DEF CountsExact, HeldBy
  <1>5. (HeldBy(h) + leaks[h])' = Cardinality(B) + Cardinality(K) + leaks[h]
    BY DEF HeldBy
  <1>6. IsFiniteSet(A) /\ IsFiniteSet(B) /\ IsFiniteSet(G) /\ IsFiniteSet(K)
    BY <1>2, FS_Subset
  <1>7. /\ Cardinality(A) \in Nat /\ Cardinality(B) \in Nat
        /\ Cardinality(G) \in Nat /\ Cardinality(K) \in Nat
    BY <1>6, FS_CardinalityType
  <1> DEFINE up == IF h = new THEN 1 ELSE 0
             down == IF h = old THEN 1 ELSE 0
  <1>8. /\ up \in Nat /\ down \in Nat /\ hp[h].count = heap[h].count + up - down
         /\ heap[h].count \in Int /\ leaks[h] \in Nat
    BY <1>2, <1>3
  <1>9. CASE ~v.inHeap
    <2>1. v.at \in Open /\ v.at \in 1 .. Len(mem) /\ old = mem[v.at].ref
      BY <1>9 DEF RefIn
    <2>2. heap' = hp /\ mem' = [mem EXCEPT ![v.at].ref = new]
      BY <1>9 DEF Write
    <2>3. mem[v.at] \in CellRecords(Heap)
      BY <1>2, <2>1
    <2>4. mem'[v.at].ref = new /\ \A c \in 1 .. Len(mem) : c # v.at => mem'[c] = mem[c]
      BY <1>2, <2>1, <2>2, <2>3 DEF CellRecords
    <2>5. A \ {v.at} = B \ {v.at} /\ (v.at \in A <=> old = h) /\ (v.at \in B <=> new = h)
      BY <2>1, <2>4
    <2>6. K = G /\ heap'[h].count = hp[h].count
      BY <1>3, <2>2
    <2> HIDE DEF A, B, G, K
    <2>7. Cardinality(B) + (IF v.at \in A THEN 1 ELSE 0) = Cardinality(A) + (IF v.at \in B THEN 1 ELSE 0)
      BY <1>6, <2>5, SameButOne
    <2>9. (IF v.at \in A THEN 1 ELSE 0) = down /\ (IF v.at \in B THEN 1 ELSE 0) = up
      BY <2>5
    <2>10. Cardinality(B) + down = Cardinality(A) + up
      BY <2>7, <2>9
    <2> HIDE DEF up, down
    <2>. QED  BY ONLY <1>4, <1>5, <1>7, <1>8, <2>6, <2>10
  <1>10. CASE v.inHeap
    <2>1. v.at \in Heap /\ old = heap[v.at].ref
      BY <1>10 DEF RefIn, AVariable, IsNull
    <2>2. heap' = [hp EXCEPT ![v.at].ref = new] /\ mem' = mem
      BY <1>10 DEF Write
    <2>3. hp[v.at] \in Variables(Heap)
      BY <1>3, <2>1
    <2>4. heap'[v.at].ref = new /\ heap'[v.at].count = hp[v.at].count
      BY <1>3, <2>1, <2>2, <2>3 DEF Variables
    <2>5. \A g \in Heap : g # v.at => heap'[g] = hp[g]
      BY <1>3, <2>2
    <2>6. G \ {v.at} = K \ {v.at} /\ (v.at \in G <=> old = h) /\ (v.at \in K <=> new = h)
      BY <1>3, <2>1, <2>4, <2>5
    <2>7. B = A /\ heap'[h].count = hp[h].count
      BY <1>1, <2>2, <2>4, <2>5
    <2> HIDE DEF A, B, G, K
    <2>8. Cardinality(K) + (IF v.at \in G THEN 1 ELSE 0) = Cardinality(G) + (IF v.at \in K THEN 1 ELSE 0)
      BY <1>6, <2>6, SameButOne
    <2>9. (IF v.at \in G THEN 1 ELSE 0) = down /\ (IF v.at \in K THEN 1 ELSE 0) = up
      BY <2>6
    <2>10. Cardinality(K) + down = Cardinality(G) + up
      BY <2>8, <2>9
    <2> HIDE DEF up, down
    <2>. QED  BY ONLY <1>4, <1>5, <1>7, <1>8, <2>7, <2>10
  <1>. QED  BY <1>9, <1>10

(* The innermost call goes on, with some of its own cells gone.            *)
LEMMA OpenMoved ==
    ASSUME EInv, EInv', Based, acts # << >>, UNCHANGED created,
           NEW b \in Calls, b.base = Act.base, acts' = Append(Front(acts), b),
           NEW D \in SUBSET OwnCells(created, Act),
           OwnCells(created, b) = OwnCells(created, Act) \ D
    PROVE  /\ Based' /\ Open' = Open \ D /\ D \subseteq Open
           /\ Open' \subseteq 1 .. Len(mem')
  <1>1. run' # "idle"
    <2>1. PICK as1 : as1 = acts
      OBVIOUS
    <2>2. PICK cs : cs = Append(Front(as1), b)
      OBVIOUS
    <2>3. as1 \in Seq(Calls) /\ as1 # << >>
      BY <2>1 DEF EInv, ETyped
    <2>4. Len(cs) = Len(as1) /\ Len(as1) \in Nat \ {0}
      BY ONLY <2>2, <2>3, b \in Calls, LastFacts
    <2>5. cs # << >>
      BY <2>4
    <2>6. acts' # << >>
      BY <2>1, <2>2, <2>5
    <2>. QED  BY <2>6 DEF EInv
  <1>2. Based'
    BY <1>1, BasedOn
  <1>3. /\ Open' = OpenIn(created, Front(acts)) \cup OwnCells(created, b)
        /\ Open' \subseteq 1 .. Len(mem')
    BY <1>2, OpenGone
  <1>4. /\ Open = OpenIn(created, Front(acts)) \cup OwnCells(created, Act)
        /\ OpenIn(created, Front(acts)) \cap OwnCells(created, Act) = {}
    BY OpenFacts
  <1>5. Open' = Open \ D
    BY <1>3, <1>4
  <1>. QED  BY <1>2, <1>3, <1>4, <1>5

LEMMA OpenKept ==
    ASSUME EInv, EInv', Based, acts # << >>, UNCHANGED created,
           NEW pc \in Nat, FramesAt(created, Act.proc, pc) = Frames(Act), GoTo(Act, pc)
    PROVE  Based' /\ Open' = Open
  <1>1. PICK a : a = Act
    OBVIOUS
  <1>2. PICK b : b = [a EXCEPT !.pc = pc]
    OBVIOUS
  <1>3. a \in Calls /\ Frames(a) = FramesOf(created, a)
    BY <1>1, InnermostFacts
  <1>4. b \in Calls /\ b.proc = a.proc /\ b.pc = pc /\ b.env = a.env /\ b.base = a.base
    BY <1>2, <1>3, MovedFacts
  <1>5. FramesOf(created, b) = FramesOf(created, a)
    BY <1>1, <1>3, <1>4 DEF FramesOf
  <1>6. OwnCells(created, b) = OwnCells(created, a) \ {}
    BY <1>4, <1>5, CellsSame
  <1>7. acts' = Append(Front(acts), b)
    BY <1>1, <1>2 DEF GoTo
  <1>8. {} \in SUBSET OwnCells(created, Act)
    OBVIOUS
  <1>9. Based' /\ Open' = Open \ {}
    BY <1>1, <1>4, <1>6, <1>7, <1>8, OpenMoved
  <1>. QED  BY <1>9

LEMMA SameCounts ==
    ASSUME CountsExact, Open' = Open, UNCHANGED << heap, mem, leaks, copied >>
    PROVE  CountsExact'
  BY DEF CountsExact, HeldBy, Heap

(* One more frame.                                                         *)
LEMMA OwnPush ==
    ASSUME NEW m, NEW a, NEW b, NEW frames \in Seq(GenFrames), frames = FramesOf(m, a),
           Len(frames) >= 1, NEW f, FramesOf(m, b) = Append(frames, f),
           \A k \in RegFrames(frames, 2) : Cell(b, frames[k]) = Cell(a, frames[k])
    PROVE  /\ f.ftype = "HAND" => OwnCells(m, b) = OwnCells(m, a)
           /\ f.ftype # "HAND" => OwnCells(m, b) = OwnCells(m, a) \cup {Cell(b, f)}
  <1>1. PICK after : after = FramesOf(m, b)
    OBVIOUS
  <1>2. /\ Len(after) = Len(frames) + 1 /\ after[Len(frames) + 1] = f
        /\ \A k \in 1 .. Len(frames) : after[k] = frames[k] /\ Len(frames) \in Nat
    BY <1>1
  <1>3. RegFrames(after, 2) = RegFrames(frames, 2)
            \cup IF f.ftype = "HAND" THEN {} ELSE {Len(frames) + 1}
    BY <1>2 DEF RegFrames
  <1>4. \A k \in RegFrames(frames, 2) : after[k] = frames[k]
    BY <1>2 DEF RegFrames
  <1>5. OwnCells(m, b) = {Cell(b, after[k]) : k \in RegFrames(after, 2)}
    BY <1>1 DEF OwnCells
  <1>6. OwnCells(m, a) = {Cell(b, after[k]) : k \in RegFrames(frames, 2)}
    BY <1>4 DEF OwnCells
  <1>7. CASE f.ftype = "HAND"
    BY <1>3, <1>5, <1>6, <1>7
  <1>8. CASE f.ftype # "HAND"
    BY <1>2, <1>3, <1>5, <1>6, <1>8
  <1>. QED  BY <1>7, <1>8

-----------------------------------------------------------------------------
(* The steps, one by one.                                                  *)
LEMMA JumpCounts ==
    ASSUME EInv, EInv', CInv, Jump, UNCHANGED vars PROVE CInv'
  <1>1. /\ AtInstr({"JMP", "UJ", "BJ"})
        /\ GoTo(Act, BranchIndex(In, Act.pc)) \/ GoTo(Act, Act.pc + 1)
        /\ UNCHANGED << heap, mem, run, leaks, copied >>
    BY DEF Jump, Advance
  <1>2. /\ acts # << >> /\ Act.pc + 1 \in Nat
        /\ FramesAt(created, Act.proc, Act.pc + 1) = Frames(Act)
        /\ Exact(created, Act.proc)
    <2>1. /\ acts # << >> /\ In.op \in {"JMP", "UJ", "BJ"}
          /\ Act.pc + 1 \in 0 .. Len(Code(created, Act.proc))
          /\ FramesAt(created, Act.proc, Act.pc + 1) = Frames(Act)
      BY <1>1, AtFacts DEF Pushes
    <2>. QED  BY <2>1, InnermostFacts
  <1>3. /\ BranchIndex(In, Act.pc) \in Nat
        /\ FramesAt(created, Act.proc, BranchIndex(In, Act.pc)) = Frames(Act)
    BY <1>1, BranchFrames
  <1>4. UNCHANGED created
    BY DEF vars
  <1>5. Based' /\ Open' = Open
    <2>1. CASE GoTo(Act, BranchIndex(In, Act.pc))
      BY <1>2, <1>3, <1>4, <2>1, OpenKept DEF CInv
    <2>2. CASE GoTo(Act, Act.pc + 1)
      BY <1>2, <1>4, <2>2, OpenKept DEF CInv
    <2>. QED  BY <1>1, <2>1, <2>2
  <1>. QED  BY <1>1, <1>5, SameCounts DEF CInv

LEMMA OperateCounts ==
    ASSUME EInv, EInv', CInv, Operate, UNCHANGED vars PROVE CInv'
  <1>1. /\ AtInstr({"PUSHH", "UO", "BO", "CPI", "CPB", "LDB", "STB"})
        /\ GoTo(Act, Act.pc + 1)
        /\ UNCHANGED << heap, mem, run, leaks, copied >>
    BY DEF Operate, Advance
  <1>2. /\ acts # << >> /\ Act.pc \in CodeIds(created, Act.proc)
        /\ Act.pc + 1 \in 0 .. Len(Code(created, Act.proc))
        /\ In.op \in {"PUSHH", "UO", "BO", "CPI", "CPB", "LDB", "STB"}
        /\ ~Pushes(In) /\ In.op # "POP"
              => FramesAt(created, Act.proc, Act.pc + 1) = Frames(Act)
    BY <1>1, AtFacts
  <1>3. UNCHANGED created /\ Based
    BY DEF vars, CInv
  <1>4. Based' /\ Open' = Open
    <2>1. CASE In.op # "PUSHH"
      <3>1. FramesAt(created, Act.proc, Act.pc + 1) = Frames(Act)
        BY <1>2, <2>1 DEF Pushes
      <3>. QED  BY <1>1, <1>2, <1>3, <3>1, OpenKept
    <2>2. CASE In.op = "PUSHH"
      <3>1. PICK a : a = Act
        OBVIOUS
      <3>2. PICK b : b = [a EXCEPT !.pc = a.pc + 1]
        OBVIOUS
      <3>3. PICK frames : frames = FramesOf(created, a)
        OBVIOUS
      <3>4. PICK f : f = Pushed(In, a.pc)
        OBVIOUS
      <3>5. /\ a \in Calls /\ Ready(created) /\ Exact(created, a.proc)
            /\ Placed(created, a, mem, Len(mem)) /\ Len(mem) \in Nat
        BY <1>2, <3>1, InnermostFacts
      <3>6. b \in Calls /\ b.proc = a.proc /\ b.pc = a.pc + 1 /\ b.env = a.env /\ b.base = a.base
        <4>1. a.pc + 1 \in Nat
          BY <3>5 DEF Calls
        <4>. QED  BY <3>2, <3>5, <4>1, MovedFacts
      <3>7. FramesOf(created, b) = Append(frames, f) /\ f.ftype = "HAND"
        <4>1. In = InstrAt(created, a.proc, a.pc) /\ Pushes(In) /\ a.pc \in CodeIds(created, a.proc)
          BY <1>2, <2>2, <3>1 DEF In, Pushes
        <4>2. FramesOf(created, b) = Append(frames, f)
          BY <3>3, <3>4, <3>5, <3>6, <4>1, NextFramesAt DEF FramesOf
        <4>. QED  BY <2>2, <3>4, <4>2 DEF Pushed
      <3>8. frames \in Seq(GenFrames) /\ Len(frames) >= 1
        BY <3>3, <3>5, CellFacts
      <3>9. \A k \in RegFrames(frames, 2) : Cell(b, frames[k]) = Cell(a, frames[k])
        BY <3>6 DEF Cell
      <3>10. OwnCells(created, b) = OwnCells(created, a) \ {}
        <4>1. OwnCells(created, b) = OwnCells(created, a)
          BY <3>3, <3>7, <3>8, <3>9, OwnPush
        <4>. QED  BY <4>1
      <3>11. acts' = Append(Front(acts), b) /\ {} \in SUBSET OwnCells(created, Act)
        BY <1>1, <3>1, <3>2 DEF GoTo
      <3>12. Based' /\ Open' = Open \ {}
        BY <1>2, <1>3, <3>1, <3>6, <3>10, <3>11, OpenMoved
      <3>. QED  BY <3>12
    <2>. QED  BY <2>1, <2>2
  <1>. QED  BY <1>1, <1>4, SameCounts DEF CInv

LEMMA ThrowCounts ==
    ASSUME EInv, EInv', CInv, Throw, UNCHANGED vars PROVE CInv'
  <1>1. run' # "idle" /\ UNCHANGED << heap, mem, acts, leaks, copied, created >>
    BY DEF Throw, vars
  <1>2. Open' = Open /\ Based'
    BY <1>1, OpenIs, OpenIsNext DEF CInv, Based
  <1>. QED  BY <1>1, <1>2, SameCounts DEF CInv

LEMMA PushCounts ==
    ASSUME EInv, EInv', CInv, Push, UNCHANGED vars PROVE CInv'
  <1>1. PICK a : a = Act
    OBVIOUS
  <1>2. PICK in : in = In
    OBVIOUS
  <1>3. PICK e : e = [reg |-> in.reg, ref |-> Null,
                      ftype |-> IF in.op = "PUSHR" THEN "REGR" ELSE "REGNR"]
    OBVIOUS
  <1>4. PICK cell : cell = Len(mem) + 1
    OBVIOUS
  <1>5. PICK env : env = Bound(a.env, a.pc, cell)
    OBVIOUS
  <1>6. PICK c : c = [a EXCEPT !.env = env]
    OBVIOUS
  <1>7. PICK b : b = [c EXCEPT !.pc = a.pc + 1]
    OBVIOUS
  <1>8. PICK frames : frames = FramesOf(created, a)
    OBVIOUS
  <1>9. PICK f : f = Pushed(in, a.pc)
    OBVIOUS
  <1>10. /\ AtInstr({"PUSH", "PUSHR"}) /\ mem' = Append(mem, e)
         /\ UNCHANGED << heap, run, leaks, copied, created >>
    BY <1>2, <1>3 DEF Push, vars
  <1>11. /\ acts # << >> /\ a.pc \in CodeIds(created, a.proc) /\ in.op \in {"PUSH", "PUSHR"}
         /\ in = InstrAt(created, a.proc, a.pc)
    BY <1>1, <1>2, <1>10, AtFacts DEF In
  <1>12. /\ a \in Calls /\ Len(mem) \in Nat /\ Ready(created) /\ Exact(created, a.proc)
         /\ Placed(created, a, mem, Len(mem)) /\ a.pc \in 0 .. Len(Code(created, a.proc))
         /\ mem \in Seq(CellRecords(Heap)) /\ Null \notin Heap
    BY <1>1, <1>11, InnermostFacts DEF EInv, ETyped
  <1>13. /\ Len(mem') = cell /\ mem'[cell] = e /\ cell \in Nat
         /\ \A k \in 1 .. Len(mem) : mem'[k] = mem[k]
    BY <1>4, <1>10, <1>12
  <1>14. acts' = Append(Front(acts), b)
    BY <1>1, <1>5, <1>6, <1>7, <1>13 DEF Push, GoTo
  <1>15. /\ env \in Envs /\ env[a.pc] = cell
         /\ \A x \in DOMAIN a.env : x # a.pc => env[x] = a.env[x]
    <2>1. a.env \in Envs /\ a.pc \in Int
      BY <1>12 DEF Calls
    <2>. QED  BY <1>5, <1>13, <2>1, EnvFacts
  <1>16. b \in Calls /\ b.proc = a.proc /\ b.pc = a.pc + 1 /\ b.base = a.base /\ b.env = env
    <2>1. c \in Calls /\ c.proc = a.proc /\ c.base = a.base /\ c.env = env
      BY <1>6, <1>12, <1>15 DEF Calls
    <2>2. a.pc + 1 \in Nat
      BY <1>12 DEF Calls
    <2>. QED  BY <1>7, <2>1, <2>2, MovedFacts
  <1>17. FramesOf(created, b) = Append(frames, f) /\ f.ftype # "HAND" /\ f.at = a.pc
    <2>1. Pushes(in)
      BY <1>11 DEF Pushes
    <2>2. FramesOf(created, b) = Append(frames, f)
      BY <1>8, <1>9, <1>11, <1>12, <1>16, <2>1, NextFramesAt DEF FramesOf
    <2>. QED  BY <1>9, <1>11, <2>2 DEF Pushed
  <1>18. /\ frames \in Seq(GenFrames) /\ Len(frames) >= 1
         /\ \A k \in 2 .. Len(frames) : frames[k].at \in Nat /\ frames[k].at < a.pc
    BY <1>8, <1>12, FramesShape DEF FramesOf
  <1>19. \A k \in RegFrames(frames, 2) : Cell(b, frames[k]) = Cell(a, frames[k])
    <2>1. ASSUME NEW k \in RegFrames(frames, 2)
          PROVE  frames[k].at \in DOMAIN a.env /\ frames[k].at # a.pc
      <3>1. frames[k].at \in DOMAIN a.env
        BY <1>8, <1>12 DEF Placed
      <3>2. k \in 2 .. Len(frames) /\ a.pc \in Nat
        BY <1>12 DEF RegFrames, Calls
      <3>. QED  BY <1>18, <3>1, <3>2
    <2>. QED  BY <1>15, <1>16, <2>1 DEF Cell
  <1>20. OwnCells(created, b) = OwnCells(created, a) \cup {cell}
    <2>1. OwnCells(created, b) = OwnCells(created, a) \cup {Cell(b, f)}
      BY <1>8, <1>17, <1>18, <1>19, OwnPush
    <2>2. Cell(b, f) = cell
      BY <1>15, <1>16, <1>17 DEF Cell
    <2>. QED  BY <2>1, <2>2
  <1>21. Based' /\ Open' = Open \cup {cell}
    <2>1. Based'
      <3>1. run' # "idle"
        BY <1>10 DEF AtInstr
      <3>. QED  BY <1>1, <1>11, <1>14, <1>16, <3>1, BasedOn DEF CInv
    <2>2. Open' = OpenIn(created, Front(acts)) \cup OwnCells(created, b)
      BY <1>10, <1>11, <1>14, <1>16, <2>1, OpenGone DEF CInv
    <2>3. Open = OpenIn(created, Front(acts)) \cup OwnCells(created, a)
      BY <1>1, <1>11, OpenFacts DEF CInv
    <2>. QED  BY <1>20, <2>1, <2>2, <2>3
  <1>22. IsFiniteSet(Open) /\ Open \subseteq 1 .. Len(mem)
    BY <1>11, OpenFacts DEF CInv
  <1>23. ASSUME NEW h \in Heap
         PROVE  {k \in Open' : mem'[k].ref = h} = {k \in Open \ {} : mem[k].ref = h}
    <2>1. mem'[cell].ref # h
      BY <1>3, <1>12, <1>13
    <2>2. \A k \in Open : mem'[k] = mem[k]
      BY <1>13, <1>22
    <2>. QED  BY <1>21, <2>1, <2>2
  <1>24. ASSUME NEW h \in Heap
         PROVE  heap'[h].count - leaks'[h] = heap[h].count - leaks[h]
                    - Cardinality({k \in {} : mem[k].ref = h})
    <2>1. {k \in {} : mem[k].ref = h} = {}
      OBVIOUS
    <2>2. heap[h].count \in Int /\ leaks[h] \in Nat
      BY DEF EInv, ETyped, Variables
    <2>. QED  BY <1>10, <2>1, <2>2, FS_EmptySet
  <1>25. /\ Heap' = Heap /\ copied' = copied /\ {} \in SUBSET Open
         /\ \A h \in Heap : heap'[h].ref = heap[h].ref
    BY <1>10 DEF Heap
  <1>26. CountsExact'
    BY <1>22, <1>23, <1>24, <1>25, StillExact DEF CInv
  <1>. QED  BY <1>21, <1>26 DEF CInv

LEMMA PopCounts ==
    ASSUME EInv, EInv', CInv, Pop, UNCHANGED vars PROVE CInv'
  <1>1. PICK a : a = Act
    OBVIOUS
  <1>2. PICK frames : frames = Frames(a)
    OBVIOUS
  <1>3. PICK b : b = [a EXCEPT !.pc = a.pc + 1]
    OBVIOUS
  <1>4. /\ AtInstr({"POP"}) /\ acts' = Append(Front(acts), b)
        /\ UNCHANGED << run, leaks, copied, created >>
    BY <1>1, <1>3 DEF Pop, Advance, GoTo, vars
  <1>5. /\ acts # << >> /\ a.pc \in CodeIds(created, a.proc) /\ In.op = "POP"
        /\ In = InstrAt(created, a.proc, a.pc)
    BY <1>1, <1>4, AtFacts DEF In
  <1>6. /\ a \in Calls /\ Len(mem) \in Nat /\ Ready(created) /\ Exact(created, a.proc)
        /\ Placed(created, a, mem, Len(mem)) /\ a.base \in Nat
        /\ frames = FramesOf(created, a) /\ mem \in Seq(CellRecords(Heap)) /\ heap \in Heaps
    BY <1>1, <1>2, <1>5, InnermostFacts DEF EInv, ETyped, Heaps
  <1>7. b \in Calls /\ b.proc = a.proc /\ b.pc = a.pc + 1 /\ b.base = a.base /\ b.env = a.env
    <2>1. a.pc + 1 \in Nat
      BY <1>6 DEF Calls
    <2>. QED  BY <1>3, <1>6, <2>1, MovedFacts
  <1>8. PICK n : n = Len(frames) - 1
    OBVIOUS
  <1>9. PICK D : D = CutCells(created, a, n)
    OBVIOUS
  <1>10. /\ frames \in Seq(GenFrames) /\ n \in 1 .. Len(frames) /\ n + 1 = Len(frames)
         /\ Len(frames) \in Nat
         /\ FramesOf(created, b) = SubSeq(frames, 1, n)
    <2>1. FramesOf(created, b) = Front(frames) /\ Len(frames) > 1
      BY <1>5, <1>6, <1>7, NextFramesAt DEF FramesOf
    <2>2. frames \in Seq(GenFrames) /\ Len(frames) \in Nat
      BY <1>6, CellFacts
    <2>. QED  BY <1>8, <2>1, <2>2 DEF Front
  <1>11. D \subseteq OwnCells(created, a) /\ OwnCells(created, b) = OwnCells(created, a) \ D
    <2>1. PICK limit \in Nat : limit = Len(mem)
      BY <1>6
    <2>2. /\ Ready(created) /\ Placed(created, a, mem, limit)
          /\ frames = FramesOf(created, a) /\ n \in 1 .. Len(frames) /\ b.env = a.env
          /\ FramesOf(created, b) = SubSeq(frames, 1, n)
      BY <1>6, <1>7, <1>10, <2>1
    <2>. QED  BY ONLY <1>9, <2>1, <2>2, OwnCut
  <1>12. /\ Based' /\ Open' = Open \ D /\ D \subseteq Open /\ Open' \subseteq 1 .. Len(mem')
    BY <1>1, <1>4, <1>5, <1>7, <1>11, OpenMoved DEF CInv
  <1>13. IsFiniteSet(Open) /\ Open \subseteq 1 .. Len(mem)
    BY <1>5, OpenFacts DEF CInv
  <1>14. Last(frames) = frames[n + 1]
    BY <1>10 DEF Last
  <1>15. CASE Last(frames).ftype = "HAND"
    <2>1. UNCHANGED << heap, mem >>
      BY <1>1, <1>2, <1>15 DEF Pop
    <2>2. D = {}
      BY <1>6, <1>9, <1>10, <1>14, <1>15 DEF RegFrames, CutCells
    <2>. QED  BY <1>4, <1>12, <2>1, <2>2, SameCounts DEF CInv
  <1>16. CASE Last(frames).ftype # "HAND"
    <2>1. PICK cell : cell = Cell(a, Last(frames))
      OBVIOUS
    <2>2. D = {cell}
      <3>1. RegFrames(frames, n + 1) = {n + 1}
        BY <1>10, <1>14, <1>16 DEF RegFrames
      <3>. QED  BY <1>6, <1>9, <1>14, <2>1, <3>1 DEF CutCells
    <2>3. heap' = Released(heap, D) /\ mem' = SubSeq(mem, 1, cell - 1)
      BY <1>1, <1>2, <1>16, <2>1, <2>2 DEF Pop, Restored
    <2>4. cell - 1 \in 0 .. Len(mem)
      BY <1>6, <1>12, <1>13, <2>2
    <2>5. \A c \in Open' : mem'[c] = mem[c]
      <3>1. \A c \in 1 .. cell - 1 : mem'[c] = mem[c]
        BY <1>6, <2>3, <2>4, CutFacts
      <3>2. Len(mem') = cell - 1
        BY <1>6, <2>3, <2>4, CutFacts
      <3>. QED  BY <1>12, <3>1, <3>2
    <2>6. \A h \in Heap : {c \in Open' : mem'[c].ref = h} = {c \in Open \ D : mem[c].ref = h}
      BY <1>12, <2>5
    <2>7. IsFiniteSet(D)
      BY <1>12, <1>13, FS_Subset
    <2>8. Heap' = Heap
      <3>1. Released(heap, D) \in Heaps
        BY <1>6, <2>7, ReleasedType
      <3>. QED  BY <2>3, <3>1 DEF Heaps, Heap
    <2>9. ASSUME NEW h \in Heap
          PROVE  /\ heap'[h].ref = heap[h].ref
                 /\ heap'[h].count - leaks'[h] = heap[h].count - leaks[h]
                        - Cardinality({c \in D : mem[c].ref = h})
      <3>1. /\ heap'[h].ref = heap[h].ref
            /\ heap'[h].count = heap[h].count - Cardinality({c \in D : mem[c].ref = h})
        BY <1>6, <2>3, ReleasedFacts
      <3>2. heap[h].count \in Int /\ leaks[h] \in Nat
        BY DEF EInv, ETyped, Variables
      <3>3. Cardinality({c \in D : mem[c].ref = h}) \in Nat
        BY <2>7, CountType
      <3>. QED  BY <1>4, <3>1, <3>2, <3>3
    <2>10. CountsExact'
      BY <1>4, <1>12, <1>13, <2>6, <2>8, <2>9, StillExact DEF CInv
    <2>. QED  BY <1>12, <2>10 DEF CInv
  <1>. QED  BY <1>15, <1>16

(* The cell of a register is open.                                         *)
LEMMA CellOpen ==
    ASSUME EInv, Based, acts # << >>, NEW reg, Naming(Frames(Act), reg) # {},
           NEW cell, cell = Cell(Act, FindFrame(Frames(Act), reg))
    PROVE  cell \in Open
  <1>1. PICK a : a = Act
    OBVIOUS
  <1>2. PICK frames : frames = Frames(a)
    OBVIOUS
  <1>3. /\ Ready(created) /\ Placed(created, a, mem, Len(mem)) /\ Len(mem) \in Nat
        /\ frames = FramesOf(created, a)
    BY <1>1, <1>2, InnermostFacts
  <1>4. frames \in Seq(GenFrames)
    BY <1>3, CellFacts
  <1>5. PICK k \in RegFrames(frames, 1) : FindFrame(frames, reg) = frames[k]
    BY <1>1, <1>2, <1>4, FindFacts
  <1>6. cell \in CellsOf(created, a)
    BY <1>1, <1>2, <1>3, <1>5 DEF CellsOf
  <1>. QED  BY <1>1, <1>6, OpenFacts

(* The instructions that move references go on where the frames are the    *)
(* same.                                                                   *)
LEMMA MoveOpen ==
    ASSUME EInv, EInv', Based, AtInstr({"LDR", "STR", "LDE", "STE"}), Advance,
           UNCHANGED created
    PROVE  Based' /\ Open' = Open /\ acts # << >>
  <1>1. /\ acts # << >> /\ In.op \in {"LDR", "STR", "LDE", "STE"}
        /\ FramesAt(created, Act.proc, Act.pc + 1) = Frames(Act)
        /\ Act.pc + 1 \in 0 .. Len(Code(created, Act.proc))
    BY AtFacts DEF Pushes
  <1>2. Act.pc + 1 \in Nat
    BY <1>1
  <1>3. GoTo(Act, Act.pc + 1)
    BY DEF Advance
  <1>. QED  BY <1>1, <1>2, <1>3, OpenKept

LEMMA MoveCounts ==
    ASSUME EInv, EInv', CInv, AtInstr({"LDR", "STR", "LDE", "STE"}), Advance,
           NEW v, AVariable(v), ~IsNull(v), ~v.inHeap => v.at \in Open,
           NEW new \in Heap \cup {Null}, NEW old \in Heap \cup {Null}, old = RefIn(v),
           Write(Counted(Counted(heap, new, 1), old, -1), v, new),
           UNCHANGED << leaks, copied, vars >>
    PROVE  CInv'
  <1>1. UNCHANGED created
    BY DEF vars
  <1>2. Based' /\ Open' = Open /\ acts # << >>
    BY <1>1, MoveOpen DEF CInv
  <1>3. IsFiniteSet(Open) /\ Open \subseteq 1 .. Len(mem)
    BY <1>2, OpenFacts DEF CInv
  <1>4. PICK hp : hp = Counted(Counted(heap, new, 1), old, -1)
    OBVIOUS
  <1>5. hp \in Heaps
    <2>1. heap \in Heaps
      BY DEF EInv, ETyped, Heaps
    <2>2. Counted(heap, new, 1) \in Heaps
      BY <2>1, CountedType
    <2>. QED  BY <1>4, <2>2, CountedType
  <1>6. Heap' = Heap
    <2>1. heap' \in Heaps
      BY <1>2, <1>4, <1>5, KeepsWrite
    <2>. QED  BY <2>1 DEF Heaps, Heap
  <1>7. CountsExact'
    BY <1>2, <1>3, <1>4, <1>6, WriteExact DEF CInv
  <1>. QED  BY <1>2, <1>7 DEF CInv

LEMMA LoadRefCounts ==
    ASSUME EInv, EInv', CInv, LoadRef, UNCHANGED vars PROVE CInv'
  <1> DEFINE from == Variable(In.from)
             to == Cell(Act, FindFrame(Frames(Act), In.to))
             v == [inHeap |-> FALSE, at |-> to]
             new == RefIn(from)
             old == mem[to].ref
  <1>1. /\ AtInstr({"LDR"}) /\ ~NullDereference(In) /\ Advance
        /\ Move(from, v, old) /\ UNCHANGED << leaks, copied >>
    BY DEF LoadRef
  <1>2. In.op = "LDR" /\ acts # << >> /\ AtInstr({"LDR", "STR", "LDE", "STE"})
    BY <1>1, AtFacts DEF AtInstr
  <1>3. Naming(Frames(Act), In.from) # {} /\ Naming(Frames(Act), In.to) # {}
    BY <1>2, MoveRegs
  <1>4. /\ to \in 1 .. Len(mem) /\ (to > Act.base \/ to = Act.env[None])
        /\ old \in Heap \cup {Null} /\ to \in Open
    BY <1>2, <1>3, CellOf, CellOpen DEF CInv
  <1>5. ~IsNull(from)
    <2>1. In.from \in Dereferences(In)
      BY <1>2 DEF Dereferences
    <2>. QED  BY <1>1, <1>3, <2>1, NotNull
  <1>6. new \in Heap \cup {Null}
    BY <1>2, <1>3, <1>5, VariableFacts
  <1>7. Write(Counted(Counted(heap, new, 1), old, -1), v, new)
    BY <1>1, <1>2 DEF Move
  <1> HIDE DEF from, to, new
  <1>8. AVariable(v) /\ ~IsNull(v) /\ (~v.inHeap => v.at \in Open) /\ old = RefIn(v)
    BY <1>4 DEF AVariable, IsNull, RefIn
  <1> HIDE DEF v, old
  <1>. QED  BY <1>1, <1>2, <1>4, <1>6, <1>7, <1>8, MoveCounts

LEMMA StoreRefCounts ==
    ASSUME EInv, EInv', CInv, StoreRef, UNCHANGED vars PROVE CInv'
  <1> DEFINE from == Cell(Act, FindFrame(Frames(Act), In.from))
             to == Variable(In.to)
             new == mem[from].ref
             old == RefIn(to)
  <1>1. /\ AtInstr({"STR"}) /\ ~NullDereference(In) /\ Advance
        /\ Move(from, to, old) /\ UNCHANGED << leaks, copied >>
    BY DEF StoreRef
  <1>2. In.op = "STR" /\ acts # << >> /\ AtInstr({"LDR", "STR", "LDE", "STE"})
    BY <1>1, AtFacts DEF AtInstr
  <1>3. Naming(Frames(Act), In.from) # {} /\ Naming(Frames(Act), In.to) # {}
    BY <1>2, MoveRegs
  <1>4. new \in Heap \cup {Null}
    BY <1>2, <1>3, CellOf
  <1>5. ~IsNull(to)
    <2>1. In.to \in Dereferences(In)
      BY <1>2 DEF Dereferences
    <2>. QED  BY <1>1, <1>3, <2>1, NotNull
  <1>6. AVariable(to) /\ old \in Heap \cup {Null}
    BY <1>2, <1>3, <1>5, VariableFacts
  <1>7. ~to.inHeap => to.at \in Open
    <2>1. Cell(Act, FindFrame(Frames(Act), In.to)) \in Open
      BY <1>2, <1>3, CellOpen DEF CInv
    <2>. QED  BY <2>1 DEF Variable
  <1>8. Write(Counted(Counted(heap, new, 1), old, -1), to, new)
    BY <1>1, <1>2 DEF Move
  <1>9. old = RefIn(to)
    OBVIOUS
  <1> HIDE DEF from, to, new, old
  <1>. QED  BY <1>1, <1>2, <1>4, <1>5, <1>6, <1>7, <1>8, <1>9, MoveCounts

(* A reference written over itself changes nothing.                        *)
LEMMA WriteSame ==
    ASSUME EInv, NEW v, AVariable(v), ~IsNull(v),
           ~v.inHeap => v.at \in 1 .. Len(mem),
           Write(heap, v, RefIn(v))
    PROVE  UNCHANGED << heap, mem >>
  <1>1. heap \in [Heap -> Variables(Heap)] /\ mem \in Seq(CellRecords(Heap))
    BY DEF EInv, ETyped
  <1>2. CASE v.inHeap
    <2>1. v.at \in Heap /\ heap[v.at] \in Variables(Heap)
      BY <1>1, <1>2 DEF AVariable, IsNull
    <2>2. [heap[v.at] EXCEPT !.ref = heap[v.at].ref] = heap[v.at]
      BY <2>1 DEF Variables
    <2>3. heap' = [heap EXCEPT ![v.at] = heap[v.at]] /\ mem' = mem
      BY <1>2, <2>2 DEF Write, RefIn
    <2>4. heap' = heap
      BY <1>1, <2>1, <2>3
    <2>. QED  BY <2>3, <2>4
  <1>3. CASE ~v.inHeap
    <2>1. v.at \in DOMAIN mem /\ mem[v.at] \in CellRecords(Heap)
      BY <1>1, <1>3
    <2>2. [mem[v.at] EXCEPT !.ref = mem[v.at].ref] = mem[v.at]
      BY <2>1 DEF CellRecords
    <2>3. mem' = [mem EXCEPT ![v.at] = mem[v.at]] /\ heap' = heap
      BY <1>3, <2>2 DEF Write, RefIn
    <2>4. mem' = mem
      BY <1>1, <2>1, <2>3
    <2>. QED  BY <2>3, <2>4
  <1>. QED  BY <1>2, <1>3

LEMMA CopyElementCounts ==
    ASSUME EInv, EInv', CInv, CopyElement, UNCHANGED vars PROVE CInv'
  <1> DEFINE new == RefIn(Variable(In.from))
             to == Variable(In.to)
  <1>1. /\ AtInstr({"LDE", "STE"}) /\ ~NullDereference(In) /\ Advance
        /\ Write(heap, to, new) /\ copied' = (copied \/ new # RefIn(to))
        /\ UNCHANGED leaks /\ UNCHANGED created
    BY DEF CopyElement, vars
  <1>2. In.op \in {"LDE", "STE"} /\ acts # << >> /\ AtInstr({"LDR", "STR", "LDE", "STE"})
    BY <1>1, AtFacts DEF AtInstr
  <1>3. Based' /\ Open' = Open
    BY <1>1, <1>2, MoveOpen DEF CInv
  <1>4. Naming(Frames(Act), In.to) # {}
    BY <1>2, MoveRegs
  <1>5. ~IsNull(to)
    <2>1. In.to \in Dereferences(In)
      BY <1>2 DEF Dereferences
    <2>. QED  BY <1>1, <1>4, <2>1, NotNull
  <1>6. AVariable(to) /\ (~to.inHeap => to.at \in 1 .. Len(mem))
    <2>1. Cell(Act, FindFrame(Frames(Act), In.to)) \in 1 .. Len(mem)
      BY <1>2, <1>4, CellOf
    <2>. QED  BY <1>2, <1>4, <2>1, VariableFacts DEF Variable
  <1> HIDE DEF new, to
  <1>7. CASE copied'
    BY <1>3, <1>7 DEF CInv, CountsExact
  <1>8. CASE ~copied'
    <2>1. ~copied /\ new = RefIn(to)
      BY <1>1, <1>8
    <2>2. UNCHANGED << heap, mem >>
      BY <1>1, <1>5, <1>6, <2>1, WriteSame
    <2>3. \A h \in Heap : heap[h].count = HeldBy(h) + leaks[h]
      BY <2>1 DEF CInv, CountsExact
    <2>4. CountsExact'
      BY <1>1, <1>3, <2>2, <2>3 DEF CountsExact, HeldBy, Heap
    <2>. QED  BY <1>3, <2>4 DEF CInv
  <1>. QED  BY <1>7, <1>8

LEMMA CallProcedureCounts ==
    ASSUME EInv, EInv', CInv, CallProcedure, UNCHANGED vars PROVE CInv'
  <1>1. PICK a : a = Act
    OBVIOUS
  <1>2. PICK b : b = Enter(In.proc, Argument(a))
    OBVIOUS
  <1>3. /\ AtInstr({"CALL"}) /\ acts' = Append(acts, b) /\ run' = "running"
        /\ UNCHANGED << heap, mem, leaks, copied, created >>
    BY <1>1, <1>2 DEF CallProcedure, AtInstr, vars
  <1>4. /\ acts # << >> /\ a.pc \in CodeIds(created, a.proc) /\ In.op = "CALL"
        /\ In = InstrAt(created, a.proc, a.pc) /\ a.proc \in Ids(created.procs)
    BY <1>1, <1>3, AtFacts DEF In
  <1>5. PICK frames : frames = FramesOf(created, a)
    OBVIOUS
  <1>6. /\ Ready(created) /\ Len(mem) \in Nat /\ acts \in Seq(Calls)
        /\ Placed(created, a, mem, Len(mem)) /\ Frames(a) = frames
        /\ Exact(created, a.proc)
    BY <1>1, <1>4, <1>5, InnermostFacts DEF EInv, ETyped
  <1>7. PICK cell : cell = Argument(a)
    OBVIOUS
  <1>8. cell \in Open
    <2>1. frames \in Seq(GenFrames) /\ Len(frames) \in Nat \ {0}
      BY <1>5, <1>6, CellFacts
    <2>2. Last(frames).ftype = "REGNR" /\ Last(frames) = frames[Len(frames)]
      <3>1. AllFound(created, a.proc)
        BY <1>6 DEF Exact, Complete
      <3>. QED  BY <1>4, <1>5, <3>1 DEF AllFound, Found, FramesOf, Last
    <2>3. Len(frames) \in RegFrames(frames, 1)
      BY <2>1, <2>2 DEF RegFrames
    <2>4. cell \in CellsOf(created, a)
      BY <1>5, <1>6, <1>7, <2>2, <2>3 DEF CellsOf, Argument
    <2>. QED  BY <1>1, <1>4, <2>4, OpenFacts DEF CInv
  <1>9. b = [proc |-> In.proc, pc |-> 0, env |-> [i \in {None} |-> cell], base |-> Len(mem)]
    BY <1>2, <1>7 DEF Enter
  <1>10. CellsOf(created, b) = {cell}
    <2>1. Exact(created, In.proc)
      BY <1>4, <1>6 DEF Ready
    <2>2. FramesOf(created, b) = Base(created, In.proc)
      BY <1>9, <2>1, WalkFacts DEF FramesOf, Exact, Complete
    <2>3. /\ Len(Base(created, In.proc)) = 1 /\ Base(created, In.proc)[1].at = None
          /\ Base(created, In.proc)[1].ftype = "REGNR"
      BY DEF Base
    <2>4. RegFrames(FramesOf(created, b), 1) = {1}
      BY <2>2, <2>3 DEF RegFrames
    <2>5. Cell(b, FramesOf(created, b)[1]) = cell
      BY <1>9, <2>2, <2>3 DEF Cell
    <2>. QED  BY <2>4, <2>5 DEF CellsOf
  <1>11. Open' = Open
    <2>1. PICK as1 : as1 = acts
      OBVIOUS
    <2>2. PICK cs : cs = Append(as1, b)
      OBVIOUS
    <2>3. /\ DOMAIN cs = DOMAIN as1 \cup {Len(as1) + 1} /\ cs[Len(as1) + 1] = b
          /\ \A n \in DOMAIN as1 : cs[n] = as1[n]
      BY <1>6, <2>1, <2>2
    <2>4. UNION {CellsOf(created, cs[n]) : n \in DOMAIN cs}
            = (UNION {CellsOf(created, as1[n]) : n \in DOMAIN as1}) \cup {cell}
      BY <1>10, <2>3
    <2>5. OpenIn(created, cs) = OpenIn(created, as1) \cup {cell}
      BY <2>4 DEF OpenIn
    <2>. QED  BY <1>3, <1>8, <2>1, <2>2, <2>5, OpenIs, OpenIsNext
  <1>12. Based'
    <2>1. acts'[1].base = acts[1].base
      <3>1. 1 \in 1 .. Len(acts)
        BY <1>4, <1>6
      <3>. QED  BY <1>3, <1>6, <3>1
    <2>. QED  BY <1>3, <1>4, <2>1 DEF CInv, Based
  <1>. QED  BY <1>3, <1>11, <1>12, SameCounts DEF CInv

(* A call left with its own cells abandoned, or cleaned up.                *)
LEMMA LeaveCounts ==
    ASSUME EInv, EInv', CInv, acts # << >>, UNCHANGED << created, copied >>, Heap' = Heap,
           NEW how \in {"running", "unwinding"}, Leave(how),
           \A h \in Heap : heap'[h].ref = heap[h].ref,
           \A h \in Heap : heap'[h].count - leaks'[h] = heap[h].count - leaks[h]
               - Cardinality({c \in OwnCells(created, Act) : mem[c].ref = h})
    PROVE  CInv'
  <1>1. PICK D : D = OwnCells(created, Act)
    OBVIOUS
  <1>2. /\ Based' /\ Open' = Open \ D /\ D \in SUBSET Open
        /\ \A c \in Open' : mem'[c] = mem[c]
    BY <1>1, OpenLeft DEF CInv
  <1>3. IsFiniteSet(Open)
    BY OpenFacts DEF CInv
  <1>4. \A h \in Heap : {c \in Open' : mem'[c].ref = h} = {c \in Open \ D : mem[c].ref = h}
    BY <1>2
  <1>5. \A h \in Heap : heap'[h].count - leaks'[h] = heap[h].count - leaks[h]
                            - Cardinality({c \in D : mem[c].ref = h})
    BY <1>1
  <1>6. CountsExact'
    BY <1>2, <1>3, <1>4, <1>5, StillExact DEF CInv
  <1>. QED  BY <1>2, <1>6 DEF CInv

(* The open frames of the innermost call, as the actions name them.        *)
LEMMA OwnOpen ==
    ASSUME EInv, Based, acts # << >>
    PROVE  /\ {Cell(Act, Frames(Act)[k]) : k \in RegFrames(Frames(Act), 2)}
                = OwnCells(created, Act)
           /\ IsFiniteSet(OwnCells(created, Act))
           /\ \A h : /\ IsFiniteSet({c \in OwnCells(created, Act) : mem[c].ref = h})
                     /\ Cardinality({c \in OwnCells(created, Act) : mem[c].ref = h}) \in Nat
           /\ \A h \in Heap : heap[h].count \in Int /\ leaks[h] \in Nat
  <1>1. {Cell(Act, Frames(Act)[k]) : k \in RegFrames(Frames(Act), 2)} = OwnCells(created, Act)
    BY DEF OwnCells, Frames, FramesOf
  <1>2. IsFiniteSet(OwnCells(created, Act))
    BY OpenFacts, FS_Subset
  <1>3. \A h \in Heap : heap[h].count \in Int /\ leaks[h] \in Nat
    BY DEF EInv, ETyped, Variables
  <1>. QED  BY <1>1, <1>2, <1>3, CountType

LEMMA FailCounts ==
    ASSUME EInv, EInv', CInv, Fail, UNCHANGED vars PROVE CInv'
  <1> DEFINE open == {Cell(Act, Frames(Act)[k]) : k \in RegFrames(Frames(Act), 2)}
             stored == IF In.op # "STR" THEN Null
                       ELSE mem[Cell(Act, FindFrame(Frames(Act), In.from))].ref
  <1>1. /\ acts # << >> /\ heap' = Counted(heap, stored, 1)
        /\ leaks' = [h \in Heap |->
               leaks[h] + Cardinality({c \in open : mem[c].ref = h})
                        + IF stored = h THEN 1 ELSE 0]
        /\ Leave("unwinding") /\ UNCHANGED << copied, created >>
    BY DEF Fail, EInv, vars
  <1>2. /\ open = OwnCells(created, Act)
        /\ \A h : Cardinality({c \in OwnCells(created, Act) : mem[c].ref = h}) \in Nat
        /\ \A h \in Heap : heap[h].count \in Int /\ leaks[h] \in Nat
    BY <1>1, OwnOpen DEF CInv
  <1>3. heap \in Heaps /\ Null \notin Heap
    BY DEF EInv, ETyped, Heaps
  <1> HIDE DEF stored, open
  <1>4. Heap' = Heap
    <2>1. DOMAIN heap' = DOMAIN heap
      BY <1>1, <1>3 DEF Counted, Heaps
    <2>. QED  BY <2>1 DEF Heap
  <1>5. ASSUME NEW h \in Heap
        PROVE  /\ heap'[h].ref = heap[h].ref
               /\ heap'[h].count - leaks'[h] = heap[h].count - leaks[h]
                    - Cardinality({c \in OwnCells(created, Act) : mem[c].ref = h})
    <2>1. PICK n \in Nat : n = Cardinality({c \in OwnCells(created, Act) : mem[c].ref = h})
      BY <1>2
    <2>2. /\ heap'[h].ref = heap[h].ref
          /\ heap'[h].count = heap[h].count + (IF h = stored THEN 1 ELSE 0)
      BY <1>1, <1>3, CountedFacts
    <2>3. leaks'[h] = leaks[h] + n + (IF stored = h THEN 1 ELSE 0)
      BY <1>1, <1>2, <2>1
    <2>. QED  BY <1>2, <2>1, <2>2, <2>3
  <1>. QED  BY <1>1, <1>4, <1>5, LeaveCounts

LEMMA ReturnCounts ==
    ASSUME EInv, EInv', CInv, Return, UNCHANGED vars PROVE CInv'
  <1> DEFINE open == {Cell(Act, Frames(Act)[k]) : k \in RegFrames(Frames(Act), 2)}
  <1>1. /\ acts # << >> /\ Abandon(open) /\ Leave("running")
        /\ UNCHANGED << heap, copied, created >>
    BY DEF Return, EInv, vars
  <1>2. /\ open = OwnCells(created, Act)
        /\ \A h : Cardinality({c \in OwnCells(created, Act) : mem[c].ref = h}) \in Nat
        /\ \A h \in Heap : heap[h].count \in Int /\ leaks[h] \in Nat
    BY <1>1, OwnOpen DEF CInv
  <1> HIDE DEF open
  <1>3. ASSUME NEW h \in Heap
        PROVE  /\ heap'[h].ref = heap[h].ref
               /\ heap'[h].count - leaks'[h] = heap[h].count - leaks[h]
                    - Cardinality({c \in OwnCells(created, Act) : mem[c].ref = h})
    <2>1. PICK n \in Nat : n = Cardinality({c \in OwnCells(created, Act) : mem[c].ref = h})
      BY <1>2
    <2>2. leaks'[h] = leaks[h] + n
      BY <1>1, <1>2, <2>1 DEF Abandon
    <2>. QED  BY <1>1, <1>2, <2>1, <2>2
  <1>4. Heap' = Heap
    BY <1>1 DEF Heap
  <1>. QED  BY <1>1, <1>3, <1>4, LeaveCounts

LEMMA UnwindCounts ==
    ASSUME EInv, EInv', CInv, Unwind, UNCHANGED vars PROVE CInv'
  <1>1. PICK a : a = Act
    OBVIOUS
  <1>2. PICK frames : frames = Frames(a)
    OBVIOUS
  <1>3. PICK k : k = Catcher(frames, BuiltAt(created, a.proc, a.pc))
    OBVIOUS
  <1>4. PICK cleaned : cleaned = {Cell(a, frames[j]) : j \in PadCleans(frames, k)}
    OBVIOUS
  <1>5. PICK open : open = {Cell(a, frames[j]) : j \in RegFrames(frames, 2)}
    OBVIOUS
  <1>6. /\ run = "unwinding" /\ UNCHANGED << copied, created >>
        /\ IF Len(frames) = 1
           THEN Leave("unwinding") /\ UNCHANGED << heap, leaks >>
           ELSE /\ heap' = Released(heap, cleaned)
                /\ IF k = 0
                   THEN Leave("unwinding") /\ Abandon(open \ cleaned)
                   ELSE /\ GoTo(a, frames[k].hindex) /\ run' = "running"
                        /\ UNCHANGED << mem, leaks >>
    BY <1>1, <1>2, <1>3, <1>4, <1>5 DEF Unwind, vars
  <1>7. acts # << >>
    BY <1>6 DEF EInv
  <1>8. /\ a \in Calls /\ Len(mem) \in Nat /\ Ready(created)
        /\ Placed(created, a, mem, Len(mem)) /\ frames = FramesOf(created, a)
        /\ a.pc \in 0 .. Len(Code(created, a.proc)) /\ a.proc \in Ids(created.procs)
        /\ heap \in Heaps
    BY <1>1, <1>2, <1>7, InnermostFacts DEF Placed, EInv, ETyped, Heaps
  <1>9. frames \in Seq(GenFrames) /\ Len(frames) \in Nat
    BY <1>8, CellFacts
  <1>10. k # 0 => k \in 3 .. Len(frames) /\ frames[k].ftype = "HAND"
    <2>1. DOMAIN frames = 1 .. Len(frames)
      BY <1>9
    <2>2. k # 0 => k \in DOMAIN frames /\ k >= 3 /\ frames[k].ftype = "HAND"
      BY <1>3, <1>9, <2>1, CatcherFacts
    <2>. QED  BY <1>9, <2>1, <2>2
  <1>11. PadCleans(frames, k) \subseteq RegFrames(frames, 2)
    BY <1>9, <1>10 DEF PadCleans, RegFrames
  <1>12. cleaned \subseteq open
    BY <1>4, <1>5, <1>11
  <1>13. /\ open = OwnCells(created, Act) /\ IsFiniteSet(open)
         /\ \A h : /\ IsFiniteSet({c \in open : mem[c].ref = h})
                   /\ Cardinality({c \in open : mem[c].ref = h}) \in Nat
         /\ \A h \in Heap : heap[h].count \in Int /\ leaks[h] \in Nat
    BY <1>1, <1>2, <1>5, <1>7, OwnOpen DEF CInv
  <1>14. IsFiniteSet(cleaned)
    BY <1>12, <1>13, FS_Subset
  <1>15. heap' = Released(heap, cleaned) =>
           /\ Heap' = Heap
           /\ \A h \in Heap :
                /\ heap'[h].ref = heap[h].ref
                /\ heap'[h].count = heap[h].count - Cardinality({c \in cleaned : mem[c].ref = h})
                /\ Cardinality({c \in cleaned : mem[c].ref = h}) \in Nat
    <2> SUFFICES ASSUME heap' = Released(heap, cleaned)
                 PROVE  /\ Heap' = Heap
                        /\ \A h \in Heap :
                            /\ heap'[h].ref = heap[h].ref
                            /\ heap'[h].count = heap[h].count
                                  - Cardinality({c \in cleaned : mem[c].ref = h})
                            /\ Cardinality({c \in cleaned : mem[c].ref = h}) \in Nat
      OBVIOUS
    <2>1. Released(heap, cleaned) \in Heaps
      BY <1>8, <1>14, ReleasedType
    <2>2. Heap' = Heap
      BY <2>1 DEF Heaps, Heap
    <2>3. \A h \in Heap : Cardinality({c \in cleaned : mem[c].ref = h}) \in Nat
      BY <1>14, CountType
    <2>. QED  BY <1>8, <2>2, <2>3, ReleasedFacts
  <1>16. CASE Len(frames) = 1
    <2>1. Leave("unwinding") /\ UNCHANGED << heap, leaks >>
      BY <1>6, <1>16
    <2>2. OwnCells(created, Act) = {}
      BY <1>5, <1>13, <1>16 DEF RegFrames
    <2>3. \A h \in Heap : heap'[h].count - leaks'[h] = heap[h].count - leaks[h]
              - Cardinality({c \in OwnCells(created, Act) : mem[c].ref = h})
      <3> SUFFICES ASSUME NEW h \in Heap
                   PROVE  heap'[h].count - leaks'[h] = heap[h].count - leaks[h]
                            - Cardinality({c \in OwnCells(created, Act) : mem[c].ref = h})
        OBVIOUS
      <3>1. {c \in OwnCells(created, Act) : mem[c].ref = h} = {}
        BY <2>2
      <3>2. Cardinality({c \in OwnCells(created, Act) : mem[c].ref = h}) = 0
        BY <3>1, FS_EmptySet
      <3>3. heap[h].count \in Int /\ leaks[h] \in Nat
        BY <1>13
      <3>. QED  BY <2>1, <3>2, <3>3
    <2>4. Heap' = Heap
      BY <2>1 DEF Heap
    <2>. QED  BY <1>6, <1>7, <2>1, <2>3, <2>4, LeaveCounts
  <1>17. CASE Len(frames) # 1 /\ k = 0
    <2>1. heap' = Released(heap, cleaned) /\ Leave("unwinding") /\ Abandon(open \ cleaned)
      BY <1>6, <1>17
    <2>2. ASSUME NEW h \in Heap
          PROVE  /\ heap'[h].ref = heap[h].ref
                 /\ heap'[h].count - leaks'[h] = heap[h].count - leaks[h]
                      - Cardinality({c \in OwnCells(created, Act) : mem[c].ref = h})
      <3> DEFINE A == {c \in open : mem[c].ref = h}
                 X == {c \in cleaned : mem[c].ref = h}
                 Y == {c \in open \ cleaned : mem[c].ref = h}
      <3>1. heap'[h].ref = heap[h].ref /\ heap'[h].count = heap[h].count - Cardinality(X)
        BY <1>15, <2>1
      <3>2. leaks'[h] = leaks[h] + Cardinality(Y)
        BY <2>1 DEF Abandon
      <3>3. A \ cleaned = Y /\ A \cap cleaned = X
        BY <1>12
      <3>4. IsFiniteSet(A)
        BY <1>13
      <3>5. A = {c \in OwnCells(created, Act) : mem[c].ref = h}
        BY <1>13
      <3>6. heap[h].count \in Int /\ leaks[h] \in Nat
        BY <1>13
      <3> HIDE DEF A, X, Y
      <3>7. /\ Cardinality(A) = Cardinality(Y) + Cardinality(X)
            /\ Cardinality(A) \in Nat /\ Cardinality(Y) \in Nat /\ Cardinality(X) \in Nat
        <4>1. /\ Cardinality(A) = Cardinality(A \ cleaned) + Cardinality(A \cap cleaned)
              /\ Cardinality(A) \in Nat /\ Cardinality(A \ cleaned) \in Nat
              /\ Cardinality(A \cap cleaned) \in Nat
          BY ONLY <3>4, SplitCount
        <4>. QED  BY ONLY <3>3, <4>1
      <3>. QED  BY <3>1, <3>2, <3>5, <3>6, <3>7
    <2>. QED  BY <1>6, <1>7, <1>15, <2>1, <2>2, LeaveCounts
  <1>18. CASE Len(frames) # 1 /\ k # 0
    <2>1. /\ heap' = Released(heap, cleaned) /\ GoTo(a, frames[k].hindex)
          /\ run' = "running" /\ UNCHANGED << mem, leaks >>
      BY <1>6, <1>18
    <2>2. PICK pc : pc = frames[k].hindex
      OBVIOUS
    <2>3. k \in 2 .. Len(frames) /\ k \in 1 .. Len(frames) /\ frames[k].ftype = "HAND"
      BY <1>9, <1>10, <1>18
    <2>4. /\ pc \in 0 .. Len(Code(created, a.proc))
          /\ FramesAt(created, a.proc, pc) = SubSeq(frames, 1, k)
      BY <1>8, <2>2, <2>3, HandlerFrames DEF FramesOf
    <2>5. PICK b : b = [a EXCEPT !.pc = pc]
      OBVIOUS
    <2>6. b \in Calls /\ b.proc = a.proc /\ b.pc = pc /\ b.env = a.env /\ b.base = a.base
      <3>1. pc \in Nat
        BY <2>4
      <3>. QED  BY <1>8, <2>5, <3>1, MovedFacts
    <2>7. FramesOf(created, b) = SubSeq(frames, 1, k)
      BY <2>4, <2>6 DEF FramesOf
    <2>8. cleaned = CutCells(created, a, k)
      BY <1>4, <1>8, <1>18 DEF PadCleans, CutCells
    <2>9. /\ cleaned \subseteq OwnCells(created, a)
          /\ OwnCells(created, b) = OwnCells(created, a) \ cleaned
      BY <1>8, <2>3, <2>6, <2>7, <2>8, OwnCut
    <2>10. acts' = Append(Front(acts), b)
      BY <2>1, <2>2, <2>5 DEF GoTo
    <2>11. Based' /\ Open' = Open \ cleaned /\ cleaned \subseteq Open
      BY <1>1, <1>6, <1>7, <2>6, <2>9, <2>10, OpenMoved DEF CInv
    <2>12. IsFiniteSet(Open)
      BY <1>7, OpenFacts DEF CInv
    <2>13. \A h \in Heap : {c \in Open' : mem'[c].ref = h}
                            = {c \in Open \ cleaned : mem[c].ref = h}
      BY <2>1, <2>11
    <2>14. ASSUME NEW h \in Heap
           PROVE  /\ heap'[h].ref = heap[h].ref
                  /\ heap'[h].count - leaks'[h] = heap[h].count - leaks[h]
                       - Cardinality({c \in cleaned : mem[c].ref = h})
      <3>1. PICK n \in Nat : n = Cardinality({c \in cleaned : mem[c].ref = h})
        BY <1>15, <2>1
      <3>. QED  BY <1>13, <1>15, <2>1, <3>1
    <2>15. CountsExact'
      <3>1. /\ CountsExact /\ Heap' = Heap /\ copied' = copied /\ cleaned \in SUBSET Open
            /\ \A h \in Heap : heap'[h].ref = heap[h].ref
        BY <1>6, <1>15, <2>1, <2>11 DEF CInv
      <3>2. \A h \in Heap : heap'[h].count - leaks'[h] = heap[h].count - leaks[h]
                               - Cardinality({c \in cleaned : mem[c].ref = h})
        BY <2>14
      <3>. QED  BY ONLY EInv, EInv', <2>12, <2>13, <3>1, <3>2, StillExact
    <2>. QED  BY <2>11, <2>15 DEF CInv
  <1>. QED  BY <1>16, <1>17, <1>18

LEMMA ExecuteCounts ==
    ASSUME EInv, EInv', CInv, Execute, UNCHANGED vars PROVE CInv'
  BY PushCounts, PopCounts, OperateCounts, JumpCounts, LoadRefCounts, StoreRefCounts,
     CopyElementCounts, FailCounts, CallProcedureCounts, ReturnCounts, ThrowCounts,
     UnwindCounts DEF Execute

LEMMA NoCalls == \A m : OpenIn(m, << >>) = {1}
  BY DEF OpenIn

LEMMA StartCounts ==
    ASSUME EInv, EInv', CInv, Start, UNCHANGED vars PROVE CInv'
  <1>1. PICK b : b = Enter(0, 1)
    OBVIOUS
  <1>2. /\ run = "idle" /\ acts' = << b >> /\ run' = "running"
        /\ UNCHANGED << heap, mem, leaks, copied, created >>
    BY <1>1 DEF Start, vars
  <1>3. acts = << >> /\ Len(mem) = 1 /\ Ready(created) /\ created.procs # << >>
    BY <1>2 DEF EInv, CInv, Based, Ready
  <1>4. b = [proc |-> 0, pc |-> 0, env |-> [i \in {None} |-> 1], base |-> 1]
    BY <1>1, <1>3 DEF Enter
  <1>5. Based'
    <2>1. << b >>[1].base = 1
      BY <1>4
    <2>. QED  BY <1>2, <2>1 DEF Based
  <1>6. CellsOf(created, b) = {1}
    <2>1. Exact(created, 0)
      <3>1. Placed(created, << b >>[1], mem', Limit(<< b >>, mem', 1))
        <4>1. 1 \in 1 .. Len(<< b >>)
          OBVIOUS
        <4>. QED  BY <1>2, <4>1 DEF EInv, Stacked
      <3>2. 0 \in Ids(created.procs)
        BY <1>4, <3>1 DEF Placed
      <3>. QED  BY <1>3, <3>2 DEF Ready
    <2>2. FramesOf(created, b) = Base(created, 0)
      BY <1>4, <2>1, WalkFacts DEF FramesOf, Exact, Complete
    <2>3. /\ Len(Base(created, 0)) = 1 /\ Base(created, 0)[1].at = None
          /\ Base(created, 0)[1].ftype = "REGNR"
      BY DEF Base
    <2>4. RegFrames(FramesOf(created, b), 1) = {1}
      BY <2>2, <2>3 DEF RegFrames
    <2>5. Cell(b, FramesOf(created, b)[1]) = 1
      BY <1>4, <2>2, <2>3 DEF Cell
    <2>. QED  BY <2>4, <2>5 DEF CellsOf
  <1>7. Open' = Open
    <2>1. OpenIn(created, << b >>) = {1}
      BY <1>6 DEF OpenIn
    <2>2. Open' = OpenIn(created', acts')
      BY OpenIsNext
    <2>. QED  BY <1>2, <1>3, <2>1, <2>2, OpenIs, NoCalls
  <1>. QED  BY <1>2, <1>5, <1>7, SameCounts DEF CInv

LEMMA IdleCounts ==
    ASSUME EInv, CInv, run = "idle", UNCHANGED evars PROVE CInv'
  <1>1. acts = << >> /\ UNCHANGED << heap, mem, acts, run, leaks, copied >>
    BY DEF EInv, evars
  <1>2. Open' = Open
    BY <1>1, OpenIs, OpenIsNext, NoCalls
  <1>3. Based'
    BY <1>1 DEF CInv, Based
  <1>. QED  BY <1>1, <1>2, <1>3, SameCounts DEF CInv

LEMMA InitCounts == ExecInit => CInv
  <1> SUFFICES ASSUME ExecInit PROVE CInv
    OBVIOUS
  <1>1. PICK refs \in InitialRefs :
           /\ heap = [h \in DOMAIN refs.heap |->
                        [ref |-> refs.heap[h],
                         count |-> Cardinality({g \in DOMAIN refs.heap :
                                                  refs.heap[g] = h})
                                   + IF refs.io = h THEN 1 ELSE 0]]
           /\ mem = << [reg |-> None, ftype |-> "REGNR", ref |-> refs.io] >>
           /\ leaks = [h \in DOMAIN refs.heap |-> 0]
    BY DEF ExecInit
  <1>2. acts = << >> /\ Open = {1}
    BY OpenIs, NoCalls DEF ExecInit
  <1>3. Heap = DOMAIN refs.heap /\ IsFiniteSet(DOMAIN refs.heap)
    BY <1>1, RefsAssumption DEF Heap
  <1>4. Based
    BY <1>1, <1>2 DEF Based
  <1>5. ASSUME NEW h \in Heap
        PROVE  heap[h].count = HeldBy(h) + leaks[h]
    <2>1. {g \in Heap : heap[g].ref = h} = {g \in DOMAIN refs.heap : refs.heap[g] = h}
      BY <1>1, <1>3
    <2>2. PICK n \in Nat : n = Cardinality({g \in DOMAIN refs.heap : refs.heap[g] = h})
      BY <1>3, CountType
    <2>3. Cardinality({c \in Open : mem[c].ref = h}) = IF refs.io = h THEN 1 ELSE 0
      <3>1. mem[1].ref = refs.io
        BY <1>1
      <3>2. CASE refs.io = h
        <4>1. {c \in Open : mem[c].ref = h} = {1}
          BY <1>2, <3>1, <3>2
        <4>. QED  BY <3>2, <4>1, FS_Singleton
      <3>3. CASE refs.io # h
        <4>1. {c \in Open : mem[c].ref = h} = {}
          BY <1>2, <3>1, <3>3
        <4>. QED  BY <3>3, <4>1, FS_EmptySet
      <3>. QED  BY <3>2, <3>3
    <2>4. heap[h].count = n + IF refs.io = h THEN 1 ELSE 0
      BY <1>1, <1>3, <2>2
    <2>5. leaks[h] = 0
      BY <1>1, <1>3
    <2>. QED  BY <2>1, <2>2, <2>3, <2>4, <2>5 DEF HeldBy
  <1>. QED  BY <1>4, <1>5 DEF CInv, CountsExact

LEMMA NextCounts ==
    EInv /\ EInv' /\ CInv /\ [ENext]_<< vars, evars >> => CInv'
  <1> SUFFICES ASSUME EInv, EInv', CInv, [ENext]_<< vars, evars >> PROVE CInv'
    OBVIOUS
  <1>1. CASE run = "idle" /\ Next /\ UNCHANGED evars
    BY <1>1, IdleCounts
  <1>2. CASE Start /\ UNCHANGED vars
    BY <1>2, StartCounts
  <1>3. CASE Execute /\ UNCHANGED vars
    BY <1>3, ExecuteCounts
  <1>4. CASE UNCHANGED << vars, evars >>
    <2>1. UNCHANGED << heap, mem, acts, run, leaks, copied, created >>
      BY <1>4 DEF vars, evars
    <2>2. Open' = Open /\ Based'
      BY <2>1, OpenIs, OpenIsNext DEF CInv, Based
    <2>. QED  BY <2>1, <2>2, SameCounts DEF CInv
  <1>. QED  BY <1>1, <1>2, <1>3, <1>4 DEF ENext

(* CountsExact: until LDE or STE has written one reference over another, a *)
(* heap variable's count is the number of references to it that are open   *)
(* or in the heap, and of those abandoned (mdata.cpp:463-483, 524-626):    *)
(* through branches, calls, returns and exceptions no count is ever too    *)
(* low.                                                                    *)
THEOREM CountsStayExact == ESpec => []CountsExact
  <1>1. Init /\ ExecInit => CInv
    BY InitCounts
  <1>2. CInv => CountsExact
    BY DEF CInv
  <1>3. ESpec => []EInv
    BY StackInvariance, PTL
  <1>. QED  BY <1>1, <1>2, <1>3, NextCounts, PTL DEF ESpec
=============================================================================
