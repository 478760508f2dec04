------------------------- MODULE ProcFramesProofs -------------------------
(***************************************************************************)
(* Proofs about ProcFrames, for every procedure length, offset range and   *)
(* set of registers.  What the ProcCon operators return is in              *)
(* ProcConProofs; here are the invariant's steps, one lemma per kind of    *)
(* instruction, and the theorems.                                          *)
(***************************************************************************)
EXTENDS ProcFrames, ProcConProofs

(* FramesNested, spelled out over the positions of the frames.             *)
NestedFrames(c) ==
    /\ c.frames[1].firstInstr = 0
    /\ \A k \in 1 .. Len(c.frames) :
          /\ c.frames[k].firstInstr <= c.instrCount
          /\ \A t \in c.frames[k].jumps : t >= c.frames[k].firstInstr /\ t < PROC_INSTR_MAX
          /\ \A j \in 1 .. k - 1 : /\ c.frames[j].firstInstr < c.frames[k].firstInstr
                                   /\ c.frames[k].firstInstr \notin c.frames[j].jumps

(* FramesNested, frame by frame over the numbers 1 .. Len.                 *)
LEMMA NestedFacts ==
    ASSUME NEW c, ConType(c, Regs)
    PROVE  FramesNested(c) <=> NestedFrames(c)
  <1>1. DOMAIN c.frames = 1 .. Len(c.frames)
    BY ConFacts
  <1>. QED  BY <1>1 DEF FramesNested, NestedFrames

(* Frames stay nested when the last one goes.                              *)
LEMMA PopNested ==
    ASSUME NEW c, NEW d, ConType(c, Regs), ConType(d, Regs), NestedFrames(c),
           Len(d.frames) = Len(c.frames) - 1, d.instrCount = c.instrCount + 1,
           \A k \in 1 .. Len(d.frames) : d.frames[k] = c.frames[k]
    PROVE  NestedFrames(d)
  <1> DEFINE n == Len(d.frames)
  <1>1. /\ n \in Nat \ {0} /\ Len(c.frames) = n + 1
        /\ c.instrCount \in Nat /\ d.instrCount = c.instrCount + 1
        /\ \A k \in 1 .. n : k \in 1 .. n + 1 /\ d.frames[k] = c.frames[k]
        /\ \A k \in 1 .. n : d.frames[k].firstInstr \in Nat
    <2>1. n \in Nat \ {0} /\ Len(c.frames) \in Nat \ {0} /\ c.instrCount \in Nat
      BY ConFacts
    <2>2. \A k \in 1 .. n : d.frames[k].firstInstr \in Nat
      BY ConFacts
    <2>. QED  BY <2>1, <2>2
  <1> HIDE DEF n
  <1>2. d.frames[1].firstInstr = 0
    BY <1>1 DEF NestedFrames
  <1>3. ASSUME NEW k \in 1 .. n
        PROVE  /\ d.frames[k].firstInstr <= d.instrCount
               /\ \A t \in d.frames[k].jumps : t >= d.frames[k].firstInstr /\ t < PROC_INSTR_MAX
               /\ \A j \in 1 .. k - 1 : /\ d.frames[j].firstInstr < d.frames[k].firstInstr
                                        /\ d.frames[k].firstInstr \notin d.frames[j].jumps
    <2>1. \A j \in 1 .. k : d.frames[j] = c.frames[j] /\ j \in 1 .. n + 1
      BY <1>1
    <2>2. d.frames[k].firstInstr <= c.instrCount
      BY <2>1, <1>1 DEF NestedFrames
    <2>3. \A t \in d.frames[k].jumps : t >= d.frames[k].firstInstr /\ t < PROC_INSTR_MAX
      BY <2>1, <1>1 DEF NestedFrames
    <2>4. ASSUME NEW j \in 1 .. k - 1
          PROVE  /\ d.frames[j].firstInstr < d.frames[k].firstInstr
                 /\ d.frames[k].firstInstr \notin d.frames[j].jumps
      <3>1. d.frames[j] = c.frames[j] /\ d.frames[k] = c.frames[k] /\ k \in 1 .. Len(c.frames)
        BY <2>1, <1>1
      <3>. QED  BY <3>1 DEF NestedFrames
    <2>. QED  BY <2>2, <2>3, <2>4, <1>1
  <1>. QED  BY <1>2, <1>3 DEF NestedFrames, n

-----------------------------------------------------------------------------
(* How the frames d of the next state may follow from the frames c of the  *)
(* current one, whatever the instruction: c's frames, or all but the last  *)
(* of them, or one more, with at most one jump added to the last.  Grows   *)
(* covers default instructions, jumps and the three pushes.                *)
Grows(c, d, new) ==
    /\ Len(d.frames) >= Len(c.frames)
    /\ \A k \in 1 .. Len(c.frames) :
          /\ d.frames[k].firstInstr = c.frames[k].firstInstr
          /\ c.frames[k].jumps \subseteq d.frames[k].jumps
    /\ \A k \in Len(c.frames) + 1 .. Len(d.frames) :
          d.frames[k].firstInstr = c.instrCount + 1
    /\ \A s \in new : /\ s.to \in Nat
                       /\ s.open = {d.frames[j].firstInstr : j \in 1 .. Len(d.frames)}
                       /\ s.to \in d.frames[Len(d.frames)].jumps

(* The accepted instruction's effect on the whole state; one that puts     *)
(* nothing in the code makes no jump.                                      *)
Accepted(d, new) ==
    /\ con.instrCount < PROC_INSTR_MAX
    /\ con' = [d EXCEPT !.instrCount = @ + 1]
    /\ exc' = OK
    /\ opened' = Append(opened, OpenIn(con))
    /\ \/ stored' = Append(stored, con.instrCount)
       \/ stored' = stored /\ new = {}
    /\ sites' = sites \cup new
    /\ \A s \in new : s.lands = Len(stored) + s.to - con.instrCount

Refused == /\ con' = con /\ exc' \in Exceptions
           /\ opened' = opened /\ stored' = stored /\ sites' = sites

(* The frames of the next state, and the history it appends to.            *)
LEMMA AcceptedFacts ==
    ASSUME IInv, NEW d, ConType(d, Regs), d.instrCount = con.instrCount,
           NEW new, new \subseteq Sites,
           Accepted(d, new)
    PROVE  /\ ConType(con', Regs) /\ exc' \in Verdicts
           /\ con'.frames = d.frames
           /\ con'.instrCount = con.instrCount + 1
           /\ opened' \in Seq(SUBSET Nat) /\ Len(opened') = con'.instrCount
           /\ stored' \in Seq(Nat) /\ sites' \subseteq Sites
           /\ CountedAsStored'
           /\ \A i \in 0 .. con.instrCount - 1 : opened'[i + 1] = opened[i + 1]
           /\ opened'[con.instrCount + 1] = OpenIn(con)
  <1>1. d \in [frames : Seq(FrameRecords(Regs)), instrCount : 0 .. PROC_INSTR_MAX]
        /\ d.frames # << >>
    BY DEF ConType
  <1>2. con' = [d EXCEPT !.instrCount = d.instrCount + 1]
    BY DEF Accepted
  <1>3. /\ con.instrCount \in Nat /\ con.instrCount < PROC_INSTR_MAX
        /\ PROC_INSTR_MAX \in Nat
    BY ConFacts, BoundsAssumption DEF IInv, TypeOK, Accepted
  <1>4. /\ con'.frames = d.frames /\ con'.instrCount = con.instrCount + 1
        /\ con' \in [frames : Seq(FrameRecords(Regs)), instrCount : 0 .. PROC_INSTR_MAX]
    BY <1>1, <1>2, <1>3
  <1>5. OpenIn(con) \in SUBSET Nat
    <2>1. \A k \in DOMAIN con.frames : con.frames[k].firstInstr \in Nat
      BY ConFacts DEF IInv, TypeOK
    <2>. QED  BY ONLY <2>1 DEF OpenIn
  <1>6. /\ opened \in Seq(SUBSET Nat) /\ Len(opened) = con.instrCount
        /\ opened' = Append(opened, OpenIn(con))
    BY DEF IInv, TypeOK, Accepted
  <1>7. /\ opened' \in Seq(SUBSET Nat) /\ Len(opened') = con.instrCount + 1
        /\ \A i \in 1 .. con.instrCount : opened'[i] = opened[i]
        /\ opened'[con.instrCount + 1] = OpenIn(con)
    BY <1>3, <1>5, <1>6
  <1>8. \A i \in 0 .. con.instrCount - 1 : opened'[i + 1] = opened[i + 1]
    BY <1>3, <1>7
  <1>9. exc' \in Verdicts /\ sites' \subseteq Sites
    BY DEF Accepted, Verdicts, IInv, TypeOK
  <1>10. stored' \in Seq(Nat) /\ CountedAsStored'
    <2>1. /\ stored \in Seq(Nat) /\ Len(stored) <= con.instrCount
          /\ \/ stored' = Append(stored, con.instrCount)
             \/ stored' = stored /\ new = {}
      BY DEF IInv, TypeOK, CountedAsStored, Accepted
    <2>2. /\ stored' \in Seq(Nat) /\ Len(stored') <= con'.instrCount
          /\ Len(stored) \in Nat
      <3>1. /\ con.instrCount \in Nat /\ con'.instrCount = con.instrCount + 1
            /\ stored \in Seq(Nat) /\ Len(stored) \in Nat
            /\ Len(stored) <= con.instrCount
        BY <1>3, <1>4, <2>1
      <3>2. CASE stored' = Append(stored, con.instrCount)
        BY ONLY <3>1, <3>2
      <3>3. CASE stored' = stored
        BY ONLY <3>1, <3>3
      <3>. QED  BY <3>1, <3>2, <3>3, <2>1
    <2>3. ASSUME Whole'
          PROVE  /\ \A n \in DOMAIN stored' : stored'[n] = n - 1
                 /\ \A s \in sites' : s.lands = s.to
      <3>1. Len(stored') = con.instrCount + 1
        BY <2>3, <1>4 DEF Whole
      <3>2. stored' = Append(stored, con.instrCount) /\ Len(stored) = con.instrCount
        BY <3>1, <2>1, <1>3
      <3>3. /\ \A n \in DOMAIN stored : stored[n] = n - 1
            /\ \A s \in sites : s.lands = s.to
        BY <3>2 DEF IInv, CountedAsStored, Whole
      <3>4. \A n \in DOMAIN stored' : stored'[n] = n - 1
        BY <3>2, <3>3, <2>1, <1>3
      <3>5. ASSUME NEW s \in new PROVE s.lands = s.to
        <4>1. s.lands = Len(stored) + s.to - con.instrCount /\ s.to \in Nat
          BY DEF Accepted, Sites
        <4>. QED  BY ONLY <4>1, <3>2, <1>3
      <3>. QED  BY <3>3, <3>4, <3>5 DEF Accepted
    <2>. QED  BY <2>2, <2>3 DEF CountedAsStored
  <1>. QED
    BY <1>1, <1>4, <1>7, <1>8, <1>9, <1>10 DEF ConType

(* A refused instruction changes no part of the invariant.                 *)
LEMMA RefusedStep ==
    ASSUME IInv, Refused
    PROVE  IInv'
  <1>1. TypeOK'
    BY DEF IInv, TypeOK, Refused, Verdicts
  <1>2. OpenSinceBegun'
    BY DEF IInv, OpenSinceBegun, Refused
  <1>3. (\A s \in sites : Landed(s) \/ Pending(s))'
    BY DEF IInv, Landed, Pending, Refused
  <1>4. CountedAsStored'
    BY DEF IInv, CountedAsStored, Whole, Refused
  <1>. QED  BY <1>1, <1>2, <1>3, <1>4 DEF IInv

(* An accepted instruction that keeps every open frame.                    *)
LEMMA GrowStep ==
    ASSUME IInv, NEW d, ConType(d, Regs), d.instrCount = con.instrCount,
           NEW new, new \subseteq Sites,
           Grows(con, d, new), Accepted(d, new), FramesNested(con')
    PROVE  IInv'
  <1>1. /\ ConType(con', Regs) /\ exc' \in Verdicts
        /\ con'.frames = d.frames
        /\ con'.instrCount = con.instrCount + 1
        /\ opened' \in Seq(SUBSET Nat) /\ Len(opened') = con'.instrCount
        /\ stored' \in Seq(Nat) /\ sites' \subseteq Sites /\ CountedAsStored'
        /\ \A i \in 0 .. con.instrCount - 1 : opened'[i + 1] = opened[i + 1]
        /\ opened'[con.instrCount + 1] = OpenIn(con)
    BY AcceptedFacts
  <1>2. /\ con.instrCount \in Nat
        /\ Len(con.frames) \in Nat \ {0} /\ DOMAIN con.frames = 1 .. Len(con.frames)
        /\ Len(d.frames) \in Nat \ {0} /\ DOMAIN d.frames = 1 .. Len(d.frames)
        /\ \A k \in 1 .. Len(con.frames) : con.frames[k].firstInstr \in Nat
    BY ConFacts DEF IInv, TypeOK
  <1>3. TypeOK'
    BY <1>1 DEF TypeOK
  <1>4. OpenSinceBegun'
    <2>1. SUFFICES ASSUME NEW k \in 1 .. Len(d.frames),
                          NEW i \in d.frames[k].firstInstr .. con.instrCount
                   PROVE  d.frames[k].firstInstr \in opened'[i + 1]
      <3>1. /\ con'.frames = d.frames /\ con'.instrCount - 1 = con.instrCount
            /\ DOMAIN con'.frames = 1 .. Len(d.frames)
        BY <1>1, <1>2
      <3>. QED  BY ONLY <3>1, <2>1 DEF OpenSinceBegun
    <2>2. k \in 1 .. Len(con.frames) /\ d.frames[k].firstInstr = con.frames[k].firstInstr
      <3>1. CASE k > Len(con.frames)
        <4>1. d.frames[k].firstInstr = con.instrCount + 1
          BY <3>1, <1>2 DEF Grows
        <4>. QED  BY <4>1, <1>2
      <3>2. CASE k <= Len(con.frames)
        BY <3>2, <1>2 DEF Grows
      <3>. QED  BY <3>1, <3>2, <1>2
    <2>3. con.frames[k].firstInstr \in Nat /\ i \in con.frames[k].firstInstr .. con.instrCount
      BY <2>2, <1>2
    <2>4. CASE i = con.instrCount
      BY <2>4, <2>2, <1>1, <1>2 DEF OpenIn
    <2>5. CASE i # con.instrCount
      <3>1. i \in con.frames[k].firstInstr .. con.instrCount - 1 /\ i \in 0 .. con.instrCount - 1
        BY <2>3, <2>5, <1>2
      <3>2. con.frames[k].firstInstr \in opened[i + 1]
        BY <3>1, <2>2, <1>2 DEF IInv, OpenSinceBegun
      <3>. QED  BY <3>1, <3>2, <2>2, <1>1
    <2>. QED  BY <2>4, <2>5
  <1>5. ASSUME NEW s \in sites' PROVE (Landed(s) \/ Pending(s))'
    <2>1. CASE s \in new
      <3>1. /\ s.to \in d.frames[Len(d.frames)].jumps
            /\ s.open = {d.frames[j].firstInstr : j \in 1 .. Len(d.frames)}
        BY <2>1 DEF Grows
      <3>2. Len(d.frames) \in DOMAIN con'.frames
        BY <1>1, <1>2
      <3>3. Pending(s)'
        BY <3>1, <3>2, <1>1 DEF Pending
      <3>. QED  BY <3>3
    <2>2. CASE s \in sites /\ Landed(s)
      <3>1. s.to \in Nat
        BY <2>2 DEF IInv, TypeOK, Sites
      <3>2. s.to \in 0 .. con.instrCount - 1
        BY <2>2, <3>1, <1>2 DEF Landed
      <3>3. opened'[s.to + 1] = opened[s.to + 1]
        BY <3>2, <1>1
      <3>4. s.open \subseteq opened'[s.to + 1]
        BY <3>3, <2>2 DEF Landed
      <3>5. s.to < con'.instrCount
        BY <3>2, <1>1, <1>2
      <3>. QED  BY ONLY <3>4, <3>5 DEF Landed
    <2>3. CASE s \in sites /\ Pending(s)
      <3>1. PICK k \in 1 .. Len(con.frames) :
                   /\ s.to \in con.frames[k].jumps
                   /\ s.open = {con.frames[j].firstInstr : j \in 1 .. k}
        BY <2>3, <1>2 DEF Pending
      <3>2. k \in 1 .. Len(d.frames) /\ s.to \in d.frames[k].jumps
        BY <3>1, <1>2 DEF Grows
      <3>3. \A j \in 1 .. k : d.frames[j].firstInstr = con.frames[j].firstInstr
        BY <1>2 DEF Grows
      <3>4. s.open = {d.frames[j].firstInstr : j \in 1 .. k}
        BY <3>1, <3>3
      <3>5. con'.frames = d.frames /\ DOMAIN con'.frames = 1 .. Len(d.frames)
        BY <1>1, <1>2
      <3>6. Pending(s)'
        BY ONLY <3>2, <3>4, <3>5 DEF Pending
      <3>. QED  BY <3>6
    <2>4. s \in new \/ s \in sites
      BY <1>5 DEF Accepted
    <2>5. \A r \in sites : Landed(r) \/ Pending(r)
      BY DEF IInv
    <2>6. \/ s \in new
          \/ s \in sites /\ Landed(s)
          \/ s \in sites /\ Pending(s)
      BY <2>4, <2>5
    <2>. QED  BY ONLY <2>1, <2>2, <2>3, <2>6
  <1>. QED  BY <1>1, <1>3, <1>4, <1>5 DEF IInv

(* An accepted POP: the jumps of the closed frame have landed, the latest  *)
(* of them on the POP itself.                                              *)
LEMMA PopStep ==
    ASSUME IInv, Len(con.frames) # 1,
           \A t \in con.frames[Len(con.frames)].jumps : ~(t > con.instrCount),
           Accepted(PopFrame(con), {})
    PROVE  IInv'
  <1> DEFINE d == PopFrame(con)
             n == Len(con.frames)
  <1>1. /\ ConType(d, Regs) /\ d.instrCount = con.instrCount
        /\ Len(d.frames) = n - 1
        /\ \A k \in 1 .. Len(d.frames) : d.frames[k] = con.frames[k]
    <2>1. ConType(con, Regs)
      BY DEF IInv, TypeOK
    <2>. QED  BY ONLY <2>1, Len(con.frames) # 1, PopFrameFacts
  <1> HIDE DEF d
  <1>2. /\ ConType(con', Regs) /\ exc' \in Verdicts
        /\ con'.frames = d.frames
        /\ con'.instrCount = con.instrCount + 1
        /\ opened' \in Seq(SUBSET Nat) /\ Len(opened') = con'.instrCount
        /\ stored' \in Seq(Nat) /\ sites' \subseteq Sites /\ CountedAsStored'
        /\ \A i \in 0 .. con.instrCount - 1 : opened'[i + 1] = opened[i + 1]
        /\ opened'[con.instrCount + 1] = OpenIn(con)
    BY <1>1, AcceptedFacts DEF d
  <1>3. sites' = sites
    BY DEF Accepted
  <1>4. /\ con.instrCount \in Nat /\ n \in Nat \ {0}
        /\ DOMAIN con.frames = 1 .. n /\ DOMAIN d.frames = 1 .. n - 1
        /\ \A k \in 1 .. n : /\ con.frames[k].firstInstr \in Nat
                             /\ con.frames[k].jumps \in SUBSET Nat
    BY <1>1, ConFacts DEF IInv, TypeOK
  <1>5. FramesNested(con')
    <2>1. NestedFrames(con)
      BY NestedFacts DEF IInv, TypeOK
    <2>2. NestedFrames(con')
      BY <2>1, <1>1, <1>2, PopNested DEF IInv, TypeOK
    <2>. QED  BY <2>2, <1>2, NestedFacts
  <1>6. TypeOK'
    BY <1>2, <1>5 DEF TypeOK
  (* What OpenSinceBegun says of every frame, and of the POP itself.       *)
  <1>7. ASSUME NEW k \in 1 .. n,
               NEW i \in con.frames[k].firstInstr .. con.instrCount
        PROVE  con.frames[k].firstInstr \in opened'[i + 1]
    <2>1. CASE i = con.instrCount
      BY <2>1, <1>2, <1>4 DEF OpenIn
    <2>2. CASE i # con.instrCount
      <3>1. i \in con.frames[k].firstInstr .. con.instrCount - 1 /\ i \in 0 .. con.instrCount - 1
        BY <2>2, <1>4
      <3>2. con.frames[k].firstInstr \in opened[i + 1]
        BY <3>1, <1>4 DEF IInv, OpenSinceBegun
      <3>. QED  BY <3>1, <3>2, <1>2
    <2>. QED  BY <2>1, <2>2
  <1>8. OpenSinceBegun'
    <2>1. SUFFICES ASSUME NEW k \in 1 .. Len(d.frames),
                          NEW i \in d.frames[k].firstInstr .. con.instrCount
                   PROVE  d.frames[k].firstInstr \in opened'[i + 1]
      <3>1. DOMAIN con'.frames = 1 .. Len(d.frames) /\ con'.instrCount - 1 = con.instrCount
        BY <1>1, <1>2, <1>4
      <3>. QED  BY <3>1, <1>2 DEF OpenSinceBegun
    <2>2. k \in 1 .. n /\ d.frames[k] = con.frames[k]
      BY <1>1, <1>4
    <2>. QED  BY <2>2, <1>7
  <1>9. ASSUME NEW s \in sites PROVE (Landed(s) \/ Pending(s))'
    <2>1. s.to \in Nat
      BY DEF IInv, TypeOK, Sites
    <2>2. CASE Landed(s)
      <3>1. s.to \in 0 .. con.instrCount - 1
        BY <2>1, <2>2, <1>4 DEF Landed
      <3>2. opened'[s.to + 1] = opened[s.to + 1]
        BY <3>1, <1>2
      <3>3. s.open \subseteq opened'[s.to + 1]
        BY <3>2, <2>2 DEF Landed
      <3>4. s.to < con'.instrCount
        BY <3>1, <1>2, <1>4
      <3>. QED  BY ONLY <3>3, <3>4 DEF Landed
    <2>3. CASE Pending(s)
      <3>1. PICK k \in 1 .. n : /\ s.to \in con.frames[k].jumps
                               /\ s.open = {con.frames[j].firstInstr : j \in 1 .. k}
        BY <2>3, <1>4 DEF Pending
      <3>2. CASE k = n
        <4>1. s.to <= con.instrCount
          BY <3>1, <3>2, <2>1, <1>4
        <4>2. \A j \in 1 .. k : con.frames[j].firstInstr <= s.to
          <5>1. \A m \in 1 .. n :
                    /\ \A t \in con.frames[m].jumps : t >= con.frames[m].firstInstr
                    /\ \A j \in 1 .. m - 1 : con.frames[j].firstInstr < con.frames[m].firstInstr
            BY NestedFacts DEF IInv, TypeOK, NestedFrames
          <5>2. con.frames[k].firstInstr <= s.to
            BY <5>1, <3>1, <2>1, <1>4
          <5>3. \A j \in 1 .. k - 1 : con.frames[j].firstInstr < con.frames[k].firstInstr
            BY <5>1
          <5>4. \A j \in 1 .. n : con.frames[j].firstInstr \in Nat
            BY <1>4
          <5>5. k \in Nat /\ n \in Nat /\ k \in 1 .. n
            BY <1>4, <3>1
          <5>. QED  BY ONLY <5>2, <5>3, <5>4, <5>5, <2>1
        <4>3. \A j \in 1 .. k : con.frames[j].firstInstr \in opened'[s.to + 1]
          BY <4>1, <4>2, <2>1, <1>7, <1>4, <3>2
        <4>4. s.to < con'.instrCount
          BY <4>1, <2>1, <1>2, <1>4
        <4>5. s.open = {con.frames[j].firstInstr : j \in 1 .. k}
          BY <3>1
        <4>6. s.open \subseteq opened'[s.to + 1]
          BY ONLY <4>3, <4>5
        <4>. QED  BY ONLY <4>4, <4>6 DEF Landed
      <3>3. CASE k # n
        <4>1. k \in 1 .. n - 1
          BY <3>3, <1>4
        <4>2. /\ d.frames[k] = con.frames[k]
              /\ \A j \in 1 .. k : d.frames[j] = con.frames[j]
          BY <4>1, <1>1, <1>4
        <4>3. s.to \in d.frames[k].jumps /\ s.open = {d.frames[j].firstInstr : j \in 1 .. k}
          BY <4>2, <3>1
        <4>4. con'.frames = d.frames /\ k \in DOMAIN d.frames
          BY <4>1, <1>2, <1>4
        <4>. QED  BY ONLY <4>3, <4>4 DEF Pending
      <3>. QED  BY <3>2, <3>3
    <2>4. Landed(s) \/ Pending(s)
      BY DEF IInv
    <2>. QED  BY ONLY <2>2, <2>3, <2>4
  <1>. QED  BY <1>2, <1>3, <1>6, <1>8, <1>9 DEF IInv

(* Frames stay nested when a jump is added to the last one, when one is    *)
(* pushed, and when both happen.                                           *)
LEMMA GrowNested ==
    ASSUME NEW c, NEW e, ConType(c, Regs), ConType(e, Regs), NestedFrames(c),
           e.instrCount = c.instrCount + 1,
           Len(e.frames) = Len(c.frames) \/ Len(e.frames) = Len(c.frames) + 1,
           \A k \in 1 .. Len(c.frames) : e.frames[k].firstInstr = c.frames[k].firstInstr,
           \A k \in 1 .. Len(c.frames) : \A t \in e.frames[k].jumps :
               \/ t \in c.frames[k].jumps
               \/ /\ k = Len(e.frames)
                  /\ t >= c.frames[k].firstInstr /\ t < PROC_INSTR_MAX,
           Len(e.frames) = Len(c.frames) + 1 =>
               /\ e.frames[Len(e.frames)].firstInstr = c.instrCount + 1
               /\ \A t \in e.frames[Len(e.frames)].jumps :
                      t >= c.instrCount + 1 /\ t < PROC_INSTR_MAX
               /\ \A k \in 1 .. Len(c.frames) : c.instrCount + 1 \notin c.frames[k].jumps
    PROVE  NestedFrames(e)
  <1> DEFINE n == Len(c.frames)
             m == Len(e.frames)
  <1>1. /\ n \in Nat \ {0} /\ m \in Nat \ {0} /\ m \in {n, n + 1}
        /\ c.instrCount \in Nat
    BY ConFacts
  <1>2. \A k \in 1 .. n : c.frames[k].firstInstr \in Nat /\ c.frames[k].jumps \in SUBSET Nat
    BY ConFacts
  <1> HIDE DEF n, m
  <1>3. e.frames[1].firstInstr = 0
    BY <1>1 DEF NestedFrames, n
  <1>4. ASSUME NEW k \in 1 .. m
        PROVE  /\ e.frames[k].firstInstr <= e.instrCount
               /\ \A t \in e.frames[k].jumps : t >= e.frames[k].firstInstr /\ t < PROC_INSTR_MAX
               /\ \A j \in 1 .. k - 1 : /\ e.frames[j].firstInstr < e.frames[k].firstInstr
                                        /\ e.frames[k].firstInstr \notin e.frames[j].jumps
    <2>1. CASE k \in 1 .. n
      <3>1. /\ e.frames[k].firstInstr = c.frames[k].firstInstr
            /\ c.frames[k].firstInstr <= c.instrCount
            /\ \A t \in c.frames[k].jumps : t >= c.frames[k].firstInstr /\ t < PROC_INSTR_MAX
        BY <2>1 DEF NestedFrames, n
      <3>2. \A t \in e.frames[k].jumps : t >= e.frames[k].firstInstr /\ t < PROC_INSTR_MAX
        BY <2>1, <3>1 DEF n, m
      <3>3. ASSUME NEW j \in 1 .. k - 1
            PROVE  /\ e.frames[j].firstInstr < e.frames[k].firstInstr
                   /\ e.frames[k].firstInstr \notin e.frames[j].jumps
        <4>1. j \in 1 .. n /\ j # m
          BY <2>1, <1>1
        <4>2. /\ c.frames[j].firstInstr < c.frames[k].firstInstr
              /\ c.frames[k].firstInstr \notin c.frames[j].jumps
          BY <2>1 DEF NestedFrames, n
        <4>3. e.frames[j].firstInstr = c.frames[j].firstInstr
              /\ e.frames[j].jumps \subseteq c.frames[j].jumps
          BY <4>1 DEF n, m
        <4>. QED  BY <4>2, <4>3, <3>1
      <3>. QED  BY <3>1, <3>2, <3>3, <2>1, <1>1, <1>2
    <2>2. CASE k = n + 1 /\ m = n + 1
      <3>1. /\ e.frames[k].firstInstr = c.instrCount + 1
            /\ \A t \in e.frames[k].jumps : t >= c.instrCount + 1 /\ t < PROC_INSTR_MAX
            /\ \A j \in 1 .. n : c.instrCount + 1 \notin c.frames[j].jumps
        BY <2>2 DEF n, m
      <3>2. ASSUME NEW j \in 1 .. n
            PROVE  /\ e.frames[j].firstInstr < e.frames[k].firstInstr
                   /\ e.frames[k].firstInstr \notin e.frames[j].jumps
        <4>1. c.frames[j].firstInstr <= c.instrCount
          BY DEF NestedFrames, n
        <4>2. e.frames[j].firstInstr = c.frames[j].firstInstr
              /\ e.frames[j].jumps \subseteq c.frames[j].jumps
          BY <2>2, <1>1 DEF n, m
        <4>3. c.frames[j].firstInstr \in Nat /\ c.instrCount \in Nat
          BY <1>1, <1>2
        <4>4. e.frames[j].firstInstr < e.frames[k].firstInstr
          BY ONLY <4>1, <4>2, <4>3, <3>1
        <4>5. e.frames[k].firstInstr \notin e.frames[j].jumps
          BY ONLY <4>2, <3>1
        <4>. QED  BY <4>4, <4>5
      <3>. QED  BY <3>1, <3>2, <2>2, <1>1
    <2>. QED  BY <2>1, <2>2, <1>1
  <1>. QED  BY <1>3, <1>4 DEF NestedFrames, m

(* addProcInstr: its two refusals, or the instruction accepted.            *)
LEMMA AddStep ==
    ASSUME IInv, NEW v \in Verdicts, NEW d, ConType(d, Regs), v # OK => d = con,
           NEW js, Add([exc |-> v, con |-> d], js),
           v = OK => \A s \in js : s.lands = Len(stored) + s.to - con.instrCount
    PROVE  Refused \/ (v = OK /\ Accepted(d, js))
  <1> DEFINE o == [exc |-> v, con |-> d]
             added == AddInstr(con, o)
  <1>1. con.instrCount \in Nat /\ PROC_INSTR_MAX \in Nat
    BY ConFacts, BoundsAssumption DEF IInv, TypeOK
  <1>2. CASE con.instrCount >= PROC_INSTR_MAX
    <2>1. added.exc = "Range" /\ added.con = con
      BY <1>2 DEF AddInstr, Outcome, OK
    <2>. QED  BY <2>1 DEF Add, Count, Refused, Exceptions, OK
  <1>3. CASE ~(con.instrCount >= PROC_INSTR_MAX) /\ v # OK
    <2>1. added.exc = v /\ added.con = con
      BY <1>3 DEF AddInstr
    <2>. QED  BY <2>1, <1>3 DEF Add, Count, Refused, Verdicts
  <1>4. CASE ~(con.instrCount >= PROC_INSTR_MAX) /\ v = OK
    <2>1. added = [o EXCEPT !.con.instrCount = @ + 1]
      BY <1>4 DEF AddInstr
    <2>2. added.exc = OK /\ added.con = [d EXCEPT !.instrCount = @ + 1]
      BY <2>1, <1>4
    <2>. QED  BY <2>2, <1>1, <1>4 DEF Add, Count, Accepted
  <1>. QED  BY <1>2, <1>3, <1>4

-----------------------------------------------------------------------------
(* One lemma per action.                                                   *)
LEMMA DefaultStep == ASSUME IInv, AddDefault PROVE IInv'
  <1> DEFINE v == ApplyDefault(con)
  <1>1. ConType(con, Regs) /\ NestedFrames(con)
    BY NestedFacts DEF IInv, TypeOK
  <1>2. v \in Verdicts /\ Add([exc |-> v, con |-> con], {})
    BY DefaultFacts DEF AddDefault, Outcome
  <1> HIDE DEF v
  <1>3. Refused \/ Accepted(con, {})
    BY <1>1, <1>2, AddStep
  <1>4. CASE Accepted(con, {})
    <2>1. ConType(con', Regs) /\ con'.frames = con.frames /\ con'.instrCount = con.instrCount + 1
      BY <1>1, <1>4, AcceptedFacts
    <2>2. Len(con.frames) \in Nat
      BY <1>1, ConFacts
    <2>3. NestedFrames(con')
      BY <1>1, <2>1, <2>2, GrowNested
    <2>4. Grows(con, con, {})
      BY <2>2 DEF Grows
    <2>. QED  BY <1>1, <1>4, <2>1, <2>3, <2>4, GrowStep, NestedFacts
  <1>. QED  BY <1>3, <1>4, RefusedStep

(* A jump instruction (JMP, JNZ, JG, ...) keeps the invariant: its target  *)
(* joins the jumps of the last frame, which is where it was made.          *)
LEMMA JumpStep == ASSUME IInv, NEW offset \in Int, AddJumpInstr(offset) PROVE IInv'
  <1> DEFINE site == JumpSite(con, offset)
             n == Len(con.frames)
             index == con.instrCount + offset
  <1>1. ConType(con, Regs) /\ NestedFrames(con)
    BY NestedFacts DEF IInv, TypeOK
  <1>2. PICK v, d :
              /\ v \in Verdicts
              /\ ApplyInstrOffset(con, offset) = [exc |-> v, con |-> d]
              /\ ConType(d, Regs)
              /\ v # OK => d = con
              /\ v = OK =>
                    /\ index \in Nat
                    /\ d = AddJump(con, index)
                    /\ \/ index > con.instrCount /\ index < PROC_INSTR_MAX
                       \/ index <= con.instrCount /\ index >= con.frames[n].firstInstr
    BY <1>1, OffsetFacts
  <1>3. Add([exc |-> v, con |-> d], {site})
    BY <1>2 DEF AddJumpInstr
  <1>4. Refused \/ (v = OK /\ Accepted(d, {site}))
    <2>1. Len(stored) \in Nat /\ con.instrCount \in Nat
      BY <1>1, ConFacts DEF IInv, TypeOK
    <2>2. site.lands = Len(stored) + site.to - con.instrCount
      BY <2>1 DEF JumpSite
    <2> HIDE DEF site
    <2>. QED  BY <1>2, <1>3, <2>2, AddStep
  <1>5. CASE v = OK /\ Accepted(d, {site})
    <2>1. /\ con.instrCount \in Nat /\ n \in Nat \ {0} /\ PROC_INSTR_MAX \in Nat
          /\ con.instrCount < PROC_INSTR_MAX
          /\ \A k \in 1 .. n : con.frames[k].firstInstr \in Nat
          /\ DOMAIN con.frames = 1 .. n
      BY <1>1, <1>5, ConFacts, BoundsAssumption DEF Accepted
    <2>2. /\ d.instrCount = con.instrCount /\ Len(d.frames) = n
          /\ \A k \in 1 .. n :
                /\ d.frames[k].firstInstr = con.frames[k].firstInstr
                /\ k # n => d.frames[k].jumps = con.frames[k].jumps
          /\ d.frames[n].jumps = con.frames[n].jumps \cup {index}
      <3>1. index \in Nat /\ d = AddJump(con, index)
        BY <1>2, <1>5
      <3> HIDE DEF index
      <3>. QED  BY <1>1, <3>1, AddJumpFacts
    <2>3. /\ index \in Nat /\ index >= con.frames[n].firstInstr /\ index < PROC_INSTR_MAX
      <3>1. con.frames[n].firstInstr <= con.instrCount
        BY <1>1, <2>1 DEF NestedFrames
      <3>. QED  BY <1>2, <1>5, <2>1, <3>1
    <2>4. /\ site.to = index
          /\ site.open = {con.frames[k].firstInstr : k \in 1 .. n}
          /\ {site} \subseteq Sites
      <3>1. OpenIn(con) = {con.frames[k].firstInstr : k \in 1 .. n}
        BY ONLY <2>1 DEF OpenIn
      <3>2. OpenIn(con) \in SUBSET Nat
        BY ONLY <2>1, <3>1
      <3>3. site = [to |-> index, lands |-> Len(stored) + offset, open |-> OpenIn(con)]
        BY DEF JumpSite
      <3>4. Len(stored) + offset \in Int
        BY DEF IInv, TypeOK
      <3> HIDE DEF site, index, n
      <3>. QED  BY ONLY <2>1, <2>3, <3>1, <3>2, <3>3, <3>4 DEF Sites
    <2> HIDE DEF site, index, n
    <2>5. site.open = {d.frames[j].firstInstr : j \in 1 .. Len(d.frames)}
      BY ONLY <2>2, <2>4
    <2>6. Grows(con, d, {site})
      <3>1. /\ site.to \in Nat
            /\ site.to \in d.frames[Len(d.frames)].jumps
        BY <2>1, <2>2, <2>3, <2>4
      <3>2. /\ Len(d.frames) >= Len(con.frames)
            /\ \A k \in 1 .. Len(con.frames) :
                  /\ d.frames[k].firstInstr = con.frames[k].firstInstr
                  /\ con.frames[k].jumps \subseteq d.frames[k].jumps
            /\ Len(con.frames) + 1 .. Len(d.frames) = {}
        <4>1. Len(d.frames) = Len(con.frames) /\ Len(con.frames) = n
          BY <2>2 DEF n
        <4>2. ASSUME NEW k \in 1 .. n
              PROVE  /\ d.frames[k].firstInstr = con.frames[k].firstInstr
                     /\ con.frames[k].jumps \subseteq d.frames[k].jumps
          BY ONLY <4>2, <2>2
        <4>3. n \in Nat
          BY <2>1
        <4>. QED  BY ONLY <4>1, <4>2, <4>3
      <3>. QED  BY <2>5, <3>1, <3>2 DEF Grows
    <2>7. ConType(con', Regs) /\ con'.frames = d.frames /\ con'.instrCount = con.instrCount + 1
      BY <1>2, <1>5, <2>2, <2>4, AcceptedFacts
    <2>8. \A k \in 1 .. Len(con.frames) : \A t \in con'.frames[k].jumps :
               \/ t \in con.frames[k].jumps
               \/ /\ k = Len(con'.frames)
                  /\ t >= con.frames[k].firstInstr /\ t < PROC_INSTR_MAX
      BY <2>2, <2>3, <2>7 DEF n
    <2>9. NestedFrames(con')
      <3>1. Len(con'.frames) = Len(con.frames) /\ Len(con.frames) \in Nat
        BY <2>1, <2>2, <2>7 DEF n
      <3>2. \A k \in 1 .. Len(con.frames) : con'.frames[k].firstInstr = con.frames[k].firstInstr
        BY <2>2, <2>7 DEF n
      <3>. QED  BY <1>1, <2>7, <2>8, <3>1, <3>2, GrowNested
    <2>. QED  BY <1>2, <1>5, <2>2, <2>4, <2>6, <2>7, <2>9, GrowStep, NestedFacts
  <1>. QED  BY <1>4, <1>5, RefusedStep

(* A PUSH keeps the invariant: the frame it opens is new and has no jumps. *)
LEMMA PushStep ==
    ASSUME IInv, NEW ftype \in FrameTypes, NEW reg \in Regs, AddPush(ftype, reg)
    PROVE  IInv'
  <1> DEFINE n == Len(con.frames)
  <1>1. ConType(con, Regs) /\ NestedFrames(con)
    BY NestedFacts DEF IInv, TypeOK
  <1>2. PICK v, d :
              /\ v \in Verdicts
              /\ ApplyBeginFrame(con, ftype, reg) = [exc |-> v, con |-> d]
              /\ ConType(d, Regs)
              /\ v # OK => d = con
              /\ v = OK => /\ d = PushFrame(con, ftype, reg)
                           /\ \A k \in 1 .. n : con.instrCount + 1 \notin con.frames[k].jumps
    BY <1>1, BeginFacts
  <1>3. Add([exc |-> v, con |-> d], {})
    BY <1>2 DEF AddPush
  <1>4. Refused \/ (v = OK /\ Accepted(d, {}))
    BY <1>2, <1>3, AddStep
  <1>5. CASE v = OK /\ Accepted(d, {})
    <2>1. con.instrCount \in Nat /\ n \in Nat \ {0} /\ DOMAIN con.frames = 1 .. n
      BY <1>1, ConFacts
    <2>2. /\ d.instrCount = con.instrCount /\ Len(d.frames) = n + 1
          /\ \A k \in 1 .. n : d.frames[k] = con.frames[k]
          /\ d.frames[n + 1].firstInstr = con.instrCount + 1
          /\ d.frames[n + 1].jumps = {}
      BY <1>1, <1>2, <1>5, PushFrameFacts
    <2> HIDE DEF n
    <2>3. Grows(con, d, {})
      BY <2>1, <2>2 DEF Grows, n
    <2>4. ConType(con', Regs) /\ con'.frames = d.frames /\ con'.instrCount = con.instrCount + 1
      BY <1>2, <1>5, <2>2, AcceptedFacts
    <2>5. NestedFrames(con')
      <3>1. Len(con'.frames) = Len(con.frames) + 1
        BY <2>2, <2>4 DEF n
      <3>2. \A k \in 1 .. Len(con.frames) : con'.frames[k] = con.frames[k]
        BY <2>2, <2>4 DEF n
      <3>3. /\ con'.frames[Len(con'.frames)].firstInstr = con.instrCount + 1
            /\ con'.frames[Len(con'.frames)].jumps = {}
            /\ \A k \in 1 .. Len(con.frames) : con.instrCount + 1 \notin con.frames[k].jumps
        BY <1>2, <1>5, <2>2, <2>4, <3>1 DEF n
      <3>. QED  BY <1>1, <2>4, <3>1, <3>2, <3>3, GrowNested
    <2>. QED  BY <1>2, <1>5, <2>2, <2>3, <2>4, <2>5, GrowStep, NestedFacts
  <1>. QED  BY <1>4, <1>5, RefusedStep

(* A PUSHH keeps the invariant, refused at either of its two checks or     *)
(* accepted with its handler's jump recorded inside the new frame.         *)
LEMMA PushHStep == ASSUME IInv, NEW offset \in Int, AddPushH(offset) PROVE IInv'
  <1> DEFINE n == Len(con.frames)
             index == con.instrCount + offset
  <1>1. /\ ConType(con, Regs) /\ NestedFrames(con)
        /\ con.instrCount \in Nat /\ n \in Nat \ {0} /\ PROC_INSTR_MAX \in Nat
        /\ DOMAIN con.frames = 1 .. n
        /\ \A k \in 1 .. n : con.frames[k].firstInstr \in Nat
    BY NestedFacts, ConFacts, BoundsAssumption DEF IInv, TypeOK
  <1>2. "HAND" \in FrameTypes /\ PRESET_REG_ED \in Regs
    BY RegsAssumption DEF FrameTypes
  (* The frame begun.                                                      *)
  <1>3. PICK u, b :
              /\ u \in Verdicts
              /\ ApplyBeginFrame(con, "HAND", PRESET_REG_ED) = [exc |-> u, con |-> b]
              /\ ConType(b, Regs)
              /\ u # OK => b = con
              /\ u = OK => /\ b = PushFrame(con, "HAND", PRESET_REG_ED)
                           /\ \A k \in 1 .. n : con.instrCount + 1 \notin con.frames[k].jumps
    BY <1>1, <1>2, BeginFacts
  <1>4. CASE u # OK
    <2>1. ApplyBeginHandler(con, offset) = [exc |-> u, con |-> con]
      <3>1. ApplyBeginFrame(con, "HAND", PRESET_REG_ED) = [exc |-> u, con |-> con]
        BY <1>3, <1>4
      <3>. QED  BY ONLY <1>4, <3>1 DEF ApplyBeginHandler
    <2>2. Add([exc |-> u, con |-> con], {JumpSite(con, offset)})
      BY <2>1 DEF AddPushH
    <2>3. Refused
      <3>1. u \in Verdicts
        BY <1>3
      <3>. QED  BY <1>1, <1>4, <2>2, <3>1, AddStep
    <2>. QED  BY <2>3, RefusedStep
  <1>5. CASE u = OK
    <2>1. /\ b.instrCount = con.instrCount /\ Len(b.frames) = n + 1
          /\ \A k \in 1 .. n : b.frames[k] = con.frames[k]
          /\ b.frames[n + 1].firstInstr = con.instrCount + 1
          /\ b.frames[n + 1].jumps = {}
          /\ PopFrame(b) = con
      BY <1>1, <1>2, <1>3, <1>5, PushFrameFacts
    (* The handler's jump made from inside it.                             *)
    <2>2. PICK v, d :
                /\ v \in Verdicts
                /\ ApplyInstrOffset(b, offset) = [exc |-> v, con |-> d]
                /\ ConType(d, Regs)
                /\ v # OK => d = b
                /\ v = OK =>
                      /\ b.instrCount + offset \in Nat
                      /\ d = AddJump(b, b.instrCount + offset)
                      /\ \/ /\ b.instrCount + offset > b.instrCount
                            /\ b.instrCount + offset < PROC_INSTR_MAX
                         \/ /\ b.instrCount + offset <= b.instrCount
                            /\ b.instrCount + offset >= b.frames[Len(b.frames)].firstInstr
      BY <1>3, OffsetFacts
    <2>3. CASE v # OK
      <3>1. ApplyBeginHandler(con, offset) = [exc |-> v, con |-> con]
        <4>1. ApplyBeginFrame(con, "HAND", PRESET_REG_ED) = [exc |-> OK, con |-> b]
          BY <1>3, <1>5
        <4>2. ApplyInstrOffset(b, offset) = [exc |-> v, con |-> b]
          BY <2>2, <2>3
        <4>3. PopFrame(b) = con
          BY <2>1
        <4>. QED  BY ONLY <2>3, <4>1, <4>2, <4>3 DEF ApplyBeginHandler
      <3>2. Add([exc |-> v, con |-> con], {JumpSite(con, offset)})
        BY <3>1 DEF AddPushH
      <3>3. Refused
        <4>1. v \in Verdicts
          BY <2>2
        <4>. QED  BY <1>1, <2>3, <3>2, <4>1, AddStep
      <3>. QED  BY <3>3, RefusedStep
    <2>4. CASE v = OK
      <3> DEFINE site == JumpSite(d, offset)
      <3>1. ApplyBeginHandler(con, offset) = [exc |-> v, con |-> d]
        <4>1. ApplyBeginFrame(con, "HAND", PRESET_REG_ED) = [exc |-> OK, con |-> b]
          BY <1>3, <1>5
        <4>2. ApplyInstrOffset(b, offset) = [exc |-> OK, con |-> d]
          BY <2>2, <2>4
        <4>. QED  BY ONLY <2>4, <4>1, <4>2 DEF ApplyBeginHandler
      <3>2. Add([exc |-> v, con |-> d], {site})
        BY <3>1 DEF AddPushH
      <3>3. Refused \/ Accepted(d, {site})
        <4>1. Len(stored) \in Nat /\ con.instrCount \in Nat
          BY <1>1 DEF IInv, TypeOK
        <4>2. site.lands = Len(stored) + site.to - con.instrCount
          BY <4>1 DEF JumpSite
        <4> HIDE DEF site
        <4>. QED  BY <2>2, <2>4, <3>2, <4>2, AddStep
      <3>4. CASE Accepted(d, {site})
        <4>1. /\ index \in Nat /\ d = AddJump(b, index)
              /\ index >= con.instrCount + 1 /\ index < PROC_INSTR_MAX
          BY <1>1, <2>1, <2>2, <2>4
        <4> HIDE DEF index
        <4>2. /\ d.instrCount = b.instrCount /\ Len(d.frames) = Len(b.frames)
              /\ \A k \in 1 .. Len(b.frames) :
                    /\ d.frames[k].firstInstr = b.frames[k].firstInstr
                    /\ k # Len(b.frames) => d.frames[k].jumps = b.frames[k].jumps
              /\ d.frames[Len(b.frames)].jumps = b.frames[Len(b.frames)].jumps \cup {index}
          <5>1. ConType(b, Regs) /\ index \in Nat /\ d = AddJump(b, index)
            BY <1>3, <4>1
          <5>. QED  BY ONLY <5>1, AddJumpFacts
        <4>3. /\ d.instrCount = con.instrCount /\ Len(d.frames) = n + 1
              /\ \A k \in 1 .. n :
                    /\ d.frames[k].firstInstr = con.frames[k].firstInstr
                    /\ d.frames[k].jumps = con.frames[k].jumps
              /\ d.frames[n + 1].firstInstr = con.instrCount + 1
              /\ d.frames[n + 1].jumps = {index}
          <5> HIDE DEF n
          <5>1. n \in Nat \ {0} /\ Len(b.frames) = n + 1
            BY <1>1, <2>1
          <5>2. /\ \A k \in 1 .. n : b.frames[k] = con.frames[k]
                /\ b.frames[n + 1].jumps = {}
                /\ b.frames[n + 1].firstInstr = con.instrCount + 1
            BY <2>1
          <5>3. ASSUME NEW k \in 1 .. n
                PROVE  /\ d.frames[k].firstInstr = con.frames[k].firstInstr
                       /\ d.frames[k].jumps = con.frames[k].jumps
            <6>1. k \in 1 .. Len(b.frames) /\ k # Len(b.frames)
              BY ONLY <5>1
            <6>. QED  BY ONLY <6>1, <5>2, <4>2
          <5>4. /\ d.frames[n + 1].firstInstr = con.instrCount + 1
                /\ d.frames[n + 1].jumps = {index}
            BY ONLY <5>1, <5>2, <4>2
          <5>. QED  BY <5>1, <5>3, <5>4, <4>2, <2>1
        <4>4. /\ site.to = index
              /\ site.open = {d.frames[k].firstInstr : k \in 1 .. Len(d.frames)}
              /\ {site} \subseteq Sites
          <5>1. /\ DOMAIN d.frames = 1 .. Len(d.frames)
                /\ \A k \in 1 .. Len(d.frames) : d.frames[k].firstInstr \in Nat
            BY <2>2, ConFacts
          <5>2. Len(stored) + offset \in Int
            BY DEF IInv, TypeOK
          <5>. QED  BY <5>1, <5>2, <1>1, <4>1 DEF JumpSite, OpenIn, index, Sites
        <4> HIDE DEF site
        <4>5. Grows(con, d, {site})
          <5>1. /\ site.to \in Nat
                /\ site.to \in d.frames[Len(d.frames)].jumps
            <6> HIDE DEF n
            <6>. QED  BY <1>1, <4>1, <4>3, <4>4
          <5>2. /\ Len(d.frames) >= Len(con.frames)
                /\ \A k \in 1 .. Len(con.frames) :
                      /\ d.frames[k].firstInstr = con.frames[k].firstInstr
                      /\ con.frames[k].jumps \subseteq d.frames[k].jumps
                /\ Len(con.frames) + 1 .. Len(d.frames) = {Len(d.frames)}
                /\ d.frames[Len(d.frames)].firstInstr = con.instrCount + 1
            <6> HIDE DEF n
            <6>. QED  BY <1>1, <4>3 DEF n
          <5>. QED  BY <4>4, <5>1, <5>2 DEF Grows
        <4>6. /\ ConType(con', Regs) /\ con'.frames = d.frames
              /\ con'.instrCount = con.instrCount + 1
          BY <2>2, <3>4, <4>3, <4>4, AcceptedFacts
        <4>7. NestedFrames(con')
          <5>1. Len(con'.frames) = Len(con.frames) + 1
            BY <4>3, <4>6
          <5>2. \A k \in 1 .. Len(con.frames) :
                   /\ con'.frames[k].firstInstr = con.frames[k].firstInstr
                   /\ con'.frames[k].jumps = con.frames[k].jumps
            BY <4>3, <4>6
          <5>3. /\ con'.frames[Len(con'.frames)].firstInstr = con.instrCount + 1
                /\ con'.frames[Len(con'.frames)].jumps = {index}
                /\ index >= con.instrCount + 1 /\ index < PROC_INSTR_MAX
                /\ \A k \in 1 .. Len(con.frames) : con.instrCount + 1 \notin con.frames[k].jumps
            BY <1>3, <1>5, <4>1, <4>3, <4>6
          <5> HIDE DEF n
          <5>. QED  BY <1>1, <4>6, <5>1, <5>2, <5>3, GrowNested
        <4>. QED  BY <2>2, <3>4, <4>3, <4>4, <4>5, <4>6, <4>7, GrowStep, NestedFacts
      <3>. QED  BY <3>3, <3>4, RefusedStep
    <2>. QED  BY <2>3, <2>4
  <1>. QED  BY <1>4, <1>5

(* A POP keeps the invariant: applyEndFrame has seen no jump past it.      *)
LEMMA PopInstrStep == ASSUME IInv, AddPop PROVE IInv'
  <1>1. ConType(con, Regs)
    BY DEF IInv, TypeOK
  <1>2. PICK v, d :
              /\ v \in Verdicts
              /\ ApplyEndFrame(con) = [exc |-> v, con |-> d]
              /\ ConType(d, Regs)
              /\ v # OK => d = con
              /\ v = OK => /\ d = PopFrame(con) /\ Len(con.frames) # 1
                           /\ \A t \in con.frames[Len(con.frames)].jumps :
                                  ~(t > con.instrCount)
    BY <1>1, EndFacts
  <1>3. Add([exc |-> v, con |-> d], {})
    BY <1>2 DEF AddPop
  <1>4. Refused \/ (v = OK /\ Accepted(d, {}))
    BY <1>2, <1>3, AddStep
  <1>5. CASE v = OK /\ Accepted(d, {})
    BY <1>2, <1>5, PopStep
  <1>. QED  BY <1>4, <1>5, RefusedStep

(* An ILL keeps the invariant: the frames stay as they are, and the two    *)
(* ways of counting part.                                                  *)
LEMMA IllStep == ASSUME IInv, AddIll PROVE IInv'
  <1> DEFINE added == AddInstr(con, Outcome(OK, con, con))
  <1>1. /\ ConType(con, Regs) /\ NestedFrames(con)
        /\ con.instrCount \in Nat /\ PROC_INSTR_MAX \in Nat
    BY NestedFacts, ConFacts, BoundsAssumption DEF IInv, TypeOK
  <1>2. CASE con.instrCount >= PROC_INSTR_MAX
    <2>1. added.exc = "Range" /\ added.con = con
      BY <1>2 DEF AddInstr, Outcome, OK
    <2>2. Refused
      BY <2>1 DEF AddIll, Count, Refused, Exceptions, OK
    <2>. QED  BY <2>2, RefusedStep
  <1>3. CASE ~(con.instrCount >= PROC_INSTR_MAX)
    <2>1. added.exc = OK /\ added.con = [con EXCEPT !.instrCount = @ + 1]
      BY <1>3 DEF AddInstr, Outcome
    <2>2. Accepted(con, {})
      BY <1>1, <1>3, <2>1 DEF AddIll, Count, Accepted
    <2>3. ConType(con', Regs) /\ con'.frames = con.frames /\ con'.instrCount = con.instrCount + 1
      BY <1>1, <2>2, AcceptedFacts
    <2>4. Len(con.frames) \in Nat
      BY <1>1, ConFacts
    <2>5. NestedFrames(con')
      BY <1>1, <2>3, <2>4, GrowNested
    <2>6. Grows(con, con, {})
      BY <2>4 DEF Grows
    <2>. QED  BY <1>1, <2>2, <2>3, <2>5, <2>6, GrowStep, NestedFacts
  <1>. QED  BY <1>2, <1>3

-----------------------------------------------------------------------------
(* A new procedure: the outermost frame, no instructions, no jumps.        *)
LEMMA InitIInv == Init => IInv
  <1> SUFFICES ASSUME Init PROVE IInv
    OBVIOUS
  <1>1. PICK io \in Regs : con = NewProcCon(io)
    BY DEF Init
  <1> DEFINE f == [firstInstr |-> 0, jumps |-> {}, ftype |-> "REGNR", reg |-> io]
  <1>2. f \in FrameRecords(Regs)
    BY DEF FrameRecords, FrameTypes
  <1>3. con = [frames |-> << f >>, instrCount |-> 0]
    BY <1>1 DEF NewProcCon
  <1>4. f.firstInstr = 0 /\ f.jumps = {}
    OBVIOUS
  <1> HIDE DEF f
  <1>5. /\ << f >> \in Seq(FrameRecords(Regs)) /\ << f >> # << >>
        /\ DOMAIN << f >> = {1} /\ << f >>[1] = f
    BY <1>2
  <1>6. ConType(con, Regs)
    BY <1>3, <1>5, BoundsAssumption DEF ConType
  <1>7. FramesNested(con)
    BY <1>3, <1>4, <1>5 DEF FramesNested
  <1>8. TypeOK
    BY <1>3, <1>6, <1>7 DEF TypeOK, Init, Verdicts
  <1>9. OpenSinceBegun
    BY <1>3, <1>4, <1>5 DEF OpenSinceBegun
  <1>10. CountedAsStored
    BY <1>3 DEF CountedAsStored, Init
  <1>. QED  BY <1>8, <1>9, <1>10 DEF IInv, Init

(* Every instruction, accepted or refused, keeps the invariant.            *)
LEMMA NextIInv == IInv /\ [Next]_vars => IInv'
  <1> SUFFICES ASSUME IInv, [Next]_vars PROVE IInv'
    OBVIOUS
  <1>1. CASE AddDefault
    BY <1>1, DefaultStep
  <1>2. ASSUME NEW offset \in Offsets, AddJumpInstr(offset) PROVE IInv'
    BY <1>2, JumpStep, BoundsAssumption DEF Offsets
  <1>3. ASSUME NEW reg \in Regs, NEW ftype \in {"REGNR", "REGR"}, AddPush(ftype, reg)
        PROVE  IInv'
    BY <1>3, PushStep DEF FrameTypes
  <1>4. ASSUME NEW offset \in Offsets, AddPushH(offset) PROVE IInv'
    BY <1>4, PushHStep, BoundsAssumption DEF Offsets
  <1>5. CASE AddPop
    BY <1>5, PopInstrStep
  <1>6. CASE UNCHANGED vars
    BY <1>6 DEF vars, IInv, TypeOK, OpenSinceBegun, Landed, Pending, CountedAsStored,
                Whole
  <1>7. CASE AddIll
    BY <1>7, IllStep
  <1>. QED  BY <1>1, <1>2, <1>3, <1>4, <1>5, <1>6, <1>7 DEF Next

(* The invariant of the history holds of every procedure a client can      *)
(* build instruction by instruction, with ILL among them: by the builder's *)
(* count every jump is among an open frame's or has landed with its frames *)
(* open, and that count is the code's until the first ILL.                 *)
THEOREM Invariance == Spec => []IInv
  BY InitIInv, NextIInv, PTL DEF Spec

(* addProcInstr keeps the frame stack well formed: nested frames, jumps    *)
(* inside their frame, and no outer jump to the start of an inner frame.   *)
THEOREM TypeCorrect == Spec => []TypeOK
  <1>1. IInv => TypeOK
    BY DEF IInv
  <1>. QED  BY <1>1, Invariance, PTL

(* By the builder's count, where a jump or handler has landed, the frames  *)
(* open where it was made are open.                                        *)
LEMMA CountedInside ==
    ASSUME IInv, NEW s \in sites, s.to < con.instrCount
    PROVE  s.open \subseteq opened[s.to + 1]
  <1>1. CASE Landed(s)
    BY <1>1 DEF Landed
  <1>2. CASE Pending(s)
    <2>1. /\ con.instrCount \in Nat /\ s.to \in Nat
          /\ DOMAIN con.frames = 1 .. Len(con.frames) /\ Len(con.frames) \in Nat
          /\ \A k \in 1 .. Len(con.frames) : con.frames[k].firstInstr \in Nat
          /\ NestedFrames(con)
      BY ConFacts, NestedFacts DEF IInv, TypeOK, Sites
    <2>2. PICK k \in 1 .. Len(con.frames) :
                 /\ s.to \in con.frames[k].jumps
                 /\ s.open = {con.frames[j].firstInstr : j \in 1 .. k}
      BY <1>2, <2>1 DEF Pending
    <2>3. s.to >= con.frames[k].firstInstr
      BY <2>1, <2>2 DEF NestedFrames
    <2>4. \A j \in 1 .. k - 1 : con.frames[j].firstInstr < con.frames[k].firstInstr
      BY <2>1, <2>2 DEF NestedFrames
    <2>5. ASSUME NEW j \in 1 .. k PROVE con.frames[j].firstInstr \in opened[s.to + 1]
      <3>1. j \in 1 .. Len(con.frames) /\ (j = k \/ j \in 1 .. k - 1)
        BY <2>1, <2>2
      <3>2. s.to \in con.frames[j].firstInstr .. con.instrCount - 1
        BY <2>1, <2>3, <2>4, <3>1
      <3>. QED  BY <3>1, <3>2, <2>1 DEF IInv, OpenSinceBegun
    <2>. QED  BY <2>2, <2>5
  <1>. QED  BY <1>1, <1>2 DEF IInv

(* Without ILL, what the code finds at an index is what was counted there. *)
LEMMA WholeFacts ==
    ASSUME IInv, Whole, NEW s \in sites
    PROVE  /\ s.lands = s.to /\ s.to \in Nat
           /\ InCode(s.lands) <=> s.to < con.instrCount
           /\ InCode(s.lands) => OpenAt(s.lands) = opened[s.to + 1]
  <1>1. /\ s.lands = s.to /\ s.to \in Nat
        /\ \A n \in DOMAIN stored : stored[n] = n - 1
        /\ stored \in Seq(Nat) /\ Len(stored) = con.instrCount
    BY DEF IInv, TypeOK, Sites, CountedAsStored, Whole
  <1>2. con.instrCount \in Nat
    BY ConFacts DEF IInv, TypeOK
  <1>3. InCode(s.lands) <=> s.to < con.instrCount
    BY <1>1, <1>2 DEF InCode
  <1>4. ASSUME InCode(s.lands) PROVE OpenAt(s.lands) = opened[s.to + 1]
    <2>1. s.to + 1 \in DOMAIN stored
      BY <1>1, <1>4 DEF InCode
    <2>2. stored[s.to + 1] = s.to
      BY <1>1, <2>1
    <2>. QED  BY <1>1, <2>2 DEF OpenAt
  <1>. QED  BY <1>1, <1>3, <1>4

(* In a procedure without ILL, no accepted jump or handler of the code     *)
(* leaves a frame that is open where it is made.                           *)
THEOREM JumpsStayInside == Spec => []NoJumpOutOfFrame
  <1>1. IInv => NoJumpOutOfFrame
    <2> SUFFICES ASSUME IInv, Whole, NEW s \in sites, InCode(s.lands)
                 PROVE  s.open \subseteq OpenAt(s.lands)
      BY DEF NoJumpOutOfFrame, StaysInside
    <2>. QED  BY WholeFacts, CountedInside
  <1>. QED  BY <1>1, Invariance, PTL

(* Every jump of a procedure createModule accepts leads to one of the      *)
(* instructions in its code, when no ILL was added to it.                  *)
THEOREM JumpsLandTheorem == Spec => []JumpsLand
  <1>1. IInv => JumpsLand
    <2> SUFFICES ASSUME IInv, Whole, Consistent(con), NEW s \in sites
                 PROVE  s.to < con.instrCount
      BY WholeFacts DEF JumpsLand
    <2>1. CASE Landed(s)
      BY <2>1 DEF Landed
    <2>2. CASE Pending(s)
      <3>1. DOMAIN con.frames = {1} /\ Top(con) = con.frames[1]
        BY ConFacts DEF IInv, TypeOK, Consistent, Top, Last
      <3>. QED  BY <2>2, <3>1 DEF Pending, Consistent
    <2>. QED  BY <2>1, <2>2 DEF IInv
  <1>. QED  BY <1>1, Invariance, PTL

(* Whatever an instruction's check returns, a verdict and the ProcCon it    *)
(* was given unless the verdict is OK, a refusal leaves con alone.         *)
LEMMA NoTraceStep ==
    ASSUME IInv, NEW v \in Verdicts, NEW d, ConType(d, Regs), v # OK => d = con,
           NEW js, Add([exc |-> v, con |-> d], js)
    PROVE  exc' # OK => con' = con
  BY DEF Add, Count, AddInstr, Outcome

(* A refused instruction leaves the procedure as it was, the PUSHH whose   *)
(* frame was pushed before its offset was refused among them.              *)
THEOREM RefusalLeavesNoTrace == Spec => RefusedChangesNothing
  <1>1. IInv /\ [Next]_vars => [exc' # OK => con' = con]_vars
    <2> SUFFICES ASSUME IInv, Next PROVE exc' # OK => con' = con
      OBVIOUS
    <2>1. ConType(con, Regs)
      BY DEF IInv, TypeOK
    <2>2. CASE AddDefault
      <3>1. Outcome(ApplyDefault(con), con, con) = [exc |-> ApplyDefault(con), con |-> con]
        BY DEF Outcome
      <3>2. ApplyDefault(con) \in Verdicts /\ Add([exc |-> ApplyDefault(con), con |-> con], {})
        BY <2>2, <3>1, DefaultFacts DEF AddDefault
      <3>. QED  BY <2>1, <3>2, NoTraceStep
    <2>3. ASSUME NEW offset \in Offsets, AddJumpInstr(offset)
          PROVE  exc' # OK => con' = con
      <3>1. offset \in Int
        BY BoundsAssumption DEF Offsets
      <3>2. PICK v, d :
                    /\ v \in Verdicts
                    /\ ApplyInstrOffset(con, offset) = [exc |-> v, con |-> d]
                    /\ ConType(d, Regs)
                    /\ v # OK => d = con
        BY <2>1, <3>1, OffsetFacts
      <3>3. Add([exc |-> v, con |-> d], {JumpSite(con, offset)})
        BY <2>3, <3>2 DEF AddJumpInstr
      <3>. QED  BY <3>2, <3>3, NoTraceStep
    <2>4. ASSUME NEW reg \in Regs, NEW ftype \in {"REGNR", "REGR"}, AddPush(ftype, reg)
          PROVE  exc' # OK => con' = con
      <3>1. ftype \in FrameTypes
        BY DEF FrameTypes
      <3>2. PICK v, d :
                    /\ v \in Verdicts
                    /\ ApplyBeginFrame(con, ftype, reg) = [exc |-> v, con |-> d]
                    /\ ConType(d, Regs)
                    /\ v # OK => d = con
        BY <2>1, <3>1, BeginFacts
      <3>3. Add([exc |-> v, con |-> d], {})
        BY <2>4, <3>2 DEF AddPush
      <3>. QED  BY <3>2, <3>3, NoTraceStep
    <2>5. ASSUME NEW offset \in Offsets, AddPushH(offset)
          PROVE  exc' # OK => con' = con
      <3>1. offset \in Int /\ PRESET_REG_ED \in Regs
        BY BoundsAssumption, RegsAssumption DEF Offsets
      <3>2. PICK v, d :
                    /\ v \in Verdicts
                    /\ ApplyBeginHandler(con, offset) = [exc |-> v, con |-> d]
                    /\ ConType(d, Regs)
                    /\ v # OK => d = con
        BY <2>1, <3>1, HandlerFacts
      <3>3. Add([exc |-> v, con |-> d], {JumpSite(ApplyBeginHandler(con, offset).con, offset)})
        BY <2>5, <3>2 DEF AddPushH
      <3>. QED  BY <3>2, <3>3, NoTraceStep
    <2>6. CASE AddPop
      <3>1. PICK v, d :
                    /\ v \in Verdicts
                    /\ ApplyEndFrame(con) = [exc |-> v, con |-> d]
                    /\ ConType(d, Regs)
                    /\ v # OK => d = con
        BY <2>1, EndFacts
      <3>3. Add([exc |-> v, con |-> d], {})
        BY <2>6, <3>1 DEF AddPop
      <3>. QED  BY <3>1, <3>3, NoTraceStep
    <2>7. CASE AddIll
      BY <2>7 DEF AddIll, Count, AddInstr, Outcome
    <2>. QED  BY <2>2, <2>3, <2>4, <2>5, <2>6, <2>7 DEF Next
  <1>. QED  BY <1>1, Invariance, PTL DEF Spec, RefusedChangesNothing

=============================================================================
