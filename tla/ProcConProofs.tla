--------------------------- MODULE ProcConProofs ---------------------------
(***************************************************************************)
(* What each operator of ProcCon returns, for every limit and every set R  *)
(* of registers: a verdict, and a ProcCon that is the one it was given     *)
(* unless the verdict is OK.  ProcFramesProofs and BuiltCodeProofs cite    *)
(* these lemmas.                                                           *)
(***************************************************************************)
EXTENDS ProcCon, TLAPS

(* The frames of a well-typed ProcCon, one at a time.                      *)
LEMMA ConFacts ==
    ASSUME NEW R, NEW c, ConType(c, R)
    PROVE  /\ c.instrCount \in Nat /\ c.instrCount <= PROC_INSTR_MAX
           /\ Len(c.frames) \in Nat \ {0} /\ DOMAIN c.frames = 1 .. Len(c.frames)
           /\ c.frames \in Seq(FrameRecords(R))
           /\ \A k \in 1 .. Len(c.frames) :
                 /\ c.frames[k] \in FrameRecords(R)
                 /\ c.frames[k].firstInstr \in Nat
                 /\ c.frames[k].jumps \in SUBSET Nat
  <1>1. /\ c.frames \in Seq(FrameRecords(R)) /\ c.frames # << >>
        /\ c.instrCount \in 0 .. PROC_INSTR_MAX
    BY DEF ConType
  <1>2. /\ Len(c.frames) \in Nat \ {0} /\ DOMAIN c.frames = 1 .. Len(c.frames)
        /\ \A k \in 1 .. Len(c.frames) : c.frames[k] \in FrameRecords(R)
    BY <1>1
  <1>3. \A f \in FrameRecords(R) : f.firstInstr \in Nat /\ f.jumps \in SUBSET Nat
    BY DEF FrameRecords
  <1>4. c.instrCount \in Nat /\ c.instrCount <= PROC_INSTR_MAX
    BY <1>1, BoundsAssumption
  <1>. QED  BY <1>1, <1>2, <1>3, <1>4

(* Pushing a frame keeps the others and adds one at the end.               *)
LEMMA PushFrameFacts ==
    ASSUME NEW R, NEW c, ConType(c, R), NEW ftype \in FrameTypes, NEW reg \in R,
           NEW d, d = PushFrame(c, ftype, reg)
    PROVE  /\ ConType(d, R)
           /\ d.instrCount = c.instrCount
           /\ Len(d.frames) = Len(c.frames) + 1
           /\ \A k \in 1 .. Len(c.frames) : d.frames[k] = c.frames[k]
           /\ d.frames[Len(d.frames)].firstInstr = c.instrCount + 1
           /\ d.frames[Len(d.frames)].jumps = {}
           /\ d.frames[Len(d.frames)].ftype = ftype
           /\ d.frames[Len(d.frames)].reg = reg
           /\ PopFrame(d) = c
  <1> DEFINE f == [firstInstr |-> c.instrCount + 1, jumps |-> {},
                   ftype |-> ftype, reg |-> reg]
  <1>1. f \in FrameRecords(R)
    <2>1. c.instrCount \in Nat
      BY ConFacts
    <2>. QED  BY ONLY <2>1, ftype \in FrameTypes, reg \in R DEF FrameRecords
  <1>2. d = [c EXCEPT !.frames = Append(c.frames, f)]
    BY DEF PushFrame
  <1>3. c \in [frames : Seq(FrameRecords(R)), instrCount : 0 .. PROC_INSTR_MAX]
    BY DEF ConType
  <1> HIDE DEF f
  <1>4. /\ d.instrCount = c.instrCount
        /\ d.frames = Append(c.frames, f)
    BY <1>2, <1>3
  <1>5. /\ Append(c.frames, f) \in Seq(FrameRecords(R))
        /\ Len(Append(c.frames, f)) = Len(c.frames) + 1
        /\ Append(c.frames, f)[Len(c.frames) + 1] = f
        /\ \A k \in 1 .. Len(c.frames) : Append(c.frames, f)[k] = c.frames[k]
    BY <1>1, <1>3
  <1>6. d \in [frames : Seq(FrameRecords(R)), instrCount : 0 .. PROC_INSTR_MAX]
    BY <1>2, <1>3, <1>5
  <1>7. SubSeq(Append(c.frames, f), 1, Len(Append(c.frames, f)) - 1) = c.frames
    BY <1>1, <1>3
  <1>8. PopFrame(d) = c
    <2>1. PopFrame(d) = [d EXCEPT !.frames = c.frames]
      BY <1>4, <1>7 DEF PopFrame, Front
    <2>. QED  BY <2>1, <1>2, <1>3
  <1>. QED
    BY <1>4, <1>5, <1>6, <1>8, ConFacts DEF ConType, f

(* Popping takes the last frame away.                                      *)
LEMMA PopFrameFacts ==
    ASSUME NEW R, NEW c, ConType(c, R), Len(c.frames) # 1
    PROVE  /\ ConType(PopFrame(c), R)
           /\ PopFrame(c).instrCount = c.instrCount
           /\ Len(PopFrame(c).frames) = Len(c.frames) - 1
           /\ \A k \in 1 .. Len(PopFrame(c).frames) :
                  PopFrame(c).frames[k] = c.frames[k]
  <1> DEFINE d == PopFrame(c)
  <1> DEFINE fs == SubSeq(c.frames, 1, Len(c.frames) - 1)
  <1>1. c \in [frames : Seq(FrameRecords(R)), instrCount : 0 .. PROC_INSTR_MAX]
    BY DEF ConType
  <1>2. d = [c EXCEPT !.frames = fs]
    BY DEF PopFrame, Front
  <1>3. Len(c.frames) \in Nat /\ Len(c.frames) > 1
    <2>1. Len(c.frames) \in Nat \ {0}
      BY ConFacts
    <2>2. \A n \in Nat \ {0} : n # 1 => n > 1
      OBVIOUS
    <2>. QED  BY <2>1, <2>2
  <1>4. /\ fs \in Seq(FrameRecords(R))
        /\ Len(fs) = Len(c.frames) - 1
        /\ \A k \in 1 .. Len(c.frames) - 1 : fs[k] = c.frames[k]
    <2>1. c.frames \in Seq(FrameRecords(R)) /\ Len(c.frames) - 1 <= Len(c.frames)
      BY <1>1, <1>3
    <2>2. \A k \in 1 .. Len(c.frames) : c.frames[k] \in FrameRecords(R)
      BY <2>1
    <2>. QED  BY <2>1, <2>2, <1>3
  <1> HIDE DEF fs
  <1>5. /\ d \in [frames : Seq(FrameRecords(R)), instrCount : 0 .. PROC_INSTR_MAX]
        /\ d.frames = fs /\ d.instrCount = c.instrCount
    BY <1>1, <1>2, <1>4
  <1> HIDE DEF d
  <1>6. fs # << >>
    BY <1>3, <1>4
  <1>. QED
    <2>1. /\ ConType(d, R) /\ d.instrCount = c.instrCount
          /\ Len(d.frames) = Len(c.frames) - 1
          /\ \A k \in 1 .. Len(d.frames) : d.frames[k] = c.frames[k]
      BY <1>3, <1>4, <1>5, <1>6 DEF ConType
    <2>. QED  BY <2>1 DEF d

(* Recording a jump touches the jumps of the last frame only.              *)
LEMMA AddJumpFacts ==
    ASSUME NEW R, NEW c, ConType(c, R), NEW index \in Nat,
           NEW d, d = AddJump(c, index)
    PROVE  /\ ConType(d, R)
           /\ d.instrCount = c.instrCount
           /\ Len(d.frames) = Len(c.frames)
           /\ \A k \in 1 .. Len(c.frames) :
                 /\ d.frames[k].firstInstr = c.frames[k].firstInstr
                 /\ d.frames[k].ftype = c.frames[k].ftype
                 /\ d.frames[k].reg = c.frames[k].reg
                 /\ k # Len(c.frames) => d.frames[k].jumps = c.frames[k].jumps
           /\ d.frames[Len(c.frames)].jumps = c.frames[Len(c.frames)].jumps \cup {index}
  <1> DEFINE n == Len(c.frames)
             g == [c.frames[n] EXCEPT !.jumps = @ \cup {index}]
             fs == [c.frames EXCEPT ![n] = g]
  <1>1. c \in [frames : Seq(FrameRecords(R)), instrCount : 0 .. PROC_INSTR_MAX]
    BY DEF ConType
  <1>2. n \in 1 .. Len(c.frames)
    BY ConFacts
  <1>3. /\ g \in FrameRecords(R)
        /\ g.firstInstr = c.frames[n].firstInstr
        /\ g.ftype = c.frames[n].ftype /\ g.reg = c.frames[n].reg
        /\ g.jumps = c.frames[n].jumps \cup {index}
    <2>1. c.frames[n] \in FrameRecords(R)
      BY <1>2, ConFacts
    <2>. QED  BY ONLY <2>1, index \in Nat DEF FrameRecords
  <1>4. d = [c EXCEPT !.frames = fs]
    BY DEF AddJump
  <1> HIDE DEF g
  <1>5. /\ fs \in Seq(FrameRecords(R)) /\ Len(fs) = n
        /\ \A k \in 1 .. n : fs[k] = IF k = n THEN g ELSE c.frames[k]
    BY <1>1, <1>2, <1>3, ConFacts
  <1> HIDE DEF fs
  <1>6. /\ d \in [frames : Seq(FrameRecords(R)), instrCount : 0 .. PROC_INSTR_MAX]
        /\ d.frames = fs /\ d.instrCount = c.instrCount
    BY <1>1, <1>4, <1>5
  <1>. QED
    BY <1>1, <1>2, <1>3, <1>5, <1>6, ConFacts DEF ConType

(* Verdicts and outcomes.                                                  *)
LEMMA VerdictFacts ==
    /\ \A a, b \in Verdicts : a & b \in Verdicts /\ ((a & b = OK) <=> (a = OK /\ b = OK))
    /\ \A e \in Exceptions : \A p \in BOOLEAN :
          ThrowIf(p, e) \in Verdicts /\ ((ThrowIf(p, e) = OK) <=> ~p)
    /\ "Range" \in Exceptions /\ "Operation" \in Exceptions
    /\ OK \in Verdicts /\ OK \notin Exceptions
  BY DEF &, ThrowIf, Verdicts, Exceptions, OK

(* applyDefault returns a verdict.                                         *)
LEMMA DefaultFacts ==
    ASSUME NEW c
    PROVE  ApplyDefault(c) \in Verdicts
  BY DEF ApplyDefault, ThrowIf, Verdicts, Exceptions, OK

(* applyInstrOffset either throws and leaves the ProcCon, or records a     *)
(* jump that is in range and not before the last frame.                    *)
LEMMA OffsetFacts ==
    ASSUME NEW R, NEW c, ConType(c, R), NEW offset \in Int
    PROVE  \E v \in Verdicts : \E d :
              /\ ApplyInstrOffset(c, offset) = [exc |-> v, con |-> d]
              /\ ConType(d, R)
              /\ v # OK => d = c
              /\ v = OK =>
                    /\ c.instrCount + offset \in Nat
                    /\ d = AddJump(c, c.instrCount + offset)
                    /\ \/ /\ c.instrCount + offset > c.instrCount
                          /\ c.instrCount + offset < PROC_INSTR_MAX
                       \/ /\ c.instrCount + offset <= c.instrCount
                          /\ c.instrCount + offset >= c.frames[Len(c.frames)].firstInstr
  <1> DEFINE index == c.instrCount + offset
             bad == \E f \in Outer(c) : \E t \in f.jumps :
                        t >= Top(c).firstInstr /\ index >= t
             forward == ThrowIf(index >= PROC_INSTR_MAX, "Range") & ThrowIf(bad, "Range")
             backward == ThrowIf(index < Top(c).firstInstr, "Range")
             v == ApplyDefault(c) & (IF index > c.instrCount THEN forward ELSE backward)
  <1>1. /\ c.instrCount \in Nat /\ PROC_INSTR_MAX \in Nat /\ index \in Int
        /\ c.frames[Len(c.frames)].firstInstr \in Nat
    BY ConFacts, BoundsAssumption
  <1>2. CASE offset \notin INSTR_OFFSET_MIN .. INSTR_OFFSET_MAX \/ index < 0
    <2>1. ApplyInstrOffset(c, offset) = [exc |-> "Range", con |-> c]
      BY <1>2 DEF ApplyInstrOffset, Outcome, OK
    <2>. QED  BY <2>1, VerdictFacts DEF Verdicts
  <1>3. CASE ~(offset \notin INSTR_OFFSET_MIN .. INSTR_OFFSET_MAX \/ index < 0)
    <2>1. ApplyInstrOffset(c, offset) = Outcome(v, c, AddJump(c, index))
      BY <1>3 DEF ApplyInstrOffset, ApplyInstrIndex
    <2>2. index \in Nat
      BY <1>1, <1>3
    <2>3. /\ forward \in Verdicts /\ (forward = OK => index < PROC_INSTR_MAX)
      <3>1. /\ ThrowIf(index >= PROC_INSTR_MAX, "Range") \in Verdicts
            /\ ThrowIf(bad, "Range") \in Verdicts
        BY DEF ThrowIf, Verdicts, Exceptions, OK
      <3>2. ThrowIf(index >= PROC_INSTR_MAX, "Range") = OK => ~(index >= PROC_INSTR_MAX)
        BY DEF ThrowIf, OK
      <3>3. /\ forward \in Verdicts
            /\ forward = OK => ThrowIf(index >= PROC_INSTR_MAX, "Range") = OK
        <4> HIDE DEF bad, index
        <4>. QED  BY <3>1, VerdictFacts
      <3> HIDE DEF forward
      <3>. QED  BY <3>2, <3>3, <1>1
    <2>4. backward \in Verdicts /\ (backward = OK => index >= Top(c).firstInstr)
      <3>1. backward = OK => ~(index < Top(c).firstInstr)
        BY DEF ThrowIf, OK
      <3>2. backward \in Verdicts
        BY DEF ThrowIf, Verdicts, Exceptions, OK
      <3>. QED  BY <3>1, <3>2, <1>1 DEF Top, Last
    <2> HIDE DEF forward, backward
    <2>5. /\ v \in Verdicts
          /\ v = OK => IF index > c.instrCount THEN forward = OK ELSE backward = OK
      BY <2>3, <2>4, DefaultFacts, VerdictFacts
    <2> HIDE DEF v
    <2>6. v = OK => \/ index > c.instrCount /\ index < PROC_INSTR_MAX
                    \/ index <= c.instrCount /\ index >= c.frames[Len(c.frames)].firstInstr
      BY <2>3, <2>4, <2>5, <1>1 DEF Top, Last
    <2> DEFINE d == IF v = OK THEN AddJump(c, index) ELSE c
    <2>7. ConType(AddJump(c, index), R)
      BY <2>2, AddJumpFacts
    <2>8. /\ ApplyInstrOffset(c, offset) = [exc |-> v, con |-> d]
          /\ ConType(d, R)
          /\ v # OK => d = c
          /\ v = OK => d = AddJump(c, index)
      BY <2>1, <2>7 DEF Outcome
    <2> HIDE DEF d
    <2>. QED  BY <2>2, <2>5, <2>6, <2>8
  <1>. QED  BY <1>2, <1>3

(* applyBeginFrame likewise.                                               *)
LEMMA BeginFacts ==
    ASSUME NEW R, NEW c, ConType(c, R), NEW ftype \in FrameTypes, NEW reg \in R
    PROVE  \E v \in Verdicts : \E d :
              /\ ApplyBeginFrame(c, ftype, reg) = [exc |-> v, con |-> d]
              /\ ConType(d, R)
              /\ v # OK => d = c
              /\ v = OK => /\ d = PushFrame(c, ftype, reg)
                           /\ \A k \in 1 .. Len(c.frames) :
                                  c.instrCount + 1 \notin c.frames[k].jumps
  <1> DEFINE p == \E k \in DOMAIN c.frames : c.instrCount + 1 \in c.frames[k].jumps
             v == ThrowIf(p, "Operation")
             d == IF v = OK THEN PushFrame(c, ftype, reg) ELSE c
  <1>1. v \in Verdicts /\ (v = OK => ~p)
    BY DEF ThrowIf, Verdicts, Exceptions, OK
  <1>2. ApplyBeginFrame(c, ftype, reg) = [exc |-> v, con |-> d]
    BY DEF ApplyBeginFrame, Outcome
  <1>3. ConType(d, R)
    BY PushFrameFacts
  <1>4. v = OK => \A k \in 1 .. Len(c.frames) : c.instrCount + 1 \notin c.frames[k].jumps
    BY <1>1, ConFacts
  <1> HIDE DEF v
  <1>5. (v # OK => d = c) /\ (v = OK => d = PushFrame(c, ftype, reg))
    OBVIOUS
  <1> HIDE DEF d
  <1>. QED  BY <1>1, <1>2, <1>3, <1>4, <1>5

(* applyEndFrame: all but the outermost frame may close, once the jumps    *)
(* made in it have been reached.                                           *)
LEMMA EndFacts ==
    ASSUME NEW R, NEW c, ConType(c, R)
    PROVE  \E v \in Verdicts : \E d :
              /\ ApplyEndFrame(c) = [exc |-> v, con |-> d]
              /\ ConType(d, R)
              /\ v # OK => d = c
              /\ v = OK => /\ d = PopFrame(c) /\ Len(c.frames) # 1
                           /\ \A t \in c.frames[Len(c.frames)].jumps :
                                  ~(t > c.instrCount)
  <1> DEFINE n == Len(c.frames)
             only == ThrowIf(n = 1, "Operation")
             high == ThrowIf(\E t \in Top(c).jumps : t > c.instrCount, "Operation")
             v == only & high
             d == IF v = OK THEN PopFrame(c) ELSE c
  <1>1. /\ v \in Verdicts
        /\ v = OK => n # 1 /\ \A t \in c.frames[n].jumps : ~(t > c.instrCount)
    <2>1. /\ only \in Verdicts /\ (only = OK => n # 1)
          /\ high \in Verdicts
          /\ high = OK => \A t \in c.frames[n].jumps : ~(t > c.instrCount)
      BY DEF ThrowIf, Verdicts, Exceptions, OK, Top, Last
    <2> HIDE DEF only, high
    <2>. QED  BY <2>1, VerdictFacts
  <1>2. ApplyEndFrame(c) = [exc |-> v, con |-> d]
    BY DEF ApplyEndFrame, Outcome
  <1> HIDE DEF v
  <1>3. ConType(d, R) /\ (v # OK => d = c) /\ (v = OK => d = PopFrame(c))
    BY <1>1, PopFrameFacts
  <1> HIDE DEF d
  <1>. QED  BY <1>1, <1>2, <1>3

(* applyBeginFrame of a handler: whichever of its two parts throws, the    *)
(* ProcCon is the one it started from.                                     *)
LEMMA HandlerFacts ==
    ASSUME NEW R, NEW c, ConType(c, R), PRESET_REG_ED \in R, NEW offset \in Int
    PROVE  \E v \in Verdicts : \E d :
              /\ ApplyBeginHandler(c, offset) = [exc |-> v, con |-> d]
              /\ ConType(d, R)
              /\ d.instrCount = c.instrCount
              /\ v # OK => d = c
  <1>1. "HAND" \in FrameTypes
    BY DEF FrameTypes
  <1>2. PICK u, b :
              /\ u \in Verdicts
              /\ ApplyBeginFrame(c, "HAND", PRESET_REG_ED) = [exc |-> u, con |-> b]
              /\ ConType(b, R)
              /\ u # OK => b = c
              /\ u = OK => b = PushFrame(c, "HAND", PRESET_REG_ED)
    BY <1>1, BeginFacts
  <1>3. PICK v, d :
              /\ v \in Verdicts
              /\ ApplyInstrOffset(b, offset) = [exc |-> v, con |-> d]
              /\ ConType(d, R)
              /\ v # OK => d = b
              /\ v = OK => /\ b.instrCount + offset \in Nat
                           /\ d = AddJump(b, b.instrCount + offset)
    BY <1>2, OffsetFacts
  <1>4. CASE u # OK
    <2>1. ApplyBeginHandler(c, offset) = [exc |-> u, con |-> c]
      BY <1>2, <1>4 DEF ApplyBeginHandler
    <2>. QED  BY <1>2, <1>4, <2>1
  <1>5. CASE u = OK /\ v # OK
    <2>1. PopFrame(b) = c
      BY <1>1, <1>2, <1>5, PushFrameFacts
    <2>2. ApplyBeginHandler(c, offset) = [exc |-> v, con |-> c]
      BY <1>2, <1>3, <1>5, <2>1 DEF ApplyBeginHandler
    <2>. QED  BY <1>3, <1>5, <2>2
  <1>6. CASE u = OK /\ v = OK
    <2>1. ApplyBeginHandler(c, offset) = [exc |-> v, con |-> d]
      BY <1>2, <1>3, <1>6 DEF ApplyBeginHandler
    <2>2. b.instrCount = c.instrCount
      BY <1>1, <1>2, <1>6, PushFrameFacts
    <2>3. d.instrCount = b.instrCount
      BY <1>2, <1>3, <1>6, AddJumpFacts
    <2>. QED  BY <1>3, <1>6, <2>1, <2>2, <2>3
  <1>. QED  BY <1>4, <1>5, <1>6

(* addProcInstr counts what the check accepted, and nothing else.          *)
LEMMA AddInstrFacts ==
    ASSUME NEW R, NEW c, ConType(c, R), NEW v \in Verdicts, NEW d, ConType(d, R),
           d.instrCount = c.instrCount, v # OK => d = c,
           NEW o, o = AddInstr(c, [exc |-> v, con |-> d])
    PROVE  /\ o.exc \in Verdicts /\ (o.exc = OK => v = OK)
           /\ ConType(o.con, R)
           /\ o.exc # OK => o.con = c
  <1>1. c.instrCount \in Nat /\ PROC_INSTR_MAX \in Nat
    BY ConFacts, BoundsAssumption
  <1>2. CASE c.instrCount >= PROC_INSTR_MAX
    <2>1. o = [exc |-> "Range", con |-> c]
      BY <1>2 DEF AddInstr, Outcome, OK
    <2>. QED  BY <2>1, VerdictFacts DEF Verdicts
  <1>3. CASE ~(c.instrCount >= PROC_INSTR_MAX) /\ v # OK
    <2>1. o = [exc |-> v, con |-> d]
      BY <1>3 DEF AddInstr
    <2>. QED  BY <2>1, <1>3
  <1>4. CASE ~(c.instrCount >= PROC_INSTR_MAX) /\ v = OK
    <2>1. o.exc = OK /\ o.con = [d EXCEPT !.instrCount = @ + 1]
      BY <1>4 DEF AddInstr
    <2>2. /\ d \in [frames : Seq(FrameRecords(R)), instrCount : 0 .. PROC_INSTR_MAX]
          /\ d.frames # << >>
      BY DEF ConType
    <2>3. d.instrCount + 1 \in 0 .. PROC_INSTR_MAX
      BY <1>1, <1>4
    <2>4. o.con \in [frames : Seq(FrameRecords(R)), instrCount : 0 .. PROC_INSTR_MAX]
      BY ONLY <2>1, <2>2, <2>3
    <2>5. o.con.frames # << >>
      BY ONLY <2>1, <2>2
    <2>6. ConType(o.con, R)
      BY ONLY <2>4, <2>5 DEF ConType
    <2>. QED  BY <1>4, <2>1, <2>6, VerdictFacts
  <1>. QED  BY <1>2, <1>3, <1>4

(* addProc starts a procedure with the frame of its IO register.           *)
LEMMA NewFacts ==
    ASSUME NEW R, NEW io \in R
    PROVE  ConType(NewProcCon(io), R)
  <1> DEFINE f == [firstInstr |-> 0, jumps |-> {}, ftype |-> "REGNR", reg |-> io]
  <1>1. f \in FrameRecords(R)
    BY DEF FrameRecords, FrameTypes
  <1>2. NewProcCon(io) = [frames |-> << f >>, instrCount |-> 0]
    BY DEF NewProcCon
  <1> HIDE DEF f
  <1>3. << f >> \in Seq(FrameRecords(R)) /\ << f >> # << >>
    BY <1>1
  <1>. QED  BY <1>2, <1>3, BoundsAssumption DEF ConType

=============================================================================
