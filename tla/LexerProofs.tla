---------------------------- MODULE LexerProofs ----------------------------
(***************************************************************************)
(* The lexer takes something of every text in every call, the location it  *)
(* reports is where its stream stands, and the strings and symbols it      *)
(* gives are what stands before the stream, for texts of any length: what  *)
(* it puts back is one character, it has read that one or another before   *)
(* it, what it counts, it counts over the characters it has taken, and it  *)
(* stops where one word ends and the next may begin.                       *)
(***************************************************************************)
EXTENDS Lexer, SequenceTheorems, FiniteSetTheorems, WellFoundedInduction, TLAPS

LEMMA LeastOf ==
    ASSUME NEW S, S \subseteq Nat, S # {}
    PROVE  \E n \in S : \A k \in S : n <= k
  <1> DEFINE R == OpToRel(<, Nat)
  <1>1. PICK n \in S : \A k \in S : <<k, n>> \notin R
    <2>1. IsWellFoundedOn(R, Nat)
      BY NatLessThanWellFounded
    <2> HIDE DEF R
    <2>. QED  BY <2>1, WFMin
  <1>2. \A k \in S : ~(k < n)
    BY <1>1 DEF OpToRel
  <1>. QED  BY <1>2

LEMMA MinOf ==
    ASSUME NEW S, S \subseteq Nat, S # {}
    PROVE  Min(S) \in S /\ \A k \in S : Min(S) <= k
  BY LeastOf DEF Min

LEMMA SetInduction ==
    ASSUME NEW S, 1 \in S, \A n \in Nat \ {0} : n \in S => n + 1 \in S
    PROVE  Nat \ {0} \subseteq S
  <1> SUFFICES ASSUME (Nat \ {0}) \ S # {} PROVE FALSE
    OBVIOUS
  <1>1. PICK n \in (Nat \ {0}) \ S : \A k \in (Nat \ {0}) \ S : n <= k
    BY LeastOf
  <1>2. n - 1 \in Nat \ {0} /\ n - 1 \in S
    BY <1>1
  <1>. QED  BY <1>1, <1>2

-----------------------------------------------------------------------------
(* A character.                                                            *)
Chars == (ByteClasses \ {"lead", "cont"}) \cup {"wide", "nul", EOF}
Characters == [chr : Chars, next : Nat, exc : {OK, "EndOfFile", "Encoding"}]

LEMMA ReadCharFacts ==
    ASSUME input \in Seq(ByteClasses), NEW p \in 0 .. Len(input)
    PROVE  /\ ReadChar(p) \in Characters
           /\ ReadChar(p).next \in p .. Len(input)
           /\ ReadChar(p).exc # OK => ReadChar(p).chr = EOF /\ ReadChar(p).next > p
           /\ ReadChar(p).chr # EOF =>
                 /\ ReadChar(p).next = p + SeqSize(ReadChar(p).chr)
                 /\ ReadChar(p).next > p
           /\ p < Len(input) => ReadChar(p).next > p
  <1> DEFINE byte == input[p + 1]
             Char(chr, size, e) == [chr |-> chr, next |-> p + size, exc |-> e]
  <1>1. /\ OK # "EndOfFile" /\ OK # "Encoding" /\ Len(input) \in Nat
        /\ EOF \notin ByteClasses
    <2>1. OK # "EndOfFile" /\ OK # "Encoding"
      BY DEF OK
    <2>2. Len(input) \in Nat
      OBVIOUS
    <2>3. EOF \notin ByteClasses
      BY DEF EOF, ByteClasses
    <2>. QED  BY <2>1, <2>2, <2>3
  <1>2. p < Len(input) => byte \in ByteClasses
    OBVIOUS
  <1>3. ReadChar(p) =
           IF p >= Len(input) THEN Char(EOF, 0, OK)
           ELSE IF byte = "cont" THEN Char("nul", 1, OK)
           ELSE IF byte # "lead" THEN Char(byte, 1, OK)
           ELSE IF p + 1 = Len(input) THEN Char(EOF, 1, "EndOfFile")
           ELSE IF input[p + 2] = "cont" THEN Char("wide", 2, OK)
           ELSE Char(EOF, 2, "Encoding")
    BY DEF ReadChar
  <1>4. CASE p >= Len(input)
    <2>1. ReadChar(p) = Char(EOF, 0, OK)
      BY <1>3, <1>4
    <2>. QED  BY <1>1, <1>4, <2>1 DEF Characters, Chars
  <1>5. CASE p < Len(input) /\ byte = "cont"
    <2>1. ReadChar(p) = Char("nul", 1, OK)
      BY <1>1, <1>3, <1>5
    <2>. QED  BY <1>1, <1>5, <2>1 DEF Characters, Chars, SeqSize
  <1>6. CASE p < Len(input) /\ byte \notin {"cont", "lead"}
    <2>1. ReadChar(p) = Char(byte, 1, OK)
      BY <1>1, <1>3, <1>6
    <2>2. byte # "wide" /\ byte \in Chars
      BY <1>2, <1>6 DEF ByteClasses, Chars
    <2> HIDE DEF byte
    <2>. QED  BY <1>1, <1>6, <2>1, <2>2 DEF Characters, SeqSize
  <1>7. CASE p < Len(input) /\ byte = "lead"
    <2>1. \/ p + 1 = Len(input) /\ ReadChar(p) = Char(EOF, 1, "EndOfFile")
          \/ p + 2 <= Len(input) /\ ReadChar(p) = Char("wide", 2, OK)
          \/ p + 2 <= Len(input) /\ ReadChar(p) = Char(EOF, 2, "Encoding")
      BY <1>1, <1>3, <1>7
    <2>2. CASE p + 1 = Len(input) /\ ReadChar(p) = Char(EOF, 1, "EndOfFile")
      BY <1>1, <2>2 DEF Characters, Chars
    <2>3. CASE p + 2 <= Len(input) /\ ReadChar(p) = Char("wide", 2, OK)
      <3>1. SeqSize("wide") = 2 /\ "wide" # EOF
        BY DEF SeqSize, EOF
      <3>. QED  BY <1>1, <2>3, <3>1 DEF Characters, Chars
    <2>4. CASE p + 2 <= Len(input) /\ ReadChar(p) = Char(EOF, 2, "Encoding")
      BY <1>1, <2>4 DEF Characters, Chars
    <2>. QED  BY <2>1, <2>2, <2>3, <2>4
  <1>. QED  BY <1>1, <1>4, <1>5, <1>6, <1>7

-----------------------------------------------------------------------------
(* The characters from p on.  CharsFrom is recursive: what it is built of  *)
(* is a function More, and the function it chooses is one that exists.     *)
More(c) == IF Last(c).chr = EOF THEN c ELSE Append(c, ReadChar(Last(c).next))
Walks(p, m, f) == f = [n \in 1 .. m |-> IF n = 1 THEN << ReadChar(p) >>
                                        ELSE More(f[n - 1])]

LEMMA WalkExists ==
    ASSUME NEW p
    PROVE  \A m \in Nat \ {0} : \E f : Walks(p, m, f)
  <1> DEFINE S == {m \in Nat \ {0} : \E f : Walks(p, m, f)}
  <1>1. 1 \in S
    <2>1. Walks(p, 1, [n \in 1 .. 1 |-> << ReadChar(p) >>])
      BY DEF Walks
    <2>. QED  BY <2>1
  <1>2. ASSUME NEW m \in Nat \ {0}, m \in S
        PROVE  m + 1 \in S
    <2>1. PICK f : Walks(p, m, f)
      BY <1>2
    <2> DEFINE g == [n \in 1 .. m + 1 |-> IF n = m + 1 THEN More(f[m]) ELSE f[n]]
    <2>2. \A n \in 1 .. m + 1 : g[n] = IF n = 1 THEN << ReadChar(p) >> ELSE More(g[n - 1])
      <3> SUFFICES ASSUME NEW n \in 1 .. m + 1
                   PROVE  g[n] = IF n = 1 THEN << ReadChar(p) >> ELSE More(g[n - 1])
        OBVIOUS
      <3>1. CASE n = m + 1
        <4>1. g[n] = More(f[m]) /\ g[n - 1] = f[m] /\ n # 1
          BY <3>1
        <4> HIDE DEF g
        <4>. QED  BY <4>1
      <3>2. CASE n # m + 1
        <4>1. n \in 1 .. m
          BY <3>2
        <4>2. f[n] = IF n = 1 THEN << ReadChar(p) >> ELSE More(f[n - 1])
          BY <2>1, <4>1 DEF Walks
        <4>3. g[n] = f[n] /\ (n # 1 => g[n - 1] = f[n - 1])
          BY <4>1
        <4> HIDE DEF g
        <4>. QED  BY <4>2, <4>3
      <3>. QED  BY <3>1, <3>2
    <2>3. Walks(p, m + 1, g)
      <3>1. g = [n \in 1 .. m + 1 |-> g[n]]
        OBVIOUS
      <3> HIDE DEF g
      <3>. QED  BY <2>2, <3>1 DEF Walks
    <2> HIDE DEF g
    <2>. QED  BY <2>3
  <1> HIDE DEF S
  <1>3. Nat \ {0} \subseteq S
    BY <1>1, <1>2, SetInduction
  <1>. QED  BY <1>3 DEF S

(* A run of characters, each beginning where the one before it ends.       *)
Run(p, c) ==
    /\ c \in Seq(Characters)
    /\ Len(c) >= 1
    /\ c[1] = ReadChar(p)
    /\ \A k \in 1 .. Len(c) : c[k].next \in p .. Len(input)
    /\ \A k \in 1 .. Len(c) - 1 : /\ c[k].chr # EOF
                                  /\ c[k + 1] = ReadChar(c[k].next)

LEMMA RunOneMore ==
    ASSUME input \in Seq(ByteClasses), NEW p \in 0 .. Len(input), NEW c, Run(p, c),
           Last(c).chr # EOF
    PROVE  /\ Run(p, More(c)) /\ Len(More(c)) = Len(c) + 1
           /\ Last(More(c)) = ReadChar(Last(c).next)
           /\ Last(c).next \in p .. Len(input)
  <1>1. Len(c) \in Nat /\ Len(c) >= 1 /\ c \in Seq(Characters) /\ Len(input) \in Nat
    BY DEF Run
  <1>2. Last(c) = c[Len(c)]
    BY DEF Last
  <1>3. c[Len(c)].next \in p .. Len(input)
    BY <1>1 DEF Run
  <1>4. PICK r : r = ReadChar(c[Len(c)].next)
    OBVIOUS
  <1>5. r \in Characters /\ r.next \in p .. Len(input)
    BY <1>1, <1>3, <1>4, ReadCharFacts
  <1>6. PICK d : d = Append(c, r)
    OBVIOUS
  <1>7. /\ d \in Seq(Characters) /\ Len(d) = Len(c) + 1 /\ d[Len(c) + 1] = r
        /\ \A k \in 1 .. Len(c) : d[k] = c[k]
    BY <1>1, <1>5, <1>6
  <1>8. More(c) = d
    BY <1>2, <1>4, <1>6 DEF More
  <1>9. Run(p, d)
    <2>1. d[1] = ReadChar(p)
      BY <1>1, <1>7 DEF Run
    <2>2. \A k \in 1 .. Len(d) : d[k].next \in p .. Len(input)
      BY <1>1, <1>5, <1>7 DEF Run
    <2>3. \A k \in 1 .. Len(d) - 1 : /\ d[k].chr # EOF
                                     /\ d[k + 1] = ReadChar(d[k].next)
      <3> SUFFICES ASSUME NEW k \in 1 .. Len(d) - 1
                   PROVE  d[k].chr # EOF /\ d[k + 1] = ReadChar(d[k].next)
        OBVIOUS
      <3>1. CASE k = Len(c)
        BY <1>1, <1>2, <1>4, <1>7, <3>1
      <3>2. CASE k # Len(c)
        <4>1. k \in 1 .. Len(c) - 1 /\ k + 1 \in 1 .. Len(c)
          BY <1>1, <1>7, <3>2
        <4>. QED  BY <1>1, <1>7, <4>1 DEF Run
      <3>. QED  BY <3>1, <3>2
    <2>4. d \in Seq(Characters) /\ Len(d) >= 1
      BY <1>1, <1>7
    <2>. QED  BY ONLY <2>1, <2>2, <2>3, <2>4 DEF Run
  <1>10. Last(d) = r
    BY <1>1, <1>7 DEF Last
  <1>. QED  BY <1>2, <1>3, <1>4, <1>7, <1>8, <1>9, <1>10

(* All the characters from p on are read: the last one is the EOF, or is   *)
(* cut off by it.                                                          *)
LEMMA CharsFacts ==
    ASSUME input \in Seq(ByteClasses), NEW p \in 0 .. Len(input)
    PROVE  Run(p, CharsFrom(p)) /\ Last(CharsFrom(p)).chr = EOF
  <1> DEFINE N == Len(input) + 1
             f == CHOOSE g : Walks(p, N, g)
  <1>1. N \in Nat \ {0}
    OBVIOUS
  <1>2. Walks(p, N, f)
    <2> HIDE DEF Walks, N
    <2>. QED  BY <1>1, WalkExists
  <1>3. CharsFrom(p) = f[N]
    BY DEF CharsFrom, Walks, More
  <1> HIDE DEF f
  <1>4. \A n \in 1 .. N : f[n] = IF n = 1 THEN << ReadChar(p) >> ELSE More(f[n - 1])
    BY <1>2 DEF Walks
  <1> HIDE DEF N
  <1> DEFINE Good(n) == /\ Run(p, f[n])
                        /\ Last(f[n]).chr = EOF \/ Last(f[n]).next >= p + n
             S == {n \in Nat \ {0} : n <= N => Good(n)}
  <1>5. 1 \in S
    <2>1. PICK r : r = ReadChar(p)
      OBVIOUS
    <2>2. /\ r \in Characters /\ r.next \in p .. Len(input)
          /\ r.chr # EOF => r.next > p
      BY <2>1, ReadCharFacts
    <2>3. f[1] = << r >>
      BY <1>1, <1>4, <2>1
    <2>4. << r >> \in Seq(Characters) /\ Len(<< r >>) = 1 /\ << r >>[1] = r
      BY <2>2
    <2>5. Run(p, << r >>) /\ Last(<< r >>) = r
      BY <2>1, <2>2, <2>4 DEF Run, Last
    <2>. QED  BY <1>1, <2>2, <2>3, <2>5
  <1>6. ASSUME NEW n \in Nat \ {0}, n \in S
        PROVE  n + 1 \in S
    <2> SUFFICES ASSUME n + 1 <= N PROVE Good(n + 1)
      OBVIOUS
    <2>1. Good(n)
      BY <1>1, <1>6
    <2>2. f[n + 1] = More(f[n])
      <3>1. n + 1 \in 1 .. N /\ (n + 1) - 1 = n /\ n + 1 # 1
        BY <1>1
      <3>. QED  BY <1>4, <3>1
    <2>3. PICK c : c = f[n]
      OBVIOUS
    <2>4. CASE Last(c).chr = EOF
      <3>1. f[n + 1] = c
        BY <2>2, <2>3, <2>4 DEF More
      <3>. QED  BY <2>1, <2>3, <2>4, <3>1
    <2>5. CASE Last(c).chr # EOF
      <3>1. /\ Run(p, More(c)) /\ Last(More(c)) = ReadChar(Last(c).next)
            /\ Last(c).next \in p .. Len(input)
        BY <2>1, <2>3, <2>5, RunOneMore
      <3>2. Last(c).next >= p + n
        BY <2>1, <2>3, <2>5
      <3>3. /\ ReadChar(Last(c).next).chr # EOF =>
                  ReadChar(Last(c).next).next > Last(c).next
            /\ ReadChar(Last(c).next).next \in Nat
        <4>1. PICK q \in 0 .. Len(input) : q = Last(c).next
          BY <3>1
        <4>2. ReadChar(q).next \in q .. Len(input)
          BY ReadCharFacts
        <4>. QED  BY <4>1, <4>2, ReadCharFacts
      <3>4. Last(More(c)).chr = EOF \/ Last(More(c)).next >= p + (n + 1)
        BY <3>1, <3>2, <3>3
      <3>. QED  BY <2>2, <2>3, <3>1, <3>4
    <2>. QED  BY <2>4, <2>5
  <1> HIDE DEF S
  <1>7. Nat \ {0} \subseteq S
    BY <1>5, <1>6, SetInduction
  <1>8. Good(N)
    BY <1>1, <1>7 DEF S
  <1>9. Last(f[N]).next \in p .. Len(input)
    BY <1>8 DEF Run, Last
  <1>10. ~(Last(f[N]).next >= p + N)
    BY <1>9 DEF N
  <1>. QED  BY <1>3, <1>8, <1>10

(* The end of the white space is found.                                    *)
LEMMA SkippedFacts ==
    ASSUME NEW p, NEW c, Run(p, c), Last(c).chr = EOF
    PROVE  /\ Skipped(c) \in 1 .. Len(c)
           /\ c[Skipped(c)].chr = EOF \/ c[Skipped(c)].chr \notin Whitespace \cup {";"}
  <1> DEFINE Commented(k) == \E j \in 1 .. k - 1 :
                  /\ c[j].chr = ";"
                  /\ \A i \in j .. k - 1 : c[i].chr # "newline"
             Here(k) == \/ c[k].chr = EOF
                        \/ c[k].chr \notin Whitespace \cup {";"} /\ ~Commented(k)
             First(k) == /\ Here(k)
                         /\ \A j \in 1 .. k - 1 : c[j].chr \in Whitespace \cup {";"}
                                                  \/ Commented(j)
             S == {k \in 1 .. Len(c) : Here(k)}
  <1>1. Skipped(c) = CHOOSE k \in DOMAIN c : First(k)
    BY DEF Skipped
  <1> HIDE DEF Commented
  <1>2. Len(c) \in Nat /\ Len(c) >= 1 /\ DOMAIN c = 1 .. Len(c) /\ Last(c) = c[Len(c)]
    BY DEF Run, Last
  <1>3. S \subseteq Nat /\ S # {}
    <2>1. Here(Len(c)) /\ Len(c) \in 1 .. Len(c)
      <3>1. c[Len(c)].chr = EOF
        BY <1>2
      <3>2. Here(Len(c))
        BY <3>1
      <3> HIDE DEF Here
      <3>. QED  BY <1>2, <3>2
    <2> HIDE DEF Here
    <2>2. Len(c) \in S
      BY <2>1
    <2>3. 1 .. Len(c) \subseteq Nat
      BY <1>2
    <2>. QED  BY <2>2, <2>3
  <1>4. PICK k \in S : \A j \in S : k <= j
    BY <1>3, LeastOf
  <1>5. k \in DOMAIN c /\ First(k)
    <2>1. \A j \in 1 .. k - 1 : ~Here(j)
      <3> HIDE DEF Here
      <3> SUFFICES ASSUME NEW j \in 1 .. k - 1, Here(j) PROVE FALSE
        OBVIOUS
      <3>1. k \in 1 .. Len(c)
        OBVIOUS
      <3>2. j \in 1 .. Len(c) /\ j < k
        BY <1>2, <3>1
      <3>3. j \in S
        BY <3>2
      <3>. QED  BY <1>2, <1>4, <3>1, <3>2, <3>3
    <2>. QED  BY <1>2, <1>4, <2>1
  <1>6. Skipped(c) \in DOMAIN c /\ First(Skipped(c))
    <2> HIDE DEF First
    <2>. QED  BY <1>1, <1>5
  <1>. QED  BY <1>2, <1>6

-----------------------------------------------------------------------------
(* The stream stands somewhere in the input, and the input is a text.      *)
IInv == input \in Seq(ByteClasses) /\ pos \in 0 .. Len(input)

(* After a character, all that follows ends later.                         *)
LEMMA RunAdvances ==
    ASSUME input \in Seq(ByteClasses), NEW p \in 0 .. Len(input),
           NEW c, Run(p, c), c[1].chr # EOF
    PROVE  \A k \in 1 .. Len(c) : c[k].next \in p + 1 .. Len(input)
  <1>1. /\ Len(c) \in Nat /\ Len(c) >= 1 /\ c[1] = ReadChar(p)
        /\ \A k \in 1 .. Len(c) : c[k].next \in p .. Len(input)
    BY DEF Run
  <1>2. c[1].next >= p + 1
    <2>1. ReadChar(p).next > p /\ ReadChar(p).next \in p .. Len(input)
      BY <1>1, ReadCharFacts
    <2>. QED  BY <1>1, <2>1
  <1>3. \A n \in 1 .. Len(c) - 1 : c[n].next >= p + 1 => c[n + 1].next >= p + 1
    <2> SUFFICES ASSUME NEW n \in 1 .. Len(c) - 1, c[n].next >= p + 1
                 PROVE  c[n + 1].next >= p + 1
      OBVIOUS
    <2>1. PICK q \in p .. Len(input) : q = c[n].next
      BY <1>1
    <2>2. c[n + 1] = ReadChar(q)
      BY <2>1 DEF Run
    <2>3. q \in 0 .. Len(input)
      BY <2>1
    <2>4. ReadChar(q).next \in q .. Len(input)
      BY <2>3, ReadCharFacts
    <2>. QED  BY <2>1, <2>2, <2>3, <2>4
  <1> DEFINE S == {n \in Nat \ {0} : n <= Len(c) => c[n].next >= p + 1}
  <1>4. 1 \in S
    BY <1>2
  <1>5. ASSUME NEW n \in Nat \ {0}, n \in S PROVE n + 1 \in S
    <2> SUFFICES ASSUME n + 1 <= Len(c) PROVE c[n + 1].next >= p + 1
      OBVIOUS
    <2>1. n \in 1 .. Len(c) - 1 /\ c[n].next >= p + 1
      BY <1>1, <1>5
    <2>. QED  BY <1>3, <2>1
  <1> HIDE DEF S
  <1>6. Nat \ {0} \subseteq S
    BY <1>4, <1>5, SetInduction
  <1>7. \A k \in 1 .. Len(c) : c[k].next >= p + 1
    <2> SUFFICES ASSUME NEW k \in 1 .. Len(c) PROVE c[k].next >= p + 1
      OBVIOUS
    <2>1. k \in S
      BY <1>6
    <2>. QED  BY <2>1 DEF S
  <1>. QED  BY <1>1, <1>7

(* A string ends after its opening quote.                                  *)
LEMMA StringEnds ==
    ASSUME input \in Seq(ByteClasses), NEW p \in 0 .. Len(input),
           NEW c, Run(p, c), Last(c).chr = EOF, c[1].chr # EOF, NEW at,
           ReadString(Tail(c), at)
    PROVE  pos' \in p + 1 .. Len(input)
  <1>1. /\ c \in Seq(Characters) /\ Len(c) \in Nat /\ Len(c) >= 1
        /\ c[1] = ReadChar(p) /\ Last(c) = c[Len(c)]
        /\ \A k \in 1 .. Len(c) : c[k].next \in p .. Len(input)
    BY DEF Run, Last
  <1>2. Len(c) >= 2
    BY <1>1
  <1>3. PICK t : t = Tail(c)
    OBVIOUS
  <1>4. /\ t \in Seq(Characters) /\ Len(t) = Len(c) - 1 /\ Len(t) >= 1
        /\ \A k \in 1 .. Len(t) : t[k] = c[k + 1]
    BY <1>1, <1>2, <1>3
  <1>6. \A k \in 1 .. Len(c) : c[k].next \in p + 1 .. Len(input)
    BY RunAdvances
  <1> DEFINE escaped == {k \in DOMAIN t : Escaped(t, k)}
             ends == {k \in DOMAIN t : t[k].chr = "quote"} \ escaped
             bad == {k \in escaped : t[k].chr \notin {"\\", "quote", EOF}}
             stop == Min(ends \cup bad \cup {Len(t)})
  <1>7. stop \in 1 .. Len(t)
    <2>1. DOMAIN t = 1 .. Len(t)
      BY <1>4
    <2>2. ends \cup bad \cup {Len(t)} \subseteq 1 .. Len(t)
      BY <1>4, <2>1
    <2> HIDE DEF ends, bad
    <2>3. ends \cup bad \cup {Len(t)} # {}
      OBVIOUS
    <2>4. 1 .. Len(t) \subseteq Nat
      BY <1>4
    <2>5. Min(ends \cup bad \cup {Len(t)}) \in ends \cup bad \cup {Len(t)}
      <3> DEFINE M == ends \cup bad \cup {Len(t)}
      <3>1. M \subseteq Nat /\ M # {}
        BY <2>2, <2>3, <2>4
      <3> HIDE DEF M
      <3>2. Min(M) \in M
        BY <3>1, MinOf
      <3>. QED  BY <3>2 DEF M
    <2>. QED  BY <2>2, <2>5
  <1>8. pos' = t[stop].next
    <2>1. ReadString(t, at)
      BY <1>3
    <2>. QED  BY <2>1 DEF ReadString, Result, Throws
  <1> HIDE DEF stop
  <1>. QED  BY <1>4, <1>6, <1>7, <1>8

LEMMA TokenMoves ==
    ASSUME IInv, ReadToken
    PROVE  pos' \in 0 .. Len(input) /\ (pos' > pos \/ tok' = EOF)
  <1> DEFINE all == CharsFrom(pos)
             first == Skipped(all)
             at == Advanced(loc, SubSeq(all, 1, first - 1))
             start == all[first].next - SeqSize(all[first].chr)
             chars == CharsFrom(start)
             chr == Head(chars).chr
             ended == {k \in DOMAIN chars : chars[k].chr \in Delimiters \cup {EOF}}
             end == Min(ended)
             word == [n \in 1 .. end - 1 |-> chars[n].chr]
             delimiter == chars[end]
             after == IF delimiter.chr = EOF THEN delimiter.next
                      ELSE delimiter.next - SeqSize(delimiter.chr)
  <1>1. IF all[first].exc # OK
        THEN Throws(all[first].next, at, all[first].exc)
        ELSE IF all[first].chr = EOF
        THEN Result(all[first].next, at, EOF, str, OK)
        ELSE IF chr = "quote"
        THEN ReadString(Tail(chars), UpdateLocation(at, chr))
        ELSE IF end = 1
        THEN Result(Head(chars).next, UpdateLocation(at, chr),
                    IF chr = "(" THEN "OPEN" ELSE "CLOSE", str, OK)
        ELSE IF delimiter.exc # OK
        THEN Throws(delimiter.next, at, delimiter.exc)
        ELSE IF word = << "." >>
        THEN Result(after, UpdateLocation(at, delimiter.chr), "DOT", str, OK)
        ELSE ReadNumberOrSymbol(word, after, at)
    BY DEF ReadToken
  <1>2. /\ Run(pos, all) /\ Last(all).chr = EOF
        /\ first \in 1 .. Len(all)
        /\ Len(input) \in Nat /\ pos \in 0 .. Len(input) /\ input \in Seq(ByteClasses)
    <2>1. Run(pos, all) /\ Last(all).chr = EOF
      BY CharsFacts DEF IInv
    <2> HIDE DEF all
    <2>2. first \in 1 .. Len(all)
      BY <2>1, SkippedFacts
    <2>. QED  BY <2>1, <2>2 DEF IInv
  <1>3. \E p \in pos .. Len(input) : all[first] = ReadChar(p)
    <2> HIDE DEF all, first
    <2>1. CASE first = 1
      BY <1>2, <2>1 DEF Run
    <2>2. CASE first # 1
      <3>1. Len(all) \in Nat
        BY <1>2 DEF Run
      <3>2. first - 1 \in 1 .. Len(all) - 1 /\ first - 1 \in 1 .. Len(all)
            /\ (first - 1) + 1 = first
        BY <1>2, <2>2, <3>1
      <3>3. all[first] = ReadChar(all[first - 1].next)
            /\ all[first - 1].next \in pos .. Len(input)
        BY <1>2, <3>2 DEF Run
      <3>. QED  BY <3>3
    <2>. QED  BY <2>1, <2>2
  <1> HIDE DEF first, all
  <1>4. PICK p \in pos .. Len(input) : all[first] = ReadChar(p)
    BY <1>3
  <1>5. p \in 0 .. Len(input) /\ p >= pos
    BY <1>2, <1>4
  <1>6. /\ all[first] \in Characters
        /\ all[first].next \in p .. Len(input)
        /\ all[first].exc # OK => all[first].chr = EOF /\ all[first].next > p
        /\ all[first].chr # EOF => start = p
    <2>1. /\ ReadChar(p) \in Characters
          /\ ReadChar(p).next \in p .. Len(input)
          /\ ReadChar(p).exc # OK => ReadChar(p).chr = EOF /\ ReadChar(p).next > p
          /\ ReadChar(p).chr # EOF => ReadChar(p).next = p + SeqSize(ReadChar(p).chr)
      BY <1>2, <1>5, ReadCharFacts
    <2>2. SeqSize(ReadChar(p).chr) \in Nat
      BY DEF SeqSize
    <2>. QED  BY <1>4, <1>5, <2>1, <2>2
  <1>7. CASE all[first].exc # OK
    <2>1. Throws(all[first].next, at, all[first].exc)
      BY <1>1, <1>7
    <2> HIDE DEF at
    <2>2. pos' = all[first].next
      BY <2>1 DEF Throws, Result
    <2>. QED  BY <1>2, <1>5, <1>6, <1>7, <2>2
  <1>8. CASE all[first].exc = OK /\ all[first].chr = EOF
    <2>1. Result(all[first].next, at, EOF, str, OK)
      BY <1>1, <1>8
    <2> HIDE DEF at
    <2>2. pos' = all[first].next /\ tok' = EOF
      BY <2>1 DEF Result
    <2>. QED  BY <1>2, <1>5, <1>6, <2>2
  <1>9. CASE all[first].exc = OK /\ all[first].chr # EOF
    <2>1. start = p
      BY <1>6, <1>9
    <2>2. Run(p, chars) /\ Last(chars).chr = EOF
      <3>1. Run(p, CharsFrom(p)) /\ Last(CharsFrom(p)).chr = EOF
        BY <1>2, <1>5, CharsFacts
      <3>. QED  BY <2>1, <3>1
    <2> HIDE DEF start, at, chars
    <2>3. /\ chars[1] = ReadChar(p) /\ Head(chars) = chars[1] /\ Len(chars) \in Nat
          /\ Len(chars) >= 1 /\ Last(chars) = chars[Len(chars)]
          /\ DOMAIN chars = 1 .. Len(chars) /\ chars[1].chr # EOF
          /\ \A k \in 1 .. Len(chars) : chars[k] \in Characters
      <3>1. chars \in Seq(Characters)
        BY <2>2 DEF Run
      <3>. QED  BY <1>4, <1>9, <2>2, <3>1 DEF Run, Last
    <2>4. \A k \in 1 .. Len(chars) : chars[k].next \in p + 1 .. Len(input)
      BY <1>2, <1>5, <2>2, <2>3, RunAdvances
    <2>5. CASE chr = "quote"
      <3>1. ReadString(Tail(chars), UpdateLocation(at, chr))
        BY <1>1, <1>9, <2>5
      <3>2. pos' \in p + 1 .. Len(input)
        BY <1>2, <1>5, <2>2, <2>3, <3>1, StringEnds
      <3>. QED  BY <1>2, <1>5, <3>2
    <2>6. end \in 1 .. Len(chars)
      <3>1. ended \subseteq Nat
        BY <2>3
      <3>2. Len(chars) \in ended
        BY <2>2, <2>3
      <3>3. ended \subseteq 1 .. Len(chars)
        BY <2>3
      <3> HIDE DEF ended
      <3>4. end \in ended
        BY <3>1, <3>2, MinOf
      <3>. QED  BY <3>3, <3>4
    <2> HIDE DEF end
    <2>7. CASE chr # "quote" /\ end = 1
      <3>1. pos' = Head(chars).next
        BY <1>1, <1>9, <2>7 DEF Result
      <3>. QED  BY <1>2, <1>5, <2>3, <2>4, <3>1
    <2>8. CASE chr # "quote" /\ end # 1
      <3>1. /\ end - 1 \in 1 .. Len(chars) - 1 /\ end - 1 \in 1 .. Len(chars)
            /\ (end - 1) + 1 = end
        BY <2>3, <2>6, <2>8
      <3>2. PICK q \in p + 1 .. Len(input) : delimiter = ReadChar(q)
        <4>1. delimiter = ReadChar(chars[end - 1].next)
          BY <2>2, <3>1 DEF Run
        <4>. QED  BY <2>4, <3>1, <4>1
      <3>3. q \in 0 .. Len(input) /\ q > pos
        BY <1>2, <1>5, <3>2
      <3>4. delimiter.next \in q .. Len(input)
        BY <1>2, <3>2, <3>3, ReadCharFacts
      <3>5. after \in q .. Len(input)
        <4>1. CASE delimiter.chr = EOF
          BY <3>4, <4>1
        <4>2. CASE delimiter.chr # EOF
          <5>1. delimiter.next = q + SeqSize(delimiter.chr)
            BY <1>2, <3>2, <3>3, <4>2, ReadCharFacts
          <5>2. SeqSize(delimiter.chr) \in Nat
            BY DEF SeqSize
          <5>3. after = delimiter.next - SeqSize(delimiter.chr)
            BY <4>2
          <5>. QED  BY <1>2, <3>2, <3>3, <5>1, <5>2, <5>3
        <4>. QED  BY <4>1, <4>2
      <3> HIDE DEF delimiter, after, word, chr
      <3>6. pos' = delimiter.next \/ pos' = after
        <4>1. \/ Throws(delimiter.next, at, delimiter.exc)
              \/ Result(after, UpdateLocation(at, delimiter.chr), "DOT", str, OK)
              \/ ReadNumberOrSymbol(word, after, at)
          BY <1>1, <1>9, <2>8
        <4>. QED  BY <4>1 DEF Throws, Result, ReadNumberOrSymbol
      <3>. QED  BY <1>2, <3>3, <3>4, <3>5, <3>6
    <2>. QED  BY <2>5, <2>7, <2>8
  <1>. QED  BY <1>7, <1>8, <1>9

-----------------------------------------------------------------------------
THEOREM Invariance == Spec => []IInv
  <1>1. Init => IInv
    <2> SUFFICES ASSUME Init PROVE IInv
      OBVIOUS
    <2>1. input \in Seq(ByteClasses) /\ pos = 0
      BY LexerAssumption DEF Init
    <2>. QED  BY <2>1 DEF IInv
  <1>2. IInv /\ [Next]_vars => IInv'
    <2> SUFFICES ASSUME IInv, [Next]_vars PROVE IInv'
      OBVIOUS
    <2>1. CASE Next
      <3>1. ReadToken /\ input' = input
        BY <2>1 DEF Next, ReadToken
      <3>. QED  BY <3>1, TokenMoves DEF IInv
    <2>2. CASE UNCHANGED vars
      BY <2>2 DEF vars, IInv
    <2>. QED  BY <2>1, <2>2
  <1>. QED  BY <1>1, <1>2, PTL DEF Spec

(* readToken reads a part of the input in every call, also in one that     *)
(* throws, until there is nothing left: a client that calls it again and   *)
(* again comes to the end of any text.                                     *)
THEOREM AlwaysProgress == Spec => Progress
  <1>1. IInv /\ [Next]_vars => [pos' > pos \/ tok' = EOF]_vars
    <2> SUFFICES ASSUME IInv, Next PROVE pos' > pos \/ tok' = EOF
      OBVIOUS
    <2>. QED  BY TokenMoves DEF Next
  <1>. QED  BY <1>1, Invariance, PTL DEF Spec, Progress

-----------------------------------------------------------------------------
(* Remainders.                                                             *)
LEMMA RemainderIs ==
    ASSUME NEW u \in Nat \ {0}, NEW a \in Nat, NEW q \in Int, NEW r \in 0 .. u - 1,
           a = u * q + r
    PROVE  a % u = r
  <1>1. a = u * (a \div u) + (a % u) /\ a % u \in 0 .. u - 1 /\ a \div u \in Int
    OBVIOUS
  <1>2. u * (q - a \div u) = (a % u) - r
    BY <1>1
  <1>3. ASSUME NEW d \in Int, u * d \in -(u - 1) .. u - 1
        PROVE  d = 0
    <2>1. d >= 1 => u * d >= u
      OBVIOUS
    <2>2. d <= -1 => u * d <= -u
      OBVIOUS
    <2>. QED  BY <1>3, <2>1, <2>2
  <1>4. q - a \div u = 0
    BY <1>1, <1>2, <1>3
  <1>. QED  BY <1>1, <1>2, <1>4

LEMMA RemainderPlus ==
    ASSUME NEW u \in Nat \ {0}, NEW a \in Nat, NEW b \in Nat
    PROVE  ((a % u) + b) % u = (a + b) % u
  <1>1. a = u * (a \div u) + (a % u) /\ a % u \in 0 .. u - 1 /\ a \div u \in Int
    OBVIOUS
  <1>2. /\ a + b = u * ((a + b) \div u) + ((a + b) % u)
        /\ (a + b) % u \in 0 .. u - 1 /\ (a + b) \div u \in Int
    OBVIOUS
  <1>3. PICK q, r, c : /\ q = (a + b) \div u - a \div u /\ r = (a + b) % u
                       /\ c = (a % u) + b
    OBVIOUS
  <1>4. c = u * q + r
    BY <1>1, <1>2, <1>3
  <1>5. c \in Nat /\ q \in Int /\ r \in 0 .. u - 1
    BY <1>1, <1>2, <1>3
  <1>6. c % u = r
    BY <1>4, <1>5, RemainderIs
  <1>. QED  BY <1>3, <1>6

(* The place after the first j characters of c, as LocationOf has it.      *)
Newlines(c, j) == {k \in 1 .. j : c[k].chr = "newline"}
LastNewline(c, j) == Max({0} \cup Newlines(c, j))
Place(c, j) == [line |-> (1 + Cardinality(Newlines(c, j))) % UINT16,
                column |-> (1 + j - LastNewline(c, j)) % UINT16]

LEMMA NewlinesFacts ==
    ASSUME NEW c, NEW j \in Nat
    PROVE  /\ IsFiniteSet(Newlines(c, j)) /\ Cardinality(Newlines(c, j)) \in Nat
           /\ LastNewline(c, j) \in 0 .. j
  <1>1. IsFiniteSet(1 .. j)
    BY FS_Interval
  <1>2. Newlines(c, j) \subseteq 1 .. j
    BY DEF Newlines
  <1>3. IsFiniteSet(Newlines(c, j)) /\ Cardinality(Newlines(c, j)) \in Nat
    BY <1>1, <1>2, FS_Subset, FS_CardinalityType
  <1>4. PICK S : S = {0} \cup Newlines(c, j)
    OBVIOUS
  <1>5. S \subseteq 0 .. j /\ 0 \in S
    BY <1>2, <1>4
  <1>6. \E m \in S : \A k \in S : m >= k
    <2> DEFINE T == {j - k : k \in S}
    <2>1. T \subseteq Nat /\ T # {}
      BY <1>5
    <2>2. PICK t \in T : \A k \in T : t <= k
      BY <2>1, LeastOf
    <2>3. PICK m \in S : t = j - m
      BY <2>2
    <2>4. \A k \in S : j - k \in T
      OBVIOUS
    <2> HIDE DEF T
    <2>5. \A k \in S : m >= k
      BY <1>5, <2>2, <2>3, <2>4
    <2>. QED  BY <2>5
  <1>7. Max(S) \in S
    BY <1>6 DEF Max
  <1>. QED  BY <1>3, <1>4, <1>5, <1>7 DEF LastNewline

(* One character more.                                                     *)
LEMMA PlaceStep ==
    ASSUME NEW c, NEW j \in Nat
    PROVE  Place(c, j + 1) = UpdateLocation(Place(c, j), c[j + 1].chr)
  <1>1. UINT16 \in Nat /\ UINT16 > 1
    BY LexerAssumption
  <1>2. PICK n, m : n = Cardinality(Newlines(c, j)) /\ m = LastNewline(c, j)
    OBVIOUS
  <1>3. n \in Nat /\ m \in 0 .. j /\ IsFiniteSet(Newlines(c, j))
    BY <1>2, NewlinesFacts
  <1>4. Place(c, j) = [line |-> (1 + n) % UINT16, column |-> (1 + j - m) % UINT16]
    BY <1>2 DEF Place
  <1>5. CASE c[j + 1].chr = "newline"
    <2>1. Newlines(c, j + 1) = Newlines(c, j) \cup {j + 1} /\ j + 1 \notin Newlines(c, j)
      BY <1>5 DEF Newlines
    <2>2. Cardinality(Newlines(c, j + 1)) = n + 1
      BY <1>2, <1>3, <2>1, FS_AddElement
    <2>3. LastNewline(c, j + 1) = j + 1
      <3>1. PICK S : S = {0} \cup Newlines(c, j + 1)
        OBVIOUS
      <3>2. S \subseteq 0 .. j + 1 /\ j + 1 \in S
        BY <2>1, <3>1 DEF Newlines
      <3>3. Max(S) \in S /\ Max(S) >= j + 1
        <4>1. \A k \in S : j + 1 >= k
          BY <3>2
        <4>. QED  BY <3>2, <4>1 DEF Max
      <3>4. Max(S) = j + 1
        <4>1. Max(S) \in 0 .. j + 1
          BY <3>2, <3>3
        <4>. QED  BY <3>3, <4>1
      <3>. QED  BY <3>1, <3>4 DEF LastNewline
    <2>4. (((1 + n) % UINT16) + 1) % UINT16 = (1 + (n + 1)) % UINT16
      <3>1. 1 + n \in Nat /\ (1 + n) + 1 = 1 + (n + 1)
        BY <1>3
      <3>. QED  BY <1>1, <3>1, RemainderPlus
    <2>5. (1 + (j + 1) - (j + 1)) % UINT16 = 1
      <3>1. 1 + (j + 1) - (j + 1) = 1
        OBVIOUS
      <3>2. 1 = UINT16 * 0 + 1 /\ 1 \in 0 .. UINT16 - 1 /\ UINT16 \in Nat \ {0}
        BY <1>1
      <3>3. 1 % UINT16 = 1
        BY <3>2, RemainderIs
      <3>. QED  BY <3>1, <3>3
    <2>6. Place(c, j + 1) = [line |-> (1 + (n + 1)) % UINT16, column |-> 1]
      BY <2>2, <2>3, <2>5 DEF Place
    <2>. QED  BY <1>4, <1>5, <2>4, <2>6 DEF UpdateLocation
  <1>6. CASE c[j + 1].chr # "newline"
    <2>1. Newlines(c, j + 1) = Newlines(c, j)
      BY <1>6 DEF Newlines
    <2>2. LastNewline(c, j + 1) = m
      BY <1>2, <2>1 DEF LastNewline
    <2>3. (((1 + j - m) % UINT16) + 1) % UINT16 = (1 + (j + 1) - m) % UINT16
      <3>1. 1 + j - m \in Nat /\ (1 + j - m) + 1 = 1 + (j + 1) - m
        BY <1>3
      <3>. QED  BY <1>1, <3>1, RemainderPlus
    <2>4. Place(c, j + 1) = [line |-> (1 + n) % UINT16,
                             column |-> (1 + (j + 1) - m) % UINT16]
      BY <1>2, <2>1, <2>2 DEF Place
    <2>. QED  BY <1>4, <1>6, <2>3, <2>4 DEF UpdateLocation
  <1>. QED  BY <1>5, <1>6

(* Several characters, none of them a newline.                             *)
LEMMA PlaceColumns ==
    ASSUME NEW c, NEW j \in Nat, NEW n \in Nat,
           \A k \in j + 1 .. j + n : c[k].chr # "newline"
    PROVE  Place(c, j + n) = Columns(Place(c, j), n)
  <1>1. UINT16 \in Nat \ {0}
    BY LexerAssumption
  <1>2. PICK m : m = LastNewline(c, j)
    OBVIOUS
  <1>3. m \in 0 .. j
    BY <1>2, NewlinesFacts
  <1>4. Newlines(c, j + n) = Newlines(c, j)
    BY DEF Newlines
  <1>5. LastNewline(c, j + n) = m
    BY <1>2, <1>4 DEF LastNewline
  <1>6. (((1 + j - m) % UINT16) + n) % UINT16 = (1 + (j + n) - m) % UINT16
    <2>1. 1 + j - m \in Nat /\ (1 + j - m) + n = 1 + (j + n) - m
      BY <1>3
    <2>. QED  BY <1>1, <2>1, RemainderPlus
  <1>. QED  BY <1>2, <1>4, <1>5, <1>6 DEF Place, Columns

(* The characters that are counted one by one.                             *)
LEMMA AdvancedIs ==
    ASSUME NEW c, NEW j \in Nat, NEW s, Len(s) \in Nat,
           \A i \in 1 .. Len(s) : s[i].chr = c[j + i].chr
    PROVE  Advanced(Place(c, j), s) = Place(c, j + Len(s))
  <1> DEFINE Counts(f) == f = [n \in 0 .. Len(s) |->
                                  IF n = 0 THEN Place(c, j)
                                  ELSE UpdateLocation(f[n - 1], s[n].chr)]
             F == CHOOSE f : Counts(f)
             w == [n \in 0 .. Len(s) |-> Place(c, j + n)]
  <1>1. Advanced(Place(c, j), s) = F[Len(s)]
    BY DEF Advanced
  <1>2. \A n \in 0 .. Len(s) : n # 0 =>
           Place(c, j + n) = UpdateLocation(Place(c, j + (n - 1)), s[n].chr)
    <2> SUFFICES ASSUME NEW n \in 0 .. Len(s), n # 0
                 PROVE  Place(c, j + n)
                          = UpdateLocation(Place(c, j + (n - 1)), s[n].chr)
      OBVIOUS
    <2>1. j + (n - 1) \in Nat /\ (j + (n - 1)) + 1 = j + n /\ n \in 1 .. Len(s)
      OBVIOUS
    <2>2. Place(c, (j + (n - 1)) + 1)
             = UpdateLocation(Place(c, j + (n - 1)), c[(j + (n - 1)) + 1].chr)
      BY <2>1, PlaceStep
    <2>. QED  BY <2>1, <2>2
  <1>3. Counts(w)
    <2>1. \A n \in 0 .. Len(s) : w[n] = IF n = 0 THEN Place(c, j)
                                        ELSE UpdateLocation(w[n - 1], s[n].chr)
      <3> SUFFICES ASSUME NEW n \in 0 .. Len(s)
                   PROVE  w[n] = IF n = 0 THEN Place(c, j)
                                 ELSE UpdateLocation(w[n - 1], s[n].chr)
        OBVIOUS
      <3>1. w[n] = Place(c, j + n) /\ (n # 0 => w[n - 1] = Place(c, j + (n - 1)))
        OBVIOUS
      <3>2. n = 0 => j + n = j
        OBVIOUS
      <3> HIDE DEF w
      <3>. QED  BY <1>2, <3>1, <3>2
    <2>2. w = [n \in 0 .. Len(s) |-> w[n]]
      OBVIOUS
    <2> HIDE DEF w
    <2>. QED  BY <2>1, <2>2
  <1>4. Counts(F)
    <2> HIDE DEF Counts, w
    <2>. QED  BY <1>3
  <1> HIDE DEF F, w
  <1>5. \A n \in 0 .. Len(s) : F[n] = IF n = 0 THEN Place(c, j)
                                      ELSE UpdateLocation(F[n - 1], s[n].chr)
    BY <1>4
  <1> DEFINE S == {n \in Nat \ {0} : n - 1 <= Len(s) => F[n - 1] = Place(c, j + (n - 1))}
  <1>6. 1 \in S
    <2>1. F[0] = Place(c, j) /\ j + 0 = j
      BY <1>5
    <2>. QED  BY <2>1
  <1>7. ASSUME NEW n \in Nat \ {0}, n \in S PROVE n + 1 \in S
    <2> SUFFICES ASSUME (n + 1) - 1 <= Len(s) PROVE F[(n + 1) - 1] = Place(c, j + ((n + 1) - 1))
      OBVIOUS
    <2>1. n \in 0 .. Len(s) /\ (n + 1) - 1 = n /\ n # 0
      OBVIOUS
    <2>2. F[n - 1] = Place(c, j + (n - 1))
      BY <1>7, <2>1
    <2>3. F[n] = UpdateLocation(F[n - 1], s[n].chr)
      BY <1>5, <2>1
    <2>. QED  BY <1>2, <2>1, <2>2, <2>3
  <1> HIDE DEF S
  <1>8. Nat \ {0} \subseteq S
    BY <1>6, <1>7, SetInduction
  <1>9. F[Len(s)] = Place(c, j + Len(s))
    <2>1. Len(s) + 1 \in S /\ (Len(s) + 1) - 1 = Len(s)
      BY <1>8
    <2>. QED  BY <2>1 DEF S
  <1>. QED  BY <1>1, <1>9

-----------------------------------------------------------------------------
(* Reading on from the end of a character gives the characters that follow *)
(* it in the text.                                                         *)
EndAt(c, j) == IF j = 0 THEN 0 ELSE c[j].next
TextChars == CharsFrom(0)

LEMMA EndFacts ==
    ASSUME input \in Seq(ByteClasses)
    PROVE  /\ Run(0, TextChars) /\ TextChars[Len(TextChars)].chr = EOF
           /\ Len(TextChars) \in Nat /\ Len(TextChars) >= 1
           /\ DOMAIN TextChars = 1 .. Len(TextChars)
           /\ \A k \in 1 .. Len(TextChars) : TextChars[k].chr # EOF => k < Len(TextChars)
           /\ \A j \in 0 .. Len(TextChars) - 1 :
                 /\ EndAt(TextChars, j) \in 0 .. Len(input)
                 /\ TextChars[j + 1] = ReadChar(EndAt(TextChars, j))
  <1>1. 0 \in 0 .. Len(input)
    OBVIOUS
  <1>2. Run(0, TextChars) /\ Last(TextChars).chr = EOF
    BY <1>1, CharsFacts DEF TextChars
  <1>3. PICK c : c = TextChars
    OBVIOUS
  <1>4. /\ Len(c) \in Nat /\ Len(c) >= 1 /\ c[Len(c)].chr = EOF /\ c[1] = ReadChar(0)
        /\ DOMAIN c = 1 .. Len(c)
        /\ \A k \in 1 .. Len(c) : c[k].next \in 0 .. Len(input)
        /\ \A k \in 1 .. Len(c) - 1 : c[k].chr # EOF /\ c[k + 1] = ReadChar(c[k].next)
    BY <1>2, <1>3 DEF Run, Last
  <1>5. \A k \in 1 .. Len(c) : c[k].chr # EOF => k < Len(c)
    BY <1>4
  <1>6. \A j \in 0 .. Len(c) - 1 : /\ EndAt(c, j) \in 0 .. Len(input)
                                   /\ c[j + 1] = ReadChar(EndAt(c, j))
    <2> SUFFICES ASSUME NEW j \in 0 .. Len(c) - 1
                 PROVE  /\ EndAt(c, j) \in 0 .. Len(input)
                        /\ c[j + 1] = ReadChar(EndAt(c, j))
      OBVIOUS
    <2>1. CASE j = 0
      BY <1>1, <1>4, <2>1 DEF EndAt
    <2>2. CASE j # 0
      <3>1. j \in 1 .. Len(c) - 1 /\ j \in 1 .. Len(c)
        BY <1>4, <2>2
      <3>. QED  BY <1>4, <2>2, <3>1 DEF EndAt
    <2>. QED  BY <2>1, <2>2
  <1>. QED  BY <1>2, <1>3, <1>4, <1>5, <1>6

LEMMA ReadOn ==
    ASSUME input \in Seq(ByteClasses), NEW j \in 0 .. Len(TextChars) - 1,
           NEW p, p = EndAt(TextChars, j)
    PROVE  /\ j + Len(CharsFrom(p)) = Len(TextChars)
           /\ \A i \in 1 .. Len(CharsFrom(p)) : CharsFrom(p)[i] = TextChars[j + i]
           /\ Run(p, CharsFrom(p)) /\ p \in 0 .. Len(input)
  <1>1. PICK c : c = TextChars
    OBVIOUS
  <1>2. /\ Len(c) \in Nat /\ Len(c) >= 1 /\ c[Len(c)].chr = EOF
        /\ \A k \in 1 .. Len(c) : c[k].chr # EOF => k < Len(c)
        /\ \A k \in 1 .. Len(c) - 1 : c[k].chr # EOF /\ c[k + 1] = ReadChar(c[k].next)
        /\ p \in 0 .. Len(input) /\ c[j + 1] = ReadChar(p) /\ j \in 0 .. Len(c) - 1
    BY <1>1, EndFacts DEF Run
  <1>3. PICK d : d = CharsFrom(p)
    OBVIOUS
  <1>4. /\ Run(p, d) /\ d[Len(d)].chr = EOF /\ Len(d) \in Nat /\ Len(d) >= 1
        /\ d[1] = ReadChar(p)
        /\ \A k \in 1 .. Len(d) - 1 : d[k].chr # EOF /\ d[k + 1] = ReadChar(d[k].next)
    BY <1>2, <1>3, CharsFacts DEF Run, Last
  <1> DEFINE Same(i) == j + i <= Len(c) /\ d[i] = c[j + i]
             S == {i \in Nat \ {0} : i <= Len(d) => Same(i)}
  <1>5. 1 \in S
    BY <1>2, <1>4
  <1>6. ASSUME NEW i \in Nat \ {0}, i \in S PROVE i + 1 \in S
    <2> SUFFICES ASSUME i + 1 <= Len(d) PROVE Same(i + 1)
      OBVIOUS
    <2>1. Same(i) /\ i \in 1 .. Len(d) - 1
      BY <1>4, <1>6
    <2>2. d[i].chr # EOF /\ d[i + 1] = ReadChar(d[i].next)
      BY <1>4, <2>1
    <2>3. j + i \in 1 .. Len(c) /\ c[j + i].chr # EOF
      BY <1>2, <2>1, <2>2
    <2>4. j + i \in 1 .. Len(c) - 1
      BY <1>2, <2>3
    <2>5. c[(j + i) + 1] = ReadChar(c[j + i].next)
      BY <1>2, <2>4
    <2>6. (j + i) + 1 = j + (i + 1)
      BY <1>2
    <2>. QED  BY <1>2, <2>1, <2>2, <2>4, <2>5, <2>6
  <1> HIDE DEF S
  <1>7. Nat \ {0} \subseteq S
    BY <1>5, <1>6, SetInduction
  <1>8. \A i \in 1 .. Len(d) : Same(i)
    <2> SUFFICES ASSUME NEW i \in 1 .. Len(d) PROVE Same(i)
      OBVIOUS
    <2>1. i \in S
      BY <1>7
    <2>. QED  BY <2>1 DEF S
  <1>9. j + Len(d) = Len(c)
    <2>1. Len(d) \in 1 .. Len(d)
      BY <1>4
    <2>2. Same(Len(d))
      BY <1>8, <2>1
    <2>3. c[j + Len(d)].chr = EOF /\ j + Len(d) \in 1 .. Len(c)
      BY <1>2, <1>4, <2>2
    <2>4. ~(j + Len(d) \in 1 .. Len(c) - 1)
      BY <1>2, <2>3
    <2>. QED  BY <1>2, <1>4, <2>3, <2>4
  <1>. QED  BY <1>1, <1>2, <1>3, <1>4, <1>8, <1>9

(* The characters before the end of a character are those up to it.        *)
LEMMA CharsBefore ==
    ASSUME input \in Seq(ByteClasses), NEW j \in 0 .. Len(TextChars) - 1,
           NEW k \in 1 .. Len(TextChars), TextChars[k].chr # EOF
    PROVE  TextChars[k].next <= EndAt(TextChars, j) <=> k <= j
  <1>1. PICK c : c = TextChars
    OBVIOUS
  <1>2. /\ Len(c) \in Nat /\ j \in 0 .. Len(c) - 1 /\ k \in 1 .. Len(c) - 1
        /\ \A i \in 1 .. Len(c) - 1 : c[i].chr # EOF
        /\ \A i \in 1 .. Len(c) : c[i].next \in 0 .. Len(input)
    BY <1>1, EndFacts DEF Run
  <1>3. CASE k <= j
    <2>1. CASE k = j
      <3>1. j # 0
        BY <1>2, <2>1
      <3>. QED  BY <1>1, <1>2, <2>1, <3>1 DEF EndAt
    <2>2. CASE k < j
      <3>1. PICK p : p = EndAt(c, k)
        OBVIOUS
      <3>2. p = c[k].next
        BY <1>2, <3>1 DEF EndAt
      <3>3. k \in 0 .. Len(c) - 1
        BY <1>2
      <3>4. /\ k + Len(CharsFrom(p)) = Len(c)
            /\ \A i \in 1 .. Len(CharsFrom(p)) : CharsFrom(p)[i] = c[k + i]
            /\ Run(p, CharsFrom(p)) /\ p \in 0 .. Len(input)
        BY <1>1, <3>1, <3>3, ReadOn
      <3>5. Len(CharsFrom(p)) = Len(c) - k
        <4>1. Len(CharsFrom(p)) \in Nat
          BY <3>4 DEF Run
        <4>. QED  BY <1>2, <3>4, <4>1
      <3>6. j - k \in 1 .. Len(CharsFrom(p)) /\ k + (j - k) = j
        BY <1>2, <2>2, <3>5
      <3>7. CharsFrom(p)[j - k] = c[j] /\ CharsFrom(p)[j - k].next \in p .. Len(input)
        <4>1. CharsFrom(p)[j - k] = c[k + (j - k)]
          BY <3>4, <3>6
        <4>. QED  BY <3>4, <3>6, <4>1 DEF Run
      <3>8. EndAt(c, j) = c[j].next
        BY <1>2, <2>2 DEF EndAt
      <3>9. p <= c[j].next
        BY <3>4, <3>7
      <3>. QED  BY <1>1, <1>3, <3>2, <3>8, <3>9
    <2>. QED  BY <1>2, <1>3, <2>1, <2>2
  <1>4. CASE ~(k <= j)
    <2>1. PICK p : p = EndAt(c, j)
      OBVIOUS
    <2>2. /\ j + Len(CharsFrom(p)) = Len(c)
          /\ \A i \in 1 .. Len(CharsFrom(p)) : CharsFrom(p)[i] = c[j + i]
          /\ Run(p, CharsFrom(p)) /\ p \in 0 .. Len(input)
      BY <1>1, <2>1, ReadOn
    <2>3. Len(CharsFrom(p)) = Len(c) - j /\ 1 \in 1 .. Len(CharsFrom(p))
      <3>1. Len(CharsFrom(p)) \in Nat
        BY <2>2 DEF Run
      <3>. QED  BY <1>2, <2>2, <3>1
    <2>4. CharsFrom(p)[1].chr # EOF
      <3>1. CharsFrom(p)[1] = c[j + 1]
        BY <2>2, <2>3
      <3>2. j + 1 \in 1 .. Len(c) - 1
        BY <1>2, <1>4
      <3>. QED  BY <1>2, <3>1, <3>2
    <2>5. \A i \in 1 .. Len(CharsFrom(p)) : CharsFrom(p)[i].next \in p + 1 .. Len(input)
      BY <2>2, <2>4, RunAdvances
    <2>6. k - j \in 1 .. Len(CharsFrom(p)) /\ j + (k - j) = k
      BY <1>2, <1>4, <2>3
    <2>7. c[k].next \in p + 1 .. Len(input)
      <3>1. CharsFrom(p)[k - j] = c[j + (k - j)]
        BY <2>2, <2>6
      <3>. QED  BY <2>5, <2>6, <3>1
    <2>8. ~(c[k].next <= p)
      BY <2>2, <2>7
    <2>. QED  BY <1>1, <1>4, <2>1, <2>8
  <1>. QED  BY <1>3, <1>4

LEMMA LocationIsPlace ==
    ASSUME input \in Seq(ByteClasses), NEW j \in 0 .. Len(TextChars) - 1
    PROVE  LocationOf(EndAt(TextChars, j)) = Place(TextChars, j)
  <1>1. PICK c, p : c = TextChars /\ p = EndAt(c, j)
    OBVIOUS
  <1>2. /\ Len(c) \in Nat /\ DOMAIN c = 1 .. Len(c) /\ j \in 0 .. Len(c) - 1
        /\ \A k \in 1 .. Len(c) - 1 : c[k].chr # EOF
    BY <1>1, EndFacts DEF Run
  <1>3. {k \in DOMAIN c : c[k].next <= p /\ c[k].chr # EOF} = 1 .. j
    <2>1. \A k \in 1 .. Len(c) : c[k].chr # EOF => (c[k].next <= p <=> k <= j)
      BY <1>1, CharsBefore
    <2>2. \A k \in 1 .. j : k \in 1 .. Len(c) /\ c[k].chr # EOF
      BY <1>2
    <2>3. \A k \in 1 .. Len(c) : k <= j => k \in 1 .. j
      BY <1>2
    <2>. QED  BY <1>2, <2>1, <2>2, <2>3
  <1>4. j = 0 \/ 1 <= j
    BY <1>2
  <1>5. Cardinality(1 .. j) = j
    BY <1>2, FS_Interval
  <1>6. LocationOf(p) =
          LET before == {k \in DOMAIN c : c[k].next <= p /\ c[k].chr # EOF}
              newlines == {k \in before : c[k].chr = "newline"}
          IN  [line |-> (1 + Cardinality(newlines)) % UINT16,
               column |-> (1 + Cardinality(before) - Max({0} \cup newlines)) % UINT16]
    BY <1>1 DEF LocationOf, TextChars
  <1>7. {k \in 1 .. j : c[k].chr = "newline"} = Newlines(c, j)
    BY DEF Newlines
  <1>8. LocationOf(p) =
          [line |-> (1 + Cardinality(Newlines(c, j))) % UINT16,
           column |-> (1 + j - Max({0} \cup Newlines(c, j))) % UINT16]
    BY <1>3, <1>5, <1>6, <1>7
  <1>. QED  BY <1>1, <1>8 DEF Place, LastNewline

-----------------------------------------------------------------------------
(* The stream stands at the end of a character, and loc is its place.      *)
AtPlace(c, p, at) ==
    \E j \in 0 .. Len(c) - 1 : p = EndAt(c, j) /\ at = Place(c, j)
PInv == IInv /\ (misled \/ AtPlace(TextChars, pos, loc))

LEMMA ReadEOF ==
    ASSUME NEW p \in Nat, ReadChar(p).chr = EOF, ReadChar(p).exc = OK,
           input \in Seq(ByteClasses)
    PROVE  ReadChar(p).next = p
  <1>1. OK # "EndOfFile" /\ OK # "Encoding"
    BY DEF OK
  <1>2. EOF \notin ByteClasses \cup {"wide", "nul"}
    BY DEF EOF, ByteClasses
  <1>3. CASE p >= Len(input)
    BY <1>3 DEF ReadChar
  <1>4. CASE ~(p >= Len(input))
    <2>1. p + 1 \in 1 .. Len(input)
      BY <1>4
    <2>2. input[p + 1] \in ByteClasses
      BY <2>1
    <2>. QED  BY <1>1, <1>2, <1>4, <2>2 DEF ReadChar
  <1>. QED  BY <1>3, <1>4

(* A string that is read to its closing quote.                             *)
LEMMA StringPlace ==
    ASSUME input \in Seq(ByteClasses), NEW j \in 0 .. Len(TextChars) - 1,
           NEW p, p = EndAt(TextChars, j), TextChars[j + 1].chr # EOF,
           ReadString(Tail(CharsFrom(p)), Place(TextChars, j + 1)), exc' = OK
    PROVE  AtPlace(TextChars, pos', loc')
  <1>1. PICK c, d, t : c = TextChars /\ d = CharsFrom(p) /\ t = Tail(d)
    OBVIOUS
  <1>2. /\ Len(c) \in Nat /\ j \in 0 .. Len(c) - 1
        /\ \A k \in 1 .. Len(c) : c[k].chr # EOF => k < Len(c)
        /\ j + Len(d) = Len(c) /\ d \in Seq(Characters)
        /\ \A i \in 1 .. Len(d) : d[i] = c[j + i]
    <2>1. /\ Len(c) \in Nat
          /\ \A k \in 1 .. Len(c) : c[k].chr # EOF => k < Len(c)
      BY <1>1, EndFacts
    <2>2. /\ j + Len(d) = Len(c) /\ Run(p, d)
          /\ \A i \in 1 .. Len(d) : d[i] = c[j + i]
      BY <1>1, ReadOn
    <2>3. j \in 0 .. Len(c) - 1
      BY <1>1
    <2>4. d \in Seq(Characters)
      BY <2>2 DEF Run
    <2>. QED  BY <2>1, <2>2, <2>3, <2>4
  <1>3. Len(d) \in Nat /\ Len(d) = Len(c) - j /\ j + 1 < Len(c) /\ Len(d) >= 2
    <2>1. Len(d) \in Nat
      BY <1>2
    <2>2. j + 1 \in 1 .. Len(c) /\ c[j + 1].chr # EOF
      BY <1>1, <1>2
    <2>. QED  BY <1>2, <2>1, <2>2
  <1>4. /\ t \in Seq(Characters) /\ Len(t) = Len(d) - 1
        /\ \A i \in 1 .. Len(t) : t[i] = c[(j + 1) + i]
    <2>1. /\ t \in Seq(Characters) /\ Len(t) = Len(d) - 1
          /\ \A i \in 1 .. Len(t) : t[i] = d[i + 1]
      <3>1. d \in Seq(Characters) /\ Len(d) \in Nat /\ Len(d) >= 2 /\ t = Tail(d)
        BY <1>1, <1>2, <1>3
      <3>. QED  BY ONLY <3>1
    <2>2. \A i \in 1 .. Len(t) : i + 1 \in 1 .. Len(d) /\ j + (i + 1) = (j + 1) + i
      BY <1>2, <1>3, <2>1
    <2>. QED  BY <1>2, <2>1, <2>2
  <1> DEFINE escaped == {k \in DOMAIN t : Escaped(t, k)}
             ends == {k \in DOMAIN t : t[k].chr = "quote"} \ escaped
             bad == {k \in escaped : t[k].chr \notin {"\\", "quote", EOF}}
             stop == Min(ends \cup bad \cup {Len(t)})
             inside == SubSeq(t, 1, stop - 1)
             before == Advanced(Place(c, j + 1), inside)
  <1>5. IF stop \in ends
        THEN Result(t[stop].next, UpdateLocation(before, "quote"),
                    "STRING", TextOf(inside, escaped), OK)
        ELSE Throws(t[stop].next, before,
                    IF stop \in bad THEN "EscapeChar"
                    ELSE IF t[stop].exc # OK THEN t[stop].exc
                    ELSE "EndOfFile")
    <2>1. ReadString(t, Place(c, j + 1))
      BY <1>1
    <2>. QED  BY <2>1 DEF ReadString
  <1>6. \A k \in ends : k \in 1 .. Len(t) /\ t[k].chr = "quote"
    BY <1>4
  <1> HIDE DEF escaped, ends, bad, stop
  <1>7. stop \in ends
    <2> SUFFICES ASSUME stop \notin ends PROVE FALSE
      OBVIOUS
    <2> HIDE DEF before
    <2>1. exc' = IF stop \in bad THEN "EscapeChar"
                 ELSE IF t[stop].exc # OK THEN t[stop].exc ELSE "EndOfFile"
      BY <1>5 DEF Throws, Result
    <2>. QED  BY <2>1 DEF OK
  <1>8. stop \in 1 .. Len(t) /\ t[stop].chr = "quote"
    BY <1>6, <1>7
  <1>9. pos' = t[stop].next /\ loc' = UpdateLocation(before, "quote")
    BY <1>5, <1>7 DEF Result
  <1>10. before = Place(c, (j + 1) + (stop - 1))
    <2>1. /\ inside \in Seq(Characters) /\ Len(inside) = stop - 1
          /\ \A i \in 1 .. stop - 1 : inside[i] = t[i]
      BY <1>4, <1>8
    <2>2. PICK n : n = j + 1
      OBVIOUS
    <2>3. \A i \in 1 .. Len(inside) : inside[i].chr = c[n + i].chr
      <3> SUFFICES ASSUME NEW i \in 1 .. Len(inside)
                   PROVE  inside[i].chr = c[n + i].chr
        OBVIOUS
      <3>1. i \in 1 .. stop - 1 /\ i \in 1 .. Len(t)
        BY <1>3, <1>4, <1>8, <2>1
      <3>. QED  BY <1>4, <2>1, <2>2, <3>1
    <2>4. n \in Nat /\ Len(inside) \in Nat
      BY <1>2, <2>1, <2>2
    <2>5. before = Advanced(Place(c, n), inside)
      BY <2>2
    <2> HIDE DEF inside, before
    <2>6. Advanced(Place(c, n), inside) = Place(c, n + Len(inside))
      BY <2>3, <2>4, AdvancedIs
    <2>. QED  BY <2>1, <2>2, <2>5, <2>6
  <1>11. PICK m : m = (j + 1) + (stop - 1)
    OBVIOUS
  <1>12. m \in Nat /\ m + 1 = (j + 1) + stop /\ m + 1 \in 1 .. Len(c)
    BY <1>2, <1>3, <1>4, <1>8, <1>11
  <1>13. c[m + 1] = t[stop]
    BY <1>4, <1>8, <1>12
  <1>14. c[m + 1].chr # EOF
    BY <1>8, <1>13 DEF EOF
  <1>15. m + 1 \in 0 .. Len(c) - 1
    BY <1>2, <1>12, <1>14
  <1>16. loc' = Place(c, m + 1)
    BY <1>8, <1>9, <1>10, <1>11, <1>12, <1>13, PlaceStep
  <1>17. pos' = EndAt(c, m + 1)
    BY <1>9, <1>12, <1>13 DEF EndAt
  <1>. QED  BY <1>1, <1>15, <1>16, <1>17 DEF AtPlace

LEMMA TokenPlace ==
    ASSUME IInv, ReadToken, ~misled', AtPlace(TextChars, pos, loc)
    PROVE  AtPlace(TextChars, pos', loc')
  <1> DEFINE all == CharsFrom(pos)
             first == Skipped(all)
             at == Advanced(loc, SubSeq(all, 1, first - 1))
             start == all[first].next - SeqSize(all[first].chr)
             chars == CharsFrom(start)
             chr == Head(chars).chr
             ended == {k \in DOMAIN chars : chars[k].chr \in Delimiters \cup {EOF}}
             end == Min(ended)
             word == [n \in 1 .. end - 1 |-> chars[n].chr]
             delimiter == chars[end]
             after == IF delimiter.chr = EOF THEN delimiter.next
                      ELSE delimiter.next - SeqSize(delimiter.chr)
  <1>1. /\ IF all[first].exc # OK
           THEN Throws(all[first].next, at, all[first].exc)
           ELSE IF all[first].chr = EOF
           THEN Result(all[first].next, at, EOF, str, OK)
           ELSE IF chr = "quote"
           THEN ReadString(Tail(chars), UpdateLocation(at, chr))
           ELSE IF end = 1
           THEN Result(Head(chars).next, UpdateLocation(at, chr),
                       IF chr = "(" THEN "OPEN" ELSE "CLOSE", str, OK)
           ELSE IF delimiter.exc # OK
           THEN Throws(delimiter.next, at, delimiter.exc)
           ELSE IF word = << "." >>
           THEN Result(after, UpdateLocation(at, delimiter.chr), "DOT", str, OK)
           ELSE ReadNumberOrSymbol(word, after, at)
        /\ exc' = OK
        /\ ~(tok' = "DOT" /\ delimiter.chr = "newline")
    BY DEF ReadToken
  <1>2. PICK c : c = TextChars
    OBVIOUS
  <1>3. PICK j \in 0 .. Len(c) - 1 : pos = EndAt(c, j) /\ loc = Place(c, j)
    BY <1>2 DEF AtPlace
  <1>4. /\ input \in Seq(ByteClasses) /\ Len(input) \in Nat /\ pos \in 0 .. Len(input)
        /\ Len(c) \in Nat /\ Len(c) >= 1
        /\ \A k \in 1 .. Len(c) : c[k].chr # EOF => k < Len(c)
        /\ \A k \in 0 .. Len(c) - 1 : /\ EndAt(c, k) \in 0 .. Len(input)
                                      /\ c[k + 1] = ReadChar(EndAt(c, k))
    <2>1. input \in Seq(ByteClasses) /\ Len(input) \in Nat /\ pos \in 0 .. Len(input)
      BY DEF IInv
    <2>. QED  BY <1>2, <2>1, EndFacts
  <1>5. /\ j + Len(all) = Len(c) /\ Len(all) \in Nat /\ all \in Seq(Characters)
        /\ \A i \in 1 .. Len(all) : all[i] = c[j + i]
        /\ first \in 1 .. Len(all)
    <2>1. /\ j + Len(all) = Len(c) /\ Run(pos, all)
          /\ \A i \in 1 .. Len(all) : all[i] = c[j + i]
      BY <1>2, <1>3, <1>4, ReadOn
    <2>2. Last(all).chr = EOF
      BY <1>4, CharsFacts
    <2> HIDE DEF all
    <2>3. first \in 1 .. Len(all)
      BY <2>1, <2>2, SkippedFacts
    <2>. QED  BY <2>1, <2>3 DEF Run
  <1> HIDE DEF all, first
  <1>6. PICK m : m = j + (first - 1)
    OBVIOUS
  <1>7. /\ m \in 0 .. Len(c) - 1 /\ m \in Nat /\ j + first = m + 1
        /\ all[first] = c[m + 1]
    BY <1>3, <1>4, <1>5, <1>6
  <1>8. at = Place(c, m)
    <2>1. PICK s : s = SubSeq(all, 1, first - 1)
      OBVIOUS
    <2>2. /\ s \in Seq(Characters) /\ Len(s) = first - 1
          /\ \A i \in 1 .. first - 1 : s[i] = all[i]
      BY <1>5, <2>1
    <2>3. \A i \in 1 .. Len(s) : s[i].chr = c[j + i].chr
      <3> SUFFICES ASSUME NEW i \in 1 .. Len(s) PROVE s[i].chr = c[j + i].chr
        OBVIOUS
      <3>1. i \in 1 .. first - 1 /\ i \in 1 .. Len(all)
        BY <1>5, <2>2
      <3>. QED  BY <1>5, <2>2, <3>1
    <2>4. j \in Nat /\ Len(s) \in Nat
      BY <1>4, <1>5, <2>2
    <2>5. Advanced(Place(c, j), s) = Place(c, j + Len(s))
      BY <2>3, <2>4, AdvancedIs
    <2>6. at = Advanced(Place(c, j), s)
      BY <1>3, <2>1
    <2> HIDE DEF at
    <2>. QED  BY <1>6, <2>2, <2>5, <2>6
  <1>9. PICK p : p = EndAt(c, m)
    OBVIOUS
  <1>10. /\ p \in 0 .. Len(input) /\ all[first] = ReadChar(p) /\ p \in Nat
    BY <1>4, <1>7, <1>9
  <1> HIDE DEF at
  <1>11. all[first].exc = OK
    BY <1>1 DEF Throws, Result
  <1>12. CASE all[first].chr = EOF
    <2>1. pos' = all[first].next /\ loc' = at
      BY <1>1, <1>11, <1>12 DEF Result
    <2>2. all[first].next = p
      BY <1>4, <1>10, <1>11, <1>12, ReadEOF
    <2>. QED  BY <1>2, <1>7, <1>8, <1>9, <2>1, <2>2 DEF AtPlace
  <1>13. CASE all[first].chr # EOF
    <2>1. start = p
      <3>1. ReadChar(p).next = p + SeqSize(ReadChar(p).chr)
        BY <1>4, <1>10, <1>13, ReadCharFacts
      <3>2. SeqSize(ReadChar(p).chr) \in Nat
        BY DEF SeqSize
      <3>. QED  BY <1>10, <3>1, <3>2
    <2> HIDE DEF start
    <2>2. /\ m + Len(chars) = Len(c) /\ Len(chars) \in Nat /\ Len(chars) >= 1
          /\ chars \in Seq(Characters) /\ DOMAIN chars = 1 .. Len(chars)
          /\ \A i \in 1 .. Len(chars) : chars[i] = c[m + i]
          /\ Run(p, chars) /\ Last(chars).chr = EOF
      <3>1. /\ m + Len(CharsFrom(p)) = Len(c) /\ Run(p, CharsFrom(p))
            /\ \A i \in 1 .. Len(CharsFrom(p)) : CharsFrom(p)[i] = c[m + i]
        BY <1>2, <1>4, <1>7, <1>9, ReadOn
      <3>2. Last(CharsFrom(p)).chr = EOF
        BY <1>4, <1>10, CharsFacts
      <3>. QED  BY <2>1, <3>1, <3>2 DEF Run
    <2>3. chars = CharsFrom(p)
      BY <2>1
    <2> HIDE DEF chars
    <2>4. Head(chars) = chars[1] /\ chars[1] = c[m + 1] /\ chr = c[m + 1].chr
      <3>1. Head(chars) = chars[1] /\ chars[1] = c[m + 1]
        BY <2>2
      <3>. QED  BY <3>1
    <2>5. m + 1 < Len(c) /\ m + 1 \in 1 .. Len(c)
      BY <1>4, <1>7, <1>13
    <2>6. UpdateLocation(at, chr) = Place(c, m + 1)
      BY <1>7, <1>8, <2>4, PlaceStep
    <2>7. CASE chr = "quote"
      <3>1. ReadString(Tail(CharsFrom(p)), Place(c, m + 1))
        BY <1>1, <1>11, <1>13, <2>3, <2>6, <2>7
      <3>. QED  BY <1>1, <1>2, <1>4, <1>7, <1>9, <1>13, <3>1, StringPlace
    <2>8. /\ end \in 1 .. Len(chars) /\ chars[end].chr \in Delimiters \cup {EOF}
          /\ \A k \in 1 .. end - 1 : chars[k].chr \notin Delimiters \cup {EOF}
      <3>1. ended \subseteq 1 .. Len(chars)
        BY <2>2
      <3>2. Len(chars) \in ended
        <4>1. chars[Len(chars)].chr = EOF
          BY <2>2 DEF Last
        <4>. QED  BY <2>2, <4>1
      <3>3. \A k \in 1 .. Len(chars) : k \in ended <=> chars[k].chr \in Delimiters \cup {EOF}
        BY <2>2
      <3> HIDE DEF ended
      <3>4. end \in ended /\ \A k \in ended : end <= k
        <4>1. ended \subseteq Nat
          BY <2>2, <3>1
        <4>. QED  BY <3>2, <4>1, MinOf
      <3>5. PICK e : e = end
        OBVIOUS
      <3>6. e \in 1 .. Len(chars) /\ \A k \in ended : e <= k
        BY <3>1, <3>4, <3>5
      <3>7. ASSUME NEW k \in 1 .. e - 1
            PROVE  k \in 1 .. Len(chars) /\ k \notin ended
        <4>1. PICK l : l = Len(chars)
          OBVIOUS
        <4>2. l \in Nat /\ e \in 1 .. l
          BY <2>2, <3>6, <4>1
        <4>3. k \in 1 .. l /\ ~(e <= k)
          BY <4>2
        <4>. QED  BY <3>6, <4>1, <4>3
      <3>. QED  BY <3>1, <3>3, <3>4, <3>5, <3>7
    <2> HIDE DEF end
    <2>9. CASE chr # "quote" /\ end = 1
      <3>1. pos' = Head(chars).next /\ loc' = UpdateLocation(at, chr)
        BY <1>1, <1>11, <1>13, <2>9 DEF Result
      <3>2. Head(chars).next = EndAt(c, m + 1)
        BY <1>7, <2>4 DEF EndAt
      <3>3. m + 1 \in 0 .. Len(c) - 1
        BY <1>4, <1>7, <2>5
      <3>. QED  BY <1>2, <2>6, <3>1, <3>2, <3>3 DEF AtPlace
    <2>10. CASE chr # "quote" /\ end # 1
      <3>1. PICK n : n = m + (end - 1)
        OBVIOUS
      <3>2. /\ n \in 1 .. Len(c) - 1 /\ end - 1 \in Nat /\ end - 1 >= 1
            /\ m + end = n + 1
        BY <1>4, <1>7, <2>2, <2>8, <2>10, <3>1
      <3>3. delimiter = c[n + 1]
        BY <2>2, <2>8, <3>2
      <3>4. PICK q : q = EndAt(c, n)
        OBVIOUS
      <3>5. q \in 0 .. Len(input) /\ q \in Nat /\ delimiter = ReadChar(q)
        <4>1. n \in 0 .. Len(c) - 1
          BY <3>2
        <4>. QED  BY <1>4, <3>3, <3>4, <4>1
      <3> HIDE DEF delimiter
      <3>6. delimiter.exc = OK
        <4> SUFFICES ASSUME delimiter.exc # OK PROVE FALSE
          OBVIOUS
        <4>1. Throws(delimiter.next, at, delimiter.exc)
          BY <1>1, <1>11, <1>13, <2>10
        <4>2. exc' = delimiter.exc
          BY <4>1 DEF Throws, Result
        <4>. QED  BY <1>1, <4>2
      <3>7. after = q
        <4>1. CASE delimiter.chr = EOF
          BY <1>4, <3>5, <3>6, <4>1, ReadEOF
        <4>2. CASE delimiter.chr # EOF
          <5>1. delimiter.next = q + SeqSize(delimiter.chr)
            BY <1>4, <3>5, <4>2, ReadCharFacts
          <5>2. SeqSize(delimiter.chr) \in Nat
            BY DEF SeqSize
          <5>. QED  BY <3>5, <4>2, <5>1, <5>2
        <4>. QED  BY <4>1, <4>2
      <3>8. Len(word) = end - 1
        BY <3>2
      <3>9. Columns(at, end - 1) = Place(c, n)
        <4>1. \A k \in m + 1 .. m + (end - 1) : c[k].chr # "newline"
          <5> SUFFICES ASSUME NEW k \in m + 1 .. m + (end - 1)
                       PROVE  c[k].chr # "newline"
            OBVIOUS
          <5>1. k - m \in 1 .. end - 1 /\ k - m \in 1 .. Len(chars) /\ m + (k - m) = k
            BY <1>7, <2>2, <2>8, <3>2
          <5>2. chars[k - m] = c[m + (k - m)] /\ chars[k - m].chr \notin Delimiters
            BY <2>2, <2>8, <5>1
          <5>3. "newline" \in Delimiters
            BY DEF Delimiters, Whitespace
          <5>. QED  BY <5>1, <5>2, <5>3
        <4>. QED  BY <1>7, <1>8, <3>1, <3>2, <4>1, PlaceColumns
      <3> HIDE DEF after
      <3>10. CASE word = << "." >>
        <4>1. /\ pos' = after /\ loc' = UpdateLocation(at, delimiter.chr)
              /\ tok' = "DOT"
          BY <1>1, <1>11, <1>13, <2>10, <3>6, <3>10 DEF Result
        <4>2. delimiter.chr # "newline"
          BY <1>1, <4>1
        <4>3. end - 1 = 1
          BY <3>8, <3>10
        <4>4. UpdateLocation(at, delimiter.chr) = Columns(at, 1)
          BY <4>2 DEF UpdateLocation, Columns
        <4>5. loc' = Place(c, n)
          BY <3>9, <4>1, <4>3, <4>4
        <4>6. n \in 0 .. Len(c) - 1
          BY <3>2
        <4>. QED  BY <1>2, <3>4, <3>7, <4>1, <4>5, <4>6 DEF AtPlace
      <3>11. CASE word # << "." >>
        <4>1. ReadNumberOrSymbol(word, after, at)
          BY <1>1, <1>11, <1>13, <2>10, <3>6, <3>11
        <4> HIDE DEF word
        <4>2. pos' = after /\ (loc' = Columns(at, Len(word)) \/ exc' = "Range")
          BY <4>1 DEF ReadNumberOrSymbol, Result, Throws
        <4>3. loc' = Columns(at, Len(word))
          BY <1>1, <4>2 DEF OK
        <4>4. n \in 0 .. Len(c) - 1
          BY <3>2
        <4>. QED  BY <1>2, <3>4, <3>7, <3>8, <3>9, <4>2, <4>3, <4>4 DEF AtPlace
      <3>. QED  BY <3>10, <3>11
    <2>. QED  BY <2>7, <2>9, <2>10
  <1>. QED  BY <1>12, <1>13

LEMMA TextStays ==
    ASSUME UNCHANGED input
    PROVE  TextChars' = TextChars
  <1>1. ASSUME NEW p PROVE CharsFrom(p)' = CharsFrom(p)
    BY DEF CharsFrom, ReadChar
  <1>. QED  BY <1>1 DEF TextChars

(* What holds along every behaviour: the stream stands at the end of a     *)
(* character, never inside one, and its location is the place after it.    *)
THEOREM PlaceInvariance == Spec => []PInv
  <1>1. Init => PInv
    <2> SUFFICES ASSUME Init PROVE PInv
      OBVIOUS
    <2>1. input \in Seq(ByteClasses) /\ pos = 0
          /\ loc = [line |-> 1, column |-> 1]
      BY LexerAssumption DEF Init
    <2>2. IInv
      BY <2>1 DEF IInv
    <2>3. PICK c : c = TextChars
      OBVIOUS
    <2>4. 0 \in 0 .. Len(c) - 1
      BY <2>1, <2>3, EndFacts
    <2>5. Newlines(c, 0) = {} /\ Cardinality(Newlines(c, 0)) = 0
      BY FS_EmptySet DEF Newlines
    <2>6. LastNewline(c, 0) = 0
      BY NewlinesFacts
    <2>7. (1 + 0) % UINT16 = 1 /\ (1 + 0 - 0) % UINT16 = 1
      <3>1. UINT16 \in Nat /\ 1 < UINT16
        BY LexerAssumption
      <3>2. 1 % UINT16 = 1
        BY <3>1, RemainderIs
      <3>. QED  BY <3>2
    <2>8. loc = Place(c, 0)
      BY <2>1, <2>5, <2>6, <2>7 DEF Place
    <2>9. pos = EndAt(c, 0)
      BY <2>1 DEF EndAt
    <2>. QED  BY <2>2, <2>3, <2>4, <2>8, <2>9 DEF PInv, AtPlace
  <1>2. PInv /\ [Next]_vars => PInv'
    <2> SUFFICES ASSUME PInv, [Next]_vars PROVE PInv'
      OBVIOUS
    <2>1. CASE Next
      <3>1. ReadToken /\ input' = input /\ (misled => misled')
        BY <2>1 DEF Next, ReadToken
      <3>2. IInv'
        BY <3>1, TokenMoves DEF PInv, IInv
      <3>3. TextChars' = TextChars
        BY <3>1, TextStays
      <3>4. ~misled' => AtPlace(TextChars, pos', loc')
        BY <3>1, TokenPlace DEF PInv
      <3>. QED  BY <3>2, <3>3, <3>4 DEF PInv, AtPlace, EndAt
    <2>2. CASE UNCHANGED vars
      <3>1. TextChars' = TextChars
        BY <2>2, TextStays DEF vars
      <3>. QED  BY <2>2, <3>1 DEF vars, PInv, IInv, AtPlace, EndAt
    <2>. QED  BY <2>1, <2>2
  <1>. QED  BY <1>1, <1>2, PTL DEF Spec

(* The line and the column the lexer reports, which it counts in three     *)
(* ways as it goes, are those of the place in the text where its stream    *)
(* stands, for texts and tokens of any length and wherever the counters    *)
(* wrap, until an exception or a dot at the end of a line.                 *)
THEOREM LocationAlwaysTrue == Spec => []LocationIsTrue
  <1>1. PInv => LocationIsTrue
    <2> SUFFICES ASSUME PInv, ~misled PROVE loc = LocationOf(pos)
      BY DEF LocationIsTrue
    <2>1. PICK j \in 0 .. Len(TextChars) - 1 :
              pos = EndAt(TextChars, j) /\ loc = Place(TextChars, j)
      BY DEF PInv, AtPlace
    <2>2. LocationOf(EndAt(TextChars, j)) = Place(TextChars, j)
      BY LocationIsPlace DEF PInv, IInv
    <2>. QED  BY <2>1, <2>2
  <1>. QED  BY <1>1, PlaceInvariance, PTL

-----------------------------------------------------------------------------
(* FlattenSeq is recursive too.                                            *)
Flat(s, m, f) == f = [i \in 1 .. m |-> IF i = 1 THEN s[i] ELSE f[i - 1] \o s[i]]

LEMMA FlatExists ==
    ASSUME NEW s
    PROVE  \A m \in Nat \ {0} : \E f : Flat(s, m, f)
  <1> DEFINE S == {m \in Nat \ {0} : \E f : Flat(s, m, f)}
  <1>1. 1 \in S
    <2>1. Flat(s, 1, [i \in 1 .. 1 |-> s[i]])
      BY DEF Flat
    <2>. QED  BY <2>1
  <1>2. ASSUME NEW m \in Nat \ {0}, m \in S
        PROVE  m + 1 \in S
    <2>1. PICK f : Flat(s, m, f)
      BY <1>2
    <2>4. PICK y : y = f[m] \o s[m + 1]
      OBVIOUS
    <2> DEFINE g == [i \in 1 .. m + 1 |-> IF i = m + 1 THEN y ELSE f[i]]
    <2>2. \A i \in 1 .. m + 1 : g[i] = IF i = 1 THEN s[i] ELSE g[i - 1] \o s[i]
      <3> SUFFICES ASSUME NEW i \in 1 .. m + 1
                   PROVE  g[i] = IF i = 1 THEN s[i] ELSE g[i - 1] \o s[i]
        OBVIOUS
      <3>1. CASE i = m + 1
        <4>1. g[i] = y /\ g[i - 1] = f[m] /\ i # 1
          BY <3>1
        <4> HIDE DEF g
        <4>. QED  BY <2>4, <3>1, <4>1
      <3>2. CASE i # m + 1
        <4>1. i \in 1 .. m
          BY <3>2
        <4>2. f[i] = IF i = 1 THEN s[i] ELSE f[i - 1] \o s[i]
          BY <2>1, <4>1 DEF Flat
        <4>3. g[i] = f[i] /\ (i # 1 => g[i - 1] = f[i - 1])
          BY <4>1
        <4> HIDE DEF g
        <4>. QED  BY <4>2, <4>3
      <3>. QED  BY <3>1, <3>2
    <2>3. Flat(s, m + 1, g)
      <3>1. g = [i \in 1 .. m + 1 |-> g[i]]
        OBVIOUS
      <3> HIDE DEF g
      <3>. QED  BY <2>2, <3>1 DEF Flat
    <2> HIDE DEF g
    <2>. QED  BY <2>3
  <1> HIDE DEF S
  <1>3. Nat \ {0} \subseteq S
    BY <1>1, <1>2, SetInduction
  <1>. QED  BY <1>3 DEF S

LEMMA FlatUnique ==
    ASSUME NEW s, NEW t, NEW m \in Nat \ {0}, NEW n \in Nat, m <= n,
           NEW f, NEW g, Flat(s, m, f), Flat(t, n, g), \A i \in 1 .. m : s[i] = t[i]
    PROVE  f[m] = g[m]
  <1> DEFINE S == {i \in Nat \ {0} : i <= m => f[i] = g[i]}
  <1>1. /\ \A i \in 1 .. m : f[i] = IF i = 1 THEN s[i] ELSE f[i - 1] \o s[i]
        /\ \A i \in 1 .. n : g[i] = IF i = 1 THEN t[i] ELSE g[i - 1] \o t[i]
    BY DEF Flat
  <1>2. 1 \in S
    <2>1. 1 \in 1 .. m /\ 1 \in 1 .. n
      OBVIOUS
    <2>. QED  BY <1>1, <2>1
  <1>3. ASSUME NEW i \in Nat \ {0}, i \in S PROVE i + 1 \in S
    <2> SUFFICES ASSUME i + 1 <= m PROVE f[i + 1] = g[i + 1]
      OBVIOUS
    <2>1. /\ i + 1 \in 1 .. m /\ i + 1 \in 1 .. n /\ i + 1 # 1 /\ (i + 1) - 1 = i
          /\ f[i] = g[i]
      BY <1>3
    <2>2. f[i + 1] = f[i] \o s[i + 1] /\ g[i + 1] = g[i] \o t[i + 1]
      BY <1>1, <2>1
    <2>. QED  BY <2>1, <2>2
  <1> HIDE DEF S
  <1>4. m \in S
    BY <1>2, <1>3, SetInduction
  <1>. QED  BY <1>4 DEF S

LEMMA FlattenIs ==
    ASSUME NEW T, NEW s \in Seq(T), s # << >>
    PROVE  \E f : Flat(s, Len(s), f) /\ FlattenSeq(s) = f[Len(s)]
  <1> DEFINE F == CHOOSE f : Flat(s, Len(s), f)
  <1>1. Len(s) \in Nat \ {0}
    OBVIOUS
  <1>2. FlattenSeq(s) = F[Len(s)]
    BY <1>1 DEF FlattenSeq, Flat
  <1>3. Flat(s, Len(s), F)
    <2>1. \E f : Flat(s, Len(s), f)
      BY <1>1, FlatExists
    <2>. QED  BY <2>1
  <1> HIDE DEF F
  <1>. QED  BY <1>2, <1>3

LEMMA FlattenEmpty == FlattenSeq(<< >>) = << >>
  <1>1. PICK s : s = << >> /\ Len(s) = 0
    OBVIOUS
  <1>2. FlattenSeq(s) = s
    BY <1>1 DEF FlattenSeq
  <1>. QED  BY <1>1, <1>2

(* One sequence more is added at the end.                                  *)
LEMMA FlattenAppend ==
    ASSUME NEW U, NEW s \in Seq(Seq(U)), NEW x \in Seq(U)
    PROVE  FlattenSeq(Append(s, x)) = FlattenSeq(s) \o x
  <1>1. PICK t : t = Append(s, x)
    OBVIOUS
  <1>2. /\ t \in Seq(Seq(U)) /\ Len(t) = Len(s) + 1 /\ Len(s) \in Nat /\ t # << >>
        /\ t[Len(s) + 1] = x /\ \A i \in 1 .. Len(s) : s[i] = t[i]
    BY <1>1
  <1>3. PICK n \in Nat : n = Len(s)
    BY <1>2
  <1>4. PICK g : Flat(t, n + 1, g) /\ FlattenSeq(t) = g[n + 1]
    BY <1>2, <1>3, FlattenIs
  <1>5. \A i \in 1 .. n + 1 : g[i] = IF i = 1 THEN t[i] ELSE g[i - 1] \o t[i]
    BY <1>4 DEF Flat
  <1>6. CASE n = 0
    <2>1. g[1] = x /\ s = << >>
      <3>1. 1 \in 1 .. n + 1 /\ Len(s) + 1 = 1
        BY <1>3, <1>6
      <3>2. g[1] = t[1] /\ t[1] = x
        BY <1>2, <1>5, <3>1
      <3>3. s = << >>
        BY <1>3, <1>6, EmptySeq
      <3>. QED  BY <3>2, <3>3
    <2>2. FlattenSeq(s) = << >>
      BY <2>1, FlattenEmpty
    <2>3. << >> \o x = x
      OBVIOUS
    <2>. QED  BY <1>1, <1>4, <1>6, <2>1, <2>2, <2>3
  <1>7. CASE n # 0
    <2>1. PICK f : Flat(s, n, f) /\ FlattenSeq(s) = f[n]
      <3>1. s # << >>
        BY <1>3, <1>7
      <3>. QED  BY <1>3, <3>1, FlattenIs
    <2>2. f[n] = g[n]
      <3>1. PICK k \in Nat : k = n + 1 /\ n <= k
        OBVIOUS
      <3>2. n \in Nat \ {0} /\ Flat(t, k, g) /\ \A i \in 1 .. n : s[i] = t[i]
        BY <1>2, <1>3, <1>4, <1>7, <3>1
      <3>. QED  BY <2>1, <3>1, <3>2, FlatUnique
    <2>3. g[n + 1] = g[n] \o t[n + 1]
      <3>1. n + 1 \in 1 .. n + 1 /\ n + 1 # 1 /\ (n + 1) - 1 = n
        BY <1>7
      <3>. QED  BY <1>5, <3>1
    <2>. QED  BY <1>1, <1>2, <1>3, <1>4, <2>1, <2>2, <2>3
  <1>. QED  BY <1>6, <1>7

-----------------------------------------------------------------------------
(* The bytes of a character, and those of a part of the text.              *)
Plain(chr) == CASE chr = "wide" -> << "lead", "cont" >>
                [] chr = "nul" -> << "cont" >>
                [] OTHER -> << chr >>
From(p, q) == SubSeq(input, p + 1, q)

LEMMA FromFacts ==
    ASSUME input \in Seq(ByteClasses), NEW p \in 0 .. Len(input),
           NEW q \in p .. Len(input)
    PROVE  /\ From(p, q) \in Seq(ByteClasses) /\ Len(From(p, q)) = q - p
           /\ \A i \in 1 .. q - p : From(p, q)[i] = input[p + i]
           /\ From(p, p) = << >>
  <1>1. Len(input) \in Nat /\ p \in Nat /\ q \in Nat /\ p <= q /\ q <= Len(input)
    OBVIOUS
  <1>2. From(p, q) \in Seq(ByteClasses)
    BY <1>1 DEF From
  <1>3. Len(From(p, q)) = q - p
    BY <1>1 DEF From
  <1>4. \A i \in 1 .. q - p : From(p, q)[i] = input[p + i]
    <2> SUFFICES ASSUME NEW i \in 1 .. q - p PROVE From(p, q)[i] = input[p + i]
      OBVIOUS
    <2>1. PICK a \in Nat : a = p + 1
      BY <1>1
    <2>2. SubSeq(input, a, q)[i] = input[(a + i) - 1]
      BY <1>1, <2>1
    <2>3. (a + i) - 1 = p + i
      BY <1>1, <2>1
    <2>. QED  BY <2>1, <2>2, <2>3 DEF From
  <1>5. From(p, p) = << >>
    BY <1>1 DEF From
  <1>. QED  BY <1>2, <1>3, <1>4, <1>5

LEMMA FromJoins ==
    ASSUME input \in Seq(ByteClasses), NEW p \in 0 .. Len(input),
           NEW q \in p .. Len(input), NEW r \in q .. Len(input)
    PROVE  From(p, q) \o From(q, r) = From(p, r)
  <1>1. Len(input) \in Nat /\ p \in Nat /\ q \in Nat /\ r \in Nat /\ p <= q /\ q <= r
        /\ q \in 0 .. Len(input) /\ r \in p .. Len(input)
    OBVIOUS
  <1>2. PICK a, b, c : a = From(p, q) /\ b = From(q, r) /\ c = From(p, r)
    OBVIOUS
  <1>3. /\ a \in Seq(ByteClasses) /\ Len(a) = q - p
        /\ \A i \in 1 .. q - p : a[i] = input[p + i]
    BY <1>2, FromFacts
  <1>4. /\ b \in Seq(ByteClasses) /\ Len(b) = r - q
        /\ \A i \in 1 .. r - q : b[i] = input[q + i]
    BY <1>1, <1>2, FromFacts
  <1>5. /\ c \in Seq(ByteClasses) /\ Len(c) = r - p
        /\ \A i \in 1 .. r - p : c[i] = input[p + i]
    BY <1>1, <1>2, FromFacts
  <1>6. PICK d : d = a \o b
    OBVIOUS
  <1>7. /\ d \in Seq(ByteClasses) /\ Len(d) = r - p
        /\ \A i \in 1 .. r - p : d[i] = IF i <= q - p THEN a[i] ELSE b[i - (q - p)]
    <2>1. Len(a) \in Nat /\ Len(b) \in Nat /\ Len(a) + Len(b) = r - p
      BY <1>1, <1>3, <1>4
    <2>2. /\ d \in Seq(ByteClasses) /\ Len(d) = Len(a) + Len(b)
          /\ \A i \in 1 .. Len(a) + Len(b) :
                d[i] = IF i <= Len(a) THEN a[i] ELSE b[i - Len(a)]
      BY <1>3, <1>4, <1>6, ConcatProperties
    <2>. QED  BY <1>3, <2>1, <2>2
  <1>8. \A i \in 1 .. r - p : d[i] = c[i]
    <2> SUFFICES ASSUME NEW i \in 1 .. r - p PROVE d[i] = c[i]
      OBVIOUS
    <2>1. CASE i <= q - p
      BY <1>1, <1>3, <1>5, <1>7, <2>1
    <2>2. CASE ~(i <= q - p)
      <3>1. PICK k : k = i - (q - p)
        OBVIOUS
      <3>2. k \in 1 .. r - q /\ q + k = p + i
        BY <1>1, <2>2, <3>1
      <3>3. d[i] = b[k]
        BY <1>7, <2>2, <3>1
      <3>. QED  BY <1>4, <1>5, <3>2, <3>3
    <2>. QED  BY <2>1, <2>2
  <1>9. c = d
    BY <1>5, <1>7, <1>8
  <1>. QED  BY <1>2, <1>6, <1>9

(* A character that is read stands in the text.                            *)
LEMMA PlainThere ==
    ASSUME input \in Seq(ByteClasses), NEW p \in 0 .. Len(input), ReadChar(p).chr # EOF
    PROVE  /\ Plain(ReadChar(p).chr) = From(p, ReadChar(p).next)
           /\ ReadChar(p).next \in p + 1 .. Len(input) /\ p < Len(input)
           /\ ReadChar(p).chr \notin {"wide", "nul"} =>
                 ReadChar(p).next = p + 1 /\ input[p + 1] = ReadChar(p).chr
           /\ input[p + 1] \in Delimiters => ReadChar(p).chr = input[p + 1]
  <1>1. Len(input) \in Nat /\ p \in Nat
    OBVIOUS
  <1>2. p < Len(input)
    BY <1>1 DEF ReadChar
  <1>3. PICK byte \in ByteClasses : byte = input[p + 1]
    <2>1. p + 1 \in 1 .. Len(input)
      BY <1>1, <1>2
    <2>. QED  BY <2>1
  <1>4. byte \notin {"wide", "nul"} /\ "lead" \notin Delimiters /\ "cont" \notin Delimiters
    <2>1. byte \notin {"wide", "nul"}
      BY DEF ByteClasses
    <2>2. "lead" \notin Delimiters /\ "cont" \notin Delimiters
      BY DEF Delimiters, Whitespace
    <2>. QED  BY <2>1, <2>2
  <1>5. CASE byte = "cont"
    <2>1. ReadChar(p).chr = "nul" /\ ReadChar(p).next = p + 1
      BY <1>2, <1>3, <1>5 DEF ReadChar
    <2>2. Plain("nul") = << "cont" >>
      BY DEF Plain
    <2>3. From(p, p + 1) = << byte >>
      <3>1. p + 1 \in p .. Len(input)
        BY <1>1, <1>2
      <3>2. PICK q \in p .. Len(input) : q = p + 1
        BY <3>1
      <3>4. PICK e : e = From(p, q)
        OBVIOUS
      <3>5. e \in Seq(ByteClasses) /\ Len(e) = q - p
            /\ \A i \in 1 .. q - p : e[i] = input[p + i]
        BY <3>2, <3>4, FromFacts
      <3>6. q - p = 1
        BY <1>1, <3>2
      <3>3. e \in Seq(ByteClasses) /\ Len(e) = 1 /\ e[1] = byte
        BY <1>3, <3>5, <3>6
      <3>. QED  BY <3>2, <3>3, <3>4
    <2>. QED  BY <1>1, <1>2, <1>3, <1>4, <1>5, <2>1, <2>2, <2>3
  <1>6. CASE byte \notin {"cont", "lead"}
    <2>1. ReadChar(p).chr = byte /\ ReadChar(p).next = p + 1
      BY <1>2, <1>3, <1>6 DEF ReadChar
    <2>2. Plain(byte) = << byte >>
      BY <1>4 DEF Plain
    <2>3. From(p, p + 1) = << byte >>
      <3>1. p + 1 \in p .. Len(input)
        BY <1>1, <1>2
      <3>2. PICK q \in p .. Len(input) : q = p + 1
        BY <3>1
      <3>4. PICK e : e = From(p, q)
        OBVIOUS
      <3>5. e \in Seq(ByteClasses) /\ Len(e) = q - p
            /\ \A i \in 1 .. q - p : e[i] = input[p + i]
        BY <3>2, <3>4, FromFacts
      <3>6. q - p = 1
        BY <1>1, <3>2
      <3>3. e \in Seq(ByteClasses) /\ Len(e) = 1 /\ e[1] = byte
        BY <1>3, <3>5, <3>6
      <3>. QED  BY <3>2, <3>3, <3>4
    <2>. QED  BY <1>1, <1>2, <1>3, <2>1, <2>2, <2>3
  <1>7. CASE byte = "lead"
    <2>1. /\ p + 2 <= Len(input) /\ input[p + 2] = "cont"
          /\ ReadChar(p).chr = "wide" /\ ReadChar(p).next = p + 2
      <3>1. p + 1 # Len(input) /\ input[p + 2] = "cont"
        BY <1>2, <1>3, <1>7 DEF ReadChar
      <3>. QED  BY <1>1, <1>2, <1>3, <1>7, <3>1 DEF ReadChar
    <2>2. Plain("wide") = << "lead", "cont" >>
      BY DEF Plain
    <2>3. From(p, p + 2) = << "lead", "cont" >>
      <3>1. p + 2 \in p .. Len(input)
        BY <1>1, <2>1
      <3>2. PICK q \in p .. Len(input) : q = p + 2
        BY <3>1
      <3>4. PICK e : e = From(p, q)
        OBVIOUS
      <3>5. e \in Seq(ByteClasses) /\ Len(e) = q - p
            /\ \A i \in 1 .. q - p : e[i] = input[p + i]
        BY <3>2, <3>4, FromFacts
      <3>6. q - p = 2
        BY <1>1, <3>2
      <3>7. 1 \in 1 .. q - p /\ 2 \in 1 .. q - p
        BY <3>6
      <3>8. e[1] = input[p + 1] /\ e[2] = input[p + 2]
        BY <3>5, <3>7
      <3>3. e \in Seq(ByteClasses) /\ Len(e) = 2 /\ e[1] = "lead" /\ e[2] = "cont"
        BY <1>3, <1>7, <2>1, <3>5, <3>6, <3>8
      <3>. QED  BY <3>2, <3>3, <3>4
    <2>. QED  BY <1>1, <1>2, <1>3, <1>4, <1>7, <2>1, <2>2, <2>3
  <1>. QED  BY <1>5, <1>6, <1>7

-----------------------------------------------------------------------------
(* Characters that follow each other from p on, whether CharsFrom(p) or    *)
(* what comes after its first.                                             *)
EndFrom(p, c, n) == IF n = 0 THEN p ELSE c[n].next
Chain(p, c) ==
    /\ c \in Seq(Characters)
    /\ \A n \in 1 .. Len(c) : c[n] = ReadChar(EndFrom(p, c, n - 1))
    /\ \A n \in 1 .. Len(c) - 1 : c[n].chr # EOF

LEMMA RunIsChain ==
    ASSUME NEW p, NEW c, Run(p, c)
    PROVE  Chain(p, c)
  <1>1. /\ c \in Seq(Characters) /\ Len(c) \in Nat /\ c[1] = ReadChar(p)
        /\ \A k \in 1 .. Len(c) - 1 : c[k].chr # EOF /\ c[k + 1] = ReadChar(c[k].next)
    BY DEF Run
  <1>2. ASSUME NEW n \in 1 .. Len(c) PROVE c[n] = ReadChar(EndFrom(p, c, n - 1))
    <2>1. CASE n = 1
      BY <1>1, <2>1 DEF EndFrom
    <2>2. CASE n # 1
      <3>1. PICK k \in 1 .. Len(c) - 1 : k = n - 1 /\ k + 1 = n /\ k # 0
        BY <1>1, <2>2
      <3>. QED  BY <1>1, <3>1 DEF EndFrom
    <2>. QED  BY <2>1, <2>2
  <1>. QED  BY <1>1, <1>2 DEF Chain

LEMMA TailIsChain ==
    ASSUME NEW p, NEW c, Chain(p, c), Len(c) >= 2
    PROVE  /\ Chain(c[1].next, Tail(c)) /\ Len(Tail(c)) = Len(c) - 1
           /\ \A n \in 1 .. Len(Tail(c)) : Tail(c)[n] = c[n + 1]
  <1>1. /\ c \in Seq(Characters) /\ Len(c) \in Nat
        /\ \A n \in 1 .. Len(c) : c[n] = ReadChar(EndFrom(p, c, n - 1))
        /\ \A n \in 1 .. Len(c) - 1 : c[n].chr # EOF
    BY DEF Chain
  <1>2. PICK t : t = Tail(c)
    OBVIOUS
  <1>3. /\ t \in Seq(Characters) /\ Len(t) = Len(c) - 1 /\ Len(t) \in Nat
        /\ \A n \in 1 .. Len(t) : t[n] = c[n + 1]
    BY <1>1, <1>2
  <1>4. ASSUME NEW n \in 1 .. Len(t)
        PROVE  t[n] = ReadChar(EndFrom(c[1].next, t, n - 1))
    <2>1. t[n] = c[n + 1] /\ n + 1 \in 1 .. Len(c) /\ (n + 1) - 1 = n /\ n # 0
      BY <1>1, <1>3
    <2>2. t[n] = ReadChar(c[n].next)
      BY <1>1, <2>1 DEF EndFrom
    <2>3. CASE n = 1
      BY <2>2, <2>3 DEF EndFrom
    <2>4. CASE n # 1
      <3>1. PICK k \in 1 .. Len(t) : k = n - 1 /\ k + 1 = n /\ k # 0
        BY <1>3, <2>4
      <3>2. t[k] = c[n]
        BY <1>3, <3>1
      <3>. QED  BY <2>2, <3>1, <3>2 DEF EndFrom
    <2>. QED  BY <2>3, <2>4
  <1>5. ASSUME NEW n \in 1 .. Len(t) - 1 PROVE t[n].chr # EOF
    <2>1. n \in 1 .. Len(t) /\ n + 1 \in 1 .. Len(c) - 1
      BY <1>1, <1>3
    <2>. QED  BY <1>1, <1>3, <2>1
  <1>. QED  BY <1>2, <1>3, <1>4, <1>5 DEF Chain

(* The end of a character in the chain, and the bytes up to the next.      *)
LEMMA ChainEnds ==
    ASSUME input \in Seq(ByteClasses), NEW p \in 0 .. Len(input), NEW c, Chain(p, c)
    PROVE  \A n \in 0 .. Len(c) : EndFrom(p, c, n) \in p .. Len(input)
  <1>1. /\ c \in Seq(Characters) /\ Len(c) \in Nat /\ Len(input) \in Nat /\ p \in Nat
        /\ \A n \in 1 .. Len(c) : c[n] = ReadChar(EndFrom(p, c, n - 1))
    BY DEF Chain
  <1> DEFINE Good(n) == EndFrom(p, c, n) \in p .. Len(input)
             S == {n \in Nat \ {0} : n <= Len(c) => Good(n)}
  <1>2. Good(0)
    BY <1>1 DEF EndFrom
  <1>3. ASSUME NEW n \in 0 .. Len(c) - 1, Good(n) PROVE Good(n + 1)
    <2>1. PICK k : k = n + 1
      OBVIOUS
    <2>2. k \in 1 .. Len(c) /\ k - 1 = n /\ k # 0
      BY <1>1, <2>1
    <2>3. PICK q \in 0 .. Len(input) : q = EndFrom(p, c, n) /\ p <= q
      BY <1>1, <1>3
    <2>4. c[k] = ReadChar(q)
      BY <1>1, <2>2, <2>3
    <2>5. ReadChar(q).next \in q .. Len(input)
      BY <2>3, ReadCharFacts
    <2>6. c[k].next \in p .. Len(input)
      BY <1>1, <2>3, <2>4, <2>5
    <2>7. EndFrom(p, c, k) = c[k].next
      BY <2>2 DEF EndFrom
    <2>. QED  BY <2>1, <2>6, <2>7
  <1> HIDE DEF Good
  <1>4. 1 \in S
    <2> SUFFICES ASSUME 1 <= Len(c) PROVE Good(1)
      OBVIOUS
    <2>1. 0 \in 0 .. Len(c) - 1 /\ 0 + 1 = 1
      BY <1>1
    <2>2. PICK z \in 0 .. Len(c) - 1 : z = 0 /\ z + 1 = 1
      BY <2>1
    <2>. QED  BY <1>2, <1>3, <2>2
  <1>5. ASSUME NEW n \in Nat \ {0}, n \in S PROVE n + 1 \in S
    <2> SUFFICES ASSUME n + 1 <= Len(c) PROVE Good(n + 1)
      OBVIOUS
    <2>1. n \in 0 .. Len(c) - 1 /\ Good(n)
      BY <1>1, <1>5
    <2>. QED  BY <1>3, <2>1
  <1> HIDE DEF S
  <1>6. Nat \ {0} \subseteq S
    BY <1>4, <1>5, SetInduction
  <1>7. ASSUME NEW n \in 0 .. Len(c) PROVE Good(n)
    <2>1. CASE n = 0
      BY <1>2, <2>1
    <2>2. CASE n # 0
      <3>1. n \in Nat \ {0} /\ n <= Len(c)
        BY <1>1, <2>2
      <3>2. n \in S
        BY <1>6, <3>1
      <3>. QED  BY <3>1, <3>2 DEF S
    <2>. QED  BY <2>1, <2>2
  <1>. QED  BY <1>7 DEF Good

LEMMA ChainStep ==
    ASSUME input \in Seq(ByteClasses), NEW p \in 0 .. Len(input), NEW c, Chain(p, c),
           NEW n \in 1 .. Len(c), c[n].chr # EOF
    PROVE  LET q == EndFrom(p, c, n - 1)
               r == EndFrom(p, c, n)
           IN  /\ q \in 0 .. Len(input) /\ p <= q /\ q < Len(input)
               /\ r \in q + 1 .. Len(input)
               /\ Plain(c[n].chr) = From(q, r)
               /\ Plain(c[n].chr) \in Seq(ByteClasses)
  <1>1. /\ c \in Seq(Characters) /\ Len(c) \in Nat /\ Len(input) \in Nat /\ p \in Nat
        /\ c[n] = ReadChar(EndFrom(p, c, n - 1))
    BY DEF Chain
  <1>2. PICK q, r : q = EndFrom(p, c, n - 1) /\ r = EndFrom(p, c, n)
    OBVIOUS
  <1>3. q \in p .. Len(input)
    <2>1. PICK k \in 0 .. Len(c) : k = n - 1
      BY <1>1
    <2>. QED  BY <1>2, <2>1, ChainEnds
  <1>4. q \in 0 .. Len(input) /\ c[n] = ReadChar(q)
    BY <1>1, <1>2, <1>3
  <1>5. r = ReadChar(q).next
    BY <1>1, <1>2, <1>4 DEF EndFrom
  <1>6. /\ Plain(c[n].chr) = From(q, r) /\ r \in q + 1 .. Len(input) /\ q < Len(input)
    BY <1>4, <1>5, PlainThere
  <1>7. From(q, r) \in Seq(ByteClasses)
    <2>1. r \in q .. Len(input)
      BY <1>1, <1>4, <1>6
    <2>. QED  BY <1>4, <2>1, FromFacts
  <1>. QED  BY <1>1, <1>2, <1>3, <1>4, <1>6, <1>7

-----------------------------------------------------------------------------
(* Sequences that are the parts of another.                                *)
LEMMA FlattenParts ==
    ASSUME NEW U, NEW s \in Seq(Seq(U)), NEW g, g[0] = << >>,
           \A i \in 1 .. Len(s) : g[i] = g[i - 1] \o s[i]
    PROVE  FlattenSeq(s) = g[Len(s)]
  <1>1. Len(s) \in Nat /\ \A i \in 1 .. Len(s) : s[i] \in Seq(U)
    OBVIOUS
  <1>2. CASE s = << >>
    <2>1. Len(s) = 0
      BY <1>2
    <2>. QED  BY <1>2, <2>1, FlattenEmpty
  <1>3. CASE s # << >>
    <2>1. PICK f : Flat(s, Len(s), f) /\ FlattenSeq(s) = f[Len(s)]
      BY <1>3, FlattenIs
    <2>2. \A i \in 1 .. Len(s) : f[i] = IF i = 1 THEN s[i] ELSE f[i - 1] \o s[i]
      BY <2>1 DEF Flat
    <2> DEFINE S == {i \in Nat \ {0} : i <= Len(s) => f[i] = g[i]}
    <2>3. 1 \in S
      <3> SUFFICES ASSUME 1 <= Len(s) PROVE f[1] = g[1]
        OBVIOUS
      <3>1. 1 \in 1 .. Len(s) /\ 1 - 1 = 0
        BY <1>1
      <3>2. f[1] = s[1] /\ g[1] = g[0] \o s[1]
        BY <2>2, <3>1
      <3>3. PICK x \in Seq(U) : x = s[1]
        BY <1>1, <3>1
      <3>4. << >> \o x = x
        OBVIOUS
      <3>. QED  BY <3>2, <3>3, <3>4
    <2>4. ASSUME NEW i \in Nat \ {0}, i \in S PROVE i + 1 \in S
      <3> SUFFICES ASSUME i + 1 <= Len(s) PROVE f[i + 1] = g[i + 1]
        OBVIOUS
      <3>1. i + 1 \in 1 .. Len(s) /\ i + 1 # 1 /\ (i + 1) - 1 = i /\ f[i] = g[i]
        BY <1>1, <2>4
      <3>2. f[i + 1] = f[i] \o s[i + 1] /\ g[i + 1] = g[i] \o s[i + 1]
        BY <2>2, <3>1
      <3>. QED  BY <3>1, <3>2
    <2> HIDE DEF S
    <2>5. Nat \ {0} \subseteq S
      BY <2>3, <2>4, SetInduction
    <2>6. Len(s) \in Nat \ {0}
      BY <1>1, <1>3, EmptySeq
    <2>7. Len(s) \in S
      BY <2>5, <2>6
    <2>. QED  BY <1>1, <2>1, <2>7 DEF S
  <1>. QED  BY <1>2, <1>3

(* The bytes of the first n characters are what stands there.              *)
LEMMA WordText ==
    ASSUME input \in Seq(ByteClasses), NEW p \in 0 .. Len(input), NEW c, Chain(p, c),
           NEW n \in 0 .. Len(c), \A k \in 1 .. n : c[k].chr # EOF
    PROVE  FlattenSeq([i \in 1 .. n |-> Plain(c[i].chr)]) = From(p, EndFrom(p, c, n))
  <1>1. Len(c) \in Nat /\ n \in Nat /\ Len(input) \in Nat
    BY DEF Chain
  <1>2. PICK s : s = [i \in 1 .. n |-> Plain(c[i].chr)]
    OBVIOUS
  <1>3. \A i \in 1 .. n : i \in 1 .. Len(c) /\ c[i].chr # EOF
    BY <1>1
  <1>4. s \in Seq(Seq(ByteClasses)) /\ Len(s) = n /\ \A i \in 1 .. n : s[i] = Plain(c[i].chr)
    <2>1. \A i \in 1 .. n : Plain(c[i].chr) \in Seq(ByteClasses)
      BY <1>3, ChainStep
    <2>. QED  BY <1>1, <1>2, <2>1
  <1>5. PICK g : g = [i \in 0 .. n |-> From(p, EndFrom(p, c, i))]
    OBVIOUS
  <1>6. g[0] = << >>
    <2>1. g[0] = From(p, EndFrom(p, c, 0))
      BY <1>1, <1>5
    <2>2. EndFrom(p, c, 0) = p
      BY DEF EndFrom
    <2>3. From(p, p) = << >>
      <3>1. p \in p .. Len(input)
        BY <1>1
      <3>. QED  BY <3>1, FromFacts
    <2>. QED  BY <2>1, <2>2, <2>3
  <1>7. ASSUME NEW i \in 1 .. n PROVE g[i] = g[i - 1] \o s[i]
    <2>1. i \in 0 .. n /\ i - 1 \in 0 .. n /\ i - 1 \in 0 .. Len(c) /\ i \in 1 .. Len(c)
          /\ i \in 0 .. Len(c)
      BY <1>1
    <2>2. PICK q, r : q = EndFrom(p, c, i - 1) /\ r = EndFrom(p, c, i)
      OBVIOUS
    <2>3. g[i] = From(p, r) /\ g[i - 1] = From(p, q)
      BY <1>5, <2>1, <2>2
    <2>4. /\ q \in 0 .. Len(input) /\ p <= q /\ r \in q + 1 .. Len(input)
          /\ Plain(c[i].chr) = From(q, r)
      BY <1>3, <2>1, <2>2, ChainStep
    <2>5. q \in p .. Len(input) /\ r \in q .. Len(input)
      BY <1>1, <2>4
    <2>6. From(p, q) \o From(q, r) = From(p, r)
      BY <2>5, FromJoins
    <2>. QED  BY <1>4, <2>3, <2>4, <2>6
  <1>8. FlattenSeq(s) = g[Len(s)]
    BY <1>4, <1>6, <1>7, FlattenParts
  <1>9. g[n] = From(p, EndFrom(p, c, n))
    BY <1>1, <1>5
  <1>. QED  BY <1>2, <1>4, <1>8, <1>9

-----------------------------------------------------------------------------
(* Which characters of a string are escaped: those after one that is a     *)
(* backslash and is not escaped itself.                                    *)
LEMMA EscapedStep ==
    ASSUME NEW c, NEW k \in Nat \ {0}
    PROVE  /\ ~Escaped(c, 1)
           /\ Escaped(c, k + 1) <=> c[k].chr = "\\" /\ ~Escaped(c, k)
  <1> DEFINE Others(i) == {0} \cup {j \in 1 .. i - 1 : c[j].chr # "\\"}
  <1>1. ASSUME NEW i \in Nat \ {0}
        PROVE  /\ Max(Others(i)) \in 0 .. i - 1
               /\ \A j \in Others(i) : j <= Max(Others(i))
    <2>1. PICK S : S = Others(i)
      OBVIOUS
    <2>2. S \subseteq 0 .. i - 1 /\ 0 \in S
      BY <2>1
    <2>3. \E m \in S : \A j \in S : m >= j
      <3> DEFINE T == {i - j : j \in S}
      <3>1. T \subseteq Nat /\ T # {}
        BY <2>2
      <3>2. PICK t \in T : \A j \in T : t <= j
        BY <3>1, LeastOf
      <3>3. PICK m \in S : t = i - m
        BY <3>2
      <3>4. \A j \in S : i - j \in T
        OBVIOUS
      <3> HIDE DEF T
      <3>5. \A j \in S : m >= j
        BY <2>2, <3>2, <3>3, <3>4
      <3>. QED  BY <3>5
    <2>4. Max(S) \in S /\ \A j \in S : Max(S) >= j
      BY <2>3 DEF Max
    <2>5. PICK m : m = Max(S)
      OBVIOUS
    <2>6. m \in 0 .. i - 1 /\ \A j \in S : j <= m
      BY <2>2, <2>4, <2>5
    <2>. QED  BY <2>1, <2>5, <2>6
  <1>2. \A i : Escaped(c, i) <=> (i - 1 - Max(Others(i))) % 2 = 1
    BY DEF Escaped
  <1>3. ~Escaped(c, 1)
    <2>1. PICK m : m = Max(Others(1))
      OBVIOUS
    <2>2. m = 0
      <3>1. m \in 0 .. 1 - 1
        BY <1>1, <2>1
      <3>. QED  BY <3>1
    <2>3. Escaped(c, 1) <=> (1 - 1 - m) % 2 = 1
      BY <1>2, <2>1
    <2>. QED  BY <2>2, <2>3
  <1>4. PICK m, n, i : m = Max(Others(k)) /\ n = Max(Others(i)) /\ i = k + 1
    OBVIOUS
  <1>5. m \in 0 .. k - 1
    BY <1>1, <1>4
  <1>6. (Escaped(c, k) <=> (k - 1 - m) % 2 = 1) /\ (Escaped(c, i) <=> (i - 1 - n) % 2 = 1)
    <2> HIDE DEF Others
    <2>1. Escaped(c, k) <=> (k - 1 - m) % 2 = 1
      BY <1>2, <1>4
    <2>2. Escaped(c, i) <=> (i - 1 - n) % 2 = 1
      BY <1>2, <1>4
    <2>. QED  BY <2>1, <2>2
  <1>7. CASE c[k].chr = "\\"
    <2>1. Others(i) = Others(k)
      BY <1>4, <1>7
    <2>2. n = m
      BY <1>4, <2>1
    <2>3. (i - 1 - m) % 2 = 1 <=> ~((k - 1 - m) % 2 = 1)
      <3>1. PICK a \in Nat : a = k - 1 - m
        BY <1>5
      <3>2. i - 1 - m = a + 1
        BY <1>4, <1>5, <3>1
      <3>3. (a + 1) % 2 = 1 <=> ~(a % 2 = 1)
        OBVIOUS
      <3>. QED  BY <3>1, <3>2, <3>3
    <2> HIDE DEF Others
    <2>. QED  BY <1>3, <1>4, <1>6, <1>7, <2>2, <2>3
  <1>8. CASE c[k].chr # "\\"
    <2>1. k \in Others(i)
      BY <1>4, <1>8
    <2>2. n \in 0 .. i - 1 /\ k <= n
      <3>1. i \in Nat \ {0}
        BY <1>4
      <3>. QED  BY <1>1, <1>4, <2>1, <3>1
    <2>3. ~((i - 1 - n) % 2 = 1)
      <3>1. i - 1 - n = 0
        BY <1>4, <2>2
      <3>. QED  BY <3>1
    <2> HIDE DEF Others
    <2>. QED  BY <1>3, <1>4, <1>6, <1>8, <2>3
  <1>. QED  BY <1>7, <1>8

(* TextOf is recursive too: what it keeps of the first n characters.       *)
Keep(s, escaped, n, kept) ==
    IF s[n].chr = "\\" /\ n \notin escaped THEN kept ELSE Append(kept, s[n].chr)
Keeps(s, escaped, m, f) ==
    f = [n \in 0 .. m |-> IF n = 0 THEN << >> ELSE Keep(s, escaped, n, f[n - 1])]

LEMMA KeptExists ==
    ASSUME NEW s, NEW escaped
    PROVE  \A m \in Nat : \E f : Keeps(s, escaped, m, f)
  <1> DEFINE S == {m \in Nat \ {0} : \E f : Keeps(s, escaped, m - 1, f)}
  <1>1. 1 \in S
    <2>1. Keeps(s, escaped, 0, [n \in 0 .. 0 |-> << >>])
      BY DEF Keeps
    <2>. QED  BY <2>1
  <1>2. ASSUME NEW k \in Nat \ {0}, k \in S
        PROVE  k + 1 \in S
    <2>1. PICK m \in Nat : m = k - 1 /\ (k + 1) - 1 = m + 1
      OBVIOUS
    <2>2. PICK f : Keeps(s, escaped, m, f)
      BY <1>2, <2>1
    <2>3. PICK y : y = Keep(s, escaped, m + 1, f[m])
      OBVIOUS
    <2> DEFINE g == [n \in 0 .. m + 1 |-> IF n = m + 1 THEN y ELSE f[n]]
    <2>4. \A n \in 0 .. m + 1 :
             g[n] = IF n = 0 THEN << >> ELSE Keep(s, escaped, n, g[n - 1])
      <3> SUFFICES ASSUME NEW n \in 0 .. m + 1
                   PROVE  g[n] = IF n = 0 THEN << >> ELSE Keep(s, escaped, n, g[n - 1])
        OBVIOUS
      <3>1. CASE n = m + 1
        <4>1. g[n] = y /\ g[n - 1] = f[m] /\ n # 0
          BY <3>1
        <4> HIDE DEF g
        <4>. QED  BY <2>3, <3>1, <4>1
      <3>2. CASE n # m + 1
        <4>1. n \in 0 .. m
          BY <3>2
        <4>2. f[n] = IF n = 0 THEN << >> ELSE Keep(s, escaped, n, f[n - 1])
          BY <2>2, <4>1 DEF Keeps
        <4>3. g[n] = f[n] /\ (n # 0 => g[n - 1] = f[n - 1])
          BY <4>1
        <4> HIDE DEF g
        <4>. QED  BY <4>2, <4>3
      <3>. QED  BY <3>1, <3>2
    <2>5. Keeps(s, escaped, m + 1, g)
      <3>1. g = [n \in 0 .. m + 1 |-> g[n]]
        OBVIOUS
      <3> HIDE DEF g
      <3>. QED  BY <2>4, <3>1 DEF Keeps
    <2> HIDE DEF g
    <2>6. \E h : Keeps(s, escaped, (k + 1) - 1, h)
      BY <2>1, <2>5
    <2>. QED  BY <2>6
  <1> HIDE DEF S
  <1>3. Nat \ {0} \subseteq S
    BY <1>1, <1>2, SetInduction
  <1>4. ASSUME NEW m \in Nat PROVE \E f : Keeps(s, escaped, m, f)
    <2>1. PICK k \in Nat \ {0} : k = m + 1 /\ k - 1 = m
      OBVIOUS
    <2>2. k \in S
      BY <1>3
    <2>. QED  BY <2>1, <2>2 DEF S
  <1>. QED  BY <1>4

Built(s, escaped, f) ==
    f[0] = << >> /\ \A n \in 1 .. Len(s) : f[n] = Keep(s, escaped, n, f[n - 1])

LEMMA TextOfIs ==
    ASSUME NEW s, NEW escaped, Len(s) \in Nat
    PROVE  \E f : TextOf(s, escaped) = f[Len(s)] /\ Built(s, escaped, f)
  <1> DEFINE F == CHOOSE f : Keeps(s, escaped, Len(s), f)
  <1>1. TextOf(s, escaped) = F[Len(s)]
    BY DEF TextOf, Keeps, Keep
  <1>2. Keeps(s, escaped, Len(s), F)
    <2>1. \E f : Keeps(s, escaped, Len(s), f)
      BY KeptExists
    <2>. QED  BY <2>1
  <1> HIDE DEF F
  <1>3. \A n \in 0 .. Len(s) : F[n] = IF n = 0 THEN << >> ELSE Keep(s, escaped, n, F[n - 1])
    BY <1>2 DEF Keeps
  <1>4. Built(s, escaped, F)
    BY <1>3 DEF Built
  <1>. QED  BY <1>1, <1>4

-----------------------------------------------------------------------------
(* The bytes of the characters of a string.                                *)
Letters == Chars \ {EOF}
StringBytes(chr) == IF chr \in {"\\", "quote"} THEN << "\\", chr >> ELSE Plain(chr)
Written(x) == [n \in DOMAIN x |-> StringBytes(x[n])]

LEMMA StringBytesType ==
    ASSUME NEW chr \in Letters
    PROVE  /\ Plain(chr) \in Seq(ByteClasses) /\ StringBytes(chr) \in Seq(ByteClasses)
           /\ chr \notin {"wide", "nul"} => Plain(chr) = << chr >> /\ chr \in ByteClasses
  <1>1. {"lead", "cont", "\\", "quote"} \subseteq ByteClasses
    BY DEF ByteClasses
  <1>2. chr \notin {"wide", "nul"} => chr \in ByteClasses
    BY DEF Letters, Chars
  <1>3. << "lead", "cont" >> \in Seq(ByteClasses) /\ << "cont" >> \in Seq(ByteClasses)
    BY <1>1
  <1>4. chr \in ByteClasses => << chr >> \in Seq(ByteClasses)
                               /\ << "\\", chr >> \in Seq(ByteClasses)
    BY <1>1
  <1>5. Plain(chr) \in Seq(ByteClasses)
    BY <1>2, <1>3, <1>4 DEF Plain
  <1>6. StringBytes(chr) \in Seq(ByteClasses)
    BY <1>1, <1>4, <1>5 DEF StringBytes
  <1>. QED  BY <1>2, <1>5, <1>6 DEF Plain

LEMMA WrittenAppend ==
    ASSUME NEW x \in Seq(Letters), NEW e \in Letters
    PROVE  /\ Written(x) \in Seq(Seq(ByteClasses))
           /\ Written(Append(x, e)) = Append(Written(x), StringBytes(e))
  <1>1. PICK v, w, b, z : /\ v = Written(x) /\ z = Append(x, e) /\ w = Written(z)
                          /\ b = StringBytes(e)
    OBVIOUS
  <1>2. Len(x) \in Nat /\ DOMAIN x = 1 .. Len(x) /\ \A i \in 1 .. Len(x) : x[i] \in Letters
    OBVIOUS
  <1>3. /\ z \in Seq(Letters) /\ Len(z) = Len(x) + 1 /\ DOMAIN z = 1 .. Len(x) + 1
        /\ z[Len(x) + 1] = e /\ \A i \in 1 .. Len(x) : z[i] = x[i]
    BY <1>1
  <1>4. \A l \in Letters : StringBytes(l) \in Seq(ByteClasses)
    BY StringBytesType
  <1>5. b \in Seq(ByteClasses)
    BY <1>1, <1>4
  <1>6. v = [n \in 1 .. Len(x) |-> StringBytes(x[n])]
    BY <1>1, <1>2 DEF Written
  <1>7. /\ v \in Seq(Seq(ByteClasses)) /\ Len(v) = Len(x)
        /\ \A i \in 1 .. Len(x) : v[i] = StringBytes(x[i])
    BY <1>2, <1>4, <1>6
  <1>8. w = [n \in 1 .. Len(x) + 1 |-> StringBytes(z[n])]
    BY <1>1, <1>3 DEF Written
  <1>9. \A i \in 1 .. Len(x) + 1 : z[i] \in Letters
    BY <1>2, <1>3
  <1>10. /\ w \in Seq(Seq(ByteClasses)) /\ Len(w) = Len(x) + 1
         /\ \A i \in 1 .. Len(x) + 1 : w[i] = StringBytes(z[i])
    BY <1>2, <1>4, <1>8, <1>9
  <1>11. PICK a : a = Append(v, b)
    OBVIOUS
  <1>12. /\ a \in Seq(Seq(ByteClasses)) /\ Len(a) = Len(x) + 1 /\ a[Len(x) + 1] = b
         /\ \A i \in 1 .. Len(x) : a[i] = v[i]
    BY <1>5, <1>7, <1>11
  <1>13. \A i \in 1 .. Len(x) + 1 : a[i] = w[i]
    <2> SUFFICES ASSUME NEW i \in 1 .. Len(x) + 1 PROVE a[i] = w[i]
      OBVIOUS
    <2>1. CASE i = Len(x) + 1
      BY <1>1, <1>3, <1>10, <1>12, <2>1
    <2>2. CASE i # Len(x) + 1
      <3>1. i \in 1 .. Len(x)
        BY <1>2, <2>2
      <3>. QED  BY <1>3, <1>7, <1>10, <1>12, <3>1
    <2>. QED  BY <2>1, <2>2
  <1>14. a = w
    BY <1>2, <1>10, <1>12, <1>13
  <1>. QED  BY <1>1, <1>7, <1>11, <1>14

-----------------------------------------------------------------------------
(* The text of a string, with its escapes, is what stands there.           *)
StringPart(t, stop, escaped) ==
    \A k \in 1 .. stop - 1 :
       /\ t[k].chr # EOF
       /\ k \in escaped => t[k].chr \in {"\\", "quote"}
       /\ k \notin escaped => t[k].chr # "quote"

LEMMA StringText ==
    ASSUME input \in Seq(ByteClasses), NEW q \in 0 .. Len(input), NEW t, Chain(q, t),
           NEW escaped, escaped = {k \in DOMAIN t : Escaped(t, k)},
           NEW stop \in 1 .. Len(t), stop \notin escaped,
           StringPart(t, stop, escaped),
           NEW x, x = TextOf(SubSeq(t, 1, stop - 1), escaped)
    PROVE  /\ x \in Seq(Letters)
           /\ FlattenSeq(Written(x)) = From(q, EndFrom(q, t, stop - 1))
  <1>1. /\ t \in Seq(Characters) /\ Len(t) \in Nat /\ DOMAIN t = 1 .. Len(t)
        /\ Len(input) \in Nat /\ stop - 1 \in Nat
    BY DEF Chain
  <1>2. PICK s, m : s = SubSeq(t, 1, stop - 1) /\ m = stop - 1
    OBVIOUS
  <1>3. /\ s \in Seq(Characters) /\ Len(s) = m /\ \A i \in 1 .. m : s[i] = t[i]
        /\ m \in Nat /\ \A i \in 1 .. m : i \in 1 .. Len(t)
    BY <1>1, <1>2
  <1>4. PICK f : /\ x = f[m] /\ f[0] = << >>
                 /\ \A n \in 1 .. m : f[n] = Keep(s, escaped, n, f[n - 1])
    <2>1. Len(s) \in Nat
      BY <1>3
    <2>2. PICK f : TextOf(s, escaped) = f[Len(s)] /\ Built(s, escaped, f)
      BY <2>1, TextOfIs
    <2>. QED  BY <1>2, <1>3, <2>2 DEF Built
  <1>5. \A k \in 1 .. Len(t) : k \in escaped <=> Escaped(t, k)
    BY <1>1
  <1> DEFINE Done(n) == IF Escaped(t, n + 1) THEN n - 1 ELSE n
             Good(n) == /\ f[n] \in Seq(Letters)
                        /\ FlattenSeq(Written(f[n])) = From(q, EndFrom(q, t, Done(n)))
             S == {n \in Nat \ {0} : n - 1 <= m => Good(n - 1)}
  <1>6. Good(0)
    <2>1. Done(0) = 0
      <3>1. ~Escaped(t, 1) /\ 0 + 1 = 1
        <4>1. 1 \in Nat \ {0}
          OBVIOUS
        <4>. QED  BY <4>1, EscapedStep
      <3>. QED  BY <3>1
    <2>2. PICK e : e = << >>
      OBVIOUS
    <2>3. e \in Seq(Letters) /\ DOMAIN e = {} /\ Len(e) = 0
      BY <2>2
    <2>4. Written(e) = << >>
      BY <2>3 DEF Written
    <2>5. FlattenSeq(Written(e)) = << >>
      BY <2>4, FlattenEmpty
    <2>6. From(q, EndFrom(q, t, 0)) = << >>
      <3>1. q \in q .. Len(input)
        BY <1>1
      <3>. QED  BY <3>1, FromFacts DEF EndFrom
    <2> HIDE DEF Done
    <2>. QED  BY <1>4, <2>1, <2>2, <2>3, <2>5, <2>6
  <1>7. ASSUME NEW k \in 1 .. m, Good(k - 1)
        PROVE  Good(k)
    <2>1. PICK chr : chr = t[k].chr
      OBVIOUS
    <2>2. /\ k \in 1 .. Len(t) /\ k \in Nat \ {0} /\ k \in 1 .. stop - 1
          /\ s[k].chr = chr /\ chr # EOF /\ (k - 1) + 1 = k
          /\ (k \in escaped <=> Escaped(t, k))
          /\ k \in escaped => chr \in {"\\", "quote"}
          /\ k \notin escaped => chr # "quote"
      BY <1>1, <1>2, <1>3, <1>5, <2>1 DEF StringPart
    <2>3. chr \in Letters
      <3>1. t[k] \in Characters
        BY <1>1, <2>2
      <3>. QED  BY <2>1, <2>2, <3>1 DEF Characters, Letters
    <2>4. f[k] = IF chr = "\\" /\ k \notin escaped THEN f[k - 1] ELSE Append(f[k - 1], chr)
      BY <1>4, <2>2 DEF Keep
    <2>5. Escaped(t, k + 1) <=> chr = "\\" /\ ~Escaped(t, k)
      BY <2>1, <2>2, EscapedStep
    <2>6. PICK y, a, b : /\ y = f[k - 1] /\ a = EndFrom(q, t, k - 1)
                         /\ b = EndFrom(q, t, k)
      OBVIOUS
    <2>7. /\ a \in 0 .. Len(input) /\ q <= a /\ b \in a + 1 .. Len(input)
          /\ Plain(chr) = From(a, b)
      BY <2>1, <2>2, <2>6, ChainStep
    <2>8. y \in Seq(Letters)
      BY <2>6, <1>7
    <2>9. CASE Escaped(t, k)
      <3>1. f[k] = Append(y, chr) /\ Done(k) = k
        <4>1. ~Escaped(t, k + 1)
          BY <2>5, <2>9
        <4>. QED  BY <2>2, <2>4, <2>6, <2>9, <4>1
      <3>2. k # 1
        <4>1. ~Escaped(t, 1)
          BY <2>2, EscapedStep
        <4>. QED  BY <2>9, <4>1
      <3>3. PICK l : l = k - 1
        OBVIOUS
      <3>4. /\ l \in Nat \ {0} /\ l + 1 = k /\ l \in 1 .. Len(t) /\ l \in 1 .. stop - 1
            /\ l - 1 = k - 2
        BY <1>1, <2>2, <3>2, <3>3
      <3>5. t[l].chr = "\\"
        <4>1. Escaped(t, l + 1) <=> t[l].chr = "\\" /\ ~Escaped(t, l)
          BY <3>4, EscapedStep
        <4>. QED  BY <2>9, <3>4, <4>1
      <3>6. Done(k - 1) = l - 1
        BY <2>2, <2>9, <3>3
      <3>7. PICK d : d = EndFrom(q, t, l - 1)
        OBVIOUS
      <3>8. /\ d \in 0 .. Len(input) /\ q <= d /\ a \in d + 1 .. Len(input)
            /\ Plain("\\") = From(d, a)
        <4>1. t[l].chr # EOF
          BY <3>4 DEF StringPart
        <4>. QED  BY <2>6, <3>3, <3>4, <3>5, <3>7, <4>1, ChainStep
      <3>9. FlattenSeq(Written(y)) = From(q, d)
        <4> HIDE DEF Done
        <4>. QED  BY <1>7, <2>6, <3>6, <3>7
      <3>10. StringBytes(chr) = From(d, a) \o From(a, b)
        <4>1. chr \in {"\\", "quote"}
          BY <2>2, <2>9
        <4>2. StringBytes(chr) = << "\\", chr >> /\ Plain(chr) = << chr >>
              /\ Plain("\\") = << "\\" >>
          BY <4>1 DEF StringBytes, Plain
        <4>3. << "\\", chr >> = << "\\" >> \o << chr >>
          OBVIOUS
        <4>. QED  BY <2>7, <3>8, <4>2, <4>3
      <3>11. StringBytes(chr) = From(d, b)
        <4>1. a \in d .. Len(input) /\ b \in a .. Len(input)
          BY <1>1, <2>7, <3>8
        <4>2. From(d, a) \o From(a, b) = From(d, b)
          BY <3>8, <4>1, FromJoins
        <4>. QED  BY <3>10, <4>2
      <3>12. FlattenSeq(Written(f[k])) = From(q, b)
        <4>1. Written(f[k]) = Append(Written(y), StringBytes(chr))
              /\ Written(y) \in Seq(Seq(ByteClasses)) /\ StringBytes(chr) \in Seq(ByteClasses)
          BY <2>3, <2>8, <3>1, WrittenAppend, StringBytesType
        <4>2. FlattenSeq(Written(f[k])) = FlattenSeq(Written(y)) \o StringBytes(chr)
          BY <4>1, FlattenAppend
        <4>3. d \in q .. Len(input) /\ b \in d .. Len(input)
          BY <1>1, <2>7, <3>8
        <4>4. From(q, d) \o From(d, b) = From(q, b)
          BY <4>3, FromJoins
        <4>. QED  BY <3>9, <3>11, <4>2, <4>4
      <3>13. f[k] \in Seq(Letters)
        BY <2>3, <2>8, <3>1
      <3> HIDE DEF Done
      <3>. QED  BY <2>6, <3>1, <3>12, <3>13
    <2>10. CASE ~Escaped(t, k) /\ chr = "\\"
      <3>1. Done(k) = k - 1 /\ Done(k - 1) = k - 1
        BY <2>2, <2>5, <2>10
      <3>2. f[k] = f[k - 1]
        BY <2>2, <2>4, <2>10
      <3> HIDE DEF Done
      <3>. QED  BY <1>7, <3>1, <3>2
    <2>11. CASE ~Escaped(t, k) /\ chr # "\\"
      <3>1. Done(k) = k /\ Done(k - 1) = k - 1
        BY <2>2, <2>5, <2>11
      <3>2. f[k] = Append(y, chr)
        BY <2>4, <2>6, <2>11
      <3>3. StringBytes(chr) = From(a, b)
        BY <2>2, <2>7, <2>11 DEF StringBytes
      <3>4. FlattenSeq(Written(y)) = From(q, a)
        <4> HIDE DEF Done
        <4>. QED  BY <1>7, <2>6, <3>1
      <3>5. FlattenSeq(Written(f[k])) = From(q, b)
        <4>1. Written(f[k]) = Append(Written(y), StringBytes(chr))
              /\ Written(y) \in Seq(Seq(ByteClasses)) /\ StringBytes(chr) \in Seq(ByteClasses)
          BY <2>3, <2>8, <3>2, WrittenAppend, StringBytesType
        <4>2. FlattenSeq(Written(f[k])) = FlattenSeq(Written(y)) \o StringBytes(chr)
          BY <4>1, FlattenAppend
        <4>3. a \in q .. Len(input) /\ b \in a .. Len(input)
          BY <1>1, <2>7
        <4>4. From(q, a) \o From(a, b) = From(q, b)
          BY <4>3, FromJoins
        <4>. QED  BY <3>3, <3>4, <4>2, <4>4
      <3>6. f[k] \in Seq(Letters)
        BY <2>3, <2>8, <3>2
      <3> HIDE DEF Done
      <3>. QED  BY <2>6, <3>1, <3>5, <3>6
    <2>. QED  BY <2>9, <2>10, <2>11
  <1> HIDE DEF Good
  <1>8. 1 \in S
    BY <1>6
  <1>9. ASSUME NEW n \in Nat \ {0}, n \in S PROVE n + 1 \in S
    <2> SUFFICES ASSUME (n + 1) - 1 <= m PROVE Good((n + 1) - 1)
      OBVIOUS
    <2>1. n \in 1 .. m /\ (n + 1) - 1 = n /\ Good(n - 1)
      BY <1>3, <1>9
    <2>. QED  BY <1>7, <2>1
  <1> HIDE DEF S
  <1>10. Nat \ {0} \subseteq S
    BY <1>8, <1>9, SetInduction
  <1>11. Good(m)
    <2>1. m + 1 \in Nat \ {0} /\ (m + 1) - 1 = m
      BY <1>3
    <2>2. m + 1 \in S
      BY <1>10, <2>1
    <2>. QED  BY <1>3, <2>1, <2>2 DEF S
  <1>12. Done(m) = m
    <2>1. m + 1 = stop /\ ~Escaped(t, stop)
      BY <1>1, <1>2, <1>5
    <2>. QED  BY <2>1
  <1> HIDE DEF Done
  <1>. QED  BY <1>2, <1>4, <1>11, <1>12 DEF Good

-----------------------------------------------------------------------------
(* What is skipped ends with white space.                                  *)
LEMMA SkippedEnd ==
    ASSUME NEW p, NEW c, Run(p, c), Last(c).chr = EOF, NEW k, k = Skipped(c),
           c[k].chr # EOF, k # 1
    PROVE  k - 1 \in 1 .. Len(c) - 1 /\ c[k - 1].chr \in Whitespace
  <1> DEFINE Commented(i) == \E j \in 1 .. i - 1 :
                  /\ c[j].chr = ";"
                  /\ \A l \in j .. i - 1 : c[l].chr # "newline"
             Here(i) == \/ c[i].chr = EOF
                        \/ c[i].chr \notin Whitespace \cup {";"} /\ ~Commented(i)
             First(i) == /\ Here(i)
                         /\ \A j \in 1 .. i - 1 : c[j].chr \in Whitespace \cup {";"}
                                                  \/ Commented(j)
             S == {i \in 1 .. Len(c) : Here(i)}
  <1>1. Skipped(c) = CHOOSE i \in DOMAIN c : First(i)
    BY DEF Skipped
  <1> HIDE DEF Commented
  <1>2. Len(c) \in Nat /\ Len(c) >= 1 /\ DOMAIN c = 1 .. Len(c) /\ Last(c) = c[Len(c)]
    BY DEF Run, Last
  <1>3. S \subseteq Nat /\ S # {}
    <2>1. Here(Len(c)) /\ Len(c) \in 1 .. Len(c)
      <3>1. c[Len(c)].chr = EOF
        BY <1>2
      <3>2. Here(Len(c))
        BY <3>1
      <3> HIDE DEF Here
      <3>. QED  BY <1>2, <3>2
    <2> HIDE DEF Here
    <2>2. Len(c) \in S
      BY <2>1
    <2>3. 1 .. Len(c) \subseteq Nat
      BY <1>2
    <2>. QED  BY <2>2, <2>3
  <1>4. PICK i \in S : \A j \in S : i <= j
    BY <1>3, LeastOf
  <1>5. i \in DOMAIN c /\ First(i)
    <2>1. \A j \in 1 .. i - 1 : ~Here(j)
      <3> HIDE DEF Here
      <3> SUFFICES ASSUME NEW j \in 1 .. i - 1, Here(j) PROVE FALSE
        OBVIOUS
      <3>1. i \in 1 .. Len(c)
        OBVIOUS
      <3>2. j \in 1 .. Len(c) /\ j < i
        BY <1>2, <3>1
      <3>3. j \in S
        BY <3>2
      <3>. QED  BY <1>2, <1>4, <3>1, <3>2, <3>3
    <2>. QED  BY <1>2, <1>4, <2>1
  <1>6. k \in 1 .. Len(c) /\ First(k)
    <2> HIDE DEF First
    <2>. QED  BY <1>1, <1>2, <1>5
  <1>7. /\ ~Commented(k)
        /\ \A j \in 1 .. k - 1 : c[j].chr \in Whitespace \cup {";"} \/ Commented(j)
    BY <1>6
  <1> HIDE DEF First, Here, S
  <1>8. PICK m : m = Len(c)
    OBVIOUS
  <1>9. k \in 1 .. m /\ m \in Nat
    BY <1>2, <1>6, <1>8
  <1>10. PICK l \in Nat : l = k - 1
    BY <1>9
  <1>11. l \in 1 .. m - 1 /\ l \in 1 .. k - 1 /\ l + 1 = k /\ k - 1 = l /\ k \in Nat
    BY <1>9, <1>10
  <1>12. l \in 1 .. Len(c) - 1 /\ l \in 1 .. k - 1 /\ l + 1 = k /\ k - 1 = l /\ k \in Nat
    BY <1>8, <1>11
  <1>13. c[l].chr = ";" => Commented(k)
    <2>1. \A h \in l .. k - 1 : h = l
      BY <1>12
    <2> SUFFICES ASSUME c[l].chr = ";" PROVE Commented(k)
      OBVIOUS
    <2>2. c[l].chr # "newline"
      OBVIOUS
    <2>3. \A h \in l .. k - 1 : c[h].chr # "newline"
      BY <2>1, <2>2, Zenon
    <2>. QED  BY <1>12, <2>3 DEF Commented
  <1>14. Commented(l) => c[l].chr = "newline" \/ Commented(k)
    <2> SUFFICES ASSUME Commented(l), c[l].chr # "newline" PROVE Commented(k)
      OBVIOUS
    <2>1. PICK j \in 1 .. l - 1 : /\ c[j].chr = ";"
                                  /\ \A h \in j .. l - 1 : c[h].chr # "newline"
      BY DEF Commented
    <2>2. j \in 1 .. k - 1
      BY <1>12
    <2>3. \A h \in j .. k - 1 : h \in j .. l - 1 \/ h = l
      BY <1>12
    <2>4. \A h \in j .. k - 1 : c[h].chr # "newline"
      BY <2>1, <2>3
    <2>. QED  BY <2>1, <2>2, <2>4 DEF Commented
  <1>15. "newline" \in Whitespace
    BY DEF Whitespace
  <1>. QED  BY <1>7, <1>12, <1>13, <1>14, <1>15

(* A string that is read begins and ends with a quote.                     *)
LEMMA StringShape ==
    ASSUME input \in Seq(ByteClasses), NEW p \in 0 .. Len(input),
           NEW c, Run(p, c), Last(c).chr = EOF, c[1].chr = "quote", NEW at,
           ReadString(Tail(c), at), exc' = OK
    PROVE  /\ tok' = "STRING" /\ str' \in Seq(Letters)
           /\ \E e \in p + 1 .. Len(input) - 1 :
                 /\ input[p + 1] = "quote" /\ input[e + 1] = "quote" /\ pos' = e + 1
                 /\ FlattenSeq(Written(str')) = From(p + 1, e)
  <1>1. /\ c \in Seq(Characters) /\ Len(c) \in Nat /\ Len(c) >= 1 /\ Chain(p, c)
        /\ c[1] = ReadChar(p) /\ Last(c) = c[Len(c)] /\ "quote" # EOF
        /\ Len(input) \in Nat /\ p \in Nat
    <2>1. "quote" # EOF
      BY DEF EOF
    <2>. QED  BY <2>1, RunIsChain DEF Run, Last
  <1>2. Len(c) >= 2
    BY <1>1
  <1>3. PICK t, q : t = Tail(c) /\ q = p + 1
    OBVIOUS
  <1>4. q \in 0 .. Len(input) /\ input[q] = "quote" /\ c[1].next = q
    <2>1. ReadChar(p).next = p + 1 /\ input[p + 1] = "quote" /\ p < Len(input)
      BY <1>1, PlainThere
    <2>. QED  BY <1>1, <1>3, <2>1
  <1>5. /\ Chain(q, t) /\ Len(t) = Len(c) - 1 /\ Len(t) \in Nat /\ DOMAIN t = 1 .. Len(t)
        /\ t \in Seq(Characters) /\ t[Len(t)].chr = EOF
        /\ \A k \in 1 .. Len(t) - 1 : t[k].chr # EOF
    <2>1. /\ Chain(q, t) /\ Len(t) = Len(c) - 1
          /\ \A n \in 1 .. Len(t) : t[n] = c[n + 1]
      BY <1>1, <1>2, <1>3, <1>4, TailIsChain
    <2>2. Len(t) \in 1 .. Len(t) /\ Len(t) + 1 = Len(c)
      BY <1>1, <1>2, <2>1
    <2>3. t[Len(t)].chr = EOF
      BY <1>1, <2>1, <2>2
    <2>4. t \in Seq(Characters) /\ \A k \in 1 .. Len(t) - 1 : t[k].chr # EOF
      BY <2>1 DEF Chain
    <2>. QED  BY <1>1, <1>2, <2>1, <2>3, <2>4
  <1> DEFINE esc == {k \in DOMAIN t : Escaped(t, k)}
             ended == {k \in DOMAIN t : t[k].chr = "quote"} \ esc
             bad == {k \in esc : t[k].chr \notin {"\\", "quote", EOF}}
             stop == Min(ended \cup bad \cup {Len(t)})
             inside == SubSeq(t, 1, stop - 1)
             before == Advanced(at, inside)
  <1>6. IF stop \in ended
        THEN Result(t[stop].next, UpdateLocation(before, "quote"),
                    "STRING", TextOf(inside, esc), OK)
        ELSE Throws(t[stop].next, before,
                    IF stop \in bad THEN "EscapeChar"
                    ELSE IF t[stop].exc # OK THEN t[stop].exc
                    ELSE "EndOfFile")
    BY <1>3 DEF ReadString
  <1> HIDE DEF before
  <1>7. stop \in ended
    <2> SUFFICES ASSUME stop \notin ended PROVE FALSE
      OBVIOUS
    <2> HIDE DEF ended, stop, bad
    <2>1. exc' = IF stop \in bad THEN "EscapeChar"
                 ELSE IF t[stop].exc # OK THEN t[stop].exc ELSE "EndOfFile"
      BY <1>6 DEF Throws, Result
    <2>. QED  BY <2>1 DEF OK
  <1>8. PICK escaped, ends, n : escaped = esc /\ ends = ended /\ n = stop
    OBVIOUS
  <1>9. /\ pos' = t[n].next /\ tok' = "STRING"
        /\ str' = TextOf(SubSeq(t, 1, n - 1), escaped)
    BY <1>6, <1>7, <1>8 DEF Result
  <1>10. \A k \in 1 .. Len(t) : /\ k \in ends <=> t[k].chr = "quote" /\ k \notin escaped
                                /\ k \in bad <=> k \in escaped
                                                 /\ t[k].chr \notin {"\\", "quote", EOF}
    BY <1>5, <1>8
  <1>11. ends \subseteq 1 .. Len(t) /\ bad \subseteq 1 .. Len(t)
    BY <1>5, <1>8
  <1>12. \A k \in ends \cup bad : n <= k
    <2> DEFINE M == ended \cup bad \cup {Len(t)}
    <2>1. M \subseteq Nat /\ M # {}
      BY <1>5, <1>8, <1>11
    <2>2. \A k \in M : Min(M) <= k
      <3> HIDE DEF M
      <3>. QED  BY <2>1, MinOf
    <2>. QED  BY <1>8, <2>2
  <1>13. n \in ends /\ n \in 1 .. Len(t) /\ t[n].chr = "quote" /\ n \notin escaped
    BY <1>7, <1>8, <1>10, <1>11
  <1>14. escaped = {k \in DOMAIN t : Escaped(t, k)}
    BY <1>8
  <1> HIDE DEF esc, ended, bad, stop, inside
  <1>15. ASSUME NEW k \in 1 .. n - 1
         PROVE  /\ t[k].chr # EOF
                /\ k \in escaped => t[k].chr \in {"\\", "quote"}
                /\ k \notin escaped => t[k].chr # "quote"
    <2>1. k \in 1 .. Len(t) - 1 /\ k \in 1 .. Len(t) /\ ~(n <= k)
      BY <1>5, <1>13
    <2>2. k \notin ends /\ k \notin bad /\ t[k].chr # EOF
      BY <1>5, <1>12, <2>1
    <2>. QED  BY <1>10, <2>1, <2>2
  <1>16. PICK e : e = EndFrom(q, t, n - 1)
    OBVIOUS
  <1>17. /\ str' \in Seq(Letters)
         /\ FlattenSeq(Written(str')) = From(q, e)
    <2>1. PICK x : x = str'
      OBVIOUS
    <2>2. x = TextOf(SubSeq(t, 1, n - 1), escaped)
      BY <1>9, <2>1
    <2>4. StringPart(t, n, escaped)
      BY <1>15 DEF StringPart
    <2>3. x \in Seq(Letters) /\ FlattenSeq(Written(x)) = From(q, EndFrom(q, t, n - 1))
      BY <1>4, <1>5, <1>13, <1>14, <2>2, <2>4, StringText
    <2>. QED  BY <1>16, <2>1, <2>3
  <1>18. /\ e \in 0 .. Len(input) /\ q <= e /\ e < Len(input)
         /\ t[n] = ReadChar(e)
    <2>1. e \in 0 .. Len(input) /\ q <= e /\ e < Len(input)
      BY <1>1, <1>4, <1>5, <1>13, <1>16, ChainStep
    <2>2. t[n] = ReadChar(EndFrom(q, t, n - 1))
      BY <1>5, <1>13 DEF Chain
    <2>. QED  BY <1>16, <2>1, <2>2
  <1>19. t[n].next = e + 1 /\ input[e + 1] = "quote"
    BY <1>1, <1>13, <1>18, PlainThere
  <1>20. e \in p + 1 .. Len(input) - 1
    BY <1>1, <1>3, <1>18
  <1>. QED  BY <1>3, <1>4, <1>9, <1>17, <1>19, <1>20

-----------------------------------------------------------------------------
(* Where a word may begin, and where one ends.                             *)
Before(q) == q = 0 \/ input[q] \in Delimiters
After(q) == q = Len(input) \/ input[q + 1] \in Delimiters

LEMMA DelimiterThere ==
    ASSUME input \in Seq(ByteClasses), NEW q \in 0 .. Len(input),
           ReadChar(q).chr \in Delimiters
    PROVE  /\ ReadChar(q).next = q + 1 /\ q + 1 \in 0 .. Len(input)
           /\ Before(q + 1) /\ After(q)
  <1>1. Delimiters \cap {EOF, "wide", "nul"} = {}
    BY DEF Delimiters, Whitespace, EOF
  <1>2. ReadChar(q).chr # EOF /\ ReadChar(q).chr \notin {"wide", "nul"}
    BY <1>1
  <1>3. /\ ReadChar(q).next = q + 1 /\ input[q + 1] = ReadChar(q).chr
        /\ ReadChar(q).next \in q + 1 .. Len(input)
    BY <1>2, PlainThere
  <1>4. input[q + 1] \in Delimiters
    BY <1>3
  <1>5. q + 1 \in 0 .. Len(input)
    BY <1>3
  <1>. QED  BY <1>3, <1>4, <1>5 DEF Before, After

(* The first character that is not skipped follows the stream or a         *)
(* delimiter.                                                              *)
LEMMA TokenStarts ==
    ASSUME IInv, NEW c, c = CharsFrom(pos), NEW k, k = Skipped(c), c[k].chr # EOF
    PROVE  \E p \in pos .. Len(input) :
              c[k] = ReadChar(p) /\ (p = pos \/ input[p] \in Delimiters)
  <1>1. /\ Run(pos, c) /\ Last(c).chr = EOF /\ Chain(pos, c)
        /\ input \in Seq(ByteClasses) /\ pos \in 0 .. Len(input) /\ Len(input) \in Nat
        /\ c \in Seq(Characters) /\ Len(c) \in Nat
    <2>1. input \in Seq(ByteClasses) /\ pos \in 0 .. Len(input) /\ Len(input) \in Nat
      BY DEF IInv
    <2>2. Run(pos, c) /\ Last(c).chr = EOF
      BY <2>1, CharsFacts
    <2>3. Chain(pos, c)
      BY <2>2, RunIsChain
    <2>. QED  BY <2>1, <2>2, <2>3 DEF Chain
  <1>2. k \in 1 .. Len(c)
    BY <1>1, SkippedFacts
  <1>3. CASE k = 1
    <2>1. c[k] = ReadChar(pos)
      BY <1>1, <1>3 DEF Run
    <2>2. pos \in pos .. Len(input)
      BY <1>1
    <2>. QED  BY <2>1, <2>2
  <1>4. CASE k # 1
    <2>1. PICK l : l = k - 1
      OBVIOUS
    <2>2. l \in 1 .. Len(c) - 1 /\ c[l].chr \in Whitespace
      BY <1>1, <1>4, <2>1, SkippedEnd
    <2>3. /\ l \in 1 .. Len(c) /\ l + 1 = k /\ l - 1 \in 0 .. Len(c) /\ l # 0
          /\ l \in 0 .. Len(c)
      BY <1>1, <1>2, <2>1, <2>2
    <2>4. PICK q : q = EndFrom(pos, c, l - 1)
      OBVIOUS
    <2>5. q \in pos .. Len(input)
      BY <1>1, <2>3, <2>4, ChainEnds
    <2>6. c[l] = ReadChar(q)
      BY <1>1, <2>3, <2>4 DEF Chain
    <2>7. q \in 0 .. Len(input)
      BY <1>1, <2>5
    <2>8. c[l].chr \in Delimiters
      BY <2>2 DEF Delimiters
    <2>9. c[l].next = q + 1 /\ q + 1 \in 0 .. Len(input) /\ Before(q + 1)
      BY <1>1, <2>6, <2>7, <2>8, DelimiterThere
    <2>10. c[k] = ReadChar(q + 1)
      <3>1. c[l + 1] = ReadChar(c[l].next)
        BY <1>1, <2>2 DEF Run
      <3>. QED  BY <2>3, <2>9, <3>1
    <2>11. q + 1 \in pos .. Len(input) /\ q + 1 # 0
      BY <1>1, <2>5, <2>7, <2>9
    <2>12. input[q + 1] \in Delimiters
      BY <2>9, <2>11 DEF Before
    <2>. QED  BY <2>10, <2>11, <2>12
  <1>. QED  BY <1>3, <1>4

(* What a call leaves that does not throw: which token, and what stands in *)
(* the input where it was read.                                            *)
StringRead(p) ==
    /\ tok' = "STRING" /\ str' \in Seq(Letters)
    /\ \E e \in p + 1 .. Len(input) - 1 :
          /\ input[p + 1] = "quote" /\ input[e + 1] = "quote" /\ pos' = e + 1
          /\ FlattenSeq(Written(str')) = From(p + 1, e)
SymbolRead(p) ==
    /\ tok' = "SYMBOL" /\ str' \in Seq(Letters)
    /\ pos' \in p .. Len(input) /\ ~After(p) /\ After(pos')
    /\ FlattenSeq([n \in DOMAIN str' |-> Plain(str'[n])]) = From(p, pos')
OtherRead ==
    /\ tok' \notin {"STRING", "SYMBOL"}
    /\ Before(pos') \/ After(pos')

LEMMA TokenText ==
    ASSUME IInv, ReadToken, exc' = OK
    PROVE  \E p \in pos .. Len(input) :
              /\ p = pos \/ input[p] \in Delimiters
              /\ StringRead(p) \/ SymbolRead(p) \/ OtherRead
  <1> DEFINE all == CharsFrom(pos)
             first == Skipped(all)
             at == Advanced(loc, SubSeq(all, 1, first - 1))
             start == all[first].next - SeqSize(all[first].chr)
             chars == CharsFrom(start)
             chr == Head(chars).chr
             ended == {k \in DOMAIN chars : chars[k].chr \in Delimiters \cup {EOF}}
             end == Min(ended)
             word == [n \in 1 .. end - 1 |-> chars[n].chr]
             delimiter == chars[end]
             after == IF delimiter.chr = EOF THEN delimiter.next
                      ELSE delimiter.next - SeqSize(delimiter.chr)
  <1>1. IF all[first].exc # OK
        THEN Throws(all[first].next, at, all[first].exc)
        ELSE IF all[first].chr = EOF
        THEN Result(all[first].next, at, EOF, str, OK)
        ELSE IF chr = "quote"
        THEN ReadString(Tail(chars), UpdateLocation(at, chr))
        ELSE IF end = 1
        THEN Result(Head(chars).next, UpdateLocation(at, chr),
                    IF chr = "(" THEN "OPEN" ELSE "CLOSE", str, OK)
        ELSE IF delimiter.exc # OK
        THEN Throws(delimiter.next, at, delimiter.exc)
        ELSE IF word = << "." >>
        THEN Result(after, UpdateLocation(at, delimiter.chr), "DOT", str, OK)
        ELSE ReadNumberOrSymbol(word, after, at)
    BY DEF ReadToken
  <1> HIDE DEF at
  <1>2. /\ Len(input) \in Nat /\ pos \in 0 .. Len(input) /\ input \in Seq(ByteClasses)
        /\ pos \in Nat
    BY DEF IInv
  <1>3. all[first].exc = OK
    <2> HIDE DEF all, first
    <2>. QED  BY <1>1 DEF Throws, Result
  <1>4. CASE all[first].chr = EOF
    <2>1. pos' = all[first].next /\ tok' = EOF
      BY <1>1, <1>3, <1>4 DEF Result
    <2>2. Run(pos, all) /\ Last(all).chr = EOF /\ Chain(pos, all)
      BY <1>2, CharsFacts, RunIsChain
    <2> HIDE DEF all
    <2>3. first \in 1 .. Len(all) /\ Len(all) \in Nat
      <3>1. first \in 1 .. Len(all)
        BY <2>2, SkippedFacts
      <3> HIDE DEF first
      <3>. QED  BY <2>2, <3>1 DEF Run
    <2> HIDE DEF first
    <2>4. PICK q : q = EndFrom(pos, all, first - 1)
      OBVIOUS
    <2>5. all[first] = ReadChar(q)
      BY <2>2, <2>3, <2>4 DEF Chain
    <2>6. q \in 0 .. Len(input)
      <3>1. first - 1 \in 0 .. Len(all)
        BY <2>3
      <3>2. q \in pos .. Len(input)
        BY <1>2, <2>2, <2>4, <3>1, ChainEnds
      <3>. QED  BY <1>2, <3>2
    <2>7. ReadChar(q).next = q
      BY <1>2, <1>3, <1>4, <2>5, <2>6, ReadEOF
    <2>8. ~(q < Len(input))
      BY <1>2, <2>6, <2>7, ReadCharFacts
    <2>9. pos' = Len(input)
      BY <1>2, <2>1, <2>5, <2>6, <2>7, <2>8
    <2>10. tok' \notin {"STRING", "SYMBOL"}
      BY <2>1 DEF EOF
    <2>11. pos \in pos .. Len(input)
      BY <1>2
    <2>. QED  BY <2>9, <2>10, <2>11 DEF OtherRead, After
  <1>5. CASE all[first].chr # EOF
    <2>1. PICK p \in pos .. Len(input) :
             all[first] = ReadChar(p) /\ (p = pos \/ input[p] \in Delimiters)
      <3> HIDE DEF first
      <3>1. PICK c, k : c = all /\ k = first
        OBVIOUS
      <3>2. c = CharsFrom(pos) /\ k = Skipped(c) /\ c[k].chr # EOF
        BY <1>5, <3>1 DEF first
      <3>3. \E p \in pos .. Len(input) :
               c[k] = ReadChar(p) /\ (p = pos \/ input[p] \in Delimiters)
        BY <3>2, TokenStarts
      <3>. QED  BY <3>1, <3>3
    <2> HIDE DEF all, first
    <2>2. p \in 0 .. Len(input) /\ p \in Nat
      BY <1>2, <2>1
    <2>3. start = p
      <3>1. ReadChar(p).next = p + SeqSize(ReadChar(p).chr)
        BY <1>2, <1>5, <2>1, <2>2, ReadCharFacts
      <3>2. SeqSize(ReadChar(p).chr) \in Nat
        BY DEF SeqSize
      <3>. QED  BY <2>1, <2>2, <3>1, <3>2
    <2>4. Run(p, chars) /\ Last(chars).chr = EOF /\ Chain(p, chars)
      <3>1. Run(p, CharsFrom(p)) /\ Last(CharsFrom(p)).chr = EOF /\ Chain(p, CharsFrom(p))
        BY <1>2, <2>2, CharsFacts, RunIsChain
      <3>. QED  BY <2>3, <3>1
    <2> HIDE DEF start, chars
    <2>5. /\ chars[1] = ReadChar(p) /\ Head(chars) = chars[1] /\ Len(chars) \in Nat
          /\ Len(chars) >= 1 /\ Last(chars) = chars[Len(chars)]
          /\ DOMAIN chars = 1 .. Len(chars) /\ chars[1].chr # EOF
          /\ chars \in Seq(Characters) /\ chr = chars[1].chr
      <3>1. chars \in Seq(Characters)
        BY <2>4 DEF Run
      <3>. QED  BY <1>5, <2>1, <2>4, <3>1 DEF Run, Last
    <2>6. CASE chr = "quote"
      <3>1. ReadString(Tail(chars), UpdateLocation(at, chr))
        BY <1>1, <1>3, <1>5, <2>6
      <3>2. StringRead(p)
        <4> HIDE DEF chr
        <4>. QED  BY <1>2, <2>2, <2>4, <2>5, <2>6, <3>1, StringShape DEF StringRead
      <3>. QED  BY <2>1, <3>2
    <2>7. /\ end \in 1 .. Len(chars) /\ chars[end].chr \in Delimiters \cup {EOF}
          /\ \A k \in 1 .. end - 1 : k \in 1 .. Len(chars)
                                     /\ chars[k].chr \notin Delimiters \cup {EOF}
      <3>1. ended \subseteq 1 .. Len(chars)
        BY <2>5
      <3>2. Len(chars) \in ended
        BY <2>4, <2>5
      <3>3. \A k \in 1 .. Len(chars) : k \in ended <=> chars[k].chr \in Delimiters \cup {EOF}
        BY <2>5
      <3> HIDE DEF ended
      <3>4. end \in ended /\ \A k \in ended : end <= k
        <4>1. ended \subseteq Nat
          BY <2>5, <3>1
        <4>. QED  BY <3>2, <4>1, MinOf
      <3>5. PICK e, l : e = end /\ l = Len(chars)
        OBVIOUS
      <3>6. e \in 1 .. l /\ l \in Nat /\ \A k \in ended : e <= k
        BY <2>5, <3>1, <3>4, <3>5
      <3>7. ASSUME NEW k \in 1 .. e - 1
            PROVE  k \in 1 .. Len(chars) /\ k \notin ended
        <4>1. k \in 1 .. l /\ ~(e <= k)
          BY <3>6
        <4>. QED  BY <3>5, <3>6, <4>1
      <3>. QED  BY <3>1, <3>3, <3>4, <3>5, <3>7
    <2> HIDE DEF end
    <2>8. CASE chr # "quote" /\ end = 1
      <3>1. pos' = chars[1].next /\ tok' = IF chr = "(" THEN "OPEN" ELSE "CLOSE"
        BY <1>1, <1>3, <1>5, <2>5, <2>8 DEF Result
      <3>2. chars[1].chr \in Delimiters
        BY <2>5, <2>7, <2>8
      <3>3. Before(chars[1].next)
        BY <1>2, <2>2, <2>5, <3>2, DelimiterThere
      <3>4. Before(pos') /\ tok' \notin {"STRING", "SYMBOL"}
        BY <3>1, <3>3
      <3>. QED  BY <2>1, <3>4 DEF OtherRead
    <2>9. CASE chr # "quote" /\ end # 1
      <3>1. PICK n : n = end - 1
        OBVIOUS
      <3>2. n \in 1 .. Len(chars) - 1 /\ n \in 0 .. Len(chars) /\ n + 1 = end /\ n \in Nat
        BY <2>5, <2>7, <2>9, <3>1
      <3>3. PICK q : q = EndFrom(p, chars, n)
        OBVIOUS
      <3>4. q \in p .. Len(input) /\ q \in 0 .. Len(input) /\ delimiter = ReadChar(q)
        <4>1. q \in p .. Len(input)
          BY <1>2, <2>2, <2>4, <3>2, <3>3, ChainEnds
        <4>2. end \in 1 .. Len(chars) /\ end - 1 = n
          BY <2>7, <3>1
        <4>. QED  BY <1>2, <2>2, <2>4, <3>3, <4>1, <4>2 DEF Chain
      <3>5. delimiter.chr \in Delimiters \cup {EOF}
        BY <2>7
      <3> HIDE DEF delimiter, chr
      <3>6. delimiter.exc = OK
        <4> SUFFICES ASSUME delimiter.exc # OK PROVE FALSE
          OBVIOUS
        <4>1. Throws(delimiter.next, at, delimiter.exc)
          BY <1>1, <1>3, <1>5, <2>9
        <4>. QED  BY <4>1 DEF Throws, Result
      <3>7. after = q /\ After(q)
        <4>1. CASE delimiter.chr = EOF
          <5>1. delimiter.next = q
            BY <1>2, <3>4, <3>6, <4>1, ReadEOF
          <5>2. ~(q < Len(input))
            BY <1>2, <3>4, <5>1, ReadCharFacts
          <5>. QED  BY <1>2, <3>4, <4>1, <5>1, <5>2 DEF After
        <4>2. CASE delimiter.chr # EOF
          <5>1. delimiter.next = q + SeqSize(delimiter.chr)
            BY <1>2, <3>4, <4>2, ReadCharFacts
          <5>2. SeqSize(delimiter.chr) \in Nat
            BY DEF SeqSize
          <5>3. after = q
            BY <3>4, <4>2, <5>1, <5>2
          <5>4. ReadChar(q).chr \in Delimiters
            BY <3>4, <3>5, <4>2
          <5>5. After(q)
            BY <1>2, <3>4, <5>4, DelimiterThere
          <5>. QED  BY <5>3, <5>5
        <4>. QED  BY <4>1, <4>2
      <3>8. ~After(p)
        <4>1. chars[1].chr \notin Delimiters
          <5>1. 1 \in 1 .. end - 1
            BY <3>1, <3>2
          <5>. QED  BY <2>7, <5>1
        <4>2. /\ input[p + 1] \in Delimiters => ReadChar(p).chr = input[p + 1]
              /\ p < Len(input)
          BY <1>2, <2>2, <2>5, PlainThere
        <4>3. p # Len(input) /\ input[p + 1] \notin Delimiters
          BY <1>2, <2>2, <2>5, <4>1, <4>2
        <4>. QED  BY <4>3 DEF After
      <3> HIDE DEF after
      <3>9. PICK w : w = word
        OBVIOUS
      <3>10. w = [i \in 1 .. n |-> chars[i].chr]
        BY <3>1, <3>9
      <3> HIDE DEF word
      <3>11. /\ pos' = q
             /\ \/ tok' \in {"DOT", "POS_INT", "NEG_INT", "REAL"}
                \/ tok' = "SYMBOL" /\ str' = w
        <4>1. CASE w = << "." >>
          BY <1>1, <1>3, <1>5, <2>9, <3>6, <3>7, <3>9, <4>1 DEF Result
        <4>2. CASE w # << "." >>
          <5>1. ReadNumberOrSymbol(w, q, at)
            BY <1>1, <1>3, <1>5, <2>9, <3>6, <3>7, <3>9, <4>2
          <5>2. \/ exc' = "Range"
                \/ pos' = q /\ \/ tok' \in {"POS_INT", "NEG_INT", "REAL"}
                               \/ tok' = "SYMBOL" /\ str' = w
            BY <5>1 DEF ReadNumberOrSymbol, Result, Throws
          <5>3. exc' # "Range"
            BY DEF OK
          <5>. QED  BY <5>2, <5>3
        <4>. QED  BY <4>1, <4>2
      <3>12. CASE tok' \in {"DOT", "POS_INT", "NEG_INT", "REAL"}
        <4>1. OtherRead
          BY <3>7, <3>11, <3>12 DEF OtherRead
        <4>. QED  BY <2>1, <4>1
      <3>13. CASE tok' = "SYMBOL" /\ str' = w
        <4>1. \A i \in 1 .. n : i \in 1 .. Len(chars) /\ chars[i].chr # EOF
          BY <2>7, <3>1
        <4>2. w \in Seq(Letters) /\ DOMAIN w = 1 .. n /\ \A i \in 1 .. n : w[i] = chars[i].chr
          <5>1. \A i \in 1 .. n : chars[i].chr \in Letters
            <6>1. \A i \in 1 .. Len(chars) : chars[i] \in Characters
              BY <2>5
            <6>. QED  BY <4>1, <6>1 DEF Characters, Letters
          <5>. QED  BY <3>2, <3>10, <5>1
        <4>3. [i \in DOMAIN w |-> Plain(w[i])] = [i \in 1 .. n |-> Plain(chars[i].chr)]
          BY <4>2
        <4>4. FlattenSeq([i \in 1 .. n |-> Plain(chars[i].chr)]) = From(p, q)
          BY <1>2, <2>2, <2>4, <3>2, <3>3, <4>1, WordText
        <4>5. FlattenSeq([i \in DOMAIN w |-> Plain(w[i])]) = From(p, q)
          BY <4>3, <4>4
        <4>6. SymbolRead(p)
          BY <3>4, <3>7, <3>8, <3>11, <3>13, <4>2, <4>5 DEF SymbolRead
        <4>. QED  BY <2>1, <4>6
      <3>. QED  BY <3>11, <3>12, <3>13
    <2>. QED  BY <2>6, <2>8, <2>9
  <1>. QED  BY <1>4, <1>5

-----------------------------------------------------------------------------
(* What a call leaves, together: the token it has read is the text before  *)
(* the stream, which stands where one word ends and the next may begin.    *)
TextInv ==
    /\ IInv
    /\ misled \/ Before(pos) \/ After(pos)
    /\ TextIsInput

Text == FlattenSeq([n \in DOMAIN str |-> Bytes(str[n])])
Quote == IF tok = "STRING" THEN << "quote" >> ELSE << >>

LEMMA TextIs ==
    /\ tok' = "STRING" => Text' = FlattenSeq(Written(str'))
    /\ tok' = "SYMBOL" => Text' = FlattenSeq([n \in DOMAIN str' |-> Plain(str'[n])])
  <1>1. ASSUME tok' = "STRING"
        PROVE  [n \in DOMAIN str' |-> Bytes(str[n])'] = Written(str')
    <2>1. ASSUME NEW n \in DOMAIN str' PROVE Bytes(str[n])' = StringBytes(str'[n])
      BY <1>1 DEF Bytes, StringBytes, Plain
    <2>. QED  BY <2>1 DEF Written
  <1>2. ASSUME tok' = "SYMBOL"
        PROVE  [n \in DOMAIN str' |-> Bytes(str[n])'] = [n \in DOMAIN str' |-> Plain(str'[n])]
    <2>1. ASSUME NEW n \in DOMAIN str' PROVE Bytes(str[n])' = Plain(str'[n])
      BY <1>2 DEF Bytes, Plain
    <2>. QED  BY <2>1
  <1>3. Text' = FlattenSeq([n \in DOMAIN str' |-> Bytes(str[n])'])
    BY DEF Text
  <1>. QED  BY <1>1, <1>2, <1>3

LEMMA TextStep ==
    ASSUME IInv, misled \/ Before(pos) \/ After(pos), ReadToken
    PROVE  (misled \/ Before(pos) \/ After(pos))' /\ TextIsInput'
  <1>1. input' = input /\ (misled \/ exc' # OK => misled')
    BY DEF ReadToken
  <1>2. \A q : Before(q)' <=> Before(q)
    BY <1>1 DEF Before
  <1>3. PICK text, start : text = Quote' \o Text' \o Quote' /\ start = pos' - Len(text)
    OBVIOUS
  <1>4. TextIsInput' <=>
          (exc' = OK /\ tok' \in {"STRING", "SYMBOL"} =>
             /\ start >= 0
             /\ text = SubSeq(input, start + 1, pos')
             /\ tok' = "SYMBOL" => /\ start = 0 \/ misled'
                                       \/ input[start] \in Delimiters
                                   /\ After(pos'))
    BY <1>1, <1>3 DEF TextIsInput, Text, Quote, After, OK
  <1>5. Before(pos)' = Before(pos') /\ After(pos)' = After(pos')
    BY <1>1 DEF Before, After
  <1>6. CASE exc' # OK
    BY <1>1, <1>4, <1>6
  <1>7. CASE exc' = OK
    <2>1. PICK p \in pos .. Len(input) :
             /\ p = pos \/ input[p] \in Delimiters
             /\ StringRead(p) \/ SymbolRead(p) \/ OtherRead
      BY <1>7, TokenText
    <2>2. /\ input \in Seq(ByteClasses) /\ Len(input) \in Nat /\ pos \in Nat
          /\ p \in 0 .. Len(input) /\ p \in Nat
      BY <2>1 DEF IInv
    <2>3. CASE OtherRead
      BY <1>4, <1>5, <2>3 DEF OtherRead
    <2>4. CASE StringRead(p)
      <3>1. tok' = "STRING" /\ Quote' = << "quote" >>
        BY <2>4 DEF StringRead, Quote
      <3>2. PICK e \in p + 1 .. Len(input) - 1 :
               /\ input[p + 1] = "quote" /\ input[e + 1] = "quote" /\ pos' = e + 1
               /\ FlattenSeq(Written(str')) = From(p + 1, e)
        BY <2>4 DEF StringRead
      <3>3. PICK d, f : d = p + 1 /\ f = e + 1
        OBVIOUS
      <3>4. /\ d \in p .. Len(input) /\ d \in 0 .. Len(input) /\ e \in d .. Len(input)
            /\ e \in 0 .. Len(input) /\ f \in e .. Len(input) /\ e \in p .. Len(input)
            /\ f \in p .. Len(input) /\ d - p = 1 /\ f - e = 1 /\ f \in Nat /\ f # 0
        BY <2>2, <3>2, <3>3
      <3>5. ASSUME NEW a \in 0 .. Len(input), NEW b \in a .. Len(input), b - a = 1,
                   b = a + 1, input[b] = "quote"
            PROVE  From(a, b) = << "quote" >>
        <4>1. PICK s : s = From(a, b)
          OBVIOUS
        <4>2. /\ s \in Seq(ByteClasses) /\ Len(s) = b - a
              /\ \A i \in 1 .. b - a : s[i] = input[a + i]
          BY <2>2, <4>1, FromFacts
        <4>3. s \in Seq(ByteClasses) /\ Len(s) = 1 /\ s[1] = "quote"
          BY <3>5, <4>2
        <4>. QED  BY <4>1, <4>3
      <3>6. From(p, d) = << "quote" >> /\ From(e, f) = << "quote" >>
        BY <2>2, <3>2, <3>3, <3>4, <3>5
      <3>7. Text' = From(d, e)
        BY <3>1, <3>2, <3>3, TextIs
      <3>8. Quote' \o Text' \o Quote' = From(p, f)
        <4>1. From(p, d) \o From(d, e) = From(p, e) /\ From(p, e) \o From(e, f) = From(p, f)
          BY <2>2, <3>4, FromJoins
        <4>. QED  BY <3>1, <3>6, <3>7, <4>1
      <3>9. Len(From(p, f)) = f - p
        BY <2>2, <3>4, FromFacts
      <3>10. f - (f - p) = p
        BY <2>2, <3>4
      <3>11. Before(pos')
        BY <3>2, <3>3, <3>4 DEF Before, Delimiters
      <3>12. From(p, f) = SubSeq(input, p + 1, f)
        BY DEF From
      <3>13. text = From(p, f) /\ start = p /\ pos' = f
        BY <1>3, <3>2, <3>3, <3>8, <3>9, <3>10
      <3>14. start >= 0 /\ text = SubSeq(input, start + 1, pos')
        BY <2>2, <3>12, <3>13
      <3>. QED  BY <1>4, <1>5, <3>1, <3>11, <3>14
    <2>5. CASE SymbolRead(p)
      <3>1. tok' = "SYMBOL" /\ Quote' = << >>
        BY <2>5 DEF SymbolRead, Quote
      <3>2. PICK f \in p .. Len(input) : f = pos' /\ After(f)
        BY <2>5 DEF SymbolRead
      <3>3. Text' = From(p, f)
        BY <2>5, <3>1, <3>2, TextIs DEF SymbolRead
      <3>4. From(p, f) \in Seq(ByteClasses) /\ Len(From(p, f)) = f - p /\ f - (f - p) = p
        BY <2>2, FromFacts
      <3>5. Quote' \o Text' \o Quote' = From(p, f)
        <4>1. PICK s \in Seq(ByteClasses) : s = From(p, f)
          BY <3>4
        <4>2. << >> \o s \o << >> = s
          OBVIOUS
        <4>. QED  BY <3>1, <3>3, <4>1, <4>2
      <3>6. p = 0 \/ misled' \/ input[p] \in Delimiters
        <4>1. CASE p = pos
          <5>1. ~After(pos)
            BY <2>5, <4>1 DEF SymbolRead
          <5>2. misled \/ Before(pos)
            BY <5>1
          <5>. QED  BY <1>1, <4>1, <5>2 DEF Before
        <4>. QED  BY <2>1, <4>1
      <3>7. From(p, f) = SubSeq(input, p + 1, f)
        BY DEF From
      <3>8. text = From(p, f) /\ start = p /\ pos' = f
        BY <1>3, <3>2, <3>4, <3>5
      <3>9. start >= 0 /\ text = SubSeq(input, start + 1, pos')
        BY <2>2, <3>7, <3>8
      <3>10. After(pos') /\ (start = 0 \/ misled' \/ input[start] \in Delimiters)
        BY <3>2, <3>6, <3>8
      <3>. QED  BY <1>4, <1>5, <3>9, <3>10
    <2>. QED  BY <2>1, <2>3, <2>4, <2>5
  <1>. QED  BY <1>6, <1>7

(* What holds along every behaviour of the text of tokens: the stream      *)
(* stands at a break between words, unless an exception left it elsewhere. *)
THEOREM TextInvariance == Spec => []TextInv
  <1>1. Init => TextInv
    <2> SUFFICES ASSUME Init PROVE TextInv
      OBVIOUS
    <2>1. input \in Seq(ByteClasses) /\ pos = 0 /\ tok = "none"
      BY LexerAssumption DEF Init
    <2>. QED  BY <2>1 DEF TextInv, IInv, Before, TextIsInput
  <1>2. TextInv /\ [Next]_vars => TextInv'
    <2> SUFFICES ASSUME TextInv, [Next]_vars PROVE TextInv'
      OBVIOUS
    <2>1. CASE Next
      <3>1. ReadToken /\ input' = input
        BY <2>1 DEF Next, ReadToken
      <3>2. IInv'
        BY <3>1, TokenMoves DEF TextInv, IInv
      <3>3. (misled \/ Before(pos) \/ After(pos))' /\ TextIsInput'
        BY <3>1, TextStep DEF TextInv
      <3>. QED  BY <3>2, <3>3 DEF TextInv
    <2>2. CASE UNCHANGED vars
      BY <2>2 DEF vars, TextInv, IInv, Before, After, TextIsInput, Bytes
    <2>. QED  BY <2>1, <2>2
  <1>. QED  BY <1>1, <1>2, PTL DEF Spec

(* A symbol and a string are what stands in the text before the stream,    *)
(* whatever was skipped, put back or escaped, and a symbol is a whole word *)
(* of it, for texts and tokens of any length.                              *)
THEOREM TextAlwaysInput == Spec => []TextIsInput
  <1>1. TextInv => TextIsInput
    BY DEF TextInv
  <1>. QED  BY <1>1, TextInvariance, PTL
=============================================================================
