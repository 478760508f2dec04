------------------------------- MODULE Lexer -------------------------------
(***************************************************************************)
(* Class Lexer (lang/lexer.cpp, lang/lexer.h) over the UTF-8 input of      *)
(* class Char (char.cpp).  A byte is known by its class:                   *)
(*   the ASCII characters ( ) ; . \ + - 0, with 9 for the other digits,    *)
(*   "quote", "space" (blank, tab, carriage return), "newline", and a for  *)
(*   any other but the e of a real; "lead" and "cont", the two bytes of a  *)
(*   two-byte character.                                                   *)
(* The characters are the same, with "wide" for that two-byte one and      *)
(* "nul", which is what a stray continuation byte is decoded to.           *)
(*                                                                         *)
(* pos is the position of the stream, in bytes.  misled is a history       *)
(* variable: the events after which loc is known to be wrong.              *)
(***************************************************************************)
EXTENDS Integers, SequencesExt

CONSTANTS Inputs,                \* texts to read, sequences of bytes
          UINT16,                \* modulus of lines and columns
          INT_DIGITS             \* digits of an integer that fits

ByteClasses == {"(", ")", ";", ".", "\\", "+", "-", "0", "9", "quote", "space",
                "newline", "a", "lead", "cont"}

ASSUME LexerAssumption ==
    /\ UINT16 \in Nat \ {0, 1} /\ INT_DIGITS \in Nat \ {0}
    /\ Inputs \subseteq Seq(ByteClasses)

VARIABLES input, pos, loc, tok, str, exc, misled

vars == << input, pos, loc, tok, str, exc, misled >>

OK == "ok"
EOF == "EOF"
Whitespace == {"space", "newline"}
Delimiters == Whitespace \cup {";", "(", ")", "quote"}
Digits == {"0", "9"}

-----------------------------------------------------------------------------
(* Char::read: the character at byte p, where it ends, and what reading it *)
(* throws.  sequence_length() gives 0 for a byte that can begin no         *)
(* character, and the terminating zero is then written over it.            *)
ReadChar(p) ==
    LET byte == input[p + 1]
        char(chr, size, e) == [chr |-> chr, next |-> p + size, exc |-> e]
    IN  IF p >= Len(input) THEN char(EOF, 0, OK)
        ELSE IF byte = "cont" THEN char("nul", 1, OK)
        ELSE IF byte # "lead" THEN char(byte, 1, OK)
        ELSE IF p + 1 = Len(input) THEN char(EOF, 1, "EndOfFile")
        ELSE IF input[p + 2] = "cont" THEN char("wide", 2, OK)
        ELSE char(EOF, 2, "Encoding")

(* The characters from p on, the last one EOF or the one that throws.      *)
CharsFrom(p) ==
    LET chars[n \in 1 .. Len(input) + 1] ==
            IF n = 1 THEN << ReadChar(p) >>
            ELSE LET before == chars[n - 1]
                 IN  IF Last(before).chr = EOF THEN before
                     ELSE Append(before, ReadChar(Last(before).next))
    IN  chars[Len(input) + 1]

SeqSize(chr) == IF chr = "wide" THEN 2 ELSE 1

UpdateLocationLines(at, chr) ==
    IF chr = "newline" THEN [at EXCEPT !.line = (@ + 1) % UINT16]
    ELSE [at EXCEPT !.column = (@ + 1) % UINT16]
UpdateLocation(at, chr) ==
    IF chr = "newline" THEN [line |-> (at.line + 1) % UINT16, column |-> 1]
    ELSE [at EXCEPT !.column = (@ + 1) % UINT16]
Advanced(at, chars) ==
    LET after[n \in 0 .. Len(chars)] ==
            IF n = 0 THEN at ELSE UpdateLocation(after[n - 1], chars[n].chr)
    IN  after[Len(chars)]
Columns(at, n) == [at EXCEPT !.column = (@ + n) % UINT16]

-----------------------------------------------------------------------------
(* skipWhitespaces: white space and comments, to the first other character *)
(* (or the EOF, or the one that throws).                                   *)
Skipped(chars) ==
    LET commented(k) == \E j \in 1 .. k - 1 :
            /\ chars[j].chr = ";"
            /\ \A i \in j .. k - 1 : chars[i].chr # "newline"
    IN  CHOOSE k \in DOMAIN chars :
            /\ \/ chars[k].chr = EOF
               \/ chars[k].chr \notin Whitespace \cup {";"} /\ ~commented(k)
            /\ \A j \in 1 .. k - 1 : chars[j].chr \in Whitespace \cup {";"}
                                     \/ commented(j)

(* signIfInteger: 0 when word is not an integer; minus zero is positive.   *)
SignIfInteger(word) ==
    LET signed == word # << >> /\ Head(word) \in {"+", "-"}
        digits == IF signed THEN Tail(word) ELSE word
    IN  IF digits = << >> \/ ~(ToSet(digits) \subseteq Digits) THEN 0
        ELSE IF Head(word) = "-" /\ "9" \in ToSet(digits) THEN -1
        ELSE 1

(* Does the extraction of an integer from word succeed?  Leading zeros do  *)
(* not count, nor do the zeros of "-0", which are not extracted at all.    *)
Fits(word) ==
    LET significant == {n \in DOMAIN word : word[n] = "9"}
    IN  significant = {} \/ Len(word) - Min(significant) < INT_DIGITS

(* And of a double: digits, with a sign before and one dot among them.     *)
IsReal(word) ==
    LET digits == IF Head(word) \in {"+", "-"} THEN Tail(word) ELSE word
    IN  /\ ToSet(digits) \subseteq Digits \cup {"."}
        /\ ToSet(digits) \cap Digits # {}
        /\ Cardinality({n \in DOMAIN digits : digits[n] = "."}) <= 1

(* What a call of readToken leaves: the token, or the exception.           *)
Result(p, at, token, string, e) ==
    /\ pos' = p
    /\ loc' = at
    /\ tok' = token
    /\ str' = string
    /\ exc' = e
ThrowsInPlace(p, at, e) == Result(pos, at, tok, str, e)
Throws(p, at, e) == Result(p, at, tok, str, e)

(* readNumberOrSymbol, of a word that ends before byte p.                  *)
ReadNumberOrSymbol(word, p, at) ==
    LET sign == SignIfInteger(word)
        after == Columns(at, Len(word))
    IN  IF sign # 0
        THEN IF ~Fits(word) THEN Throws(p, at, "Range")
             ELSE Result(p, after, IF sign > 0 THEN "POS_INT" ELSE "NEG_INT",
                         str, OK)
        ELSE IF IsReal(word) THEN Result(p, after, "REAL", str, OK)
        ELSE Result(p, after, "SYMBOL", word, OK)

(* readString, from the character after the opening quote: it ends at the  *)
(* first quote that is not escaped, fails at the first other character     *)
(* that is, or at the end of the input.                                    *)
Escaped(chars, k) ==
    LET others == {j \in 1 .. k - 1 : chars[j].chr # "\\"}
    IN  (k - 1 - Max({0} \cup others)) % 2 = 1
TextWithEscapes(chars, escaped) == [k \in DOMAIN chars |-> chars[k].chr]
TextOf(chars, escaped) ==
    LET text[n \in 0 .. Len(chars)] ==
            IF n = 0 THEN << >>
            ELSE IF chars[n].chr = "\\" /\ n \notin escaped THEN text[n - 1]
            ELSE Append(text[n - 1], chars[n].chr)
    IN  text[Len(chars)]
ReadString(chars, at) ==
    LET escaped == {k \in DOMAIN chars : Escaped(chars, k)}
        ends == {k \in DOMAIN chars : chars[k].chr = "quote"} \ escaped
        bad == {k \in escaped : chars[k].chr \notin {"\\", "quote", EOF}}
        stop == Min(ends \cup bad \cup {Len(chars)})
        inside == SubSeq(chars, 1, stop - 1)
        before == Advanced(at, inside)
    IN  IF stop \in ends
        THEN Result(chars[stop].next, UpdateLocation(before, "quote"),
                    "STRING", TextOf(inside, escaped), OK)
        ELSE Throws(chars[stop].next, before,
                    IF stop \in bad THEN "EscapeChar"
                    ELSE IF chars[stop].exc # OK THEN chars[stop].exc
                    ELSE "EndOfFile")

(* readToken.  The character that ends the white space is put back and     *)
(* read again, and so is the delimiter that ends a word; a dot by itself   *)
(* counts the character after it, whatever that is, for its own.           *)
ReadToken ==
    LET all == CharsFrom(pos)
        first == Skipped(all)
        at == Advanced(loc, SubSeq(all, 1, first - 1))
        start == all[first].next - SeqSize(all[first].chr)
        chars == CharsFrom(start)
        chr == Head(chars).chr
        end == Min({k \in DOMAIN chars : chars[k].chr \in Delimiters \cup {EOF}})
        word == [n \in 1 .. end - 1 |-> chars[n].chr]
        delimiter == chars[end]
        after == IF delimiter.chr = EOF THEN delimiter.next
                 ELSE delimiter.next - SeqSize(delimiter.chr)
    IN  /\ IF all[first].exc # OK
           THEN Throws(all[first].next, at, all[first].exc)
           ELSE IF all[first].chr = EOF
           THEN Result(all[first].next, at, EOF, str, OK)
           ELSE IF chr = "quote"
           THEN ReadString(Tail(chars), UpdateLocation(at, chr))
           ELSE IF end = 1
           THEN Result(Head(chars).next, UpdateLocation(at, chr),
                       IF chr = "(" THEN "OPEN" ELSE "CLOSE", str, OK)
           ELSE IF delimiter.exc # OK
           THEN Throws(delimiter.next, at, delimiter.exc)
           ELSE IF word = << "." >>
           THEN Result(after, UpdateLocation(at, delimiter.chr), "DOT", str, OK)
           ELSE ReadNumberOrSymbol(word, after, at)
        /\ misled' = \/ misled
                     \/ exc' # OK
                     \/ tok' = "DOT" /\ delimiter.chr = "newline"
        /\ UNCHANGED input

Init == /\ input \in Inputs
        /\ pos = 0
        /\ loc = [line |-> 1, column |-> 1]
        /\ tok = "none" /\ str = << >>       \* not initialized
        /\ exc = OK
        /\ misled = FALSE

Next == ReadToken

Spec == Init /\ [][Next]_vars

-----------------------------------------------------------------------------
(* A position in the input counted from its beginning.                     *)
LocationOf(p) ==
    LET chars == CharsFrom(0)
        before == {k \in DOMAIN chars : chars[k].next <= p /\ chars[k].chr # EOF}
        newlines == {k \in before : chars[k].chr = "newline"}
    IN  [line |-> (1 + Cardinality(newlines)) % UINT16,
         column |-> (1 + Cardinality(before) - Max({0} \cup newlines)) % UINT16]

(* loc is the place in the input where the stream stands (up to 16 bits),  *)
(* kept as it is in three ways (a character at a time, by bytes for        *)
(* numbers, by characters for symbols), but for what follows an exception, *)
(* which leaves it at the token that failed, and a dot that ends its line: *)
(* the newline is counted for the dot and then again (lexer.cpp:221).      *)
LocationIsTrue == misled \/ loc = LocationOf(pos)

(* Each call takes something of the input, even when it throws, or says    *)
(* that nothing is left: what is put back (lexer.cpp:89-92) is never all   *)
(* that was read.                                                          *)
Progress == [][pos' > pos \/ tok' = EOF]_vars

(* The text of a string or a symbol, with its escapes, is what stands in   *)
(* the input before the stream, and a symbol is a whole word: nothing is   *)
(* lost, split or read twice over what was put back.                       *)
Bytes(chr) == CASE chr = "wide" -> << "lead", "cont" >>
                [] chr = "nul" -> << "cont" >>
                [] chr \in {"\\", "quote"} /\ tok = "STRING" -> << "\\", chr >>
                [] OTHER -> << chr >>
TextIsInput ==
    LET quote == IF tok = "STRING" THEN << "quote" >> ELSE << >>
        text == quote \o FlattenSeq([n \in DOMAIN str |-> Bytes(str[n])]) \o quote
        start == pos - Len(text)
    IN  exc = OK /\ tok \in {"STRING", "SYMBOL"} =>
            /\ start >= 0
            /\ text = SubSeq(input, start + 1, pos)
            /\ tok = "SYMBOL" => /\ start = 0 \/ misled
                                      \/ input[start] \in Delimiters
                                 /\ pos = Len(input)
                                      \/ input[pos + 1] \in Delimiters
=============================================================================
