------------------------------ MODULE MCLexer ------------------------------
(***************************************************************************)
(* Every text of at most five bytes of the classes that the skipping of    *)
(* comments, the three ways of counting columns, the escapes and the       *)
(* decoding tell apart, and every shorter one of all classes.  Lines and   *)
(* columns wrap at 4.                                                      *)
(***************************************************************************)
EXTENDS Lexer

Core == {"newline", ";", "quote", "\\", ".", "9", "lead", "cont"}
Others == {"space", "(", ")", "+", "-", "0", "a"}
MCInputs == UNION {[1 .. n -> Core] : n \in 0 .. 5}
              \cup UNION {[1 .. n -> Core \cup Others] : n \in 0 .. 3}
=============================================================================
