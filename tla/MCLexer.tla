------------------------------- MODULE MCLexer --------------------------------
(***************************************************************************)
(* Instances of Lexer for TLC: all short texts over an alphabet with one   *)
(* byte of every class.                                                    *)
(***************************************************************************)
EXTENDS Lexer

CONSTANT MaxLength      \* the length of the longest text

Default == [component |-> ":", element |-> "+", release |-> "?", terminator |-> "'"]

(* ... and what an advice may name instead: a blank or a letter, one byte   *)
(* twice, a release character that is a delimiter, a blank or a letter, NUL *)
MCDelimiterSets ==
    {Default,
     [Default EXCEPT !.terminator = " "], [Default EXCEPT !.terminator = "NUL"],
     [Default EXCEPT !.element = "A"], [Default EXCEPT !.component = "+"],
     [Default EXCEPT !.release = "+"], [Default EXCEPT !.release = " "],
     [Default EXCEPT !.release = "NUL"]}

Short == UNION {[1 .. n -> Byte] : n \in 0 .. MaxLength}
===============================================================================
