----------------------------- MODULE TokenStream ------------------------------
(***************************************************************************)
(* What the lexer promises the parser: a stream of tokens in which every   *)
(* segment has at most one tag, at its start, and which is over once it is *)
(* at an end.  Of a token only the type is visible here.                   *)
(***************************************************************************)
EXTENDS Token, Naturals, Sequences

VARIABLE types      \* the types of the tokens returned so far

Latest == IF types = <<>> THEN "start" ELSE types[Len(types)]

Init == types = <<>>

Next ==
    /\ Latest \notin Ending
    /\ \E t \in Follows(Latest) : types' = Append(types, t)

Spec == Init /\ [][Next]_types
===============================================================================
