-------------------------------- MODULE Token ---------------------------------
(***************************************************************************)
(* The tokens that pass from the lexer to the parser (token.go), and the   *)
(* order in which the lexer hands them out.  A stream is what successive   *)
(* calls of NextToken return; both of its ends stay what they are when     *)
(* NextToken is called again, so a stream is written down up to its end.   *)
(***************************************************************************)
EXTENDS Naturals, Sequences

TokenType == {"SegmentTag", "DataElement", "Component", "SegmentEnd", "EOF", "Error"}

Ending == {"EOF", "Error"}

(* What NextToken may return after a token of type t, "start" standing for  *)
(* no token yet.  A tag is only ever read at the start of a segment.        *)
Follows(t) ==
    IF t \in {"start", "SegmentEnd"} THEN TokenType ELSE TokenType \ {"SegmentTag"}

(* The types of what successive calls of NextToken return.                  *)
Orderly(types) ==
    /\ types # <<>> => types[1] \in Follows("start")
    /\ \A i \in 1 .. Len(types) - 1 :
           types[i] \notin Ending /\ types[i + 1] \in Follows(types[i])
===============================================================================
