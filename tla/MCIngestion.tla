----------------------------- MODULE MCIngestion ------------------------------
(***************************************************************************)
(* Instances of Ingestion for TLC.  The contents cover the paths of the    *)
(* service: messages with and without a subscription, two contents that    *)
(* share a subscription in a different order, an envelope without messages *)
(* (UNB and UNZ only), a content that does not parse, one the parser never *)
(* comes back from, and bodies the handler refuses.                        *)
(***************************************************************************)
EXTENDS Ingestion, TLC

MCShape ==
    [f \in File |-> CASE f = "garbled" -> "malformed"
                      [] f = "stray"   -> "endless"
                      [] f = "huge"    -> "oversize"
                      [] f = "blank"   -> "empty"
                      [] OTHER         -> "wellformed"]

MCSubsOf ==
    [f \in File |-> CASE f = "single"   -> <<"malo1">>
                      [] f = "pair"     -> <<"malo2", "malo1">>
                      [] OTHER          -> <<>>]

MCMsgsOf ==
    [f \in File |-> CASE f = "single" -> {[slot |-> 1, sub |-> "malo1"],
                                          [slot |-> 2, sub |-> NoSub]}
                      [] f = "pair"   -> {[slot |-> 1, sub |-> "malo2"],
                                          [slot |-> 2, sub |-> "malo1"]}
                      [] OTHER        -> {}]

Interchangeable == Permutations(Request)
===============================================================================
