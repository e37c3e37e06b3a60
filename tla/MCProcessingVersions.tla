-------------------------- MODULE MCProcessingVersions ------------------------
(* Three versions of one interchange, two of which claim one number, and a   *)
(* version of another interchange.                                           *)
EXTENDS ProcessingVersions

CONSTANTS i1, i2, v1, v2, v3, w1

MCOf == [v \in Version |-> IF v = w1 THEN i2 ELSE i1]
MCNumberOf == [v \in Version |-> IF v \in {v2, v3} THEN 2 ELSE 1]
===============================================================================
