--------------------------- MODULE MCEventPublisher ---------------------------
(* The calls of a successful upload (two events), of one that did not parse *)
(* (one), one with a payload that cannot be marshalled, and an empty one.   *)
EXTENDS EventPublisher, TLC

CONSTANTS ingest, failed, refused, empty, e1, e2, e3, e4, bad

MCEventsOf ==
    (ingest :> {e1, e2}) @@ (failed :> {e3}) @@ (refused :> {e4, bad}) @@ (empty :> {})
===============================================================================
