----------------------------- MODULE MCHttpServer -----------------------------
(* Two requests: one of any operation, and one that competes with it for    *)
(* the counters, with a success, an error and an error of the use case      *)
(* among its answers.                                                       *)
EXTENDS HttpServer, TLC

CONSTANTS r1, r2

MCAsks == (r1 :> Operations) @@ (r2 :> {"GetInterchange"})
===============================================================================
