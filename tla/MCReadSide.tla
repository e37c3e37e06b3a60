------------------------------ MODULE MCReadSide ------------------------------
(* Instances of ReadSide: small files, pages of one or two items.           *)
EXTENDS ReadSide

CONSTANTS u1, u2, u3

MCContent ==
    [u \in Upload |->
        CASE u = u1 -> <<[subscription |-> "A", type |-> "MSCONS"],
                         [subscription |-> "B", type |-> "UTILMD"],
                         [subscription |-> "A", type |-> "MSCONS"]>>
          [] u = u2 -> <<[subscription |-> "A", type |-> "MSCONS"],
                         [subscription |-> "none", type |-> "MSCONS"]>>
          [] OTHER  -> <<>>]

Everything == [interchange |-> Any, version |-> Any,
               subscription |-> Any, type |-> Any]

MCCriteria ==
    {Everything,
     [Everything EXCEPT !.type = "MSCONS"],
     [Everything EXCEPT !.subscription = "A"],
     [Everything EXCEPT !.interchange = u1],
     [Everything EXCEPT !.version = u1, !.type = "MSCONS"],
     [Everything EXCEPT !.interchange = u1, !.version = u2]}

(* Negative, none, the smallest, the largest, too large *)
MCLimits == {-1, 0, 1, 2, 3}

(* Listings and details read the tables and write nothing the other reads:  *)
(* a behaviour in which both occur shows no property of either that one     *)
(* without the other does not.                                              *)
OneKindOfRead ==
    \/ \A c \in Reader : phase[c] = "idle"
    \/ \A d \in Client : step[d] = "idle"
===============================================================================
