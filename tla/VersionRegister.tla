---------------------------- MODULE VersionRegister ---------------------------
(***************************************************************************)
(* What table processing_versions promises: each interchange has one       *)
(* register, which is empty or holds one of its versions.  A register that *)
(* holds a version is emptied before it is filled again: no step goes from *)
(* one version to the next, and none fills a register that is taken.       *)
(***************************************************************************)
CONSTANTS Interchange, Version, Of, None

VARIABLE current    \* current[i]: the active version of i, or None

RegisterTypeOK == current \in [Interchange -> Version \cup {None}]

RegisterInit == current = [i \in Interchange |-> None]

Take(v) ==
    /\ current[Of[v]] = None
    /\ current' = [current EXCEPT ![Of[v]] = v]

Release(i) == current' = [current EXCEPT ![i] = None]

RegisterNext == (\E v \in Version : Take(v)) \/ (\E i \in Interchange : Release(i))

RegisterSpec == RegisterInit /\ [][RegisterNext]_current
===============================================================================
