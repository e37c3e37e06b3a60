----------------------- MODULE ProcessingVersions_proofs ----------------------
(***************************************************************************)
(* Proofs about module ProcessingVersions, for every number of callers,    *)
(* interchanges and versions.                                              *)
(***************************************************************************)
EXTENDS ProcessingVersions, TLAPS

(* At most one active version per interchange *)
OneActive == \A v, w \in active : Of[v] = Of[w] => v = w

(* A switch that has changed a row has found its target *)
TargetFound == \A c \in Caller : ~Idle(c) /\ touched[c] # {} => switching[c] \in stored

IInv == TypeOK /\ OneActive /\ TargetFound /\ NoSilentLoss /\ NotFoundTouchesNothing

Step(c) ==
    \/ \E v \in Version :
           \/ Create(c, v) \/ CreateConflicts(c, v)
           \/ Deactivate(c, v) \/ DeactivateUnanswered(c, v)
    \/ \E i \in Interchange : DeactivateAll(c, i)
    \/ CallFails(c)
    \/ ActivateTarget(c) \/ ActivateConflicts(c)
    \/ ActivateFindsNone(c) \/ ActivateFails(c)

-----------------------------------------------------------------------------
LEMMA Initially == Init => IInv
    BY VersionsAssumption
    DEF Init, IInv, TypeOK, OneActive, TargetFound, NoSilentLoss,
        NotFoundTouchesNothing, Idle, Answers

LEMMA TypeNext ==
    ASSUME TypeOK, NEW c \in Caller, Step(c)
    PROVE  TypeOK'
<1> USE VersionsAssumption DEF TypeOK, Answers, Return, Activated, table, Idle
<1>1. ASSUME NEW v \in Version, Create(c, v) PROVE TypeOK'
    BY <1>1 DEF Create
<1>2. ASSUME NEW v \in Version, CreateConflicts(c, v) PROVE TypeOK'
    BY <1>2 DEF CreateConflicts
<1>3. ASSUME NEW v \in Version, Deactivate(c, v) PROVE TypeOK'
    BY <1>3 DEF Deactivate, SiblingsOf
<1>4. ASSUME NEW v \in Version, DeactivateUnanswered(c, v) PROVE TypeOK'
    BY <1>4 DEF DeactivateUnanswered, SiblingsOf
<1>5. ASSUME NEW i \in Interchange, DeactivateAll(c, i) PROVE TypeOK'
    BY <1>5 DEF DeactivateAll, RowsOf
<1>6. CASE CallFails(c)
    BY <1>6 DEF CallFails
<1>7. CASE ActivateTarget(c)
    BY <1>7 DEF ActivateTarget
<1>8. CASE ActivateConflicts(c)
    BY <1>8 DEF ActivateConflicts
<1>9. CASE ActivateFindsNone(c)
    BY <1>9 DEF ActivateFindsNone
<1>10. CASE ActivateFails(c)
    BY <1>10 DEF ActivateFails
<1> QED
    BY <1>1, <1>2, <1>3, <1>4, <1>5, <1>6, <1>7, <1>8, <1>9, <1>10 DEF Step

LEMMA OneActiveNext ==
    ASSUME TypeOK, OneActive, NEW c \in Caller, Step(c)
    PROVE  OneActive'
<1> USE DEF TypeOK, OneActive, Activated, Excluded, table
<1>1. ASSUME NEW v \in Version, Create(c, v) PROVE OneActive'
    BY <1>1 DEF Create, NumberTaken
<1>2. CASE ActivateTarget(c)
    BY <1>2 DEF ActivateTarget
<1>3. CASE active' \subseteq active
    BY <1>3
<1> QED
    BY <1>1, <1>2, <1>3
    DEF Step, CreateConflicts, Deactivate, DeactivateUnanswered, DeactivateAll, CallFails,
        ActivateConflicts, ActivateFindsNone, ActivateFails

LEMMA TargetNext ==
    ASSUME TypeOK, TargetFound, NEW c \in Caller, Step(c)
    PROVE  TargetFound'
<1> SUFFICES ASSUME NEW d \in Caller, ~Idle(d)', touched'[d] # {}
             PROVE  switching'[d] \in stored'
    BY DEF TargetFound
<1>1. stored \subseteq stored'
    BY DEF Step, Create, CreateConflicts, Deactivate, DeactivateUnanswered, DeactivateAll,
           CallFails, ActivateTarget, ActivateConflicts, ActivateFindsNone, ActivateFails,
           table
<1>2. CASE d # c
  <2>1. switching'[d] = switching[d] /\ touched'[d] = touched[d]
    BY <1>2 DEF Step, Create, CreateConflicts, Deactivate, DeactivateUnanswered,
                DeactivateAll, CallFails, ActivateTarget, ActivateConflicts,
                ActivateFindsNone, ActivateFails, Return, TypeOK
  <2> QED
    BY <1>1, <2>1 DEF TargetFound, Idle
<1>3. CASE d = c
  <2>1. PICK v \in Version : Deactivate(c, v)
    BY <1>3 DEF Step, Create, CreateConflicts, DeactivateUnanswered,
                DeactivateAll, CallFails, ActivateTarget, ActivateConflicts,
                ActivateFindsNone, ActivateFails, Return, TypeOK, Idle
  <2> QED
    BY <1>1, <1>3, <2>1 DEF Deactivate, SiblingsOf, TypeOK
<1> QED
    BY <1>2, <1>3

LEMMA NotFoundNext ==
    ASSUME TypeOK, TargetFound, NotFoundTouchesNothing, NEW c \in Caller, Step(c)
    PROVE  NotFoundTouchesNothing'
<1> SUFFICES ASSUME NEW d \in Caller, answer'[d] = "notfound"
             PROVE  touched'[d] = {}
    BY DEF NotFoundTouchesNothing
<1>1. CASE d # c
  <2>1. answer'[d] = answer[d] /\ touched'[d] = touched[d]
    BY <1>1 DEF Step, Create, CreateConflicts, Deactivate, DeactivateUnanswered,
                DeactivateAll, CallFails, ActivateTarget, ActivateConflicts,
                ActivateFindsNone, ActivateFails, Return, TypeOK
  <2> QED
    BY <2>1 DEF NotFoundTouchesNothing
<1>2. CASE d = c
  <2>1. ActivateFindsNone(c)
    BY <1>2 DEF Step, Create, CreateConflicts, Deactivate, DeactivateUnanswered,
                DeactivateAll, CallFails, ActivateTarget, ActivateConflicts,
                ActivateFails, Return, TypeOK
  <2> QED
    BY <1>2, <2>1 DEF ActivateFindsNone, TargetFound
<1> QED
    BY <1>1, <1>2

(* How an interchange without an active version is explained *)
Explained(i) ==
    \/ ActiveOf(i) # {}
    \/ \E c \in Caller : ~Idle(c) /\ Of[switching[c]] = i /\ touched[c] # {}
    \/ i \in reported

LEMMA NoSilentLossNext ==
    ASSUME TypeOK, TargetFound, NoSilentLoss, NEW c \in Caller, Step(c)
    PROVE  NoSilentLoss'
<1> SUFFICES ASSUME NEW i \in had' PROVE Explained(i)'
    BY DEF NoSilentLoss, Explained
<1> USE VersionsAssumption DEF TypeOK, Return, table, Idle
<1>1. i \in had => Explained(i)
    BY DEF NoSilentLoss, Explained
<1>2. ASSUME NEW v \in Version, active' = active \cup {v}, had' = had \cup {Of[v]},
             reported' = reported \ {Of[v]},
             \A d \in Caller \ {c} : switching'[d] = switching[d] /\ touched'[d] = touched[d],
             switching[c] \in {None, v}
      PROVE  Explained(i)'
  <2>1. CASE i = Of[v]
    BY <1>2, <2>1 DEF Explained, ActiveOf
  <2>2. CASE i # Of[v]
    BY <1>1, <1>2, <2>2 DEF Explained, ActiveOf
  <2> QED
    BY <2>1, <2>2
<1>3. ASSUME NEW v \in Version, Create(c, v) PROVE Explained(i)'
    BY <1>2, <1>3 DEF Create, Activated
<1>4. CASE ActivateTarget(c)
    BY <1>2, <1>4 DEF ActivateTarget, Activated
<1>5. ASSUME NEW v \in Version, CreateConflicts(c, v) PROVE Explained(i)'
    BY <1>1, <1>5 DEF CreateConflicts, Explained, ActiveOf
<1>6. ASSUME NEW v \in Version, Deactivate(c, v) PROVE Explained(i)'
  <2>1. CASE i = Of[v] /\ v \in stored
    BY <1>6, <2>1 DEF Deactivate, SiblingsOf, Explained
  <2>2. CASE i # Of[v] \/ v \notin stored
    <3>1. ActiveOf(i)' = ActiveOf(i)
      BY <1>6, <2>2 DEF Deactivate, SiblingsOf, ActiveOf
    <3> QED
      BY <1>1, <1>6, <3>1 DEF Deactivate, Explained
  <2> QED
    BY <2>1, <2>2
<1>7. ASSUME NEW v \in Version, DeactivateUnanswered(c, v) PROVE Explained(i)'
  <2>1. CASE i = Of[v]
    BY <1>7, <2>1 DEF DeactivateUnanswered, Explained
  <2>2. CASE i # Of[v]
    <3>1. ActiveOf(i)' = ActiveOf(i)
      BY <1>7, <2>2 DEF DeactivateUnanswered, SiblingsOf, ActiveOf
    <3> QED
      BY <1>1, <1>7, <3>1 DEF DeactivateUnanswered, Explained
  <2> QED
    BY <2>1, <2>2
<1>8. ASSUME NEW j \in Interchange, DeactivateAll(c, j) PROVE Explained(i)'
  <2>1. CASE i = j
    BY <1>8, <2>1 DEF DeactivateAll, Explained
  <2>2. CASE i # j
    <3>1. ActiveOf(i)' = ActiveOf(i)
      BY <1>8, <2>2 DEF DeactivateAll, RowsOf, ActiveOf
    <3> QED
      BY <1>1, <1>8, <3>1 DEF DeactivateAll, Explained
  <2> QED
    BY <2>1, <2>2
<1>9. CASE CallFails(c)
    BY <1>1, <1>9 DEF CallFails, Explained, ActiveOf
<1>10. CASE ActivateConflicts(c)
    BY <1>1, <1>10 DEF ActivateConflicts, Excluded, Explained, ActiveOf
<1>11. CASE ActivateFindsNone(c)
    BY <1>1, <1>11 DEF ActivateFindsNone, TargetFound, Explained, ActiveOf
<1>12. CASE ActivateFails(c)
    BY <1>1, <1>12 DEF ActivateFails, Explained, ActiveOf
<1> QED
    BY <1>3, <1>4, <1>5, <1>6, <1>7, <1>8, <1>9, <1>10, <1>11, <1>12 DEF Step

LEMMA Invariance == Spec => []IInv
<1>1. IInv /\ [Next]_vars => IInv'
  <2> SUFFICES ASSUME IInv, [Next]_vars PROVE IInv'
    OBVIOUS
  <2>1. CASE UNCHANGED vars
    BY <2>1 DEF IInv, TypeOK, OneActive, TargetFound, NoSilentLoss,
                NotFoundTouchesNothing, ActiveOf, Idle, vars, table
  <2>2. ASSUME NEW c \in Caller, Step(c) PROVE IInv'
    BY <2>2, TypeNext, OneActiveNext, TargetNext, NoSilentLossNext, NotFoundNext DEF IInv
  <2> QED
    BY <2>1, <2>2 DEF Next, Step
<1> QED
    BY Initially, <1>1, PTL DEF Spec

(* Rows, targets and answers keep their types *)
THEOREM TypeCorrect == Spec => []TypeOK
    BY Invariance, PTL DEF IInv

(* No interleaving of switches leaves an interchange without an active      *)
(* version unless somebody was told.                                        *)
THEOREM NoLoss == Spec => []NoSilentLoss
    BY Invariance, PTL DEF IInv

(* A switch that answers "not found" has changed no row *)
THEOREM NotFoundIsClean == Spec => []NotFoundTouchesNothing
    BY Invariance, PTL DEF IInv

-----------------------------------------------------------------------------
(* The refinement *)

LEMMA CurrentHolds ==
    ASSUME OneActive, NEW v \in active, Of[v] \in Interchange
    PROVE  Current[Of[v]] = v
<1>1. ActiveOf(Of[v]) = {v}
    BY DEF ActiveOf, OneActive
<1> QED
    BY <1>1 DEF Current

LEMMA CurrentAgrees ==
    ASSUME NEW i \in Interchange, ActiveOf(i)' = ActiveOf(i)
    PROVE  Current'[i] = Current[i]
    BY DEF Current

(* A version that becomes active while its interchange has none takes the   *)
(* register.                                                                *)
LEMMA ActivationTakes ==
    ASSUME TypeOK, OneActive', NEW v \in Version, v \notin active, ~Excluded(v),
           active' = active \cup {v}
    PROVE  Register!Take(v)
<1>0. Of[v] \in Interchange
    BY VersionsAssumption
<1>1. ActiveOf(Of[v]) = {}
    BY DEF ActiveOf, Excluded
<1>2. Current[Of[v]] = None
    BY <1>0, <1>1 DEF Current
<1>3. ActiveOf(Of[v])' = {v}
    BY <1>1 DEF ActiveOf
<1>4. Current'[Of[v]] = v
    BY <1>0, <1>3 DEF Current
<1>5. ASSUME NEW i \in Interchange \ {Of[v]} PROVE Current'[i] = Current[i]
  <2>1. ActiveOf(i)' = ActiveOf(i)
    BY DEF ActiveOf
  <2> QED
    BY <2>1, CurrentAgrees
<1>6. Current' = [Current EXCEPT ![Of[v]] = v]
    BY <1>4, <1>5 DEF Current
<1> QED
    BY <1>2, <1>6 DEF Register!Take

LEMMA DeactivationReleases ==
    ASSUME NEW i \in Interchange, ActiveOf(i)' = {},
           \A j \in Interchange \ {i} : ActiveOf(j)' = ActiveOf(j)
    PROVE  Register!Release(i)
<1>1. Current'[i] = None
    BY DEF Current
<1>2. \A j \in Interchange \ {i} : Current'[j] = Current[j]
    BY CurrentAgrees
<1> QED
    BY <1>1, <1>2 DEF Current, Register!Release

LEMMA StutterKeeps == ASSUME active' = active PROVE Current' = Current
    BY DEF Current, ActiveOf

LEMMA StepRefines ==
    ASSUME IInv, IInv', NEW c \in Caller, Step(c)
    PROVE  Register!RegisterNext \/ Current' = Current
<1> USE VersionsAssumption DEF IInv, TypeOK
<1>1. ASSUME NEW v \in Version, Create(c, v) PROVE Register!RegisterNext
  <2>1. v \notin active /\ ~Excluded(v) /\ active' = active \cup {v}
    BY <1>1 DEF Create, Activated, NumberTaken
  <2> QED
    BY <2>1, ActivationTakes DEF Register!RegisterNext
<1>2. CASE ActivateTarget(c)
  <2>1. /\ switching[c] \in Version /\ ~Excluded(switching[c])
        /\ active' = active \cup {switching[c]}
    BY <1>2 DEF ActivateTarget, Activated
  <2>2. CASE switching[c] \in active
    BY <2>1, <2>2, StutterKeeps
  <2>3. CASE switching[c] \notin active
    BY <2>1, <2>3, ActivationTakes DEF Register!RegisterNext
  <2> QED
    BY <2>2, <2>3
<1>3. ASSUME NEW v \in Version, Deactivate(c, v) \/ DeactivateUnanswered(c, v)
      PROVE  Register!RegisterNext \/ Current' = Current
  <2>1. active' = active \ SiblingsOf(v)
    BY <1>3 DEF Deactivate, DeactivateUnanswered
  <2>2. CASE v \in stored
    <3>1. ActiveOf(Of[v])' = {}
      BY <2>1, <2>2 DEF SiblingsOf, ActiveOf
    <3>2. \A j \in Interchange \ {Of[v]} : ActiveOf(j)' = ActiveOf(j)
      BY <2>1 DEF SiblingsOf, ActiveOf
    <3> QED
      BY <3>1, <3>2, DeactivationReleases DEF Register!RegisterNext
  <2>3. CASE v \notin stored
    BY <2>1, <2>3, StutterKeeps DEF SiblingsOf
  <2> QED
    BY <2>2, <2>3
<1>4. ASSUME NEW i \in Interchange, DeactivateAll(c, i) PROVE Register!RegisterNext
  <2>1. ActiveOf(i)' = {}
    BY <1>4 DEF DeactivateAll, RowsOf, ActiveOf
  <2>2. \A j \in Interchange \ {i} : ActiveOf(j)' = ActiveOf(j)
    BY <1>4 DEF DeactivateAll, RowsOf, ActiveOf
  <2> QED
    BY <2>1, <2>2, DeactivationReleases DEF Register!RegisterNext
<1>5. CASE active' = active
    BY <1>5, StutterKeeps
<1> QED
    BY <1>1, <1>2, <1>3, <1>4, <1>5
    DEF Step, CreateConflicts, CallFails, ActivateConflicts, ActivateFindsNone,
        ActivateFails, table

(* The table implements the registers *)
THEOREM Refinement == Spec => ImplementsRegister
<1>1. Init => Register!RegisterInit
    BY DEF Init, Register!RegisterInit, Current, ActiveOf
<1>2. IInv /\ IInv' /\ [Next]_vars => [Register!RegisterNext]_Current
  <2> SUFFICES ASSUME IInv, IInv', [Next]_vars
               PROVE  Register!RegisterNext \/ Current' = Current
    OBVIOUS
  <2>1. CASE UNCHANGED vars
    BY <2>1, StutterKeeps DEF vars, table
  <2>2. ASSUME NEW c \in Caller, Step(c) PROVE Register!RegisterNext \/ Current' = Current
    BY <2>2, StepRefines
  <2> QED
    BY <2>1, <2>2 DEF Next, Step
<1> QED
    BY <1>1, <1>2, Invariance, PTL DEF Spec, ImplementsRegister, Register!RegisterSpec
===============================================================================
