-------------------------- MODULE ProcessingVersions --------------------------
(***************************************************************************)
(* processingVersionRepository against table processing_versions: callers  *)
(* that create versions, deactivate those of an interchange, and switch to *)
(* one, at the same time.  Every statement commits by itself.  Activate is *)
(* two of them, with room for any other between.  A statement may fail     *)
(* before it executes (no connection, a context that is done, a deadlock)  *)
(* or after (its answer is lost); the caller gets an error either way.     *)
(***************************************************************************)
EXTENDS FiniteSets

CONSTANTS
    Caller,
    Interchange,
    Version,        \* version ids; some are never stored
    Number,         \* version numbers
    Of,             \* Of[v]: the interchange of v
    NumberOf,       \* NumberOf[v]: its number
    None

ASSUME VersionsAssumption ==
    /\ Of \in [Version -> Interchange]
    /\ NumberOf \in [Version -> Number]
    /\ None \notin Version

VARIABLES
    stored,     \* rows of table processing_versions
    active,     \* those with is_active
    switching,  \* switching[c]: the target of the Activate of c that is under way
    answer,     \* answer[c]: what the last call of c returned
    touched,    \* touched[c]: rows the call of c has changed (history)
    had,        \* interchanges that have had an active version (history)
    reported    \* interchanges left without one, with somebody told (history)

table == <<stored, active>>
vars == <<table, switching, answer, touched, had, reported>>

Answers == {"none", "nil", "conflict", "notfound", "error"}

TypeOK ==
    /\ stored \subseteq Version
    /\ active \subseteq stored
    /\ switching \in [Caller -> Version \cup {None}]
    /\ answer \in [Caller -> Answers]
    /\ touched \in [Caller -> SUBSET Version]
    /\ had \subseteq Interchange
    /\ reported \subseteq Interchange

Init ==
    /\ stored = {}
    /\ active = {}
    /\ switching = [c \in Caller |-> None]
    /\ answer = [c \in Caller |-> "none"]
    /\ touched = [c \in Caller |-> {}]
    /\ had = {}
    /\ reported = {}

-----------------------------------------------------------------------------
(* The constraints of the table *)

\* PRIMARY KEY, UNIQUE (interchange_id, version_number)
NumberTaken(v) ==
    v \in stored \/ \E w \in stored : Of[w] = Of[v] /\ NumberOf[w] = NumberOf[v]

ExcludesNothing(v) == FALSE

\* EXCLUDE (interchange_id WITH =) WHERE (is_active = TRUE)
Excluded(v) == \E w \in active \ {v} : Of[w] = Of[v]

RowsBeside(v) == {w \in stored : Of[w] = Of[v]}

(* The rows the first UPDATE of Activate reaches: none, if $1 names no row *)
SiblingsOf(v) == {w \in stored : v \in stored /\ Of[w] = Of[v]}

RowsOf(i) == {w \in stored : Of[w] = i}

-----------------------------------------------------------------------------
Idle(c) == switching[c] = None

Return(c, a) ==
    /\ switching' = [switching EXCEPT ![c] = None]
    /\ answer' = [answer EXCEPT ![c] = a]

Activated(v) ==
    /\ active' = active \cup {v}
    /\ had' = had \cup {Of[v]}
    /\ reported' = reported \ {Of[v]}

(* The INSERT of Create, by its outcomes.  Versions are created active      *)
(* (NewProcessingVersion).                                                  *)
Create(c, v) ==
    /\ Idle(c)
    /\ ~NumberTaken(v) /\ ~Excluded(v)
    /\ stored' = stored \cup {v}
    /\ Activated(v)
    /\ \E a \in {"nil", "error"} : Return(c, a)
    /\ touched' = [touched EXCEPT ![c] = {v}]

CreateConflicts(c, v) ==
    /\ Idle(c)
    /\ NumberTaken(v) \/ Excluded(v)
    /\ Return(c, "conflict")
    /\ touched' = [touched EXCEPT ![c] = {}]
    /\ UNCHANGED <<table, had, reported>>

DeactivateAll(c, i) ==
    /\ Idle(c)
    /\ active' = active \ RowsOf(i)
    /\ \E a \in {"nil", "error"} : Return(c, a)
    /\ touched' = [touched EXCEPT ![c] = RowsOf(i)]
    /\ reported' = reported \cup {i}
    /\ UNCHANGED <<stored, had>>

(* A call whose only or first statement does not execute *)
CallFails(c) ==
    /\ Idle(c)
    /\ Return(c, "error")
    /\ touched' = [touched EXCEPT ![c] = {}]
    /\ UNCHANGED <<table, had, reported>>

(* Activate, first statement: deactivate the version and its siblings *)
Deactivate(c, v) ==
    /\ Idle(c)
    /\ active' = active \ SiblingsOf(v)
    /\ touched' = [touched EXCEPT ![c] = SiblingsOf(v)]
    /\ switching' = [switching EXCEPT ![c] = v]
    /\ answer' = [answer EXCEPT ![c] = "none"]
    /\ UNCHANGED <<stored, had, reported>>

(* ... its answer is lost, and Activate returns *)
DeactivateUnanswered(c, v) ==
    /\ Idle(c)
    /\ active' = active \ SiblingsOf(v)
    /\ touched' = [touched EXCEPT ![c] = SiblingsOf(v)]
    /\ Return(c, "error")
    /\ reported' = reported \cup {Of[v]}
    /\ UNCHANGED <<stored, had>>

(* Activate, second statement *)
ActivateTarget(c) ==
    LET v == switching[c] IN
    /\ ~Idle(c)
    /\ v \in stored /\ ~Excluded(v)
    /\ Activated(v)
    /\ \E a \in {"nil", "error"} : Return(c, a)
    /\ touched' = [touched EXCEPT ![c] = @ \cup {v}]
    /\ UNCHANGED stored

ActivateConflicts(c) ==
    /\ ~Idle(c)
    /\ switching[c] \in stored /\ Excluded(switching[c])
    /\ Return(c, "conflict")
    /\ UNCHANGED <<table, touched, had, reported>>

ActivateFindsNone(c) ==
    /\ ~Idle(c)
    /\ switching[c] \notin stored
    /\ Return(c, "notfound")
    /\ UNCHANGED <<table, touched, had, reported>>

ActivateFailsSilently(c) ==
    /\ ~Idle(c)
    /\ Return(c, "nil")
    /\ UNCHANGED <<table, touched, had, reported>>

ActivateFails(c) ==
    /\ ~Idle(c)
    /\ Return(c, "error")
    /\ reported' = reported \cup {Of[switching[c]]}
    /\ UNCHANGED <<table, touched, had>>

Next ==
    \E c \in Caller :
        \/ \E v \in Version :
               \/ Create(c, v) \/ CreateConflicts(c, v)
               \/ Deactivate(c, v) \/ DeactivateUnanswered(c, v)
        \/ \E i \in Interchange : DeactivateAll(c, i)
        \/ CallFails(c)
        \/ ActivateTarget(c) \/ ActivateConflicts(c)
        \/ ActivateFindsNone(c) \/ ActivateFails(c)

Spec == Init /\ [][Next]_vars

-----------------------------------------------------------------------------
(* Correctness *)

ActiveOf(i) == {v \in active : Of[v] = i}

(* An interchange that has had an active version and has none now is one in *)
(* the middle of a switch, or one whose deactivation was asked for or whose *)
(* switch answered an error: no interleaving of calls of Activate that      *)
(* answer nil, conflict or not found leaves it without an active version.   *)
NoSilentLoss ==
    \A i \in had :
        \/ ActiveOf(i) # {}
        \/ \E c \in Caller :
               ~Idle(c) /\ Of[switching[c]] = i /\ touched[c] # {}
        \/ i \in reported

(* A switch to a version that is not found has deactivated nothing, though  *)
(* it finds that out by its second statement.                               *)
NotFoundTouchesNothing ==
    \A c \in Caller : answer[c] = "notfound" => touched[c] = {}

(* Every behaviour of the table is one of the registers: at most one active *)
(* version, and no switch that skips the deactivation of the one before.    *)
Current ==
    [i \in Interchange |->
        IF ActiveOf(i) = {} THEN None ELSE CHOOSE v \in ActiveOf(i) : TRUE]

Register == INSTANCE VersionRegister WITH current <- Current

ImplementsRegister == Register!RegisterSpec
===============================================================================
