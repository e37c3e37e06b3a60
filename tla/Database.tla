------------------------------- MODULE Database -------------------------------
(***************************************************************************)
(* The PostgreSQL schema of the ingestion service and the statements its   *)
(* repositories run.  Every repository of the service is built over the    *)
(* connection pool (runtime/dependency_options.go:216-231), so a statement *)
(* commits by itself the moment it executes: an operator below is the      *)
(* effect of one such statement.  The operators say what a statement does  *)
(* once it has a connection; the caller decides whether it gets one, and   *)
(* whether its answer comes back.                                          *)
(*                                                                         *)
(* A UUID v7 drawn while serving request r is represented by r itself: a   *)
(* request draws at most one interchange id, one version id, one message   *)
(* id per message and one subscription id per identifier, so the request   *)
(* together with the kind of row names the row.                            *)
(***************************************************************************)
CONSTANTS
    Request,    \* the upload requests, and the ids drawn while serving them
    File,       \* file contents, as far as their SHA-256 hashes tell them apart
    Sub,        \* subscription identifiers (LOC+172)
    Slot,       \* positions of a message in its file
    NoSub       \* a message without LOC+172: subscription_id IS NULL

ASSUME NoSubAssumption == NoSub \notin Sub

VARIABLES
    interchanges,   \* rows of table interchanges
    versions,       \* ids of the rows of table processing_versions, all version 1
    subscriptions,  \* rows of table subscriptions
    messages        \* rows of table messages

tables == <<interchanges, versions, subscriptions, messages>>

Status == {"completed", "failed"}

InterchangeRow == [id : Request, hash : File, status : Status]

SubscriptionRow == [identifier : Sub, id : Request]

NullSubscription == [identifier |-> NoSub]

MessageRow == [interchange : Request, version : Request, slot : Slot,
               subscription : SubscriptionRow \cup {NullSubscription}]

TablesTypeOK ==
    /\ interchanges \subseteq InterchangeRow
    /\ versions \subseteq Request
    /\ subscriptions \subseteq SubscriptionRow
    /\ messages \subseteq MessageRow

EmptyTables ==
    /\ interchanges = {}
    /\ versions = {}
    /\ subscriptions = {}
    /\ messages = {}

-------------------------------------------------------------------------------
(* What a mutated schema or repository would do: each operator here is the  *)
(* wrong twin of one defined below.                                         *)

HashNeverTaken(f) == FALSE

UpsertWithoutConflictTarget(s, r) ==
    subscriptions \cup {[identifier |-> s, id |-> r]}

-------------------------------------------------------------------------------
(* UNIQUE (content_hash): an insert of this hash answers SQLSTATE 23505,    *)
(* and a look-up by this hash finds a row.                                  *)
HashTaken(f) == \E row \in interchanges : row.hash = f

\* FindByContentHash
RowOf(f) == CHOOSE row \in interchanges : row.hash = f

\* interchangeRepository.Create, when the hash is free
InsertInterchange(r, f, status) ==
    /\ ~HashTaken(f)
    /\ interchanges' =
           interchanges \cup {[id |-> r, hash |-> f, status |-> status]}
    /\ UNCHANGED <<versions, subscriptions, messages>>

\* processingVersionRepository.Create of version 1 of interchange r
InsertVersion(r) ==
    /\ versions' = versions \cup {r}
    /\ UNCHANGED <<interchanges, subscriptions, messages>>

(* The table after INSERT ... ON CONFLICT (identifier) DO NOTHING of        *)
(* identifier s under a fresh id: the row that was there first stays.       *)
Upserted(s, r) ==
    IF \E row \in subscriptions : row.identifier = s
    THEN subscriptions
    ELSE subscriptions \cup {[identifier |-> s, id |-> r]}

\* the INSERT half of UpsertByIdentifier
InsertSubscription(s, r) ==
    /\ subscriptions' = Upserted(s, r)
    /\ UNCHANGED <<interchanges, versions, messages>>

(* The SELECT half of UpsertByIdentifier: the canonical row, which need not *)
(* be the one the INSERT half tried to write.                               *)
Canonical(s) == {row \in subscriptions : row.identifier = s}

\* messageRepository.BulkCreate: one multi-row INSERT
InsertMessages(rows) ==
    /\ messages' = messages \cup rows
    /\ UNCHANGED <<interchanges, versions, subscriptions>>

-------------------------------------------------------------------------------
(* Two rows with the same content hash are the same row: one content has    *)
(* one interchange, however many uploads of it raced (uq_interchanges_      *)
(* content_hash and interchangeRepository.Create).                          *)
OneInterchangePerContent ==
    \A a, b \in interchanges : a.hash = b.hash => a = b

(* Two rows with the same identifier are the same row, however many ingests *)
(* upserted it at once (uq_subscriptions_identifier, UpsertByIdentifier).   *)
OneRowPerSubscription ==
    \A a, b \in subscriptions : a.identifier = b.identifier => a = b

(* No foreign key of the schema is ever dangling, although nothing but the  *)
(* order of the service's statements keeps it so: a version has its         *)
(* interchange, a message its interchange, that interchange's version and   *)
(* the stored row of its subscription (ingestion_service.go:246-301).       *)
ReferencesResolve ==
    /\ \A v \in versions : \E row \in interchanges : row.id = v
    /\ \A m \in messages :
           /\ m.version = m.interchange
           /\ m.version \in versions
           /\ m.subscription \in subscriptions \cup {NullSubscription}
===============================================================================
