------------------------------ MODULE Ingestion -------------------------------
(***************************************************************************)
(* POST /interchanges from the router to the broker: the HTTP handler      *)
(* (router.go IngestFile), the command handler, IngestionService.          *)
(* IngestFile, the repositories of module Database, the connection pool    *)
(* they share and the publisher.  Every request runs in its own goroutine; *)
(* a step is what a goroutine does between two points where another one, a *)
(* fault or a disconnecting client can get in between: one SQL statement,  *)
(* one publish, one return.  Parsing and building messages touch no shared *)
(* state and belong to the step that precedes or follows them; a parse     *)
(* that does not return (Parser, ReadForEver) is a stage of its own, which *)
(* only a crash ends, since Parse takes no context.                        *)
(*                                                                         *)
(* The transaction IngestFile opens holds one connection of the pool and   *)
(* nothing else: the repositories are built over the pool, so no statement *)
(* ever runs inside it.  Commit and Rollback therefore change no table.    *)
(***************************************************************************)
EXTENDS Database, Naturals, Sequences, FiniteSets

CONSTANTS
    NoId,           \* the zero UUID of an answer that names no interchange
    Shape,          \* what is in the body: see Shapes
    SubsOf,         \* ParseResult.Subscriptions of a well-formed content
    MsgsOf,         \* ParseResult.Messages: slot and subscription of each
    PoolSize,       \* MaxConns of the pool (config.go:112, postgres.go:47)
    MaxInFlight,    \* bound on uploads active at once; the code has none
    Faults          \* what may go wrong in this instance: see FaultKinds

\* "endless": the lexer meets an error token, over which the parser loops
Shapes == {"unreadable", "oversize", "empty", "malformed", "wellformed", "endless"}

FaultKinds == {"database", "kafka", "disconnect", "crash"}

ParsedMessage == [slot : Slot, sub : Sub \cup {NoSub}]

(* What the parser guarantees of its result (parser.go:197-213): the        *)
(* identifier of every message is in the list of subscriptions.             *)
ASSUME IngestionAssumption ==
    /\ NoId \notin Request
    /\ Shape \in [File -> Shapes]
    /\ SubsOf \in [File -> Seq(Sub)]
    /\ MsgsOf \in [File -> SUBSET ParsedMessage]
    /\ \A f \in File : \A m \in MsgsOf[f] :
           m.sub # NoSub => \E i \in 1 .. Len(SubsOf[f]) : SubsOf[f][i] = m.sub
    /\ PoolSize \in Nat \ {0}
    /\ MaxInFlight \in Nat
    /\ Faults \subseteq FaultKinds

VARIABLES
    upload,     \* upload[r]: the content request r carries
    pc,         \* pc[r]: what the goroutine of r does next
    index,      \* index[r]: the loop variable of IngestFile's upsert loop
    resolved,   \* resolved[r]: subscriptionIDs, the rows found so far
    holders,    \* the requests whose transaction holds a pool connection
    cancelled,  \* cancelled[r]: the context of r is done
    topic,      \* the events in Kafka
    result      \* result[r]: what the handler makes its response from

local == <<index, resolved>>

vars == <<tables, upload, pc, index, resolved, holders, cancelled, topic, result>>

Working == {"lookup", "parse", "storeFailed", "publishFailed", "begin", "store",
            "recover", "version", "insertSub", "selectSub", "bulk", "commit",
            "publish", "reply", "abort"}

Stages == Working \cup {"idle", "answered", "lost"}

Results == [id : Request \cup {NoId}, status : Status \cup {"none"},
            err : {"none", "duplicate", "tooLarge", "internal"}]

Pending == [id |-> NoId, status |-> "none", err |-> "none"]

Events == [type : {"interchange.ingested", "version.created", "interchange.failed"},
           id : Request]

Init ==
    /\ EmptyTables
    /\ upload \in [Request -> File]
    /\ pc = [r \in Request |-> "idle"]
    /\ index = [r \in Request |-> 1]
    /\ resolved = [r \in Request |-> {}]
    /\ holders = {}
    /\ cancelled = [r \in Request |-> FALSE]
    /\ topic = {}
    /\ result = [r \in Request |-> Pending]

-------------------------------------------------------------------------------
(* Statements and the pool *)

InFlight == {r \in Request : pc[r] \in Working}

\* those the parser has not caught
Active == {r \in InFlight : pc[r] # "parse"}

(* A statement takes a connection of its own, also when its request already *)
(* holds one: it waits until the transactions leave one.  Connections that  *)
(* statements hold come back by themselves and are not counted.             *)
ConnectionFree == Cardinality(holders) < PoolSize

\* the statement reaches the database
Executes(r) == ~cancelled[r] /\ ConnectionFree

(* The statement is not executed: the context is done before a connection   *)
(* is free, or the connection or the database fails.                        *)
Refused(r) == cancelled[r] \/ (ConnectionFree /\ "database" \in Faults)

(* A statement may have executed although its caller sees an error.         *)
AnswerLost == Faults \cap {"database", "disconnect"} # {}

Goto(r, stage) == pc' = [pc EXCEPT ![r] = stage]

(* A write that the service gives up on when it fails: deferred rollback,   *)
(* error to the handler.                                                    *)
Write(r, effect, next) ==
    \/ Executes(r) /\ effect /\ Goto(r, next)
    \/ Executes(r) /\ AnswerLost /\ effect /\ Goto(r, "abort")
    \/ Refused(r) /\ UNCHANGED tables /\ Goto(r, "abort")

KeepsConnection(r) == holders

(* The connections held once the transaction of r is over, committed or     *)
(* rolled back: both give the connection back, error or not.                *)
Release(r) == holders \ {r}

(* The handler makes 200, 413 or 500 of an error, 201 or 422 of a status.   *)
Return(r, res) ==
    /\ Goto(r, "answered")
    /\ result' = [result EXCEPT ![r] = res]

-------------------------------------------------------------------------------
(* The handler before the service: extractFile and the size check, and      *)
(* validateFile.  Neither touches anything shared.                          *)

Rejection(shape) ==
    [Pending EXCEPT !.err = IF shape = "oversize" THEN "tooLarge" ELSE "internal"]

Reject(r) ==
    /\ pc[r] = "idle"
    /\ Shape[upload[r]] \in {"unreadable", "oversize", "empty"}
    /\ Return(r, Rejection(Shape[upload[r]]))
    /\ UNCHANGED <<tables, upload, local, holders, cancelled, topic>>

Accept(r) ==
    /\ pc[r] = "idle"
    /\ Shape[upload[r]] \in {"malformed", "wellformed", "endless"}
    /\ Cardinality(Active) < MaxInFlight
    /\ Goto(r, "lookup")
    /\ UNCHANGED <<tables, upload, local, holders, cancelled, topic, result>>

-------------------------------------------------------------------------------
(* IngestFile *)

RecoversOwnId(r, err) ==
    [id |-> r, status |-> RowOf(upload[r]).status, err |-> err]

\* the interchange that is stored for the content r carries
Existing(r, err) ==
    [id |-> RowOf(upload[r]).id, status |-> RowOf(upload[r]).status, err |-> err]

\* where the parser leaves a request: with an error, a result, or not at all
AfterParse(shape) ==
    CASE shape = "malformed" -> "storeFailed"
      [] shape = "endless"   -> "parse"
      [] OTHER               -> "begin"

(* The idempotency check, and the parser when it finds nothing.  An error   *)
(* of the look-up counts as "not found".                                    *)
LookUp(r) ==
    /\ pc[r] = "lookup"
    /\ \/ /\ Executes(r) /\ HashTaken(upload[r])
          /\ Return(r, Existing(r, "none"))
       \/ /\ (Executes(r) /\ ~HashTaken(upload[r])) \/ Refused(r)
          /\ Goto(r, AfterParse(Shape[upload[r]]))
          /\ UNCHANGED result
    /\ UNCHANGED <<tables, upload, local, holders, cancelled, topic>>

(* handleParseFailure: best effort, whatever Create answers is ignored.     *)
StoreFailed(r) ==
    /\ pc[r] = "storeFailed"
    /\ \/ Executes(r) /\ InsertInterchange(r, upload[r], "failed")
       \/ Executes(r) /\ HashTaken(upload[r]) /\ UNCHANGED tables
       \/ Refused(r) /\ UNCHANGED tables
    /\ Goto(r, "publishFailed")
    /\ UNCHANGED <<upload, local, holders, cancelled, topic, result>>

(* Publisher.Publish, one WriteMessages call.  Its writer spreads a batch   *)
(* over partitions, so part of it may get through; the error is discarded.  *)
Deliver(r, events) ==
    \E sent \in SUBSET events :
        /\ sent = events \/ "kafka" \in Faults \/ cancelled[r]
        /\ topic' = topic \cup sent

PublishFailed(r) ==
    /\ pc[r] = "publishFailed"
    /\ Deliver(r, {[type |-> "interchange.failed", id |-> r]})
    /\ Goto(r, "reply")
    /\ UNCHANGED <<tables, upload, local, holders, cancelled, result>>

-------------------------------------------------------------------------------
(* persistAndPublish *)

Begin(r) ==
    /\ pc[r] = "begin"
    /\ \/ Executes(r) /\ holders' = holders \cup {r} /\ Goto(r, "store")
       \/ Refused(r) /\ UNCHANGED holders /\ Goto(r, "abort")
    /\ UNCHANGED <<tables, upload, local, cancelled, topic, result>>

Store(r) ==
    /\ pc[r] = "store"
    /\ \/ Write(r, InsertInterchange(r, upload[r], "completed"), "version")
       \/ Executes(r) /\ HashTaken(upload[r]) /\ Goto(r, "recover") /\ UNCHANGED tables
    /\ UNCHANGED <<upload, local, holders, cancelled, topic, result>>

(* The look-up after ErrDuplicateInterchange, the return and the deferred   *)
(* rollback.                                                                *)
Recover(r) ==
    /\ pc[r] = "recover"
    /\ \/ /\ Executes(r) /\ HashTaken(upload[r])
          /\ Return(r, Existing(r, "duplicate"))
          /\ holders' = Release(r)
       \/ /\ (Executes(r) /\ ~HashTaken(upload[r])) \/ Refused(r)
          /\ Goto(r, "abort")
          /\ UNCHANGED <<holders, result>>
    /\ UNCHANGED <<tables, upload, local, cancelled, topic>>

SkipsLastSubscription(r, i) ==
    CASE i < Len(SubsOf[upload[r]]) -> "insertSub"
      [] OTHER -> IF MsgsOf[upload[r]] = {} THEN "commit" ELSE "bulk"

SkipsMessages(r, i) ==
    CASE i <= Len(SubsOf[upload[r]]) -> "insertSub"
      [] OTHER -> "commit"

(* Where the upsert loop goes when its next identifier is number i: round   *)
(* again, to the bulk insert, or past it when there is nothing to insert.   *)
AfterUpserts(r, i) ==
    CASE i <= Len(SubsOf[upload[r]]) -> "insertSub"
      [] OTHER -> IF MsgsOf[upload[r]] = {} THEN "commit" ELSE "bulk"

\* subscriptionIDs := make(...), and the first iteration of the loop
EnterLoop(r) ==
    /\ index' = [index EXCEPT ![r] = 1]
    /\ resolved' = [resolved EXCEPT ![r] = {}]

VersionErrorIgnored(r) ==
    /\ pc[r] = "version"
    /\ \/ Write(r, InsertVersion(r), AfterUpserts(r, 1))
       \/ Refused(r) /\ UNCHANGED tables /\ Goto(r, AfterUpserts(r, 1))
    /\ EnterLoop(r)
    /\ UNCHANGED <<upload, holders, cancelled, topic, result>>

CreateVersion(r) ==
    /\ pc[r] = "version"
    /\ Write(r, InsertVersion(r), AfterUpserts(r, 1))
    /\ EnterLoop(r)
    /\ UNCHANGED <<upload, holders, cancelled, topic, result>>

Identifier(r) == SubsOf[upload[r]][index[r]]

UpsertInsert(r) ==
    /\ pc[r] = "insertSub"
    /\ Write(r, InsertSubscription(Identifier(r), r), "selectSub")
    /\ UNCHANGED <<upload, local, holders, cancelled, topic, result>>

ReturnsOwnRow(r) == {[identifier |-> Identifier(r), id |-> r]}

\* the row the SELECT of UpsertByIdentifier returns, if any
Selected(r) == Canonical(Identifier(r))

UpsertSelect(r) ==
    /\ pc[r] = "selectSub"
    /\ \/ /\ Executes(r) /\ Selected(r) # {}
          /\ resolved' = [resolved EXCEPT ![r] = @ \cup Selected(r)]
          /\ index' = [index EXCEPT ![r] = @ + 1]
          /\ Goto(r, AfterUpserts(r, index[r] + 1))
       \/ /\ (Executes(r) /\ Selected(r) = {}) \/ Refused(r)
          /\ Goto(r, "abort")
          /\ UNCHANGED local
    /\ UNCHANGED <<tables, upload, holders, cancelled, topic, result>>

(* buildMessages links a message to the row its identifier resolved to, and *)
(* to none when the identifier is not among the resolved ones.              *)
Linked(r, s) ==
    IF \E row \in resolved[r] : row.identifier = s
    THEN CHOOSE row \in resolved[r] : row.identifier = s
    ELSE NullSubscription

MessageRows(r) ==
    {[interchange |-> r, version |-> r, slot |-> m.slot,
      subscription |-> Linked(r, m.sub)] : m \in MsgsOf[upload[r]]}

BulkCreate(r) ==
    /\ pc[r] = "bulk"
    /\ Write(r, InsertMessages(MessageRows(r)), "commit")
    /\ UNCHANGED <<upload, local, holders, cancelled, topic, result>>

(* Commit runs on the connection the transaction holds, and gives it back   *)
(* whatever it answers.                                                     *)
Commit(r) ==
    /\ pc[r] = "commit"
    /\ \/ ~cancelled[r] /\ Goto(r, "publish")
       \/ (cancelled[r] \/ "database" \in Faults) /\ Goto(r, "abort")
    /\ holders' = Release(r)
    /\ UNCHANGED <<tables, upload, local, cancelled, topic, result>>

PublishIngested(r) ==
    /\ pc[r] = "publish"
    /\ Deliver(r, [type : {"interchange.ingested", "version.created"}, id : {r}])
    /\ Goto(r, "reply")
    /\ UNCHANGED <<tables, upload, local, holders, cancelled, result>>

-------------------------------------------------------------------------------
(* Returning from the service *)

\* the results at the end of handleParseFailure and of persistAndPublish
Own(r) ==
    [id |-> r, err |-> "none",
     status |-> IF Shape[upload[r]] = "malformed" THEN "failed" ELSE "completed"]

Reply(r) ==
    /\ pc[r] = "reply"
    /\ Return(r, Own(r))
    /\ UNCHANGED <<tables, upload, local, holders, cancelled, topic>>

\* an error return: the deferred rollback, and the error to the handler
Abort(r) ==
    /\ pc[r] = "abort"
    /\ Return(r, [Pending EXCEPT !.err = "internal"])
    /\ holders' = Release(r)
    /\ UNCHANGED <<tables, upload, local, cancelled, topic>>

-------------------------------------------------------------------------------
(* The environment *)

\* the client goes away: net/http cancels the context of the request
Disconnect(r) ==
    /\ "disconnect" \in Faults
    /\ pc[r] \in Working
    /\ ~cancelled[r]
    /\ cancelled' = [cancelled EXCEPT ![r] = TRUE]
    /\ UNCHANGED <<tables, upload, pc, local, holders, topic, result>>

(* The process dies and is started again: every request in flight is lost,  *)
(* the database rolls back the transactions left open, the pool is new.     *)
Crash ==
    /\ "crash" \in Faults
    /\ InFlight # {}
    /\ pc' = [r \in Request |-> IF r \in InFlight THEN "lost" ELSE pc[r]]
    /\ holders' = {}
    /\ UNCHANGED <<tables, upload, local, cancelled, topic, result>>

-------------------------------------------------------------------------------
(* What the goroutine serving r does once it is started *)
Serve(r) ==
    \/ LookUp(r) \/ StoreFailed(r) \/ PublishFailed(r)
    \/ Begin(r) \/ Store(r) \/ Recover(r) \/ CreateVersion(r)
    \/ UpsertInsert(r) \/ UpsertSelect(r) \/ BulkCreate(r)
    \/ Commit(r) \/ PublishIngested(r) \/ Reply(r) \/ Abort(r)

Next ==
    \/ \E r \in Request : Reject(r) \/ Accept(r) \/ Serve(r) \/ Disconnect(r)
    \/ Crash

Spec == Init /\ [][Next]_vars

(* The Go scheduler runs every goroutine that can run, a statement on a     *)
(* connection and a publish end (kafka-go bounds its attempts); clients owe *)
(* us nothing, and neither faults nor disconnections ever have to happen.   *)
(* Nothing is asked of a parse that loops: no step leaves "parse".          *)
FairSpec == Spec /\ \A r \in Request : WF_vars(Serve(r))

-------------------------------------------------------------------------------
TypeOK ==
    /\ TablesTypeOK
    /\ upload \in [Request -> File]
    /\ pc \in [Request -> Stages]
    /\ index \in [Request -> Nat \ {0}]
    /\ \A r \in Request : pc[r] \in {"insertSub", "selectSub"} =>
                              index[r] <= Len(SubsOf[upload[r]])
    /\ resolved \in [Request -> SUBSET SubscriptionRow]
    /\ holders \subseteq Request
    /\ cancelled \in [Request -> BOOLEAN]
    /\ topic \subseteq Events
    /\ result \in [Request -> Results]

(* Everything a well-formed content of request r consists of is stored      *)
(* under the ids drawn for r.                                               *)
Persisted(r) ==
    /\ [id |-> r, hash |-> upload[r], status |-> "completed"] \in interchanges
    /\ r \in versions
    /\ \A m \in MsgsOf[upload[r]] : \E row \in messages :
           /\ row.interchange = r
           /\ row.slot = m.slot
           /\ row.subscription.identifier = m.sub

(* An upload answered "completed" under an id of its own is stored whole:   *)
(* interchange, version and every message, linked to its subscription       *)
(* (persistAndPublish returns only after its last statement succeeded).     *)
FreshAnswerMeansPersisted ==
    \A r \in Request :
        result[r].status = "completed" /\ result[r].id = r => Persisted(r)

(* A consumer that sees interchange.ingested or version.created finds the   *)
(* whole interchange in the database, whatever happened to the request      *)
(* since (ADR-007, post-commit publishing).                                 *)
EventsTellTheTruth ==
    \A e \in topic :
        e.type \in {"interchange.ingested", "version.created"} => Persisted(e.id)

(* Whatever upload is answered "completed", fresh, found by the look-up or  *)
(* beaten in the race, its answer names the row that is stored for its      *)
(* content; so all of them name the same one (ADR-005).                     *)
CompletedAnswersNameTheStoredRow ==
    \A r \in Request :
        result[r].status = "completed" =>
            [id |-> result[r].id, hash |-> upload[r], status |-> "completed"]
                \in interchanges

(* Only a request between Begin and the end of its transaction keeps a pool *)
(* connection: no return path, no fault and no lost race leaks one          *)
(* (ingestion_service.go:229).                                              *)
NoConnectionLeak ==
    \A r \in holders :
        pc[r] \in {"store", "recover", "version", "insertSub", "selectSub",
                   "bulk", "commit", "abort"}

(* With fewer active uploads than connections, the transactions they hold   *)
(* always leave one for the next statement of one of them; uploads caught   *)
(* in the parser take none, however many there are (ingestion_service.go:87 *)
(* before :225).                                                            *)
PoolNeverExhausted == MaxInFlight < PoolSize => ConnectionFree

(* Every accepted upload whose parse returns is answered, or lost in a      *)
(* crash: nobody waits for a connection for ever, and uploads that never    *)
(* leave the parser (parser.go:469-472) keep nobody else waiting.  They     *)
(* themselves are never answered, whatever the pool.                        *)
EveryUploadAnswered ==
    \A r \in Request :
        pc[r] = "lookup" /\ Shape[upload[r]] # "endless"
            ~> pc[r] \in {"answered", "lost"}

-------------------------------------------------------------------------------
(* What the documents say and the code does not do, refuted by a run of its *)
(* own, as EveryUploadAnswered is where the uploads fill the pool.          *)

(* model/status.go:4 of StatusCompleted: "indicates successful parsing and  *)
(* persistence".  Once the request that wrote a completed interchange is    *)
(* over, the interchange should be whole; but a write that fails after      *)
(* Create leaves the row behind, since no statement runs in the             *)
(* transaction that is rolled back.                                         *)
CompletedMeansPersisted ==
    \A row \in interchanges :
        row.status = "completed" /\ pc[row.id] \in {"answered", "lost"} =>
            Persisted(row.id)

-------------------------------------------------------------------------------
(* Refinement.  What the contract calls the record of a content is the row  *)
(* of its hash, and how much is stored under that row's id.                 *)

RecordOf(f) ==
    IF ~HashTaken(f) THEN [id |-> NoId, state |-> "absent"]
    ELSE [id |-> RowOf(f).id,
          state |-> IF RowOf(f).status = "failed" THEN "failed"
                    ELSE IF Persisted(RowOf(f).id) THEN "stored"
                    ELSE "incomplete"]

ReplyOf(r) ==
    [status |-> IF result[r].err \in {"tooLarge", "internal"} THEN "error"
                ELSE result[r].status,
     id |-> result[r].id]

Contract == INSTANCE IngestContract WITH
    WellFormed <- {f \in File : Shape[f] = "wellformed"},
    record <- [f \in File |-> RecordOf(f)],
    announced <- topic,
    reply <- [r \in Request |-> ReplyOf(r)]

(* The service keeps the contract of module IngestContract: one claimant    *)
(* per content for ever, filled in once by the claimant before it answers,  *)
(* and answers and events that are true when they go out.                   *)
ImplementsContract == Contract!Spec
===============================================================================
