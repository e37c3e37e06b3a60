------------------------------ MODULE HttpServer ------------------------------
(***************************************************************************)
(* One request on its way through the server: the generated wrapper binds  *)
(* its parameters, the per-route middlewares wrap the ResponseWriter, the  *)
(* strict handler decodes the body, the implementation (router.go) runs a  *)
(* decorated use case and chooses the answer, the answer is visited, the   *)
(* middlewares record what they noted on the way, and when the handler has *)
(* returned net/http sends what it has buffered: only then a short answer  *)
(* is on the wire, if the client is there and the write timeout has not    *)
(* passed.  PanicRecovery is around all of it but the sending.             *)
(*                                                                         *)
(* What a use case does is left to modules Ingestion and ReadSide; here it *)
(* is its outcome, and the state of the database that outcome depends on.  *)
(* The database may be up, down (statements and pings fail) or busy (the   *)
(* pool has no connection to give, or the server does not answer: calls    *)
(* wait, as long as the context of the request lives).                     *)
(***************************************************************************)
EXTENDS Naturals, FiniteSets

CONSTANTS
    Request,        \* the requests of this instance
    Asks            \* Asks[r]: the operations request r may be for

Probes == {"GetHealth", "GetLiveness", "GetReadiness"}
DataOps == {"IngestFile", "GetInterchange", "GetRawFile", "ListMessages"}
Stubs == {"ReprocessInterchanges", "RollbackVersion"}
Operations == Probes \cup DataOps \cup Stubs

ASSUME HttpServerAssumption ==
    /\ IsFiniteSet(Request)
    /\ Asks \in [Request -> SUBSET Operations]

(* The wrappers of these bind a path or query parameter *)
WithParameter == {"GetInterchange", "GetRawFile", "RollbackVersion", "ListMessages"}

(* The strict handlers of these decode a body *)
WithBody == {"IngestFile", "ReprocessInterchanges", "RollbackVersion"}

(* Answers that may exceed the write buffer of the connection *)
LongAnswer == {"GetRawFile", "ListMessages"}

(* "duplicate" is the error ErrDuplicateInterchange with a result, "failed" *)
(* a result with status failed, "error" any other error of a use case.      *)
Outcomes == {"none", "panic", "healthy", "degraded", "unhealthy",
             "ok", "duplicate", "failed", "notfound", "error"}

Errors == {"duplicate", "notfound", "error"}

Status == {0, 200, 201, 400, 404, 413, 422, 500, 503}

VARIABLES
    stage,      \* stage[r]: how far request r has come
    op,         \* op[r]: the operation it is routed to
    outcome,    \* outcome[r]: what its use case returned
    reply,      \* reply[r]: the status the implementation chose; 0 before
    wrote,      \* wrote[r]: the status of the first WriteHeader; 0 before
    sent,       \* sent[r]: the status on the wire; 0 before
    noted,      \* noted[r]: statusWriter.status; 0 outside the middlewares
    body,       \* body[r]: what became of the answer
    left,       \* requests whose client has gone: their context is cancelled
    late,       \* requests whose WriteTimeout has passed: nothing more is sent
    database,   \* "up", "down" or "busy"
    met,        \* met[r]: whether the database was up, or down, while r ran
                \* (history)
    requests,   \* counter of the metrics middleware, by status
    useCases    \* counter of the metrics decorators, by status

perRequest == <<stage, op, outcome, reply, wrote, sent, noted, body, left, late, met>>
counters == <<requests, useCases>>
vars == <<perRequest, database, counters>>

Stages == {"idle", "routed", "entered", "parsing", "answering", "written", "panicked",
           "returned", "done"}

(* "buffered" until it is sent, then "whole" or "cut"; "broken" when a      *)
(* write failed under the handler's eyes.                                   *)
Bodies == {"none", "buffered", "broken", "whole", "cut"}
Databases == {"up", "down", "busy"}
Met == {"up", "down"}
Labels == {"success", "error"}

TypeOK ==
    /\ stage \in [Request -> Stages]
    /\ op \in [Request -> Operations \cup {"none"}]
    /\ outcome \in [Request -> Outcomes]
    /\ reply \in [Request -> Status]
    /\ wrote \in [Request -> Status]
    /\ sent \in [Request -> Status]
    /\ noted \in [Request -> Status]
    /\ body \in [Request -> Bodies]
    /\ left \subseteq Request
    /\ late \subseteq Request
    /\ database \in Databases
    /\ met \in [Request -> SUBSET Met]
    /\ requests \in [Labels -> Nat]
    /\ useCases \in [Labels -> Nat]

Init ==
    /\ stage = [r \in Request |-> "idle"]
    /\ op = [r \in Request |-> "none"]
    /\ outcome = [r \in Request |-> "none"]
    /\ reply = [r \in Request |-> 0]
    /\ wrote = [r \in Request |-> 0]
    /\ sent = [r \in Request |-> 0]
    /\ noted = [r \in Request |-> 0]
    /\ body = [r \in Request |-> "none"]
    /\ left = {}
    /\ late = {}
    /\ database \in Databases
    /\ met = [r \in Request |-> {}]
    /\ requests = [s \in Labels |-> 0]
    /\ useCases = [s \in Labels |-> 0]

Running(r) == stage[r] \notin {"idle", "done"}

-----------------------------------------------------------------------------
(* Dependencies *)

Reached == database = "up"
RefusedWithoutContext(r) == database = "down"

Refused(r) == database = "down" \/ r \in left

(* Whether dbHealthChecker.Ping may succeed and may fail for r now; it does *)
(* neither, but waits, while the database is busy and the client is there.  *)
PingDatabase(r) == {ok \in BOOLEAN : IF ok THEN Reached ELSE Refused(r)}

(* kafkaHealthChecker.Ping: the writer of a running service is never nil *)
PingKafka == TRUE

Checks(db) == [database |-> db, kafka |-> PingKafka]

AggregateStatus(checks) ==
    LET unhealthy == {c \in DOMAIN checks : ~checks[c]}
    IN  IF unhealthy = {} THEN "healthy"
        ELSE IF unhealthy = DOMAIN checks THEN "unhealthy" ELSE "degraded"

FetchHealth(r) == {AggregateStatus(Checks(db)) : db \in PingDatabase(r)}

FetchReadiness(r) ==
    {IF \A c \in DOMAIN Checks(db) : Checks(db)[c] THEN "healthy" ELSE "unhealthy" :
         db \in PingDatabase(r)}

LivenessPings(r) == {IF db THEN "healthy" ELSE "unhealthy" : db \in PingDatabase(r)}

FetchLiveness(r) == {"healthy"}

(* The outcomes of statements that find what is in "found" when they work *)
Query(r, found) ==
    {out \in found : Reached} \cup {out \in {"error"} : Reached \/ Refused(r)}

(* An ingest that does not parse ends without an error whatever becomes of  *)
(* its statements, an empty file or a limit out of range with one before    *)
(* the first.                                                               *)
Ingest(r) ==
    Query(r, {"ok", "duplicate"})
        \cup {out \in {"failed"} : Reached \/ Refused(r)}
        \cup {"error"}

List(r) == Query(r, {"ok"}) \cup {"error"}

UseCase(r) ==
    CASE op[r] = "GetHealth"      -> FetchHealth(r)
      [] op[r] = "GetReadiness"   -> FetchReadiness(r)
      [] op[r] = "GetLiveness"    -> FetchLiveness(r)
      [] op[r] = "IngestFile"     -> Ingest(r)
      [] op[r] = "GetInterchange" -> Query(r, {"ok", "notfound"})
      [] op[r] = "GetRawFile"     -> Query(r, {"ok", "notfound"})
      [] op[r] = "ListMessages"   -> List(r)
      [] OTHER                    -> {}

-----------------------------------------------------------------------------
(* The answers of strictServerImplementation *)

AnswerHealth(out) == IF out = "unhealthy" THEN 503 ELSE 200
AnswerProbe(out) == IF out = "unhealthy" THEN 503 ELSE 200

AnswerIngest(out) ==
    CASE out = "ok"        -> 201
      [] out = "duplicate" -> 200
      [] out = "failed"    -> 422
      [] OTHER             -> 500

AnswerMissing(out) == IF out = "ok" THEN 200 ELSE 404

(* The two handlers look for "not found" in the text of the error: that no  *)
(* other error has it in its text is assumed here.                          *)
AnswerById(out) ==
    CASE out = "ok" -> 200 [] out = "notfound" -> 404 [] OTHER -> 500

AnswerList(out) == IF out = "ok" THEN 200 ELSE 500

Answer(o, out) ==
    CASE o = "GetHealth"                          -> AnswerHealth(out)
      [] o \in {"GetLiveness", "GetReadiness"}    -> AnswerProbe(out)
      [] o = "IngestFile"                         -> AnswerIngest(out)
      [] o \in {"GetInterchange", "GetRawFile"}   -> AnswerById(out)
      [] OTHER                                    -> AnswerList(out)

(* What it answers without a use case: an upload that cannot be read or is  *)
(* too large, and the operations of a later phase.                          *)
Refusals(o) ==
    CASE o = "IngestFile"            -> {413, 500}
      [] o = "ReprocessInterchanges" -> {400}
      [] o = "RollbackVersion"       -> {500}
      [] OTHER                       -> {}

-----------------------------------------------------------------------------
(* The stages of a request *)

sending == <<wrote, sent, body>>

Arrive(r, o) ==
    /\ stage[r] = "idle"
    /\ o \in Asks[r]
    /\ stage' = [stage EXCEPT ![r] = "routed"]
    /\ op' = [op EXCEPT ![r] = o]
    /\ met' = [met EXCEPT ![r] = {database} \cap Met]
    /\ UNCHANGED <<outcome, reply, sending, noted, left, late, database, counters>>

(* The answer goes to the buffer of the connection, which a short one does  *)
(* not fill.                                                                *)
Write(r, status) ==
    /\ wrote' = [wrote EXCEPT ![r] = status]
    /\ body' = [body EXCEPT ![r] = "buffered"]
    /\ UNCHANGED sent

(* ErrorHandlerFunc, before the middlewares are entered *)
RejectParameter(r) ==
    /\ stage[r] = "routed"
    /\ op[r] \in WithParameter
    /\ stage' = [stage EXCEPT ![r] = "returned"]
    /\ Write(r, 400)
    /\ UNCHANGED <<op, outcome, reply, noted, left, late, met, database, counters>>

(* Metrics, logging, tracing, from the outside to the inside; each of the   *)
(* first two notes the status in a statusWriter that starts with 200.       *)
EnterMiddlewares(r) ==
    /\ stage[r] = "routed"
    /\ stage' = [stage EXCEPT ![r] = "entered"]
    /\ noted' = [noted EXCEPT ![r] = 200]
    /\ UNCHANGED <<op, outcome, reply, sending, left, late, met, database, counters>>

RejectBody(r) ==
    /\ stage[r] = "entered"
    /\ op[r] \in WithBody
    /\ stage' = [stage EXCEPT ![r] = "written"]
    /\ Write(r, 400)
    /\ noted' = [noted EXCEPT ![r] = 400]
    /\ UNCHANGED <<op, outcome, reply, left, late, met, database, counters>>

Refuse(r) ==
    /\ stage[r] = "entered"
    /\ \E status \in Refusals(op[r]) : reply' = [reply EXCEPT ![r] = status]
    /\ stage' = [stage EXCEPT ![r] = "answering"]
    /\ UNCHANGED <<op, outcome, sending, noted, left, late, met, database, counters>>

\* a deferred function that does not see the named result
CountsSuccess(out) == useCases' = [useCases EXCEPT !["success"] = @ + 1]

(* The deferred function of the metrics decorator *)
CountUseCase(out) ==
    useCases' = [useCases EXCEPT ![IF out \in Errors THEN "error" ELSE "success"] = @ + 1]

RunUseCase(r) ==
    /\ stage[r] = "entered"
    /\ \E out \in UseCase(r) :
           /\ outcome' = [outcome EXCEPT ![r] = out]
           /\ reply' = [reply EXCEPT ![r] = Answer(op[r], out)]
           /\ CountUseCase(out)
    /\ stage' = [stage EXCEPT ![r] = "answering"]
    /\ UNCHANGED <<op, sending, noted, left, late, met, database, requests>>

(* The look-up of an ingest has come back, with or without an error, and    *)
(* found nothing; the parser loops over an error token (Parser,             *)
(* ReadForEver) and asks no context whether to stop.                        *)
ParseForEver(r) ==
    /\ stage[r] = "entered"
    /\ op[r] = "IngestFile"
    /\ Reached \/ Refused(r)
    /\ stage' = [stage EXCEPT ![r] = "parsing"]
    /\ UNCHANGED <<op, outcome, reply, sending, noted, left, late, met, database, counters>>

(* A panic runs the deferred functions with err still nil *)
PanicInUseCase(r) ==
    /\ stage[r] = "entered"
    /\ op[r] \in DataOps \cup Probes
    /\ outcome' = [outcome EXCEPT ![r] = "panic"]
    /\ CountUseCase("panic")
    /\ stage' = [stage EXCEPT ![r] = "panicked"]
    /\ UNCHANGED <<op, reply, sending, noted, left, late, met, database, requests>>

(* The panic passes the middlewares, which defer nothing.  A request with   *)
(* Connection: Upgrade gets no header, and with the body net/http sends 200 *)
RecoverPanic(r) ==
    /\ stage[r] = "panicked"
    /\ stage' = [stage EXCEPT ![r] = "returned"]
    /\ \E status \in {500, 200} : Write(r, status)
    /\ UNCHANGED <<op, outcome, reply, noted, left, late, met, database, counters>>

(* http.ErrAbortHandler: net/http closes the connection without an answer *)
AbortConnection(r) ==
    /\ stage[r] = "panicked"
    /\ stage' = [stage EXCEPT ![r] = "done"]
    /\ UNCHANGED <<op, outcome, reply, sending, noted, left, late, met, database, counters>>

Visit(r) ==
    /\ stage[r] = "answering"
    /\ stage' = [stage EXCEPT ![r] = "written"]
    /\ Write(r, reply[r])
    /\ noted' = [noted EXCEPT ![r] = reply[r]]
    /\ UNCHANGED <<op, outcome, reply, left, late, met, database, counters>>

(* The body is longer than the buffer, and a write fails, since the client  *)
(* has gone or the write timeout has passed: ResponseErrorHandlerFunc       *)
(* writes a second header, which the statusWriters note and the connection  *)
(* ignores.  The first one may be on the wire by then.                      *)
VisitFails(r) ==
    /\ stage[r] = "answering"
    /\ r \in left \cup late
    /\ op[r] \in LongAnswer
    /\ reply[r] = 200
    /\ stage' = [stage EXCEPT ![r] = "written"]
    /\ wrote' = [wrote EXCEPT ![r] = reply[r]]
    /\ \E status \in {0, reply[r]} : sent' = [sent EXCEPT ![r] = status]
    /\ body' = [body EXCEPT ![r] = "broken"]
    /\ noted' = [noted EXCEPT ![r] = 500]
    /\ UNCHANGED <<op, outcome, reply, left, late, met, database, counters>>

\* the logger and the metrics, behind the inner handler
Record(r) ==
    /\ stage[r] = "written"
    /\ stage' = [stage EXCEPT ![r] = "returned"]
    /\ requests' = [requests EXCEPT ![IF noted[r] >= 400 THEN "error" ELSE "success"] = @ + 1]
    /\ UNCHANGED <<op, outcome, reply, sending, noted, left, late, met, database, useCases>>

(* net/http finishes the request: it sends what is buffered.  Where that    *)
(* fails, or the answer broke before, nobody but the client gets to know.   *)
Flush(r) ==
    /\ stage[r] = "returned"
    /\ stage' = [stage EXCEPT ![r] = "done"]
    /\ \/ /\ body[r] = "buffered" /\ r \notin late
          /\ sent' = [sent EXCEPT ![r] = wrote[r]]
          /\ body' = [body EXCEPT ![r] = "whole"]
       \/ /\ body[r] = "buffered" /\ r \in left \cup late
          /\ \E status \in {0, wrote[r]} : sent' = [sent EXCEPT ![r] = status]
          /\ body' = [body EXCEPT ![r] = "cut"]
       \/ body[r] = "broken" /\ UNCHANGED <<sent, body>>
    /\ UNCHANGED <<op, outcome, reply, wrote, noted, left, late, met, database, counters>>

-----------------------------------------------------------------------------
(* The environment *)

(* Where it matters whether the client is there or the time is up: while    *)
(* something is being sent.                                                 *)
Sending(r) ==
    \/ stage[r] = "answering" /\ op[r] \in LongAnswer
    \/ stage[r] = "returned" /\ body[r] = "buffered"

(* The client leaves; noticed where the context is asked or something sent  *)
ClientLeaves(r) ==
    /\ stage[r] \in {"entered", "parsing"} \/ Sending(r)
    /\ r \notin left \cup late
    /\ left' = left \cup {r}
    /\ UNCHANGED <<stage, op, outcome, reply, sending, noted, late, met, database, counters>>

(* Thirty seconds after its header was read a request can send nothing      *)
(* more; neither its handler nor its context gets to know.  The deadline is *)
(* looked at where something is sent: that it passed before is seen there,  *)
(* as is what happens to a request whose client leaves as well.             *)
WriteTimeoutPasses(r) ==
    /\ Sending(r)
    /\ r \notin left \cup late
    /\ late' = late \cup {r}
    /\ UNCHANGED <<stage, op, outcome, reply, sending, noted, left, met, database, counters>>

DatabaseBecomes(d) ==
    /\ d # database
    /\ database' = d
    /\ met' = [r \in Request |-> IF Running(r) THEN met[r] \cup ({d} \cap Met) ELSE met[r]]
    /\ UNCHANGED <<stage, op, outcome, reply, sending, noted, left, late, counters>>

-----------------------------------------------------------------------------
Serve(r) ==
    \/ RejectParameter(r) \/ EnterMiddlewares(r)
    \/ RejectBody(r) \/ Refuse(r)
    \/ RunUseCase(r) \/ ParseForEver(r) \/ PanicInUseCase(r)
    \/ RecoverPanic(r) \/ AbortConnection(r)
    \/ Visit(r) \/ VisitFails(r)
    \/ Record(r) \/ Flush(r)

Next ==
    \/ \E r \in Request : Serve(r)
    \/ \E r \in Request, o \in Operations : Arrive(r, o)
    \/ \E r \in Request : ClientLeaves(r) \/ WriteTimeoutPasses(r)
    \/ \E d \in Databases : DatabaseBecomes(d)

(* What the goroutine of a request can always do next by itself: not to     *)
(* panic, nor to find fault with an input, nor to go on without an answer   *)
(* of a database it asks, nor to leave a parse that loops.                  *)
Proceeds(r) ==
    \/ RejectParameter(r) \/ EnterMiddlewares(r)
    \/ op[r] \in Stubs /\ Refuse(r)
    \/ (Reached \/ Refused(r) \/ op[r] = "GetLiveness") /\ RunUseCase(r)
    \/ RecoverPanic(r) \/ AbortConnection(r)
    \/ Visit(r) \/ VisitFails(r)
    \/ Record(r) \/ Flush(r)

Fairness == \A r \in Request : WF_vars(Proceeds(r))

Spec == Init /\ [][Next]_vars /\ Fairness

-----------------------------------------------------------------------------
(* Correctness *)

(* What a client is told of the database is true of some moment of its      *)
(* request: an answer with data, a 404, "ready" and "healthy" need a        *)
(* database that answered, and a 503 one that did not.  An error of the     *)
(* database must not pass for "not found", nor the check of one dependency  *)
(* for that of the other.  Answers to a request that panicked tell nothing. *)
SaysUp(r) ==
    \/ op[r] \in DataOps /\ sent[r] \in {200, 201, 404}
    \/ op[r] = "GetReadiness" /\ sent[r] = 200
    \/ op[r] = "GetHealth" /\ sent[r] = 200 /\ outcome[r] = "healthy"

SaysDown(r) ==
    \/ sent[r] = 503
    \/ op[r] = "GetHealth" /\ sent[r] = 200 /\ outcome[r] # "healthy"

AnswersTellTheTruth ==
    \A r \in Request : outcome[r] # "panic" =>
        /\ SaysUp(r) => "up" \in met[r]
        /\ SaysDown(r) => "down" \in met[r] \/ r \in left

(* The counters against what the handlers wrote, and that against what the  *)
(* clients got.  A success is an answer below 400 no write of which failed; *)
(* requests with a bad parameter and requests that panic are in neither     *)
(* count.  The use cases count an error for every 404 and 500 they led to   *)
(* and for every duplicate upload, though that is answered 200.  What is    *)
(* counted is what arrives: an answer that went out whole was counted under *)
(* its own status, and a counted one that did not had a client that left or *)
(* outlasted the write timeout.                                             *)
Recorded(r) ==
    stage[r] \in {"returned", "done"} /\ noted[r] # 0 /\ outcome[r] # "panic"

Good(r) == wrote[r] < 400 /\ body[r] # "broken"

LedToError(r) ==
    /\ outcome[r] # "none"
    /\ reply[r] \in {404, 500} \/ (op[r] = "IngestFile" /\ reply[r] = 200)

ArrivesAsCounted(r) ==
    IF body[r] = "whole" THEN sent[r] = noted[r] ELSE r \in left \cup late

CountersMatchAnswers ==
    /\ requests["success"] = Cardinality({r \in Request : Recorded(r) /\ Good(r)})
    /\ requests["error"] = Cardinality({r \in Request : Recorded(r) /\ ~Good(r)})
    /\ useCases["error"] = Cardinality({r \in Request : LedToError(r)})
    /\ \A r \in Request :
           Recorded(r) /\ stage[r] = "done" => ArrivesAsCounted(r)

(* The liveness probe and the stubs are answered whatever the database      *)
(* does, if their client waits, no 30 s pass and nothing panics; a liveness *)
(* probe that waits for a connection would have a healthy process restarted *)
(* for a saturated pool.                                                    *)
Answered(r) ==
    /\ stage[r] = "done"
    /\ body[r] = "whole" \/ r \in left \cup late \/ outcome[r] = "panic"

AnsweredWithoutDatabase ==
    \A r \in Request :
        (stage[r] = "routed" /\ op[r] \in Stubs \cup {"GetLiveness"}) ~> Answered(r)

(* A request whose client has left does not keep its goroutine for ever, by *)
(* waiting for a connection, a statement or a write; the one thing that     *)
(* keeps it is a parse that never returns (parser.go:472).                  *)
AbandonedRequestsEnd ==
    \A r \in Request : r \in left ~> stage[r] \in {"done", "parsing"}
===============================================================================
