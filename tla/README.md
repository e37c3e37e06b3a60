# Verification of the EDIFACT ingestion service

TLA+ modules, TLC configurations and TLAPS proofs for `svc-ingestion`, the one service of this
repository that is implemented. It takes EDIFACT files over HTTP, parses them, stores interchanges
and messages in PostgreSQL, publishes domain events to Kafka, and answers queries. Paths below are
relative to `src/services/svc-ingestion/` unless they start with `src/docs`.

    tlc -workers 2 -config MCIngestion_faults.cfg MCIngestion.tla   # one run
    tlapm Ingestion_proofs.tla                                      # one proof module

`PROJECT.json` lists the runs, the lines each definition translates (`map`), a plausible wrong
version of the code for each property (`mutants`), the hazards of the code, the findings and the
theorems.

## 1. Inventory

| Component | State | Operations | Talks to |
|---|---|---|---|
| Upload handler (`adapters/inbound/http/router.go`) | none of its own | `IngestFile`: extract, check the size, dispatch, status code | ingestion service |
| Ingestion service (`adapters/services/ingestion_service.go`) | locals of each request's goroutine | `IngestFile`, `handleParseFailure`, `persistAndPublish`, `GetInterchange`, `ListMessages`, `GetRawFile` | parser, repositories, transaction manager, publisher |
| Repositories and schema (`adapters/repos`, `migrations`) | five tables in PostgreSQL | one SQL statement each, two for an upsert | the pool |
| Transaction manager and pool (`infrastructure/postgres.go`) | the connections in use | `Begin`, `Commit`, `Rollback`; every statement takes a connection too | PostgreSQL |
| Event publisher (`adapters/outbound/kafka`) | one writer with its batches | `Publish` after the commit, `Close` at shutdown | Kafka |
| EDIFACT lexer (`adapters/inbound/edifact/lexer.go`, `delimiters.go`) | reader, look-ahead, two flags | `NextToken` | called by the parser |
| EDIFACT parser (`parser.go`) | current token, result, errors | `Parse` | called by the service |
| Message listing and interchange detail | none; cursors live with clients | `ListMessages`, `GetInterchange` | repositories |
| Runtime (`runtime/`) | clean-up functions, signal channel, two contexts, the server goroutine | build, start, select, shut down | everything it built |
| HTTP server: generated wrappers, strict handlers, middleware, router (`http_server_gen.go`, `middleware/`, `router.go`) | per request: the status it noted; the request counters | bind, enter the middlewares, decode, call, visit, record; recover a panic | use cases |
| Health checks (`usecases/queries/health.go`) | none | `GetHealth`, `GetLiveness`, `GetReadiness` | pool, writer |
| Raw file query; command and query decorators (`usecases/`) | the use case counters | `GetRawFile`; count, log and trace around a call | repositories, metrics |
| Processing version switch (`processing_version_repository.go`) | `is_active` | `Create`, called by the upload; `DeactivateAll` and `Activate`, which have no caller outside tests | the pool |
| Configuration, logger and metrics output, domain constructors | none that a decision depends on | | |

What interacts. Uploads run in goroutines of their own and meet in three places: the unique keys of
the tables, the pool and the topic. The service calls the parser synchronously and the parser pulls
tokens from the lexer. Readers see the tables between any two statements of an upload. The runtime
closes what handlers are using. Probes ask the same pool the uploads exhaust. The calls of `Publish`
share one writer with `Close`.

What is hard.

* *Nothing runs in the transaction.* `Begin` takes a connection and keeps it, but the repositories
  are built over the pool (`runtime/dependency_options.go:216-231`), so each statement commits by
  itself. Commit and rollback change no table. Every prefix of the pipeline is visible and survives
  a failure, and an upload holds one connection while it waits for a second.
* *Races on a content or a subscription* are decided by a unique key; the loser has to recover the
  winner's row.
* *Partial failure*: a statement, the publish, the client's connection or the process may fail at
  any point, and a statement may have executed although its caller saw an error.
* *The lexer's errors are sticky*: `NextToken` does not advance past a bad byte. The loops of the
  parser wait for the end of the input and so never end on one, and `Parse` takes no context: a
  goroutine that has met a stray byte is gone for good.
* *Ids are drawn before rows are stored*, so the cursor of a listing orders rows differently from
  their insertion.
* *Shutdown* races handlers, its own timer, a second signal and the server's failure.
* *A ping has no deadline of its own*: it waits for a connection as long as the client of its
  request does.
* *The status a middleware notes* is the last header written, which a broken answer makes another
  than the first. And what is written is not sent: a short answer is buffered until the handler has
  returned, and behind the write timeout, or to a client that has gone, it is noted and counted like
  any other.
* *A publish may be acknowledged to nobody*: the write is tried again, the context ends, the writer
  is closed meanwhile.
* *A version switch is two UPDATEs* in no transaction, with room for other callers between.

What makes each part correct.

* Ingestion: one interchange per content; no dangling reference; an answer "completed" for one's own
  upload, and an ingest event, only when everything is stored; all "completed" answers for a content
  name the stored row; no connection leaks; every upload whose parse returns is answered if the pool
  is large enough, whatever becomes of the others.
* Lexer: no byte is lost or invented; tokens come in the order the parser needs; it always comes to
  an end.
* Parser: accepts exactly the interchanges its rules describe; a result without errors is complete;
  the list of subscriptions covers the messages; it returns, if the stream ends with the input.
* Read side: pages ascend, repeat nothing and skip nothing that was there; one interchange is listed
  whole or not at all; a detail is never older than the query.
* Runtime: handlers keep what they use until the deadline; a clean end has closed everything; once
  asked, the process ends.
* HTTP server: an answer is true of the database at some moment of its request; the counters agree
  with what the handlers wrote, and that with what arrives where the client waits and the write
  timeout has not passed; the liveness probe does not depend on the database.
* Publisher: nil means that all events are in the topic; nothing is on its way when `Close` returns;
  every call returns.
* Version switch: at most one active version; none lost without an error to somebody.

The 40 hazards of the code, each at its line with the properties that cover it, are in
`PROJECT.json`. Only the zero byte that ends an input is covered by none: nothing says what it
should do instead.

## 2. Modules and the code

    Database <- Ingestion <- MCIngestion, Ingestion_proofs    implements IngestContract
    Token <- Lexer <- MCLexer, Lexer_proofs                   implements TokenStream
    Token <- Parser <- MCParser, Parser_proofs
    ReadSide <- MCReadSide, ReadSide_proofs
    HttpServer <- MCHttpServer, HttpServer_proofs
    EventPublisher <- MCEventPublisher, EventPublisher_proofs
    ProcessingVersions <- MCProcessingVersions,               implements VersionRegister
                          ProcessingVersions_proofs
    Lifecycle <- Lifecycle_proofs

**Database**: the tables as sets of rows and the statements as actions on them (`InsertInterchange`,
`Upserted`, `Canonical`, ...). An id is named after the request that drew it: a request draws at
most one id per kind of row, so the pair names the row.

**Ingestion**: `POST /interchanges`. A step is what a goroutine does between two points where
another one, a fault or a disconnecting client can come in between: one statement, one publish, one
return. `pc[r]` names the next one, so `LookUp`, `StoreFailed`, `Begin`, `Store`, `Recover`,
`CreateVersion`, `UpsertInsert`, `UpsertSelect`, `BulkCreate`, `Commit`, `PublishIngested`, `Reply`
are the calls of `IngestFile` and `persistAndPublish` in their order; `Abort` is the error return
with its deferred rollback. The parser belongs to the step `LookUp` if it returns (`AfterParse`); a
content of shape `endless` leaves its upload in stage `parse`, where nothing but a crash ends it.
`Active` are the uploads in flight that are not caught there. `holders` are the requests whose
transaction keeps a connection; a statement executes only if one is left. `Refused` is a statement
that fails before it executes, and `Write` also allows one that executed and whose answer was lost.
`Disconnect` cancels the context of a request. `Crash` loses every request in flight and keeps the
tables, since nothing was in a transaction. Files are model values with a shape, subscriptions and
messages.

**IngestContract**: what a client and a consumer may rely on: one claimant per content for ever,
filled in once and before the claimant is answered, events and answers that are true when they go
out. The refinement mapping derives the record of a content from the tables (`RecordOf`). The
contract deliberately allows a content to stay incomplete and a second upload of it to be told
"completed": the code does that (run `rollback`), and a contract without it would not be
implemented.

**Lexer**: `lexer.go` byte by byte. Mode `next` is the dispatch of `NextToken`; modes `tag` and
`value` are the loops of `lexSegmentTag` and `lexValue`. `LosesNothing` compares the tokens with
`Meaning`, a definition that reads the whole text at once. The delimiters are whatever six bytes
follow `UNA`, since `ParseUNA` checks nothing: blanks, letters, the zero byte, one byte for two
purposes. `Suitable` says which choices ISO 9735 means. `LosesNothing`, `GivesUpOnlyOnBadInput` and
`KeepsTokenOrder` speak of those, because with others they fail: a blank or a letter as terminator
may be skipped, or read as part of a tag. `ReachesAnEnd` and the types hold for all. **Token** and
**TokenStream** are what passes to the parser: a segment has at most one tag, at its start, and the
end stays the end (`Orderly`, which is also what `ParserAssumption` asks of a stream).

**Parser**: `parser.go` over a stream of tokens, one step per segment or decision. `readSegment` is
the operator `Component(e, c)`; the actions are `SkipAdvice`, `parseUNB`, `ReadUNH`, `ReadBody`,
`ReadUNT`, `parseUNZ` and their early returns. The set of errors keeps the kinds of problems, not
their text or number. A loop that reads an error token never ends, because the lexer returns the
same token again: `ReadForEver` and `SkipForEver` are the steps into the loops of `readSegment` and
`skipSegment`, and `pc = "looping"` is the state they stay in. The reference it is compared with
reads the whole stream: `Segments` cuts it into segments, elements and components,
`ValidInterchange` states the rules a valid interchange keeps, and `MessagesOf` are its messages.

**ReadSide**: `GET /messages` page by page and `GET /interchanges/{id}` statement by statement, with
uploads that store meanwhile (their rows as in Ingestion, message ids from a clock as `uuid.NewV7`
draws them). `there` and `before` are history variables: what a first page found, and what a query
would have been told when it was asked.

**HttpServer**: a request on its way through `http_server_gen.go`, the middlewares, the strict
handler, `router.go` and back: `RejectParameter` before the middlewares, `EnterMiddlewares`,
`RejectBody` or `Refuse` without a use case, `RunUseCase`, `Visit` or `VisitFails`, `Record`,
`Flush`; a panic goes to `RecoverPanic` or `AbortConnection`, an upload that the parser does not
give back to `ParseForEver`. `Write` puts an answer into the buffer of the connection; it is on the
wire (`sent`) only after `Flush`, which may fail, or send the head and no more, once the client has
left (`left`) or the `WriteTimeout` of the server has passed (`late`). A body longer than the buffer
is written to the connection under the handler's eyes, and may fail there (`VisitFails`): then
`ResponseErrorHandlerFunc` writes a second header, which the status writers note. What a use case
does is Ingestion's and ReadSide's business; here it is one of the outcomes it can have while the
database is `up`, `down` or `busy`, and the answer that `router.go` makes of it (`Answer`). While
the database is busy, a statement or a ping waits until the client leaves. The health checks are
operators: `FetchHealth`, `FetchReadiness`, `FetchLiveness`. `met` is a history variable: the states
of the database during the request.

**EventPublisher**: `Publish` and `Close` of `event_publisher.go` over the writer that
`infrastructure/kafka.go` configures. The writer is a library; its steps are what that configuration
says of it (synchronous, acknowledged by all replicas) and the defaults it leaves (bounded attempts,
a `Close` that flushes). An attempt may store an event and not hear of it, so `copies[e]` may exceed
1. In Ingestion a publish is one step that may lose any part of its batch; this module is what
stands behind that step.

**ProcessingVersions** and **VersionRegister**: table `processing_versions` with its unique keys and
its EXCLUDE constraint, and `Create`, `DeactivateAll` and the two statements of `Activate` by
several callers. The abstract specification is one register per interchange that is emptied before
it is filled again. `touched`, `had` and `reported` are history variables.

**Lifecycle**: `runtime/dispatcher.go`, `deps.go`, `dependency_options.go`. `pc` is the main
goroutine: build option by option, start the server, hook signals, select, run clean-up functions
backwards, return. The goroutines of the server and of the shutdown timer run beside it, and so do
uploads, as far as a closed pool or writer disturbs them. Handlers are as coarse as the question
allows: a read error, a rival or a pool limit is Ingestion's business.

Abstractions the reader should know of: hashes do not collide; a database error is one outcome,
whatever its text; times are left out (`PreparedAt` is a value that is there or not); reading,
parsing and building messages touch nothing shared and belong to the neighbouring step; connections
that single statements hold come back by themselves and are not counted, so a pool is exhausted by
transactions only.

## 3. Runs

Passing runs:

| Run | Question | Instance |
|---|---|---|
| `faults` | Do the safety properties and the contract hold under every interleaving and every fault? | 3 uploads at once, each of one of 3 contents, pool of 3, all four kinds of fault |
| `answered` | Is every accepted upload answered whose parse returns? | 3 uploads of 6 contents, one of which the parser never gives back; 2 at work at once, pool of 3; database faults and crashes |
| `texts` | Is the scanner exact, and does it always end? | every text of up to 5 bytes over one byte of each of 8 classes, under 8 choices of delimiters |
| `interchanges` | Does the parser accept, and return, what its rules say? | every header variant; up to 3 of 9 body pieces; 7 trailers; each whole or cut before its last token; 4 that end in an error token |
| `reads` | Are listings and details consistent while uploads store? | 3 uploads with 5 messages, 1 listing client, 1 detail client, 6 filters, limits -1, 0, 1, 2, 3 with default 1 and maximum 2 |
| `requests` | Are answers true, counters right, probes independent and goroutines given back? | 2 requests, one of any operation; any behaviour of the database and the clients, the write timeout at any write |
| `versions` | Does the version switch keep its promise with other callers between its statements? | 2 callers, 2 interchanges, 4 versions of which 2 claim one number |
| `events` | Does the answer of a publish agree with the topic, and does shutdown flush? | 4 calls with 5 events, one of which cannot be marshalled; 2 attempts |
| `lifecycle` | Does the process stop, in order, without losing work? | 2 uploads, 2 signals, any option, the port or the server may fail |

The type invariants are proved (section 4) and therefore in no run.

Why the bounds are enough. *faults*: a race on a content or on a subscription has two sides, and a
third upload can come between, after or look up; two of the contents share a subscription and list
it at different places, so upserts meet in both orders; with a pool of three, three transactions
exhaust it, which one or two cannot. *answered*: 2 in flight and 3 connections is the smallest
instance of "fewer uploads than connections", and the contents add those the handler refuses and one
whose parse never ends (`faults` has none of these: an upload that is caught touches nothing any
more).
*texts*: the scanner looks at two bytes and two flags, and the longest pattern that matters (tag,
delimiter, release, released byte, terminator) has five bytes; with one byte per class all
distinctions of the code occur. The choices of delimiters are the usual one and, for each check that
`ParseUNA` does not make, one that would fail it. *interchanges*: three pieces reach a message that
follows a broken one and a piece after both. *reads*: pages of one and two items against five
messages give first, middle, full last and short last pages. `OneKindOfRead` is a state constraint:
behaviours in which the listing client and the detail client both act are cut. Neither writes
anything the other reads, so such a behaviour shows no property of one that it does not show without
the other. *requests*: the two requests meet in the counters only, and the second one, a
`GetInterchange`, can be a success, an error of the use case, a rejection, or a panic. That a client
leaves or the write timeout passes is only modelled where it is noticed: while a use case waits, and
where something is sent. *versions*: a switch is disturbed by one statement
of one other caller at a time; two versions of one interchange are rivals, a third has a number that
is taken, and the other interchange shows that nothing spills over. *events*: two attempts give a
retry and a last one; the call with two events may succeed in part. *lifecycle*: a second signal is
the one that `Notify` drops, or that comes after the channel is closed.

`SYMMETRY` over `Request` is used where only safety is checked and contents are chosen freely for
each request; the runs with a liveness property use none. `CHECK_DEADLOCK FALSE` is set where the
system may stop: in Ingestion (every upload is answered or lost, and then nothing is left to do; the
exhausted pool is a stop of its own, which `EveryUploadAnswered` is about), in the lexer and parser
(they end), in EventPublisher and HttpServer (every call or request is over) and in Lifecycle (the
process ends).

Fairness. *Ingestion*: weak fairness of `Serve(r)`, one conjunct per goroutine: the Go scheduler
runs what can run, a statement on a free connection comes to an end, and kafka-go bounds its
attempts. Nothing is assumed of clients, disconnections or faults, nor that a parse ends: an upload
with an endless content is owed no answer, and `EveryUploadAnswered` claims none for it. *Lexer and
parser*: weak fairness of their only action, a loop that is executed. *HttpServer*: weak fairness of
`Proceeds(r)`, what the goroutine of a request can do next by itself; not to panic, not to find
fault with an input, not to get an answer of a database that is busy, and not to leave a parse that
loops. Nothing is assumed of the database or of clients; `AbandonedRequestsEnd` excepts the parse.
*EventPublisher*: an attempt ends (the writer has a deadline for it), and a call or a `Close` that
has nothing left to wait for returns; contexts and shutdowns owe nothing. *Lifecycle*: weak fairness
of the steps of the main goroutine after start-up, of the timer (time passes) and of the goroutine
that waits for it; none of `CleanupReturns` nor of handlers, because `pool.Close` and `writer.Close`
have no deadline.

Each of these runs shows a statement of the repository that the code does not keep:

| Run | Statement | What happens |
|---|---|---|
| `rollback` | `internal/domain/model/status.go:4`: completed "indicates successful parsing and persistence" | a statement fails after the interchange row is written; the row stays, completed, without messages, and the retry is told "completed" |
| `saturated` | `src/docs/contracts/openapi/ingestion/v1/specs.yaml:30`: the full result in a single response | as many uploads as connections between `Begin` and `Commit` wait for each other for ever |
| `error_tokens` | `internal/adapters/inbound/edifact/parser.go:174`: "collects all errors ... rather than failing on the first one" | a stray byte inside a segment keeps `readSegment` in its loop for ever |

## 4. Proofs

TLAPS checks the theorems below for every value of the constants that satisfies the assumptions. The
theorems that state a property of a run are listed in `PROJECT.json`.

**Ingestion_proofs.** `TypeCorrect`, then four invariants, each preserved by every action given the
earlier ones:

* `RowInv`: one row per content, a row's owner carries its content and has reached the stage at
  which rows exist, a version has its interchange. Needed because `OneInterchangePerContent` alone
  does not say whose row it is.
* `LinkInv`: one row per subscription; what a request resolved is stored and covers the identifiers
  before `index`. Gives `UniqueSubscription`, `ReferentialIntegrity`, and that `buildMessages` finds
  each row.
* `TruthInv`: from `commit` on everything is `Persisted`, results are honest. Rows are never deleted
  (`StepGrows`), which carries `Persisted` along. Gives `FreshAnswers`, `TruthfulEvents`,
  `CompletedAnswers`, and `IdempotentIds`: two "completed" answers for one content name one id.
* `PoolInv`: only stages of the pipeline hold connections, and no more requests than `MaxInFlight`
  are `Active`. Gives `ConnectionsReturn` and `PoolSuffices`: fewer uploads at work than connections
  never exhaust the pool, however many others the parser has caught.

`Refinement` shows that Ingestion implements IngestContract: every step is a claim, a completion, an
announcement, an answer, or changes nothing the contract sees. It needs `RowInv` (the row of a
content is the claimant's, who has not been answered), its primed form (the row found after an
insert is the one inserted), `TruthInv` (what is announced or answered is stored) and `Unanswered`
(a request has no result before it is answered). The lemmas are one per kind of contract step:
`ClaimRefines`, `CompleteRefines`, `AnswerRefines`, `ExistingRefines`.

`NoRequestGoesBack`: `Left(r)`, the steps a request has before it, is a natural number that every
step of the request lowers and no other step raises, under every fault: from the upload to its end
there are at most 9 steps and 2 for each identifier. This is the safety half of
`EveryUploadAnswered`; what remains for TLC is that a request is not left waiting.

Assumptions: `IngestionAssumption`. Its one fact about the program, that the identifiers of messages
are in the list of subscriptions, is what `Parser_proofs!MessagesAreCovered` proves of the parser.

**Lexer_proofs.** `TypeCorrect`, and `ImplementsTokenStream`: the scanner implements TokenStream for
every input and every suitable choice of delimiters. `OrderInv` ties the two flags to the latest
token: a tag loop runs only after a segment end, and a value ends at a byte that cannot start a tag.
The assumption excludes no delimiters: suitability is a condition of the property.

* `ErrorsAreDeserved` (`GivesUpOnlyOnBadInput`). By itself the property speaks of the end only.
  `ReadInv` says what holds on the way: the bytes read so far are well-formed unless an error has
  been returned (`Prefix`), and the mode, the flags and the latest token agree with the place the
  text itself gives the next byte: before or behind the first separator of its segment, between two
  segments, behind a tag (`Place`).
* `NothingIsLost` (`LosesNothing`). `WriteInv`: what the tokens say (`Said`), followed by what is in
  the buffer (`Pending`), is the meaning of the bytes before the position. A byte is handled by
  one lemma for what it adds to the meaning and one for what it adds to the tokens.
* `ParserGetsAStream`: once the lexer is at an end, its tokens are a stream of the kind
  `ParserAssumption` asks for. So what is proved of the parser holds of what the lexer gives it, for
  suitable delimiters; with others a tag may turn up inside a segment.
* `AlwaysGetsOn`: `Left` is a natural number that every step lowers, for every input and all
  delimiters, suitable or not. The rank that is added to the distance from the end orders the steps
  that read nothing; that a tag loop is only entered on a letter or digit is the invariant it needs.

Induction over the text is done without an induction theorem: a counterexample has a smallest
position (`SmallestNumber`), and a function that is defined by a first value and a rule is obtained
from the runs of that rule (`RunExists`). `meaning` is a recursive function because the prover knows
nothing of `SelectSeq`.

**Parser_proofs.** `TypeCorrect`, `MessagesAreCovered`, `CompleteResults`: an accepted result names
sender, receiver and reference, and every message in it has reference and type; a rejected one has
errors. `CompleteInv` adds that the message in hand is complete unless an error is recorded.

* `GrammarDecided` (`AcceptsTheGrammar`) and `MessagesAreTheStreams` (`MessagesMirrorTheStream`):
  the parser accepts exactly the streams whose segments keep the rules, and returns their messages.
  The properties speak of the end; `GrammarInv` says what is known on the way. As long as there is
  no error, the parser stands before some segment k of the stream, and its result and its message
  are what the segments before k say; once there is one, the stream is refuted already, whatever
  follows. One group of lemmas is about the reference (`InOrder` of a set of positions, the elements
  of a segment, the messages up to a trailer), a second ties it to what the parser sees
  (`SeesSegment`, `ElementIs`, `ComponentIs`, `ReadsOn`), the third has one lemma per step.
* `AlwaysGetsOn` and `OnlyErrorsCatch`: every step lowers a natural number, the step into a loop
  without end included, behind which there is none; and only the error token at the end of a stream
  leads there, so that on a stream that ends with the input no state is in such a loop. What
  `TerminatesOnEndOfInput` adds, and only TLC checks, is that some action is enabled and taken.

`ParserAssumption` admits every stream that is `Orderly` and ends in an end or an error. That the
empty value is none of the tags is an assumption about the constants that stand for strings.

**ReadSide_proofs.** The type invariant and all properties of the run, over any number of
uploads, readers, clients and any filters and limits. `IInv` is `TypeOK`, `WriterInv` (the rows of
an upload appear together, under its own ids), `ReaderInv` (what is listed matches and lies before
the cursor; a row is left behind it; what the first page found and the cursor has passed is listed)
and `ClientInv` (what a query has read is at least what there was when it began). The properties by
themselves are not inductive: a page that is added must come after what is listed, which only the
relation between cursor and list tells; and that no half of an interchange is listed needs that its
rows appear at once.

**HttpServer_proofs.** `AnswersTellTheTruth` and `CountersMatchAnswers`, for any number of requests
and operations. `TruthInv` says what an outcome means for `met`, `AnswerInv` that the reply follows
from the outcome and that a status written is the reply or was written without one, `StageInv` what
a request has and has not got at each stage, and `BodyInv` what becomes of its answer: one that is
buffered or went out whole was noted as it was written, and one that did not has a client that left
or a write timeout that passed. The counters are sums over requests: each step moves one request
into at most one of the counted sets (`FS_AddElement`).

**EventPublisher_proofs.** `AnswersMatchTopic` and `CloseFlushes`, for any number of calls, events
and attempts. The invariant relates the fate of each event to the answer of its call and to its
copies, and says that a closed writer has nothing queued and nobody waiting. `BoundedDuplicates`:
an event is tried, and so stored, at most `MaxAttempts` times, and a queued one has a try left.
Assumption: no event belongs to two calls.

**ProcessingVersions_proofs.** `NoSilentLoss`, `NotFoundTouchesNothing` and `Refinement`: the table
implements the registers, for any callers and versions. The invariant has the EXCLUDE constraint as
a property of the rows, and that a switch which is under way has touched rows only if its target is
stored, and will therefore be found; rows are never deleted.

**Lifecycle_proofs.** The type invariant and all invariants of the run, for any number of uploads
and signals. `BuildInv`: the functions registered so far are a prefix of the five, as long as the
options applied say. `CloseInv`: what is closed is what lies above the index of `cleanup`, and a
closed server does not serve. `HandlerInv`: past the server and in time no handler runs, so none
meets a closed writer; past the pool nobody holds a connection. The properties speak of the end or
of what is closed; only the index in between says why. `MainOnlyGoesForward`: the main goroutine
takes at most 24 steps, each of them lowers `Left`.

**Only model-checked.** Liveness: `EveryUploadAnswered`, `ReachesAnEnd`, `TerminatesOnEndOfInput`,
`AnsweredWithoutDatabase`, `AbandonedRequestsEnd`, `EveryCallReturns`, `StopsOnceAsked`. The provers
cannot do fairness and ENABLED. For five of them the part that is safety, that steps cannot go on
for ever, is proved (`NoRequestGoesBack`, the two `AlwaysGetsOn`, `BoundedDuplicates`,
`MainOnlyGoesForward`). Every invariant and every action property of the passing runs is a theorem.

## 5. Not modelled

* Configuration, domain constructors, and what logger, tracing and metrics print: no state that a
  decision depends on, nothing to interleave. Their failures are failing branches of Lifecycle and
  Ingestion.
* `UpdateStatus`, `FindByInterchangeAndVersion` and `FindAll` have no caller outside tests.
* `domain_events` is created by a migration and written by nobody.
* Search, reparse and the other services of `src/docs` are designs; the two stubs of the API are in
  HttpServer.
* The partition of an event: `LeastBytes` ignores the key, so no order survives, and the model
  claims none.
* What the endless loop of `readSegment` does to memory: it adds an error in each turn until the
  process dies, which is a `Crash` of Ingestion like any other.
* What the lexer returns behind its first error, where that is a release character at the end of the
  input and the delimiters make it a letter, a blank or a separator as well: it is read again as that
  and then comes the end. The stream is written down to its first error.
* Answers read off the text of an error: `router.go:262` and `:339` look for "not found" in it, and
  the model takes it that no other error has these words.
* The embedded API document and the JSON of bodies in `http_server_gen.go`; texts of errors, lines
  and columns.

Disagreements between documents and code that a reader of both will meet and that need no model:

* A resubmission is answered 201, not 200 (`src/docs/README.md:175`, `src/docs/solution.md:455`):
  only the lost race returns `ErrDuplicateInterchange`.
* `TokenUNA` (`solution.md:818`) is never produced: `UNA` is a segment tag of the advice.
* ADR-008 promises ids that grow with insertion (`solution.md:147,153`); they grow with the drawing
  of the id, so a row may be stored behind a cursor. `StoredRowsAreListed` claims no more than is
  true.
* The cursor is a raw UUID, not base64url, and a bad one is answered 500.
* `specs.yaml:187` lists "active processing version by default"; the code filters by version only
  when asked.
* The 422 answer has no `interchangeId` (`solution.md:433`).
* `ingestion_service.go:325` says that a publish error is logged; it is discarded.
* The comment in `Activate` says "Atomic" (`processing_version_repository.go:110`); it runs two
  UPDATEs, and one that fails leaves the interchange without an active version. No caller outside
  tests.
* Two racing uploads of a file that does not parse: the loser answers and publishes an id no row
  has, since `handleParseFailure` ignores what `Create` answers (`ingestion_service.go:201`),
  against `solution.md:95`. The contract allows a failed answer either id.
* `interchange-detail.yaml:40` has the summary "Present when status = completed."; `router.go:304`
  adds it only when there are messages, and an ingest may be under way, or have failed.
* "Graceful shutdown prevents data loss" (`solution.md:180`): the shutdown timer
  (`dispatcher.go:118`) may end the process between the statements and the publish of an upload.
* "Kafka key = InterchangeID (partition ordering)" (`solution.md:130`, `:943`): the balancer is
  `LeastBytes`, which ignores keys (`infrastructure/kafka.go:14`). "At-most-once delivery"
  (`solution.md:134`): a write whose acknowledgement is lost is tried again.
* `middleware/recovery.go:11` "returns 500": with `Connection: Upgrade` it writes a body and no
  header, which is 200.
* `specs.yaml:251` answers 503 when "One or more dependencies" are unhealthy; `AggregateStatus`
  needs all of them, and the check of Kafka is that the writer is not nil, so `/health` never
  answers 503 while the service runs.
* `solution.md:1066` draws Metrics as the innermost middleware; the wrapper loop makes the last of
  its list the outermost, which is Metrics.
* A duplicate upload is answered 200 and counted as a failed command; one that does not parse is
  answered 422 and counted as a success.
* A file of more than 8191 messages exceeds the 65535 parameters of one INSERT; this is a failing
  `BulkCreate` in Ingestion, with the effect of run `rollback`.
* The parser ignores what follows `UNZ`, does not check the count of `UNT`, skips a count of `UNZ`
  that is no number, and a missing `UNT` swallows the next message. A zero byte ends the input.
  These are in the models as the code has them.

## 6. Plan

The order: the ingest core first, since every other part depends on what it stores and what it
tells; then what feeds it, what reads it, what starts and stops it; then the server around it, the
publisher behind it and the version switch. All modules of section 2 are done, checked and proved.
Left:

1. Composition of lexer and parser on short texts, with the parser's stream the lexer's output:
   which texts make the parser hang (`error_tokens` and `OnlyErrorsCatch` say that error tokens do,
   and nothing else). The
   interface between the two is proved (`Lexer_proofs!ParserGetsAStream`).
2. Composition of Ingestion and EventPublisher: the publish step of the former as the calls of the
   latter.
3. Partitions, once a balancer that respects the key makes a promise about them.
