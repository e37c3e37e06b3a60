-------------------------- MODULE HttpServer_proofs ---------------------------
(***************************************************************************)
(* Proofs about module HttpServer, for every number of requests.  The      *)
(* inductive invariant says of each request, at each of its stages, what   *)
(* it has chosen, sent and noted, and which database its outcome needed.   *)
(***************************************************************************)
EXTENDS HttpServer, FiniteSetTheorems, TLAPS

OutcomesOf(o) ==
    CASE o = "GetHealth"    -> {"healthy", "degraded"}
      [] o = "GetReadiness" -> {"healthy", "unhealthy"}
      [] o = "GetLiveness"  -> {"healthy"}
      [] o = "IngestFile"   -> {"ok", "duplicate", "failed", "error"}
      [] o \in {"GetInterchange", "GetRawFile"} -> {"ok", "notfound", "error"}
      [] o = "ListMessages" -> {"ok", "error"}
      [] OTHER              -> {}

(* What a request has at each stage *)
StageInv(r) ==
    /\ stage[r] = "idle" => op[r] = "none"
    /\ stage[r] \in {"idle", "routed"} => noted[r] = 0
    /\ stage[r] \in {"idle", "routed", "entered"} => outcome[r] = "none" /\ reply[r] = 0
    /\ stage[r] \in {"idle", "routed", "entered", "parsing", "panicked", "answering"} =>
           wrote[r] = 0 /\ sent[r] = 0 /\ body[r] = "none"
    /\ stage[r] = "panicked" => outcome[r] = "panic"
    /\ stage[r] \in {"answering", "written"} => outcome[r] # "panic"
    /\ stage[r] = "answering" => reply[r] # 0
    /\ stage[r] = "written" => noted[r] # 0 /\ (noted[r] >= 400 <=> ~Good(r))

(* What becomes of the answer: one that is buffered or went out whole was   *)
(* noted as it was written, and another cause than the handler is needed    *)
(* for one that did not.                                                    *)
BodyInv(r) ==
    /\ stage[r] \in {"written", "returned"} => body[r] \in {"buffered", "broken"}
    /\ stage[r] = "done" =>
           body[r] \in {"broken", "whole", "cut"} \/ outcome[r] = "panic"
    /\ body[r] \in {"buffered", "whole"} /\ outcome[r] # "panic" =>
           noted[r] \in {0, wrote[r]}
    /\ body[r] \in {"broken", "cut"} => r \in left \cup late
    /\ body[r] = "whole" => sent[r] = wrote[r]
    /\ sent[r] \in {0, wrote[r]}

(* The answer follows from the outcome *)
AnswerInv(r) ==
    /\ outcome[r] = "none" => reply[r] \in {0} \cup Refusals(op[r])
    /\ outcome[r] = "panic" => reply[r] = 0
    /\ outcome[r] \notin {"none", "panic"} =>
           outcome[r] \in OutcomesOf(op[r]) /\ reply[r] = Answer(op[r], outcome[r])
    /\ \/ wrote[r] \in {0, reply[r]}
       \/ wrote[r] = 400 /\ outcome[r] = "none"
       \/ wrote[r] \in {500, 200} /\ outcome[r] = "panic"

(* The outcome follows from what the request met *)
NeedsUp(r) ==
    \/ op[r] \in DataOps /\ outcome[r] \in {"ok", "duplicate", "notfound"}
    \/ op[r] \in {"GetHealth", "GetReadiness"} /\ outcome[r] = "healthy"

TruthInv(r) ==
    /\ Running(r) /\ database \in Met => database \in met[r]
    /\ NeedsUp(r) => "up" \in met[r]
    /\ outcome[r] \in {"degraded", "unhealthy"} => "down" \in met[r] \/ r \in left

Inv(r) == StageInv(r) /\ BodyInv(r) /\ AnswerInv(r) /\ TruthInv(r)

RequestInv == \A r \in Request : Inv(r)

(* The counters count what CountersMatchAnswers says they count *)
GoodOnes == {r \in Request : Recorded(r) /\ Good(r)}
BadOnes == {r \in Request : Recorded(r) /\ ~Good(r)}
ErrorOnes == {r \in Request : LedToError(r)}

Totals ==
    /\ requests["success"] = Cardinality(GoodOnes)
    /\ requests["error"] = Cardinality(BadOnes)
    /\ useCases["error"] = Cardinality(ErrorOnes)

IInv == TypeOK /\ RequestInv /\ Totals

-----------------------------------------------------------------------------
(* Operators *)

LEMMA PingTells ==
    ASSUME NEW r, NEW ok \in PingDatabase(r)
    PROVE  /\ ok \in BOOLEAN
           /\ ok => database = "up"
           /\ ~ok => database = "down" \/ r \in left
    BY DEF PingDatabase, Reached, Refused

LEMMA Aggregates ==
    ASSUME NEW ok \in BOOLEAN
    PROVE  AggregateStatus(Checks(ok)) = IF ok THEN "healthy" ELSE "degraded"
<1>1. DOMAIN Checks(ok) = {"database", "kafka"}
    BY DEF Checks
<1>2. Checks(ok)["database"] = ok /\ Checks(ok)["kafka"] = TRUE
    BY DEF Checks, PingKafka
<1>3. CASE ok
    <2>1. {c \in DOMAIN Checks(ok) : ~Checks(ok)[c]} = {}
        BY <1>1, <1>2, <1>3
    <2> QED
        BY <2>1, <1>3 DEF AggregateStatus
<1>4. CASE ~ok
    <2>1. {c \in DOMAIN Checks(ok) : ~Checks(ok)[c]} = {"database"}
        BY <1>1, <1>2, <1>4
    <2> QED
        BY <2>1, <1>1, <1>4 DEF AggregateStatus
<1> QED
    BY <1>3, <1>4

(* What a use case returns fits its operation and tells the database *)
LEMMA UseCaseTells ==
    ASSUME NEW r, NEW out \in UseCase(r), op[r] \in Operations
    PROVE  /\ out \in OutcomesOf(op[r])
           /\ (\/ op[r] \in DataOps /\ out \in {"ok", "duplicate", "notfound"}
               \/ op[r] \in {"GetHealth", "GetReadiness"} /\ out = "healthy")
                  => database = "up"
           /\ out \in {"degraded", "unhealthy"} => database = "down" \/ r \in left
<1>1. CASE op[r] = "GetHealth"
    <2>1. PICK ok \in PingDatabase(r) : out = AggregateStatus(Checks(ok))
        BY <1>1 DEF UseCase, FetchHealth
    <2> QED
        BY <1>1, <2>1, PingTells, Aggregates DEF OutcomesOf, DataOps
<1>2. CASE op[r] = "GetReadiness"
    <2>1. PICK ok \in PingDatabase(r) :
              out = IF \A c \in DOMAIN Checks(ok) : Checks(ok)[c]
                    THEN "healthy" ELSE "unhealthy"
        BY <1>2 DEF UseCase, FetchReadiness
    <2>2. (\A c \in DOMAIN Checks(ok) : Checks(ok)[c]) <=> ok
        BY <2>1, PingTells DEF Checks, PingKafka
    <2> QED
        BY <1>2, <2>1, <2>2, PingTells DEF OutcomesOf, DataOps
<1>3. CASE op[r] = "GetLiveness"
    BY <1>3 DEF UseCase, FetchLiveness, OutcomesOf, DataOps
<1>4. CASE op[r] \in DataOps
    <2>1. out \in OutcomesOf(op[r])
        BY <1>4 DEF UseCase, Query, Ingest, List, DataOps, OutcomesOf
    <2>2. out \in {"ok", "duplicate", "notfound"} => database = "up"
        BY <1>4 DEF UseCase, Query, Ingest, List, Reached, DataOps
    <2>3. out \notin {"healthy", "degraded", "unhealthy"}
        BY <1>4, <2>1 DEF OutcomesOf, DataOps
    <2> QED
        BY <1>4, <2>1, <2>2, <2>3
<1>5. CASE op[r] \in Stubs
    BY <1>5 DEF UseCase, Stubs
<1> QED
    BY <1>1, <1>2, <1>3, <1>4, <1>5 DEF Operations, Probes

(* What the use cases count as an error is what the answers say is one *)
LEMMA ErrorsLeadToErrors ==
    ASSUME NEW o \in Operations, NEW out \in OutcomesOf(o)
    PROVE  /\ out \in Outcomes \ {"none", "panic"}
           /\ Answer(o, out) \in Status \ {0}
           /\ out \in Errors <=> \/ Answer(o, out) \in {404, 500}
                                 \/ o = "IngestFile" /\ Answer(o, out) = 200
<1> USE DEF Errors, Outcomes, Status
<1>1. CASE o = "IngestFile"
    <2>1. out \in {"ok", "duplicate", "failed", "error"}
        BY <1>1 DEF OutcomesOf, DataOps
    <2>2. Answer(o, out) = AnswerIngest(out)
        BY <1>1 DEF Answer
    <2> QED
        BY <1>1, <2>1, <2>2 DEF AnswerIngest
<1>2. CASE o \in {"GetInterchange", "GetRawFile"}
    <2>1. out \in {"ok", "notfound", "error"}
        BY <1>2 DEF OutcomesOf, DataOps
    <2>2. Answer(o, out) = AnswerById(out)
        BY <1>2 DEF Answer
    <2> QED
        BY <1>2, <2>1, <2>2 DEF AnswerById
<1>3. CASE o = "ListMessages"
    <2>1. out \in {"ok", "error"}
        BY <1>3 DEF OutcomesOf, DataOps
    <2>2. Answer(o, out) = AnswerList(out)
        BY <1>3 DEF Answer
    <2> QED
        BY <1>3, <2>1, <2>2 DEF AnswerList
<1>4. CASE o = "GetHealth"
    <2>1. out \in {"healthy", "degraded"}
        BY <1>4 DEF OutcomesOf
    <2>2. Answer(o, out) = AnswerHealth(out)
        BY <1>4 DEF Answer
    <2> QED
        BY <1>4, <2>1, <2>2 DEF AnswerHealth
<1>5. CASE o \in {"GetLiveness", "GetReadiness"}
    <2>1. out \in {"healthy", "unhealthy"}
        BY <1>5 DEF OutcomesOf
    <2>2. Answer(o, out) = AnswerProbe(out)
        BY <1>5 DEF Answer
    <2> QED
        BY <1>5, <2>1, <2>2 DEF AnswerProbe
<1> QED
    BY <1>1, <1>2, <1>3, <1>4, <1>5
    DEF Operations, Probes, DataOps, Stubs, OutcomesOf
-----------------------------------------------------------------------------
(* Type correctness *)

LEMMA TypeInit == Init => TypeOK
    BY HttpServerAssumption DEF Init, TypeOK, Stages, Bodies, Outcomes, Status, Labels

(* The label a use case is counted under, and that of a request *)
LEMMA CountUseCaseType ==
    ASSUME TypeOK, NEW out, CountUseCase(out)
    PROVE  useCases' \in [Labels -> Nat]
    BY DEF CountUseCase, TypeOK, Labels

LEMMA TypeNext == TypeOK /\ RequestInv /\ [Next]_vars => TypeOK'
<1> SUFFICES ASSUME TypeOK, [Next]_vars PROVE TypeOK'
    OBVIOUS
<1> USE DEF TypeOK, Stages, Bodies, Status, Labels, counters, sending
<1>1. ASSUME NEW r \in Request, RejectParameter(r) PROVE TypeOK'
    BY <1>1 DEF RejectParameter, Write
<1>2. ASSUME NEW r \in Request, EnterMiddlewares(r) PROVE TypeOK'
    BY <1>2 DEF EnterMiddlewares
<1>3. ASSUME NEW r \in Request, RejectBody(r) PROVE TypeOK'
    BY <1>3 DEF RejectBody, Write
<1>4. ASSUME NEW r \in Request, Refuse(r) PROVE TypeOK'
    <2>1. PICK status \in Refusals(op[r]) : reply' = [reply EXCEPT ![r] = status]
        BY ZenonT(60), <1>4 DEF Refuse
    <2>2. status \in Status
        BY <2>1 DEF Refusals
    <2> QED
        BY <1>4, <2>1, <2>2 DEF Refuse
<1>5. ASSUME NEW r \in Request, RunUseCase(r) PROVE TypeOK'
    <2>1. PICK out \in UseCase(r) :
              /\ outcome' = [outcome EXCEPT ![r] = out]
              /\ reply' = [reply EXCEPT ![r] = Answer(op[r], out)]
              /\ CountUseCase(out)
        BY ZenonT(60), <1>5 DEF RunUseCase
    <2>2. op[r] \in Operations
        BY <2>1 DEF UseCase, Operations, Probes, DataOps
    <2>3. out \in Outcomes /\ Answer(op[r], out) \in Status
        BY <2>1, <2>2, UseCaseTells, ErrorsLeadToErrors
    <2>4. useCases' \in [Labels -> Nat]
        BY <2>1, CountUseCaseType
    <2> QED
        BY <1>5, <2>1, <2>3, <2>4 DEF RunUseCase
<1>6. ASSUME NEW r \in Request, PanicInUseCase(r) PROVE TypeOK'
    <2>1. useCases' \in [Labels -> Nat]
        BY <1>6, CountUseCaseType DEF PanicInUseCase
    <2> QED
        BY <1>6, <2>1 DEF PanicInUseCase, Outcomes
<1>7. ASSUME NEW r \in Request, RecoverPanic(r) PROVE TypeOK'
    BY <1>7 DEF RecoverPanic, Write
<1>8. ASSUME NEW r \in Request, AbortConnection(r) PROVE TypeOK'
    BY <1>8 DEF AbortConnection
<1>9. ASSUME NEW r \in Request, Visit(r) PROVE TypeOK'
    BY <1>9 DEF Visit, Write
<1>10. ASSUME NEW r \in Request, VisitFails(r) PROVE TypeOK'
    BY <1>10 DEF VisitFails
<1>11. ASSUME NEW r \in Request, Record(r) PROVE TypeOK'
    BY <1>11 DEF Record
<1>12. ASSUME NEW r \in Request, NEW o \in Operations, Arrive(r, o) PROVE TypeOK'
    BY <1>12 DEF Arrive, Met
<1>13. ASSUME NEW r \in Request, ClientLeaves(r) PROVE TypeOK'
    BY <1>13 DEF ClientLeaves
<1>14. ASSUME NEW d \in Databases, DatabaseBecomes(d) PROVE TypeOK'
    BY <1>14 DEF DatabaseBecomes, Met
<1>15. CASE UNCHANGED vars
    BY <1>15 DEF vars, perRequest
<1>16. ASSUME NEW r \in Request, ParseForEver(r) PROVE TypeOK'
    BY <1>16 DEF ParseForEver
<1>17. ASSUME NEW r \in Request, Flush(r) PROVE TypeOK'
    BY <1>17 DEF Flush
<1>18. ASSUME NEW r \in Request, WriteTimeoutPasses(r) PROVE TypeOK'
    BY <1>18 DEF WriteTimeoutPasses
<1> QED
    BY <1>1, <1>2, <1>3, <1>4, <1>5, <1>6, <1>7, <1>8, <1>9, <1>10, <1>11, <1>12,
       <1>13, <1>14, <1>15, <1>16, <1>17, <1>18 DEF Next, Serve

-----------------------------------------------------------------------------
(* The invariant of a request *)

LEMMA RequestInit == Init => RequestInv
    BY DEF Init, RequestInv, Inv, StageInv, BodyInv, AnswerInv, TruthInv, NeedsUp,
           Running, Good, DataOps, Refusals

(* What another request does leaves the invariant of a request alone *)
Same(q) ==
    /\ stage'[q] = stage[q] /\ op'[q] = op[q] /\ outcome'[q] = outcome[q]
    /\ reply'[q] = reply[q] /\ wrote'[q] = wrote[q] /\ sent'[q] = sent[q]
    /\ noted'[q] = noted[q] /\ body'[q] = body[q]
    /\ q \in left' <=> q \in left
    /\ q \in late' <=> q \in late
    /\ met'[q] = met[q]

LEMMA OthersKeep ==
    ASSUME NEW q, Same(q), database' = database, Inv(q)
    PROVE  Inv(q)'
<1> USE DEF Same, Inv
<1>1. StageInv(q)'
    BY DEF StageInv, Good
<1>2. BodyInv(q)'
    BY DEF BodyInv
<1>3. AnswerInv(q)'
    BY DEF AnswerInv
<1>4. TruthInv(q)'
    BY DEF TruthInv, NeedsUp, Running
<1> QED
    BY <1>1, <1>2, <1>3, <1>4

LEMMA ServeTouchesOne ==
    ASSUME TypeOK, NEW r \in Request, Serve(r)
    PROVE  database' = database /\ \A q \in Request \ {r} : Same(q)
<1> USE DEF TypeOK, Same, counters, sending
<1>1. CASE RejectParameter(r)
    BY <1>1 DEF RejectParameter, Write
<1>2. CASE EnterMiddlewares(r)
    BY <1>2 DEF EnterMiddlewares
<1>3. CASE RejectBody(r)
    BY <1>3 DEF RejectBody, Write
<1>4. CASE Refuse(r)
    BY <1>4 DEF Refuse
<1>5. CASE RunUseCase(r)
    BY <1>5 DEF RunUseCase
<1>6. CASE ParseForEver(r)
    BY <1>6 DEF ParseForEver
<1>7. CASE PanicInUseCase(r)
    BY <1>7 DEF PanicInUseCase
<1>8. CASE RecoverPanic(r)
    BY <1>8 DEF RecoverPanic, Write
<1>9. CASE AbortConnection(r)
    BY <1>9 DEF AbortConnection
<1>10. CASE Visit(r)
    BY <1>10 DEF Visit, Write
<1>11. CASE VisitFails(r)
    BY <1>11 DEF VisitFails
<1>12. CASE Record(r)
    BY <1>12 DEF Record
<1>13. CASE Flush(r)
    BY <1>13 DEF Flush
<1> QED
    BY <1>1, <1>2, <1>3, <1>4, <1>5, <1>6, <1>7, <1>8, <1>9, <1>10, <1>11, <1>12, <1>13
    DEF Serve

LEMMA ServeKeepsInv ==
    ASSUME TypeOK, RequestInv, NEW r \in Request, Serve(r)
    PROVE  RequestInv'
<1>1. StageInv(r) /\ BodyInv(r) /\ AnswerInv(r) /\ TruthInv(r)
    BY DEF RequestInv, Inv
<1>2. database' = database /\ met' = met /\ left' = left /\ late' = late /\ op' = op
    BY DEF Serve, RejectParameter, EnterMiddlewares, RejectBody, Refuse, RunUseCase,
           ParseForEver, PanicInUseCase, RecoverPanic, AbortConnection, Visit,
           VisitFails, Record, Flush, counters
<1>3. StageInv(r)' /\ BodyInv(r)' /\ AnswerInv(r)' /\ TruthInv(r)'
  <2> USE <1>1, <1>2 DEF TypeOK, counters, sending
  <2>1. CASE RejectParameter(r)
    <3>1. StageInv(r)'
        BY <2>1 DEF RejectParameter, Write, StageInv, Good
    <3>2. BodyInv(r)'
        BY <2>1 DEF RejectParameter, Write, BodyInv, StageInv
    <3>3. AnswerInv(r)'
        BY <2>1 DEF RejectParameter, Write, AnswerInv, StageInv
    <3>4. TruthInv(r)'
        BY <2>1 DEF RejectParameter, Write, TruthInv, NeedsUp, Running, StageInv
    <3> QED
        BY <3>1, <3>2, <3>3, <3>4
  <2>2. CASE EnterMiddlewares(r)
    <3>1. StageInv(r)'
        BY <2>2 DEF EnterMiddlewares, StageInv, Good
    <3>2. BodyInv(r)'
        BY <2>2 DEF EnterMiddlewares, BodyInv, StageInv
    <3>3. AnswerInv(r)'
        BY <2>2 DEF EnterMiddlewares, AnswerInv, StageInv
    <3>4. TruthInv(r)'
        BY <2>2 DEF EnterMiddlewares, TruthInv, NeedsUp, Running, StageInv
    <3> QED
        BY <3>1, <3>2, <3>3, <3>4
  <2>3. CASE RejectBody(r)
    <3>1. StageInv(r)'
        BY <2>3 DEF RejectBody, Write, StageInv, Good
    <3>2. BodyInv(r)'
        BY <2>3 DEF RejectBody, Write, BodyInv, StageInv
    <3>3. AnswerInv(r)'
        BY <2>3 DEF RejectBody, Write, AnswerInv, StageInv
    <3>4. TruthInv(r)'
        BY <2>3 DEF RejectBody, Write, TruthInv, NeedsUp, Running, StageInv
    <3> QED
        BY <3>1, <3>2, <3>3, <3>4
  <2>4. CASE Refuse(r)
    <3>1. reply'[r] \in Refusals(op[r])
        BY <2>4 DEF Refuse
    <3>2. /\ stage[r] = "entered" /\ stage'[r] = "answering"
          /\ UNCHANGED <<outcome, wrote, sent, body, noted>>
        BY <2>4 DEF Refuse
    <3>3. StageInv(r)'
        BY <3>1, <3>2 DEF StageInv, Refusals
    <3>4. BodyInv(r)'
        BY <3>2 DEF BodyInv, StageInv
    <3>5. AnswerInv(r)'
        BY <3>1, <3>2 DEF AnswerInv, StageInv
    <3>6. TruthInv(r)'
        BY <3>2 DEF TruthInv, NeedsUp, Running
    <3> QED
        BY <3>3, <3>4, <3>5, <3>6
  <2>5. CASE RunUseCase(r)
    <3>1. PICK out \in UseCase(r) :
              /\ outcome' = [outcome EXCEPT ![r] = out]
              /\ reply' = [reply EXCEPT ![r] = Answer(op[r], out)]
        BY <2>5 DEF RunUseCase
    <3>2. op[r] \in Operations
        BY <3>1 DEF UseCase, Operations, Probes, DataOps
    <3>3. /\ out \in OutcomesOf(op[r])
          /\ out \in Outcomes \ {"none", "panic"}
          /\ Answer(op[r], out) # 0
        BY <3>1, <3>2, UseCaseTells, ErrorsLeadToErrors
    <3>4. /\ stage[r] = "entered" /\ stage'[r] = "answering"
          /\ outcome'[r] = out /\ reply'[r] = Answer(op[r], out)
          /\ UNCHANGED <<wrote, sent, body, noted>>
        BY <2>5, <3>1 DEF RunUseCase
    <3>5. StageInv(r)'
        BY <3>3, <3>4 DEF StageInv
    <3>6. BodyInv(r)'
        BY <3>4 DEF BodyInv, StageInv
    <3>7. AnswerInv(r)'
        BY <3>3, <3>4 DEF AnswerInv, StageInv
    <3>8. TruthInv(r)'
        BY <3>1, <3>2, <3>4, UseCaseTells DEF TruthInv, NeedsUp, Running, Met
    <3> QED
        BY <3>5, <3>6, <3>7, <3>8
  <2>6. CASE ParseForEver(r)
    <3>1. StageInv(r)'
        BY <2>6 DEF ParseForEver, StageInv, Good
    <3>2. BodyInv(r)'
        BY <2>6 DEF ParseForEver, BodyInv, StageInv
    <3>3. AnswerInv(r)'
        BY <2>6 DEF ParseForEver, AnswerInv, StageInv
    <3>4. TruthInv(r)'
        BY <2>6 DEF ParseForEver, TruthInv, NeedsUp, Running, StageInv
    <3> QED
        BY <3>1, <3>2, <3>3, <3>4
  <2>7. CASE PanicInUseCase(r)
    <3>1. StageInv(r)'
        BY <2>7 DEF PanicInUseCase, StageInv, Good
    <3>2. BodyInv(r)'
        BY <2>7 DEF PanicInUseCase, BodyInv, StageInv
    <3>3. AnswerInv(r)'
        BY <2>7 DEF PanicInUseCase, AnswerInv, StageInv
    <3>4. TruthInv(r)'
        BY <2>7 DEF PanicInUseCase, TruthInv, NeedsUp, Running, StageInv
    <3> QED
        BY <3>1, <3>2, <3>3, <3>4
  <2>8. CASE RecoverPanic(r)
    <3>1. StageInv(r)'
        BY <2>8 DEF RecoverPanic, Write, StageInv, Good
    <3>2. BodyInv(r)'
        BY <2>8 DEF RecoverPanic, Write, BodyInv, StageInv
    <3>3. AnswerInv(r)'
        BY <2>8 DEF RecoverPanic, Write, AnswerInv, StageInv
    <3>4. TruthInv(r)'
        BY <2>8 DEF RecoverPanic, Write, TruthInv, NeedsUp, Running, StageInv
    <3> QED
        BY <3>1, <3>2, <3>3, <3>4
  <2>9. CASE AbortConnection(r)
    <3>1. StageInv(r)'
        BY <2>9 DEF AbortConnection, StageInv, Good
    <3>2. BodyInv(r)'
        BY <2>9 DEF AbortConnection, BodyInv, StageInv
    <3>3. AnswerInv(r)'
        BY <2>9 DEF AbortConnection, AnswerInv, StageInv
    <3>4. TruthInv(r)'
        BY <2>9 DEF AbortConnection, TruthInv, NeedsUp, Running, StageInv
    <3> QED
        BY <3>1, <3>2, <3>3, <3>4
  <2>10. CASE Visit(r)
    <3>1. StageInv(r)'
        BY <2>10 DEF Visit, Write, StageInv, Good, Status
    <3>2. BodyInv(r)'
        BY <2>10 DEF Visit, Write, BodyInv, StageInv
    <3>3. AnswerInv(r)'
        BY <2>10 DEF Visit, Write, AnswerInv, StageInv
    <3>4. TruthInv(r)'
        BY <2>10 DEF Visit, Write, TruthInv, NeedsUp, Running, StageInv
    <3> QED
        BY <3>1, <3>2, <3>3, <3>4
  <2>11. CASE VisitFails(r)
    <3>1. StageInv(r)'
        BY <2>11 DEF VisitFails, StageInv, Good, LongAnswer
    <3>2. BodyInv(r)'
        BY <2>11 DEF VisitFails, BodyInv, StageInv
    <3>3. AnswerInv(r)'
        BY <2>11 DEF VisitFails, AnswerInv, StageInv
    <3>4. TruthInv(r)'
        BY <2>11 DEF VisitFails, TruthInv, NeedsUp, Running, StageInv
    <3> QED
        BY <3>1, <3>2, <3>3, <3>4
  <2>12. CASE Record(r)
    <3>1. StageInv(r)'
        BY <2>12 DEF Record, StageInv, Good
    <3>2. BodyInv(r)'
        BY <2>12 DEF Record, BodyInv, StageInv, Good
    <3>3. AnswerInv(r)'
        BY <2>12 DEF Record, AnswerInv, StageInv
    <3>4. TruthInv(r)'
        BY <2>12 DEF Record, TruthInv, NeedsUp, Running, StageInv
    <3> QED
        BY <3>1, <3>2, <3>3, <3>4
  <2>13. CASE Flush(r)
    <3>1. StageInv(r)'
        BY <2>13 DEF Flush, StageInv, Good
    <3>2. BodyInv(r)'
        BY <2>13 DEF Flush, BodyInv, StageInv
    <3>3. AnswerInv(r)'
        BY <2>13 DEF Flush, AnswerInv, StageInv
    <3>4. TruthInv(r)'
        BY <2>13 DEF Flush, TruthInv, NeedsUp, Running, StageInv
    <3> QED
        BY <3>1, <3>2, <3>3, <3>4
  <2> QED
    BY <2>1, <2>2, <2>3, <2>4, <2>5, <2>6, <2>7, <2>8, <2>9, <2>10, <2>11, <2>12, <2>13
    DEF Serve
<1>4. ASSUME NEW q \in Request \ {r} PROVE Inv(q)'
    BY ServeTouchesOne, OthersKeep DEF RequestInv
<1> QED
    BY <1>3, <1>4 DEF RequestInv, Inv

LEMMA ArriveKeepsInv ==
    ASSUME TypeOK, RequestInv, NEW r \in Request, NEW o \in Operations, Arrive(r, o)
    PROVE  RequestInv'
<1>1. ASSUME NEW q \in Request \ {r} PROVE Inv(q)'
  <2>1. Same(q) /\ database' = database
    BY DEF Arrive, Same, TypeOK, counters, sending
  <2> QED
    BY <2>1, OthersKeep DEF RequestInv
<1>2. Inv(r)'
  <2>1. Inv(r)
    BY DEF RequestInv
  <2> USE <2>1 DEF Arrive, Inv, TypeOK, counters, sending
  <2>2. StageInv(r)'
    BY DEF StageInv, Good
  <2>3. BodyInv(r)'
    BY DEF BodyInv, StageInv
  <2>4. AnswerInv(r)'
    BY DEF AnswerInv, StageInv
  <2>5. TruthInv(r)'
    BY DEF TruthInv, StageInv, NeedsUp, Running, Met
  <2> QED
    BY <2>2, <2>3, <2>4, <2>5
<1> QED
    BY <1>1, <1>2 DEF RequestInv

(* That a client leaves, or that its time is up, only adds excuses *)
LEMMA LeaveKeepsInv ==
    ASSUME RequestInv, NEW r \in Request, ClientLeaves(r) \/ WriteTimeoutPasses(r)
    PROVE  RequestInv'
<1>1. /\ UNCHANGED <<stage, op, outcome, reply, wrote, sent, noted, body, met, database>>
      /\ left \subseteq left' /\ late \subseteq late'
    BY DEF ClientLeaves, WriteTimeoutPasses, sending
<1> SUFFICES ASSUME NEW q \in Request, Inv(q) PROVE Inv(q)'
    BY DEF RequestInv
<1>2. StageInv(q)' /\ AnswerInv(q)'
    BY <1>1 DEF Inv, StageInv, AnswerInv, Good
<1>3. BodyInv(q)'
    BY <1>1 DEF Inv, BodyInv
<1>4. TruthInv(q)'
    BY <1>1 DEF Inv, TruthInv, NeedsUp, Running
<1> QED
    BY <1>2, <1>3, <1>4 DEF Inv

LEMMA DatabaseKeepsInv ==
    ASSUME RequestInv, NEW d \in Databases, DatabaseBecomes(d)
    PROVE  RequestInv'
<1> SUFFICES ASSUME NEW r \in Request, Inv(r) PROVE Inv(r)'
    BY DEF RequestInv
<1>1. /\ database' = d
      /\ UNCHANGED <<stage, op, outcome, reply, wrote, sent, noted, body, left, late>>
    BY DEF DatabaseBecomes, sending
<1>2. met'[r] = IF Running(r) THEN met[r] \cup ({d} \cap Met) ELSE met[r]
    BY DEF DatabaseBecomes
<1>3. StageInv(r)' /\ AnswerInv(r)'
    BY <1>1 DEF Inv, StageInv, AnswerInv, Good
<1>4. BodyInv(r)'
    BY <1>1 DEF Inv, BodyInv
<1>5. TruthInv(r)'
    BY <1>1, <1>2 DEF Inv, TruthInv, NeedsUp, Running, Met
<1> QED
    BY <1>3, <1>4, <1>5 DEF Inv

LEMMA RequestNext == TypeOK /\ RequestInv /\ [Next]_vars => RequestInv'
<1> SUFFICES ASSUME TypeOK, RequestInv, [Next]_vars PROVE RequestInv'
    OBVIOUS
<1>1. CASE UNCHANGED vars
  <2> SUFFICES ASSUME NEW r \in Request, Inv(r) PROVE Inv(r)'
    BY DEF RequestInv
  <2>1. Same(r) /\ database' = database
    BY <1>1 DEF vars, perRequest, Same
  <2> QED
    BY <2>1, OthersKeep
<1> QED
    BY <1>1, ServeKeepsInv, ArriveKeepsInv, LeaveKeepsInv, DatabaseKeepsInv DEF Next

-----------------------------------------------------------------------------
(* The counters *)

LEMMA CountGrows ==
    ASSUME NEW S \in SUBSET Request, NEW r \in Request, r \notin S
    PROVE  Cardinality(S \cup {r}) = Cardinality(S) + 1
    BY HttpServerAssumption, FS_Subset, FS_AddElement

(* A step that records nothing, ends no use case and leaves what is         *)
(* recorded as it was leaves the counts right.                              *)
LEMMA CountsStay ==
    ASSUME Totals, UNCHANGED counters,
           \A r \in Request : /\ Recorded(r)' <=> Recorded(r)
                              /\ Recorded(r) => (Good(r)' <=> Good(r))
                              /\ LedToError(r)' <=> LedToError(r)
    PROVE  Totals'
<1>1. GoodOnes' = GoodOnes /\ BadOnes' = BadOnes /\ ErrorOnes' = ErrorOnes
    BY DEF GoodOnes, BadOnes, ErrorOnes
<1> QED
    BY <1>1 DEF counters, Totals, GoodOnes, BadOnes, ErrorOnes

LEMMA CountsInit == Init => Totals
<1> SUFFICES ASSUME Init PROVE Totals
    OBVIOUS
<1>1. GoodOnes = {} /\ BadOnes = {} /\ ErrorOnes = {}
    BY DEF Init, GoodOnes, BadOnes, ErrorOnes, Recorded, LedToError
<1> QED
    BY <1>1, FS_EmptySet DEF Init, Labels, Totals

(* Steps of the server that count nothing *)
LEMMA QuietKeepsCounts ==
    ASSUME TypeOK, RequestInv, Totals, NEW r \in Request,
           \/ RejectParameter(r) \/ EnterMiddlewares(r) \/ RejectBody(r) \/ Refuse(r)
           \/ ParseForEver(r) \/ RecoverPanic(r) \/ AbortConnection(r)
           \/ Visit(r) \/ VisitFails(r)
    PROVE  Totals'
<1> USE DEF RejectParameter, EnterMiddlewares, RejectBody, Refuse, ParseForEver,
            RecoverPanic, AbortConnection, Visit, VisitFails
<1>1. Serve(r) /\ UNCHANGED counters /\ StageInv(r)
    BY DEF Serve, counters, RequestInv, Inv
<1>2. ~Recorded(r) /\ ~Recorded(r)' /\ (LedToError(r)' <=> LedToError(r))
    BY <1>1 DEF Recorded, LedToError, StageInv, TypeOK
<1>3. ASSUME NEW q \in Request \ {r}
      PROVE  /\ Recorded(q)' <=> Recorded(q)
             /\ Good(q)' <=> Good(q)
             /\ LedToError(q)' <=> LedToError(q)
    BY <1>1, ServeTouchesOne DEF Same, Recorded, Good, LedToError
<1> QED
    BY <1>1, <1>2, <1>3, CountsStay

(* What becomes of an answer behind the middlewares is not counted again *)
LEMMA FlushKeepsCounts ==
    ASSUME TypeOK, RequestInv, Totals, NEW r \in Request, Flush(r)
    PROVE  Totals'
<1>1. Serve(r) /\ UNCHANGED counters
    BY DEF Serve, Flush, counters
<1>2. /\ Recorded(r)' <=> Recorded(r)
      /\ Good(r)' <=> Good(r)
      /\ LedToError(r)' <=> LedToError(r)
    BY DEF Flush, Recorded, Good, LedToError, TypeOK
<1>3. ASSUME NEW q \in Request \ {r}
      PROVE  /\ Recorded(q)' <=> Recorded(q)
             /\ Good(q)' <=> Good(q)
             /\ LedToError(q)' <=> LedToError(q)
    BY <1>1, ServeTouchesOne DEF Same, Recorded, Good, LedToError
<1> QED
    BY <1>1, <1>2, <1>3, CountsStay

LEMMA RecordKeepsCounts ==
    ASSUME TypeOK, RequestInv, Totals, NEW r \in Request, Record(r)
    PROVE  Totals'
<1>1. StageInv(r)
    BY DEF RequestInv, Inv
<1>2. /\ UNCHANGED <<op, outcome, reply, wrote, noted, body, useCases>>
      /\ stage[r] = "written" /\ stage'[r] = "returned"
      /\ \A q \in Request \ {r} : stage'[q] = stage[q]
    BY DEF Record, TypeOK, sending
<1>3. ~Recorded(r) /\ Recorded(r)' /\ (Good(r)' <=> Good(r)) /\ (noted[r] >= 400 <=> ~Good(r))
    BY <1>1, <1>2 DEF Recorded, Good, StageInv
<1>4. ErrorOnes' = ErrorOnes
    BY <1>2 DEF ErrorOnes, LedToError
<1>5. \A q \in Request \ {r} : (Recorded(q)' <=> Recorded(q)) /\ (Good(q)' <=> Good(q))
    BY <1>2 DEF Recorded, Good
<1>6. r \notin GoodOnes /\ r \notin BadOnes
    BY <1>3 DEF GoodOnes, BadOnes
<1>7. GoodOnes \in SUBSET Request /\ BadOnes \in SUBSET Request
    BY DEF GoodOnes, BadOnes
<1>8. CASE Good(r)
  <2>1. GoodOnes' = GoodOnes \cup {r} /\ BadOnes' = BadOnes
    BY <1>3, <1>5, <1>8 DEF GoodOnes, BadOnes
  <2>2. requests' = [requests EXCEPT !["success"] = @ + 1]
    BY <1>3, <1>8 DEF Record
  <2>3. requests'["success"] = requests["success"] + 1 /\ requests'["error"] = requests["error"]
    BY <2>2 DEF TypeOK, Labels
  <2>4. /\ requests'["success"] = Cardinality(GoodOnes')
        /\ requests'["error"] = Cardinality(BadOnes')
        /\ useCases'["error"] = Cardinality(ErrorOnes')
    BY <1>2, <1>4, <1>6, <1>7, <2>1, <2>3, CountGrows DEF Totals
  <2> QED
    BY <2>4 DEF Totals, GoodOnes, BadOnes, ErrorOnes
<1>9. CASE ~Good(r)
  <2>1. GoodOnes' = GoodOnes /\ BadOnes' = BadOnes \cup {r}
    BY <1>3, <1>5, <1>9 DEF GoodOnes, BadOnes
  <2>2. requests' = [requests EXCEPT !["error"] = @ + 1]
    BY <1>3, <1>9 DEF Record
  <2>3. requests'["success"] = requests["success"] /\ requests'["error"] = requests["error"] + 1
    BY <2>2 DEF TypeOK, Labels
  <2>4. /\ requests'["success"] = Cardinality(GoodOnes')
        /\ requests'["error"] = Cardinality(BadOnes')
        /\ useCases'["error"] = Cardinality(ErrorOnes')
    BY <1>2, <1>4, <1>6, <1>7, <2>1, <2>3, CountGrows DEF Totals
  <2> QED
    BY <2>4 DEF Totals, GoodOnes, BadOnes, ErrorOnes
<1> QED
    BY <1>8, <1>9

(* The end of a use case, by a return or a panic *)
LEMMA UseCaseKeepsCounts ==
    ASSUME TypeOK, RequestInv, Totals, NEW r \in Request,
           RunUseCase(r) \/ PanicInUseCase(r)
    PROVE  Totals'
<1>1. PICK out : /\ outcome' = [outcome EXCEPT ![r] = out]
                 /\ CountUseCase(out)
                 /\ \/ /\ out \in UseCase(r)
                       /\ reply' = [reply EXCEPT ![r] = Answer(op[r], out)]
                    \/ out = "panic" /\ reply' = reply
    BY DEF RunUseCase, PanicInUseCase
<1>2. /\ stage[r] = "entered" /\ stage'[r] \in {"answering", "panicked"}
      /\ UNCHANGED <<op, wrote, noted, body, requests>>
      /\ \A q \in Request \ {r} : stage'[q] = stage[q]
      /\ op[r] \in Operations
    BY DEF RunUseCase, PanicInUseCase, TypeOK, UseCase, DataOps, Probes, Stubs,
           Operations, sending
<1>3. GoodOnes' = GoodOnes /\ BadOnes' = BadOnes
  <2>1. ~Recorded(r) /\ ~Recorded(r)'
    BY <1>2 DEF Recorded
  <2>2. \A q \in Request \ {r} : (Recorded(q)' <=> Recorded(q)) /\ (Good(q)' <=> Good(q))
    BY <1>1, <1>2 DEF Recorded, Good, TypeOK
  <2> QED
    BY <2>1, <2>2 DEF GoodOnes, BadOnes
<1>4. \A q \in Request \ {r} : LedToError(q)' <=> LedToError(q)
    BY <1>1, <1>2 DEF LedToError, TypeOK
<1>5. ~LedToError(r) /\ reply[r] = 0
    BY <1>2 DEF RequestInv, Inv, StageInv, LedToError
<1>6. outcome'[r] = out
    BY <1>1 DEF TypeOK
<1>7. LedToError(r)' <=> out \in Errors
  <2>1. CASE out = "panic"
    <3>1. reply'[r] = 0
        BY <1>1, <1>2, <1>5, <2>1, UseCaseTells, ErrorsLeadToErrors
    <3> QED
        BY <2>1, <3>1 DEF LedToError, Errors
  <2>2. CASE out # "panic"
    <3>1. out \in UseCase(r) /\ reply'[r] = Answer(op[r], out)
        BY <1>1, <2>2 DEF TypeOK
    <3>2. out \in OutcomesOf(op[r])
        BY <1>2, <3>1, UseCaseTells
    <3> QED
        BY <1>2, <1>6, <3>1, <3>2, ErrorsLeadToErrors DEF LedToError
  <2> QED
    BY <2>1, <2>2
<1>8. ErrorOnes \in SUBSET Request /\ r \notin ErrorOnes
    BY <1>5 DEF ErrorOnes
<1>9. useCases'["error"] = Cardinality(ErrorOnes')
  <2>1. CASE out \in Errors
    <3>1. ErrorOnes' = ErrorOnes \cup {r}
        BY <1>4, <1>7, <2>1 DEF ErrorOnes
    <3>2. useCases'["error"] = useCases["error"] + 1
        BY <1>1, <2>1 DEF CountUseCase, TypeOK, Labels
    <3> QED
        BY <1>8, <3>1, <3>2, CountGrows DEF Totals
  <2>2. CASE out \notin Errors
    <3>1. ErrorOnes' = ErrorOnes
        BY <1>4, <1>5, <1>7, <2>2 DEF ErrorOnes
    <3>2. useCases'["error"] = useCases["error"]
        BY <1>1, <2>2 DEF CountUseCase, TypeOK, Labels
    <3> QED
        BY <3>1, <3>2 DEF Totals
  <2> QED
    BY <2>1, <2>2
<1>10. requests'["success"] = Cardinality(GoodOnes') /\ requests'["error"] = Cardinality(BadOnes')
    BY <1>2, <1>3 DEF Totals
<1> QED
    BY <1>9, <1>10 DEF Totals, GoodOnes, BadOnes, ErrorOnes

LEMMA CountsNext ==
    TypeOK /\ RequestInv /\ Totals /\ [Next]_vars => Totals'
<1> SUFFICES ASSUME TypeOK, RequestInv, Totals, [Next]_vars
             PROVE  Totals'
    OBVIOUS
<1>1. ASSUME NEW r \in Request, Serve(r) PROVE Totals'
    BY <1>1, QuietKeepsCounts, FlushKeepsCounts, RecordKeepsCounts, UseCaseKeepsCounts
    DEF Serve
<1>2. ASSUME NEW r \in Request, NEW o \in Operations, Arrive(r, o)
      PROVE  Totals'
    BY <1>2, CountsStay
    DEF Arrive, counters, sending, Recorded, Good, LedToError, TypeOK, RequestInv, Inv,
        StageInv
<1>3. ASSUME NEW r \in Request, ClientLeaves(r) \/ WriteTimeoutPasses(r) PROVE Totals'
    BY <1>3, CountsStay
    DEF ClientLeaves, WriteTimeoutPasses, counters, sending, Recorded, Good, LedToError
<1>4. ASSUME NEW d \in Databases, DatabaseBecomes(d) PROVE Totals'
    BY <1>4, CountsStay DEF DatabaseBecomes, counters, sending, Recorded, Good,
                                LedToError
<1>5. CASE UNCHANGED vars
    BY <1>5, CountsStay DEF vars, perRequest, counters, Recorded, Good,
                                LedToError
<1> QED
    BY <1>1, <1>2, <1>3, <1>4, <1>5 DEF Next

-----------------------------------------------------------------------------
(* Theorems *)

THEOREM Invariance == Spec => []IInv
<1>1. Init => IInv
    BY TypeInit, RequestInit, CountsInit DEF IInv
<1>2. IInv /\ [Next]_vars => IInv'
    BY TypeNext, RequestNext, CountsNext DEF IInv
<1> QED
    BY <1>1, <1>2, PTL DEF Spec

(* Every variable stays in its type, whatever the requests and the database do *)
THEOREM TypeCorrect == Spec => []TypeOK
<1>1. IInv => TypeOK
    BY DEF IInv
<1> QED
    BY <1>1, Invariance, PTL

(* What the invariant says of an answer implies that it is true *)
LEMMA Truthful ==
    ASSUME TypeOK, NEW r \in Request, Inv(r),
           outcome[r] # "panic"
    PROVE  /\ SaysUp(r) => "up" \in met[r]
           /\ SaysDown(r) => "down" \in met[r] \/ r \in left
<1>1. /\ op[r] \in Operations \cup {"none"}
      /\ AnswerInv(r) /\ TruthInv(r) /\ sent[r] \in {0, wrote[r]}
    BY DEF TypeOK, Inv, BodyInv
<1>2. CASE outcome[r] = "none"
  <2>1. sent[r] \in {0, 400, 413, 500}
    BY <1>1, <1>2 DEF AnswerInv, Refusals
  <2> QED
    BY <1>1, <1>2, <2>1
    DEF SaysUp, SaysDown, AnswerInv, DataOps, Probes, Stubs, Operations
<1>3. CASE outcome[r] # "none"
  <2>1. /\ outcome[r] \in OutcomesOf(op[r])
        /\ reply[r] = Answer(op[r], outcome[r])
        /\ sent[r] \in {0, reply[r]}
    BY <1>1, <1>3 DEF AnswerInv
  <2>2. CASE op[r] = "GetHealth"
    BY <1>1, <2>1, <2>2 DEF OutcomesOf, Answer, AnswerHealth, SaysUp, SaysDown, TruthInv,
                      NeedsUp, DataOps
  <2>3. CASE op[r] = "GetReadiness"
    BY <1>1, <2>1, <2>3 DEF OutcomesOf, Answer, AnswerProbe, SaysUp, SaysDown, TruthInv,
                      NeedsUp, DataOps
  <2>4. CASE op[r] = "GetLiveness"
    BY <1>1, <2>1, <2>4 DEF OutcomesOf, Answer, AnswerProbe, SaysUp, SaysDown, DataOps
  <2>5. CASE op[r] = "IngestFile"
    BY <1>1, <2>1, <2>5 DEF OutcomesOf, Answer, AnswerIngest, SaysUp, SaysDown, TruthInv,
                      NeedsUp, DataOps
  <2>6. CASE op[r] \in {"GetInterchange", "GetRawFile"}
    BY <1>1, <2>1, <2>6 DEF OutcomesOf, Answer, AnswerById, SaysUp, SaysDown, TruthInv,
                      NeedsUp, DataOps
  <2>7. CASE op[r] = "ListMessages"
    BY <1>1, <2>1, <2>7 DEF OutcomesOf, Answer, AnswerList, SaysUp, SaysDown, TruthInv,
                      NeedsUp, DataOps
  <2> QED
    BY <1>1, <2>1, <2>2, <2>3, <2>4, <2>5, <2>6, <2>7
    DEF Operations, Probes, DataOps, Stubs, OutcomesOf
<1> QED
    BY <1>2, <1>3

(* No client is told of data, of an absence, of readiness or of health that *)
(* no answer of the database stands for, nor of an outage it did not have.  *)
THEOREM Truth == Spec => []AnswersTellTheTruth
<1>1. IInv => AnswersTellTheTruth
    BY Truthful DEF IInv, RequestInv, AnswersTellTheTruth
<1> QED
    BY <1>1, Invariance, PTL

(* What is counted of an answer fits what its client gets of it *)
LEMMA Arrives ==
    ASSUME NEW r \in Request, Inv(r), Recorded(r), stage[r] = "done"
    PROVE  ArrivesAsCounted(r)
    BY DEF Inv, BodyInv, Recorded, ArrivesAsCounted

(* For any number of requests the counters agree with what the handlers     *)
(* wrote, and that with what arrived, where the client waited and the write *)
(* timeout had not passed.                                                  *)
THEOREM Counting == Spec => []CountersMatchAnswers
<1>1. IInv => CountersMatchAnswers
    BY Arrives DEF IInv, RequestInv, Totals, GoodOnes, BadOnes, ErrorOnes,
                   CountersMatchAnswers
<1> QED
    BY <1>1, Invariance, PTL
===============================================================================
