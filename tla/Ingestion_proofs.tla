--------------------------- MODULE Ingestion_proofs ---------------------------
(***************************************************************************)
(* Proofs about module Ingestion, for every set of requests and contents,  *)
(* every pool size and every combination of faults.                        *)
(***************************************************************************)
EXTENDS Ingestion, FiniteSetTheorems, TLAPS

-------------------------------------------------------------------------------
(* Types *)

(* The upsert loop never runs past its list: after identifier i it goes     *)
(* round only if there is an identifier i (ingestion_service.go:281-301).   *)
LEMMA AfterUpsertsStays ==
    ASSUME NEW r \in Request, NEW i
    PROVE  /\ AfterUpserts(r, i) \in {"insertSub", "bulk", "commit"}
           /\ AfterUpserts(r, i) = "insertSub" <=> i <= Len(SubsOf[upload[r]])
           /\ AfterUpserts(r, i) = "commit" => MsgsOf[upload[r]] = {}
    BY DEF AfterUpserts

(* Every table, every field of every request and the topic hold values of   *)
(* their types, and the loop index stays within the list while it is used.  *)
THEOREM TypeCorrect == Spec => []TypeOK
<1>1. Init => TypeOK
    BY IngestionAssumption DEF Init, TypeOK, EmptyTables, TablesTypeOK, Stages,
       Working, Pending, Results
<1>2. TypeOK /\ [Next]_vars => TypeOK'
    <2> SUFFICES ASSUME TypeOK, [Next]_vars
                 PROVE  TypeOK'
        OBVIOUS
    <2> USE DEF TypeOK, TablesTypeOK, tables, local, Goto
    <2>1. CASE UNCHANGED vars
        BY <2>1 DEF vars
    <2>2. ASSUME NEW r \in Request, Reject(r)
          PROVE  TypeOK'
        BY <2>2 DEF Reject, Return, Rejection, Pending, Results, Stages, Working
    <2>3. ASSUME NEW r \in Request, Accept(r)
          PROVE  TypeOK'
        BY <2>3 DEF Accept, Stages, Working
    <2>4. ASSUME NEW r \in Request, LookUp(r)
          PROVE  TypeOK'
        <3>1. CASE HashTaken(upload[r]) /\ Return(r, Existing(r, "none"))
            <4>1. RowOf(upload[r]) \in InterchangeRow
                BY <3>1 DEF RowOf, HashTaken
            <4>2. Existing(r, "none") \in Results
                BY <4>1 DEF Existing, InterchangeRow, Results
            <4>3. QED
                BY <2>4, <3>1, <4>2 DEF LookUp, Return, Stages, Working
        <3>2. CASE UNCHANGED result
            BY <2>4, <3>2 DEF LookUp, AfterParse, Return, Stages, Working
        <3>3. QED
            BY <2>4, <3>1, <3>2 DEF LookUp, AfterParse
    <2>5. ASSUME NEW r \in Request, StoreFailed(r)
          PROVE  TypeOK'
        BY <2>5 DEF StoreFailed, InsertInterchange, InterchangeRow, Status,
           Stages, Working
    <2>6. ASSUME NEW r \in Request, PublishFailed(r)
          PROVE  TypeOK'
        BY <2>6 DEF PublishFailed, Deliver, Events, Stages, Working
    <2>7. ASSUME NEW r \in Request, Begin(r)
          PROVE  TypeOK'
        BY <2>7 DEF Begin, Stages, Working
    <2>8. ASSUME NEW r \in Request, Store(r)
          PROVE  TypeOK'
        <3>1. TablesTypeOK'
            BY <2>8 DEF Store, Write, InsertInterchange, InterchangeRow, Status
        <3>2. \E stage \in {"version", "recover", "abort"} : Goto(r, stage)
            BY <2>8 DEF Store, Write
        <3>3. QED
            BY <2>8, <3>1, <3>2 DEF Store, Stages, Working
    <2>9. ASSUME NEW r \in Request, Recover(r)
          PROVE  TypeOK'
        <3>1. CASE UNCHANGED result
            BY <2>9, <3>1 DEF Recover, Return, Release, Stages, Working
        <3>2. CASE HashTaken(upload[r]) /\ Return(r, Existing(r, "duplicate"))
            <4>1. RowOf(upload[r]) \in InterchangeRow
                BY <3>2 DEF RowOf, HashTaken
            <4>2. Existing(r, "duplicate") \in Results
                BY <4>1 DEF Existing, InterchangeRow, Results
            <4>3. QED
                BY <2>9, <3>2, <4>2 DEF Recover, Return, Release, Stages, Working
        <3>3. QED
            BY <2>9, <3>1, <3>2 DEF Recover
    <2>10. ASSUME NEW r \in Request, CreateVersion(r)
          PROVE  TypeOK'
        <3>1. TablesTypeOK'
            BY <2>10 DEF CreateVersion, Write, InsertVersion
        <3>2. \E stage \in {AfterUpserts(r, 1), "abort"} : Goto(r, stage)
            BY <2>10 DEF CreateVersion, Write
        <3>3. pc' \in [Request -> Stages]
            BY <3>2, AfterUpsertsStays DEF Stages, Working
        <3>4. ASSUME NEW q \in Request, pc'[q] \in {"insertSub", "selectSub"}
              PROVE  index'[q] <= Len(SubsOf[upload'[q]])
            <4>1. CASE q = r
                BY <2>10, <3>2, <3>4, <4>1, AfterUpsertsStays
                   DEF CreateVersion, EnterLoop
            <4>2. CASE q # r
                BY <2>10, <3>2, <3>4, <4>2 DEF CreateVersion, EnterLoop
            <4>3. QED
                BY <4>1, <4>2
        <3>5. /\ index' \in [Request -> Nat \ {0}]
              /\ resolved' \in [Request -> SUBSET SubscriptionRow]
            BY <2>10 DEF CreateVersion, EnterLoop
        <3>6. QED
            BY <2>10, <3>1, <3>3, <3>4, <3>5 DEF CreateVersion
    <2>11. ASSUME NEW r \in Request, UpsertInsert(r)
          PROVE  TypeOK'
        <3>1. Identifier(r) \in Sub
            BY <2>11, IngestionAssumption DEF UpsertInsert, Identifier
        <3>2. Upserted(Identifier(r), r) \subseteq SubscriptionRow
            BY <3>1 DEF Upserted, SubscriptionRow
        <3>3. TablesTypeOK'
            BY <2>11, <3>2 DEF UpsertInsert, Write, InsertSubscription
        <3>4. \E stage \in {"selectSub", "abort"} : Goto(r, stage)
            BY <2>11 DEF UpsertInsert, Write
        <3>5. QED
            BY <2>11, <3>3, <3>4 DEF UpsertInsert, Stages, Working
    <2>12. ASSUME NEW r \in Request, UpsertSelect(r)
          PROVE  TypeOK'
        <3>1. Selected(r) \subseteq SubscriptionRow
            BY DEF Selected, Canonical
        <3>2. CASE Goto(r, "abort") /\ UNCHANGED local
            BY <2>12, <3>2 DEF UpsertSelect, Stages, Working
        <3>3. CASE /\ resolved' = [resolved EXCEPT ![r] = @ \cup Selected(r)]
                   /\ index' = [index EXCEPT ![r] = @ + 1]
                   /\ Goto(r, AfterUpserts(r, index[r] + 1))
            <4>1. pc' \in [Request -> Stages]
                BY <3>3, AfterUpsertsStays DEF Stages, Working
            <4>2. ASSUME NEW q \in Request, pc'[q] \in {"insertSub", "selectSub"}
                  PROVE  index'[q] <= Len(SubsOf[upload'[q]])
                <5>1. CASE q = r
                    BY <2>12, <3>3, <4>2, <5>1, AfterUpsertsStays DEF UpsertSelect
                <5>2. CASE q # r
                    BY <2>12, <3>3, <4>2, <5>2 DEF UpsertSelect
                <5>3. QED
                    BY <5>1, <5>2
            <4>3. QED
                BY <2>12, <3>1, <3>3, <4>1, <4>2 DEF UpsertSelect
        <3>4. QED
            BY <2>12, <3>2, <3>3 DEF UpsertSelect
    <2>13. ASSUME NEW r \in Request, BulkCreate(r)
          PROVE  TypeOK'
        <3>1. \A s : Linked(r, s) \in SubscriptionRow \cup {NullSubscription}
            BY DEF Linked
        <3>2. MessageRows(r) \subseteq MessageRow
            BY <3>1, IngestionAssumption DEF MessageRows, MessageRow, ParsedMessage
        <3>3. QED
            BY <2>13, <3>2 DEF BulkCreate, Write, InsertMessages, Stages, Working
    <2>14. ASSUME NEW r \in Request, Commit(r)
          PROVE  TypeOK'
        BY <2>14 DEF Commit, Release, Stages, Working
    <2>15. ASSUME NEW r \in Request, PublishIngested(r)
          PROVE  TypeOK'
        BY <2>15 DEF PublishIngested, Deliver, Events, Stages, Working
    <2>16. ASSUME NEW r \in Request, Reply(r)
          PROVE  TypeOK'
        BY <2>16 DEF Reply, Return, Own, Results, Status, Stages, Working
    <2>17. ASSUME NEW r \in Request, Abort(r)
          PROVE  TypeOK'
        BY <2>17 DEF Abort, Return, Release, Pending, Results, Stages, Working
    <2>18. ASSUME NEW r \in Request, Disconnect(r)
          PROVE  TypeOK'
        BY <2>18 DEF Disconnect
    <2>19. CASE Crash
        BY <2>19 DEF Crash, Stages, Working
    <2>20. QED
        BY <2>1, <2>2, <2>3, <2>4, <2>5, <2>6, <2>7, <2>8, <2>9, <2>10, <2>11,
           <2>12, <2>13, <2>14, <2>15, <2>16, <2>17, <2>18, <2>19
           DEF Next, Serve
<1>3. QED
    BY <1>1, <1>2, PTL DEF Spec

-------------------------------------------------------------------------------
(* Rows of interchanges and where the requests that wrote them are *)

\* the row persistAndPublish writes for request r
CompletedRow(r) == [id |-> r, hash |-> upload[r], status |-> "completed"]

BeforeRow == {"idle", "lookup", "parse", "storeFailed", "begin", "store", "recover"}

WithVersion == {"insertSub", "selectSub", "bulk", "commit", "publish"}

WithRow == WithVersion \cup {"version"}

(* A row carries the content of the request it is named after, and is       *)
(* completed exactly when that content parses.                              *)
RowsMatchUploads ==
    \A row \in interchanges :
        /\ row.hash = upload[row.id]
        /\ row.status = "completed" <=> Shape[row.hash] = "wellformed"

(* What parsed is persisted, what did not is recorded as failed. *)
ShapeDecidesPath ==
    \A r \in Request :
        /\ pc[r] \in {"begin", "store", "recover"} \cup WithRow =>
               Shape[upload[r]] = "wellformed"
        /\ pc[r] \in {"storeFailed", "publishFailed"} =>
               Shape[upload[r]] = "malformed"
        /\ pc[r] = "lookup" =>
               Shape[upload[r]] \in {"malformed", "wellformed", "endless"}
        /\ pc[r] = "reply" => Shape[upload[r]] \in {"malformed", "wellformed"}

RowsFollowStages ==
    \A r \in Request :
        /\ pc[r] \in BeforeRow => \A row \in interchanges : row.id # r
        /\ pc[r] \in WithRow => CompletedRow(r) \in interchanges
        /\ pc[r] \in WithVersion => r \in versions

VersionsHaveRows == \A v \in versions : CompletedRow(v) \in interchanges

RowInv ==
    /\ OneInterchangePerContent
    /\ RowsMatchUploads
    /\ ShapeDecidesPath
    /\ RowsFollowStages
    /\ VersionsHaveRows

(* Every step keeps the rows of interchanges in line with the stages of the *)
(* requests that wrote them.                                                *)
LEMMA RowInvStep == TypeOK /\ RowInv /\ [Next]_vars => RowInv'
<1> SUFFICES ASSUME TypeOK, RowInv, [Next]_vars
             PROVE  RowInv'
    OBVIOUS
<1> USE DEF RowInv, TypeOK, TablesTypeOK, tables, local, Goto, CompletedRow,
        OneInterchangePerContent, RowsMatchUploads, ShapeDecidesPath,
        RowsFollowStages, VersionsHaveRows, BeforeRow, WithRow, WithVersion
<1>1. CASE UNCHANGED vars
    BY <1>1 DEF vars
<1>2. ASSUME NEW r \in Request, Reject(r)
      PROVE  RowInv'
    BY <1>2 DEF Reject, Return
<1>3. ASSUME NEW r \in Request, Accept(r)
      PROVE  RowInv'
    BY <1>3 DEF Accept
<1>4. ASSUME NEW r \in Request, LookUp(r)
      PROVE  RowInv'
    BY <1>4 DEF LookUp, AfterParse, Return
<1>5. ASSUME NEW r \in Request, StoreFailed(r)
      PROVE  RowInv'
    BY <1>5 DEF StoreFailed, InsertInterchange, HashTaken
<1>6. ASSUME NEW r \in Request, PublishFailed(r)
      PROVE  RowInv'
    BY <1>6 DEF PublishFailed
<1>7. ASSUME NEW r \in Request, Begin(r)
      PROVE  RowInv'
    BY <1>7 DEF Begin
<1>8. ASSUME NEW r \in Request, Store(r)
      PROVE  RowInv'
    <2>1. CASE UNCHANGED tables
        BY <1>8, <2>1 DEF Store, Write, InsertInterchange
    <2>2. CASE InsertInterchange(r, upload[r], "completed")
        <3>1. \E stage \in {"version", "abort"} : Goto(r, stage)
            BY <1>8, <2>2 DEF Store, Write, InsertInterchange, HashTaken
        <3>2. UNCHANGED upload /\ pc[r] = "store"
            BY <1>8 DEF Store
        <3>3. QED
            BY <2>2, <3>1, <3>2 DEF InsertInterchange, HashTaken
    <2>3. QED
        BY <1>8, <2>1, <2>2 DEF Store, Write
<1>9. ASSUME NEW r \in Request, Recover(r)
      PROVE  RowInv'
    <2>1. PICK stage \in {"answered", "abort"} : pc' = [pc EXCEPT ![r] = stage]
        BY <1>9 DEF Recover, Return
    <2>2. UNCHANGED <<interchanges, versions, upload>>
        BY <1>9 DEF Recover
    <2>3. QED
        BY <2>1, <2>2
<1>10. ASSUME NEW r \in Request, CreateVersion(r)
      PROVE  RowInv'
    <2>1. pc[r] = "version" /\ UNCHANGED <<interchanges, upload>>
        BY <1>10 DEF CreateVersion, Write, InsertVersion
    <2>2. CASE /\ versions' = versions \cup {r}
               /\ \E stage \in {"insertSub", "bulk", "commit", "abort"} : Goto(r, stage)
        BY <2>1, <2>2
    <2>3. CASE UNCHANGED versions /\ Goto(r, "abort")
        BY <2>1, <2>3
    <2>4. QED
        BY <1>10, <2>2, <2>3, AfterUpsertsStays DEF CreateVersion, Write, InsertVersion
<1>11. ASSUME NEW r \in Request, UpsertInsert(r)
      PROVE  RowInv'
    <2>1. \E stage \in {"selectSub", "abort"} : Goto(r, stage)
        BY <1>11 DEF UpsertInsert, Write
    <2>2. pc[r] = "insertSub" /\ UNCHANGED <<interchanges, versions, upload>>
        BY <1>11 DEF UpsertInsert, Write, InsertSubscription
    <2>3. QED
        BY <2>1, <2>2
<1>12. ASSUME NEW r \in Request, UpsertSelect(r)
      PROVE  RowInv'
    <2>1. \E stage \in {"insertSub", "bulk", "commit", "abort"} : Goto(r, stage)
        BY <1>12, AfterUpsertsStays DEF UpsertSelect
    <2>2. pc[r] = "selectSub" /\ UNCHANGED <<tables, upload>>
        BY <1>12 DEF UpsertSelect
    <2>3. QED
        BY <2>1, <2>2
<1>13. ASSUME NEW r \in Request, BulkCreate(r)
      PROVE  RowInv'
    <2>1. \E stage \in {"commit", "abort"} : Goto(r, stage)
        BY <1>13 DEF BulkCreate, Write
    <2>2. pc[r] = "bulk" /\ UNCHANGED <<interchanges, versions, upload>>
        BY <1>13 DEF BulkCreate, Write, InsertMessages
    <2>3. QED
        BY <2>1, <2>2
<1>14. ASSUME NEW r \in Request, Commit(r)
      PROVE  RowInv'
    BY <1>14 DEF Commit
<1>15. ASSUME NEW r \in Request, PublishIngested(r)
      PROVE  RowInv'
    BY <1>15 DEF PublishIngested
<1>16. ASSUME NEW r \in Request, Reply(r) \/ Abort(r)
      PROVE  RowInv'
    BY <1>16 DEF Reply, Abort, Return
<1>17. ASSUME NEW r \in Request, Disconnect(r)
      PROVE  RowInv'
    BY <1>17 DEF Disconnect
<1>18. CASE Crash
    BY <1>18 DEF Crash
<1>19. QED
    BY <1>1, <1>2, <1>3, <1>4, <1>5, <1>6, <1>7, <1>8, <1>9, <1>10, <1>11,
       <1>12, <1>13, <1>14, <1>15, <1>16, <1>17, <1>18 DEF Next, Serve

(* Nothing is stored and nobody has started when the service does.          *)
LEMMA InitRowInv == Init => RowInv
    BY DEF Init, EmptyTables, RowInv, OneInterchangePerContent,
       RowsMatchUploads, ShapeDecidesPath, RowsFollowStages, VersionsHaveRows,
       BeforeRow, WithRow, WithVersion

(* One content has one interchange, under every interleaving of uploads,    *)
(* lost answers, disconnections and crashes.                                *)
THEOREM UniqueInterchange == Spec => []OneInterchangePerContent
<1>1. RowInv => OneInterchangePerContent
    BY DEF RowInv
<1>2. QED
    BY <1>1, InitRowInv, RowInvStep, TypeCorrect, PTL DEF Spec

-------------------------------------------------------------------------------
(* Subscriptions and the messages that refer to them *)

(* The identifiers before the loop index are resolved, all of them once the *)
(* loop is over.                                                            *)
ResolvedFor(r) ==
    /\ pc[r] \in {"insertSub", "selectSub"} =>
           \A i \in 1 .. index[r] - 1 :
               \E row \in resolved[r] : row.identifier = SubsOf[upload[r]][i]
    /\ pc[r] = "bulk" =>
           \A i \in 1 .. Len(SubsOf[upload[r]]) :
               \E row \in resolved[r] : row.identifier = SubsOf[upload[r]][i]

ResolvedSoFar == \A r \in Request : ResolvedFor(r)

ResolvedAreStored == \A r \in Request : resolved[r] \subseteq subscriptions

LinkInv ==
    /\ OneRowPerSubscription
    /\ ResolvedAreStored
    /\ ResolvedSoFar
    /\ ReferencesResolve

(* buildMessages finds the stored row of every identifier the parser found. *)
LEMMA LinkedRow ==
    ASSUME TypeOK, LinkInv, NEW r \in Request, pc[r] = "bulk",
           NEW m \in MsgsOf[upload[r]]
    PROVE  /\ Linked(r, m.sub).identifier = m.sub
           /\ Linked(r, m.sub) \in subscriptions \cup {NullSubscription}
<1>1. upload[r] \in File /\ m \in ParsedMessage
    BY IngestionAssumption DEF TypeOK
<1>2. CASE m.sub = NoSub
    <2>1. \A row \in resolved[r] : row.identifier # NoSub
        BY NoSubAssumption DEF TypeOK, SubscriptionRow
    <2>2. Linked(r, m.sub) = NullSubscription
        BY <1>2, <2>1 DEF Linked
    <2>3. QED
        BY <1>2, <2>2 DEF NullSubscription
<1>3. CASE m.sub # NoSub
    <2>1. \E i \in 1 .. Len(SubsOf[upload[r]]) : SubsOf[upload[r]][i] = m.sub
        BY <1>1, <1>3, IngestionAssumption
    <2>2. \E row \in resolved[r] : row.identifier = m.sub
        BY <2>1 DEF LinkInv, ResolvedSoFar, ResolvedFor
    <2>3. /\ Linked(r, m.sub) \in resolved[r]
          /\ Linked(r, m.sub).identifier = m.sub
        BY <2>2 DEF Linked
    <2>4. QED
        BY <2>3 DEF LinkInv, ResolvedAreStored
<1>4. QED
    BY <1>2, <1>3

LoopStages == {"insertSub", "selectSub", "bulk"}

(* A step that neither enters nor leaves the loop anywhere, and writes no   *)
(* subscription, version or message, keeps the invariant.                   *)
LEMMA LinkInvFrame ==
    ASSUME TypeOK, LinkInv,
           \A q \in Request : pc'[q] \in LoopStages => pc'[q] = pc[q],
           interchanges \subseteq interchanges',
           UNCHANGED <<upload, index, resolved, versions, subscriptions, messages>>
    PROVE  LinkInv'
<1>1. OneRowPerSubscription' /\ ResolvedAreStored'
    BY DEF LinkInv, OneRowPerSubscription, ResolvedAreStored
<1>2. ResolvedSoFar'
    BY DEF LinkInv, ResolvedSoFar, ResolvedFor, LoopStages
<1>3. ReferencesResolve'
    BY DEF LinkInv, ReferencesResolve
<1>4. QED
    BY <1>1, <1>2, <1>3 DEF LinkInv

(* Every step keeps subscriptions unique and references resolved: the order *)
(* of the statements does what a transaction would have done.               *)
LEMMA LinkInvStep == TypeOK /\ RowInv /\ LinkInv /\ [Next]_vars => LinkInv'
<1> SUFFICES ASSUME TypeOK, RowInv, LinkInv, [Next]_vars
             PROVE  LinkInv'
    OBVIOUS
<1> DEFINE Frame ==
        /\ \A q \in Request : pc'[q] \in LoopStages => pc'[q] = pc[q]
        /\ interchanges \subseteq interchanges'
        /\ UNCHANGED <<upload, index, resolved, versions, subscriptions, messages>>
<1>0. Frame => LinkInv'
    BY LinkInvFrame
<1> HIDE DEF Frame
<1>1. CASE UNCHANGED vars
    BY <1>0, <1>1 DEF Frame, vars, tables, local
<1>2. ASSUME NEW r \in Request, Reject(r) \/ Accept(r) \/ Disconnect(r)
      PROVE  LinkInv'
    BY <1>0, <1>2 DEF Frame, Reject, Accept, Disconnect, Return, Goto,
       TypeOK, tables, local, LoopStages
<1>3. ASSUME NEW r \in Request, LookUp(r)
      PROVE  LinkInv'
    BY <1>0, <1>3 DEF Frame, LookUp, AfterParse, Return, Goto, TypeOK, tables, local, LoopStages
<1>4. ASSUME NEW r \in Request, StoreFailed(r)
      PROVE  LinkInv'
    BY <1>0, <1>4 DEF Frame, StoreFailed, InsertInterchange, Goto, TypeOK,
       tables, local, LoopStages
<1>5. ASSUME NEW r \in Request, PublishFailed(r) \/ PublishIngested(r)
      PROVE  LinkInv'
    BY <1>0, <1>5 DEF Frame, PublishFailed, PublishIngested, Goto, TypeOK,
       tables, local, LoopStages
<1>6. ASSUME NEW r \in Request, Begin(r) \/ Commit(r)
      PROVE  LinkInv'
    BY <1>0, <1>6 DEF Frame, Begin, Commit, Goto, TypeOK, tables, local, LoopStages
<1>7. ASSUME NEW r \in Request, Store(r)
      PROVE  LinkInv'
    BY <1>0, <1>7 DEF Frame, Store, Write, InsertInterchange, Goto, TypeOK,
       tables, local, LoopStages
<1>8. ASSUME NEW r \in Request, Recover(r)
      PROVE  LinkInv'
    BY <1>0, <1>8 DEF Frame, Recover, Return, Goto, TypeOK, tables, local, LoopStages
<1>9. ASSUME NEW r \in Request, CreateVersion(r)
      PROVE  LinkInv'
    <2>1. /\ versions \subseteq versions'
          /\ index' = [index EXCEPT ![r] = 1]
          /\ resolved' = [resolved EXCEPT ![r] = {}]
          /\ UNCHANGED <<interchanges, subscriptions, messages, upload>>
        BY <1>9 DEF CreateVersion, Write, InsertVersion, EnterLoop, tables
    <2>2. \E stage \in {AfterUpserts(r, 1), "abort"} : Goto(r, stage)
        BY <1>9 DEF CreateVersion, Write
    <2>3. OneRowPerSubscription' /\ ResolvedAreStored'
        BY <2>1 DEF LinkInv, OneRowPerSubscription, ResolvedAreStored, TypeOK
    <2>4. ReferencesResolve'
        BY <2>1, <1>9 DEF LinkInv, ReferencesResolve, CreateVersion, Write,
           InsertVersion, tables, RowInv, RowsFollowStages, WithRow, CompletedRow
    <2>5. ASSUME NEW q \in Request
          PROVE  ResolvedFor(q)'
        <3>1. CASE q = r
            <4>1. SubsOf[upload[r]] \in Seq(Sub)
                BY IngestionAssumption DEF TypeOK
            <4>2. QED
                BY <2>1, <2>2, <3>1, <4>1, AfterUpsertsStays
                   DEF ResolvedFor, Goto, TypeOK
        <3>2. CASE q # r
            <4>1. /\ pc'[q] = pc[q] /\ index'[q] = index[q]
                  /\ resolved'[q] = resolved[q] /\ upload'[q] = upload[q]
                BY <2>1, <2>2, <3>2 DEF Goto, TypeOK
            <4>2. ResolvedFor(q)
                BY DEF LinkInv, ResolvedSoFar
            <4>3. QED
                BY <4>1, <4>2 DEF ResolvedFor
        <3>3. QED
            BY <3>1, <3>2
    <2>6. QED
        BY <2>3, <2>4, <2>5 DEF LinkInv, ResolvedSoFar
<1>10. ASSUME NEW r \in Request, UpsertInsert(r)
      PROVE  LinkInv'
    <2>1. UNCHANGED <<interchanges, versions, messages, upload, index, resolved>>
        BY <1>10 DEF UpsertInsert, Write, InsertSubscription, tables, local
    <2>2. subscriptions' = subscriptions \/ subscriptions' = Upserted(Identifier(r), r)
        BY <1>10 DEF UpsertInsert, Write, InsertSubscription, tables
    <2>3. \E stage \in {"selectSub", "abort"} : Goto(r, stage) /\ pc[r] = "insertSub"
        BY <1>10 DEF UpsertInsert, Write
    <2>4. OneRowPerSubscription' /\ subscriptions \subseteq subscriptions'
        BY <2>2 DEF Upserted, LinkInv, OneRowPerSubscription
    <2>5. ResolvedAreStored' /\ ReferencesResolve'
        <3>1. ResolvedAreStored'
            BY <2>1, <2>4 DEF LinkInv, ResolvedAreStored
        <3>2. ReferencesResolve'
            BY <2>1, <2>4 DEF LinkInv, ReferencesResolve
        <3>3. QED
            BY <3>1, <3>2
    <2>6. ASSUME NEW q \in Request
          PROVE  ResolvedFor(q)'
        <3>1. ResolvedFor(q)
            BY DEF LinkInv, ResolvedSoFar
        <3>2. /\ index'[q] = index[q] /\ resolved'[q] = resolved[q]
              /\ upload'[q] = upload[q]
            BY <2>1
        <3>3. \/ pc'[q] = pc[q]
              \/ pc[q] = "insertSub" /\ pc'[q] \in {"selectSub", "abort"}
            BY <2>3 DEF Goto, TypeOK
        <3>4. QED
            BY <3>1, <3>2, <3>3 DEF ResolvedFor
    <2>7. QED
        BY <2>4, <2>5, <2>6 DEF LinkInv, ResolvedSoFar
<1>11. ASSUME NEW r \in Request, UpsertSelect(r)
      PROVE  LinkInv'
    <2>1. CASE UNCHANGED local
        BY <1>0, <1>11, <2>1 DEF Frame, UpsertSelect, Goto, TypeOK, tables,
           local, LoopStages
    <2>2. CASE /\ Selected(r) # {}
               /\ resolved' = [resolved EXCEPT ![r] = @ \cup Selected(r)]
               /\ index' = [index EXCEPT ![r] = @ + 1]
               /\ Goto(r, AfterUpserts(r, index[r] + 1))
        <3>1. pc[r] = "selectSub" /\ UNCHANGED <<tables, upload>>
            BY <1>11 DEF UpsertSelect
        <3>2. OneRowPerSubscription' /\ ReferencesResolve'
            BY <3>1 DEF LinkInv, OneRowPerSubscription, ReferencesResolve, tables
        <3>3. ResolvedAreStored'
            BY <2>2, <3>1 DEF LinkInv, ResolvedAreStored, Selected, Canonical,
               TypeOK, tables
        <3>4. ASSUME NEW q \in Request
              PROVE  ResolvedFor(q)'
            <4>1. CASE q = r
                <5>1. SubsOf[upload[r]] \in Seq(Sub) /\ index[r] \in Nat \ {0}
                    BY IngestionAssumption DEF TypeOK
                <5>2. index[r] <= Len(SubsOf[upload[r]])
                    BY <3>1 DEF TypeOK
                <5>3. resolved'[r] = resolved[r] \cup Selected(r)
                    BY <2>2 DEF TypeOK
                <5>4. \A i \in 1 .. index[r] : \E row \in resolved'[r] :
                          row.identifier = SubsOf[upload[r]][i]
                    <6>1. \A i \in 1 .. index[r] - 1 : \E row \in resolved'[r] :
                              row.identifier = SubsOf[upload[r]][i]
                        BY <3>1, <5>3 DEF LinkInv, ResolvedSoFar, ResolvedFor
                    <6>2. \E row \in resolved'[r] :
                              row.identifier = SubsOf[upload[r]][index[r]]
                        BY <2>2, <5>3 DEF Selected, Canonical, Identifier
                    <6>3. QED
                        BY <5>1, <6>1, <6>2
                <5>5. index'[r] = index[r] + 1
                    BY <2>2 DEF TypeOK
                <5>6. pc'[r] = AfterUpserts(r, index[r] + 1)
                    BY <2>2 DEF Goto, TypeOK
                <5>7. QED
                    BY <3>1, <4>1, <5>1, <5>2, <5>4, <5>5, <5>6, AfterUpsertsStays
                       DEF ResolvedFor
            <4>2. CASE q # r
                BY <2>2, <3>1, <4>2 DEF LinkInv, ResolvedSoFar, ResolvedFor, Goto,
                   TypeOK
            <4>3. QED
                BY <4>1, <4>2
        <3>5. QED
            BY <3>2, <3>3, <3>4 DEF LinkInv, ResolvedSoFar
    <2>3. QED
        BY <1>11, <2>1, <2>2 DEF UpsertSelect
<1>12. ASSUME NEW r \in Request, BulkCreate(r)
      PROVE  LinkInv'
    <2>1. UNCHANGED <<interchanges, versions, subscriptions, upload, index, resolved>>
        BY <1>12 DEF BulkCreate, Write, InsertMessages, tables, local
    <2>2. messages' = messages \/ messages' = messages \cup MessageRows(r)
        BY <1>12 DEF BulkCreate, Write, InsertMessages, tables
    <2>3. \E stage \in {"commit", "abort"} : Goto(r, stage)
        BY <1>12 DEF BulkCreate, Write
    <2>4. OneRowPerSubscription' /\ ResolvedAreStored'
        BY <2>1 DEF LinkInv, OneRowPerSubscription, ResolvedAreStored
    <2>5. ResolvedSoFar'
        BY <2>1, <2>3 DEF LinkInv, ResolvedSoFar, ResolvedFor, Goto, TypeOK
    <2>6. ASSUME NEW m \in MessageRows(r)
          PROVE  /\ m.version = m.interchange
                 /\ m.version \in versions
                 /\ m.subscription \in subscriptions \cup {NullSubscription}
        <3>1. pc[r] = "bulk"
            BY <1>12 DEF BulkCreate
        <3>2. r \in versions
            BY <3>1 DEF RowInv, RowsFollowStages, WithVersion
        <3>3. QED
            BY <3>1, <3>2, LinkedRow DEF MessageRows
    <2>7. ReferencesResolve'
        BY <2>1, <2>2, <2>6 DEF LinkInv, ReferencesResolve
    <2>8. QED
        BY <2>4, <2>5, <2>7 DEF LinkInv
<1>13. ASSUME NEW r \in Request, Reply(r) \/ Abort(r)
      PROVE  LinkInv'
    BY <1>0, <1>13 DEF Frame, Reply, Abort, Return, Goto, TypeOK, tables, local,
       LoopStages
<1>14. CASE Crash
    BY <1>0, <1>14 DEF Frame, Crash, InFlight, TypeOK, tables, local, LoopStages
<1>15. QED
    BY <1>1, <1>2, <1>3, <1>4, <1>5, <1>6, <1>7, <1>8, <1>9, <1>10, <1>11,
       <1>12, <1>13, <1>14 DEF Next, Serve

-------------------------------------------------------------------------------
(* What is stored, answered and announced *)

\* the stages in which everything request r has to store is stored
Done(r) ==
    \/ pc[r] \in {"commit", "publish"}
    \/ pc[r] = "reply" /\ Shape[upload[r]] = "wellformed"

\* an answer of request r that tells the truth
Honest(r) ==
    result[r].status = "completed" =>
        /\ [id |-> result[r].id, hash |-> upload[r], status |-> "completed"]
               \in interchanges
        /\ result[r].id = r => Persisted(r)

TruthInv ==
    /\ \A r \in Request : Done(r) => Persisted(r)
    /\ \A r \in Request : Honest(r)
    /\ EventsTellTheTruth

(* No step deletes or changes a row, nor what a request carries: nothing in *)
(* the service does, and no rollback reaches a row.                         *)
Grows ==
    /\ interchanges \subseteq interchanges'
    /\ versions \subseteq versions'
    /\ subscriptions \subseteq subscriptions'
    /\ messages \subseteq messages'
    /\ UNCHANGED upload

LEMMA StepGrows == [Next]_vars => Grows
<1> USE DEF Grows, tables, Write
<1>1. CASE UNCHANGED vars
    BY <1>1 DEF vars
<1>2. ASSUME NEW r \in Request,
             Reject(r) \/ Accept(r) \/ LookUp(r) \/ PublishFailed(r)
             \/ Begin(r) \/ Recover(r) \/ UpsertSelect(r) \/ Commit(r)
             \/ PublishIngested(r) \/ Reply(r) \/ Abort(r) \/ Disconnect(r)
      PROVE  Grows
    BY <1>2 DEF Reject, Accept, LookUp, PublishFailed, Begin, Recover,
       UpsertSelect, Commit, PublishIngested, Reply, Abort, Disconnect
<1>3. ASSUME NEW r \in Request, StoreFailed(r) \/ Store(r)
      PROVE  Grows
    BY <1>3 DEF StoreFailed, Store, InsertInterchange
<1>4. ASSUME NEW r \in Request, CreateVersion(r) \/ BulkCreate(r)
      PROVE  Grows
    BY <1>4 DEF CreateVersion, InsertVersion, BulkCreate, InsertMessages
<1>5. ASSUME NEW r \in Request, UpsertInsert(r)
      PROVE  Grows
    BY <1>5 DEF UpsertInsert, InsertSubscription, Upserted
<1>6. CASE Crash
    BY <1>6 DEF Crash
<1>7. QED
    BY <1>1, <1>2, <1>3, <1>4, <1>5, <1>6 DEF Next, Serve

(* What is stored whole stays stored whole. *)
LEMMA PersistedStays ==
    ASSUME Grows, NEW r, Persisted(r)
    PROVE  Persisted(r)'
    BY DEF Grows, Persisted

(* A step keeps the invariant if a request that gets done has persisted, an *)
(* answer that is new is honest, and an event that is new is true.          *)
LEMMA TruthInvFrame ==
    ASSUME TypeOK, TruthInv, Grows,
           \A q \in Request : Done(q)' => Done(q) \/ Persisted(q)',
           \A q \in Request : result'[q] = result[q] \/ Honest(q)',
           \A e \in topic' :
               \/ e \in topic
               \/ e.type = "interchange.failed"
               \/ Persisted(e.id)'
    PROVE  TruthInv'
<1>1. ASSUME NEW q \in Request, Done(q)'
      PROVE  Persisted(q)'
    BY <1>1, PersistedStays DEF TruthInv
<1>2. ASSUME NEW q \in Request
      PROVE  Honest(q)'
    <2>1. CASE result'[q] = result[q]
        <3>1. Honest(q)
            BY DEF TruthInv
        <3>2. QED
            BY <2>1, <3>1, PersistedStays DEF Honest, Grows
    <2>2. QED
        BY <2>1
<1>3. EventsTellTheTruth'
    BY PersistedStays DEF TruthInv, EventsTellTheTruth
<1>4. QED
    BY <1>1, <1>2, <1>3 DEF TruthInv

(* The answer made from the stored row of a content, by a request that has  *)
(* stored no row itself, is honest.                                         *)
LEMMA ExistingIsHonest ==
    ASSUME TypeOK, RowInv, Grows, NEW r \in Request,
           pc[r] \in {"lookup", "recover"}, HashTaken(upload[r]),
           result'[r].id = RowOf(upload[r]).id,
           result'[r].status = RowOf(upload[r]).status
    PROVE  Honest(r)'
<1>1. /\ RowOf(upload[r]) \in interchanges
      /\ RowOf(upload[r]).hash = upload[r]
    BY DEF RowOf, HashTaken
<1>2. RowOf(upload[r]).id # r
    BY <1>1 DEF RowInv, RowsFollowStages, BeforeRow
<1>3. RowOf(upload[r]) = [id |-> RowOf(upload[r]).id, hash |-> upload[r],
                          status |-> RowOf(upload[r]).status]
    BY <1>1 DEF TypeOK, TablesTypeOK, InterchangeRow
<1>4. QED
    BY <1>1, <1>2, <1>3 DEF Honest, Grows

(* Every step keeps answers and events true of what is stored.              *)
LEMMA TruthInvStep ==
    TypeOK /\ RowInv /\ LinkInv /\ TruthInv /\ [Next]_vars => TruthInv'
<1> SUFFICES ASSUME TypeOK, RowInv, LinkInv, TruthInv, [Next]_vars
             PROVE  TruthInv'
    OBVIOUS
<1> DEFINE DoneRight == \A q \in Request : Done(q)' => Done(q) \/ Persisted(q)'
           AnsweredRight == \A q \in Request : result'[q] = result[q] \/ Honest(q)'
           AnnouncedRight == \A e \in topic' : \/ e \in topic
                                               \/ e.type = "interchange.failed"
                                               \/ Persisted(e.id)'
<1>0. Grows
    BY StepGrows
<1>a. DoneRight /\ AnsweredRight /\ AnnouncedRight => TruthInv'
    BY <1>0, TruthInvFrame
<1>b. UNCHANGED result => AnsweredRight
    OBVIOUS
<1>c. UNCHANGED topic => AnnouncedRight
    OBVIOUS
<1>d. \A r \in Request : \A stage :
          Goto(r, stage) /\ stage \notin {"commit", "publish", "reply"} => DoneRight
    BY <1>0 DEF Done, Goto, TypeOK, Grows
<1> HIDE DEF DoneRight, AnsweredRight, AnnouncedRight
<1>1. CASE UNCHANGED vars
    <2>1. DoneRight
        BY <1>1 DEF DoneRight, Done, vars
    <2>2. QED
        BY <1>1, <2>1, <1>a, <1>b, <1>c DEF vars
<1>2. ASSUME NEW r \in Request, Reject(r) \/ Abort(r)
      PROVE  TruthInv'
    <2>1. PICK err : /\ Goto(r, "answered")
                     /\ result' = [result EXCEPT ![r] = [Pending EXCEPT !.err = err]]
        BY <1>2 DEF Reject, Rejection, Abort, Return
    <2>2. AnsweredRight
        BY <2>1 DEF AnsweredRight, Honest, Pending, TypeOK
    <2>3. UNCHANGED topic
        BY <1>2 DEF Reject, Abort
    <2>4. DoneRight
        BY <2>1, <1>d
    <2>5. QED
        BY <2>2, <2>3, <2>4, <1>a, <1>c
<1>3. ASSUME NEW r \in Request,
             Accept(r) \/ StoreFailed(r) \/ Begin(r) \/ Store(r) \/ UpsertInsert(r)
      PROVE  TruthInv'
    <2>1. PICK stage \in {"lookup", "publishFailed", "store", "version", "recover",
                          "selectSub", "abort"} : Goto(r, stage)
        BY <1>3 DEF Accept, StoreFailed, Begin, Store, UpsertInsert, Write
    <2>2. UNCHANGED <<result, topic>>
        BY <1>3 DEF Accept, StoreFailed, Begin, Store, UpsertInsert
    <2>3. QED
        BY <2>1, <2>2, <1>a, <1>b, <1>c, <1>d
<1>4. ASSUME NEW r \in Request, LookUp(r) \/ Recover(r)
      PROVE  TruthInv'
    <2>1. UNCHANGED topic
        BY <1>4 DEF LookUp, Recover
    <2>2. PICK stage \in {"answered", "parse", "storeFailed", "begin", "abort"} :
              Goto(r, stage)
        BY <1>4 DEF LookUp, AfterParse, Recover, Return
    <2>3. CASE UNCHANGED result
        BY <2>1, <2>2, <2>3, <1>a, <1>b, <1>c, <1>d
    <2>4. CASE /\ HashTaken(upload[r])
               /\ \E err : result' = [result EXCEPT ![r] = Existing(r, err)]
        <3>1. pc[r] \in {"lookup", "recover"}
            BY <1>4 DEF LookUp, Recover
        <3>2. /\ result'[r].id = RowOf(upload[r]).id
              /\ result'[r].status = RowOf(upload[r]).status
            BY <2>4 DEF Existing, TypeOK
        <3>3. Honest(r)'
            BY <1>0, <2>4, <3>1, <3>2, ExistingIsHonest
        <3>4. AnsweredRight
            BY <2>4, <3>3 DEF AnsweredRight, TypeOK
        <3>5. QED
            BY <2>1, <2>2, <3>4, <1>a, <1>c, <1>d
    <2>5. QED
        BY <1>4, <2>3, <2>4 DEF LookUp, Recover, Return
<1>5. ASSUME NEW r \in Request, PublishFailed(r)
      PROVE  TruthInv'
    <2>1. /\ pc[r] = "publishFailed" /\ Goto(r, "reply") /\ UNCHANGED <<result, upload>>
          /\ Shape[upload[r]] = "malformed"
        BY <1>5 DEF PublishFailed, RowInv, ShapeDecidesPath
    <2>2. DoneRight
        BY <2>1 DEF DoneRight, Done, Goto, TypeOK
    <2>3. AnnouncedRight
        BY <1>5 DEF PublishFailed, Deliver, AnnouncedRight
    <2>4. QED
        BY <2>1, <2>2, <2>3, <1>a, <1>b
<1>6. ASSUME NEW r \in Request, CreateVersion(r)
      PROVE  TruthInv'
    <2>1. UNCHANGED <<result, topic, upload>> /\ pc[r] = "version"
        BY <1>6 DEF CreateVersion
    <2>2. CASE Goto(r, "abort")
        BY <2>1, <2>2, <1>a, <1>b, <1>c, <1>d
    <2>3. CASE InsertVersion(r) /\ Goto(r, AfterUpserts(r, 1))
        <3>1. MsgsOf[upload[r]] = {} => Persisted(r)'
            BY <2>1, <2>3 DEF Persisted, InsertVersion, RowInv, RowsFollowStages,
               WithRow, CompletedRow
        <3>2. DoneRight
            BY <2>1, <2>3, <3>1, AfterUpsertsStays DEF DoneRight, Done, Goto, TypeOK
        <3>3. QED
            BY <2>1, <3>2, <1>a, <1>b, <1>c
    <2>4. QED
        BY <1>6, <2>2, <2>3 DEF CreateVersion, Write
<1>7. ASSUME NEW r \in Request, UpsertSelect(r)
      PROVE  TruthInv'
    <2>1. UNCHANGED <<result, topic, tables, upload>> /\ pc[r] = "selectSub"
        BY <1>7 DEF UpsertSelect
    <2>2. CASE Goto(r, "abort")
        BY <2>1, <2>2, <1>a, <1>b, <1>c, <1>d
    <2>3. CASE Goto(r, AfterUpserts(r, index[r] + 1))
        <3>1. MsgsOf[upload[r]] = {} => Persisted(r)'
            BY <2>1 DEF Persisted, tables, RowInv, RowsFollowStages, WithRow,
               WithVersion, CompletedRow
        <3>2. DoneRight
            BY <2>1, <2>3, <3>1, AfterUpsertsStays DEF DoneRight, Done, Goto, TypeOK
        <3>3. QED
            BY <2>1, <3>2, <1>a, <1>b, <1>c
    <2>4. QED
        BY <1>7, <2>2, <2>3 DEF UpsertSelect
<1>8. ASSUME NEW r \in Request, BulkCreate(r)
      PROVE  TruthInv'
    <2>1. UNCHANGED <<result, topic, upload>> /\ pc[r] = "bulk"
        BY <1>8 DEF BulkCreate
    <2>2. CASE Goto(r, "abort")
        BY <2>1, <2>2, <1>a, <1>b, <1>c, <1>d
    <2>3. CASE InsertMessages(MessageRows(r)) /\ Goto(r, "commit")
        <3>1. ASSUME NEW m \in MsgsOf[upload[r]]
              PROVE  \E row \in messages' : /\ row.interchange = r
                                            /\ row.slot = m.slot
                                            /\ row.subscription.identifier = m.sub
            <4> DEFINE row == [interchange |-> r, version |-> r, slot |-> m.slot,
                               subscription |-> Linked(r, m.sub)]
            <4>1. row \in messages'
                BY <2>3 DEF InsertMessages, MessageRows
            <4>2. row.subscription.identifier = m.sub
                BY <2>1, LinkedRow
            <4>3. QED
                BY <4>1, <4>2
        <3>2. Persisted(r)'
            BY <2>1, <2>3, <3>1 DEF Persisted, InsertMessages, RowInv,
               RowsFollowStages, WithRow, WithVersion, CompletedRow
        <3>3. DoneRight
            BY <2>1, <2>3, <3>2 DEF DoneRight, Done, Goto, TypeOK
        <3>4. QED
            BY <2>1, <3>3, <1>a, <1>b, <1>c
    <2>4. QED
        BY <1>8, <2>2, <2>3 DEF BulkCreate, Write
<1>9. ASSUME NEW r \in Request, Commit(r)
      PROVE  TruthInv'
    <2>1. /\ UNCHANGED <<result, topic, upload>> /\ pc[r] = "commit"
          /\ Goto(r, "publish") \/ Goto(r, "abort")
        BY <1>9 DEF Commit
    <2>2. DoneRight
        BY <2>1 DEF DoneRight, Done, Goto, TypeOK
    <2>3. QED
        BY <2>1, <2>2, <1>a, <1>b, <1>c
<1>10. ASSUME NEW r \in Request, PublishIngested(r)
      PROVE  TruthInv'
    <2>1. /\ pc[r] = "publish" /\ Goto(r, "reply") /\ UNCHANGED <<result, upload>>
          /\ Persisted(r)
        BY <1>10 DEF PublishIngested, TruthInv, Done
    <2>2. DoneRight
        BY <2>1 DEF DoneRight, Done, Goto, TypeOK
    <2>3. \A e \in topic' : e \in topic \/ e.id = r
        BY <1>10 DEF PublishIngested, Deliver
    <2>4. AnnouncedRight
        BY <2>1, <2>3, <1>0, PersistedStays DEF AnnouncedRight
    <2>5. QED
        BY <2>1, <2>2, <2>4, <1>a, <1>b
<1>11. ASSUME NEW r \in Request, Reply(r)
      PROVE  TruthInv'
    <2>1. /\ pc[r] = "reply" /\ Goto(r, "answered")
          /\ UNCHANGED <<topic, upload, tables>>
          /\ result' = [result EXCEPT ![r] = Own(r)]
        BY <1>11 DEF Reply, Return
    <2>2. Honest(r)'
        <3>1. CASE Shape[upload[r]] = "malformed"
            BY <2>1, <3>1 DEF Honest, Own, TypeOK
        <3>2. CASE Shape[upload[r]] = "wellformed"
            <4>1. Persisted(r)
                BY <2>1, <3>2 DEF TruthInv, Done
            <4>2. Persisted(r)' /\ result'[r].id = r
                BY <1>0, <2>1, <4>1, PersistedStays DEF Own, TypeOK
            <4>3. QED
                BY <2>1, <4>2 DEF Honest, Persisted
        <3>3. QED
            BY <2>1, <3>1, <3>2 DEF RowInv, ShapeDecidesPath
    <2>3. AnsweredRight
        BY <2>1, <2>2 DEF AnsweredRight, TypeOK
    <2>4. QED
        BY <2>1, <2>3, <1>a, <1>c, <1>d
<1>12. ASSUME NEW r \in Request, Disconnect(r)
      PROVE  TruthInv'
    <2>1. UNCHANGED <<pc, upload, result, topic>>
        BY <1>12 DEF Disconnect
    <2>2. DoneRight
        BY <2>1 DEF DoneRight, Done
    <2>3. QED
        BY <2>1, <2>2, <1>a, <1>b, <1>c
<1>13. CASE Crash
    <2>1. UNCHANGED <<upload, result, topic>>
        BY <1>13 DEF Crash
    <2>2. DoneRight
        BY <1>13 DEF Crash, DoneRight, Done, TypeOK
    <2>3. QED
        BY <2>1, <2>2, <1>a, <1>b, <1>c
<1>14. QED
    BY <1>1, <1>2, <1>3, <1>4, <1>5, <1>6, <1>7, <1>8, <1>9, <1>10, <1>11,
       <1>12, <1>13 DEF Next, Serve

(* The three invariants hold together; each of the theorems below is one of *)
(* their conjuncts, or what their conjuncts say of a finished request.      *)
LEMMA InvariantsHold == Spec => [](RowInv /\ LinkInv /\ TruthInv)
<1>1. Init => RowInv
    BY InitRowInv
<1>2. Init => LinkInv
    <2>1. Init => OneRowPerSubscription /\ ResolvedAreStored /\ ReferencesResolve
        BY DEF Init, EmptyTables, OneRowPerSubscription, ResolvedAreStored,
           ReferencesResolve
    <2>2. Init => ResolvedSoFar
        BY DEF Init, ResolvedSoFar, ResolvedFor
    <2>3. QED
        BY <2>1, <2>2 DEF LinkInv
<1>3. Init => TruthInv
    <2>1. ASSUME Init, NEW r \in Request
          PROVE  ~Done(r) /\ Honest(r)
        <3>1. pc[r] = "idle" /\ result[r].status = "none"
            BY <2>1 DEF Init, Pending
        <3>2. QED
            BY <3>1 DEF Done, Honest
    <2>2. Init => EventsTellTheTruth
        BY DEF Init, EventsTellTheTruth
    <2>3. QED
        BY <2>1, <2>2 DEF TruthInv
<1>4. QED
    BY <1>1, <1>2, <1>3, RowInvStep, LinkInvStep, TruthInvStep, TypeCorrect, PTL
       DEF Spec

(* One identifier has one subscription row, however many ingests upsert it  *)
(* at once.                                                                 *)
THEOREM UniqueSubscription == Spec => []OneRowPerSubscription
<1>1. LinkInv => OneRowPerSubscription
    BY DEF LinkInv
<1>2. QED
    BY <1>1, InvariantsHold, PTL

(* Versions and messages refer to rows that exist, in every state between   *)
(* two statements, although no transaction surrounds them.                  *)
THEOREM ReferentialIntegrity == Spec => []ReferencesResolve
<1>1. LinkInv => ReferencesResolve
    BY DEF LinkInv
<1>2. QED
    BY <1>1, InvariantsHold, PTL

(* An upload answered "completed" under an id of its own is stored whole,   *)
(* whatever failed, raced or disconnected on the way.                       *)
THEOREM FreshAnswers == Spec => []FreshAnswerMeansPersisted
<1>1. TruthInv => FreshAnswerMeansPersisted
    BY DEF TruthInv, Honest, FreshAnswerMeansPersisted
<1>2. QED
    BY <1>1, InvariantsHold, PTL

(* An interchange.ingested or version.created event is published only about *)
(* an interchange that is stored whole, and that stays stored.              *)
THEOREM TruthfulEvents == Spec => []EventsTellTheTruth
<1>1. TruthInv => EventsTellTheTruth
    BY DEF TruthInv
<1>2. QED
    BY <1>1, InvariantsHold, PTL

(* Every answer "completed" names the row that is stored for its content.   *)
THEOREM CompletedAnswers == Spec => []CompletedAnswersNameTheStoredRow
<1>1. TruthInv => CompletedAnswersNameTheStoredRow
    BY DEF TruthInv, Honest, CompletedAnswersNameTheStoredRow
<1>2. QED
    BY <1>1, InvariantsHold, PTL

(* Completed answers to uploads of one content name one id: the reason for  *)
(* which the hash is unique (ADR-005).                                      *)
THEOREM IdempotentIds ==
    Spec => [](\A q, r \in Request :
                   /\ upload[q] = upload[r]
                   /\ result[q].status = "completed"
                   /\ result[r].status = "completed"
                   => result[q].id = result[r].id)
<1> DEFINE SameId == \A q, r \in Request :
                         /\ upload[q] = upload[r]
                         /\ result[q].status = "completed"
                         /\ result[r].status = "completed"
                         => result[q].id = result[r].id
<1>1. RowInv /\ TruthInv => SameId
    BY DEF RowInv, TruthInv, Honest, OneInterchangePerContent
<1>2. QED
    BY <1>1, InvariantsHold, PTL

-------------------------------------------------------------------------------
(* The connection pool *)

(* The connections held belong to active requests, of which there are never *)
(* more than the bound.                                                     *)
PoolInv ==
    /\ NoConnectionLeak
    /\ IsFiniteSet(Active)
    /\ Cardinality(Active) <= MaxInFlight

(* A step that admits no request leaves the bound alone. *)
LEMMA FewerActive ==
    ASSUME PoolInv, MaxInFlight \in Nat, Active' \subseteq Active
    PROVE  IsFiniteSet(Active') /\ Cardinality(Active') <= MaxInFlight
<1>1. /\ IsFiniteSet(Active') /\ Cardinality(Active') <= Cardinality(Active)
      /\ Cardinality(Active) \in Nat /\ Cardinality(Active') \in Nat
    BY FS_Subset, FS_CardinalityType DEF PoolInv
<1>2. QED
    BY <1>1 DEF PoolInv

(* One element makes a finite set larger by one at most.                    *)
LEMMA OneMore ==
    ASSUME NEW S, IsFiniteSet(S), NEW e
    PROVE  /\ IsFiniteSet(S \cup {e})
           /\ Cardinality(S \cup {e}) <= Cardinality(S) + 1
<1>1. Cardinality(S) \in Nat
    BY FS_CardinalityType
<1>2. CASE e \in S
    <2>1. S \cup {e} = S
        BY <1>2
    <2>2. QED
        BY <1>1, <2>1
<1>3. CASE e \notin S
    BY <1>1, <1>3, FS_AddElement
<1>4. QED
    BY <1>2, <1>3

(* No step leaks a connection or admits more requests than the bound.       *)
LEMMA PoolInvStep == TypeOK /\ PoolInv /\ [Next]_vars => PoolInv'
<1> SUFFICES ASSUME TypeOK, PoolInv, [Next]_vars
             PROVE  PoolInv'
    OBVIOUS
<1> DEFINE Bounded == IsFiniteSet(Active') /\ Cardinality(Active') <= MaxInFlight
<1>0. MaxInFlight \in Nat
    BY IngestionAssumption
<1>a. Active' \subseteq Active => Bounded
    BY <1>0, FewerActive
<1> HIDE DEF Bounded
<1>b. NoConnectionLeak' /\ Bounded => PoolInv'
    BY DEF PoolInv, Bounded
<1>c. NoConnectionLeak
    BY DEF PoolInv
<1>1. CASE UNCHANGED vars
    BY <1>1, <1>a, <1>b, <1>c DEF vars, Active, InFlight, NoConnectionLeak
<1>2. ASSUME NEW r \in Request, Accept(r)
      PROVE  PoolInv'
    <2>1. Active' = Active \cup {r}
        BY <1>2 DEF Accept, Goto, Active, InFlight, Working, TypeOK
    <2>2. IsFiniteSet(Active) /\ Cardinality(Active) < MaxInFlight
        BY <1>2 DEF Accept, PoolInv
    <2>3. /\ IsFiniteSet(Active \cup {r})
          /\ Cardinality(Active \cup {r}) <= Cardinality(Active) + 1
        BY <2>2, OneMore
    <2>4. Bounded
        <3>1. Cardinality(Active) \in Nat /\ Cardinality(Active \cup {r}) \in Nat
            BY <2>2, <2>3, FS_CardinalityType
        <3>2. QED
            BY <1>0, <2>1, <2>2, <2>3, <3>1 DEF Bounded
    <2>5. NoConnectionLeak'
        BY <1>2, <1>c DEF Accept, Goto, NoConnectionLeak, TypeOK
    <2>6. QED
        BY <2>4, <2>5, <1>b
<1>3. ASSUME NEW r \in Request, Reject(r)
      PROVE  PoolInv'
    <2>1. Active' \subseteq Active
        BY <1>3 DEF Reject, Return, Goto, Active, InFlight, Working, TypeOK
    <2>2. NoConnectionLeak'
        BY <1>3, <1>c DEF Reject, Return, Goto, NoConnectionLeak, TypeOK
    <2>3. QED
        BY <2>1, <2>2, <1>a, <1>b
<1>4. ASSUME NEW r \in Request, Serve(r)
      PROVE  PoolInv'
    <2>1. PICK stage \in Stages : pc' = [pc EXCEPT ![r] = stage]
        <3>1. CASE LookUp(r) \/ StoreFailed(r) \/ PublishFailed(r) \/ Begin(r)
            BY <3>1 DEF LookUp, AfterParse, StoreFailed, PublishFailed, Begin, Return,
               Goto, Stages, Working
        <3>2. CASE Store(r) \/ Recover(r) \/ UpsertInsert(r) \/ BulkCreate(r)
            BY <3>2 DEF Store, Recover, UpsertInsert, BulkCreate, Write, Return,
               Goto, Stages, Working
        <3>3. CASE CreateVersion(r) \/ UpsertSelect(r)
            BY <3>3, AfterUpsertsStays DEF CreateVersion, UpsertSelect, Write,
               Goto, Stages, Working
        <3>4. CASE Commit(r) \/ PublishIngested(r) \/ Reply(r) \/ Abort(r)
            BY <3>4 DEF Commit, PublishIngested, Reply, Abort, Return, Goto,
               Stages, Working
        <3>5. QED
            BY <1>4, <3>1, <3>2, <3>3, <3>4 DEF Serve
    <2>2. pc[r] \in Working
        BY <1>4 DEF Serve, LookUp, StoreFailed, PublishFailed, Begin, Store,
           Recover, CreateVersion, UpsertInsert, UpsertSelect, BulkCreate,
           Commit, PublishIngested, Reply, Abort, Working
    <2>3. Active' \subseteq Active
        <3>1. pc[r] # "parse"
            BY <1>4 DEF Serve, LookUp, StoreFailed, PublishFailed, Begin, Store,
               Recover, CreateVersion, UpsertInsert, UpsertSelect, BulkCreate,
               Commit, PublishIngested, Reply, Abort
        <3>2. QED
            BY <2>1, <2>2, <3>1 DEF Active, InFlight, TypeOK
    <2>4. NoConnectionLeak'
        <3> USE DEF NoConnectionLeak, TypeOK, Goto
        <3>1. CASE LookUp(r) \/ StoreFailed(r) \/ PublishFailed(r) \/ PublishIngested(r) \/ Reply(r)
            BY <1>c, <3>1 DEF LookUp, AfterParse, StoreFailed, PublishFailed, PublishIngested,
               Reply, Return
        <3>2. CASE Begin(r)
            BY <1>c, <3>2 DEF Begin
        <3>3. CASE Store(r) \/ UpsertInsert(r) \/ BulkCreate(r)
            BY <1>c, <3>3 DEF Store, UpsertInsert, BulkCreate, Write
        <3>4. CASE Recover(r)
            BY <1>c, <3>4 DEF Recover, Release, Return
        <3>5. CASE CreateVersion(r) \/ UpsertSelect(r)
            <4>1. \E next \in {"insertSub", "bulk", "commit", "abort"} :
                      pc' = [pc EXCEPT ![r] = next]
                BY <3>5, AfterUpsertsStays DEF CreateVersion, UpsertSelect, Write
            <4>2. UNCHANGED holders
                BY <3>5 DEF CreateVersion, UpsertSelect
            <4>3. QED
                BY <1>c, <4>1, <4>2
        <3>6. CASE Commit(r) \/ Abort(r)
            BY <1>c, <3>6 DEF Commit, Abort, Release, Return
        <3>7. QED
            BY <1>4, <3>1, <3>2, <3>3, <3>4, <3>5, <3>6 DEF Serve
    <2>5. QED
        BY <2>3, <2>4, <1>a, <1>b
<1>5. ASSUME NEW r \in Request, Disconnect(r)
      PROVE  PoolInv'
    BY <1>5, <1>a, <1>b, <1>c DEF Disconnect, Active, InFlight, NoConnectionLeak
<1>6. CASE Crash
    <2>1. Active' = {}
        BY <1>6 DEF Crash, Active, InFlight, Working
    <2>2. NoConnectionLeak'
        BY <1>6 DEF Crash, NoConnectionLeak
    <2>3. QED
        BY <2>1, <2>2, <1>a, <1>b
<1>7. QED
    BY <1>1, <1>2, <1>3, <1>4, <1>5, <1>6 DEF Next

(* The pool invariant holds from the first state on. *)
LEMMA PoolInvHolds == Spec => []PoolInv
<1>1. Init => PoolInv
    <2>1. Init => Active = {}
        BY DEF Init, Active, InFlight, Working
    <2>2. IsFiniteSet({}) /\ Cardinality({}) = 0
        BY FS_EmptySet
    <2>3. Init => NoConnectionLeak
        BY DEF Init, NoConnectionLeak
    <2>4. MaxInFlight \in Nat
        BY IngestionAssumption
    <2>5. QED
        BY <2>1, <2>2, <2>3, <2>4 DEF PoolInv
<1>2. QED
    BY <1>1, PoolInvStep, TypeCorrect, PTL DEF Spec

(* Only a request between Begin and the end of its transaction holds a      *)
(* connection of the pool.                                                  *)
THEOREM ConnectionsReturn == Spec => []NoConnectionLeak
<1>1. PoolInv => NoConnectionLeak
    BY DEF PoolInv
<1>2. QED
    BY <1>1, PoolInvHolds, PTL

(* For every pool size: with fewer active uploads than connections, a       *)
(* statement never finds all connections held by transactions, however many *)
(* other uploads the parser has caught.                                     *)
THEOREM PoolSuffices == Spec => []PoolNeverExhausted
<1>1. TypeOK /\ PoolInv => PoolNeverExhausted
    <2> SUFFICES ASSUME TypeOK, PoolInv, MaxInFlight < PoolSize
                 PROVE  Cardinality(holders) < PoolSize
        BY DEF PoolNeverExhausted, ConnectionFree
    <2>1. holders \subseteq Active
        BY DEF TypeOK, PoolInv, NoConnectionLeak, Active, InFlight, Working
    <2>2. /\ Cardinality(holders) <= Cardinality(Active)
          /\ Cardinality(holders) \in Nat /\ Cardinality(Active) \in Nat
        BY <2>1, FS_Subset, FS_CardinalityType DEF PoolInv
    <2>3. QED
        BY <2>2, IngestionAssumption DEF PoolInv
<1>2. QED
    BY <1>1, PoolInvHolds, TypeCorrect, PTL

-------------------------------------------------------------------------------
(* Refinement *)

\* what the contract sees of the contents and of the answers
Record == [f \in File |-> RecordOf(f)]

Replies == [r \in Request |-> ReplyOf(r)]

(* A request that is not answered has told its client nothing. *)
Unanswered == \A r \in Request : pc[r] # "answered" => result[r] = Pending

(* A step answers one request at most, and only that one gets a result.     *)
LEMMA UnansweredStep == TypeOK /\ Unanswered /\ [Next]_vars => Unanswered'
<1> SUFFICES ASSUME TypeOK, Unanswered, [Next]_vars
             PROVE  Unanswered'
    OBVIOUS
<1> USE DEF Unanswered, TypeOK
<1>1. CASE UNCHANGED vars
    BY <1>1 DEF vars
<1>2. ASSUME NEW r \in Request, NEW res, Return(r, res)
      PROVE  Unanswered'
    BY <1>2 DEF Return, Goto
<1>3. ASSUME NEW r \in Request, NEW stage, pc[r] # "answered", Goto(r, stage),
             UNCHANGED result
      PROVE  Unanswered'
    BY <1>3 DEF Goto
<1>4. ASSUME NEW r \in Request, Reject(r) \/ Reply(r) \/ Abort(r)
      PROVE  Unanswered'
    BY <1>2, <1>4 DEF Reject, Reply, Abort
<1>5. ASSUME NEW r \in Request, LookUp(r) \/ Recover(r)
      PROVE  Unanswered'
    BY <1>2, <1>3, <1>5 DEF LookUp, Recover
<1>6. ASSUME NEW r \in Request,
             \/ Accept(r) \/ StoreFailed(r) \/ PublishFailed(r) \/ Begin(r)
             \/ Store(r) \/ CreateVersion(r) \/ UpsertInsert(r)
             \/ UpsertSelect(r) \/ BulkCreate(r) \/ Commit(r) \/ PublishIngested(r)
      PROVE  Unanswered'
    BY <1>3, <1>6 DEF Accept, StoreFailed, PublishFailed, Begin, Store,
       CreateVersion, UpsertInsert, UpsertSelect, BulkCreate, Commit,
       PublishIngested, Write
<1>7. ASSUME NEW r \in Request, Disconnect(r)
      PROVE  Unanswered'
    BY <1>7 DEF Disconnect
<1>8. CASE Crash
    BY <1>8 DEF Crash, InFlight, Working
<1>9. QED
    BY <1>1, <1>4, <1>5, <1>6, <1>7, <1>8 DEF Next, Serve

(* The record of a content, from the row that is stored for it.             *)
LEMMA RecordOfRow ==
    ASSUME TypeOK, OneInterchangePerContent, NEW row \in interchanges
    PROVE  /\ HashTaken(row.hash)
           /\ RowOf(row.hash) = row
           /\ row.status = "failed" =>
                  RecordOf(row.hash) = [id |-> row.id, state |-> "failed"]
           /\ row.status # "failed" /\ Persisted(row.id) =>
                  RecordOf(row.hash) = [id |-> row.id, state |-> "stored"]
           /\ row.status # "failed" /\ ~Persisted(row.id) =>
                  RecordOf(row.hash) = [id |-> row.id, state |-> "incomplete"]
<1>1. HashTaken(row.hash)
    BY DEF HashTaken
<1>2. RowOf(row.hash) \in interchanges /\ RowOf(row.hash).hash = row.hash
    BY DEF RowOf
<1>3. RowOf(row.hash) = row
    BY <1>2 DEF OneInterchangePerContent
<1> QED
    BY <1>1, <1>3 DEF RecordOf

(* The record of a content depends on its row, and on how much is stored    *)
(* under that row's id.                                                     *)
LEMMA SameRecord ==
    ASSUME NEW f \in File, (HashTaken(f) <=> HashTaken(f)'),
           HashTaken(f) => /\ RowOf(f)' = RowOf(f)
                           /\ Persisted(RowOf(f).id)' <=> Persisted(RowOf(f).id)
    PROVE  RecordOf(f)' = RecordOf(f)
    BY DEF RecordOf

(* A step that writes no interchange, and completes none, keeps the records *)
LEMMA RecordKept ==
    ASSUME TypeOK, UNCHANGED interchanges,
           \A r \in Request : Persisted(r)' <=> Persisted(r)
    PROVE  Record' = Record
<1>1. ASSUME NEW f \in File
      PROVE  RecordOf(f)' = RecordOf(f)
    <2>1. /\ HashTaken(f)' <=> HashTaken(f)
          /\ RowOf(f)' = RowOf(f)
        BY DEF HashTaken, RowOf
    <2>2. HashTaken(f) => RowOf(f).id \in Request
        BY DEF HashTaken, RowOf, TypeOK, TablesTypeOK, InterchangeRow
    <2>3. HashTaken(f) => (Persisted(RowOf(f).id)' <=> Persisted(RowOf(f).id))
        BY <2>1, <2>2
    <2> QED
        BY <2>1, <2>3, SameRecord
<1> QED
    BY <1>1 DEF Record

(* The contents whose row another request owns keep their record.           *)
LEMMA OthersKeepTheirRecord ==
    ASSUME TypeOK, RowInv, RowInv', NEW r \in Request, Grows,
           \A row \in interchanges' : row \in interchanges \/ row.id = r,
           \A q \in Request : q # r => (Persisted(q)' <=> Persisted(q)),
           NEW f \in File, f # upload[r]
    PROVE  Record'[f] = Record[f]
<1>1. \A row \in interchanges' : row.hash = f => row \in interchanges /\ row.id # r
    BY DEF RowInv, RowsMatchUploads, Grows
<1>2. HashTaken(f) <=> HashTaken(f)'
    BY <1>1 DEF HashTaken, Grows
<1>3. ASSUME HashTaken(f)
      PROVE  /\ RowOf(f)' = RowOf(f)
             /\ Persisted(RowOf(f).id)' <=> Persisted(RowOf(f).id)
    <2>1. RowOf(f) \in interchanges /\ RowOf(f).hash = f
        BY <1>3 DEF HashTaken, RowOf
    <2>2. RowOf(f)' \in interchanges' /\ RowOf(f)'.hash = f
        BY <1>2, <1>3 DEF HashTaken, RowOf
    <2>3. RowOf(f)' = RowOf(f)
        BY <2>1, <2>2 DEF Grows, RowInv, OneInterchangePerContent
    <2>4. RowOf(f).id \in Request /\ RowOf(f).id # r
        BY <2>1, <1>1 DEF Grows, TypeOK, TablesTypeOK, InterchangeRow
    <2> QED
        BY <2>3, <2>4
<1>4. RecordOf(f)' = RecordOf(f)
    BY <1>2, <1>3, SameRecord
<1> QED
    BY <1>4 DEF Record

(* A request that is being served has told its client nothing.              *)
LEMMA NoReplyYet ==
    ASSUME TypeOK, Unanswered, NEW r \in Request, pc[r] # "answered"
    PROVE  Replies[r] = Contract!NoReply
    BY DEF Unanswered, Pending, Replies, ReplyOf, Contract!NoReply

(* The first row of a content claims it for the request that writes it.     *)
LEMMA ClaimRefines ==
    ASSUME TypeOK, RowInv, RowInv', Unanswered, Grows, NEW r \in Request, NEW status,
           pc[r] \in BeforeRow, InsertInterchange(r, upload[r], status),
           status = IF Shape[upload[r]] = "wellformed" THEN "completed" ELSE "failed",
           UNCHANGED <<topic, result>>
    PROVE  Contract!Claim(r)
<1>0. PICK f \in File : f = upload[r]
    BY DEF TypeOK
<1> DEFINE row == [id |-> r, hash |-> f, status |-> status]
<1>1. ~HashTaken(f)
    BY <1>0 DEF InsertInterchange
<1>2. row \in interchanges' /\ (\A x \in interchanges' : x \in interchanges \/ x.id = r)
    BY <1>0 DEF InsertInterchange
<1>3. \A q \in Request : q # r => (Persisted(q)' <=> Persisted(q))
    BY DEF InsertInterchange, Persisted, Grows
<1>4. r \notin versions
    BY DEF RowInv, VersionsHaveRows, RowsFollowStages, CompletedRow
<1>5. ~Persisted(r)'
    BY <1>4 DEF Persisted, InsertInterchange
<1>6. Record[f] = Contract!Absent
    BY <1>1 DEF Record, RecordOf, Contract!Absent
<1>7. Record'[f] = [id |-> r, state |-> IF Shape[f] = "wellformed"
                                        THEN "incomplete" ELSE "failed"]
    <2>1. HashTaken(f)'
        BY <1>2 DEF HashTaken
    <2>2. RowOf(f)' \in interchanges' /\ RowOf(f)'.hash = f
        BY <2>1 DEF HashTaken, RowOf
    <2>3. RowOf(f)' = row
        BY <1>2, <2>2 DEF RowInv, OneInterchangePerContent
    <2>4. Record'[f] = RecordOf(f)'
        BY DEF Record
    <2>5. RecordOf(f)' = [id |-> r, state |-> IF status = "failed" THEN "failed"
                                              ELSE "incomplete"]
        BY <2>1, <2>3, <1>5 DEF RecordOf
    <2> QED
        BY <2>4, <2>5, <1>0
<1>8. \A g \in File : g # f => Record'[g] = Record[g]
    BY <1>0, <1>2, <1>3, OthersKeepTheirRecord
<1>9. Record' = [Record EXCEPT ![f] =
          [id |-> r, state |-> IF f \in {g \in File : Shape[g] = "wellformed"}
                               THEN "incomplete" ELSE "failed"]]
    BY <1>1, <1>7, <1>8 DEF Record
<1>10. Replies[r] = Contract!NoReply /\ Replies' = Replies
    BY NoReplyYet DEF Replies, ReplyOf, BeforeRow
<1> QED
    BY <1>0, <1>6, <1>9, <1>10 DEF Record, Replies, Contract!Claim, Grows

(* A statement of a request whose row is stored completes its content, or   *)
(* changes nothing the contract sees.                                       *)
LEMMA CompleteRefines ==
    ASSUME TypeOK, RowInv, RowInv', Unanswered, Grows, NEW r \in Request,
           pc[r] \in WithRow, UNCHANGED <<interchanges, topic, result>>,
           \A q \in Request : q # r => (Persisted(q)' <=> Persisted(q))
    PROVE  Contract!Complete(upload[r]) \/ Record' = Record
<1>1. CASE Persisted(r)' <=> Persisted(r)
    BY <1>1, RecordKept
<1>2. CASE ~(Persisted(r)' <=> Persisted(r))
    <2>0. PICK f \in File : f = upload[r]
        BY DEF TypeOK
    <2>1. ~Persisted(r) /\ Persisted(r)'
        BY <1>2, PersistedStays
    <2>2. PICK row \in interchanges :
              row.id = r /\ row.hash = f /\ row.status = "completed"
        BY <2>0 DEF RowInv, RowsFollowStages, CompletedRow
    <2>3. HashTaken(f) /\ RowOf(f) = row
        BY <2>2, RecordOfRow DEF RowInv
    <2>4. RecordOf(f) = [id |-> r, state |-> "incomplete"]
        BY <2>1, <2>2, <2>3 DEF RecordOf
    <2>5. Record[f] = [id |-> r, state |-> "incomplete"]
        BY <2>4 DEF Record
    <2>6. Record'[f] = [id |-> r, state |-> "stored"]
        <3>1. HashTaken(f)' /\ RowOf(f)' = RowOf(f)
            BY <2>3 DEF HashTaken, RowOf
        <3>2. Record'[f] = RecordOf(f)'
            BY DEF Record
        <3>3. RowOf(f).id = r /\ RowOf(f).status = "completed"
            BY <2>2, <2>3
        <3> QED
            BY <3>1, <3>2, <3>3, <2>1 DEF RecordOf
    <2>7. \A g \in File : g # f => Record'[g] = Record[g]
        BY <2>0, OthersKeepTheirRecord
    <2>8. Record' = [Record EXCEPT ![f].state = "stored"]
        <3>1. Record' = [Record EXCEPT ![f] = [id |-> r, state |-> "stored"]]
            BY <2>6, <2>7 DEF Record
        <3>2. [Record[f] EXCEPT !.state = "stored"] = [id |-> r, state |-> "stored"]
            BY <2>5
        <3> QED
            BY <3>1, <3>2
    <2>9. Replies[r] = Contract!NoReply /\ Replies' = Replies
        BY NoReplyYet DEF Replies, ReplyOf, WithRow, WithVersion
    <2> QED
        BY <2>0, <2>5, <2>8, <2>9 DEF Record, Replies, Contract!Complete, Grows
<1> QED
    BY <1>1, <1>2

(* A request that is answered once, with what the contract allows.          *)
LEMMA AnswerRefines ==
    ASSUME TypeOK, Unanswered, NEW r \in Request, pc[r] # "answered",
           NEW res, Return(r, res), UNCHANGED <<upload, topic>>, Record' = Record,
           ReplyOf(r)' \in Contract!Answers(r)
    PROVE  Contract!Answer(r)
<1>1. Replies[r] = Contract!NoReply
    BY NoReplyYet
<1>2. \A q \in Request : q # r => ReplyOf(q)' = ReplyOf(q)
    BY DEF Return, ReplyOf, TypeOK
<1>3. Replies' = [Replies EXCEPT ![r] = ReplyOf(r)']
    BY <1>2 DEF Replies
<1> QED
    BY <1>1, <1>3 DEF Record, Replies, Contract!Answer

(* A step that writes no row and carries on changes nothing the contract    *)
(* sees.                                                                    *)
LEMMA TablesKept ==
    ASSUME TypeOK, UNCHANGED <<tables, upload>>
    PROVE  Record' = Record
    BY RecordKept DEF tables, Persisted

(* What the contract knows of the content of a request that has stored all. *)
LEMMA PersistedRecord ==
    ASSUME TypeOK, RowInv, NEW r \in Request, Persisted(r)
    PROVE  Record[upload[r]] = [id |-> r, state |-> "stored"]
<1>1. PICK row \in interchanges :
          row.id = r /\ row.hash = upload[r] /\ row.status = "completed"
    BY DEF Persisted
<1>2. HashTaken(upload[r]) /\ RowOf(upload[r]) = row
    BY <1>1, RecordOfRow DEF RowInv
<1>3. RecordOf(upload[r]) = [id |-> r, state |-> "stored"]
    BY <1>1, <1>2 DEF RecordOf
<1> QED
    BY <1>3 DEF Record, TypeOK

(* The answer made from a stored row is one the contract allows.            *)
LEMMA ExistingRefines ==
    ASSUME TypeOK, RowInv, Unanswered, NEW r \in Request, pc[r] \in BeforeRow,
           HashTaken(upload[r]), NEW err \in {"none", "duplicate"},
           Return(r, Existing(r, err)), UNCHANGED <<tables, upload, topic>>
    PROVE  Contract!Answer(r)
<1> DEFINE row == RowOf(upload[r])
           held == Record[upload[r]]
           reply == [status |-> row.status, id |-> row.id]
<1>1. row \in interchanges /\ row.hash = upload[r]
    BY DEF HashTaken, RowOf
<1>2. /\ row.id \in Request /\ row.id # r /\ row.status \in Status
      /\ row.status = "failed" => Shape[upload[r]] # "wellformed"
    BY <1>1 DEF RowInv, RowsMatchUploads, RowsFollowStages, TypeOK, TablesTypeOK,
       InterchangeRow, Status
<1>3. RecordOf(upload[r]).id = row.id
      /\ (row.status # "failed" => RecordOf(upload[r]).state \in {"stored", "incomplete"})
    BY DEF RecordOf
<1>4. /\ held.id = row.id
      /\ row.status # "failed" => held.state \in {"stored", "incomplete"}
    BY <1>3 DEF Record, TypeOK
<1>5. ReplyOf(r)' = reply
    BY DEF Return, Existing, ReplyOf, TypeOK
<1>6. reply \in Contract!Answers(r)
    BY <1>2, <1>4 DEF Contract!Answers, Record, Status
<1> QED
    BY <1>5, <1>6, TablesKept, AnswerRefines DEF BeforeRow

(* Every step of the service is a step of the contract, or one it does not  *)
(* see.                                                                     *)
LEMMA StepRefines ==
    ASSUME TypeOK, RowInv, RowInv', TruthInv, Unanswered, [Next]_vars
    PROVE  \/ Contract!Next
           \/ UNCHANGED <<upload, Record, topic, Replies>>
<1> DEFINE Silent == UNCHANGED <<upload, Record, topic, Replies>>
           Goal == Contract!Next \/ Silent
<1>a. UNCHANGED result => Replies' = Replies
    BY DEF Replies, ReplyOf
<1>b. UNCHANGED <<tables, upload, topic, result>> => Silent
    BY <1>a, TablesKept
<1>c. Grows
    BY StepGrows
<1>d. \A r \in Request : Contract!Claim(r) \/ Contract!Announce(r) \/ Contract!Answer(r)
                         => Contract!Next
    BY DEF Contract!Next
<1>e. \A f \in File : Contract!Complete(f) => Contract!Next
    BY DEF Contract!Next
<1> HIDE DEF Silent
<1>1. CASE UNCHANGED vars
    BY <1>1, <1>b DEF vars, Silent
<1>2. ASSUME NEW r \in Request,
             Accept(r) \/ Begin(r) \/ UpsertSelect(r) \/ Commit(r) \/ Disconnect(r)
      PROVE  Goal
    BY <1>2, <1>b DEF Accept, Begin, UpsertSelect, Commit, Disconnect
<1>3. CASE Crash
    BY <1>3, <1>b DEF Crash, Silent
<1>4. ASSUME NEW r \in Request, Reject(r) \/ Abort(r)
      PROVE  Goal
    <2>1. PICK err \in {"tooLarge", "internal"} : Return(r, [Pending EXCEPT !.err = err])
        BY <1>4 DEF Reject, Rejection, Abort
    <2>2. pc[r] # "answered" /\ UNCHANGED <<tables, upload, topic>>
        BY <1>4 DEF Reject, Abort
    <2>3. ReplyOf(r)' = Contract!Error
        BY <2>1 DEF Return, Pending, ReplyOf, TypeOK, Contract!Error
    <2>4. Contract!Answer(r)
        BY <2>1, <2>2, <2>3, TablesKept, AnswerRefines DEF Contract!Answers
    <2> QED
        BY <2>4, <1>d
<1>5. ASSUME NEW r \in Request, LookUp(r) \/ Recover(r)
      PROVE  Goal
    <2>1. pc[r] \in BeforeRow /\ UNCHANGED <<tables, upload, topic>>
        BY <1>5 DEF LookUp, Recover, BeforeRow
    <2>2. \/ UNCHANGED result
          \/ \E err \in {"none", "duplicate"} :
                 HashTaken(upload[r]) /\ Return(r, Existing(r, err))
        BY <1>5 DEF LookUp, Recover
    <2> QED
        BY <2>1, <2>2, <1>b, <1>d, ExistingRefines
<1>6. ASSUME NEW r \in Request, StoreFailed(r)
      PROVE  Goal
    <2>1. CASE InsertInterchange(r, upload[r], "failed")
        BY <1>6, <2>1, <1>c, <1>d, ClaimRefines
           DEF StoreFailed, BeforeRow, RowInv, ShapeDecidesPath
    <2>2. CASE UNCHANGED tables
        BY <1>6, <2>2, <1>b DEF StoreFailed
    <2> QED
        BY <1>6, <2>1, <2>2 DEF StoreFailed
<1>7. ASSUME NEW r \in Request, Store(r)
      PROVE  Goal
    <2>1. CASE InsertInterchange(r, upload[r], "completed")
        BY <1>7, <2>1, <1>c, <1>d, ClaimRefines
           DEF Store, BeforeRow, RowInv, ShapeDecidesPath
    <2>2. CASE UNCHANGED tables
        BY <1>7, <2>2, <1>b DEF Store
    <2> QED
        BY <1>7, <2>1, <2>2 DEF Store, Write
<1>8. ASSUME NEW r \in Request, CreateVersion(r) \/ BulkCreate(r)
      PROVE  Goal
    <2>1. pc[r] \in WithRow /\ UNCHANGED <<upload, topic, result>>
        BY <1>8 DEF CreateVersion, BulkCreate, WithRow, WithVersion
    <2>2. CASE UNCHANGED tables
        BY <2>1, <2>2, <1>b
    <2>3. CASE InsertVersion(r) \/ InsertMessages(MessageRows(r))
        <3>1. UNCHANGED interchanges
            BY <2>3 DEF InsertVersion, InsertMessages
        <3>2. \A q \in Request : q # r => (Persisted(q)' <=> Persisted(q))
            BY <2>1, <2>3 DEF InsertVersion, InsertMessages, MessageRows, Persisted
        <3>3. Contract!Complete(upload[r]) \/ Record' = Record
            BY <2>1, <3>1, <3>2, <1>c, CompleteRefines
        <3>4. upload[r] \in File
            BY DEF TypeOK
        <3> QED
            BY <2>1, <3>3, <3>4, <1>a, <1>e DEF Silent
    <2> QED
        BY <1>8, <2>2, <2>3 DEF CreateVersion, BulkCreate, Write
<1>9. ASSUME NEW r \in Request, UpsertInsert(r)
      PROVE  Goal
    <2>1. UNCHANGED <<interchanges, versions, messages, upload, topic, result>>
        BY <1>9 DEF UpsertInsert, Write, InsertSubscription, tables
    <2>2. \A q \in Request : Persisted(q)' <=> Persisted(q)
        BY <2>1 DEF Persisted
    <2> QED
        BY <2>1, <2>2, <1>a, RecordKept DEF Silent
<1>10. ASSUME NEW r \in Request, PublishFailed(r) \/ PublishIngested(r)
      PROVE  Goal
    <2>1. /\ pc[r] # "answered"
          /\ UNCHANGED <<tables, upload, result>>
        BY <1>10 DEF PublishFailed, PublishIngested
    <2>2. Replies[r] = Contract!NoReply /\ Replies' = Replies /\ Record' = Record
        BY <2>1, <1>a, NoReplyYet, TablesKept
    <2>3. CASE PublishFailed(r)
        <3>1. Shape[upload[r]] = "malformed"
            BY <2>3 DEF PublishFailed, RowInv, ShapeDecidesPath
        <3>2. PICK sent \in SUBSET {[type |-> "interchange.failed", id |-> r]} :
                  topic' = topic \cup sent
            BY <2>3 DEF PublishFailed, Deliver
        <3>3. \A e \in sent : e \in Contract!Event /\ e.id = r /\ Contract!Truthful(e)
            BY <3>1, <3>2 DEF Contract!Event, Contract!Truthful
        <3>4. sent \in SUBSET {e \in Contract!Event : e.id = r /\ Contract!Truthful(e)}
            BY <3>3
        <3>5. Contract!Announce(r)
            BY <2>1, <2>2, <3>2, <3>4 DEF Contract!Announce, Record, Replies
        <3> QED
            BY <3>5, <1>d
    <2>4. CASE PublishIngested(r)
        <3>1. Record[upload[r]] = [id |-> r, state |-> "stored"]
            BY <2>4, PersistedRecord DEF PublishIngested, TruthInv, Done
        <3>2. PICK sent \in SUBSET [type : {"interchange.ingested", "version.created"},
                                    id : {r}] :
                  topic' = topic \cup sent
            BY <2>4 DEF PublishIngested, Deliver
        <3>3. \A e \in sent : e \in Contract!Event /\ e.id = r /\ Contract!Truthful(e)
            BY <3>1, <3>2 DEF Contract!Event, Contract!Truthful, Record
        <3>4. sent \in SUBSET {e \in Contract!Event : e.id = r /\ Contract!Truthful(e)}
            BY <3>3
        <3>5. Contract!Announce(r)
            BY <2>1, <2>2, <3>2, <3>4 DEF Contract!Announce, Record, Replies
        <3> QED
            BY <3>5, <1>d
    <2> QED
        BY <1>10, <2>3, <2>4
<1>11. ASSUME NEW r \in Request, Reply(r)
      PROVE  Goal
    <2>1. /\ pc[r] = "reply" /\ Return(r, Own(r))
          /\ UNCHANGED <<tables, upload, topic>>
        BY <1>11 DEF Reply
    <2>2. ReplyOf(r)' = [status |-> Own(r).status, id |-> r]
        BY <2>1 DEF Return, Own, ReplyOf, TypeOK
    <2>3. CASE Shape[upload[r]] = "malformed"
        <3>1. ReplyOf(r)' = [status |-> "failed", id |-> r]
            BY <2>2, <2>3 DEF Own
        <3>2. ReplyOf(r)' \in Contract!Answers(r)
            BY <2>3, <3>1 DEF Contract!Answers
        <3> QED
            BY <2>1, <3>2, <1>d, TablesKept, AnswerRefines
    <2>4. CASE Shape[upload[r]] = "wellformed"
        <3>1. Record[upload[r]] = [id |-> r, state |-> "stored"]
            BY <2>1, <2>4, PersistedRecord DEF TruthInv, Done
        <3>2. ReplyOf(r)' \in Contract!Answers(r)
            BY <2>2, <2>4, <3>1 DEF Own, Contract!Answers, Record
        <3> QED
            BY <2>1, <3>2, <1>d, TablesKept, AnswerRefines
    <2> QED
        BY <2>1, <2>3, <2>4 DEF RowInv, ShapeDecidesPath
<1> QED
    BY <1>1, <1>2, <1>3, <1>4, <1>5, <1>6, <1>7, <1>8, <1>9, <1>10, <1>11
    DEF Next, Serve, Silent

(* The service keeps the contract: whatever fails, races, disconnects or    *)
(* crashes, a content is claimed once and filled in once, before its        *)
(* claimant is answered, and every answer and event is true when it leaves. *)
THEOREM Refinement == Spec => ImplementsContract
<1>1. Init => Contract!Init
    BY DEF Init, EmptyTables, Contract!Init, Contract!Absent, Contract!NoReply,
       RecordOf, HashTaken, ReplyOf, Pending
<1>2. Init => Unanswered
    BY DEF Init, Unanswered
<1>3. TypeOK /\ RowInv /\ RowInv' /\ TruthInv /\ Unanswered /\ [Next]_vars
      => [Contract!Next]_(Contract!vars)
    BY StepRefines DEF Contract!vars, Record, Replies
<1> QED
    BY <1>1, <1>2, <1>3, UnansweredStep, TypeCorrect, InvariantsHold, PTL
    DEF Spec, ImplementsContract, Contract!Spec

-------------------------------------------------------------------------------
(* No request goes back *)

Identifiers(r) == Len(SubsOf[upload[r]])

(* The steps a request has before it at a stage, at most, when the upsert   *)
(* loop is at identifier i.                                                 *)
Rest(r, stage, i) ==
    CASE stage \in {"answered", "lost"}                -> 0
      [] stage \in {"abort", "reply", "parse"}         -> 1
      [] stage \in {"publishFailed", "publish", "recover"} -> 2
      [] stage \in {"storeFailed", "commit"}           -> 3
      [] stage = "bulk"      -> 4
      [] stage = "selectSub" -> 3 + 2 * (Identifiers(r) + 1 - i)
      [] stage = "insertSub" -> 4 + 2 * (Identifiers(r) + 1 - i)
      [] stage = "version"   -> 5 + 2 * Identifiers(r)
      [] stage = "store"     -> 6 + 2 * Identifiers(r)
      [] stage = "begin"     -> 7 + 2 * Identifiers(r)
      [] stage = "lookup"    -> 8 + 2 * Identifiers(r)
      [] OTHER               -> 9 + 2 * Identifiers(r)

Left(r) == Rest(r, pc[r], index[r])

\* stage by stage
LEMMA RestIs ==
    ASSUME NEW r \in Request, NEW i
    PROVE  /\ Rest(r, "idle", i) = 9 + 2 * Identifiers(r)
           /\ Rest(r, "lookup", i) = 8 + 2 * Identifiers(r)
           /\ Rest(r, "begin", i) = 7 + 2 * Identifiers(r)
           /\ Rest(r, "store", i) = 6 + 2 * Identifiers(r)
           /\ Rest(r, "version", i) = 5 + 2 * Identifiers(r)
           /\ Rest(r, "insertSub", i) = 4 + 2 * (Identifiers(r) + 1 - i)
           /\ Rest(r, "selectSub", i) = 3 + 2 * (Identifiers(r) + 1 - i)
           /\ Rest(r, "bulk", i) = 4
           /\ Rest(r, "commit", i) = 3 /\ Rest(r, "storeFailed", i) = 3
           /\ Rest(r, "publish", i) = 2 /\ Rest(r, "publishFailed", i) = 2
           /\ Rest(r, "recover", i) = 2
           /\ Rest(r, "reply", i) = 1 /\ Rest(r, "abort", i) = 1
           /\ Rest(r, "parse", i) = 1
           /\ Rest(r, "answered", i) = 0 /\ Rest(r, "lost", i) = 0
    BY DEF Rest

LEMMA LeftIsNatural == TypeOK => \A r \in Request : Left(r) \in Nat
<1> SUFFICES ASSUME TypeOK, NEW r \in Request
             PROVE  Left(r) \in Nat
    OBVIOUS
<1>1. Identifiers(r) \in Nat /\ index[r] \in Nat /\ index[r] >= 1
    BY IngestionAssumption DEF TypeOK, Identifiers
<1>2. pc[r] \in {"insertSub", "selectSub"} => Identifiers(r) + 1 - index[r] \in Nat
    BY <1>1 DEF TypeOK, Identifiers
<1> QED
    BY <1>1, <1>2 DEF Left, Rest

\* a step of one request to a later stage
GoesOn(r) ==
    \E stage \in Stages :
        /\ Goto(r, stage)
        /\ upload' = upload
        /\ \A q \in Request \ {r} : index'[q] = index[q]
        /\ Rest(r, stage, index'[r]) < Left(r)

LEMMA GoingOn ==
    ASSUME TypeOK, NEW r \in Request, GoesOn(r)
    PROVE  /\ Left(r)' < Left(r)
           /\ \A q \in Request \ {r} : Left(q)' = Left(q)
<1>1. PICK stage \in Stages :
          /\ pc' = [pc EXCEPT ![r] = stage]
          /\ upload' = upload
          /\ \A q \in Request \ {r} : index'[q] = index[q]
          /\ Rest(r, stage, index'[r]) < Left(r)
    BY DEF GoesOn, Goto
<1>2. pc'[r] = stage /\ \A q \in Request \ {r} : pc'[q] = pc[q]
    BY <1>1 DEF TypeOK
<1>3. Left(r)' = Rest(r, stage, index'[r])
    BY <1>1, <1>2 DEF Left, Rest, Identifiers
<1>4. ASSUME NEW q \in Request \ {r}
      PROVE  Left(q)' = Left(q)
    BY <1>1, <1>2, <1>4 DEF Left, Rest, Identifiers
<1> QED
    BY <1>1, <1>3, <1>4

(* Every step the service takes for a request brings it to a later stage,   *)
(* or to the next identifier of the upsert loop (ingestion_service.go:      *)
(* 138-321).                                                                *)
LEMMA ServingGoesOn ==
    ASSUME TypeOK, NEW r \in Request, Reject(r) \/ Accept(r) \/ Serve(r)
    PROVE  GoesOn(r)
<1> DEFINE n == Identifiers(r)
           i == index[r]
<1>1. /\ n \in Nat /\ i \in Nat /\ i >= 1
      /\ n = Len(SubsOf[upload[r]])
      /\ pc[r] \in {"insertSub", "selectSub"} => i <= n
      /\ index \in [Request -> Nat \ {0}]
    BY IngestionAssumption DEF TypeOK, Identifiers
<1> DEFINE m == 2 * n
           d == 2 * (n + 1 - i)
<1>d. /\ m \in Nat
      /\ i <= n => d \in Nat /\ d >= 2
      /\ i <= n => 2 * (n + 1 - (i + 1)) = d - 2
    BY <1>1
<1>e. 2 * (n + 1 - 1) = m
    BY <1>1
<1> HIDE DEF n
<1>2. ASSUME NEW stage \in Stages, Goto(r, stage), upload' = upload, index' = index,
             Rest(r, stage, i) < Rest(r, pc[r], i)
      PROVE  GoesOn(r)
    BY <1>2 DEF GoesOn, Left
<1>v. /\ Rest(r, "idle", i) = 9 + m /\ Rest(r, "lookup", i) = 8 + m
      /\ Rest(r, "begin", i) = 7 + m /\ Rest(r, "store", i) = 6 + m
      /\ Rest(r, "version", i) = 5 + m /\ Rest(r, "bulk", i) = 4
      /\ Rest(r, "insertSub", i) = 4 + d
      /\ Rest(r, "selectSub", i) = 3 + d
      /\ Rest(r, "commit", i) = 3 /\ Rest(r, "storeFailed", i) = 3
      /\ Rest(r, "publish", i) = 2 /\ Rest(r, "publishFailed", i) = 2
      /\ Rest(r, "recover", i) = 2 /\ Rest(r, "reply", i) = 1
      /\ Rest(r, "abort", i) = 1 /\ Rest(r, "answered", i) = 0
      /\ Rest(r, "parse", i) = 1
    BY RestIs DEF n
<1> HIDE DEF m, d
<1> DEFINE Lower(from, to) == Rest(r, to, i) < Rest(r, from, i)
<1>l. /\ Lower("idle", "answered") /\ Lower("idle", "lookup")
      /\ Lower("lookup", "answered") /\ Lower("lookup", "storeFailed")
      /\ Lower("lookup", "begin") /\ Lower("lookup", "parse")
      /\ Lower("storeFailed", "publishFailed") /\ Lower("publishFailed", "reply")
      /\ Lower("begin", "store") /\ Lower("begin", "abort")
      /\ Lower("store", "version") /\ Lower("store", "recover") /\ Lower("store", "abort")
      /\ Lower("recover", "answered") /\ Lower("recover", "abort")
      /\ Lower("bulk", "commit") /\ Lower("bulk", "abort")
      /\ Lower("commit", "publish") /\ Lower("commit", "abort")
      /\ Lower("publish", "reply")
      /\ Lower("reply", "answered") /\ Lower("abort", "answered")
    BY <1>d, <1>v
<1>m. i <= n => /\ Lower("insertSub", "selectSub") /\ Lower("insertSub", "abort")
                /\ Lower("selectSub", "abort")
    BY <1>d, <1>v
<1> HIDE DEF Lower
<1>g. ASSUME NEW stage \in Stages, Goto(r, stage), upload' = upload, index' = index,
             Lower(pc[r], stage)
      PROVE  GoesOn(r)
    BY <1>2, <1>g DEF Lower
<1>s. Stages = {"idle", "answered", "lost", "lookup", "parse", "storeFailed", "publishFailed", "begin",
                "store", "recover", "version", "insertSub", "selectSub", "bulk", "commit",
                "publish", "reply", "abort"}
    BY DEF Stages, Working
<1>3. CASE Reject(r) \/ Accept(r)
    <2>1. \E stage \in {"answered", "lookup"} : Goto(r, stage)
        BY <1>3 DEF Reject, Accept, Return
    <2>2. upload' = upload /\ index' = index /\ pc[r] = "idle"
        BY <1>3 DEF Reject, Accept, local
    <2> QED
        BY <1>g, <1>l, <1>s, <2>1, <2>2
<1>4. CASE LookUp(r) \/ StoreFailed(r) \/ PublishFailed(r) \/ Begin(r)
    <2>1. \/ pc[r] = "lookup" /\ \E stage \in {"answered", "parse", "storeFailed", "begin"} :
                                    Goto(r, stage)
          \/ pc[r] = "storeFailed" /\ Goto(r, "publishFailed")
          \/ pc[r] = "publishFailed" /\ Goto(r, "reply")
          \/ pc[r] = "begin" /\ \E stage \in {"store", "abort"} : Goto(r, stage)
        BY <1>4 DEF LookUp, AfterParse, StoreFailed, PublishFailed, Begin, Return
    <2>2. upload' = upload /\ index' = index
        BY <1>4 DEF LookUp, StoreFailed, PublishFailed, Begin, local
    <2> QED
        BY <1>g, <1>l, <1>s, <2>1, <2>2
<1>5. CASE Store(r) \/ Recover(r) \/ UpsertInsert(r) \/ BulkCreate(r)
    <2>1. \/ pc[r] = "store" /\ \E stage \in {"version", "recover", "abort"} : Goto(r, stage)
          \/ pc[r] = "recover" /\ \E stage \in {"answered", "abort"} : Goto(r, stage)
          \/ pc[r] = "insertSub" /\ \E stage \in {"selectSub", "abort"} : Goto(r, stage)
          \/ pc[r] = "bulk" /\ \E stage \in {"commit", "abort"} : Goto(r, stage)
        BY <1>5 DEF Store, Recover, UpsertInsert, BulkCreate, Write, Return
    <2>2. upload' = upload /\ index' = index
        BY <1>5 DEF Store, Recover, UpsertInsert, BulkCreate, local
    <2> QED
        BY <1>1, <1>g, <1>l, <1>m, <1>s, <2>1, <2>2
<1>6. CASE Commit(r) \/ PublishIngested(r) \/ Reply(r) \/ Abort(r)
    <2>1. \/ pc[r] = "commit" /\ \E stage \in {"publish", "abort"} : Goto(r, stage)
          \/ pc[r] = "publish" /\ Goto(r, "reply")
          \/ pc[r] \in {"reply", "abort"} /\ Goto(r, "answered")
        BY <1>6 DEF Commit, PublishIngested, Reply, Abort, Return
    <2>2. upload' = upload /\ index' = index
        BY <1>6 DEF Commit, PublishIngested, Reply, Abort, local
    <2> QED
        BY <1>g, <1>l, <1>s, <2>1, <2>2
<1>7. CASE CreateVersion(r)
    <2>1. PICK stage \in {AfterUpserts(r, 1), "abort"} : Goto(r, stage)
        BY <1>7 DEF CreateVersion, Write
    <2>2. /\ upload' = upload /\ pc[r] = "version"
          /\ index' = [index EXCEPT ![r] = 1]
        BY <1>7 DEF CreateVersion, EnterLoop
    <2>3. stage \in {"insertSub", "bulk", "commit", "abort"} /\ stage \in Stages
        BY <2>1, AfterUpsertsStays DEF Stages, Working
    <2>4. index'[r] = 1 /\ \A q \in Request \ {r} : index'[q] = index[q]
        BY <1>1, <2>2
    <2>5. Rest(r, stage, 1) < Rest(r, pc[r], i)
        <3>1. /\ Rest(r, "insertSub", 1) = 4 + 2 * (n + 1 - 1) /\ Rest(r, "bulk", 1) = 4
              /\ Rest(r, "commit", 1) = 3 /\ Rest(r, "abort", 1) = 1
            BY RestIs DEF n
        <3>2. /\ Rest(r, "insertSub", 1) < Rest(r, "version", i)
              /\ Rest(r, "bulk", 1) < Rest(r, "version", i)
              /\ Rest(r, "commit", 1) < Rest(r, "version", i)
              /\ Rest(r, "abort", 1) < Rest(r, "version", i)
            BY <1>d, <1>e, <1>v, <3>1
        <3> QED
            BY <2>2, <2>3, <3>2
    <2> QED
        BY <2>1, <2>2, <2>3, <2>4, <2>5 DEF GoesOn, Left
<1>8. CASE UpsertSelect(r)
    <2>1. pc[r] = "selectSub" /\ upload' = upload
        BY <1>8 DEF UpsertSelect
    <2>2. CASE Goto(r, "abort") /\ index' = index
        BY <1>1, <1>g, <1>m, <1>s, <2>1, <2>2
    <2>3. CASE /\ Goto(r, AfterUpserts(r, i + 1))
               /\ index' = [index EXCEPT ![r] = i + 1]
        <3> DEFINE stage == AfterUpserts(r, i + 1)
        <3>1. stage \in {"insertSub", "bulk", "commit"} /\ stage \in Stages
            BY AfterUpsertsStays DEF Stages, Working
        <3>2. index'[r] = i + 1 /\ \A q \in Request \ {r} : index'[q] = index[q]
            BY <1>1, <2>3
        <3> HIDE DEF stage
        <3>3. Rest(r, stage, i + 1) < Rest(r, pc[r], i)
            <4>1. /\ Rest(r, "insertSub", i + 1) = 4 + 2 * (n + 1 - (i + 1))
                  /\ Rest(r, "bulk", i + 1) = 4 /\ Rest(r, "commit", i + 1) = 3
                BY RestIs DEF n
            <4>2. i <= n
                BY <1>1, <2>1
            <4>3. /\ Rest(r, "insertSub", i + 1) < Rest(r, "selectSub", i)
                  /\ Rest(r, "bulk", i + 1) < Rest(r, "selectSub", i)
                  /\ Rest(r, "commit", i + 1) < Rest(r, "selectSub", i)
                BY <1>d, <1>v, <4>1, <4>2
            <4> QED
                BY <2>1, <3>1, <4>3
        <3>4. Goto(r, stage)
            BY <2>3 DEF stage
        <3> QED
            BY <2>1, <3>1, <3>2, <3>3, <3>4 DEF GoesOn, Left
    <2> QED
        BY <1>8, <2>2, <2>3 DEF UpsertSelect, local
<1> QED
    BY <1>3, <1>4, <1>5, <1>6, <1>7, <1>8 DEF Serve

(* No request ever goes back or repeats a statement, whatever fails, races  *)
(* or disconnects: a stage is left for a later one, and from the upload to  *)
(* the answer there are at most 9 steps and 2 for each identifier in the    *)
(* content.  The service has no retry (ingestion_service.go:138-321).       *)
OnlyForward == \A r \in Request : pc'[r] = pc[r] \/ Left(r)' < Left(r)

THEOREM NoRequestGoesBack ==
    Spec => [](\A r \in Request : Left(r) \in Nat) /\ [][OnlyForward]_vars
<1>1. TypeOK /\ [Next]_vars => [OnlyForward]_vars
    <2> SUFFICES ASSUME TypeOK, Next
                 PROVE  OnlyForward
        OBVIOUS
    <2>1. ASSUME NEW r \in Request, Reject(r) \/ Accept(r) \/ Serve(r)
          PROVE  OnlyForward
        <3>1. GoesOn(r)
            BY <2>1, ServingGoesOn
        <3>2. PICK stage : pc' = [pc EXCEPT ![r] = stage]
            BY <3>1 DEF GoesOn, Goto
        <3>3. \A q \in Request \ {r} : pc'[q] = pc[q]
            BY <3>2 DEF TypeOK
        <3> QED
            BY <3>1, <3>3, GoingOn DEF OnlyForward
    <2>2. ASSUME NEW r \in Request, Disconnect(r)
          PROVE  OnlyForward
        BY <2>2 DEF Disconnect, OnlyForward
    <2>3. CASE Crash
        <3> SUFFICES ASSUME NEW r \in Request, pc'[r] # pc[r]
                     PROVE  Left(r)' < Left(r)
            BY DEF OnlyForward
        <3>1. pc[r] \in Working /\ pc'[r] = "lost"
            BY <2>3 DEF Crash, InFlight
        <3>2. Left(r)' = 0
            BY <3>1 DEF Left, Rest
        <3>3. Identifiers(r) \in Nat /\ index[r] \in Nat
            BY IngestionAssumption DEF TypeOK, Identifiers
        <3>4. pc[r] \in {"insertSub", "selectSub"} => Identifiers(r) + 1 - index[r] \in Nat
            BY <3>3 DEF TypeOK, Identifiers
        <3>5. Left(r) \in Nat \ {0}
            BY <3>1, <3>3, <3>4 DEF Left, Rest, Working
        <3> QED
            BY <3>2, <3>5
    <2> QED
        BY <2>1, <2>2, <2>3 DEF Next
<1> QED
    BY <1>1, LeftIsNatural, TypeCorrect, PTL DEF Spec
===============================================================================
