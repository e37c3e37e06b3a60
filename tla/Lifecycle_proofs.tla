---------------------------- MODULE Lifecycle_proofs ----------------------------
(***************************************************************************)
(* Proofs about the life of the process: what a shutdown closes, in which  *)
(* order, and what it does to the uploads that run meanwhile.              *)
(***************************************************************************)
EXTENDS Lifecycle, TLAPS

(* The clean-up functions of a process that is built, in their order *)
Order == <<"meterProvider", "database", "kafkaWriter", "tracer", "httpServer">>

(* How many of them are registered before option number n *)
RegisteredBefore(n) ==
    CASE n < 4  -> 0
      [] n = 4  -> 1
      [] n = 5  -> 2
      [] n = 6  -> 3
      [] n \in {7, 8} -> 4
      [] OTHER  -> 5

From(i) == {Order[j] : j \in i .. 5}

(* The options applied so far are those that have registered a function. *)
BuildInv ==
    /\ Len(cleanupFuncs) = RegisteredBefore(next)
    /\ \A i \in 1 .. Len(cleanupFuncs) : cleanupFuncs[i] = Order[i]
    /\ pc = "build" => next \in 1 .. 8
    /\ pc \notin {"build", "over"} => next = 9
    /\ pc = "closing" => idx # 0

(* cleanup has called what lies above its index, and nothing else. *)
CloseInv ==
    /\ pc \in {"build", "listen", "hook", "select", "shutdown"} => closed = {}
    /\ pc = "cleanup" => closed = From(idx + 1)
    /\ pc = "closing" => closed = From(idx)
    /\ pc = "returned" => closed = Registers
    /\ exit = "clean" => pc = "over" /\ next = 9 /\ closed = Registers
    /\ "httpServer" \in closed => serve # "serving"

(* Past the server, before its deadline *)
Outlasted ==
    \/ ~(closed \subseteq {"httpServer"})
    \/ pc = "cleanup" /\ idx < 5

PastDatabase ==
    \/ pc \in {"cleanup", "closing"} /\ idx < 2
    \/ pc = "returned"
    \/ exit = "clean"

(* Once the server's clean-up has returned in time no handler runs, so none *)
(* meets a closed writer; once the pool's has returned none holds a         *)
(* connection.                                                              *)
HandlerInv ==
    /\ pc \in {"build", "listen", "hook", "select", "shutdown"} => timer = "off"
    /\ timer # "expired" /\ Outlasted => Running = {}
    /\ timer # "expired" => \A r \in Request : event[r] # "refused"
    /\ PastDatabase => Holding = {}
    /\ PastDatabase => "database" \in closed

-------------------------------------------------------------------------------
(* Type correctness *)

MainTypeOK ==
    /\ pc \in {"build", "listen", "hook", "select", "shutdown", "cleanup",
               "closing", "returned", "over"}
    /\ next \in 1 .. 9
    /\ cleanupFuncs \in Seq(Registers)
    /\ idx \in Nat
    /\ idx <= Len(cleanupFuncs)
    /\ closed \subseteq Registers

StopTypeOK ==
    /\ serve \in {"none", "starting", "serving", "failed", "closed"}
    /\ stopped \in BOOLEAN
    /\ buffered \in 0 .. 1
    /\ noticed \in BOOLEAN
    /\ signals \in 0 .. MaxSignals
    /\ timer \in {"off", "running", "expired", "cancelled"}

UploadTypeOK ==
    /\ request \in [Request -> {"none", "accepted", "inTransaction", "stored",
                                "committed", "ok", "error"}]
    /\ event \in [Request -> {"none", "published", "failed", "refused"}]
    /\ exit \in {"none", "clean", "forced", "fatal", "killed", "panic"}

MainInv == MainTypeOK /\ BuildInv

LEMMA TypeParts == TypeOK <=> MainTypeOK /\ StopTypeOK /\ UploadTypeOK
<1>1. Len(Options) = 8
    BY DEF Options
<1>2. ASSUME NEW f \in Seq(Registers)
      PROVE  Len(f) \in Nat
    OBVIOUS
<1>3. (next \in 1 .. Len(Options) + 1) <=> next \in 1 .. 9
    BY <1>1
<1>4. ASSUME cleanupFuncs \in Seq(Registers)
      PROVE  (idx \in 0 .. Len(cleanupFuncs)) <=> (idx \in Nat /\ idx <= Len(cleanupFuncs))
    BY <1>2, <1>4
<1> QED
    BY <1>3, <1>4 DEF TypeOK, MainTypeOK, StopTypeOK, UploadTypeOK

(* Facts about the options and their order *)

LEMMA OptionValues ==
    /\ Len(Options) = 8
    /\ Options[1] = "config" /\ Options[2] = "resource"
    /\ Options[3] = "meterProvider" /\ Options[4] = "database"
    /\ Options[5] = "kafkaWriter" /\ Options[6] = "tracer"
    /\ Options[7] = "application" /\ Options[8] = "httpServer"
BY DEF Options

LEMMA OrderValues ==
    /\ Order[1] = "meterProvider" /\ Order[2] = "database"
    /\ Order[3] = "kafkaWriter" /\ Order[4] = "tracer"
    /\ Order[5] = "httpServer"
BY DEF Order

LEMMA CountValues ==
    /\ RegisteredBefore(1) = 0 /\ RegisteredBefore(2) = 0
    /\ RegisteredBefore(3) = 0 /\ RegisteredBefore(4) = 1
    /\ RegisteredBefore(5) = 2 /\ RegisteredBefore(6) = 3
    /\ RegisteredBefore(7) = 4 /\ RegisteredBefore(8) = 4
    /\ RegisteredBefore(9) = 5
BY DEF RegisteredBefore

LEMMA OptionFacts ==
    ASSUME NEW n \in 1 .. 8
    PROVE  /\ Options[n] \in Registers =>
                  /\ RegisteredBefore(n + 1) = RegisteredBefore(n) + 1
                  /\ Order[RegisteredBefore(n) + 1] = Options[n]
           /\ Options[n] \notin Registers => RegisteredBefore(n + 1) = RegisteredBefore(n)
           /\ RegisteredBefore(n) \in 0 .. 4
<1> USE OptionValues, OrderValues, CountValues DEF Registers
<1>1. CASE n = 1
    BY <1>1
<1>2. CASE n = 2
    BY <1>2
<1>3. CASE n = 3
    BY <1>3
<1>4. CASE n = 4
    BY <1>4
<1>5. CASE n = 5
    BY <1>5
<1>6. CASE n = 6
    BY <1>6
<1>7. CASE n = 7
    BY <1>7
<1>8. CASE n = 8
    BY <1>8
<1> QED
    BY <1>1, <1>2, <1>3, <1>4, <1>5, <1>6, <1>7, <1>8

LEMMA FromFacts ==
    /\ From(6) = {}
    /\ From(1) = Registers
    /\ \A i \in 1 .. 5 :
           /\ From(i) = From(i + 1) \cup {Order[i]}
           /\ Order[i] \in Registers
           /\ i <= 2 => "database" \in From(i)
           /\ "httpServer" \in From(i)
           /\ i = 5 <=> From(i) \subseteq {"httpServer"}
<1> USE DEF From
<1>1. From(6) = {}
    OBVIOUS
<1>2. ASSUME NEW i \in 1 .. 5
      PROVE  From(i) = From(i + 1) \cup {Order[i]}
    <2>1. i .. 5 = {i} \cup (i + 1 .. 5)
        OBVIOUS
    <2> QED
        BY <2>1
<1>3. /\ From(5) = {Order[5]}
      /\ From(4) = From(5) \cup {Order[4]}
      /\ From(3) = From(4) \cup {Order[3]}
      /\ From(2) = From(3) \cup {Order[2]}
      /\ From(1) = From(2) \cup {Order[1]}
    BY <1>1, <1>2
<1> HIDE DEF From
<1>4. From(1) = Registers
    BY <1>3, OrderValues DEF Registers
<1>5. ASSUME NEW i \in 1 .. 5
      PROVE  /\ Order[i] \in Registers
             /\ i <= 2 => "database" \in From(i)
             /\ "httpServer" \in From(i)
             /\ i = 5 <=> From(i) \subseteq {"httpServer"}
    <2>1. i = 1 \/ i = 2 \/ i = 3 \/ i = 4 \/ i = 5
        OBVIOUS
    <2> QED
        BY <2>1, <1>3, OrderValues DEF Registers
<1> QED
    BY <1>1, <1>2, <1>4, <1>5

-------------------------------------------------------------------------------
(* The options that were applied have registered their functions, in order. *)
LEMMA BuildStep ==
    MainInv /\ [Next]_vars => MainInv'
<1> SUFFICES ASSUME MainInv, [Next]_vars
             PROVE  MainInv'
    OBVIOUS
<1> USE DEF MainInv, MainTypeOK, BuildInv, main, stopping, Exit
<1>1. CASE UNCHANGED vars
    BY <1>1 DEF vars
<1>2. CASE ApplyOption
    <2> DEFINE option == Options[next]
    <2>1. next \in 1 .. 8 /\ Len(Options) = 8
        BY <1>2 DEF ApplyOption, Options
    <2>2. RegisteredBefore(next) \in 0 .. 4
        BY <2>1, OptionFacts
    <2>3. UNCHANGED <<idx, closed>>
        BY <1>2 DEF ApplyOption
    <2>4. CASE option \in MayFail /\ pc' = "over" /\ UNCHANGED <<next, cleanupFuncs>>
        BY <2>3, <2>4
    <2>5. CASE /\ cleanupFuncs' = IF option \in Registers
                                  THEN Append(cleanupFuncs, option) ELSE cleanupFuncs
               /\ next' = next + 1
               /\ pc' = IF next = Len(Options) THEN "listen" ELSE "build"
        <3>1. CASE option \in Registers
            <4>1. /\ cleanupFuncs' = Append(cleanupFuncs, option)
                  /\ cleanupFuncs' \in Seq(Registers)
                  /\ Len(cleanupFuncs') = Len(cleanupFuncs) + 1
                  /\ \A i \in 1 .. Len(cleanupFuncs) : cleanupFuncs'[i] = cleanupFuncs[i]
                  /\ cleanupFuncs'[Len(cleanupFuncs) + 1] = option
                BY <2>5, <3>1
            <4>2. /\ RegisteredBefore(next') = RegisteredBefore(next) + 1
                  /\ Order[RegisteredBefore(next) + 1] = option
                BY <2>1, <2>5, <3>1, OptionFacts
            <4>3. \A i \in 1 .. Len(cleanupFuncs') : cleanupFuncs'[i] = Order[i]
                BY <4>1, <4>2, <2>2
            <4> QED
                BY <2>1, <2>2, <2>3, <2>5, <4>1, <4>2, <4>3
        <3>2. CASE option \notin Registers
            <4>1. RegisteredBefore(next') = RegisteredBefore(next)
                BY <2>1, <2>5, <3>2, OptionFacts
            <4> QED
                BY <2>1, <2>3, <2>5, <3>2, <4>1
        <3> QED
            BY <3>1, <3>2
    <2> QED
        BY <1>2, <2>4, <2>5 DEF ApplyOption
<1>3. CASE StartService
    BY <1>3 DEF StartService
<1>4. CASE ShutdownHook
    BY <1>4 DEF ShutdownHook
<1>5. CASE Serve
    BY <1>5 DEF Serve
<1>6. CASE ServeFails
    BY <1>6 DEF ServeFails
<1>7. CASE Signal
    BY <1>7 DEF Signal
<1>8. CASE Select
    BY <1>8 DEF Select
<1>9. CASE Shutdown
    BY <1>9 DEF Shutdown, LastEntry
<1>10. CASE CallCleanup
    <2>1. idx \in 1 .. Len(cleanupFuncs)
        BY <1>10 DEF CallCleanup
    <2>2. cleanupFuncs[idx] \in Registers
        BY <2>1
    <2> QED
        BY <1>10, <2>2 DEF CallCleanup, Entry
<1>11. CASE CleanupReturns
    <2>1. idx' \in Nat /\ idx' <= idx
        BY <1>11 DEF CleanupReturns
    <2> QED
        BY <1>11, <2>1 DEF CleanupReturns
<1>12. CASE Deadline
    BY <1>12 DEF Deadline
<1>13. CASE ForceExit
    BY <1>13 DEF ForceExit
<1>14. CASE Return
    BY <1>14 DEF Return
<1>15. CASE MainReturns
    BY <1>15 DEF MainReturns
<1>16. ASSUME NEW r \in Request, Handler(r)
      PROVE  MainInv'
    BY <1>16 DEF Handler, Accept, Begin, Store, Commit, Publish, Handles, Goto
<1> QED
    BY <1>1, <1>2, <1>3, <1>4, <1>5, <1>6, <1>7, <1>8, <1>9, <1>10, <1>11, <1>12,
       <1>13, <1>14, <1>15, <1>16 DEF Next, MainStep

(* The signals, the timer and the server *)
LEMMA StopTypeStep ==
    StopTypeOK /\ [Next]_vars => StopTypeOK'
<1> SUFFICES ASSUME StopTypeOK, [Next]_vars
             PROVE  StopTypeOK'
    OBVIOUS
<1> USE DEF StopTypeOK, main, stopping, Exit
<1>1. CASE UNCHANGED vars
    BY <1>1 DEF vars
<1>2. CASE ApplyOption
    BY <1>2 DEF ApplyOption
<1>3. CASE StartService
    BY <1>3 DEF StartService
<1>4. CASE ShutdownHook
    BY <1>4 DEF ShutdownHook
<1>5. CASE Serve
    BY <1>5 DEF Serve
<1>6. CASE ServeFails
    BY <1>6 DEF ServeFails
<1>7. CASE Signal
    BY <1>7, LifecycleAssumption DEF Signal, Buffer
<1>8. CASE Select
    <2>1. buffered' \in 0 .. 1
        BY <1>8 DEF Select
    <2>2. noticed' \in BOOLEAN
        BY <1>8 DEF Select
    <2>3. UNCHANGED <<serve, stopped, signals, timer>>
        BY <1>8 DEF Select
    <2> QED
        BY <2>1, <2>2, <2>3
<1>9. CASE Shutdown
    BY <1>9 DEF Shutdown
<1>10. CASE CallCleanup
    BY <1>10 DEF CallCleanup
<1>11. CASE CleanupReturns
    BY <1>11 DEF CleanupReturns
<1>12. CASE Deadline
    BY <1>12 DEF Deadline
<1>13. CASE ForceExit
    BY <1>13 DEF ForceExit
<1>14. CASE Return
    BY <1>14 DEF Return
<1>15. CASE MainReturns
    BY <1>15 DEF MainReturns
<1>16. ASSUME NEW r \in Request, Handler(r)
      PROVE  StopTypeOK'
    BY <1>16 DEF Handler, Accept, Begin, Store, Commit, Publish, Handles, Goto
<1> QED
    BY <1>1, <1>2, <1>3, <1>4, <1>5, <1>6, <1>7, <1>8, <1>9, <1>10, <1>11, <1>12,
       <1>13, <1>14, <1>15, <1>16 DEF Next, MainStep

(* The uploads and the end *)
LEMMA UploadTypeStep ==
    UploadTypeOK /\ [Next]_vars => UploadTypeOK'
<1> SUFFICES ASSUME UploadTypeOK, [Next]_vars
             PROVE  UploadTypeOK'
    OBVIOUS
<1> USE DEF UploadTypeOK, main, stopping, Exit
<1>1. CASE UNCHANGED vars
    BY <1>1 DEF vars
<1>2. CASE ApplyOption
    BY <1>2 DEF ApplyOption
<1>3. CASE StartService
    BY <1>3 DEF StartService
<1>4. CASE ShutdownHook
    BY <1>4 DEF ShutdownHook
<1>5. CASE Serve
    BY <1>5 DEF Serve
<1>6. CASE ServeFails
    BY <1>6 DEF ServeFails
<1>7. CASE Signal
    BY <1>7 DEF Signal
<1>8. CASE Select
    BY <1>8 DEF Select
<1>9. CASE Shutdown
    BY <1>9 DEF Shutdown
<1>10. CASE CallCleanup
    BY <1>10 DEF CallCleanup
<1>11. CASE CleanupReturns
    BY <1>11 DEF CleanupReturns
<1>12. CASE Deadline
    BY <1>12 DEF Deadline
<1>13. CASE ForceExit
    BY <1>13 DEF ForceExit
<1>14. CASE Return
    BY <1>14 DEF Return
<1>15. CASE MainReturns
    BY <1>15 DEF MainReturns
<1>16. ASSUME NEW r \in Request, Handler(r)
      PROVE  UploadTypeOK'
    BY <1>16 DEF Handler, Accept, Begin, Store, Commit, Publish, Handles, Goto
<1> QED
    BY <1>1, <1>2, <1>3, <1>4, <1>5, <1>6, <1>7, <1>8, <1>9, <1>10, <1>11, <1>12,
       <1>13, <1>14, <1>15, <1>16 DEF Next, MainStep

(* Every step keeps the record of what has been closed. *)
LEMMA CloseStep ==
    MainInv /\ CloseInv /\ [Next]_vars => CloseInv'
<1> SUFFICES ASSUME MainInv, CloseInv, [Next]_vars
             PROVE  CloseInv'
    OBVIOUS
<1> USE DEF CloseInv, main, stopping, Exit
<1>1. CASE UNCHANGED vars
    BY <1>1 DEF vars
<1>2. CASE ApplyOption
    BY <1>2 DEF ApplyOption
<1>3. CASE StartService
    BY <1>3 DEF StartService
<1>4. CASE ShutdownHook
    BY <1>4 DEF ShutdownHook
<1>5. CASE Serve
    BY <1>5 DEF Serve
<1>6. CASE ServeFails
    BY <1>6 DEF ServeFails
<1>7. CASE Signal
    BY <1>7 DEF Signal
<1>8. CASE Select
    BY <1>8 DEF Select
<1>9. CASE Shutdown
    <2>1. closed' = {} /\ idx' = 5 /\ pc' = "cleanup"
        BY <1>9, CountValues DEF Shutdown, LastEntry, MainInv, BuildInv
    <2> QED
        BY <1>9, <2>1, FromFacts DEF Shutdown
<1>10. CASE CallCleanup
    <2>1. idx \in 1 .. 5 /\ cleanupFuncs[idx] = Order[idx]
        BY <1>10, CountValues DEF CallCleanup, MainInv, MainTypeOK, BuildInv
    <2>2. closed' = From(idx)
        BY <1>10, <2>1, FromFacts DEF CallCleanup, Entry
    <2>3. /\ pc = "cleanup" /\ pc' = "closing"
          /\ UNCHANGED <<idx, next, exit>>
        BY <1>10 DEF CallCleanup
    <2>4. "httpServer" \in closed' => serve' # "serving"
        BY <1>10 DEF CallCleanup, Entry
    <2> QED
        BY <2>2, <2>3, <2>4
<1>11. CASE CleanupReturns
    <2>1. idx \in Nat /\ idx' = idx - 1 /\ idx' + 1 = idx
        BY <1>11 DEF CleanupReturns, MainInv, MainTypeOK
    <2> QED
        BY <1>11, <2>1 DEF CleanupReturns
<1>12. CASE Deadline
    BY <1>12 DEF Deadline
<1>13. CASE ForceExit
    BY <1>13 DEF ForceExit
<1>14. CASE Return
    <2>1. closed = Registers
        BY <1>14, FromFacts DEF Return
    <2> QED
        BY <1>14, <2>1 DEF Return
<1>15. CASE MainReturns
    BY <1>15 DEF MainReturns, MainInv, BuildInv
<1>16. ASSUME NEW r \in Request, Handler(r)
      PROVE  CloseInv'
    BY <1>16 DEF Handler, Accept, Begin, Store, Commit, Publish, Handles, Goto, Alive
<1> QED
    BY <1>1, <1>2, <1>3, <1>4, <1>5, <1>6, <1>7, <1>8, <1>9, <1>10, <1>11, <1>12,
       <1>13, <1>14, <1>15, <1>16 DEF Next, MainStep

(* A process that works past its server has closed it. *)
LEMMA OutlastedClosed ==
    ASSUME MainInv, CloseInv, Outlasted, pc # "over"
    PROVE  "httpServer" \in closed
<1>1. pc \in {"cleanup", "closing"} => idx \in 0 .. 5
    BY CountValues DEF MainInv, MainTypeOK, BuildInv
<1>2. CASE pc \in {"build", "listen", "hook", "select", "shutdown"}
    BY <1>2 DEF CloseInv, Outlasted
<1>3. CASE pc = "cleanup"
    <2>1. CASE idx = 5
        BY <1>3, <2>1, FromFacts DEF CloseInv, Outlasted
    <2>2. CASE idx # 5
        <3>1. idx + 1 \in 1 .. 5
            BY <1>1, <1>3, <2>2
        <3> QED
            BY <1>3, <3>1, FromFacts DEF CloseInv
    <2> QED
        BY <2>1, <2>2
<1>4. CASE pc = "closing"
    <2>1. idx \in 1 .. 5
        BY <1>1, <1>4 DEF MainInv, BuildInv
    <2> QED
        BY <1>4, <2>1, FromFacts DEF CloseInv
<1>5. CASE pc = "returned"
    BY <1>5 DEF CloseInv, Registers
<1> QED
    BY <1>2, <1>3, <1>4, <1>5 DEF MainInv, MainTypeOK

(* Past the server no handler starts, and past the pool none gets a         *)
(* connection: the steps of a handler keep what HandlerInv says.            *)
LEMMA HandlersKeepInv ==
    ASSUME MainInv, UploadTypeOK, CloseInv, HandlerInv,
           NEW r \in Request, Handler(r)
    PROVE  HandlerInv'
<1> USE DEF Goto, UploadTypeOK
<1>1. /\ UNCHANGED <<pc, idx, closed, timer, serve, exit>>
      /\ pc # "over"
    BY DEF Handler, Accept, Begin, Store, Commit, Publish, Handles, main, stopping, Alive
<1>2. Outlasted' = Outlasted /\ PastDatabase' = PastDatabase
    BY <1>1 DEF Outlasted, PastDatabase
<1>3. CASE Accept(r)
    <2>1. ~Outlasted
        BY <1>1, <1>3, OutlastedClosed DEF Accept, CloseInv
    <2>2. Holding' = Holding /\ event' = event
        BY <1>3 DEF Accept, Holding
    <2> QED
        BY <1>1, <1>2, <2>1, <2>2 DEF HandlerInv
<1>4. CASE Begin(r) \/ Store(r) \/ Commit(r) \/ Publish(r)
    <2>1. r \in Running
        BY <1>4 DEF Begin, Store, Commit, Publish, Running
    <2>2. Running' \subseteq Running
        BY <1>4 DEF Begin, Store, Commit, Publish, Running
    <2>3. "database" \in closed => Holding' \subseteq Holding
        BY <1>4 DEF Begin, Store, Commit, Publish, Holding
    <2>4. timer # "expired" => "kafkaWriter" \notin closed
        BY <2>1 DEF HandlerInv, Outlasted
    <2>5. "kafkaWriter" \notin closed =>
              \A q \in Request : event[q] # "refused" => event'[q] # "refused"
        BY <1>4 DEF Begin, Store, Commit, Publish
    <2> QED
        BY <1>1, <1>2, <2>2, <2>3, <2>4, <2>5 DEF HandlerInv
<1> QED
    BY <1>3, <1>4 DEF Handler

(* Every step keeps handlers and clean-up functions apart. *)
LEMMA HandlerStep ==
    MainInv /\ StopTypeOK /\ UploadTypeOK /\ CloseInv /\ HandlerInv /\ [Next]_vars => HandlerInv'
<1> SUFFICES ASSUME MainInv, StopTypeOK, UploadTypeOK, CloseInv, HandlerInv, [Next]_vars
             PROVE  HandlerInv'
    OBVIOUS
<1> USE DEF HandlerInv, Outlasted, PastDatabase, Running, Holding, main, stopping, Exit
<1>1. CASE UNCHANGED vars
    BY <1>1 DEF vars
<1>2. CASE ApplyOption
    BY <1>2 DEF ApplyOption
<1>3. CASE StartService
    BY <1>3 DEF StartService
<1>4. CASE ShutdownHook
    BY <1>4 DEF ShutdownHook
<1>5. CASE Serve
    BY <1>5 DEF Serve
<1>6. CASE ServeFails
    BY <1>6 DEF ServeFails
<1>7. CASE Signal
    BY <1>7 DEF Signal
<1>8. CASE Select
    BY <1>8 DEF Select
<1>9. CASE Shutdown
    <2>1. idx' = 5 /\ closed' = {} /\ pc' = "cleanup" /\ exit # "clean"
        BY <1>9, CountValues DEF Shutdown, LastEntry, MainInv, BuildInv, CloseInv
    <2> QED
        BY <1>9, <2>1 DEF Shutdown
<1>10. CASE CallCleanup
    <2>1. /\ idx \in 1 .. 5
          /\ closed' = From(idx)
        <3>1. idx \in 1 .. 5 /\ cleanupFuncs[idx] = Order[idx]
            BY <1>10, CountValues DEF CallCleanup, MainInv, MainTypeOK, BuildInv
        <3> QED
            BY <1>10, <3>1, FromFacts DEF CallCleanup, CloseInv, Entry
    <2>2. idx = 5 => closed' \subseteq {"httpServer"}
        BY <2>1, FromFacts
    <2>3. closed \subseteq closed'
        BY <1>10 DEF CallCleanup
    <2>4. pc = "cleanup" /\ pc' = "closing" /\ exit # "clean"
        BY <1>10 DEF CallCleanup, CloseInv
    <2> QED
        BY <1>10, <2>1, <2>2, <2>3, <2>4 DEF CallCleanup
<1>11. CASE CleanupReturns
    <2>1. /\ idx \in 1 .. 5
          /\ cleanupFuncs[idx] = Order[idx]
          /\ closed = From(idx)
        BY <1>11, CountValues DEF CleanupReturns, MainInv, MainTypeOK, BuildInv, CloseInv
    <2>2. idx' = idx - 1 /\ pc = "closing" /\ pc' = "cleanup" /\ exit # "clean"
        BY <1>11 DEF CleanupReturns, CloseInv
    <2>3. timer # "expired" => Running = {}
        <3>1. CASE idx = 5
            BY <1>11, <2>1, <3>1, OrderValues DEF CleanupReturns, Entry, Drained
        <3>2. CASE idx # 5
            BY <2>1, <3>2, FromFacts
        <3> QED
            BY <3>1, <3>2
    <2>4. idx' < 2 => Holding = {} /\ "database" \in closed
        <3>1. CASE idx = 2
            BY <1>11, <2>1, <3>1, OrderValues, FromFacts DEF CleanupReturns, Entry
        <3>2. CASE idx < 2
            BY <2>1, <2>2, <3>2
        <3> QED
            BY <2>1, <2>2, <3>1, <3>2
    <2> QED
        BY <1>11, <2>1, <2>2, <2>3, <2>4 DEF CleanupReturns
<1>12. CASE Deadline
    BY <1>12 DEF Deadline
<1>13. CASE ForceExit
    BY <1>13 DEF ForceExit
<1>14. CASE Return
    BY <1>14 DEF Return
<1>15. CASE MainReturns
    BY <1>15 DEF MainReturns
<1>16. ASSUME NEW r \in Request, Handler(r)
      PROVE  HandlerInv'
    BY <1>16, HandlersKeepInv
<1> QED
    BY <1>1, <1>2, <1>3, <1>4, <1>5, <1>6, <1>7, <1>8, <1>9, <1>10, <1>11, <1>12,
       <1>13, <1>14, <1>15, <1>16 DEF Next, MainStep

-------------------------------------------------------------------------------
(* The inductive invariant *)

IInv ==
    /\ MainInv
    /\ StopTypeOK
    /\ UploadTypeOK
    /\ CloseInv
    /\ HandlerInv

LEMMA InitInv == Init => IInv
<1> SUFFICES ASSUME Init
             PROVE  IInv
    OBVIOUS
<1>1. cleanupFuncs = <<>> /\ Len(cleanupFuncs) = 0 /\ cleanupFuncs \in Seq(Registers)
    BY DEF Init
<1>2. MainTypeOK
    <2>1. idx = 0 /\ next = 1 /\ pc = "build" /\ closed = {}
        BY DEF Init
    <2> QED
        BY <1>1, <2>1 DEF MainTypeOK
<1>3. BuildInv
    <2>1. next = 1 /\ pc = "build"
        BY DEF Init
    <2> QED
        BY <1>1, <2>1, CountValues DEF BuildInv
<1>4. StopTypeOK
    <2>1. signals \in 0 .. MaxSignals /\ buffered \in 0 .. 1
        BY LifecycleAssumption DEF Init
    <2>2. stopped \in BOOLEAN /\ noticed \in BOOLEAN
        BY DEF Init
    <2>3. serve = "none" /\ timer = "off"
        BY DEF Init
    <2> QED
        BY <2>1, <2>2, <2>3 DEF StopTypeOK
<1>5. UploadTypeOK
    BY DEF Init, UploadTypeOK
<1>6. CloseInv
    BY DEF Init, CloseInv
<1>7. HandlerInv
    BY DEF Init, HandlerInv, Outlasted, PastDatabase
<1> QED
    BY <1>2, <1>3, <1>4, <1>5, <1>6, <1>7 DEF IInv, MainInv

LEMMA StepInv == IInv /\ [Next]_vars => IInv'
BY BuildStep, StopTypeStep, UploadTypeStep, CloseStep, HandlerStep DEF IInv

(* The inductive invariant, for any number of uploads and signals.          *)
THEOREM Invariance == Spec => []IInv
BY InitInv, StepInv, PTL DEF Spec

(* Type correctness: in particular no more than one signal is buffered and  *)
(* cleanup never runs below its first entry.                                *)
THEOREM TypeCorrect == Spec => []TypeOK
<1>1. IInv => TypeOK
    BY TypeParts DEF IInv, MainInv
<1> QED
    BY <1>1, Invariance, PTL

(* As long as the timer runs, nothing that a handler uses is closed while   *)
(* one runs (dispatcher.go cleanup, the order of dependency_options.go).    *)
THEOREM DependenciesOutliveHandlers == Spec => []HandlersKeepDependencies
<1>1. IInv => HandlersKeepDependencies
    BY DEF IInv, HandlerInv, Outlasted, HandlersKeepDependencies
<1> QED
    BY <1>1, Invariance, PTL

(* A process that ends by itself has closed all that it built, and no       *)
(* upload keeps a connection.                                               *)
THEOREM CleanExits == Spec => []CleanExitClosesAll
<1>1. ASSUME IInv, exit = "clean"
      PROVE  Range(cleanupFuncs) = Registers
    <2>1. cleanupFuncs \in Seq(Registers) /\ Len(cleanupFuncs) = 5
        BY <1>1, CountValues DEF IInv, MainInv, MainTypeOK, BuildInv, CloseInv
    <2>2. DOMAIN cleanupFuncs = 1 .. 5
        BY <2>1
    <2>3. Range(cleanupFuncs) = {cleanupFuncs[i] : i \in 1 .. 5}
        BY <2>2 DEF Range
    <2>4. \A i \in 1 .. 5 : cleanupFuncs[i] = Order[i]
        BY <1>1, <2>1 DEF IInv, MainInv, BuildInv
    <2>5. Range(cleanupFuncs) = From(1)
        BY <2>3, <2>4 DEF From
    <2> QED
        BY <2>5, FromFacts
<1>2. IInv => CleanExitClosesAll
    BY <1>1 DEF IInv, CloseInv, HandlerInv, PastDatabase, CleanExitClosesAll
<1> QED
    BY <1>2, Invariance, PTL

(* A process that ends in time has cut off no upload and refused no event.  *)
THEOREM TimelyExits == Spec => []CleanExitLosesNothing
<1>1. ASSUME IInv, exit = "clean", timer = "cancelled"
      PROVE  Running = {} /\ \A r \in Request : event[r] # "refused"
    <2>1. Outlasted
        BY <1>1 DEF IInv, CloseInv, Outlasted, Registers
    <2> QED
        BY <1>1, <2>1 DEF IInv, HandlerInv
<1>2. IInv => CleanExitLosesNothing
    BY <1>1 DEF CleanExitLosesNothing
<1> QED
    BY <1>2, Invariance, PTL

-------------------------------------------------------------------------------
(* The steps the main goroutine has before it, at most.                     *)
Left ==
    CASE pc = "build"    -> 16 + (9 - next)
      [] pc = "listen"   -> 16
      [] pc = "hook"     -> 15
      [] pc = "select"   -> 14
      [] pc = "shutdown" -> 13
      [] pc = "cleanup"  -> 2 * idx + 2
      [] pc = "closing"  -> 2 * idx + 1
      [] pc = "returned" -> 1
      [] OTHER           -> 0

LEMMA LeftIsNatural == IInv => Left \in Nat /\ (pc # "over" => Left > 0)
<1> SUFFICES ASSUME IInv
             PROVE  Left \in Nat /\ (pc # "over" => Left > 0)
    OBVIOUS
<1>1. /\ next \in 1 .. 9 /\ idx \in Nat
      /\ pc \in {"build", "listen", "hook", "select", "shutdown", "cleanup",
                 "closing", "returned", "over"}
    BY DEF IInv, MainInv, MainTypeOK
<1> QED
    BY <1>1 DEF Left

LEMMA MainGoesOn ==
    ASSUME IInv, [Next]_vars
    PROVE  Left' < Left \/ UNCHANGED <<pc, next, idx>>
<1>1. /\ next \in 1 .. 9 /\ idx \in Nat
      /\ pc = "build" => next \in 1 .. 8
      /\ pc \notin {"build", "over"} => Len(cleanupFuncs) = 5
    BY CountValues DEF IInv, MainInv, MainTypeOK, BuildInv
<1>o. Len(Options) = 8
    BY OptionValues
<1>2. CASE pc' = "over" /\ pc # "over"
    <2>1. Left' = 0
        BY <1>2 DEF Left
    <2> QED
        BY <1>2, <2>1, LeftIsNatural
<1>3. CASE ApplyOption /\ pc' # "over"
    <2>1. /\ pc = "build" /\ next' = next + 1
          /\ pc' = IF next = 8 THEN "listen" ELSE "build"
        BY <1>3, <1>o DEF ApplyOption, Exit
    <2> QED
        BY <1>1, <2>1 DEF Left
<1>4. CASE (StartService \/ ShutdownHook \/ Select) /\ pc' # "over"
    BY <1>4 DEF StartService, ShutdownHook, Select, Exit, Left
<1>5. CASE Shutdown
    <2>1. pc = "shutdown" /\ pc' = "cleanup" /\ idx' = 5
        BY <1>1, <1>5 DEF Shutdown, LastEntry
    <2> QED
        BY <2>1 DEF Left
<1>6. CASE CallCleanup \/ CleanupReturns \/ Return
    BY <1>1, <1>6 DEF CallCleanup, CleanupReturns, Return, Left
<1>7. CASE MainReturns \/ ForceExit
    BY <1>2, <1>7 DEF MainReturns, ForceExit, Exit, Alive
<1>8. CASE Signal /\ pc' # "over"
    BY <1>8 DEF Signal, Exit
<1>9. CASE \/ Serve \/ ServeFails \/ Deadline \/ UNCHANGED vars
           \/ \E r \in Request : Handler(r)
    BY <1>9 DEF Serve, ServeFails, Deadline, Handler, Handles, Accept, Begin, Store,
       Commit, Publish, main, vars
<1>a. pc = "over" /\ pc' = "over" => UNCHANGED <<pc, next, idx>>
    BY DEF Next, MainStep, ApplyOption, StartService, ShutdownHook, Select, Shutdown,
       CallCleanup, CleanupReturns, Return, MainReturns, Serve, ServeFails, Signal,
       Deadline, ForceExit, Alive, Handler, Handles, Accept, Begin, Store, Commit,
       Publish, main, vars
<1> QED
    BY <1>2, <1>3, <1>4, <1>5, <1>6, <1>7, <1>8, <1>9, <1>a DEF Next, MainStep

(* The main goroutine only goes forward: from the first option to its       *)
(* return it takes at most 24 steps, whatever signals, handlers and the     *)
(* server do.  A clean-up function is never called twice and nothing is     *)
(* built again: the safety half of StopsOnceAsked (dispatcher.go:44-149).   *)
THEOREM MainOnlyGoesForward ==
    Spec => [](Left \in Nat) /\ [][Left' < Left \/ UNCHANGED <<pc, next, idx>>]_vars
<1>1. IInv => Left \in Nat
    BY LeftIsNatural
<1>2. IInv /\ [Next]_vars => [Left' < Left \/ UNCHANGED <<pc, next, idx>>]_vars
    BY MainGoesOn
<1> QED
    BY <1>1, <1>2, Invariance, PTL DEF Spec
===============================================================================
