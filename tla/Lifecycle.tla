------------------------------- MODULE Lifecycle ------------------------------
(***************************************************************************)
(* The life of the service process (runtime/dispatcher.go, deps.go,        *)
(* dependency_options.go): its dependencies are built in order, the server *)
(* is started in a goroutine of its own, and a signal or the failure of    *)
(* the server makes the main goroutine run the clean-up functions in       *)
(* reverse, against a timer whose goroutine ends the process.              *)
(*                                                                         *)
(* Uploads run in handlers meanwhile.  Of module Ingestion they keep what  *)
(* a closed dependency can disturb: an upload takes a connection for its   *)
(* transaction, stores through the pool, commits and publishes.            *)
(***************************************************************************)
EXTENDS Naturals, Sequences, FiniteSets, Functions

CONSTANTS
    Request,        \* uploads that clients may send
    MaxSignals      \* bound on the SIGINT and SIGTERM the process gets

ASSUME LifecycleAssumption == MaxSignals \in Nat

VARIABLES
    pc,             \* where the main goroutine is
    next,           \* the dependency option initializeDependencies applies next
    cleanupFuncs,   \* clean-up functions, in the order of registration
    idx,            \* the entry cleanup is at; 0 when it is through
    closed,         \* dependencies whose clean-up function has been called
    serve,          \* the goroutine that runs httpServer.Serve
    stopped,        \* serverCtx is done
    buffered,       \* signals in shutdownChannel
    noticed,        \* the select took a signal: Run will close shutdownChannel
    signals,        \* signals sent so far
    timer,          \* shutdownCtx
    request,        \* request[r]: how far the upload has come
    event,          \* event[r]: what became of its events
    exit            \* how the process ended

main == <<pc, next, cleanupFuncs, idx, closed>>
stopping == <<stopped, buffered, noticed, signals, timer>>
vars == <<main, serve, stopping, request, event, exit>>

(* defaultOptions, those that only wire others together taken as one *)
Options == <<"config", "resource", "meterProvider", "database", "kafkaWriter",
             "tracer", "application", "httpServer">>

MayFail == {"config", "resource", "meterProvider", "database", "tracer"}

Registers == {"meterProvider", "database", "kafkaWriter", "tracer", "httpServer"}

Running == {r \in Request : request[r] \notin {"none", "ok", "error"}}

(* Uploads that hold a connection of the pool *)
Holding == {r \in Request : request[r] \in {"inTransaction", "stored"}}

Alive == pc # "over"

Init ==
    /\ pc = "build"
    /\ next = 1
    /\ cleanupFuncs = <<>>
    /\ idx = 0
    /\ closed = {}
    /\ serve = "none"
    /\ stopped = FALSE
    /\ buffered = 0
    /\ noticed = FALSE
    /\ signals = 0
    /\ timer = "off"
    /\ request = [r \in Request |-> "none"]
    /\ event = [r \in Request |-> "none"]
    /\ exit = "none"

Exit(code) == pc' = "over" /\ exit' = code

-------------------------------------------------------------------------------
(* Starting *)

(* build: one dependency option *)
ApplyOption ==
    /\ pc = "build"
    /\ LET option == Options[next]
       IN \/ /\ cleanupFuncs' = IF option \in Registers
                                THEN Append(cleanupFuncs, option)
                                ELSE cleanupFuncs
             /\ next' = next + 1
             /\ pc' = IF next = Len(Options) THEN "listen" ELSE "build"
             /\ UNCHANGED exit
          \/ /\ option \in MayFail
             /\ Exit("fatal")
             /\ UNCHANGED <<next, cleanupFuncs>>
    /\ UNCHANGED <<idx, closed, serve, stopping, request, event>>

(* startService: log.Fatalf if the port is taken, or else a goroutine *)
StartService ==
    /\ pc = "listen"
    /\ \/ /\ pc' = "hook"
          /\ serve' = "starting"
          /\ UNCHANGED exit
       \/ /\ Exit("fatal")
          /\ UNCHANGED serve
    /\ UNCHANGED <<next, cleanupFuncs, idx, closed, stopping, request, event>>

(* From here on signals go to shutdownChannel. *)
ShutdownHook ==
    /\ pc = "hook"
    /\ pc' = "select"
    /\ UNCHANGED <<next, cleanupFuncs, idx, closed, serve, stopping, request,
                   event, exit>>

(* httpServer.Serve: ErrServerClosed if Shutdown was called before *)
Serve ==
    /\ Alive
    /\ serve = "starting"
    /\ serve' = IF "httpServer" \in closed THEN "closed" ELSE "serving"
    /\ UNCHANGED <<main, stopping, request, event, exit>>

ServeFails ==
    /\ Alive
    /\ serve = "serving"
    /\ serve' = "failed"
    /\ stopped' = TRUE
    /\ UNCHANGED <<main, buffered, noticed, signals, timer, request, event, exit>>

-------------------------------------------------------------------------------
(* Stopping *)

(* shutdownChannel holds one signal; Notify drops what does not fit. *)
Buffer(n) == IF n = 0 THEN 1 ELSE n

(* SIGINT or SIGTERM.  It kills the process before Notify, and makes Notify *)
(* panic once Run has closed the channel.                                   *)
Signal ==
    /\ Alive
    /\ signals < MaxSignals
    /\ signals' = signals + 1
    /\ \/ /\ pc \in {"build", "listen", "hook"}
          /\ Exit("killed")
          /\ UNCHANGED buffered
       \/ /\ pc = "returned"
          /\ noticed
          /\ Exit("panic")
          /\ UNCHANGED buffered
       \/ /\ pc \notin {"build", "listen", "hook"}
          /\ ~(pc = "returned" /\ noticed)
          /\ buffered' = Buffer(buffered)
          /\ UNCHANGED <<pc, exit>>
    /\ UNCHANGED <<next, cleanupFuncs, idx, closed, serve, stopped, noticed,
                   timer, request, event>>

(* The select of Run *)
Select ==
    /\ pc = "select"
    /\ \/ /\ stopped
          /\ UNCHANGED <<buffered, noticed>>
       \/ /\ buffered > 0
          /\ buffered' = buffered - 1
          /\ noticed' = TRUE
    /\ pc' = "shutdown"
    /\ UNCHANGED <<next, cleanupFuncs, idx, closed, serve, stopped, signals,
                   timer, request, event, exit>>

LastButOne == Len(cleanupFuncs) - 1

(* cleanup starts with the entry that was registered last. *)
LastEntry == Len(cleanupFuncs)

Shutdown ==
    /\ pc = "shutdown"
    /\ stopped' = TRUE
    /\ timer' = "running"
    /\ idx' = LastEntry
    /\ pc' = "cleanup"
    /\ UNCHANGED <<next, cleanupFuncs, closed, serve, buffered, noticed, signals,
                   request, event, exit>>

InRegistrationOrder(i) == cleanupFuncs[Len(cleanupFuncs) + 1 - i]

Entry(i) == cleanupFuncs[i]

(* A clean-up function is called.  httpServer.Shutdown makes Serve return,  *)
(* the writer and the pool take no new work.                                *)
CallCleanup ==
    /\ pc = "cleanup"
    /\ idx > 0
    /\ closed' = closed \cup {Entry(idx)}
    /\ serve' = IF Entry(idx) = "httpServer" /\ serve = "serving"
                THEN "closed" ELSE serve
    /\ pc' = "closing"
    /\ UNCHANGED <<next, cleanupFuncs, idx, stopping, request, event, exit>>

DoesNotWait == TRUE

(* httpServer.Shutdown waits for the handlers until its context is done. *)
Drained == Running = {} \/ timer = "expired"

(* pool.Close waits until every connection is back; a provider, the writer  *)
(* and an expired context may make a function return with an error.         *)
CleanupReturns ==
    /\ pc = "closing"
    /\ Entry(idx) = "httpServer" => Drained
    /\ Entry(idx) = "database" => Holding = {}
    /\ idx' = idx - 1
    /\ pc' = "cleanup"
    /\ UNCHANGED <<next, cleanupFuncs, closed, serve, stopping, request, event,
                   exit>>

Deadline ==
    /\ Alive
    /\ timer = "running"
    /\ timer' = "expired"
    /\ UNCHANGED <<main, serve, stopped, buffered, noticed, signals, request,
                   event, exit>>

OverdueAfterCleanup == timer = "expired" /\ idx = 0

Overdue == timer = "expired"

(* The goroutine of shutdown: os.Exit(1) *)
ForceExit ==
    /\ Alive
    /\ Overdue
    /\ Exit("forced")
    /\ UNCHANGED <<next, cleanupFuncs, idx, closed, serve, stopping, request,
                   event>>

(* shutdown cancels its context, and Run returns: its deferred call closes  *)
(* shutdownChannel if a signal was taken.                                   *)
Return ==
    /\ pc = "cleanup"
    /\ idx = 0
    /\ timer' = IF timer = "running" THEN "cancelled" ELSE timer
    /\ pc' = "returned"
    /\ UNCHANGED <<next, cleanupFuncs, idx, closed, serve, stopped, buffered,
                   noticed, signals, request, event, exit>>

MainReturns ==
    /\ pc = "returned"
    /\ Exit("clean")
    /\ UNCHANGED <<next, cleanupFuncs, idx, closed, serve, stopping, request,
                   event>>

-------------------------------------------------------------------------------
(* Uploads *)

Goto(r, s) == request' = [request EXCEPT ![r] = s]

Handles(r) == Alive /\ UNCHANGED <<main, serve, stopping, exit>>

(* The server accepts a connection and runs the handler. *)
Accept(r) ==
    /\ Handles(r)
    /\ serve = "serving"
    /\ request[r] = "none"
    /\ Goto(r, "accepted")
    /\ UNCHANGED event

(* txMgr.Begin *)
Begin(r) ==
    /\ Handles(r)
    /\ request[r] = "accepted"
    /\ \/ /\ "database" \notin closed
          /\ Goto(r, "inTransaction")
       \/ Goto(r, "error")
    /\ UNCHANGED event

(* The statements; each takes a connection from the pool. *)
Store(r) ==
    /\ Handles(r)
    /\ request[r] = "inTransaction"
    /\ \/ /\ "database" \notin closed
          /\ Goto(r, "stored")
       \/ Goto(r, "error")
    /\ UNCHANGED event

(* Commit, on the connection the upload already holds *)
Commit(r) ==
    /\ Handles(r)
    /\ request[r] = "stored"
    /\ Goto(r, "committed") \/ Goto(r, "error")
    /\ UNCHANGED event

(* publisher.Publish, whose error is discarded, and the answer *)
Publish(r) ==
    /\ Handles(r)
    /\ request[r] = "committed"
    /\ \/ /\ "kafkaWriter" \notin closed
          /\ \E outcome \in {"published", "failed"} :
                event' = [event EXCEPT ![r] = outcome]
       \/ /\ "kafkaWriter" \in closed
          /\ event' = [event EXCEPT ![r] = "refused"]
    /\ Goto(r, "ok")

-------------------------------------------------------------------------------
MainStep ==
    \/ ApplyOption
    \/ StartService
    \/ ShutdownHook
    \/ Select
    \/ Shutdown
    \/ CallCleanup
    \/ CleanupReturns
    \/ Return
    \/ MainReturns

Handler(r) ==
    \/ Accept(r)
    \/ Begin(r)
    \/ Store(r)
    \/ Commit(r)
    \/ Publish(r)

Next ==
    \/ MainStep
    \/ Serve
    \/ ServeFails
    \/ Signal
    \/ Deadline
    \/ ForceExit
    \/ \E r \in Request : Handler(r)

(* The main goroutine is scheduled, except that a clean-up function may     *)
(* never return; time passes; the goroutine that waits for it is scheduled. *)
(* Nothing is assumed of the handlers.                                      *)
Fairness ==
    /\ WF_vars(Select)
    /\ WF_vars(Shutdown)
    /\ WF_vars(CallCleanup)
    /\ WF_vars(Return)
    /\ WF_vars(MainReturns)
    /\ WF_vars(Deadline)
    /\ WF_vars(ForceExit)

Spec == Init /\ [][Next]_vars

FairSpec == Spec /\ Fairness

-------------------------------------------------------------------------------
(* Properties *)

(* Type invariant: in particular shutdownChannel holds one signal at most.  *)
TypeOK ==
    /\ pc \in {"build", "listen", "hook", "select", "shutdown", "cleanup",
               "closing", "returned", "over"}
    /\ next \in 1 .. Len(Options) + 1
    /\ cleanupFuncs \in Seq(Registers)
    /\ idx \in 0 .. Len(cleanupFuncs)
    /\ closed \subseteq Registers
    /\ serve \in {"none", "starting", "serving", "failed", "closed"}
    /\ stopped \in BOOLEAN
    /\ buffered \in 0 .. 1
    /\ noticed \in BOOLEAN
    /\ signals \in 0 .. MaxSignals
    /\ timer \in {"off", "running", "expired", "cancelled"}
    /\ request \in [Request -> {"none", "accepted", "inTransaction", "stored",
                                "committed", "ok", "error"}]
    /\ event \in [Request -> {"none", "published", "failed", "refused"}]
    /\ exit \in {"none", "clean", "forced", "fatal", "killed", "panic"}

(* A handler never works with a dependency that was closed under it, as     *)
(* long as the shutdown timer runs: the server is shut down, and drained,   *)
(* before what it depends on.                                               *)
HandlersKeepDependencies ==
    Running # {} /\ timer # "expired" => closed \subseteq {"httpServer"}

(* When the process ends by itself, it has closed every dependency that it  *)
(* built, and no upload holds a connection.                                 *)
CleanExitClosesAll ==
    exit = "clean" =>
        /\ closed = Registers
        /\ Range(cleanupFuncs) = Registers
        /\ Holding = {}

(* No upload is cut off, and no event refused, by a shutdown that ends      *)
(* within its time, whether a signal or the server's failure began it.      *)
CleanExitLosesNothing ==
    exit = "clean" /\ timer = "cancelled" =>
        /\ Running = {}
        /\ \A r \in Request : event[r] # "refused"

(* Once the process is asked to stop, by a signal that Notify delivers or   *)
(* by the server's failure, it ends, whatever handlers and clean-up         *)
(* functions do.                                                            *)
StopsOnceAsked ==
    pc = "select" /\ (stopped \/ buffered > 0) ~> pc = "over"
===============================================================================
