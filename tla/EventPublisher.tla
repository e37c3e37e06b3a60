---------------------------- MODULE EventPublisher ----------------------------
(***************************************************************************)
(* Publisher.Publish and Close over the one kafka-go Writer of the         *)
(* process, with uploads that publish while the process shuts down.  The   *)
(* Writer is not part of the repository; its steps are what this code      *)
(* configures (synchronous, acknowledged by all replicas) and the defaults *)
(* it leaves: a bounded number of attempts, batches by partition, a Close  *)
(* that flushes.  LeastBytes places every event without regard to its key, *)
(* so the events of one call settle one by one.                            *)
(***************************************************************************)
EXTENDS Naturals

CONSTANTS
    Call,           \* calls of Publish
    Event,
    EventsOf,       \* EventsOf[c]: the events of call c
    Unmarshallable, \* events whose payload json.Marshal refuses
    MaxAttempts     \* how often the Writer tries to deliver a batch

ASSUME PublisherAssumption ==
    /\ EventsOf \in [Call -> SUBSET Event]
    /\ \A c, d \in Call : c # d => EventsOf[c] \cap EventsOf[d] = {}
    /\ MaxAttempts \in Nat \ {0}

VARIABLES
    writer,     \* "open", "closing" (Close is waiting) or "closed"
    answer,     \* answer[c]: what Publish returned to c
    fate,       \* fate[e]: what the Writer has done with e
    tries,      \* tries[e]: its attempts to deliver e
    copies      \* copies[e]: how often e is in the topic

vars == <<writer, answer, fate, tries, copies>>

TypeOK ==
    /\ writer \in {"open", "closing", "closed"}
    /\ answer \in [Call -> {"none", "waiting", "nil", "marshal", "closed", "write", "context"}]
    /\ fate \in [Event -> {"unsent", "queued", "acked", "lost"}]
    /\ tries \in [Event -> Nat]
    /\ copies \in [Event -> Nat]

Init ==
    /\ writer = "open"
    /\ answer = [c \in Call |-> "none"]
    /\ fate = [e \in Event |-> "unsent"]
    /\ tries = [e \in Event |-> 0]
    /\ copies = [e \in Event |-> 0]

WritesAsync == TRUE

(* NewKafkaWriter *)
Async == FALSE
RequiredAcks == "all"

-----------------------------------------------------------------------------
(* Publish: every payload is marshalled before any event is written *)

Answer(c, a) == answer' = [answer EXCEPT ![c] = a]

Marshals(c) == EventsOf[c] \cap Unmarshallable = {}

PublishNothing(c) ==
    /\ answer[c] = "none"
    /\ EventsOf[c] = {}
    /\ Answer(c, "nil")
    /\ UNCHANGED <<writer, fate, tries, copies>>

MarshalFails(c) ==
    /\ answer[c] = "none"
    /\ ~Marshals(c)
    /\ Answer(c, "marshal")
    /\ UNCHANGED <<writer, fate, tries, copies>>

WriteMessages(c) ==
    /\ answer[c] = "none"
    /\ EventsOf[c] # {} /\ Marshals(c)
    /\ writer = "open"
    /\ fate' = [e \in Event |-> IF e \in EventsOf[c] THEN "queued" ELSE fate[e]]
    /\ Answer(c, IF Async THEN "nil" ELSE "waiting")
    /\ UNCHANGED <<writer, tries, copies>>

(* ... of a Writer that is closed, or that cannot look up the partitions *)
WriteRefused(c) ==
    /\ answer[c] = "none"
    /\ EventsOf[c] # {} /\ Marshals(c)
    /\ Answer(c, IF writer = "open" THEN "write" ELSE "closed")
    /\ UNCHANGED <<writer, fate, tries, copies>>

-----------------------------------------------------------------------------
(* The Writer *)

MayAck(written) == IF RequiredAcks = "none" THEN TRUE ELSE written

Retries(e) == tries[e] + 1 < MaxAttempts

(* An attempt may store the event, and may hear that it did; after one that *)
(* it hears nothing of it tries again, unless the error is permanent.       *)
Attempt(e) ==
    /\ fate[e] = "queued"
    /\ tries' = [tries EXCEPT ![e] = @ + 1]
    /\ \E written \in BOOLEAN :
           /\ copies' = IF written THEN [copies EXCEPT ![e] = @ + 1] ELSE copies
           /\ \E f \in {"acked", "queued", "lost"} :
                  /\ f = "acked" => MayAck(written)
                  /\ f = "queued" => Retries(e)
                  /\ fate' = [fate EXCEPT ![e] = f]
    /\ UNCHANGED <<writer, answer>>

ReturnWhenAcked(c) ==
    /\ answer[c] = "waiting"
    /\ \A e \in EventsOf[c] : fate[e] = "acked"
    /\ Answer(c, "nil")
    /\ UNCHANGED <<writer, fate, tries, copies>>

(* WriteMessages returns when the Writer is through with its batches, or    *)
(* when the context of the request is done, whatever becomes of them then   *)
Return(c) ==
    /\ answer[c] = "waiting"
    /\ \A e \in EventsOf[c] : fate[e] # "queued"
    /\ Answer(c, IF \E e \in EventsOf[c] : fate[e] = "lost" THEN "write" ELSE "nil")
    /\ UNCHANGED <<writer, fate, tries, copies>>

ContextEnds(c) ==
    /\ answer[c] = "waiting"
    /\ Answer(c, "context")
    /\ UNCHANGED <<writer, fate, tries, copies>>

-----------------------------------------------------------------------------
CloseInBackground ==
    /\ writer = "open"
    /\ writer' = "closed"
    /\ UNCHANGED <<answer, fate, tries, copies>>

Close ==
    /\ writer = "open"
    /\ writer' = "closing"
    /\ UNCHANGED <<answer, fate, tries, copies>>

CloseReturns ==
    /\ writer = "closing"
    /\ \A c \in Call : answer[c] # "waiting"
    /\ \A e \in Event : fate[e] # "queued"
    /\ writer' = "closed"
    /\ UNCHANGED <<answer, fate, tries, copies>>

Next ==
    \/ \E c \in Call :
           \/ PublishNothing(c) \/ MarshalFails(c)
           \/ WriteMessages(c) \/ WriteRefused(c)
           \/ Return(c) \/ ContextEnds(c)
    \/ \E e \in Event : Attempt(e)
    \/ Close \/ CloseReturns

(* An attempt ends, by an answer or by the Writer's own deadline, and calls *)
(* that have nothing to wait for return; contexts and shutdowns owe nothing *)
Fairness ==
    /\ \A e \in Event : WF_vars(Attempt(e))
    /\ \A c \in Call : WF_vars(Return(c))
    /\ WF_vars(CloseReturns)

Spec == Init /\ [][Next]_vars /\ Fairness

-----------------------------------------------------------------------------
(* Correctness *)

(* A Publish that returned nil has all its events in the topic, through     *)
(* lost acknowledgements and retries.  One that failed to marshal an event, *)
(* or that came when the Writer was closed, has none there and none on its  *)
(* way, though the other events of the call were in order.                  *)
AnswersMatchTopic ==
    \A c \in Call, e \in Event :
        e \in EventsOf[c] =>
            /\ answer[c] = "nil" => copies[e] > 0
            /\ answer[c] \in {"marshal", "closed"} => fate[e] = "unsent" /\ copies[e] = 0

(* When Close returns nothing is on its way any more, not even the events   *)
(* of a call whose context ended before they were delivered: what is in the *)
(* topic then is all that will ever be, and no call returns nil after it.   *)
CloseFlushes ==
    [][writer = "closed" =>
          /\ UNCHANGED <<fate, copies>>
          /\ \A c \in Call :
                 answer'[c] = "nil" => answer[c] = "nil" \/ EventsOf[c] = {}]_vars

(* No upload waits for Kafka for ever, and neither does the shutdown,       *)
(* whatever the brokers do: attempts are bounded.                           *)
EveryCallReturns ==
    /\ \A c \in Call : answer[c] = "waiting" ~> answer[c] # "waiting"
    /\ writer = "closing" ~> writer = "closed"
===============================================================================
