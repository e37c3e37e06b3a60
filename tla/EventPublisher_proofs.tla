------------------------- MODULE EventPublisher_proofs ------------------------
(***************************************************************************)
(* Proofs about EventPublisher, for any calls, events and bound on the     *)
(* attempts: what the answers of Publish and Close say of the topic.       *)
(***************************************************************************)
EXTENDS EventPublisher, TLAPS

(* Events of calls that wrote nothing are untouched; an event is only       *)
(* acknowledged when it is stored, a call only told nil when all its events *)
(* are acknowledged.                                                        *)
Untouched ==
    /\ \A e \in Event : fate[e] = "unsent" => copies[e] = 0
    /\ \A c \in Call : \A e \in EventsOf[c] :
           answer[c] \in {"none", "marshal", "closed"} => fate[e] = "unsent"

Acknowledged ==
    /\ \A e \in Event : fate[e] = "acked" => copies[e] > 0
    /\ \A c \in Call : \A e \in EventsOf[c] :
           /\ answer[c] = "waiting" => fate[e] # "unsent"
           /\ answer[c] = "nil" => fate[e] = "acked"

Drained ==
    writer = "closed" =>
        /\ \A c \in Call : answer[c] # "waiting"
        /\ \A e \in Event : fate[e] # "queued"

IInv == TypeOK /\ Untouched /\ Acknowledged /\ Drained

(* IInv holds when the process starts (dependency_options.go:171-184).      *)
LEMMA InitIInv == Init => IInv
  BY PublisherAssumption DEF Init, IInv, TypeOK, Untouched, Acknowledged, Drained

(* An attempt changes the fate of one event that was queued.                *)
LEMMA AttemptStep ==
    ASSUME IInv, NEW x \in Event, Attempt(x)
    PROVE  /\ fate[x] = "queued"
           /\ writer # "closed"
           /\ answer' = answer /\ writer' = writer
           /\ TypeOK'
           /\ fate'[x] \in {"acked", "queued", "lost"}
           /\ fate'[x] = "acked" => copies'[x] > 0
           /\ \A e \in Event \ {x} : fate'[e] = fate[e] /\ copies'[e] = copies[e]
  <1>1. /\ fate[x] = "queued"
        /\ answer' = answer /\ writer' = writer
    BY DEF Attempt
  <1>2. writer # "closed"
    BY <1>1 DEF IInv, Drained
  <1>3. PICK written \in BOOLEAN, f \in {"acked", "queued", "lost"} :
            /\ copies' = IF written THEN [copies EXCEPT ![x] = @ + 1] ELSE copies
            /\ f = "acked" => MayAck(written)
            /\ fate' = [fate EXCEPT ![x] = f]
    BY DEF Attempt
  <1>4. f = "acked" => written
    BY <1>3 DEF MayAck, RequiredAcks
  <1>5. TypeOK'
    <2>1. tries' = [tries EXCEPT ![x] = @ + 1]
      BY DEF Attempt
    <2> QED
      BY <1>1, <1>3, <2>1 DEF IInv, TypeOK
  <1>6. fate'[x] = f /\ (f = "acked" => copies'[x] > 0)
    BY <1>3, <1>4 DEF IInv, TypeOK
  <1>7. \A e \in Event \ {x} : fate'[e] = fate[e] /\ copies'[e] = copies[e]
    BY <1>3 DEF IInv, TypeOK
  <1> QED
    BY <1>1, <1>2, <1>5, <1>6, <1>7

(* IInv is kept by every step of Publish (event_publisher.go:53-82), of the *)
(* Writer and of Close (event_publisher.go:85-91).                          *)
LEMMA IInvStep == IInv /\ [Next]_vars => IInv'
  <1> SUFFICES ASSUME IInv, [Next]_vars
               PROVE  IInv'
    OBVIOUS
  <1>a. /\ \A c \in Call : EventsOf[c] \subseteq Event
        /\ \A c, d \in Call : c # d => EventsOf[c] \cap EventsOf[d] = {}
    BY PublisherAssumption
  <1>1. ASSUME NEW c \in Call,
               PublishNothing(c) \/ MarshalFails(c) \/ WriteRefused(c)
        PROVE  IInv'
    <2>1. /\ UNCHANGED <<writer, fate, tries, copies>>
          /\ answer[c] = "none"
          /\ \E a \in {"nil", "marshal", "write", "closed"} :
                 answer' = [answer EXCEPT ![c] = a] /\ (a = "nil" => EventsOf[c] = {})
      BY <1>1 DEF PublishNothing, MarshalFails, WriteRefused, Answer
    <2>2. /\ answer'[c] \in {"nil", "marshal", "write", "closed"}
          /\ answer'[c] = "nil" => EventsOf[c] = {}
          /\ \A d \in Call \ {c} : answer'[d] = answer[d]
          /\ TypeOK'
      BY <2>1 DEF IInv, TypeOK
    <2> QED
      BY <2>1, <2>2, <1>a DEF IInv, Untouched, Acknowledged, Drained
  <1>2. ASSUME NEW c \in Call, WriteMessages(c)
        PROVE  IInv'
    <2>1. /\ UNCHANGED <<writer, tries, copies>>
          /\ answer[c] = "none" /\ writer = "open"
          /\ answer' = [answer EXCEPT ![c] = "waiting"]
          /\ fate' = [e \in Event |-> IF e \in EventsOf[c] THEN "queued" ELSE fate[e]]
      BY <1>2 DEF WriteMessages, Answer, Async
    <2>2. /\ TypeOK'
          /\ answer'[c] = "waiting"
          /\ \A d \in Call \ {c} : answer'[d] = answer[d]
          /\ \A e \in Event : e \in EventsOf[c] => fate'[e] = "queued"
          /\ \A e \in Event : e \notin EventsOf[c] => fate'[e] = fate[e]
      BY <2>1 DEF IInv, TypeOK
    <2>3. Untouched'
      BY <2>1, <2>2, <1>a DEF IInv, Untouched
    <2>4. Acknowledged'
      BY <2>1, <2>2, <1>a DEF IInv, Acknowledged
    <2> QED
      BY <2>1, <2>2, <2>3, <2>4 DEF IInv, Drained
  <1>3. ASSUME NEW c \in Call, Return(c) \/ ContextEnds(c)
        PROVE  IInv'
    <2>1. /\ UNCHANGED <<writer, fate, tries, copies>>
          /\ answer[c] = "waiting"
          /\ \E a \in {"nil", "write", "context"} :
                 /\ answer' = [answer EXCEPT ![c] = a]
                 /\ a = "nil" => \A e \in EventsOf[c] : fate[e] \notin {"queued", "lost"}
      BY <1>3 DEF Return, ContextEnds, Answer
    <2>2. /\ answer'[c] \in {"nil", "write", "context"}
          /\ answer'[c] = "nil" => \A e \in EventsOf[c] : fate[e] \notin {"queued", "lost"}
          /\ \A d \in Call \ {c} : answer'[d] = answer[d]
          /\ TypeOK'
      BY <2>1 DEF IInv, TypeOK
    <2>3. \A e \in EventsOf[c] : fate[e] # "unsent"
      BY <2>1 DEF IInv, Acknowledged
    <2> QED
      BY <2>1, <2>2, <2>3, <1>a DEF IInv, TypeOK, Untouched, Acknowledged, Drained
  <1>4. ASSUME NEW x \in Event, Attempt(x)
        PROVE  IInv'
    <2> QED
      BY <1>4, AttemptStep, <1>a DEF IInv, Untouched, Acknowledged, Drained
  <1>5. CASE Close \/ CloseReturns
    BY <1>5 DEF Close, CloseReturns, IInv, TypeOK, Untouched, Acknowledged, Drained
  <1>6. CASE UNCHANGED vars
    BY <1>6 DEF vars, IInv, TypeOK, Untouched, Acknowledged, Drained
  <1> QED
    BY <1>1, <1>2, <1>3, <1>4, <1>5, <1>6 DEF Next

(* The inductive invariant, for every number of calls and attempts.         *)
THEOREM Invariance == Spec => []IInv
  BY InitIInv, IInvStep, PTL DEF Spec

-------------------------------------------------------------------------------
(* Type correctness of the Writer's state and of the answers of Publish.    *)
THEOREM TypeCorrect == Spec => []TypeOK
  BY Invariance, PTL DEF IInv

(* A Publish that returned nil has stored all its events, one that refused  *)
(* has stored none, for any number of attempts and lost acknowledgements    *)
(* (event_publisher.go:53-82, kafka.go:15-16).                              *)
THEOREM TruthfulAnswers == Spec => []AnswersMatchTopic
  <1>1. IInv => AnswersMatchTopic
    BY DEF IInv, Untouched, Acknowledged, AnswersMatchTopic
  <1> QED
    BY <1>1, Invariance, PTL

(* Nothing is delivered once Close has returned, and no later call is told  *)
(* that it was (event_publisher.go:84-91).                                  *)
THEOREM Flushing == Spec => CloseFlushes
  <1>1. IInv /\ IInv' /\ [Next]_vars /\ writer = "closed" =>
            /\ UNCHANGED <<fate, copies>>
            /\ \A c \in Call :
                   answer'[c] = "nil" => answer[c] = "nil" \/ EventsOf[c] = {}
    <2> SUFFICES ASSUME IInv, IInv', [Next]_vars, writer = "closed"
                 PROVE  /\ UNCHANGED <<fate, copies>>
                        /\ \A c \in Call :
                               answer'[c] = "nil" => answer[c] = "nil" \/ EventsOf[c] = {}
      OBVIOUS
    <2>1. /\ \A c \in Call : answer[c] # "waiting"
          /\ \A e \in Event : fate[e] # "queued"
      BY DEF IInv, Drained
    <2>2. UNCHANGED <<fate, copies>>
      BY <2>1 DEF Next, PublishNothing, MarshalFails, WriteMessages, WriteRefused,
                  Return, ContextEnds, Attempt, Close, CloseReturns, vars
    <2>3. \A c \in Call : answer'[c] = "nil" =>
              answer[c] \in {"nil", "none"}
      <3>1. CASE UNCHANGED answer
        BY <3>1
      <3>2. ASSUME NEW d \in Call, NEW a, answer[d] = "none",
                   answer' = [answer EXCEPT ![d] = a]
            PROVE  \A c \in Call : answer'[c] = "nil" => answer[c] \in {"nil", "none"}
        BY <3>2 DEF IInv, TypeOK
      <3>3. CASE \E d \in Call : PublishNothing(d) \/ MarshalFails(d) \/ WriteRefused(d)
        BY <3>2, <3>3 DEF PublishNothing, MarshalFails, WriteRefused, Answer
      <3> QED
        BY <2>1, <3>1, <3>3 DEF Next, WriteMessages, Return, ContextEnds, Attempt,
                                Close, CloseReturns, vars
    <2>4. ASSUME NEW c \in Call, answer'[c] = "nil", answer[c] = "none", EventsOf[c] # {}
          PROVE  FALSE
      <3>1. PICK e \in EventsOf[c] : TRUE
        BY <2>4
      <3>2. fate[e] = "unsent" /\ e \in Event
        BY <2>4, PublisherAssumption DEF IInv, Untouched
      <3>3. fate'[e] = "acked"
        BY <2>4 DEF IInv, Acknowledged
      <3> QED
        BY <3>2, <3>3, <2>2
    <2> QED
      BY <2>2, <2>3, <2>4
  <1> QED
    BY <1>1, Invariance, IInvStep, PTL DEF Spec, CloseFlushes

-------------------------------------------------------------------------------
(* An event is tried at most MaxAttempts times and stored at most once for  *)
(* every try; one that is still queued has a try left.                      *)
TriesAreBounded ==
    \A e \in Event :
        /\ copies[e] <= tries[e] /\ tries[e] <= MaxAttempts
        /\ fate[e] = "queued" => tries[e] < MaxAttempts
        /\ fate[e] = "unsent" => tries[e] = 0

LEMMA TriesStep == IInv /\ TriesAreBounded /\ [Next]_vars => TriesAreBounded'
  <1> SUFFICES ASSUME IInv, TriesAreBounded, [Next]_vars
               PROVE  TriesAreBounded'
    OBVIOUS
  <1>1. CASE UNCHANGED <<fate, tries, copies>>
    BY <1>1 DEF TriesAreBounded
  <1>2. ASSUME NEW c \in Call, WriteMessages(c)
        PROVE  TriesAreBounded'
    <2>1. /\ UNCHANGED <<tries, copies>> /\ answer[c] = "none"
          /\ fate' = [e \in Event |-> IF e \in EventsOf[c] THEN "queued" ELSE fate[e]]
      BY <1>2 DEF WriteMessages
    <2>2. \A e \in EventsOf[c] : tries[e] = 0
      BY <2>1, PublisherAssumption DEF IInv, Untouched, TriesAreBounded
    <2> QED
      BY <2>1, <2>2, PublisherAssumption DEF TriesAreBounded
  <1>3. ASSUME NEW x \in Event, Attempt(x)
        PROVE  TriesAreBounded'
    <2>1. PICK written \in BOOLEAN, f \in {"acked", "queued", "lost"} :
              /\ copies' = IF written THEN [copies EXCEPT ![x] = @ + 1] ELSE copies
              /\ f = "queued" => tries[x] + 1 < MaxAttempts
              /\ fate' = [fate EXCEPT ![x] = f]
      BY <1>3 DEF Attempt, Retries
    <2>2. fate[x] = "queued" /\ tries' = [tries EXCEPT ![x] = @ + 1]
      BY <1>3 DEF Attempt
    <2>3. /\ copies[x] \in Nat /\ tries[x] \in Nat /\ MaxAttempts \in Nat
          /\ copies[x] <= tries[x] /\ tries[x] < MaxAttempts
      BY <2>2, PublisherAssumption DEF IInv, TypeOK, TriesAreBounded
    <2>4. tries'[x] = tries[x] + 1 /\ fate'[x] = f
      BY <2>1, <2>2 DEF IInv, TypeOK
    <2>5. copies'[x] \in {copies[x], copies[x] + 1}
      BY <2>1 DEF IInv, TypeOK
    <2>6. \A e \in Event \ {x} :
              tries'[e] = tries[e] /\ fate'[e] = fate[e] /\ copies'[e] = copies[e]
      BY <2>1, <2>2 DEF IInv, TypeOK
    <2>7. /\ copies'[x] <= tries'[x] /\ tries'[x] <= MaxAttempts
          /\ fate'[x] = "queued" => tries'[x] < MaxAttempts
          /\ fate'[x] # "unsent"
      BY <2>1, <2>3, <2>4, <2>5
    <2> QED
      BY <2>6, <2>7 DEF TriesAreBounded
  <1> QED
    BY <1>1, <1>2, <1>3 DEF Next, PublishNothing, MarshalFails, WriteRefused, Return,
                            ContextEnds, Close, CloseReturns, vars

(* However often an acknowledgement is lost, an event is stored at most     *)
(* MaxAttempts times, and what is queued has a try left, so that the Writer *)
(* is through with a batch after a bounded number of attempts: the safety   *)
(* half of EveryCallReturns (event_publisher.go:53-82).                     *)
THEOREM BoundedDuplicates == Spec => []TriesAreBounded
  <1>1. Init => TriesAreBounded
    BY PublisherAssumption DEF Init, TriesAreBounded
  <1> QED
    BY <1>1, TriesStep, Invariance, PTL DEF Spec
===============================================================================
