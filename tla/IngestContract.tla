---------------------------- MODULE IngestContract ----------------------------
(***************************************************************************)
(* What the ingestion service promises a client, whatever fails and        *)
(* whichever uploads race: the specification that Ingestion implements.    *)
(*                                                                         *)
(* A content is claimed at most once, by an upload that is still being     *)
(* served, and never changes hands.  It is then filled in, once.  What     *)
(* goes out, as an answer or as an event, is true of the record when it    *)
(* goes out.  The contract is deliberately no stronger than that: a        *)
(* content may stay incomplete for ever, and the answer to a second upload *)
(* may call an incomplete content completed.  Both are behaviours of the   *)
(* code (the README says why), and a contract without them would be a wish.*)
(***************************************************************************)
CONSTANTS
    Request, File,
    WellFormed,     \* the contents that parse, a subset of File
    NoId            \* no id of a request

VARIABLES
    upload,     \* the content each request carries
    record,     \* what is stored of each content, and under which id
    announced,  \* the events consumers can see
    reply       \* the outcome each client has been told

vars == <<upload, record, announced, reply>>

Absent == [id |-> NoId, state |-> "absent"]

NoReply == [status |-> "none", id |-> NoId]

Error == [status |-> "error", id |-> NoId]

Init ==
    /\ upload \in [Request -> File]
    /\ record = [f \in File |-> Absent]
    /\ announced = {}
    /\ reply = [r \in Request |-> NoReply]

(* A request that has not been answered yet takes an absent content: it     *)
(* becomes incomplete if it parses, failed if it does not.                  *)
Claim(r) ==
    /\ reply[r] = NoReply
    /\ record[upload[r]] = Absent
    /\ record' = [record EXCEPT ![upload[r]] =
           [id |-> r, state |-> IF upload[r] \in WellFormed
                                THEN "incomplete" ELSE "failed"]]
    /\ UNCHANGED <<upload, announced, reply>>

(* The version and every message of a content have been stored, before its  *)
(* claimant was answered.                                                   *)
Complete(f) ==
    /\ record[f].state = "incomplete"
    /\ reply[record[f].id] = NoReply
    /\ record' = [record EXCEPT ![f].state = "stored"]
    /\ UNCHANGED <<upload, announced, reply>>

(* Events about a stored content name its id; an event about a content that *)
(* does not parse names the upload that failed, stored or not.              *)
Truthful(e) ==
    IF e.type = "interchange.failed"
    THEN upload[e.id] \notin WellFormed
    ELSE record[upload[e.id]] = [id |-> e.id, state |-> "stored"]

Event == [type : {"interchange.ingested", "version.created", "interchange.failed"},
          id : Request]

Announce(r) ==
    /\ reply[r] = NoReply
    /\ \E events \in SUBSET {e \in Event : e.id = r /\ Truthful(e)} :
           announced' = announced \cup events
    /\ UNCHANGED <<upload, record, reply>>

(* The answers a request may get: its own content, stored; somebody else's  *)
(* claim of the same content; a parse failure, under its own id or the      *)
(* stored one; or an error.                                                 *)
Answers(r) ==
    LET held == record[upload[r]]
    IN  {Error}
        \cup {a \in [status : {"completed"}, id : Request] :
                  /\ a.id = held.id
                  /\ \/ held.state = "stored"
                     \/ (held.state = "incomplete" /\ a.id # r)}
        \cup {a \in [status : {"failed"}, id : Request] :
                  /\ upload[r] \notin WellFormed
                  /\ a.id \in {r, held.id}}

Answer(r) ==
    /\ reply[r] = NoReply
    /\ \E a \in Answers(r) : reply' = [reply EXCEPT ![r] = a]
    /\ UNCHANGED <<upload, record, announced>>

Next ==
    \/ \E r \in Request : Claim(r) \/ Announce(r) \/ Answer(r)
    \/ \E f \in File : Complete(f)

Spec == Init /\ [][Next]_vars
===============================================================================
