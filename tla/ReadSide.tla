------------------------------- MODULE ReadSide -------------------------------
(***************************************************************************)
(* GET /messages and GET /interchanges/{id} while uploads store: the       *)
(* handlers (router.go), MessageFilter.Validate (filters.go), the service  *)
(* (ingestion_service.go GetInterchange, ListMessages) and the statements  *)
(* they run.  A listing is read page by page, a detail by three statements *)
(* of its own; no transaction holds either together.                       *)
(*                                                                         *)
(* The uploads are those of module Ingestion, each of a content of its     *)
(* own, as far as a reader sees them: an interchange row, its version, its *)
(* messages, one statement each, given up anywhere.  The id of a message   *)
(* is a UUID v7, drawn by NewMessage while the upload still builds its     *)
(* messages; the rows become visible together, by one INSERT, later.       *)
(* Within one process NewV7 never goes back, so ids are the values of a    *)
(* clock.  Interchange and version are named by the upload that stores     *)
(* them, as in Database.                                                   *)
(***************************************************************************)
EXTENDS Integers, Sequences, Functions

CONSTANTS
    Upload,             \* the uploads whose messages are being stored
    Reader,             \* clients that page through GET /messages
    Client,             \* clients that ask GET /interchanges/{id}
    Unparsed,           \* uploads whose content does not parse
    ReadsFail,          \* whether a statement of a read may fail
    Any,                \* a criterion the request leaves out
    Content,            \* what the parser found in each upload's file
    Criteria,           \* the filters clients use in this instance
    Limits,             \* the limits clients ask for; 0 if they name none
    DefaultPageLimit,
    MaxPageLimit

(* A parsed message as far as a filter tells it apart *)
Parsed == [subscription : STRING, type : STRING]

ASSUME ReadSideAssumption ==
    /\ Content \in [Upload -> Seq(Parsed)]
    /\ Unparsed \subseteq Upload
    /\ ReadsFail \in BOOLEAN
    /\ \A f \in Criteria :
           DOMAIN f = {"interchange", "version", "subscription", "type"}
    /\ Limits \subseteq Int
    /\ DefaultPageLimit \in Nat \ {0}
    /\ MaxPageLimit \in Nat
    /\ DefaultPageLimit <= MaxPageLimit

VARIABLES
    stage,          \* stage[u]: how far the ingest of u has come
    clock,          \* the last id NewV7 gave out
    built,          \* built[u]: the messages buildMessages has made so far
    interchanges,   \* rows of table interchanges
    versions,       \* rows of table processing_versions, all active
    messages        \* rows of table messages

writers == <<stage, clock, built, interchanges, versions, messages>>

VARIABLES
    criteria,   \* criteria[c]: the filter of the listing c is reading
    limit,      \* limit[c]: its limit, after Validate
    cursor,     \* cursor[c]: next_cursor of its last page; 0 before the first
    listed,     \* listed[c]: the items of its pages so far, one after another
    phase,      \* phase[c]: "idle", "paging" or "done"
    there       \* there[c]: rows it should list that its first page found stored

listings == <<criteria, limit, cursor, listed, phase, there>>

VARIABLES
    target,     \* target[d]: the interchange client d asks for
    step,       \* step[d]: the statement GetInterchange runs next for d
    detail,     \* detail[d]: InterchangeDetail as far as it is filled in
    before,     \* before[d]: what the detail would have been when d asked
    failed      \* failed[d]: a statement of this query failed

queries == <<target, step, detail, before, failed>>

vars == <<writers, listings, queries>>

Rows == [id : Nat \ {0}, interchange : Upload, version : Upload,
         subscription : STRING, type : STRING]

InterchangeRows == [id : Upload, status : {"completed", "failed"}]

(* MessageCount is kept as the set of rows it counts. *)
Details == [code : {"pending", "ok", "notFound", "internal"},
            status : {"none", "completed", "failed"},
            version : BOOLEAN, counted : SUBSET Rows]

NoDetail == [code |-> "pending", status |-> "none", version |-> FALSE,
             counted |-> {}]

Init ==
    /\ stage = [u \in Upload |-> "new"]
    /\ clock = 0
    /\ built = [u \in Upload |-> <<>>]
    /\ interchanges = {}
    /\ versions = {}
    /\ messages = {}
    /\ criteria \in [Reader -> Criteria]
    /\ limit = [c \in Reader |-> DefaultPageLimit]
    /\ cursor = [c \in Reader |-> 0]
    /\ listed = [c \in Reader |-> <<>>]
    /\ phase = [c \in Reader |-> "idle"]
    /\ there = [c \in Reader |-> {}]
    /\ target \in [Client -> Upload]
    /\ step = [d \in Client |-> "idle"]
    /\ detail = [d \in Client |-> NoDetail]
    /\ before = [d \in Client |-> NoDetail]
    /\ failed = [d \in Client |-> FALSE]

-------------------------------------------------------------------------------
(* Storing *)

Goto(u, next) == stage' = [stage EXCEPT ![u] = next]

(* The interchange row.  A content that does not parse gets nothing else. *)
StoreInterchange(u) ==
    /\ stage[u] = "new"
    /\ \/ /\ u \in Unparsed
          /\ interchanges' =
                 interchanges \cup {[id |-> u, status |-> "failed"]}
          /\ Goto(u, "done")
       \/ /\ u \notin Unparsed
          /\ interchanges' =
                 interchanges \cup {[id |-> u, status |-> "completed"]}
          /\ Goto(u, "stored")
    /\ UNCHANGED <<clock, built, versions, messages, listings, queries>>

StoreVersion(u) ==
    /\ stage[u] = "stored"
    /\ versions' = versions \cup {u}
    /\ Goto(u, "building")
    /\ UNCHANGED <<clock, built, interchanges, messages, listings, queries>>

(* One turn of the loop of buildMessages: NewMessage draws an id.  Other    *)
(* uploads draw theirs in between.                                          *)
NewMessage(u) ==
    /\ stage[u] = "building"
    /\ Len(built[u]) < Len(Content[u])
    /\ clock' = clock + 1
    /\ LET parsed == Content[u][Len(built[u]) + 1]
           row == [id |-> clock + 1, interchange |-> u, version |-> u,
                   subscription |-> parsed.subscription, type |-> parsed.type]
       IN built' = [built EXCEPT ![u] = Append(@, row)]
    /\ UNCHANGED <<stage, interchanges, versions, messages, listings, queries>>

InsertRowByRow(u) ==
    /\ stage[u] = "building"
    /\ built[u] # <<>>
    /\ Len(built[u]) = Len(Content[u])
    /\ \E row \in Range(built[u]) \ messages :
          /\ messages' = messages \cup {row}
          /\ Goto(u, IF Range(built[u]) \subseteq messages'
                     THEN "done" ELSE "building")
    /\ UNCHANGED <<clock, built, interchanges, versions, listings, queries>>

(* BulkCreate: all messages of the upload in one INSERT *)
BulkCreate(u) ==
    /\ stage[u] = "building"
    /\ Len(built[u]) = Len(Content[u])
    /\ messages' = messages \cup Range(built[u])
    /\ Goto(u, "done")
    /\ UNCHANGED <<clock, built, interchanges, versions, listings, queries>>

(* The upload fails before its next statement executes. *)
GiveUp(u) ==
    /\ stage[u] # "done"
    /\ Goto(u, "done")
    /\ UNCHANGED <<clock, built, interchanges, versions, messages, listings,
                   queries>>

-------------------------------------------------------------------------------
(* Listing *)

(* MessageFilter.Validate, after the handler put the default in the place   *)
(* of a limit that is missing or not positive.                              *)
Validate(n) ==
    LET atLeastOne == IF n < 1 THEN DefaultPageLimit ELSE n
    IN IF atLeastOne > MaxPageLimit THEN MaxPageLimit ELSE atLeastOne

EffectiveLimit(n) == Validate(IF n > 0 THEN n ELSE DefaultPageLimit)

(* A client begins a listing.  Nothing is read before its first page. *)
Ask(c) ==
    /\ phase[c] # "paging"
    /\ \E f \in Criteria, n \in Limits :
          /\ criteria' = [criteria EXCEPT ![c] = f]
          /\ limit' = [limit EXCEPT ![c] = EffectiveLimit(n)]
    /\ cursor' = [cursor EXCEPT ![c] = 0]
    /\ listed' = [listed EXCEPT ![c] = <<>>]
    /\ there' = [there EXCEPT ![c] = {}]
    /\ phase' = [phase EXCEPT ![c] = "paging"]
    /\ UNCHANGED <<writers, queries>>

(* WHERE: every criterion the request names *)
Matches(row, f) == \A k \in DOMAIN f : f[k] \in {Any, row[k]}

Matching(c) == {row \in messages : Matches(row, criteria[c])}

NotBeforeCursor(c) == {row \in Matching(c) : row.id >= cursor[c]}

\* ... AND id > cursor
Eligible(c) == {row \in Matching(c) : row.id > cursor[c]}

Ascending(s) == \A i, j \in DOMAIN s : i < j => s[i].id < s[j].id

(* What ORDER BY id ASC LIMIT n selects from the rows S: up to n of them in *)
(* order, and those that are left out come after all of them.               *)
Select(S, n) ==
    {s \in UNION {[1 .. k -> S] : k \in 0 .. n} :
        /\ Ascending(s)
        /\ \/ Range(s) = S
           \/ Len(s) = n /\ \A row \in S \ Range(s), i \in 1 .. n :
                                s[i].id < row.id}

MoreWhenFull(rows, n) == Len(rows) >= n

(* One row more than the page was asked for, to tell if a page follows *)
More(rows, n) == Len(rows) > n

WholeAnswer(rows, n) == rows

Page(rows, n) == IF More(rows, n) THEN SubSeq(rows, 1, n) ELSE rows

CursorOfExtraRow(rows, n) == rows[Len(rows)].id

NextCursor(rows, n) == rows[n].id

(* One request for a page, with the cursor of the page before it *)
FetchPage(c) ==
    /\ phase[c] = "paging"
    /\ \E rows \in Select(Eligible(c), limit[c] + 1) :
          /\ listed' = [listed EXCEPT ![c] = @ \o Page(rows, limit[c])]
          /\ \/ /\ More(rows, limit[c])
                /\ cursor' = [cursor EXCEPT ![c] = NextCursor(rows, limit[c])]
                /\ UNCHANGED phase
             \/ /\ ~More(rows, limit[c])
                /\ phase' = [phase EXCEPT ![c] = "done"]
                /\ UNCHANGED cursor
    /\ there' = IF cursor[c] = 0 THEN [there EXCEPT ![c] = Matching(c)] ELSE there
    /\ UNCHANGED <<writers, criteria, limit, queries>>

-------------------------------------------------------------------------------
(* One interchange in detail *)

(* What the three statements would answer about u if they ran at once *)
CurrentDetail(u) ==
    IF \E row \in interchanges : row.id = u
    THEN [code |-> "ok",
          status |-> (CHOOSE row \in interchanges : row.id = u).status,
          version |-> u \in versions,
          counted |-> {row \in messages : row.interchange = u}]
    ELSE [NoDetail EXCEPT !.code = "notFound"]

(* A client asks for the detail of an interchange. *)
AskDetail(d) ==
    /\ step[d] \in {"idle", "answered"}
    /\ \E u \in Upload :
          /\ target' = [target EXCEPT ![d] = u]
          /\ before' = [before EXCEPT ![d] = CurrentDetail(u)]
    /\ step' = [step EXCEPT ![d] = "findInterchange"]
    /\ detail' = [detail EXCEPT ![d] = NoDetail]
    /\ failed' = [failed EXCEPT ![d] = FALSE]
    /\ UNCHANGED <<writers, listings>>

(* interchangeRepo.FindByID: its failure is the only one the client sees *)
FindByID(d) ==
    /\ step[d] = "findInterchange"
    /\ \/ /\ \E row \in interchanges :
                /\ row.id = target[d]
                /\ detail' = [detail EXCEPT ![d] =
                       [NoDetail EXCEPT !.code = "ok", !.status = row.status]]
          /\ step' = [step EXCEPT ![d] = "findVersion"]
          /\ UNCHANGED failed
       \/ /\ \A row \in interchanges : row.id # target[d]
          /\ detail' = [detail EXCEPT ![d].code = "notFound"]
          /\ step' = [step EXCEPT ![d] = "answered"]
          /\ UNCHANGED failed
       \/ /\ ReadsFail
          /\ detail' = [detail EXCEPT ![d].code = "internal"]
          /\ step' = [step EXCEPT ![d] = "answered"]
          /\ failed' = [failed EXCEPT ![d] = TRUE]
    /\ UNCHANGED <<writers, listings, target, before>>

FindsVersionInUse(d) == \E row \in messages : row.version = target[d]

FindsVersion(d) == target[d] \in versions

(* versionRepo.FindActive: an error of any kind leaves ActiveVersion nil. *)
FindActive(d) ==
    /\ step[d] = "findVersion"
    /\ \/ /\ detail' = [detail EXCEPT ![d].version = FindsVersion(d)]
          /\ UNCHANGED failed
       \/ /\ ReadsFail
          /\ failed' = [failed EXCEPT ![d] = TRUE]
          /\ UNCHANGED detail
    /\ step' = [step EXCEPT ![d] = "count"]
    /\ UNCHANGED <<writers, listings, target, before>>

(* messageRepo.Count: an error leaves MessageCount 0. *)
Count(d) ==
    /\ step[d] = "count"
    /\ \/ /\ detail' = [detail EXCEPT ![d].counted =
                            {row \in messages : row.interchange = target[d]}]
          /\ UNCHANGED failed
       \/ /\ ReadsFail
          /\ failed' = [failed EXCEPT ![d] = TRUE]
          /\ UNCHANGED detail
    /\ step' = [step EXCEPT ![d] = "answered"]
    /\ UNCHANGED <<writers, listings, target, before>>

-------------------------------------------------------------------------------
Store(u) ==
    \/ StoreInterchange(u)
    \/ StoreVersion(u)
    \/ NewMessage(u)
    \/ BulkCreate(u)
    \/ GiveUp(u)

GetInterchange(d) ==
    \/ AskDetail(d)
    \/ FindByID(d)
    \/ FindActive(d)
    \/ Count(d)

Next ==
    \/ \E u \in Upload : Store(u)
    \/ \E c \in Reader : Ask(c) \/ FetchPage(c)
    \/ \E d \in Client : GetInterchange(d)

Spec == Init /\ [][Next]_vars

-------------------------------------------------------------------------------
(* Properties *)

StoredTypeOK ==
    /\ stage \in [Upload -> {"new", "stored", "building", "done"}]
    /\ clock \in Nat
    /\ built \in [Upload -> Seq(Rows)]
    /\ interchanges \subseteq InterchangeRows
    /\ versions \subseteq Upload
    /\ messages \subseteq Rows

ListingsTypeOK ==
    /\ criteria \in [Reader -> Criteria]
    /\ limit \in [Reader -> 1 .. MaxPageLimit]
    /\ cursor \in [Reader -> Nat]
    /\ listed \in [Reader -> Seq(Rows)]
    /\ phase \in [Reader -> {"idle", "paging", "done"}]
    /\ there \in [Reader -> SUBSET Rows]

QueriesTypeOK ==
    /\ target \in [Client -> Upload]
    /\ step \in [Client -> {"idle", "findInterchange", "findVersion", "count",
                            "answered"}]
    /\ detail \in [Client -> Details]
    /\ before \in [Client -> Details]
    /\ failed \in [Client -> BOOLEAN]

(* Type invariant: the limit a statement runs with is between 1 and the     *)
(* maximum, whatever the request asked for.                                 *)
TypeOK ==
    /\ StoredTypeOK
    /\ ListingsTypeOK
    /\ QueriesTypeOK

(* The pages of one listing, put one after another, are in id order and     *)
(* name no message twice, whatever is stored between two pages.             *)
PagesAscend == \A c \in Reader : Ascending(listed[c])

(* No message that was stored when a listing began is skipped: once the     *)
(* cursor has passed it, or the listing is over, it has been listed.        *)
StoredRowsAreListed ==
    \A c \in Reader : \A row \in there[c] :
        (phase[c] = "done" \/ row.id <= cursor[c]) => row \in Range(listed[c])

(* The listing of one interchange or version is never cut in half by the    *)
(* ingest that stores it: a finished listing names none of its messages or  *)
(* all those that match, although its pages are separate statements.        *)
InterchangeListedWhole ==
    \A c \in Reader :
        /\ phase[c] = "done"
        /\ criteria[c].interchange # Any \/ criteria[c].version # Any
        /\ listed[c] # <<>>
        => Matching(c) \subseteq Range(listed[c])

(* A page that carries a cursor is full, and the page behind that cursor is *)
(* not empty: clients never make a last request for nothing.                *)
CursorMeansMore ==
    [][\A c \in Reader :
          FetchPage(c) =>
              LET gained == Len(listed'[c]) - Len(listed[c])
              IN /\ phase'[c] = "paging" => gained = limit[c]
                 /\ cursor[c] # 0 => gained > 0]_vars

(* No page is longer than its limit: the extra row that tells whether more  *)
(* follows never reaches the client.                                        *)
PagesKeepTheirLimit ==
    [][\A c \in Reader :
          FetchPage(c) => Len(listed'[c]) <= Len(listed[c]) + limit[c]]_vars

(* The count of a detail is that of a whole interchange or none: a reader   *)
(* never sees part of the messages of an ingest.                            *)
CountIsWhole ==
    \A d \in Client :
        detail[d].counted # {} => detail[d].counted = Range(built[target[d]])

(* An answer is never older than its question: what the interchange had     *)
(* when the client asked is in the detail, although its three statements    *)
(* run while ingests go on, unless one of the statements failed and its     *)
(* error was taken for absence.  So a client that was told 201 finds its    *)
(* interchange, the version and all messages.                               *)
DetailNotStale ==
    \A d \in Client :
        /\ step[d] = "answered"
        /\ ~failed[d]
        /\ before[d].code = "ok"
        => /\ detail[d].code = "ok"
           /\ detail[d].status = before[d].status
           /\ before[d].version => detail[d].version
           /\ before[d].counted \subseteq detail[d].counted
===============================================================================
