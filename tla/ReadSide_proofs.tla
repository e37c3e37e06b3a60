--------------------------- MODULE ReadSide_proofs ----------------------------
(***************************************************************************)
(* Proofs about module ReadSide, for every number of uploads and clients,  *)
(* every content, filter and limit.  They rest on one inductive invariant: *)
(* ReaderInv says what a listing has got so far, WriterInv what the        *)
(* uploads have stored.                                                    *)
(***************************************************************************)
EXTENDS ReadSide, TLAPS

(* An upload that has not run its first INSERT has no interchange row, an   *)
(* interchange has one row, and the messages of an upload are all stored,   *)
(* by its last step, or none.                                               *)
WriterInv ==
    /\ \A u \in Upload : \A i \in DOMAIN built[u] :
           built[u][i].interchange = u /\ built[u][i].version = u
    /\ \A a, b \in interchanges : a.id = b.id => a = b
    /\ \A row \in interchanges : stage[row.id] # "new"
    /\ \A row \in messages :
           /\ row.interchange = row.version
           /\ stage[row.interchange] = "done"
           /\ Range(built[row.interchange]) \subseteq messages
           /\ row \in Range(built[row.interchange])

NamesUpload(f) == f.interchange # Any \/ f.version # Any

(* There is a row behind every cursor; what was listed matches and lies     *)
(* before the cursor, in order; and so does all that was there.             *)
ReaderInv(c) ==
    /\ Ascending(listed[c])
    /\ Range(listed[c]) \subseteq Matching(c)
    /\ there[c] \subseteq Matching(c)
    /\ phase[c] = "paging" =>
           \A i \in DOMAIN listed[c] : listed[c][i].id <= cursor[c]
    /\ cursor[c] # 0 => listed[c] # <<>>
    /\ phase[c] = "paging" /\ cursor[c] # 0 =>
           \E row \in Matching(c) : row.id > cursor[c]
    /\ \A row \in there[c] :
           (phase[c] = "done" \/ row.id <= cursor[c]) => row \in Range(listed[c])
    /\ NamesUpload(criteria[c]) /\ listed[c] # <<>> => Matching(c) \subseteq there[c]

(* What a query has read so far is at least what there was when it began,   *)
(* and what there was then is there still.                                  *)
ClientInv(d) ==
    /\ detail[d].counted # {} =>
           /\ detail[d].counted = Range(built[target[d]])
           /\ stage[target[d]] = "done"
    /\ before[d].code = "ok" =>
           \E row \in interchanges :
               row.id = target[d] /\ row.status = before[d].status
    /\ before[d].version => target[d] \in versions
    /\ before[d].counted \subseteq
           {row \in messages : row.interchange = target[d]}
    /\ before[d].code = "ok" /\ ~failed[d] =>
           /\ step[d] \in {"findVersion", "count", "answered"} =>
                  detail[d].code = "ok" /\ detail[d].status = before[d].status
           /\ step[d] \in {"count", "answered"} =>
                  (before[d].version => detail[d].version)
           /\ step[d] = "answered" => before[d].counted \subseteq detail[d].counted

IInv ==
    /\ TypeOK
    /\ WriterInv
    /\ \A c \in Reader : ReaderInv(c)
    /\ \A d \in Client : ClientInv(d)

-------------------------------------------------------------------------------
(* Lemmas about the operators *)

(* The limit of a statement is positive and at most the maximum. *)
LEMMA LimitInRange ==
    ASSUME NEW n \in Limits
    PROVE  EffectiveLimit(n) \in 1 .. MaxPageLimit
  BY ReadSideAssumption DEF EffectiveLimit, Validate

(* What the database selects: an ascending sequence of at most n rows, all  *)
(* of them or the n smallest.                                               *)
LEMMA Selected ==
    ASSUME NEW S, NEW n \in Nat, NEW s \in Select(S, n)
    PROVE  /\ s \in Seq(S)
           /\ Len(s) <= n
           /\ Ascending(s)
           /\ Range(s) \subseteq S
           /\ \/ Range(s) = S
              \/ Len(s) = n /\ \A row \in S \ Range(s), i \in 1 .. n :
                                   s[i].id < row.id
<1>1. PICK k \in 0 .. n : s \in [1 .. k -> S]
  BY DEF Select
<1>2. s \in Seq(S) /\ Len(s) = k
  BY <1>1
<1>3. Range(s) \subseteq S
  BY <1>1 DEF Range
<1> QED
  BY <1>1, <1>2, <1>3 DEF Select

(* A page is the beginning of what was selected, up to the limit. *)
LEMMA PageIsPrefix ==
    ASSUME NEW S, NEW s \in Seq(S), NEW n \in Nat
    PROVE  /\ Page(s, n) \in Seq(S)
           /\ Len(Page(s, n)) = IF Len(s) > n THEN n ELSE Len(s)
           /\ \A i \in 1 .. Len(Page(s, n)) : Page(s, n)[i] = s[i]
  BY DEF Page, More

(* The rows of two sequences, one after the other *)
LEMMA RangeOfConcat ==
    ASSUME NEW S, NEW a \in Seq(S), NEW b \in Seq(S)
    PROVE  Range(a \o b) = Range(a) \cup Range(b)
<1>1. /\ DOMAIN a = 1 .. Len(a) /\ DOMAIN b = 1 .. Len(b)
      /\ DOMAIN (a \o b) = 1 .. Len(a) + Len(b)
      /\ Len(a) \in Nat /\ Len(b) \in Nat
  OBVIOUS
<1>2. \A i \in 1 .. Len(a) : (a \o b)[i] = a[i]
  OBVIOUS
<1>3. \A i \in 1 .. Len(b) : (a \o b)[Len(a) + i] = b[i]
  OBVIOUS
<1>4. \A j \in 1 .. Len(b) : Len(a) + j \in 1 .. Len(a) + Len(b)
  BY <1>1
<1>5. \A i \in 1 .. Len(a) : i \in 1 .. Len(a) + Len(b)
  BY <1>1
<1>6. Range(a \o b) \subseteq Range(a) \cup Range(b)
  <2> SUFFICES ASSUME NEW i \in 1 .. Len(a) + Len(b)
               PROVE  (a \o b)[i] \in Range(a) \cup Range(b)
    BY <1>1 DEF Range
  <2>1. CASE i <= Len(a)
    BY <1>1, <1>2, <2>1 DEF Range
  <2>2. CASE i > Len(a)
    <3>1. i - Len(a) \in 1 .. Len(b) /\ Len(a) + (i - Len(a)) = i
      BY <1>1, <2>2
    <3>2. (a \o b)[i] = b[i - Len(a)]
      BY <1>3, <3>1
    <3> QED
      BY <1>1, <3>1, <3>2 DEF Range
  <2> QED
    BY <1>1, <2>1, <2>2
<1>7. Range(a) \subseteq Range(a \o b)
  <2> SUFFICES ASSUME NEW i \in 1 .. Len(a)
               PROVE  a[i] \in Range(a \o b)
    BY <1>1 DEF Range
  <2> QED
    BY <1>1, <1>2, <1>5 DEF Range
<1>8. Range(b) \subseteq Range(a \o b)
  <2> SUFFICES ASSUME NEW j \in 1 .. Len(b)
               PROVE  b[j] \in Range(a \o b)
    BY <1>1 DEF Range
  <2> QED
    BY <1>1, <1>3, <1>4 DEF Range
<1> QED
  BY <1>6, <1>7, <1>8

(* Two ascending sequences, the second all above the first *)
LEMMA ConcatAscends ==
    ASSUME NEW a \in Seq(Rows), NEW b \in Seq(Rows),
           Ascending(a), Ascending(b),
           \A i \in DOMAIN a, j \in DOMAIN b : a[i].id < b[j].id
    PROVE  Ascending(a \o b)
<1> SUFFICES ASSUME NEW i \in 1 .. Len(a) + Len(b),
                    NEW j \in 1 .. Len(a) + Len(b), i < j
             PROVE  (a \o b)[i].id < (a \o b)[j].id
  BY DEF Ascending
<1>1. DOMAIN a = 1 .. Len(a) /\ DOMAIN b = 1 .. Len(b)
  OBVIOUS
<1>2. CASE j <= Len(a)
  <2>1. (a \o b)[i] = a[i] /\ (a \o b)[j] = a[j]
    BY <1>2
  <2> QED
    BY <1>1, <1>2, <2>1 DEF Ascending
<1>3. CASE i <= Len(a) /\ j > Len(a)
  <2>1. (a \o b)[i] = a[i] /\ (a \o b)[j] = b[j - Len(a)]
    BY <1>3
  <2>2. i \in DOMAIN a /\ j - Len(a) \in DOMAIN b
    BY <1>1, <1>3
  <2> QED
    BY <2>1, <2>2
<1>4. CASE i > Len(a)
  <2>1. (a \o b)[i] = b[i - Len(a)] /\ (a \o b)[j] = b[j - Len(a)]
    BY <1>4
  <2>2. i - Len(a) \in DOMAIN b /\ j - Len(a) \in DOMAIN b /\ i - Len(a) < j - Len(a)
    BY <1>1, <1>4
  <2> QED
    BY <2>1, <2>2 DEF Ascending
<1> QED
  BY <1>2, <1>3, <1>4
-------------------------------------------------------------------------------
(* What a page does to a listing, apart from the state around it *)

(* The rows of one request for a page of reader c: R is what was selected,  *)
(* the page its first limit[c] rows at most.                                *)
LEMMA PageFacts ==
    ASSUME TypeOK, NEW c \in Reader,
           NEW R \in Select(Eligible(c), limit[c] + 1)
    PROVE  LET P == Page(R, limit[c])
           IN /\ P \in Seq(Rows)
              /\ Ascending(P)
              /\ Range(P) \subseteq Eligible(c)
              /\ More(R, limit[c]) =>
                     /\ Len(P) = limit[c]
                     /\ NextCursor(R, limit[c]) \in Nat \ {0}
                     /\ \A i \in DOMAIN P : P[i].id <= NextCursor(R, limit[c])
                     /\ \E row \in Eligible(c) : row.id > NextCursor(R, limit[c])
                     /\ \A row \in Eligible(c) :
                            row.id <= NextCursor(R, limit[c]) => row \in Range(P)
              /\ ~More(R, limit[c]) => P = R /\ Range(P) = Eligible(c)
<1> DEFINE P == Page(R, limit[c])
           n == limit[c]
           N == NextCursor(R, n)
<1>1. n \in Nat /\ n > 0 /\ Eligible(c) \subseteq Rows
  BY ReadSideAssumption DEF TypeOK, StoredTypeOK, ListingsTypeOK, Eligible, Matching
<1>2. /\ R \in Seq(Eligible(c)) /\ Len(R) <= n + 1 /\ Ascending(R)
      /\ Range(R) \subseteq Eligible(c)
      /\ \/ Range(R) = Eligible(c)
         \/ Len(R) = n + 1 /\ \A row \in Eligible(c) \ Range(R), i \in 1 .. n + 1 :
                                  R[i].id < row.id
  <2> DEFINE E == Eligible(c)
             k == n + 1
  <2>1. k \in Nat /\ R \in Select(E, k)
    BY <1>1
  <2>2. /\ R \in Seq(E) /\ Len(R) <= k /\ Ascending(R)
        /\ Range(R) \subseteq E
        /\ \/ Range(R) = E
           \/ Len(R) = k /\ \A row \in E \ Range(R), i \in 1 .. k : R[i].id < row.id
    <3> HIDE DEF E, k, n
    <3> QED
      BY <2>1, Selected
  <2> QED
    BY <2>2
<1>3. /\ P \in Seq(Eligible(c))
      /\ Len(P) = IF Len(R) > n THEN n ELSE Len(R)
      /\ \A i \in 1 .. Len(P) : P[i] = R[i]
  <2> HIDE DEF P
  <2> QED
    BY <1>1, <1>2, PageIsPrefix DEF P
<1> HIDE DEF P
<1>4. R \in Seq(Rows) /\ P \in Seq(Rows) /\ DOMAIN R = 1 .. Len(R) /\ DOMAIN P = 1 .. Len(P)
  BY <1>1, <1>2, <1>3
<1>5. \A i \in DOMAIN R : R[i].id \in Nat \ {0}
  <2> SUFFICES ASSUME NEW i \in 1 .. Len(R)
               PROVE  R[i].id \in Nat \ {0}
    BY <1>4
  <2>1. R[i] \in Rows
    BY <1>4
  <2> QED
    BY <2>1 DEF Rows
<1>6. Ascending(P)
  BY <1>2, <1>3, <1>4 DEF Ascending
<1>7. Range(P) \subseteq Eligible(c)
  BY <1>2, <1>3, <1>4 DEF Range
<1>8. ASSUME More(R, n)
      PROVE  /\ Len(P) = n
             /\ N \in Nat \ {0}
             /\ \A i \in DOMAIN P : P[i].id <= N
             /\ \E row \in Eligible(c) : row.id > N
             /\ \A row \in Eligible(c) : row.id <= N => row \in Range(P)
  <2>1. Len(R) = n + 1 /\ Len(P) = n
    BY <1>1, <1>2, <1>3, <1>8 DEF More
  <2>2. N = R[n].id /\ n \in DOMAIN R /\ n + 1 \in DOMAIN R
    BY <1>1, <1>4, <2>1 DEF NextCursor
  <2>3. R[n] \in Rows /\ R[n + 1] \in Eligible(c)
    BY <1>2, <1>4, <2>2
  <2>4. N \in Nat \ {0}
    BY <1>5, <2>2
  <2>5. \A i \in DOMAIN P : P[i].id <= N
    <3> TAKE i \in DOMAIN P
    <3>1. P[i] = R[i] /\ i \in DOMAIN R /\ i <= n /\ i \in Int
      BY <1>1, <1>3, <1>4, <2>1
    <3>2. i < n => R[i].id < R[n].id
      BY <1>2, <2>2, <3>1 DEF Ascending
    <3>3. R[i].id \in Nat /\ R[n].id \in Nat
      BY <1>5, <2>2, <3>1
    <3> QED
      BY <1>1, <2>2, <3>1, <3>2, <3>3
  <2>6. R[n + 1].id > N
    <3>1. R[n].id < R[n + 1].id
      BY <1>1, <1>2, <2>2 DEF Ascending
    <3>2. R[n].id \in Nat /\ R[n + 1].id \in Nat
      BY <1>5, <2>2
    <3> QED
      BY <2>2, <3>1, <3>2
  <2>7. ASSUME NEW row \in Eligible(c), row.id <= N
        PROVE  row \in Range(P)
    <3>1. row.id \in Nat
      BY <1>1 DEF Rows
    <3>2. row \in Range(R)
      <4>1. n \in 1 .. n + 1
        BY <1>1
      <4>2. ~(R[n].id < row.id)
        BY <2>2, <2>4, <2>7, <3>1
      <4> QED
        BY <1>2, <4>1, <4>2
    <3>3. PICK j \in 1 .. n + 1 : row = R[j]
      BY <1>4, <2>1, <3>2 DEF Range
    <3>4. j # n + 1
      BY <2>2, <2>4, <2>6, <2>7, <3>1, <3>3
    <3>5. j \in 1 .. Len(P)
      BY <1>1, <2>1, <3>3, <3>4
    <3> QED
      BY <1>3, <1>4, <3>3, <3>5 DEF Range
  <2> QED
    BY <2>1, <2>3, <2>4, <2>5, <2>6, <2>7
<1>9. ASSUME ~More(R, n)
      PROVE  P = R /\ Range(P) = Eligible(c)
  <2>1. Len(R) \in Nat /\ ~(Len(R) > n)
    BY <1>4, <1>9 DEF More
  <2>2. Range(R) = Eligible(c)
    BY <1>1, <1>2, <2>1
  <2>3. P = R
    BY <2>1 DEF P, Page, More
  <2> QED
    BY <2>2, <2>3
<1> QED
  BY <1>4, <1>6, <1>7, <1>8, <1>9 DEF P
-------------------------------------------------------------------------------
(* The invariant holds initially *)

LEMMA InitInv == Init => IInv
<1> SUFFICES ASSUME Init PROVE IInv
  OBVIOUS
<1>1. TypeOK
  BY ReadSideAssumption DEF Init, TypeOK, StoredTypeOK, ListingsTypeOK, QueriesTypeOK,
                            NoDetail, Details
<1>2. WriterInv
  BY DEF Init, WriterInv
<1>3. ASSUME NEW c \in Reader PROVE ReaderInv(c)
  <2>1. /\ listed[c] = <<>> /\ there[c] = {} /\ cursor[c] = 0 /\ phase[c] = "idle"
    BY DEF Init
  <2>2. Range(listed[c]) = {}
    BY <2>1 DEF Range
  <2> QED
    BY <2>1, <2>2 DEF ReaderInv, Ascending
<1>4. ASSUME NEW d \in Client PROVE ClientInv(d)
  BY DEF Init, NoDetail, ClientInv
<1> QED
  BY <1>1, <1>2, <1>3, <1>4 DEF IInv

-------------------------------------------------------------------------------
(* Every step keeps the types *)

LEMMA CurrentDetailType ==
    ASSUME StoredTypeOK, NEW u \in Upload
    PROVE  CurrentDetail(u) \in Details
<1> DEFINE rows == {row \in messages : row.interchange = u}
           found == CHOOSE row \in interchanges : row.id = u
           known == u \in versions
<1>1. rows \in SUBSET Rows
  BY DEF StoredTypeOK
<1>2. CASE \E row \in interchanges : row.id = u
  <2>1. found.status \in {"none", "completed", "failed"}
    <3>1. found \in interchanges
      BY <1>2
    <3> HIDE DEF found
    <3> QED
      BY <3>1 DEF StoredTypeOK, InterchangeRows
  <2>2. CurrentDetail(u) = [code |-> "ok", status |-> found.status,
                            version |-> known, counted |-> rows]
    BY <1>2 DEF CurrentDetail
  <2>3. known \in BOOLEAN
    OBVIOUS
  <2> HIDE DEF rows, found, known
  <2> QED
    BY <1>1, <2>1, <2>2, <2>3 DEF Details
<1>3. CASE ~(\E row \in interchanges : row.id = u)
  BY <1>3 DEF CurrentDetail, NoDetail, Details
<1> QED
  BY <1>2, <1>3

(* Filling in one field of a detail *)
LEMMA DetailUpdates ==
    ASSUME NEW x \in Details
    PROVE  /\ \A v \in {"ok", "notFound", "internal"} : [x EXCEPT !.code = v] \in Details
           /\ \A v \in BOOLEAN : [x EXCEPT !.version = v] \in Details
           /\ \A v \in SUBSET Rows : [x EXCEPT !.counted = v] \in Details
  BY DEF Details

LEMMA StoredTypeStep == StoredTypeOK /\ [Next]_vars => StoredTypeOK'
<1> SUFFICES ASSUME StoredTypeOK, [Next]_vars PROVE StoredTypeOK'
  OBVIOUS
<1>1. ASSUME NEW u \in Upload, StoreInterchange(u) PROVE StoredTypeOK'
  <2>1. [id |-> u, status |-> "completed"] \in InterchangeRows
        /\ [id |-> u, status |-> "failed"] \in InterchangeRows
    BY DEF InterchangeRows
  <2> QED
    BY <1>1, <2>1 DEF StoreInterchange, Goto, StoredTypeOK
<1>2. ASSUME NEW u \in Upload, StoreVersion(u) \/ GiveUp(u) PROVE StoredTypeOK'
  BY <1>2 DEF StoreVersion, GiveUp, Goto, StoredTypeOK
<1>3. ASSUME NEW u \in Upload, NewMessage(u) PROVE StoredTypeOK'
  <2> DEFINE parsed == Content[u][Len(built[u]) + 1]
             row == [id |-> clock + 1, interchange |-> u, version |-> u,
                     subscription |-> parsed.subscription, type |-> parsed.type]
  <2>1. parsed \in Parsed
    <3>1. Content[u] \in Seq(Parsed) /\ built[u] \in Seq(Rows)
      BY ReadSideAssumption DEF StoredTypeOK
    <3>2. Len(built[u]) + 1 \in 1 .. Len(Content[u])
      BY <1>3, <3>1 DEF NewMessage
    <3> QED
      BY <3>1, <3>2
  <2>2. row \in Rows
    <3>1. clock + 1 \in Nat \ {0}
      BY DEF StoredTypeOK
    <3>2. parsed.subscription \in STRING /\ parsed.type \in STRING
      BY <2>1 DEF Parsed
    <3> QED
      BY <3>1, <3>2 DEF Rows
  <2>3. built' = [built EXCEPT ![u] = Append(@, row)]
    BY <1>3 DEF NewMessage
  <2>4. built' \in [Upload -> Seq(Rows)]
    <3> HIDE DEF row
    <3>1. Append(built[u], row) \in Seq(Rows)
      BY <2>2 DEF StoredTypeOK
    <3> QED
      BY <2>3, <3>1 DEF StoredTypeOK
  <2> QED
    BY <1>3, <2>4 DEF NewMessage, StoredTypeOK
<1>4. ASSUME NEW u \in Upload, BulkCreate(u) PROVE StoredTypeOK'
  <2>1. Range(built[u]) \subseteq Rows
    <3>1. built[u] \in Seq(Rows)
      BY DEF StoredTypeOK
    <3> QED
      BY <3>1 DEF Range
  <2> QED
    BY <1>4, <2>1 DEF BulkCreate, Goto, StoredTypeOK
<1>5. CASE UNCHANGED writers
  BY <1>5 DEF writers, StoredTypeOK
<1>6. ASSUME NEW c \in Reader, Ask(c) \/ FetchPage(c) PROVE StoredTypeOK'
  BY <1>5, <1>6 DEF Ask, FetchPage
<1>7. ASSUME NEW d \in Client, GetInterchange(d) PROVE StoredTypeOK'
  BY <1>5, <1>7 DEF GetInterchange, AskDetail, FindByID, FindActive, Count
<1> QED
  BY <1>1, <1>2, <1>3, <1>4, <1>5, <1>6, <1>7 DEF Next, Store, vars

LEMMA ListingsTypeStep == TypeOK /\ [Next]_vars => ListingsTypeOK'
<1> SUFFICES ASSUME TypeOK, [Next]_vars PROVE ListingsTypeOK'
  OBVIOUS
<1>0. ListingsTypeOK
  BY DEF TypeOK
<1>1. ASSUME NEW c \in Reader, Ask(c) PROVE ListingsTypeOK'
  BY <1>0, <1>1, LimitInRange DEF Ask, ListingsTypeOK
<1>2. ASSUME NEW c \in Reader, FetchPage(c) PROVE ListingsTypeOK'
  <2>1. PICK R \in Select(Eligible(c), limit[c] + 1) :
            /\ listed' = [listed EXCEPT ![c] = @ \o Page(R, limit[c])]
            /\ \/ /\ More(R, limit[c])
                  /\ cursor' = [cursor EXCEPT ![c] = NextCursor(R, limit[c])]
                  /\ UNCHANGED phase
               \/ /\ ~More(R, limit[c])
                  /\ phase' = [phase EXCEPT ![c] = "done"]
                  /\ UNCHANGED cursor
    BY <1>2 DEF FetchPage
  <2>2. Page(R, limit[c]) \in Seq(Rows)
    BY PageFacts
  <2>3. More(R, limit[c]) => NextCursor(R, limit[c]) \in Nat
    BY PageFacts
  <2>4. listed' \in [Reader -> Seq(Rows)]
    <3>1. listed[c] \o Page(R, limit[c]) \in Seq(Rows)
      BY <1>0, <2>2 DEF ListingsTypeOK
    <3> QED
      BY <1>0, <2>1, <3>1 DEF ListingsTypeOK
  <2>5. cursor' \in [Reader -> Nat] /\ phase' \in [Reader -> {"idle", "paging", "done"}]
    BY <1>0, <2>1, <2>3 DEF ListingsTypeOK
  <2>6. there' \in [Reader -> SUBSET Rows]
    <3>1. Matching(c) \subseteq Rows
      BY DEF Matching, TypeOK, StoredTypeOK
    <3> QED
      BY <1>0, <1>2, <3>1 DEF FetchPage, ListingsTypeOK
  <2> QED
    BY <1>0, <1>2, <2>4, <2>5, <2>6 DEF FetchPage, ListingsTypeOK
<1>3. CASE UNCHANGED listings
  BY <1>0, <1>3 DEF listings, ListingsTypeOK
<1>4. ASSUME NEW u \in Upload, Store(u) PROVE ListingsTypeOK'
  BY <1>3, <1>4 DEF Store, StoreInterchange, StoreVersion, NewMessage, BulkCreate, GiveUp
<1>5. ASSUME NEW d \in Client, GetInterchange(d) PROVE ListingsTypeOK'
  BY <1>3, <1>5 DEF GetInterchange, AskDetail, FindByID, FindActive, Count
<1> QED
  BY <1>1, <1>2, <1>3, <1>4, <1>5 DEF Next, vars

LEMMA QueriesTypeStep == TypeOK /\ [Next]_vars => QueriesTypeOK'
<1> SUFFICES ASSUME TypeOK, [Next]_vars PROVE QueriesTypeOK'
  OBVIOUS
<1>0. QueriesTypeOK /\ StoredTypeOK
  BY DEF TypeOK
<1>1. ASSUME NEW d \in Client, AskDetail(d) PROVE QueriesTypeOK'
  <2>1. PICK u \in Upload :
            /\ target' = [target EXCEPT ![d] = u]
            /\ before' = [before EXCEPT ![d] = CurrentDetail(u)]
    BY <1>1 DEF AskDetail
  <2>2. CurrentDetail(u) \in Details
    BY <1>0, CurrentDetailType
  <2>3. NoDetail \in Details
    BY DEF NoDetail, Details
  <2> QED
    BY <1>0, <1>1, <2>1, <2>2, <2>3 DEF AskDetail, QueriesTypeOK
<1>2. ASSUME NEW d \in Client, FindByID(d) \/ FindActive(d) \/ Count(d)
      PROVE  QueriesTypeOK'
  <2>1. detail[d] \in Details
    BY <1>0 DEF QueriesTypeOK
  <2>2. PICK new \in Details : detail' = [detail EXCEPT ![d] = new]
    <3>1. CASE FindByID(d)
      <4>1. ASSUME NEW row \in interchanges
            PROVE  [NoDetail EXCEPT !.code = "ok", !.status = row.status] \in Details
        <5>1. row.status \in {"completed", "failed"}
          BY <1>0 DEF StoredTypeOK, InterchangeRows
        <5> QED
          BY <5>1 DEF NoDetail, Details
      <4>2. /\ [detail[d] EXCEPT !.code = "notFound"] \in Details
            /\ [detail[d] EXCEPT !.code = "internal"] \in Details
        BY <2>1, DetailUpdates
      <4> QED
        BY <3>1, <4>1, <4>2 DEF FindByID
    <3>2. CASE FindActive(d)
      <4>1. [detail[d] EXCEPT !.version = FindsVersion(d)] \in Details
        <5>1. FindsVersion(d) \in BOOLEAN
          BY DEF FindsVersion
        <5> QED
          BY <2>1, <5>1, DetailUpdates
      <4>2. detail = [detail EXCEPT ![d] = detail[d]]
        BY <1>0 DEF QueriesTypeOK
      <4> QED
        BY <2>1, <3>2, <4>1, <4>2 DEF FindActive
    <3>3. CASE Count(d)
      <4>1. {row \in messages : row.interchange = target[d]} \in SUBSET Rows
        BY <1>0 DEF StoredTypeOK
      <4>2. [detail[d] EXCEPT !.counted =
                {row \in messages : row.interchange = target[d]}] \in Details
        BY <2>1, <4>1, DetailUpdates
      <4>3. detail = [detail EXCEPT ![d] = detail[d]]
        BY <1>0 DEF QueriesTypeOK
      <4> QED
        BY <2>1, <3>3, <4>2, <4>3 DEF Count
    <3> QED
      BY <1>2, <3>1, <3>2, <3>3
  <2>3. detail' \in [Client -> Details]
    BY <1>0, <2>2 DEF QueriesTypeOK
  <2>4. /\ step' \in [Client -> {"idle", "findInterchange", "findVersion", "count",
                                 "answered"}]
        /\ failed' \in [Client -> BOOLEAN]
        /\ UNCHANGED <<target, before>>
    BY <1>0, <1>2 DEF FindByID, FindActive, Count, QueriesTypeOK
  <2> QED
    BY <1>0, <2>3, <2>4 DEF QueriesTypeOK
<1>3. CASE UNCHANGED queries
  BY <1>0, <1>3 DEF queries, QueriesTypeOK
<1>4. ASSUME NEW u \in Upload, Store(u) PROVE QueriesTypeOK'
  BY <1>3, <1>4 DEF Store, StoreInterchange, StoreVersion, NewMessage, BulkCreate, GiveUp
<1>5. ASSUME NEW c \in Reader, Ask(c) \/ FetchPage(c) PROVE QueriesTypeOK'
  BY <1>3, <1>5 DEF Ask, FetchPage
<1> QED
  BY <1>1, <1>2, <1>3, <1>4, <1>5 DEF Next, GetInterchange, vars

LEMMA TypeStep == TypeOK /\ [Next]_vars => TypeOK'
  BY StoredTypeStep, ListingsTypeStep, QueriesTypeStep DEF TypeOK

(* Type correctness: in particular every page is read with a limit between  *)
(* 1 and MaxPageLimit (MessageFilter.Validate).                             *)
THEOREM TypeCorrect == Spec => []TypeOK
<1>1. Init => TypeOK
  BY InitInv DEF IInv
<1> QED
  BY <1>1, TypeStep, PTL DEF Spec

-------------------------------------------------------------------------------
(* Every step keeps what the uploads have stored *)

LEMMA WriterStep == TypeOK /\ WriterInv /\ [Next]_vars => WriterInv'
<1> SUFFICES ASSUME TypeOK, WriterInv, [Next]_vars PROVE WriterInv'
  OBVIOUS
<1>0. \A row \in messages : row.interchange \in Upload
  BY DEF TypeOK, StoredTypeOK, Rows
<1>1. ASSUME NEW u \in Upload, StoreInterchange(u) PROVE WriterInv'
  <2>1. PICK status : interchanges' = interchanges \cup {[id |-> u, status |-> status]}
    BY <1>1 DEF StoreInterchange
  <2>2. \A row \in interchanges : row.id # u
    BY <1>1 DEF StoreInterchange, WriterInv
  <2>3. \A a, b \in interchanges' : a.id = b.id => a = b
    BY <2>1, <2>2 DEF WriterInv
  <2>4. \A v \in Upload : v # u => stage'[v] = stage[v]
    BY <1>1 DEF StoreInterchange, Goto, TypeOK, StoredTypeOK
  <2>5. stage'[u] # "new" /\ stage[u] # "done"
    BY <1>1 DEF StoreInterchange, Goto, TypeOK, StoredTypeOK
  <2>6. \A row \in interchanges' : row.id \in Upload /\ stage'[row.id] # "new"
    BY <2>1, <2>4, <2>5 DEF WriterInv, TypeOK, StoredTypeOK, InterchangeRows
  <2>7. \A row \in messages : stage'[row.interchange] = "done"
    BY <1>0, <2>4, <2>5 DEF WriterInv
  <2>8. UNCHANGED <<built, messages>>
    BY <1>1 DEF StoreInterchange
  <2> QED
    BY <2>3, <2>6, <2>7, <2>8 DEF WriterInv
<1>2. ASSUME NEW u \in Upload, StoreVersion(u) \/ GiveUp(u) PROVE WriterInv'
  <2>1. UNCHANGED <<built, interchanges, messages>>
    BY <1>2 DEF StoreVersion, GiveUp
  <2>2. \A row \in interchanges : row.id \in Upload /\ stage'[row.id] # "new"
    BY <1>2 DEF StoreVersion, GiveUp, Goto, WriterInv, TypeOK, StoredTypeOK, InterchangeRows
  <2>3. \A row \in messages : stage'[row.interchange] = "done"
    BY <1>0, <1>2 DEF StoreVersion, GiveUp, Goto, WriterInv, TypeOK, StoredTypeOK
  <2> QED
    BY <2>1, <2>2, <2>3 DEF WriterInv
<1>3. ASSUME NEW u \in Upload, NewMessage(u) PROVE WriterInv'
  <2>1. /\ built[u] \in Seq(Rows)
        /\ built' = [built EXCEPT ![u] = Append(@,
               [id |-> clock + 1, interchange |-> u, version |-> u,
                subscription |-> Content[u][Len(built[u]) + 1].subscription,
                type |-> Content[u][Len(built[u]) + 1].type])]
        /\ UNCHANGED <<stage, interchanges, messages>>
        /\ stage[u] # "done"
    BY <1>3 DEF NewMessage, TypeOK, StoredTypeOK
  <2>2. \A v \in Upload : \A i \in DOMAIN built'[v] :
            built'[v][i].interchange = v /\ built'[v][i].version = v
    <3> TAKE v \in Upload
    <3> TAKE i \in DOMAIN built'[v]
    <3>1. CASE v = u
      BY <2>1, <3>1 DEF WriterInv, TypeOK, StoredTypeOK
    <3>2. CASE v # u
      BY <2>1, <3>2 DEF WriterInv, TypeOK, StoredTypeOK
    <3> QED
      BY <3>1, <3>2
  <2>3. \A row \in messages : built'[row.interchange] = built[row.interchange]
    BY <1>0, <2>1 DEF WriterInv, TypeOK, StoredTypeOK
  <2> QED
    BY <2>1, <2>2, <2>3 DEF WriterInv
<1>4. ASSUME NEW u \in Upload, BulkCreate(u) PROVE WriterInv'
  <2>1. \A row \in Range(built[u]) : row.interchange = u /\ row.version = u
    BY DEF WriterInv, Range
  <2>2. /\ messages' = messages \cup Range(built[u])
        /\ stage' = [stage EXCEPT ![u] = "done"]
        /\ UNCHANGED <<built, interchanges>>
    BY <1>4 DEF BulkCreate, Goto
  <2>3. ASSUME NEW row \in messages'
        PROVE  /\ row.interchange = row.version
               /\ stage'[row.interchange] = "done"
               /\ Range(built[row.interchange]) \subseteq messages'
               /\ row \in Range(built[row.interchange])
    <3>1. CASE row \in messages
      <4>1. /\ row.interchange = row.version /\ stage[row.interchange] = "done"
            /\ Range(built[row.interchange]) \subseteq messages
            /\ row \in Range(built[row.interchange])
        BY <3>1 DEF WriterInv
      <4>2. stage'[row.interchange] = "done"
        BY <1>0, <2>2, <3>1, <4>1 DEF TypeOK, StoredTypeOK
      <4> HIDE DEF WriterInv
      <4> QED
        BY <2>2, <4>1, <4>2
    <3>2. CASE row \in Range(built[u])
      <4>1. row.interchange = u /\ row.version = u
        BY <2>1, <3>2
      <4>2. stage'[u] = "done"
        BY <2>2 DEF TypeOK, StoredTypeOK
      <4> HIDE DEF WriterInv
      <4> QED
        BY <2>2, <3>2, <4>1, <4>2
    <3> QED
      BY <2>2, <2>3, <3>1, <3>2
  <2>4. \A row \in interchanges : stage'[row.id] # "new"
    BY <2>2 DEF WriterInv, TypeOK, StoredTypeOK, InterchangeRows
  <2> QED
    BY <2>2, <2>3, <2>4 DEF WriterInv
<1>5. CASE UNCHANGED writers
  BY <1>5 DEF writers, WriterInv
<1>6. ASSUME NEW c \in Reader, Ask(c) \/ FetchPage(c) PROVE WriterInv'
  BY <1>5, <1>6 DEF Ask, FetchPage
<1>7. ASSUME NEW d \in Client, GetInterchange(d) PROVE WriterInv'
  BY <1>5, <1>7 DEF GetInterchange, AskDetail, FindByID, FindActive, Count
<1> QED
  BY <1>1, <1>2, <1>3, <1>4, <1>5, <1>6, <1>7 DEF Next, Store, vars

-------------------------------------------------------------------------------
(* Every step keeps what a listing has got so far *)

(* A listing is not touched by a step that leaves its own variables and the *)
(* table alone.                                                             *)
LEMMA Untouched ==
    ASSUME NEW c \in Reader, ReaderInv(c), messages' = messages,
           criteria'[c] = criteria[c], cursor'[c] = cursor[c],
           listed'[c] = listed[c], phase'[c] = phase[c], there'[c] = there[c]
    PROVE  ReaderInv(c)'
<1>1. Matching(c)' = Matching(c)
  BY DEF Matching
<1>2. Range(listed[c])' = Range(listed[c]) /\ Ascending(listed[c])' = Ascending(listed[c])
  BY DEF Range, Ascending
<1> QED
  BY <1>1, <1>2 DEF ReaderInv, NamesUpload

LEMMA NamedUpload ==
    ASSUME WriterInv, NEW c \in Reader, NamesUpload(criteria[c]),
           criteria[c] \in Criteria,
           NEW a, NEW b, a.interchange = a.version, b.interchange = b.version,
           Matches(a, criteria[c]), Matches(b, criteria[c])
    PROVE  a.interchange = b.interchange
<1>1. DOMAIN criteria[c] = {"interchange", "version", "subscription", "type"}
  BY ReadSideAssumption
<1>2. /\ criteria[c].interchange \in {Any, a.interchange}
      /\ criteria[c].version \in {Any, a.version}
      /\ criteria[c].interchange \in {Any, b.interchange}
      /\ criteria[c].version \in {Any, b.version}
  BY <1>1 DEF Matches
<1> QED
  BY <1>2 DEF NamesUpload

LEMMA ReaderOverBulkCreate ==
    ASSUME TypeOK, WriterInv, NEW u \in Upload, BulkCreate(u),
           NEW c \in Reader, ReaderInv(c)
    PROVE  ReaderInv(c)'
<1>1. /\ messages' = messages \cup Range(built[u])
      /\ UNCHANGED <<criteria, cursor, listed, phase, there>>
  BY DEF BulkCreate, listings
<1>2. Matching(c) \subseteq Matching(c)'
  BY <1>1 DEF Matching
<1>3. ASSUME NamesUpload(criteria[c]), listed[c] # <<>>
      PROVE  Matching(c)' \subseteq Matching(c)
  <2> SUFFICES ASSUME NEW row \in Range(built[u]), Matches(row, criteria[c])
               PROVE  FALSE
    BY <1>1 DEF Matching
  <2>1. row.interchange = u /\ row.version = u
    BY DEF WriterInv, Range
  <2>2. PICK old \in Range(listed[c]) : TRUE
    <3>1. listed[c] \in Seq(Rows)
      BY DEF TypeOK, StoredTypeOK, ListingsTypeOK
    <3>2. 1 \in DOMAIN listed[c]
      BY <1>3, <3>1
    <3> QED
      BY <3>2 DEF Range
  <2>3. old \in messages /\ Matches(old, criteria[c])
    BY <2>2 DEF ReaderInv, Matching
  <2>4. old.interchange = old.version /\ stage[old.interchange] = "done"
    BY <2>3 DEF WriterInv
  <2>5. criteria[c] \in Criteria
    BY DEF TypeOK, StoredTypeOK, ListingsTypeOK
  <2>6. row.interchange = old.interchange
    BY <1>3, <2>1, <2>3, <2>4, <2>5, NamedUpload
  <2> QED
    BY <2>1, <2>4, <2>6 DEF BulkCreate
<1>4. Range(listed[c])' = Range(listed[c]) /\ Ascending(listed[c])' = Ascending(listed[c])
  BY <1>1 DEF Range, Ascending
<1>5. (phase[c] = "paging" /\ cursor[c] # 0 =>
           \E row \in Matching(c) : row.id > cursor[c])'
  BY <1>1, <1>2 DEF ReaderInv
<1>6. (NamesUpload(criteria[c]) /\ listed[c] # <<>> => Matching(c) \subseteq there[c])'
  BY <1>1, <1>3 DEF ReaderInv, NamesUpload
<1> QED
  BY <1>1, <1>2, <1>4, <1>5, <1>6 DEF ReaderInv

LEMMA ReaderOverAsk ==
    ASSUME TypeOK, NEW c \in Reader, Ask(c)
    PROVE  ReaderInv(c)'
<1>1. cursor'[c] = 0 /\ listed'[c] = <<>> /\ there'[c] = {} /\ phase'[c] = "paging"
  BY DEF Ask, TypeOK, StoredTypeOK, ListingsTypeOK
<1>2. Range(listed[c])' = {}
  BY <1>1 DEF Range
<1> QED
  BY <1>1, <1>2 DEF ReaderInv, Ascending

LEMMA ReaderOverFetchPage ==
    ASSUME TypeOK, NEW c \in Reader, ReaderInv(c), FetchPage(c)
    PROVE  ReaderInv(c)'
<1>1. PICK R \in Select(Eligible(c), limit[c] + 1) :
          /\ listed' = [listed EXCEPT ![c] = @ \o Page(R, limit[c])]
          /\ \/ /\ More(R, limit[c])
                /\ cursor' = [cursor EXCEPT ![c] = NextCursor(R, limit[c])]
                /\ UNCHANGED phase
             \/ /\ ~More(R, limit[c])
                /\ phase' = [phase EXCEPT ![c] = "done"]
                /\ UNCHANGED cursor
  BY DEF FetchPage
<1> DEFINE P == Page(R, limit[c])
           N == NextCursor(R, limit[c])
           L == listed[c]
<1>2. /\ P \in Seq(Rows) /\ Ascending(P) /\ Range(P) \subseteq Eligible(c)
      /\ More(R, limit[c]) =>
             /\ Len(P) = limit[c]
             /\ N \in Nat \ {0}
             /\ \A i \in DOMAIN P : P[i].id <= N
             /\ \E row \in Eligible(c) : row.id > N
             /\ \A row \in Eligible(c) : row.id <= N => row \in Range(P)
      /\ ~More(R, limit[c]) => P = R /\ Range(P) = Eligible(c)
  BY PageFacts
<1> HIDE DEF P, N
<1>3. /\ phase[c] = "paging" /\ L \in Seq(Rows) /\ listed'[c] = L \o P
      /\ messages' = messages /\ criteria' = criteria
      /\ cursor[c] \in Nat /\ limit[c] \in Nat /\ limit[c] > 0
  <2>1. listed \in [Reader -> Seq(Rows)] /\ limit[c] \in 1 .. MaxPageLimit
        /\ cursor[c] \in Nat /\ MaxPageLimit \in Nat
    BY ReadSideAssumption DEF TypeOK, StoredTypeOK, ListingsTypeOK
  <2>2. listed' = [listed EXCEPT ![c] = L \o P]
    BY <1>1 DEF P
  <2>3. /\ phase[c] = "paging" /\ messages' = messages /\ criteria' = criteria
    BY DEF FetchPage, writers
  <2> QED
    BY <2>1, <2>2, <2>3
<1>4. \/ /\ More(R, limit[c]) /\ cursor'[c] = N /\ phase'[c] = "paging"
      \/ /\ ~More(R, limit[c]) /\ cursor'[c] = cursor[c] /\ phase'[c] = "done"
  BY <1>1, <1>3 DEF N, TypeOK, StoredTypeOK, ListingsTypeOK
<1>5. Matching(c)' = Matching(c)
  BY <1>3 DEF Matching
<1>6. Range(listed[c])' = Range(L) \cup Range(P)
  <2>1. Range(L \o P) = Range(L) \cup Range(P)
    BY <1>2, <1>3, RangeOfConcat
  <2>2. Range(listed[c])' = Range(L \o P)
    BY <1>3 DEF Range
  <2> QED
    BY <2>1, <2>2
<1>7. /\ there'[c] \subseteq Matching(c)
      /\ cursor[c] # 0 => there'[c] = there[c]
      /\ cursor[c] = 0 => there'[c] = Matching(c)
  BY DEF FetchPage, ReaderInv, TypeOK, StoredTypeOK, ListingsTypeOK
<1>8. \A i \in DOMAIN P : P[i].id > cursor[c] /\ P[i].id \in Nat
  <2> TAKE i \in DOMAIN P
  <2>1. P[i] \in Eligible(c) /\ P[i] \in Rows
    BY <1>2 DEF Range
  <2> QED
    BY <2>1 DEF Eligible, Rows
<1>9. \A i \in DOMAIN L : L[i].id <= cursor[c] /\ L[i].id \in Nat
  <2> TAKE i \in DOMAIN L
  <2>1. L[i] \in Rows
    BY <1>3
  <2> QED
    BY <1>3, <2>1 DEF ReaderInv, Rows
<1>10. Ascending(listed[c])'
  <2>1. \A i \in DOMAIN L, j \in DOMAIN P : L[i].id < P[j].id
    BY <1>3, <1>8, <1>9
  <2>2. Ascending(L \o P)
    BY <1>2, <1>3, <2>1, ConcatAscends DEF ReaderInv
  <2> QED
    BY <1>3, <2>2 DEF Ascending
<1>11. (Range(listed[c]) \subseteq Matching(c))'
  BY <1>2, <1>5, <1>6 DEF Eligible, ReaderInv
<1>12. (phase[c] = "paging" =>
           \A i \in DOMAIN listed[c] : listed[c][i].id <= cursor[c])'
  <2> SUFFICES ASSUME More(R, limit[c]), NEW row \in Range(L) \cup Range(P)
               PROVE  row.id <= N
    BY <1>4, <1>6 DEF Range
  <2>1. PICK j \in DOMAIN P : TRUE
    BY <1>2, <1>3
  <2>2. cursor[c] < N
    BY <1>2, <1>3, <1>8, <2>1
  <2>3. CASE row \in Range(P)
    BY <1>2, <2>3 DEF Range
  <2>4. CASE row \in Range(L)
    <3>1. row.id <= cursor[c] /\ row.id \in Nat
      BY <1>9, <2>4 DEF Range
    <3> QED
      BY <1>2, <1>3, <2>2, <3>1
  <2> QED
    BY <2>3, <2>4
<1>13. (cursor[c] # 0 => listed[c] # <<>>)'
  <2>1. L # <<>> \/ P # <<>> => L \o P # <<>>
    BY <1>2, <1>3
  <2>2. More(R, limit[c]) => P # <<>>
    BY <1>2, <1>3
  <2> QED
    BY <1>3, <1>4, <2>1, <2>2 DEF ReaderInv
<1>14. (phase[c] = "paging" /\ cursor[c] # 0 =>
           \E row \in Matching(c) : row.id > cursor[c])'
  BY <1>2, <1>4, <1>5 DEF Eligible
<1>15. ASSUME NEW row \in there'[c], phase'[c] = "done" \/ row.id <= cursor'[c]
       PROVE  row \in Range(L) \cup Range(P)
  <2>1. row \in Rows /\ row.id \in Nat \ {0}
    BY <1>7, <1>15 DEF Matching, TypeOK, StoredTypeOK, ListingsTypeOK, Rows
  <2>2. CASE row.id <= cursor[c]
    <3>1. cursor[c] # 0
      BY <2>1, <2>2
    <3> QED
      BY <1>7, <1>15, <2>2, <3>1 DEF ReaderInv
  <2>3. CASE row.id > cursor[c]
    <3>1. row \in Eligible(c)
      BY <1>7, <1>15, <2>3 DEF Eligible
    <3> QED
      BY <1>2, <1>4, <1>15, <3>1
  <2> QED
    BY <1>3, <2>1, <2>2, <2>3
<1>16. (NamesUpload(criteria[c]) /\ listed[c] # <<>> => Matching(c) \subseteq there[c])'
  BY <1>3, <1>5, <1>7 DEF ReaderInv, NamesUpload
<1> QED
  BY <1>5, <1>6, <1>7, <1>10, <1>11, <1>12, <1>13, <1>14, <1>15, <1>16 DEF ReaderInv

LEMMA ReaderStep ==
    ASSUME TypeOK, WriterInv, NEW c \in Reader, ReaderInv(c), [Next]_vars
    PROVE  ReaderInv(c)'
<1>1. CASE UNCHANGED <<messages, criteria, cursor, listed, phase, there>>
  BY <1>1, Untouched
<1>2. ASSUME NEW u \in Upload, BulkCreate(u) PROVE ReaderInv(c)'
  BY <1>2, ReaderOverBulkCreate
<1>3. ASSUME NEW u \in Upload, Store(u), ~BulkCreate(u) PROVE ReaderInv(c)'
  BY <1>1, <1>3
     DEF Store, StoreInterchange, StoreVersion, NewMessage, GiveUp, listings
<1>4. ASSUME NEW e \in Reader, Ask(e) PROVE ReaderInv(c)'
  <2>1. CASE e = c
    BY <1>4, <2>1, ReaderOverAsk
  <2>2. CASE e # c
    <3>1. messages' = messages
      BY <1>4 DEF Ask, writers
    <3>2. /\ criteria'[c] = criteria[c] /\ cursor'[c] = cursor[c]
          /\ listed'[c] = listed[c] /\ phase'[c] = phase[c] /\ there'[c] = there[c]
      BY <1>4, <2>2 DEF Ask, TypeOK, StoredTypeOK, ListingsTypeOK
    <3> QED
      BY <3>1, <3>2, Untouched
  <2> QED
    BY <2>1, <2>2
<1>5. ASSUME NEW e \in Reader, FetchPage(e) PROVE ReaderInv(c)'
  <2>1. CASE e = c
    BY <1>5, <2>1, ReaderOverFetchPage
  <2>2. CASE e # c
    <3>1. messages' = messages /\ criteria' = criteria
      BY <1>5 DEF FetchPage, writers
    <3>2. /\ cursor'[c] = cursor[c] /\ listed'[c] = listed[c]
          /\ phase'[c] = phase[c] /\ there'[c] = there[c]
      BY <1>5, <2>2 DEF FetchPage, TypeOK, StoredTypeOK, ListingsTypeOK
    <3> QED
      BY <3>1, <3>2, Untouched
  <2> QED
    BY <2>1, <2>2
<1>6. ASSUME NEW d \in Client, GetInterchange(d) PROVE ReaderInv(c)'
  BY <1>1, <1>6
     DEF GetInterchange, AskDetail, FindByID, FindActive, Count, writers, listings
<1>7. CASE UNCHANGED vars
  BY <1>1, <1>7 DEF vars, writers, listings
<1> QED
  BY <1>2, <1>3, <1>4, <1>5, <1>6, <1>7 DEF Next

-------------------------------------------------------------------------------
(* Every step keeps what a query has read so far *)

(* Rows are never deleted, an upload that is over builds nothing more, and  *)
(* so a query that does not move keeps its invariant.                       *)
LEMMA QueryUntouched ==
    ASSUME TypeOK, NEW d \in Client, ClientInv(d),
           interchanges \subseteq interchanges', versions \subseteq versions',
           messages \subseteq messages',
           stage[target[d]] = "done" =>
               stage'[target[d]] = "done" /\ built'[target[d]] = built[target[d]],
           target'[d] = target[d], step'[d] = step[d], detail'[d] = detail[d],
           before'[d] = before[d], failed'[d] = failed[d]
    PROVE  ClientInv(d)'
<1>1. (detail[d].counted # {} =>
           /\ detail[d].counted = Range(built[target[d]])
           /\ stage[target[d]] = "done")'
  <2>1. detail[d].counted # {} =>
            /\ detail[d].counted = Range(built[target[d]])
            /\ stage[target[d]] = "done"
    BY DEF ClientInv
  <2>2. stage[target[d]] = "done" =>
            Range(built'[target'[d]]) = Range(built[target[d]])
    BY DEF Range
  <2> QED
    BY <2>1, <2>2
<1>2. (before[d].code = "ok" =>
           \E row \in interchanges :
               row.id = target[d] /\ row.status = before[d].status)'
  BY DEF ClientInv
<1>3. /\ (before[d].version => target[d] \in versions)'
      /\ (before[d].counted \subseteq
             {row \in messages : row.interchange = target[d]})'
  BY DEF ClientInv
<1>4. (before[d].code = "ok" /\ ~failed[d] =>
           /\ step[d] \in {"findVersion", "count", "answered"} =>
                  detail[d].code = "ok" /\ detail[d].status = before[d].status
           /\ step[d] \in {"count", "answered"} =>
                  (before[d].version => detail[d].version)
           /\ step[d] = "answered" => before[d].counted \subseteq detail[d].counted)'
  BY DEF ClientInv
<1> QED
  BY <1>1, <1>2, <1>3, <1>4 DEF ClientInv

LEMMA ClientOverStore ==
    ASSUME TypeOK, NEW d \in Client, ClientInv(d), NEW u \in Upload, Store(u)
    PROVE  ClientInv(d)'
<1>1. /\ interchanges \subseteq interchanges' /\ versions \subseteq versions'
      /\ messages \subseteq messages' /\ UNCHANGED queries
  BY DEF Store, StoreInterchange, StoreVersion, NewMessage, BulkCreate, GiveUp
<1>2. target[d] \in Upload
  BY DEF TypeOK, StoredTypeOK, QueriesTypeOK
<1>3. stage[target[d]] = "done" =>
          stage'[target[d]] = "done" /\ built'[target[d]] = built[target[d]]
  BY <1>2 DEF Store, StoreInterchange, StoreVersion, NewMessage, BulkCreate,
              GiveUp, Goto, TypeOK, StoredTypeOK, QueriesTypeOK
<1> QED
  BY <1>1, <1>3, QueryUntouched DEF queries

LEMMA ClientOverAskDetail ==
    ASSUME TypeOK, NEW d \in Client, AskDetail(d)
    PROVE  ClientInv(d)'
<1>1. PICK u \in Upload :
          /\ target' = [target EXCEPT ![d] = u]
          /\ before' = [before EXCEPT ![d] = CurrentDetail(u)]
  BY DEF AskDetail
<1>2. /\ target'[d] = u /\ before'[d] = CurrentDetail(u)
      /\ step'[d] = "findInterchange" /\ detail'[d] = NoDetail /\ failed'[d] = FALSE
      /\ UNCHANGED <<interchanges, versions, messages>>
  BY <1>1 DEF AskDetail, writers, TypeOK, StoredTypeOK, QueriesTypeOK
<1>n. detail'[d].counted = {}
  <2>1. NoDetail.counted = {}
    BY DEF NoDetail
  <2>2. detail'[d] = NoDetail
    BY <1>2, Zenon
  <2> QED
    BY <2>1, <2>2
<1>3. CASE \E row \in interchanges : row.id = u
  <2> DEFINE found == CHOOSE row \in interchanges : row.id = u
             rows == {row \in messages : row.interchange = u}
             known == u \in versions
  <2>1. found \in interchanges /\ found.id = u
    BY <1>3
  <2>2. before'[d] = [code |-> "ok", status |-> found.status, version |-> known,
                      counted |-> rows]
    BY <1>2, <1>3 DEF CurrentDetail
  <2>3. rows = {row \in messages' : row.interchange = target'[d]}
    BY <1>2
  <2>4. known => target'[d] \in versions'
    BY <1>2
  <2> HIDE DEF found, rows, known
  <2>6. /\ before'[d].code = "ok" /\ before'[d].status = found.status
        /\ before'[d].counted = rows
    BY <2>2
  <2>7. before'[d].version = known
    BY <2>2
  <2> QED
    BY <1>2, <2>1, <2>3, <2>4, <1>n, <2>6, <2>7 DEF ClientInv
<1>4. CASE ~(\E row \in interchanges : row.id = u)
  <2>1. before'[d] = [NoDetail EXCEPT !.code = "notFound"]
    BY <1>2, <1>4, Zenon DEF CurrentDetail
  <2>2. NoDetail \in Details
    BY DEF NoDetail, Details
  <2>3. /\ before'[d].code = "notFound" /\ before'[d].version = NoDetail.version
        /\ before'[d].counted = NoDetail.counted
    BY <2>1, <2>2 DEF Details
  <2>4. NoDetail.counted = {} /\ ~NoDetail.version
    BY DEF NoDetail
  <2> QED
    BY <1>n, <2>3, <2>4 DEF ClientInv
<1> QED
  BY <1>3, <1>4

(* A statement of a query reads; it changes nothing but what the query knows. *)
LEMMA Kept ==
    ASSUME NEW d \in Client, ClientInv(d),
           UNCHANGED <<stage, built, interchanges, versions, messages, target, before>>,
           detail'[d].counted \in {{}, detail[d].counted},
           before[d].code = "ok" /\ ~failed'[d] =>
               /\ step'[d] \in {"findVersion", "count", "answered"} =>
                      detail'[d].code = "ok" /\ detail'[d].status = before[d].status
               /\ step'[d] \in {"count", "answered"} =>
                      (before[d].version => detail'[d].version)
               /\ step'[d] = "answered" => before[d].counted \subseteq detail'[d].counted
    PROVE  ClientInv(d)'
<1>1. Range(built[target[d]])' = Range(built[target[d]])
  BY DEF Range
<1> QED
  BY <1>1 DEF ClientInv

LEMMA ClientOverReads ==
    ASSUME TypeOK, WriterInv, NEW d \in Client, ClientInv(d),
           FindByID(d) \/ FindActive(d) \/ Count(d)
    PROVE  ClientInv(d)'
<1>0. UNCHANGED <<stage, built, interchanges, versions, messages, target, before>>
  BY DEF FindByID, FindActive, Count, writers
<1>d. detail \in [Client -> Details] /\ detail[d] \in Details
  BY DEF TypeOK, QueriesTypeOK
<1>1. CASE FindByID(d)
  <2>1. ASSUME NEW row \in interchanges, row.id = target[d],
               detail' = [detail EXCEPT ![d] =
                   [NoDetail EXCEPT !.code = "ok", !.status = row.status]],
               step' = [step EXCEPT ![d] = "findVersion"], UNCHANGED failed
        PROVE  ClientInv(d)'
    <3>1. detail'[d] = [code |-> "ok", status |-> row.status, version |-> FALSE,
                        counted |-> {}]
      BY <2>1 DEF NoDetail, TypeOK, StoredTypeOK, QueriesTypeOK
    <3>2. step'[d] = "findVersion"
      BY <2>1 DEF TypeOK, StoredTypeOK, QueriesTypeOK
    <3>3. before[d].code = "ok" => row.status = before[d].status
      BY <2>1 DEF ClientInv, WriterInv
    <3>4. /\ detail'[d].code = "ok" /\ detail'[d].status = row.status
          /\ detail'[d].counted = {}
      BY <3>1
    <3> QED
      BY <1>0, <2>1, <3>2, <3>3, <3>4, Kept
  <2>2. ASSUME \A row \in interchanges : row.id # target[d],
               detail' = [detail EXCEPT ![d].code = "notFound"],
               step' = [step EXCEPT ![d] = "answered"], UNCHANGED failed
        PROVE  ClientInv(d)'
    <3>1. before[d].code # "ok"
      BY <2>2 DEF ClientInv
    <3>2. detail'[d] = [detail[d] EXCEPT !.code = "notFound"]
      BY <1>d, <2>2
    <3>3. detail'[d].counted = detail[d].counted
      BY <1>d, <3>2 DEF Details
    <3> QED
      BY <1>0, <3>1, <3>3, Kept
  <2>3. ASSUME detail' = [detail EXCEPT ![d].code = "internal"],
               step' = [step EXCEPT ![d] = "answered"],
               failed' = [failed EXCEPT ![d] = TRUE]
        PROVE  ClientInv(d)'
    <3>1. failed'[d]
      BY <2>3 DEF TypeOK, QueriesTypeOK
    <3>2. detail'[d] = [detail[d] EXCEPT !.code = "internal"]
      BY <1>d, <2>3
    <3>3. detail'[d].counted = detail[d].counted
      BY <1>d, <3>2 DEF Details
    <3> QED
      BY <1>0, <3>1, <3>3, Kept
  <2> QED
    BY <1>1, <2>1, <2>2, <2>3 DEF FindByID
<1>2. CASE FindActive(d)
  <2>1. step[d] = "findVersion" /\ step'[d] = "count"
    BY <1>2 DEF FindActive, TypeOK, StoredTypeOK, QueriesTypeOK
  <2>2. /\ detail'[d].counted = detail[d].counted
        /\ detail'[d].code = detail[d].code /\ detail'[d].status = detail[d].status
    BY <1>2 DEF FindActive, TypeOK, QueriesTypeOK, Details
  <2>3. failed'[d] \/ (failed'[d] = failed[d] /\ detail'[d].version = (target[d] \in versions))
    BY <1>2 DEF FindActive, FindsVersion, TypeOK, QueriesTypeOK, Details
  <2> QED
    BY <1>0, <2>1, <2>2, <2>3 DEF ClientInv
<1>3. CASE Count(d)
  <2> DEFINE rows == {row \in messages : row.interchange = target[d]}
  <2>1. step[d] = "count" /\ step'[d] = "answered"
    BY <1>3 DEF Count, TypeOK, StoredTypeOK, QueriesTypeOK
  <2>2. /\ detail'[d].version = detail[d].version
        /\ detail'[d].code = detail[d].code /\ detail'[d].status = detail[d].status
    BY <1>3 DEF Count, TypeOK, QueriesTypeOK, Details
  <2>3. \/ failed'[d] /\ detail'[d].counted = detail[d].counted
        \/ failed'[d] = failed[d] /\ detail'[d].counted = rows
    BY <1>3 DEF Count, TypeOK, QueriesTypeOK, Details
  <2>4. rows # {} => rows = Range(built[target[d]]) /\ stage[target[d]] = "done"
    <3>1. target[d] \in Upload
      BY DEF TypeOK, QueriesTypeOK
    <3>2. \A row \in Range(built[target[d]]) : row.interchange = target[d]
      BY <3>1 DEF WriterInv, Range
    <3> QED
      BY <3>2 DEF WriterInv
  <2>5. (detail[d].counted # {} =>
             /\ detail[d].counted = Range(built[target[d]])
             /\ stage[target[d]] = "done")'
    <3>1. Range(built[target[d]])' = Range(built[target[d]])
      BY <1>0 DEF Range
    <3> HIDE DEF rows
    <3> QED
      BY <1>0, <2>3, <2>4, <3>1 DEF ClientInv
  <2> QED
    BY <1>0, <2>1, <2>2, <2>3, <2>5 DEF ClientInv
<1> QED
  BY <1>1, <1>2, <1>3

LEMMA ClientStep ==
    ASSUME TypeOK, WriterInv, NEW d \in Client, ClientInv(d), [Next]_vars
    PROVE  ClientInv(d)'
<1>1. CASE UNCHANGED <<writers, queries>>
  BY <1>1, QueryUntouched DEF writers, queries
<1>2. ASSUME NEW u \in Upload, Store(u) PROVE ClientInv(d)'
  BY <1>2, ClientOverStore
<1>3. ASSUME NEW c \in Reader, Ask(c) \/ FetchPage(c) PROVE ClientInv(d)'
  BY <1>1, <1>3 DEF Ask, FetchPage
<1>4. ASSUME NEW e \in Client, GetInterchange(e) PROVE ClientInv(d)'
  <2>1. CASE e = d
    BY <1>4, <2>1, ClientOverAskDetail, ClientOverReads DEF GetInterchange
  <2>2. CASE e # d
    <3>1. UNCHANGED <<stage, built, interchanges, versions, messages>>
      BY <1>4 DEF GetInterchange, AskDetail, FindByID, FindActive, Count, writers
    <3>2. /\ target'[d] = target[d] /\ step'[d] = step[d] /\ detail'[d] = detail[d]
          /\ before'[d] = before[d] /\ failed'[d] = failed[d]
      BY <1>4, <2>2
         DEF GetInterchange, AskDetail, FindByID, FindActive, Count, TypeOK, StoredTypeOK, QueriesTypeOK
    <3> QED
      BY <3>1, <3>2, QueryUntouched
  <2> QED
    BY <2>1, <2>2
<1>5. CASE UNCHANGED vars
  BY <1>1, <1>5 DEF vars
<1> QED
  BY <1>2, <1>3, <1>4, <1>5 DEF Next

LEMMA InvStep == IInv /\ [Next]_vars => IInv'
<1> SUFFICES ASSUME IInv, [Next]_vars PROVE IInv'
  OBVIOUS
<1>1. TypeOK' /\ WriterInv'
  BY TypeStep, WriterStep DEF IInv
<1>2. \A c \in Reader : ReaderInv(c)'
  BY ReaderStep DEF IInv
<1>3. \A d \in Client : ClientInv(d)'
  BY ClientStep DEF IInv
<1> QED
  BY <1>1, <1>2, <1>3 DEF IInv

LEMMA Invariant == Spec => []IInv
  BY InitInv, InvStep, PTL DEF Spec

-------------------------------------------------------------------------------
(* The theorems *)

(* The pages of a listing ascend and repeat nothing, for every filter and   *)
(* limit and however many uploads store messages between its pages.         *)
THEOREM ListingAscends == Spec => []PagesAscend
<1>1. IInv => PagesAscend
  BY DEF IInv, ReaderInv, PagesAscend
<1> QED
  BY <1>1, Invariant, PTL

(* Keyset pagination skips nothing that was stored when it began            *)
(* (messageRepository.ListByFilter).                                        *)
THEOREM NothingStoredIsSkipped == Spec => []StoredRowsAreListed
<1>1. IInv => StoredRowsAreListed
  BY DEF IInv, ReaderInv, StoredRowsAreListed
<1> QED
  BY <1>1, Invariant, PTL

(* The listing of one interchange is whole or empty: because one INSERT     *)
(* stores all its messages (messageRepository.BulkCreate).                  *)
THEOREM WholeInterchanges == Spec => []InterchangeListedWhole
<1>1. IInv => InterchangeListedWhole
  BY DEF IInv, ReaderInv, InterchangeListedWhole, NamesUpload
<1> QED
  BY <1>1, Invariant, PTL

(* A page with a cursor is full and the next one is not empty: the extra    *)
(* row of LIMIT limit+1 tells whether more follows.                         *)
THEOREM CursorsLeadSomewhere == Spec => CursorMeansMore
<1>1. ASSUME IInv, NEW c \in Reader, FetchPage(c)
      PROVE  LET gained == Len(listed'[c]) - Len(listed[c])
             IN /\ phase'[c] = "paging" => gained = limit[c]
                /\ cursor[c] # 0 => gained > 0
  <2>1. TypeOK /\ ReaderInv(c)
    BY <1>1 DEF IInv
  <2>2. PICK R \in Select(Eligible(c), limit[c] + 1) :
            /\ listed' = [listed EXCEPT ![c] = @ \o Page(R, limit[c])]
            /\ \/ More(R, limit[c]) /\ UNCHANGED phase
               \/ ~More(R, limit[c]) /\ phase' = [phase EXCEPT ![c] = "done"]
    BY <1>1 DEF FetchPage
  <2> DEFINE P == Page(R, limit[c])
  <2>3. /\ P \in Seq(Rows)
        /\ More(R, limit[c]) => Len(P) = limit[c]
        /\ ~More(R, limit[c]) => Range(P) = Eligible(c)
    BY <2>1, PageFacts
  <2> HIDE DEF P
  <2>4. /\ listed[c] \in Seq(Rows) /\ listed'[c] = listed[c] \o P
        /\ limit[c] \in Nat /\ limit[c] > 0
        /\ phase[c] = "paging"
        /\ ~More(R, limit[c]) => phase'[c] = "done"
    <3>1. /\ listed \in [Reader -> Seq(Rows)] /\ limit[c] \in 1 .. MaxPageLimit
          /\ phase \in [Reader -> {"idle", "paging", "done"}] /\ MaxPageLimit \in Nat
      BY <2>1, ReadSideAssumption DEF TypeOK, ListingsTypeOK
    <3>2. listed' = [listed EXCEPT ![c] = listed[c] \o P]
      BY <2>2 DEF P
    <3>3. phase[c] = "paging"
      BY <1>1 DEF FetchPage
    <3>4. ~More(R, limit[c]) => phase'[c] = "done"
      BY <2>2, <3>1
    <3> QED
      BY <3>1, <3>2, <3>3, <3>4
  <2>5. Len(listed'[c]) - Len(listed[c]) = Len(P)
    BY <2>3, <2>4
  <2>6. ASSUME cursor[c] # 0 PROVE Len(P) > 0
    <3>1. CASE More(R, limit[c])
      BY <2>3, <2>4, <3>1
    <3>2. CASE ~More(R, limit[c])
      <4>1. Eligible(c) # {}
        BY <2>1, <2>4, <2>6 DEF ReaderInv, Eligible
      <4>2. DOMAIN P # {}
        BY <2>3, <3>2, <4>1 DEF Range
      <4> QED
        BY <2>3, <4>2
    <3> QED
      BY <3>1, <3>2
  <2> QED
    BY <2>3, <2>4, <2>5, <2>6
<1>2. IInv /\ [Next]_vars =>
          [\A c \in Reader :
              FetchPage(c) =>
                  LET gained == Len(listed'[c]) - Len(listed[c])
                  IN /\ phase'[c] = "paging" => gained = limit[c]
                     /\ cursor[c] # 0 => gained > 0]_vars
  BY <1>1
<1> QED
  BY <1>2, Invariant, PTL DEF Spec, CursorMeansMore

(* No page is longer than its limit: the extra row stays with the service   *)
(* (messageRepository.ListByFilter).                                        *)
THEOREM PagesAreBounded == Spec => PagesKeepTheirLimit
<1>1. ASSUME IInv, NEW c \in Reader, FetchPage(c)
      PROVE  Len(listed'[c]) <= Len(listed[c]) + limit[c]
  <2>1. TypeOK
    BY <1>1 DEF IInv
  <2>2. PICK R \in Select(Eligible(c), limit[c] + 1) :
            listed' = [listed EXCEPT ![c] = @ \o Page(R, limit[c])]
    BY <1>1 DEF FetchPage
  <2> DEFINE P == Page(R, limit[c])
  <2>3. limit[c] \in Nat /\ listed \in [Reader -> Seq(Rows)]
    <3>1. limit[c] \in 1 .. MaxPageLimit /\ MaxPageLimit \in Nat
      BY <2>1, ReadSideAssumption DEF TypeOK, ListingsTypeOK
    <3> QED
      BY <2>1, <3>1 DEF TypeOK, ListingsTypeOK
  <2>4. Len(R) \in Nat /\ R \in Seq(Eligible(c))
    BY <2>3, Selected
  <2>5. P \in Seq(Rows)
    BY <2>1, PageFacts
  <2>6. Len(P) = IF Len(R) > limit[c] THEN limit[c] ELSE Len(R)
    BY <2>3, <2>4, PageIsPrefix
  <2> HIDE DEF P
  <2>7. listed'[c] = listed[c] \o P
    <3>1. listed' = [listed EXCEPT ![c] = listed[c] \o P]
      BY <2>2 DEF P
    <3> QED
      BY <2>3, <3>1
  <2>8. Len(listed'[c]) = Len(listed[c]) + Len(P) /\ Len(listed[c]) \in Nat
    BY <2>3, <2>5, <2>7
  <2> QED
    BY <2>3, <2>4, <2>6, <2>8
<1>2. IInv /\ [Next]_vars =>
          [\A c \in Reader :
              FetchPage(c) => Len(listed'[c]) <= Len(listed[c]) + limit[c]]_vars
  BY <1>1
<1> QED
  BY <1>2, Invariant, PTL DEF Spec, PagesKeepTheirLimit

(* A detail counts the messages of an interchange or none, never some of    *)
(* them: one INSERT stores them all (IngestionService.GetInterchange).      *)
THEOREM WholeCounts == Spec => []CountIsWhole
<1>1. IInv => CountIsWhole
  BY DEF IInv, ClientInv, CountIsWhole
<1> QED
  BY <1>1, Invariant, PTL

(* An answer is not older than its question, although three statements make *)
(* it: nothing is ever deleted, and each statement sees what was there      *)
(* before (IngestionService.GetInterchange).                                *)
THEOREM AnswersAreCurrent == Spec => []DetailNotStale
<1>1. IInv => DetailNotStale
  BY DEF IInv, ClientInv, DetailNotStale
<1> QED
  BY <1>1, Invariant, PTL
===============================================================================
