---------------------------- MODULE Parser_proofs -----------------------------
(***************************************************************************)
(* Proofs about Parser, for every stream of tokens the lexer can deliver:  *)
(* its type invariant, that its list of subscriptions is that of its       *)
(* messages, that it returns a complete result or an explained error, and  *)
(* that it accepts exactly the streams the grammar allows, with the        *)
(* messages that are in them.  Every step brings it closer to its end.     *)
(***************************************************************************)
EXTENDS Parser, FiniteSetTheorems, SequenceTheorems, WellFoundedInduction, TLAPS

StreamOK == tokens \in Inputs

-------------------------------------------------------------------------------
(* Reading a segment *)

(* A nonempty set of positions has a smallest one: the loops that look for  *)
(* the end of a segment stop at it.                                         *)
LEMMA SmallestPosition ==
    ASSUME NEW S \in SUBSET Nat, S # {}
    PROVE  \E x \in S : \A y \in S : x <= y
  <1>1. PICK x \in S : \A y \in S : <<y, x>> \notin OpToRel(<, Nat)
    BY NatLessThanWellFounded, WFMin
  <1>2. ASSUME NEW y \in S, ~(x <= y)
        PROVE  FALSE
    <2>1. x \in Nat /\ y \in Nat /\ y < x
      BY <1>2
    <2>2. <<y, x>> \in OpToRel(<, Nat)
      BY <2>1 DEF OpToRel
    <2> QED
      BY <1>1, <2>2
  <1> QED
    BY <1>1, <1>2

(* What ParserAssumption says of the stream at hand, token by token.        *)
LEMMA StreamFacts ==
    ASSUME TypeOK, StreamOK
    PROVE  /\ Len(tokens) \in Position
           /\ tokens[Len(tokens)].type \in Ending
           /\ \A i \in Position : tokens[i] \in TokenRecord
           /\ \A i \in 1 .. Len(tokens) - 1 :
                  /\ tokens[i].type \notin Ending
                  /\ tokens[i + 1].type \in Follows(tokens[i].type)
           /\ \A i \in Position : tokens[i].type \notin Ending => i + 1 \in Position
  <1> DEFINE types == [i \in DOMAIN tokens |-> tokens[i].type]
  <1>1. /\ tokens \in Seq(TokenRecord) /\ tokens # <<>>
        /\ Orderly(types) /\ tokens[Len(tokens)].type \in Ending
    BY ParserAssumption DEF StreamOK
  <1>2. Len(tokens) \in Nat /\ Len(tokens) >= 1 /\ DOMAIN tokens = 1 .. Len(tokens)
    BY <1>1
  <1>3. types \in [1 .. Len(tokens) -> TokenType]
    <2>1. \A i \in 1 .. Len(tokens) : tokens[i] \in TokenRecord
      BY <1>1
    <2> QED
      BY <1>2, <2>1 DEF TokenRecord
  <1>4. Len(types) = Len(tokens)
    <2> HIDE DEF types
    <2> QED
      BY <1>2, <1>3
  <1>5. ASSUME NEW i \in 1 .. Len(tokens) - 1
        PROVE  /\ tokens[i].type \notin Ending
               /\ tokens[i + 1].type \in Follows(tokens[i].type)
    <2>1. i \in 1 .. Len(tokens) /\ i + 1 \in 1 .. Len(tokens)
      BY <1>2
    <2>2. types[i] = tokens[i].type /\ types[i + 1] = tokens[i + 1].type
      BY <1>2, <2>1
    <2> HIDE DEF types
    <2> QED
      BY <1>1, <1>4, <2>2 DEF Orderly
  <1> QED
    BY <1>1, <1>2, <1>5 DEF Position

(* A segment that is read begins at or behind the current token and stops   *)
(* at a position of the stream, with nothing but data in between            *)
(* (parser.go readSegment).                                                 *)
LEMMA SegmentBounds ==
    ASSUME TypeOK, StreamOK
    PROVE  /\ First \in Position
           /\ Stop \in Position
           /\ Stop >= First
  <1>1. First \in Position
    <2>1. currentToken.type = "SegmentTag" => at + 1 \in Position
      BY StreamFacts DEF TypeOK, currentToken, Ending
    <2> QED
      BY <2>1 DEF First, TypeOK
  <1> DEFINE Stops == {j \in Position : j >= First /\ ~IsData(j)}
  <1>2. Len(tokens) \in Stops /\ Stops \in SUBSET Nat
    BY <1>1, StreamFacts DEF Position, IsData, Ending
  <1>3. PICK j \in Stops : \A k \in Stops : j <= k
    BY <1>2, SmallestPosition
  <1>4. \A k \in First .. j - 1 : IsData(k)
    BY <1>1, <1>3, StreamFacts DEF Position
  <1>5. \E i \in Position : /\ i >= First /\ ~IsData(i)
                            /\ \A k \in First .. i - 1 : IsData(k)
    BY <1>3, <1>4
  <1>6. Stop \in Position /\ Stop >= First
    BY <1>5 DEF Stop
  <1> QED
    BY <1>1, <1>6

(* The position stays inside the stream (parser.go:452-467).                *)
LEMMA ReadingStaysInside ==
    ASSUME TypeOK, StreamOK, ReadSegment
    PROVE  at' \in Position
  BY SegmentBounds, StreamFacts DEF ReadSegment, Ending

(* So does skipSegment, at or behind the current token.                     *)
LEMMA SkipStopIs ==
    ASSUME TypeOK, StreamOK
    PROVE  SkipStop \in Position /\ SkipStop >= at
  <1> DEFINE Skips(k) == tokens[k].type \notin {"SegmentEnd"} \cup Ending
             Stops == {j \in Position : j >= at /\ ~Skips(j)}
  <1>1. Len(tokens) \in Stops /\ Stops \in SUBSET Nat
    BY StreamFacts DEF Position, TypeOK
  <1>2. PICK j \in Stops : \A k \in Stops : j <= k
    BY <1>1, SmallestPosition
  <1>3. \A k \in at .. j - 1 : Skips(k)
    BY <1>2, StreamFacts DEF Position, TypeOK
  <1> QED
    BY <1>2, <1>3 DEF SkipStop

LEMMA SkippingStaysInside ==
    ASSUME TypeOK, StreamOK, SkipAdvice
    PROVE  at' \in Position
  BY SkipStopIs, StreamFacts DEF SkipAdvice, Ending

(* A component of a segment is a value of the stream or empty.              *)
LEMMA ComponentTyped ==
    ASSUME TypeOK, StreamOK, NEW e \in Nat, NEW c \in Nat \ {0}
    PROVE  Component(e, c) \in Value
  <1>1. CASE ~Has(e, c)
    BY <1>1, ParserAssumption DEF Component
  <1>2. CASE Has(e, c)
    <2> DEFINE i == CHOOSE i \in Opening(e, c) : TRUE
    <2>1. i \in Opening(e, c)
      BY <1>2 DEF Has
    <2>2. i \in First .. Stop - 1 /\ i + c - 1 < Stop
      BY <2>1 DEF Opening, Openings
    <2>3. i + c - 1 \in Position
      BY <2>2, SegmentBounds DEF Position
    <2>4. tokens[i + c - 1].value \in Value
      BY <2>3, StreamFacts DEF TokenRecord
    <2> QED
      BY <1>2, <2>4 DEF Component
  <1> QED
    BY <1>1, <1>2

-------------------------------------------------------------------------------
(* The type invariant *)

LEMMA HeaderTyped ==
    ASSUME TypeOK, StreamOK
    PROVE  Header \in ParseResult
  <1> DEFINE s == Component(2, 1)
             r == Component(3, 1)
             d == IF Has(4, 2) /\ <<Component(4, 1), Component(4, 2)>> \in Date
                  THEN <<Component(4, 1), Component(4, 2)>> ELSE NoDate
             f == Component(5, 1)
  <1>1. s \in Value /\ r \in Value /\ f \in Value /\ d \in Date \cup {NoDate}
    BY ComponentTyped
  <1>2. Header = [result EXCEPT !.sender = s, !.receiver = r, !.prepared = d, !.reference = f]
    BY DEF Header
  <1> HIDE DEF s, r, d, f
  <1> QED
    BY <1>1, <1>2 DEF TypeOK, ParseResult

LEMMA MessageHeaderTyped ==
    ASSUME TypeOK, StreamOK
    PROVE  MessageHeader \in Message
  <1>1. Component(1, 1) \in Value /\ Component(2, 1) \in Value /\ Empty \in Value
    BY ComponentTyped, ParserAssumption
  <1> QED
    BY <1>1 DEF MessageHeader, Message

(* What AddMessage adds to the result, field by field.                      *)
LEMMA AddedMessage ==
    ASSUME TypeOK, AddMessage
    PROVE  /\ result' \in ParseResult
           /\ result'.messages = Append(result.messages, message)
           /\ result'.subscriptions =
                  IF message.subscription \in Range(result.subscriptions) \cup {Empty}
                  THEN result.subscriptions
                  ELSE Append(result.subscriptions, message.subscription)
           /\ result'.sender = result.sender
           /\ result'.receiver = result.receiver
           /\ result'.reference = result.reference
  <1> DEFINE ms == Append(result.messages, message)
             ss == IF message.subscription \in Range(result.subscriptions) \cup {Empty}
                   THEN result.subscriptions
                   ELSE Append(result.subscriptions, message.subscription)
  <1>1. result' = [result EXCEPT !.messages = ms, !.subscriptions = ss]
    BY DEF AddMessage
  <1>2. ms \in Seq(Message) /\ ss \in Seq(Value)
    BY DEF TypeOK, ParseResult, Message
  <1> HIDE DEF ms, ss
  <1>3. /\ result' \in ParseResult
        /\ result'.messages = ms
        /\ result'.subscriptions = ss
        /\ result'.sender = result.sender
        /\ result'.receiver = result.receiver
        /\ result'.reference = result.reference
    BY <1>1, <1>2 DEF TypeOK, ParseResult
  <1> QED
    BY <1>3 DEF ms, ss

(* Every kind of error a step reports is one of Problem.                    *)
LEMMA ProblemsTyped ==
    /\ HeaderProblems \subseteq Problem
    /\ MessageHeaderProblems \subseteq Problem
    /\ TrailerProblems \subseteq Problem
  BY DEF HeaderProblems, MessageHeaderProblems, TrailerProblems, Reported, Problem

(* Every step keeps the types (parser.go:175-416).                          *)
LEMMA TypeStep == TypeOK /\ StreamOK /\ [Parse]_vars => TypeOK' /\ StreamOK'
  <1> SUFFICES ASSUME TypeOK, StreamOK, [Parse]_vars
               PROVE  TypeOK' /\ StreamOK'
    OBVIOUS
  <1>1. CASE NoAdvice
    BY <1>1 DEF NoAdvice, TypeOK, StreamOK, Position
  <1>2. CASE SkipAdvice
    BY <1>2, SkippingStaysInside DEF SkipAdvice, TypeOK, StreamOK, Position
  <1>3. CASE MissingUNB \/ MissingUNZ
    BY <1>3 DEF MissingUNB, MissingUNZ, Missing, TypeOK, StreamOK, Position, Problem
  <1>4. CASE ShortUNB
    BY <1>4, ReadingStaysInside DEF ShortUNB, TypeOK, StreamOK, Position, Problem
  <1>5. CASE parseUNB
    BY <1>5, ReadingStaysInside, HeaderTyped, ProblemsTyped
       DEF parseUNB, TypeOK, StreamOK, Position
  <1>6. CASE ShortUNH
    BY <1>6, ReadingStaysInside DEF ShortUNH, TypeOK, StreamOK, Position, Problem
  <1>7. CASE ReadUNH
    BY <1>7, ReadingStaysInside, MessageHeaderTyped, ProblemsTyped
       DEF ReadUNH, TypeOK, StreamOK, Position
  <1>8. CASE ReadBody
    <2>1. message' \in Message
      <3>1. Component(2, 1) \in Value
        BY ComponentTyped
      <3> QED
        BY <1>8, <3>1 DEF ReadBody, TypeOK, Message
    <2> QED
      BY <1>8, <2>1, ReadingStaysInside DEF ReadBody, TypeOK, StreamOK, Position
  <1>9. CASE ReadUNT
    BY <1>9, AddedMessage, ReadingStaysInside DEF ReadUNT, TypeOK, StreamOK, Position
  <1>10. CASE MissingUNT
    BY <1>10, AddedMessage DEF MissingUNT, TypeOK, StreamOK, Position, Problem
  <1>11. CASE parseUNZ
    BY <1>11, ReadingStaysInside, ProblemsTyped DEF parseUNZ, TypeOK, StreamOK, Position
  <1>12. CASE ReadForEver \/ SkipForEver
    BY <1>12, SegmentBounds, SkipStopIs
       DEF ReadForEver, SkipForEver, TypeOK, StreamOK, Position, Problem
  <1>13. CASE UNCHANGED vars
    BY <1>13 DEF vars, TypeOK, StreamOK, Position
  <1> QED
    BY <1>1, <1>2, <1>3, <1>4, <1>5, <1>6, <1>7, <1>8, <1>9, <1>10, <1>11, <1>12, <1>13
       DEF Parse

LEMMA TypeInit == NewParser => TypeOK /\ StreamOK
  <1> SUFFICES ASSUME NewParser
               PROVE  TypeOK /\ StreamOK
    OBVIOUS
  <1>1. tokens \in Seq(TokenRecord) /\ Len(tokens) >= 1 /\ Empty \in Value
    BY ParserAssumption DEF NewParser
  <1> QED
    BY <1>1 DEF NewParser, TypeOK, StreamOK, Position, ParseResult, Message, NoMessage

(* Type correctness: in particular the parser never reads behind the end of *)
(* its stream, whatever the segments are (parser.go:434-474).               *)
THEOREM TypeCorrect == Spec => []TypeOK
  BY TypeInit, TypeStep, PTL DEF Spec

-------------------------------------------------------------------------------
(* The subscriptions of the messages *)

\* the subscriptions a sequence of messages names
Named(messages) == {m.subscription : m \in Range(messages)} \ {Empty}

Distinct(list) == \A i, j \in DOMAIN list : list[i] = list[j] => i = j

LEMMA RangeOfAppend ==
    ASSUME NEW S, NEW s \in Seq(S), NEW e \in S
    PROVE  Range(Append(s, e)) = Range(s) \cup {e}
  <1>1. Append(s, e) \in Seq(S)
    OBVIOUS
  <1>2. /\ Range(s) = {s[i] : i \in 1 .. Len(s)}
        /\ Range(Append(s, e)) = {Append(s, e)[i] : i \in 1 .. Len(Append(s, e))}
    BY <1>1, RangeEquality
  <1> QED
    BY <1>2

(* Adding a message keeps both halves of SubscriptionsCoverMessages: its    *)
(* subscription is in the list already, empty, or added (parser.go:207).    *)
LEMMA AddMessageCovers ==
    ASSUME TypeOK, SubscriptionsCoverMessages, AddMessage
    PROVE  SubscriptionsCoverMessages'
  <1> DEFINE subs == result.subscriptions
             sub  == message.subscription
  <1>1. /\ result.messages \in Seq(Message) /\ message \in Message
        /\ subs \in Seq(Value) /\ sub \in Value
    BY DEF TypeOK, ParseResult, Message
  <1>2. /\ result'.messages = Append(result.messages, message)
        /\ result'.subscriptions = IF sub \in Range(subs) \cup {Empty} THEN subs
                                   ELSE Append(subs, sub)
    BY AddedMessage
  <1>3. /\ Range(subs) = Named(result.messages)
        /\ Distinct(subs)
    BY DEF SubscriptionsCoverMessages, Named, Distinct
  <1>4. Range(result'.messages) = Range(result.messages) \cup {message}
    BY <1>1, <1>2, RangeOfAppend
  <1>5. Named(result'.messages) = Named(result.messages) \cup ({sub} \ {Empty})
    BY <1>4 DEF Named
  <1>6. CASE sub \in Range(subs) \cup {Empty}
    <2>1. result'.subscriptions = subs
      BY <1>2, <1>6
    <2>2. Named(result'.messages) = Range(subs)
      BY <1>3, <1>5, <1>6
    <2> QED
      BY <1>3, <2>1, <2>2 DEF SubscriptionsCoverMessages, Named, Distinct
  <1>7. CASE sub \notin Range(subs) \cup {Empty}
    <2>1. result'.subscriptions = Append(subs, sub)
      BY <1>2, <1>7
    <2>2. Range(Append(subs, sub)) = Range(subs) \cup {sub}
      BY <1>1, RangeOfAppend
    <2>3. Range(result'.subscriptions) = Named(result'.messages)
      BY <1>3, <1>5, <1>7, <2>1, <2>2
    <2>4. Range(subs) = {subs[i] : i \in 1 .. Len(subs)}
      BY <1>1, RangeEquality
    <2>5. Distinct(Append(subs, sub))
      BY <1>1, <1>3, <1>7, <2>4 DEF Distinct
    <2> QED
      BY <2>1, <2>3, <2>5 DEF SubscriptionsCoverMessages, Named, Distinct
  <1> QED
    BY <1>6, <1>7

LEMMA CoverStep ==
    TypeOK /\ StreamOK /\ SubscriptionsCoverMessages /\ [Parse]_vars
        => SubscriptionsCoverMessages'
  <1> SUFFICES ASSUME TypeOK, StreamOK, SubscriptionsCoverMessages, [Parse]_vars
               PROVE  SubscriptionsCoverMessages'
    OBVIOUS
  <1>1. CASE ReadUNT \/ MissingUNT
    BY <1>1, AddMessageCovers DEF ReadUNT, MissingUNT
  <1>2. CASE parseUNB
    <2>1. result' = Header
      BY <1>2 DEF parseUNB
    <2>2. /\ result'.messages = result.messages
          /\ result'.subscriptions = result.subscriptions
      BY <2>1 DEF Header, TypeOK, ParseResult
    <2> QED
      BY <2>2 DEF SubscriptionsCoverMessages
  <1>3. CASE UNCHANGED result
    BY <1>3 DEF SubscriptionsCoverMessages
  <1>4. CASE \/ NoAdvice \/ SkipAdvice \/ MissingUNB \/ ShortUNB \/ ShortUNH
             \/ ReadUNH \/ ReadBody \/ MissingUNZ \/ parseUNZ
             \/ ReadForEver \/ SkipForEver \/ UNCHANGED vars
    BY <1>3, <1>4 DEF NoAdvice, SkipAdvice, MissingUNB, ShortUNB, ShortUNH, ReadUNH,
                      ReadBody, MissingUNZ, parseUNZ, Missing, ReadForEver, SkipForEver, vars
  <1> QED
    BY <1>1, <1>2, <1>4 DEF Parse

(* The service finds a row for the subscription of every message: the list  *)
(* it makes rows for has each of them, once (parser.go:207-212,             *)
(* ingestion_service.go).  This discharges what Ingestion assumes of its    *)
(* contents.                                                                *)
THEOREM MessagesAreCovered == Spec => []SubscriptionsCoverMessages
  <1>1. NewParser => SubscriptionsCoverMessages
    <2> SUFFICES ASSUME NewParser
                 PROVE  SubscriptionsCoverMessages
      OBVIOUS
    <2>1. result.messages = <<>> /\ result.subscriptions = <<>>
      BY DEF NewParser
    <2>2. Range(<<>>) = {}
      BY DEF Range
    <2> QED
      BY <2>1, <2>2 DEF SubscriptionsCoverMessages
  <1> QED
    BY <1>1, TypeInit, TypeStep, CoverStep, PTL DEF Spec

-------------------------------------------------------------------------------
(* Complete results and explained rejections *)

MessageComplete(m) == Empty \notin {m.reference, m.type}

(* The strengthening of CompleteOrExplained.  Errors are never forgotten,   *)
(* so an incomplete message, added or still under construction, has left    *)
(* one; and the messages are only reached behind a complete header.         *)
CompleteInv ==
    /\ pc \in {"message", "body", "accepted"} =>
           Empty \notin {result.sender, result.receiver, result.reference}
    /\ errors = {} => \A m \in Range(result.messages) : MessageComplete(m)
    /\ errors = {} /\ pc = "body" => MessageComplete(message)
    /\ pc = "accepted" => errors = {}
    /\ pc = "rejected" => errors # {}

LEMMA CompleteInit == NewParser => CompleteInv
  <1> SUFFICES ASSUME NewParser
               PROVE  CompleteInv
    OBVIOUS
  <1>1. result.messages = <<>> /\ pc = "advice" /\ Range(<<>>) = {}
    BY DEF NewParser, Range
  <1> QED
    BY <1>1 DEF CompleteInv

LEMMA CompleteStep ==
    TypeOK /\ StreamOK /\ CompleteInv /\ [Parse]_vars => CompleteInv'
  <1> SUFFICES ASSUME TypeOK, StreamOK, CompleteInv, [Parse]_vars
               PROVE  CompleteInv'
    OBVIOUS
  <1>1. CASE NoAdvice \/ SkipAdvice \/ UNCHANGED vars
    BY <1>1 DEF NoAdvice, SkipAdvice, vars, CompleteInv
  <1>2. CASE MissingUNB \/ MissingUNZ \/ ShortUNB
    <2>1. /\ UNCHANGED <<result, message>>
          /\ pc' = "rejected"
          /\ errors' # {}
      BY <1>2 DEF MissingUNB, MissingUNZ, ShortUNB, Missing
    <2> QED
      BY <2>1 DEF CompleteInv
  <1>3. CASE parseUNB
    <2>1. /\ result' = Header
          /\ errors' = errors \cup HeaderProblems
          /\ pc' = IF errors' = {} THEN "message" ELSE "rejected"
      BY <1>3 DEF parseUNB
    <2>2. errors' = {} => Empty \notin {result'.sender, result'.receiver, result'.reference}
      BY <2>1 DEF HeaderProblems, Reported
    <2>3. result'.messages = result.messages
      BY <2>1 DEF Header, TypeOK, ParseResult
    <2> QED
      BY <2>1, <2>2, <2>3 DEF CompleteInv
  <1>4. CASE ShortUNH
    BY <1>4 DEF ShortUNH, CompleteInv
  <1>5. CASE ReadUNH
    <2>1. /\ UNCHANGED result
          /\ errors' = errors \cup MessageHeaderProblems
          /\ pc = "message" /\ pc' = "body"
      BY <1>5 DEF ReadUNH
    <2>2. errors' = {} => MessageComplete(message')
      BY <2>1 DEF MessageHeaderProblems, Reported, MessageComplete
    <2> QED
      BY <2>1, <2>2 DEF CompleteInv
  <1>6. CASE ReadBody
    <2>1. UNCHANGED <<pc, result, errors>>
      BY <1>6 DEF ReadBody
    <2>2. message'.reference = message.reference /\ message'.type = message.type
      BY <1>6 DEF ReadBody, TypeOK, Message
    <2> QED
      BY <2>1, <2>2 DEF CompleteInv, MessageComplete
  <1>7. CASE ReadUNT \/ MissingUNT
    <2>1. /\ AddMessage
          /\ pc = "body" /\ pc' = "message"
          /\ errors' = {} => errors = {}
      BY <1>7 DEF ReadUNT, MissingUNT
    <2>2. /\ result'.messages = Append(result.messages, message)
          /\ result'.sender = result.sender
          /\ result'.receiver = result.receiver
          /\ result'.reference = result.reference
      BY <2>1, AddedMessage
    <2>3. Range(result'.messages) = Range(result.messages) \cup {message}
      BY <2>2, RangeOfAppend DEF TypeOK, ParseResult
    <2> QED
      BY <2>1, <2>2, <2>3 DEF CompleteInv
  <1>8. CASE parseUNZ
    <2>1. /\ UNCHANGED <<result, message>>
          /\ errors' = errors \cup TrailerProblems
          /\ pc = "message"
          /\ pc' = IF errors' = {} THEN "accepted" ELSE "rejected"
      BY <1>8 DEF parseUNZ
    <2> QED
      BY <2>1 DEF CompleteInv
  <1>9. CASE ReadForEver \/ SkipForEver
    BY <1>9 DEF ReadForEver, SkipForEver, CompleteInv
  <1> QED
    BY <1>1, <1>2, <1>3, <1>4, <1>5, <1>6, <1>7, <1>8, <1>9 DEF Parse

(* Parse never returns an incomplete result, nor neither result nor error:  *)
(* its caller tells failure from success by a nil error alone               *)
(* (parser.go:226-230, 513; ingestion_service.go).                          *)
THEOREM CompleteResults == Spec => []CompleteOrExplained
  <1>1. CompleteInv => CompleteOrExplained
    BY DEF CompleteInv, CompleteOrExplained, MessageComplete
  <1> QED
    BY <1>1, CompleteInit, TypeInit, TypeStep, CompleteStep, PTL DEF Spec

-------------------------------------------------------------------------------
(* Sets of numbers in order *)

Rank(S, x) == Cardinality({y \in S : y <= x})

(* Ranks count the members of a finite set of numbers from 1 on, in order.  *)
LEMMA RankGrows ==
    ASSUME NEW S \in SUBSET Nat, IsFiniteSet(S)
    PROVE  /\ Cardinality(S) \in Nat
           /\ \A x \in S : Rank(S, x) \in 1 .. Cardinality(S)
           /\ \A x, y \in S : x < y => Rank(S, x) < Rank(S, y)
  <1>1. Cardinality(S) \in Nat
    BY FS_CardinalityType
  <1>2. ASSUME NEW x \in S
        PROVE  Rank(S, x) \in 1 .. Cardinality(S)
    <2> DEFINE B == {y \in S : y <= x}
    <2>1. IsFiniteSet(B) /\ Cardinality(B) <= Cardinality(S)
      <3>1. B \in SUBSET S
        OBVIOUS
      <3> HIDE DEF B
      <3> QED
        BY <3>1, FS_Subset
    <2>2. Cardinality(B) \in Nat
      BY <2>1, FS_CardinalityType
    <2>3. x \in B
      OBVIOUS
    <2>4. Cardinality(B) # 0
      <3> HIDE DEF B
      <3> QED
        BY <2>1, <2>3, FS_EmptySet
    <2> QED
      BY <1>1, <2>1, <2>2, <2>4 DEF Rank
  <1>3. ASSUME NEW x \in S, NEW y \in S, x < y
        PROVE  Rank(S, x) < Rank(S, y)
    <2> DEFINE B == {z \in S : z <= x}
               C == {z \in S : z <= y}
    <2>0. x \in Nat /\ y \in Nat /\ \A z \in S : z \in Nat
      OBVIOUS
    <2>1. B \in SUBSET C /\ C \in SUBSET S /\ y \in C /\ y \notin B
      <3>1. \A z \in S : z <= x => z <= y
        BY <1>3, <2>0
      <3>2. y <= y /\ ~(y <= x)
        BY <1>3, <2>0
      <3> QED
        BY <3>1, <3>2
    <2>2. Cardinality(B) = Rank(S, x) /\ Cardinality(C) = Rank(S, y)
      BY DEF Rank
    <2> HIDE DEF B, C
    <2>3. IsFiniteSet(C)
      BY <2>1, FS_Subset
    <2>4. Cardinality(B) <= Cardinality(C) /\ Cardinality(B) # Cardinality(C)
      BY <2>1, <2>3, FS_Subset
    <2> QED
      BY <1>2, <2>2, <2>4
  <1> QED
    BY <1>1, <1>2, <1>3

(* Every rank is taken.                                                     *)
LEMMA RanksTaken ==
    ASSUME NEW S \in SUBSET Nat, IsFiniteSet(S), NEW n \in 1 .. Cardinality(S)
    PROVE  \E x \in S : Rank(S, x) = n
  <1> DEFINE f == [x \in S |-> Rank(S, x)]
             T == 1 .. Cardinality(S)
  <1>1. Cardinality(S) \in Nat
    BY FS_CardinalityType
  <1>2. IsFiniteSet(T) /\ Cardinality(T) = Cardinality(S)
    BY <1>1, FS_Interval
  <1>3. f \in [S -> T]
    BY RankGrows
  <1>4. \A x, y \in S : f[x] = f[y] => x = y
    <2> SUFFICES ASSUME NEW x \in S, NEW y \in S, Rank(S, x) = Rank(S, y), x # y
                 PROVE  FALSE
      OBVIOUS
    <2>1. x < y \/ y < x
      OBVIOUS
    <2> QED
      BY <2>1, RankGrows
  <1>5. f \in Injection(S, T)
    <2> HIDE DEF f, T
    <2> QED
      BY <1>3, <1>4 DEF Injection, IsInjective
  <1>6. f \in Surjection(S, T)
    <2> HIDE DEF f, T
    <2> QED
      BY <1>2, <1>5, FS_Injection
  <1>7. \A t \in T : \E x \in S : f[x] = t
    BY <1>6 DEF Surjection
  <1> QED
    BY <1>7

(* InOrder lists the members by rank.                                       *)
LEMMA InOrderIs ==
    ASSUME NEW S \in SUBSET Nat, IsFiniteSet(S)
    PROVE  /\ Cardinality(S) \in Nat
           /\ InOrder(S) \in [1 .. Cardinality(S) -> S]
           /\ InOrder(S) \in Seq(S)
           /\ Len(InOrder(S)) = Cardinality(S)
           /\ \A n \in 1 .. Cardinality(S) : Rank(S, InOrder(S)[n]) = n
           /\ \A x \in S : InOrder(S)[Rank(S, x)] = x
           /\ \A m, n \in 1 .. Cardinality(S) : m < n => InOrder(S)[m] < InOrder(S)[n]
  <1> DEFINE c == Cardinality(S)
  <1>1. c \in Nat
    BY FS_CardinalityType
  <1>2. \A n \in 1 .. c : InOrder(S)[n] \in S /\ Rank(S, InOrder(S)[n]) = n
    <2> TAKE n \in 1 .. c
    <2>1. \E x \in S : Cardinality({y \in S : y <= x}) = n
      BY RanksTaken DEF Rank
    <2>2. InOrder(S)[n] = CHOOSE x \in S : Cardinality({y \in S : y <= x}) = n
      BY DEF InOrder
    <2> QED
      BY <2>1, <2>2 DEF Rank
  <1>3. DOMAIN InOrder(S) = 1 .. c /\ InOrder(S) = [n \in 1 .. c |-> InOrder(S)[n]]
    BY DEF InOrder
  <1> DEFINE s == InOrder(S)
  <1>4. \A n \in 1 .. c : s[n] \in S
    BY <1>2
  <1>5. DOMAIN s = 1 .. c /\ s = [n \in 1 .. c |-> s[n]]
    BY <1>3
  <1>6. s \in [1 .. c -> S]
    <2> HIDE DEF s, c
    <2> QED
      BY <1>4, <1>5
  <1>7. s \in Seq(S) /\ Len(s) = c
    <2> HIDE DEF s, c
    <2> QED
      BY <1>1, <1>6
  <1>8. ASSUME NEW x \in S
        PROVE  s[Rank(S, x)] = x
    <2>1. Rank(S, x) \in 1 .. c
      BY RankGrows
    <2> DEFINE y == s[Rank(S, x)]
    <2>2. y \in S /\ Rank(S, y) = Rank(S, x)
      BY <1>2, <2>1
    <2> HIDE DEF y
    <2>3. ~(x < y) /\ ~(y < x)
      <3>1. Rank(S, x) \in Nat
        BY <1>1, <2>1
      <3> QED
        BY <2>2, <3>1, RankGrows
    <2>4. x = y
      BY <2>2, <2>3
    <2> QED
      BY <2>4 DEF y
  <1>9. ASSUME NEW m \in 1 .. c, NEW n \in 1 .. c, m < n
        PROVE  s[m] < s[n]
    <2> DEFINE x == s[m]
               y == s[n]
    <2>1. x \in S /\ y \in S /\ Rank(S, x) = m /\ Rank(S, y) = n
      BY <1>2
    <2> HIDE DEF x, y
    <2>2. x # y
      BY <1>9, <2>1
    <2>3. ~(y < x)
      BY <1>1, <1>9, <2>1, RankGrows
    <2>4. x < y
      BY <2>1, <2>2, <2>3
    <2> QED
      BY <2>4 DEF x, y
  <1> QED
    BY <1>1, <1>2, <1>6, <1>7, <1>8, <1>9

(* The member behind the one of rank n is of rank n + 1; the first is of    *)
(* rank 1.                                                                  *)
LEMMA NextInOrder ==
    ASSUME NEW S \in SUBSET Nat, IsFiniteSet(S), NEW x \in S,
           NEW n \in 0 .. Cardinality(S),
           n > 0 => InOrder(S)[n] < x,
           \A y \in S : y < x => n > 0 /\ y <= InOrder(S)[n]
    PROVE  n + 1 \in 1 .. Cardinality(S) /\ InOrder(S)[n + 1] = x
  <1> DEFINE s == InOrder(S)
             c == Cardinality(S)
             r == Rank(S, x)
  <1>1. /\ c \in Nat
        /\ \A m \in 1 .. c : s[m] \in S
        /\ s[r] = x
        /\ \A l, m \in 1 .. c : l < m => s[l] < s[m]
    BY InOrderIs
  <1>2. r \in 1 .. c
    BY RankGrows
  <1> HIDE DEF s, c, r
  <1>3. (n > 0 => s[n] < x) /\ x \in Nat
    BY DEF s
  <1>4. \A y \in S : y < x => n > 0 /\ y <= s[n]
    BY DEF s
  <1>5. n \in 0 .. c
    BY DEF c
  <1>6. ~(r <= n)
    <2> SUFFICES ASSUME r <= n
                 PROVE  FALSE
      OBVIOUS
    <2>1. n > 0 /\ n \in 1 .. c
      BY <1>1, <1>2, <1>5
    <2>2. s[n] \in Nat /\ s[r] \in Nat
      BY <1>1, <1>2, <2>1
    <2>3. s[r] <= s[n]
      BY <1>1, <1>2, <2>1, <2>2
    <2> QED
      BY <1>1, <1>3, <2>1, <2>2, <2>3
  <1>7. ~(r > n + 1)
    <2> SUFFICES ASSUME r > n + 1
                 PROVE  FALSE
      OBVIOUS
    <2>1. n + 1 \in 1 .. c /\ n + 1 < r
      BY <1>1, <1>2, <1>5
    <2>2. s[n + 1] < x /\ s[n + 1] \in S
      BY <1>1, <1>2, <2>1
    <2>3. n > 0 /\ s[n + 1] <= s[n]
      BY <1>4, <2>2
    <2>4. s[n] < s[n + 1]
      BY <1>1, <1>5, <2>1, <2>3
    <2>5. s[n] \in Nat /\ s[n + 1] \in Nat
      <3>1. n \in 1 .. c
        BY <1>1, <1>5, <2>3
      <3> QED
        BY <1>1, <2>1, <3>1
    <2> QED
      BY <2>3, <2>4, <2>5
  <1>8. r = n + 1
    BY <1>2, <1>5, <1>6, <1>7
  <1> QED
    BY <1>1, <1>2, <1>8 DEF s, c

(* A new largest member goes to the end.                                    *)
LEMMA InOrderAppend ==
    ASSUME NEW S \in SUBSET Nat, IsFiniteSet(S), NEW x \in Nat,
           \A y \in S : y < x
    PROVE  /\ IsFiniteSet(S \cup {x})
           /\ Cardinality(S \cup {x}) = Cardinality(S) + 1
           /\ \A n \in 1 .. Cardinality(S) : InOrder(S \cup {x})[n] = InOrder(S)[n]
           /\ InOrder(S \cup {x})[Cardinality(S) + 1] = x
  <1> DEFINE T == S \cup {x}
             c == Cardinality(S)
  <1>1. x \notin S /\ T \in SUBSET Nat /\ c \in Nat
    BY FS_CardinalityType
  <1>2. IsFiniteSet(T) /\ Cardinality(T) = c + 1
    BY <1>1, FS_AddElement
  <1>3. ASSUME NEW y \in S
        PROVE  Rank(T, y) = Rank(S, y)
    <2>1. {z \in T : z <= y} = {z \in S : z <= y}
      BY <1>1
    <2> QED
      BY <2>1 DEF Rank
  <1>4. Rank(T, x) = c + 1
    <2>1. {z \in T : z <= x} = T
      <3>1. \A z \in T : z \in Nat /\ (z < x \/ z = x)
        BY <1>1
      <3>2. \A z \in T : z <= x
        BY <3>1
      <3> QED
        BY <3>2
    <2> QED
      BY <1>2, <2>1 DEF Rank
  <1>5. \A y \in T : InOrder(T)[Rank(T, y)] = y
    <2> HIDE DEF T
    <2> QED
      BY <1>1, <1>2, InOrderIs
  <1>6. ASSUME NEW n \in 1 .. c
        PROVE  InOrder(T)[n] = InOrder(S)[n]
    <2>1. InOrder(S)[n] \in S /\ Rank(S, InOrder(S)[n]) = n
      BY InOrderIs
    <2>2. Rank(T, InOrder(S)[n]) = n
      BY <1>3, <2>1
    <2> QED
      BY <1>5, <2>1, <2>2
  <1> QED
    BY <1>2, <1>4, <1>5, <1>6

-------------------------------------------------------------------------------
(* The segment the parser reads is the next one of the stream *)

(* readSegment stops at the first token behind the data (parser.go:434).    *)
LEMMA StopIs ==
    ASSUME TypeOK, StreamOK
    PROVE  /\ ~IsData(Stop)
           /\ \A k \in First .. Stop - 1 : IsData(k)
  <1>1. First \in Position
    BY SegmentBounds
  <1> DEFINE Stops == {j \in Position : j >= First /\ ~IsData(j)}
  <1>2. Len(tokens) \in Stops /\ Stops \in SUBSET Nat
    BY <1>1, StreamFacts DEF Position, IsData, Ending
  <1>3. PICK j \in Stops : \A k \in Stops : j <= k
    BY <1>2, SmallestPosition
  <1>4. \A k \in First .. j - 1 : IsData(k)
    BY <1>1, <1>3, StreamFacts DEF Position
  <1>5. \E i \in Position : /\ i >= First /\ ~IsData(i)
                            /\ \A k \in First .. i - 1 : IsData(k)
    BY <1>3, <1>4
  <1> QED
    BY <1>5 DEF Stop

(* A tag is only found at the beginning of a segment, so what it stops at   *)
(* closes the segment.                                                      *)
LEMMA StopCloses ==
    ASSUME TypeOK, StreamOK
    PROVE  /\ at \in Position /\ Stop \in Position
           /\ at <= First /\ First <= Stop /\ at <= Stop
           /\ tokens[Stop].type \in {"SegmentEnd"} \cup Ending
           /\ \A k \in at .. Stop - 1 : tokens[k].type \notin {"SegmentEnd"} \cup Ending
           /\ Stop = at \/ (Stop > 1 /\ tokens[Stop - 1].type # "SegmentEnd")
  <1>1. /\ at \in Position /\ Stop \in Position /\ First \in Position /\ First <= Stop
        /\ First = IF tokens[at].type = "SegmentTag" THEN at + 1 ELSE at
        /\ at \in Nat /\ Stop \in Nat /\ Len(tokens) \in Nat
    BY SegmentBounds DEF First, currentToken, Position, TypeOK
  <1>2. at <= First /\ at <= Stop
    BY <1>1 DEF Position
  <1>3. ASSUME NEW k \in at .. Stop - 1
        PROVE  tokens[k].type \notin {"SegmentEnd"} \cup Ending
    <2>1. (k = at /\ tokens[at].type = "SegmentTag") \/ k \in First .. Stop - 1
      BY <1>1
    <2>2. tokens[k].type \in {"SegmentTag", "DataElement", "Component"}
      BY <2>1, StopIs DEF IsData
    <2> QED
      BY <2>2 DEF Ending
  <1>4. Stop = at \/ (Stop > 1 /\ tokens[Stop - 1].type # "SegmentEnd")
    <2> SUFFICES ASSUME Stop # at
                 PROVE  Stop > 1 /\ tokens[Stop - 1].type # "SegmentEnd"
      OBVIOUS
    <2>1. at < Stop /\ Stop - 1 \in at .. Stop - 1 /\ at >= 1
      BY <1>1 DEF Position
    <2> QED
      BY <1>1, <1>3, <2>1
  <1>5. tokens[Stop].type # "SegmentTag"
    <2> SUFFICES ASSUME tokens[Stop].type = "SegmentTag"
                 PROVE  FALSE
      OBVIOUS
    <2>1. Stop # at
      BY <1>1
    <2>2. Stop - 1 \in 1 .. Len(tokens) - 1 /\ (Stop - 1) + 1 = Stop
      BY <1>1, <1>4, <2>1 DEF Position
    <2>3. tokens[Stop].type \in Follows(tokens[Stop - 1].type)
      BY <2>2, StreamFacts
    <2>4. tokens[Stop - 1] \in TokenRecord
      BY <2>2, StreamFacts DEF Position
    <2>5. tokens[Stop - 1].type \in {"start", "SegmentEnd"}
      BY <2>3 DEF Follows
    <2> QED
      BY <1>4, <2>1, <2>4, <2>5 DEF TokenRecord, TokenType
  <1>6. tokens[Stop].type \in TokenType
    BY <1>1, StreamFacts DEF TokenRecord
  <1>7. tokens[Stop].type \in {"SegmentEnd"} \cup Ending
    BY <1>5, <1>6, StopIs DEF IsData, TokenType, Ending
  <1> QED
    BY <1>1, <1>2, <1>3, <1>4, <1>7

\* the positions that close a segment
Closings(stream) ==
    {i \in DOMAIN stream :
        \/ stream[i].type = "SegmentEnd"
        \/ i = Len(stream) /\ i > 1 /\ stream[i - 1].type # "SegmentEnd"}

\* where segment n begins; behind the last one, where the stream ends
Start(stream, n) ==
    IF n > Len(Closing(stream)) THEN Len(stream)
    ELSE IF n = 1 THEN 1 ELSE Closing(stream)[n - 1] + 1

(* The closing positions are a finite set of positions, taken in order.     *)
LEMMA ClosingIs ==
    ASSUME TypeOK
    PROVE  /\ Closing(tokens) = InOrder(Closings(tokens))
           /\ Closings(tokens) \in SUBSET Nat
           /\ Closings(tokens) \subseteq Position
           /\ IsFiniteSet(Closings(tokens))
  <1>1. Closing(tokens) = InOrder(Closings(tokens))
    BY DEF Closing, Closings
  <1>2. Closings(tokens) \subseteq 1 .. Len(tokens) /\ Len(tokens) \in Nat
    BY DEF Closings, TypeOK
  <1>3. IsFiniteSet(1 .. Len(tokens))
    BY <1>2, FS_Interval
  <1>4. IsFiniteSet(Closings(tokens))
    BY <1>2, <1>3, FS_Subset
  <1> QED
    BY <1>1, <1>2, <1>4 DEF Position

(* A parser that stands where segment n begins stops where it is closed,    *)
(* and goes on where segment n + 1 begins.                                  *)
LEMMA ReadsSegment ==
    ASSUME TypeOK, StreamOK, NEW n \in 1 .. Len(Closing(tokens)), at = Start(tokens, n)
    PROVE  /\ Closing(tokens)[n] = Stop
           /\ Start(tokens, n + 1) = IF tokens[Stop].type = "SegmentEnd" THEN Stop + 1 ELSE Stop
  <1> DEFINE C == Closings(tokens)
             cl == Closing(tokens)
             c == Len(cl)
  <1>1. /\ C \in SUBSET Nat /\ C \subseteq Position /\ IsFiniteSet(C)
        /\ cl = InOrder(C) /\ c = Cardinality(C) /\ c \in Nat
        /\ \A m \in 1 .. c : cl[m] \in C
        /\ \A l, m \in 1 .. c : l < m => cl[l] < cl[m]
        /\ \A x \in C : cl[Rank(C, x)] = x /\ Rank(C, x) \in 1 .. c
    <2>1. /\ C \in SUBSET Nat /\ C \subseteq Position /\ IsFiniteSet(C)
          /\ cl = InOrder(C)
      BY ClosingIs
    <2> HIDE DEF C, cl
    <2>2. /\ Len(InOrder(C)) = Cardinality(C) /\ Cardinality(C) \in Nat
          /\ InOrder(C) \in [1 .. Cardinality(C) -> C]
          /\ \A l, m \in 1 .. Cardinality(C) : l < m => InOrder(C)[l] < InOrder(C)[m]
          /\ \A x \in C : InOrder(C)[Rank(C, x)] = x
      BY <2>1, InOrderIs
    <2>3. \A x \in C : Rank(C, x) \in 1 .. Cardinality(C)
      BY <2>1, RankGrows
    <2>4. \A m \in 1 .. Cardinality(C) : InOrder(C)[m] \in C
      BY <2>2
    <2> QED
      BY <2>1, <2>2, <2>3, <2>4
  <1>2. n \in 1 .. c /\ at = IF n = 1 THEN 1 ELSE cl[n - 1] + 1
    BY <1>1 DEF Start
  <1>3. /\ at \in Nat /\ at >= 1 /\ Stop \in Nat /\ at <= Stop /\ Stop <= Len(tokens)
        /\ Len(tokens) \in Nat
    BY StopCloses, StreamFacts DEF Position
  <1>4. \A i \in Position : i \in C <=> \/ tokens[i].type = "SegmentEnd"
                                        \/ i = Len(tokens) /\ i > 1 /\ tokens[i - 1].type # "SegmentEnd"
    BY DEF Closings, Position
  <1> HIDE DEF C, cl, c
  <1>5. n > 1 => n - 1 \in 1 .. c /\ cl[n - 1] \in Nat /\ cl[n - 1] = at - 1
    <2> SUFFICES ASSUME n > 1
                 PROVE  n - 1 \in 1 .. c /\ cl[n - 1] \in Nat /\ cl[n - 1] = at - 1
      OBVIOUS
    <2>1. n - 1 \in 1 .. c
      BY <1>1, <1>2
    <2>2. cl[n - 1] \in Nat
      BY <1>1, <2>1
    <2> QED
      BY <1>2, <2>1, <2>2
  <1>6. cl[n] \in C /\ cl[n] >= at
    <2>0. cl[n] \in C /\ cl[n] \in Position
      BY <1>1, <1>2
    <2>1. cl[n] \in C /\ cl[n] \in Nat /\ cl[n] >= 1
      BY <2>0 DEF Position
    <2>2. CASE n = 1
      BY <1>2, <2>1, <2>2
    <2>3. CASE n > 1
      <3>1. cl[n - 1] < cl[n]
        BY <1>1, <1>2, <1>5, <2>3
      <3> QED
        BY <1>3, <1>5, <2>1, <2>3, <3>1
    <2> QED
      BY <1>2, <2>2, <2>3
  <1>7. Stop \in C
    <2>1. CASE tokens[Stop].type = "SegmentEnd"
      BY <1>4, <2>1, StopCloses
    <2>2. CASE tokens[Stop].type # "SegmentEnd"
      <3>1. Stop = Len(tokens)
        <4>1. tokens[Stop].type \in Ending /\ Stop \in Position
          BY <2>2, StopCloses
        <4>2. ~(Stop \in 1 .. Len(tokens) - 1)
          BY <4>1, StreamFacts
        <4> QED
          BY <1>3, <4>2
      <3>2. CASE Stop = at
        <4>0. cl[n] \in Position
          BY <1>1, <1>6
        <4>1. cl[n] \in Nat /\ cl[n] <= Len(tokens)
          BY <4>0 DEF Position
        <4>2. cl[n] = Stop
          BY <1>3, <1>6, <3>1, <3>2, <4>1
        <4> QED
          BY <1>6, <4>2
      <3>3. CASE Stop # at
        BY <1>4, <3>1, <3>3, StopCloses
      <3> QED
        BY <3>2, <3>3
    <2> QED
      BY <2>1, <2>2
  <1>8. ASSUME NEW y \in C, y < Stop
        PROVE  y < at
    <2>1. y \in Position /\ y \in Nat /\ y <= Len(tokens) /\ y # Len(tokens)
      BY <1>1, <1>3, <1>8 DEF Position
    <2>2. tokens[y].type = "SegmentEnd"
      BY <1>4, <2>1
    <2>3. ~(y \in at .. Stop - 1)
      BY <2>2, StopCloses
    <2> QED
      BY <1>3, <1>8, <2>1, <2>3
  <1>9. cl[n] = Stop
    <2>1. n - 1 \in 0 .. Cardinality(C) /\ (n - 1) + 1 = n
      BY <1>1, <1>2
    <2>2. n - 1 > 0 => InOrder(C)[n - 1] < Stop
      BY <1>1, <1>2, <1>3, <1>5
    <2>3. \A y \in C : y < Stop => n - 1 > 0 /\ y <= InOrder(C)[n - 1]
      <3> SUFFICES ASSUME NEW y \in C, y < Stop
                   PROVE  n - 1 > 0 /\ y <= InOrder(C)[n - 1]
        OBVIOUS
      <3>1. y \in Nat /\ y >= 1 /\ y < at
        BY <1>1, <1>8 DEF Position
      <3> QED
        BY <1>1, <1>2, <1>3, <1>5, <3>1
    <2>4. InOrder(C)[(n - 1) + 1] = Stop
      BY <1>1, <1>7, <2>1, <2>2, <2>3, NextInOrder
    <2> QED
      BY <1>1, <2>1, <2>4
  <1>10. CASE n < c
    <2>1. n + 1 \in 1 .. c /\ cl[n] < cl[n + 1] /\ cl[n + 1] \in C
      BY <1>1, <1>2, <1>10
    <2>0. cl[n + 1] \in Position
      BY <1>1, <2>1
    <2>2. Stop < Len(tokens)
      BY <1>3, <1>9, <2>0, <2>1 DEF Position
    <2>3. tokens[Stop].type = "SegmentEnd"
      BY <1>3, <1>4, <1>7, <2>2 DEF Position
    <2>4. Start(tokens, n + 1) = Stop + 1
      BY <1>2, <1>9, <1>10, <2>1 DEF Start, cl, c
    <2> QED
      BY <1>9, <2>3, <2>4 DEF cl
  <1>11. CASE n = c
    <2>1. Start(tokens, n + 1) = Len(tokens)
      BY <1>1, <1>11 DEF Start, cl, c
    <2>2. \A y \in C : y <= Stop
      <3> TAKE y \in C
      <3>1. Rank(C, y) \in 1 .. c /\ cl[Rank(C, y)] = y
        BY <1>1
      <3>2. Rank(C, y) < n \/ Rank(C, y) = n
        BY <1>1, <1>11, <3>1
      <3>3. y < Stop \/ y = Stop
        BY <1>1, <1>2, <1>9, <3>1, <3>2
      <3> QED
        BY <1>1, <1>3, <3>3
    <2>3. CASE tokens[Stop].type # "SegmentEnd"
      <3>1. Stop = Len(tokens)
        BY <1>3, <1>4, <1>7, <2>3 DEF Position
      <3> QED
        BY <1>9, <2>1, <2>3, <3>1 DEF cl
    <2>4. CASE tokens[Stop].type = "SegmentEnd"
      <3>1. Stop # Len(tokens)
        BY <2>4, StreamFacts DEF Ending
      <3>2. Stop < Len(tokens)
        BY <1>3, <3>1
      <3>3. Len(tokens) \in Position /\ Len(tokens) - 1 \in Position
        BY <1>3, <3>2 DEF Position
      <3>4. Len(tokens) \notin C
        BY <1>3, <2>2, <3>2
      <3>5. tokens[Len(tokens) - 1].type = "SegmentEnd"
        BY <1>3, <1>4, <3>2, <3>3, <3>4
      <3>6. Len(tokens) - 1 \in C
        BY <1>4, <3>3, <3>5
      <3>7. Stop + 1 = Len(tokens)
        BY <1>3, <2>2, <3>2, <3>6
      <3> QED
        BY <1>9, <2>1, <2>4, <3>7 DEF cl
    <2> QED
      BY <2>3, <2>4
  <1> QED
    BY <1>1, <1>2, <1>10, <1>11

-------------------------------------------------------------------------------
(* The elements and components the parser finds in a segment are those of   *)
(* the stream *)

(* The data elements of the segment in order, and where each ends.          *)
LEMMA OpeningsInOrder ==
    ASSUME TypeOK, StreamOK
    PROVE  LET O  == Openings(Stop - 1)
               op == InOrder(O)
               m  == Cardinality(O)
           IN  /\ O \in SUBSET Nat /\ IsFiniteSet(O) /\ m \in Nat
               /\ O \subseteq First .. Stop - 1
               /\ Len(op) = m /\ DOMAIN op = 1 .. m
               /\ \A n \in 1 .. m : op[n] \in O
               /\ \A n \in 1 .. m : Cardinality(Openings(op[n])) = n
               /\ \A x \in O : /\ Cardinality(Openings(x)) \in 1 .. m
                               /\ op[Cardinality(Openings(x))] = x
               /\ \A l, n \in 1 .. m : l < n => op[l] < op[n]
  <1> DEFINE O == Openings(Stop - 1)
             op == InOrder(O)
             m == Cardinality(O)
  <1>1. First \in Nat /\ Stop \in Nat
    BY SegmentBounds DEF Position
  <1>2. O \subseteq First .. Stop - 1 /\ O \in SUBSET Nat
    BY <1>1 DEF Openings
  <1>3. IsFiniteSet(O)
    <2>1. IsFiniteSet(First .. Stop - 1)
      BY <1>1, FS_Interval
    <2> HIDE DEF O
    <2> QED
      BY <1>2, <2>1, FS_Subset
  <1>4. ASSUME NEW x \in O
        PROVE  Cardinality(Openings(x)) = Rank(O, x)
    <2>1. x \in Nat /\ x <= Stop - 1 /\ x \in First .. Stop - 1
      BY <1>1, <1>2
    <2>2. Openings(x) = {y \in O : y <= x}
      BY <1>1, <2>1 DEF Openings
    <2> QED
      BY <2>2 DEF Rank
  <1> HIDE DEF O
  <1>5. /\ m \in Nat /\ op \in [1 .. m -> O] /\ Len(op) = m
        /\ \A n \in 1 .. m : Rank(O, op[n]) = n
        /\ \A x \in O : op[Rank(O, x)] = x /\ Rank(O, x) \in 1 .. m
        /\ \A l, n \in 1 .. m : l < n => op[l] < op[n]
    BY <1>2, <1>3, InOrderIs, RankGrows
  <1> HIDE DEF op, m
  <1>6. \A n \in 1 .. m : op[n] \in O
    BY <1>5
  <1>7. \A n \in 1 .. m : Cardinality(Openings(op[n])) = n
    BY <1>4, <1>5, <1>6
  <1>8. \A x \in O : Cardinality(Openings(x)) \in 1 .. m /\ op[Cardinality(Openings(x))] = x
    BY <1>4, <1>5
  <1> QED
    BY <1>2, <1>3, <1>5, <1>6, <1>7, <1>8 DEF O, op, m

\* the elements of the segment the parser is about to read, by the reference
HereElements == Elements(tokens, First, Stop - 1)

\* where element e of the segment opens and ends, by the reference
OpenAt(e) == InOrder(Openings(Stop - 1))[e]

EndAt(e) == IF e < ElementCount THEN OpenAt(e + 1) - 1 ELSE Stop - 1

(* The elements of the reference, one for each opening: none is empty.      *)
LEMMA ElementIs ==
    ASSUME TypeOK, StreamOK
    PROVE  /\ ElementCount \in Nat
           /\ HereElements \in Seq(Seq(Value))
           /\ Len(HereElements) = ElementCount
           /\ \A e \in 1 .. ElementCount :
                  /\ OpenAt(e) \in First .. Stop - 1
                  /\ EndAt(e) \in OpenAt(e) .. Stop - 1
                  /\ Len(HereElements[e]) = EndAt(e) - OpenAt(e) + 1
                  /\ \A c \in 1 .. Len(HereElements[e]) :
                        HereElements[e][c] = tokens[OpenAt(e) + c - 1].value
  <1> DEFINE O == Openings(Stop - 1)
             op == InOrder(O)
             m == Cardinality(O)
  <1>1. First \in Nat /\ Stop \in Nat /\ First >= 1 /\ Stop <= Len(tokens) /\ Len(tokens) \in Nat
    BY SegmentBounds, StreamFacts DEF Position
  <1>2. /\ m \in Nat /\ m = ElementCount /\ Len(op) = m /\ DOMAIN op = 1 .. m
        /\ \A n \in 1 .. m : op[n] \in First .. Stop - 1
        /\ \A l, n \in 1 .. m : l < n => op[l] < op[n]
        /\ \A n \in 1 .. m : op[n] = OpenAt(n)
    BY OpeningsInOrder DEF ElementCount, OpenAt
  <1>3. HereElements = [n \in DOMAIN op |->
            [j \in 1 .. (IF n < Len(op) THEN op[n + 1] - 1 ELSE Stop - 1) - op[n] + 1 |->
                 tokens[op[n] + j - 1].value]]
    BY DEF HereElements, Elements, Openings, OpensElement
  <1> HIDE DEF O, op, m
  <1>4. \A n \in 1 .. m : EndAt(n) = IF n < Len(op) THEN op[n + 1] - 1 ELSE Stop - 1
    BY <1>1, <1>2 DEF EndAt
  <1>5. ASSUME NEW n \in 1 .. m
        PROVE  EndAt(n) \in OpenAt(n) .. Stop - 1
    <2>1. CASE n < m
      <3>1. n + 1 \in 1 .. m /\ op[n] < op[n + 1]
        BY <1>2, <2>1
      <3>2. op[n + 1] \in First .. Stop - 1 /\ op[n] \in First .. Stop - 1
        BY <1>2, <3>1
      <3> QED
        BY <1>1, <1>2, <1>4, <2>1, <3>1, <3>2
    <2>2. CASE ~(n < m)
      <3>1. op[n] \in First .. Stop - 1
        BY <1>2
      <3> QED
        BY <1>1, <1>2, <1>4, <2>2, <3>1
    <2> QED
      BY <2>1, <2>2
  <1>6. HereElements = [n \in 1 .. m |->
            [j \in 1 .. EndAt(n) - OpenAt(n) + 1 |-> tokens[OpenAt(n) + j - 1].value]]
    BY <1>2, <1>3, <1>4
  <1>7. ASSUME NEW n \in 1 .. m
        PROVE  /\ HereElements[n] \in Seq(Value)
               /\ Len(HereElements[n]) = EndAt(n) - OpenAt(n) + 1
               /\ \A c \in 1 .. Len(HereElements[n]) :
                     HereElements[n][c] = tokens[OpenAt(n) + c - 1].value
    <2> DEFINE k == EndAt(n) - OpenAt(n) + 1
               v(j) == tokens[OpenAt(n) + j - 1].value
    <2>1. HereElements[n] = [j \in 1 .. k |-> v(j)]
      BY <1>6
    <2>0. OpenAt(n) \in First .. Stop - 1
      BY <1>2
    <2>2. k \in Nat
      BY <1>1, <1>5, <2>0
    <2>3. \A j \in 1 .. k : v(j) \in Value
      <3> TAKE j \in 1 .. k
      <3>1. OpenAt(n) + j - 1 \in Position
        BY <1>1, <1>5, <2>0 DEF Position
      <3> QED
        BY <3>1, StreamFacts DEF TokenRecord
    <2> HIDE DEF k, v
    <2>4. [j \in 1 .. k |-> v(j)] \in Seq(Value) /\ Len([j \in 1 .. k |-> v(j)]) = k
      BY <2>2, <2>3
    <2>5. \A c \in 1 .. k : HereElements[n][c] = v(c)
      BY <2>1
    <2> QED
      BY <2>1, <2>4, <2>5 DEF k, v
  <1>8. DOMAIN HereElements = 1 .. m /\ HereElements = [n \in 1 .. m |-> HereElements[n]]
    BY <1>6
  <1>9. HereElements \in Seq(Seq(Value)) /\ Len(HereElements) = m
    <2>1. HereElements \in [1 .. m -> Seq(Value)]
      BY <1>7, <1>8
    <2> HIDE DEF HereElements
    <2> QED
      BY <1>2, <2>1
  <1> QED
    BY <1>2, <1>5, <1>7, <1>9

(* Indexing by element and component agrees (parser.go:244-261).            *)
LEMMA ComponentIs ==
    ASSUME TypeOK, StreamOK, NEW e \in Nat \ {0}, NEW c \in Nat \ {0}
    PROVE  /\ Has(e, c) <=> e <= Len(HereElements) /\ c <= Len(HereElements[e])
           /\ Has(e, c) => Component(e, c) = HereElements[e][c]
           /\ ~Has(e, c) => Component(e, c) = Empty
  <1> DEFINE O == Openings(Stop - 1)
             m == ElementCount
  <1>1. /\ First \in Nat /\ Stop \in Nat /\ m \in Nat
        /\ Len(HereElements) = m
        /\ \A n \in 1 .. m : /\ OpenAt(n) \in First .. Stop - 1
                             /\ EndAt(n) \in OpenAt(n) .. Stop - 1
                             /\ Len(HereElements[n]) = EndAt(n) - OpenAt(n) + 1
                             /\ \A k \in 1 .. Len(HereElements[n]) :
                                   HereElements[n][k] = tokens[OpenAt(n) + k - 1].value
    BY SegmentBounds, ElementIs DEF Position
  <1>2. /\ O \subseteq First .. Stop - 1
        /\ \A n \in 1 .. m : OpenAt(n) \in O /\ Cardinality(Openings(OpenAt(n))) = n
        /\ \A x \in O : Cardinality(Openings(x)) \in 1 .. m /\ OpenAt(Cardinality(Openings(x))) = x
        /\ \A l, n \in 1 .. m : l < n => OpenAt(l) < OpenAt(n)
    BY OpeningsInOrder DEF OpenAt, ElementCount
  <1>3. \A i \in First .. Stop - 1 : i \in O <=> OpensElement(i)
    BY DEF Openings
  <1> HIDE DEF O, m
  <1>4. ASSUME NEW i \in Opening(e, c)
        PROVE  e \in 1 .. m /\ i = OpenAt(e) /\ i + c - 1 <= EndAt(e)
    <2>1. /\ i \in O /\ Cardinality(Openings(i)) = e /\ i + c - 1 < Stop
          /\ \A k \in i + 1 .. i + c - 1 : ~OpensElement(k)
      BY DEF Opening, O
    <2>2. e \in 1 .. m /\ i = OpenAt(e) /\ i \in First .. Stop - 1
      BY <1>2, <2>1
    <2>3. CASE e < m
      <3>1. e + 1 \in 1 .. m /\ OpenAt(e) < OpenAt(e + 1)
        BY <1>1, <1>2, <2>2, <2>3
      <3>2. OpenAt(e + 1) \in First .. Stop - 1 /\ OpensElement(OpenAt(e + 1))
        BY <1>1, <1>2, <1>3, <3>1
      <3>3. ~(OpenAt(e + 1) \in i + 1 .. i + c - 1)
        BY <2>1, <3>2
      <3>4. i + c - 1 <= OpenAt(e + 1) - 1
        <4>1. i \in Nat /\ OpenAt(e + 1) \in Nat /\ i < OpenAt(e + 1)
          <5>1. i \in Nat
            BY <1>1, <2>2
          <5>2. OpenAt(e + 1) \in Nat
            BY <1>1, <3>2
          <5> QED
            BY <2>2, <3>1, <5>1, <5>2
        <4> QED
          BY <3>3, <4>1
      <3> QED
        BY <2>2, <2>3, <3>4 DEF EndAt, m
    <2>4. CASE ~(e < m)
      BY <1>1, <2>1, <2>2, <2>4 DEF EndAt, m
    <2> QED
      BY <2>3, <2>4
  <1>5. ASSUME e \in 1 .. m, OpenAt(e) + c - 1 <= EndAt(e)
        PROVE  OpenAt(e) \in Opening(e, c)
    <2> DEFINE i == OpenAt(e)
    <2>1. i \in O /\ Cardinality(Openings(i)) = e /\ i \in First .. Stop - 1
      BY <1>1, <1>2, <1>5
    <2>2. EndAt(e) \in i .. Stop - 1
      BY <1>1, <1>5
    <2>3. i + c - 1 < Stop
      BY <1>1, <1>5, <2>1, <2>2
    <2>4. ASSUME NEW k \in i + 1 .. i + c - 1, OpensElement(k)
          PROVE  FALSE
      <3>1. k \in First .. Stop - 1 /\ i < k /\ k <= EndAt(e) /\ k \in Nat /\ i \in Nat
        <4>1. i \in Nat /\ EndAt(e) \in Nat /\ First <= i /\ EndAt(e) <= Stop - 1
          BY <1>1, <2>1, <2>2
        <4>2. k \in Nat /\ i < k /\ k <= i + c - 1 /\ i + c - 1 <= EndAt(e)
          BY <1>5, <4>1
        <4> HIDE DEF i
        <4> QED
          BY <1>1, <4>1, <4>2
      <3>2. k \in O
        BY <1>3, <2>4, <3>1
      <3> DEFINE r == Cardinality(Openings(k))
      <3>3. r \in 1 .. m /\ OpenAt(r) = k
        BY <1>2, <3>2
      <3> HIDE DEF r
      <3>4. ~(r <= e)
        <4>1. r < e => OpenAt(r) < OpenAt(e)
          BY <1>2, <1>5, <3>3
        <4>2. r # e
          BY <3>1, <3>3
        <4> QED
          BY <1>1, <3>1, <3>3, <4>1, <4>2
      <3>5. e < m /\ e + 1 \in 1 .. m /\ e + 1 <= r
        BY <1>1, <1>5, <3>3, <3>4
      <3>6. OpenAt(e + 1) <= k
        <4>1. e + 1 < r => OpenAt(e + 1) < OpenAt(r)
          BY <1>2, <3>3, <3>5
        <4>2. OpenAt(e + 1) \in Nat /\ r \in Nat
          <5>1. OpenAt(e + 1) \in First .. Stop - 1
            BY <1>1, <3>5
          <5>2. OpenAt(e + 1) \in Nat
            BY <1>1, <5>1
          <5> QED
            BY <1>1, <3>3, <5>2
        <4>3. e + 1 < r \/ e + 1 = r
          BY <3>5, <4>2
        <4> QED
          BY <3>1, <3>3, <4>1, <4>2, <4>3
      <3>7. EndAt(e) = OpenAt(e + 1) - 1 /\ OpenAt(e + 1) \in Nat
        BY <1>1, <3>5 DEF EndAt, m
      <3> QED
        BY <3>1, <3>6, <3>7
    <2> QED
      BY <2>1, <2>3, <2>4 DEF Opening, O
  <1>6. Has(e, c) <=> e \in 1 .. m /\ OpenAt(e) + c - 1 <= EndAt(e)
    BY <1>4, <1>5 DEF Has
  <1>7. ASSUME e \in 1 .. m
        PROVE  OpenAt(e) + c - 1 <= EndAt(e) <=> c <= Len(HereElements[e])
    <2>1. OpenAt(e) \in Nat /\ EndAt(e) \in OpenAt(e) .. Stop - 1
      BY <1>1, <1>7
    <2>2. EndAt(e) \in Nat
      BY <1>1, <2>1
    <2>3. Len(HereElements[e]) = EndAt(e) - OpenAt(e) + 1
      BY <1>1, <1>7
    <2> QED
      BY <2>1, <2>2, <2>3
  <1>8. Has(e, c) <=> e <= Len(HereElements) /\ c <= Len(HereElements[e])
    <2>1. e \in 1 .. m <=> e <= Len(HereElements)
      BY <1>1
    <2> QED
      BY <1>6, <1>7, <2>1
  <1>9. ASSUME Has(e, c)
        PROVE  Component(e, c) = HereElements[e][c]
    <2>1. PICK i \in Opening(e, c) : i = (CHOOSE x \in Opening(e, c) : TRUE)
      BY <1>9 DEF Has
    <2>2. i = OpenAt(e) /\ e \in 1 .. m
      BY <1>4
    <2>3. Component(e, c) = tokens[i + c - 1].value
      BY <1>9, <2>1 DEF Component
    <2>4. c \in 1 .. Len(HereElements[e])
      BY <1>1, <1>8, <1>9, <2>2
    <2> QED
      BY <1>1, <2>2, <2>3, <2>4
  <1>10. ~Has(e, c) => Component(e, c) = Empty
    BY DEF Component
  <1> QED
    BY <1>8, <1>9, <1>10

-------------------------------------------------------------------------------
(* The parser before a segment of the interchange *)

\* the advice is the one segment that is not part of the interchange
Skipped(stream) ==
    IF AllSegments(stream) # <<>> /\ AllSegments(stream)[1].tag = "UNA" THEN 1 ELSE 0

\* the parser has read the segments before segment k, and no more
Before(k) == at = Start(tokens, k + Skipped(tokens))

Tags == {"UNA", "UNB", "UNH", "UNT", "UNZ", "LOC"}

(* The segments of the interchange are those of the stream, but the advice. *)
LEMMA SegmentsIs ==
    ASSUME TypeOK, StreamOK
    PROVE  /\ Len(AllSegments(tokens)) = Len(Closing(tokens))
           /\ Len(Closing(tokens)) \in Nat
           /\ Skipped(tokens) \in {0, 1}
           /\ Len(Segments(tokens)) = Len(Closing(tokens)) - Skipped(tokens)
           /\ Len(Segments(tokens)) \in Nat
           /\ \A k \in 1 .. Len(Segments(tokens)) :
                  Segments(tokens)[k] = AllSegments(tokens)[k + Skipped(tokens)]
  <1> DEFINE cl == Closing(tokens)
             c == Len(cl)
             seg(n) == Segment(tokens, IF n = 1 THEN 1 ELSE cl[n - 1] + 1, cl[n])
             all == AllSegments(tokens)
             A == {seg(n) : n \in 1 .. c}
             s == Skipped(tokens)
  <1>1. c \in Nat /\ DOMAIN cl = 1 .. c
    BY ClosingIs, InOrderIs
  <1>2. all = [n \in 1 .. c |-> seg(n)]
    BY <1>1 DEF AllSegments
  <1>3. Segments(tokens) = SubSeq(all, IF all # <<>> /\ all[1].tag = "UNA" THEN 2 ELSE 1, Len(all))
    BY DEF Segments
  <1>4. s = IF all # <<>> /\ all[1].tag = "UNA" THEN 1 ELSE 0
    BY DEF Skipped
  <1> HIDE DEF c, cl, seg, all, s
  <1>5. all \in [1 .. c -> A]
    BY <1>2
  <1>6. all \in Seq(A) /\ Len(all) = c
    <2> HIDE DEF A
    <2> QED
      BY <1>1, <1>5
  <1>7. s \in {0, 1} /\ (s = 1 => c >= 1)
    BY <1>1, <1>4, <1>6
  <1>8. Segments(tokens) = SubSeq(all, s + 1, c)
    BY <1>3, <1>4, <1>6
  <1> HIDE DEF A
  <1>9. /\ Len(SubSeq(all, s + 1, c)) = c - s
        /\ \A k \in 1 .. c - s : SubSeq(all, s + 1, c)[k] = all[k + s]
    <2>1. \A k \in 1 .. c - s : (s + 1) + k - 1 = k + s /\ (s + 1) + k - 1 \in 1 .. c
      BY <1>1, <1>7
    <2>2. (c - s) \in Nat /\ c + 1 - (s + 1) = c - s
      BY <1>1, <1>7
    <2> QED
      BY <1>1, <1>6, <1>7, <2>1, <2>2
  <1> QED
    BY <1>1, <1>6, <1>7, <1>8, <1>9 DEF c, cl, all, s

(* No segment begins with an end token.                                     *)
LEMMA NotAtEnd ==
    ASSUME TypeOK, StreamOK, NEW n \in 1 .. Len(Closing(tokens)), at = Start(tokens, n)
    PROVE  currentToken.type \notin Ending
  <1> SUFFICES ASSUME tokens[at].type \in Ending
               PROVE  FALSE
    BY DEF currentToken
  <1> DEFINE C == Closings(tokens)
             cl == Closing(tokens)
  <1>1. Stop = at
    <2>1. First = at /\ ~IsData(at)
      BY DEF First, currentToken, IsData, Ending
    <2>2. at \in Nat /\ Stop \in Nat /\ at <= Stop
      BY StopCloses DEF Position
    <2>3. ~(at \in First .. Stop - 1)
      BY <2>1, StopIs
    <2> QED
      BY <2>1, <2>2, <2>3
  <1>2. Len(cl) \in Nat /\ (\A m \in 1 .. Len(cl) : cl[m] \in C) /\ C \subseteq Position
    BY ClosingIs, InOrderIs
  <1>3. at \in C
    BY <1>1, <1>2, ReadsSegment
  <1>4. at > 1 /\ tokens[at - 1].type # "SegmentEnd" /\ at = Len(tokens)
    BY <1>3 DEF Closings, Ending
  <1>5. n # 1 /\ n - 1 \in 1 .. Len(cl) /\ at = cl[n - 1] + 1
    BY <1>2, <1>4 DEF Start
  <1>6. cl[n - 1] \in C /\ cl[n - 1] \in Position
    BY <1>2, <1>5
  <1>7. cl[n - 1] = at - 1 /\ cl[n - 1] # Len(tokens)
    BY <1>4, <1>5, <1>6 DEF Position
  <1>8. tokens[cl[n - 1]].type = "SegmentEnd"
    BY <1>6, <1>7 DEF Closings
  <1> QED
    BY <1>4, <1>7, <1>8

(* Before segment k the parser sees its tag, its elements and components.   *)
LEMMA SeesSegment ==
    ASSUME TypeOK, StreamOK, NEW k \in 1 .. Len(Segments(tokens)), Before(k)
    PROVE  LET seg == Segments(tokens)[k]
           IN  /\ currentToken.type \notin Ending
               /\ \A tag \in Tags : isSegmentTag(tag) <=> seg.tag = tag
               /\ Len(seg.elements) = ElementCount /\ ElementCount \in Nat
               /\ \A e \in 1 .. ElementCount : Has(e, 1)
               /\ \A e, c \in Nat \ {0} :
                      /\ Has(e, c) <=> e <= Len(seg.elements) /\ c <= Len(seg.elements[e])
                      /\ Component(e, c) = ValueAt(seg, e, c)
                      /\ Has(e, c) => Component(e, c) = seg.elements[e][c]
  <1> DEFINE n == k + Skipped(tokens)
             seg == Segments(tokens)[k]
  <1>1. n \in 1 .. Len(Closing(tokens)) /\ seg = AllSegments(tokens)[n]
    BY SegmentsIs
  <1>2. at = Start(tokens, n)
    BY DEF Before
  <1> HIDE DEF n, seg
  <1>3. DOMAIN Closing(tokens) = 1 .. Len(Closing(tokens))
    BY ClosingIs, InOrderIs
  <1>4. seg = Segment(tokens, IF n = 1 THEN 1 ELSE Closing(tokens)[n - 1] + 1, Closing(tokens)[n])
    BY <1>1, <1>3 DEF AllSegments
  <1>5. seg = Segment(tokens, at, Stop)
    <2>1. Closing(tokens)[n] = Stop
      BY <1>1, <1>2, ReadsSegment
    <2>2. at = IF n = 1 THEN 1 ELSE Closing(tokens)[n - 1] + 1
      <3>1. ~(n > Len(Closing(tokens)))
        BY <1>1, SegmentsIs
      <3> QED
        BY <1>2, <3>1 DEF Start
    <2> QED
      BY <1>4, <2>1, <2>2
  <1>6. /\ seg.tag = IF currentToken.type = "SegmentTag" THEN currentToken.value ELSE Empty
        /\ seg.elements = HereElements
    BY <1>5 DEF Segment, HereElements, First, currentToken
  <1>7. currentToken.type \notin Ending
    BY <1>1, <1>2, NotAtEnd
  <1>8. \A tag \in Tags : isSegmentTag(tag) <=> seg.tag = tag
    <2>1. currentToken \in TokenRecord
      BY StreamFacts DEF TypeOK, currentToken
    <2>2. Empty \notin Tags
      BY ParserAssumption DEF Tags
    <2> QED
      BY <1>6, <2>1, <2>2 DEF isSegmentTag, TokenRecord
  <1>9. /\ Len(seg.elements) = ElementCount /\ ElementCount \in Nat
        /\ \A e \in 1 .. ElementCount : Len(seg.elements[e]) \in Nat /\ Len(seg.elements[e]) >= 1
    <2>1. \A e \in 1 .. ElementCount : Len(HereElements[e]) \in Nat /\ Len(HereElements[e]) >= 1
      <3> TAKE e \in 1 .. ElementCount
      <3>1. /\ OpenAt(e) \in First .. Stop - 1
            /\ EndAt(e) \in OpenAt(e) .. Stop - 1
            /\ Len(HereElements[e]) = EndAt(e) - OpenAt(e) + 1
        BY ElementIs
      <3>2. First \in Nat /\ Stop \in Nat
        BY SegmentBounds DEF Position
      <3> QED
        BY <3>1, <3>2
    <2> QED
      BY <1>6, <2>1, ElementIs
  <1>10. ASSUME NEW e \in Nat \ {0}, NEW c \in Nat \ {0}
         PROVE  /\ Has(e, c) <=> e <= Len(seg.elements) /\ c <= Len(seg.elements[e])
                /\ Component(e, c) = ValueAt(seg, e, c)
                /\ Has(e, c) => Component(e, c) = seg.elements[e][c]
    BY <1>6, ComponentIs DEF ValueAt
  <1>11. \A e \in 1 .. ElementCount : Has(e, 1)
    BY <1>9, <1>10
  <1> QED
    BY <1>7, <1>8, <1>9, <1>10, <1>11 DEF seg

(* Behind the last segment it sees the end.                                 *)
LEMMA SeesEnd ==
    ASSUME TypeOK, StreamOK, NEW k \in Nat, k > Len(Segments(tokens)), Before(k)
    PROVE  at = Len(tokens) /\ currentToken.type \in Ending /\ \A tag : ~isSegmentTag(tag)
  <1>1. k + Skipped(tokens) > Len(Closing(tokens))
    BY SegmentsIs
  <1>2. at = Len(tokens)
    BY <1>1 DEF Before, Start
  <1>3. currentToken.type \in Ending
    BY <1>2, StreamFacts DEF currentToken
  <1> QED
    BY <1>2, <1>3 DEF isSegmentTag, Ending

(* Reading a segment leads to the next one.                                 *)
LEMMA ReadsOn ==
    ASSUME TypeOK, StreamOK, NEW k \in 1 .. Len(Segments(tokens)), Before(k),
           ReadSegment, tokens' = tokens
    PROVE  Before(k + 1)'
  <1> DEFINE n == k + Skipped(tokens)
  <1>1. n \in 1 .. Len(Closing(tokens)) /\ (k + 1) + Skipped(tokens) = n + 1
    BY SegmentsIs
  <1>2. at' = Start(tokens, n + 1)
    BY <1>1, ReadsSegment DEF ReadSegment, Before
  <1>3. at' = Start(tokens', (k + 1) + Skipped(tokens'))
    BY <1>1, <1>2
  <1> QED
    BY <1>3 DEF Before

(* The service advice is there exactly when the parser sees it, and         *)
(* skipping it leads to the first segment of the interchange.               *)
LEMMA AdviceIs ==
    ASSUME TypeOK, StreamOK, at = 1
    PROVE  /\ ~isSegmentTag("UNA") => Before(1)
           /\ SkipAdvice => Before(1)'
  <1> DEFINE c == Len(Closing(tokens))
             all == AllSegments(tokens)
  <1>1. /\ c \in Nat /\ Len(all) = c /\ DOMAIN Closing(tokens) = 1 .. c
        /\ at \in Position /\ Len(tokens) \in Nat
        /\ Closing(tokens) = InOrder(Closings(tokens))
        /\ Cardinality(Closings(tokens)) = c /\ IsFiniteSet(Closings(tokens))
    BY SegmentsIs, ClosingIs, InOrderIs DEF TypeOK
  <1>2. all = [n \in 1 .. c |-> Segment(tokens, IF n = 1 THEN 1 ELSE Closing(tokens)[n - 1] + 1,
                                        Closing(tokens)[n])]
    BY <1>1 DEF AllSegments
  <1> HIDE DEF all, c
  <1>3. CASE c = 0
    <2>1. Closings(tokens) = {}
      BY <1>1, <1>3, FS_EmptySet
    <2>2. at = Len(tokens)
      <3>1. Len(tokens) \notin Closings(tokens) /\ Len(tokens) - 1 \notin Closings(tokens)
        BY <2>1
      <3>2. Len(tokens) >= 1
        BY StreamFacts DEF Position
      <3>3. ~(Len(tokens) > 1)
        <4> SUFFICES ASSUME Len(tokens) > 1
                     PROVE  FALSE
          OBVIOUS
        <4>1. Len(tokens) \in DOMAIN tokens /\ Len(tokens) - 1 \in DOMAIN tokens
          BY <1>1 DEF TypeOK
        <4> QED
          BY <3>1, <4>1 DEF Closings
      <3>4. PICK n \in Nat : n = Len(tokens)
        BY <1>1
      <3>5. n = 1
        BY <3>2, <3>3, <3>4
      <3> QED
        BY <3>4, <3>5
    <2>3. tokens[at].type \in Ending
      BY <2>2, StreamFacts
    <2>4. ~isSegmentTag("UNA")
      BY <2>3 DEF isSegmentTag, currentToken, Ending
    <2>5. Skipped(tokens) = 0
      BY <1>1, <1>2, <1>3 DEF Skipped, all
    <2>6. Before(1)
      BY <1>1, <1>3, <2>2, <2>5 DEF Before, Start, c
    <2> QED
      BY <2>4, <2>6 DEF SkipAdvice
  <1>4. CASE c >= 1
    <2>1. 1 \in 1 .. c /\ at = Start(tokens, 1)
      BY <1>1, <1>4 DEF Start, c
    <2>2. Closing(tokens)[1] = Stop
      BY <2>1, ReadsSegment DEF c
    <2>3. all[1] = Segment(tokens, 1, Stop)
      BY <1>2, <2>1, <2>2
    <2>4. all[1].tag = IF currentToken.type = "SegmentTag" THEN currentToken.value ELSE Empty
      BY <2>3 DEF Segment, currentToken
    <2>5. isSegmentTag("UNA") <=> all[1].tag = "UNA"
      <3>1. currentToken \in TokenRecord
        BY <1>1, StreamFacts DEF currentToken
      <3>2. Empty # "UNA"
        BY ParserAssumption
      <3> QED
        BY <2>4, <3>1, <3>2 DEF isSegmentTag, TokenRecord
    <2>6. Skipped(tokens) = IF isSegmentTag("UNA") THEN 1 ELSE 0
      <3>1. all # <<>>
        BY <1>1, <1>4
      <3> QED
        BY <2>5, <3>1 DEF Skipped, all
    <2>7. ~isSegmentTag("UNA") => Before(1)
      BY <2>1, <2>6 DEF Before
    <2>8. ASSUME SkipAdvice
          PROVE  Before(1)'
      <3>1. SkipStop = Stop
        <4>1. \A j \in Position :
                 (/\ j >= at
                  /\ ~(tokens[j].type \notin {"SegmentEnd"} \cup Ending)
                  /\ \A k \in at .. j - 1 : tokens[k].type \notin {"SegmentEnd"} \cup Ending)
                 <=> j = Stop
          <5> TAKE j \in Position
          <5>1. /\ Stop \in Position /\ at <= Stop
                /\ tokens[Stop].type \in {"SegmentEnd"} \cup Ending
                /\ \A k \in at .. Stop - 1 : tokens[k].type \notin {"SegmentEnd"} \cup Ending
            BY StopCloses
          <5>2. j \in Nat /\ Stop \in Nat /\ at \in Nat
            BY <1>1, <5>1 DEF Position
          <5>3. CASE j < Stop
            <6>1. j >= at => j \in at .. Stop - 1
              BY <5>2, <5>3
            <6> QED
              BY <5>1, <5>2, <5>3, <6>1
          <5>4. CASE Stop < j
            <6>1. Stop \in at .. j - 1
              BY <5>1, <5>2, <5>4
            <6> QED
              BY <5>1, <5>2, <5>4, <6>1
          <5>5. CASE j = Stop
            BY <5>1, <5>2, <5>5
          <5> QED
            BY <5>2, <5>3, <5>4, <5>5
        <4>2. SkipStop = CHOOSE j \in Position : j = Stop
          BY <4>1, Zenon DEF SkipStop
        <4> QED
          BY <4>2, StopCloses
      <3>2. at' = Start(tokens, 2) /\ tokens' = tokens /\ isSegmentTag("UNA")
        <4>1. Start(tokens, 1 + 1) = IF tokens[Stop].type = "SegmentEnd" THEN Stop + 1 ELSE Stop
          BY <2>1, ReadsSegment DEF c
        <4> QED
          BY <2>8, <3>1, <4>1 DEF SkipAdvice
      <3>3. at' = Start(tokens', 1 + Skipped(tokens'))
        BY <2>6, <3>2
      <3> QED
        BY <3>3 DEF Before
    <2> QED
      BY <2>7, <2>8
  <1> QED
    BY <1>1, <1>3, <1>4

-------------------------------------------------------------------------------
(* The messages of the first segments *)

(* Behind a segment that is no trailer there are as many messages as before *)
(* it.                                                                      *)
LEMMA NoTrailerNoMessage ==
    ASSUME NEW S, NEW k \in Nat, S[k].tag # "UNT"
    PROVE  /\ MessageTrailers(S, k + 1) = MessageTrailers(S, k)
           /\ MessagesUpTo(S, k + 1) = MessagesUpTo(S, k)
  <1>1. \A u \in Nat : u \in 2 .. (k + 1) - 1 <=> u \in 2 .. k - 1 \/ (u = k /\ k >= 2)
    OBVIOUS
  <1>2. 2 .. (k + 1) - 1 \subseteq Nat /\ 2 .. k - 1 \subseteq Nat
    OBVIOUS
  <1>3. MessageTrailers(S, k + 1) = MessageTrailers(S, k)
    BY <1>1, <1>2 DEF MessageTrailers
  <1> QED
    BY <1>3 DEF MessagesUpTo

(* Trailers are counted: there are finitely many before any segment.        *)
LEMMA TrailersFinite ==
    ASSUME NEW S, NEW k \in Nat
    PROVE  /\ MessageTrailers(S, k) \in SUBSET Nat
           /\ IsFiniteSet(MessageTrailers(S, k))
           /\ \A u \in MessageTrailers(S, k) : u < k
  <1>1. MessageTrailers(S, k) \subseteq 2 .. k - 1
    BY DEF MessageTrailers
  <1>2. IsFiniteSet(2 .. k - 1)
    BY FS_Interval
  <1> QED
    BY <1>1, <1>2, FS_Subset

(* As many messages as trailers (what parser.go:400 compares).              *)
LEMMA MessagesCounted ==
    ASSUME NEW S, NEW k \in Nat
    PROVE  /\ Len(MessagesUpTo(S, k)) = Cardinality(MessageTrailers(S, k))
           /\ Cardinality(MessageTrailers(S, k)) \in Nat
  <1> DEFINE t == InOrder(MessageTrailers(S, k))
             c == Cardinality(MessageTrailers(S, k))
             msg(n) == MessageBetween(S, IF n = 1 THEN 2 ELSE t[n - 1] + 1, t[n])
             M == {msg(n) : n \in 1 .. c}
  <1>1. c \in Nat /\ DOMAIN t = 1 .. c
    BY TrailersFinite, InOrderIs
  <1>2. MessagesUpTo(S, k) = [n \in 1 .. c |-> msg(n)]
    BY <1>1 DEF MessagesUpTo
  <1>3. MessagesUpTo(S, k) \in [1 .. c -> M]
    BY <1>2
  <1> HIDE DEF c, M
  <1>4. Len(MessagesUpTo(S, k)) = c
    BY <1>1, <1>3
  <1> QED
    BY <1>1, <1>4 DEF c

(* A trailer adds the message that began behind the trailer before it.      *)
LEMMA TrailerAddsMessage ==
    ASSUME NEW S, NEW k \in Nat, S[k].tag = "UNT",
           NEW h \in 2 .. k - 1, Opens(S, h),
           \A u \in h .. k - 1 : S[u].tag # "UNT"
    PROVE  MessagesUpTo(S, k + 1) = Append(MessagesUpTo(S, k), MessageBetween(S, h, k))
  <1> DEFINE T == MessageTrailers(S, k)
             U == MessageTrailers(S, k + 1)
             t == InOrder(T)
             u == InOrder(U)
             c == Cardinality(T)
             msgT(n) == MessageBetween(S, IF n = 1 THEN 2 ELSE t[n - 1] + 1, t[n])
             msgU(n) == MessageBetween(S, IF n = 1 THEN 2 ELSE u[n - 1] + 1, u[n])
  <1>1. U = T \cup {k}
    <2>1. \A v \in Nat : v \in 2 .. (k + 1) - 1 <=> v \in 2 .. k - 1 \/ v = k
      OBVIOUS
    <2>2. 2 .. (k + 1) - 1 \subseteq Nat /\ 2 .. k - 1 \subseteq Nat
      OBVIOUS
    <2> QED
      BY <2>1, <2>2 DEF MessageTrailers
  <1>2. /\ T \in SUBSET Nat /\ IsFiniteSet(T) /\ U \in SUBSET Nat /\ IsFiniteSet(U)
        /\ \A v \in T : v < k
    BY TrailersFinite
  <1>3. /\ c \in Nat /\ DOMAIN t = 1 .. c /\ \A n \in 1 .. c : t[n] \in T
        /\ \A v \in T : Rank(T, v) \in 1 .. c /\ t[Rank(T, v)] = v
        /\ \A l, n \in 1 .. c : l < n => t[l] < t[n]
    <2> HIDE DEF T
    <2> QED
      BY <1>2, InOrderIs, RankGrows
  <1>4. /\ Cardinality(U) = c + 1
        /\ \A n \in 1 .. c : u[n] = t[n]
        /\ u[c + 1] = k
    <2> HIDE DEF T, U
    <2> QED
      BY <1>1, <1>2, InOrderAppend
  <1>5. DOMAIN u = 1 .. c + 1
    <2>1. DOMAIN u = 1 .. Cardinality(U)
      BY <1>2, InOrderIs
    <2> QED
      BY <1>4, <2>1
  <1>6. MessagesUpTo(S, k) = [n \in 1 .. c |-> msgT(n)]
    BY <1>3 DEF MessagesUpTo
  <1>7. MessagesUpTo(S, k + 1) = [n \in 1 .. c + 1 |-> msgU(n)]
    BY <1>5 DEF MessagesUpTo
  <1>8. \A v \in T : v \in 2 .. k - 1 /\ S[v].tag = "UNT"
    BY DEF MessageTrailers
  <1>9. h = 2 \/ h - 1 \in T
    BY DEF MessageTrailers, Opens
  <1> HIDE DEF T, U, t, u, c
  <1>10. \A n \in 1 .. c : msgU(n) = msgT(n)
    <2> TAKE n \in 1 .. c
    <2>1. n # 1 => n - 1 \in 1 .. c
      BY <1>3
    <2>2. n # 1 => u[n - 1] = t[n - 1]
      BY <1>4, <2>1
    <2> QED
      BY <1>4, <2>2
  <1>11. msgU(c + 1) = MessageBetween(S, h, k)
    <2>0. c + 1 \in 1 .. c + 1 /\ (c + 1) - 1 = c
      BY <1>3
    <2>1. \A v \in T : v < h
      BY <1>8
    <2>2. CASE c = 0
      <3>1. T = {}
        BY <1>3, <2>2
      <3>2. h = 2
        BY <1>9, <3>1
      <3> QED
        BY <1>4, <2>2, <3>2
    <2>3. CASE c # 0
      <3>1. c \in 1 .. c /\ t[c] \in T
        BY <1>3, <2>3
      <3>2. h # 2
        BY <1>8, <2>1, <3>1
      <3>3. h - 1 \in T
        BY <1>9, <3>2
      <3> DEFINE r == Rank(T, h - 1)
      <3>4. r \in 1 .. c /\ t[r] = h - 1
        BY <1>3, <3>3
      <3> HIDE DEF r
      <3>5. r = c
        <4>1. r < c => t[r] < t[c]
          BY <1>3, <3>1, <3>4
        <4>2. t[c] < h /\ t[c] \in Nat
          BY <1>2, <2>1, <3>1
        <4> QED
          BY <1>3, <3>4, <4>1, <4>2
      <3>6. u[(c + 1) - 1] + 1 = h /\ u[c + 1] = k
        BY <1>4, <2>0, <3>1, <3>4, <3>5
      <3>7. c + 1 # 1
        BY <1>3, <2>3
      <3> QED
        BY <3>6, <3>7
    <2> QED
      BY <2>2, <2>3
  <1> DEFINE last == MessageBetween(S, h, k)
             M == {msgT(n) : n \in 1 .. c} \cup {last}
             s == MessagesUpTo(S, k)
             w == MessagesUpTo(S, k + 1)
  <1>12. s \in [1 .. c -> M] /\ last \in M
    BY <1>6
  <1>13. w \in [1 .. c + 1 -> M] /\ w[c + 1] = last /\ \A n \in 1 .. c : w[n] = s[n]
    <2>1. \A n \in 1 .. c + 1 : n \in 1 .. c \/ n = c + 1
      BY <1>3
    <2>2. \A n \in 1 .. c + 1 : msgU(n) \in M
      BY <1>10, <1>11, <2>1
    <2>3. c + 1 \in 1 .. c + 1 /\ \A n \in 1 .. c : n \in 1 .. c + 1
      BY <1>3
    <2> QED
      BY <1>6, <1>7, <1>10, <1>11, <2>2, <2>3
  <1> HIDE DEF last, M, s, w
  <1>14. s \in Seq(M) /\ Len(s) = c /\ w \in Seq(M) /\ Len(w) = c + 1
    BY <1>3, <1>12, <1>13
  <1>15. w = Append(s, last)
    <2>1. /\ Append(s, last) \in Seq(M) /\ Len(Append(s, last)) = c + 1
          /\ Append(s, last)[c + 1] = last
          /\ \A n \in 1 .. c : Append(s, last)[n] = s[n]
      BY <1>12, <1>14, AppendProperties
    <2>2. \A n \in 1 .. c + 1 : w[n] = Append(s, last)[n]
      <3>1. \A n \in 1 .. c + 1 : n \in 1 .. c \/ n = c + 1
        BY <1>3
      <3> QED
        BY <1>13, <2>1, <3>1
    <2> QED
      BY <1>14, <2>1, <2>2, SeqEqual
  <1> QED
    BY <1>15 DEF w, s, last

-------------------------------------------------------------------------------
(* The message under construction *)

\* segment i names the subscription of its message
Names(S, i) == /\ S[i].tag = "LOC"
               /\ ValueAt(S[i], 1, 1) = "172"
               /\ Len(S[i].elements) > 1

(* A message that was just opened names nothing.                            *)
LEMMA MessageOpened ==
    ASSUME NEW S, NEW h \in Nat
    PROVE  MessageBetween(S, h, h + 1) =
               [reference    |-> ValueAt(S[h], 1, 1),
                type         |-> ValueAt(S[h], 2, 1),
                subscription |-> Empty]
  <1>1. h + 1 .. (h + 1) - 1 = {}
    OBVIOUS
  <1> QED
    BY <1>1 DEF MessageBetween

(* A segment of its body renames it, or does not.                           *)
LEMMA MessageGoesOn ==
    ASSUME NEW S, NEW h \in Nat, NEW k \in Nat, h < k
    PROVE  MessageBetween(S, h, k + 1) =
               IF Names(S, k)
               THEN [MessageBetween(S, h, k) EXCEPT !.subscription = ValueAt(S[k], 2, 1)]
               ELSE MessageBetween(S, h, k)
  <1> DEFINE N(z) == {i \in h + 1 .. z - 1 : /\ S[i].tag = "LOC"
                                             /\ ValueAt(S[i], 1, 1) = "172"
                                             /\ Len(S[i].elements) > 1}
             latest(z) == CHOOSE i \in N(z) : \A j \in N(z) : j <= i
             sub(z) == IF N(z) = {} THEN Empty ELSE ValueAt(S[latest(z)], 2, 1)
  <1>1. \A z \in Nat : MessageBetween(S, h, z) =
                           [reference    |-> ValueAt(S[h], 1, 1),
                            type         |-> ValueAt(S[h], 2, 1),
                            subscription |-> sub(z)]
    BY DEF MessageBetween
  <1>2. \A i \in Nat : i \in h + 1 .. (k + 1) - 1 <=> i \in h + 1 .. k - 1 \/ i = k
    OBVIOUS
  <1>3. /\ N(k) \subseteq h + 1 .. k - 1
        /\ h + 1 .. k - 1 \subseteq Nat /\ h + 1 .. (k + 1) - 1 \subseteq Nat
    OBVIOUS
  <1>4. N(k + 1) = IF Names(S, k) THEN N(k) \cup {k} ELSE N(k)
    BY <1>2, <1>3 DEF Names
  <1>5. CASE Names(S, k)
    <2>1. N(k + 1) = N(k) \cup {k} /\ \A j \in N(k) : j \in Nat /\ j < k
      BY <1>3, <1>4, <1>5
    <2> HIDE DEF N
    <2>2. \A i \in N(k + 1) : (\A j \in N(k + 1) : j <= i) <=> i = k
      <3> TAKE i \in N(k + 1)
      <3>1. i = k => \A j \in N(k + 1) : j <= i
        BY <2>1
      <3>2. i # k => ~(k <= i)
        BY <2>1
      <3> QED
        BY <2>1, <3>1, <3>2
    <2>3. latest(k + 1) = k
      BY <2>1, <2>2
    <2>4. sub(k + 1) = ValueAt(S[k], 2, 1)
      BY <2>1, <2>3
    <2> HIDE DEF sub
    <2> QED
      BY <1>1, <1>5, <2>4
  <1>6. CASE ~Names(S, k)
    <2>1. sub(k + 1) = sub(k)
      <3>1. N(k + 1) = N(k)
        BY <1>4, <1>6
      <3> HIDE DEF N
      <3>2. latest(k + 1) = latest(k)
        BY <3>1, Zenon
      <3> HIDE DEF latest
      <3> QED
        BY <3>1, <3>2
    <2> HIDE DEF sub
    <2> QED
      BY <1>1, <1>6, <2>1
  <1> QED
    BY <1>5, <1>6

-------------------------------------------------------------------------------
(* The parser follows the grammar *)

\* every message that opens before segment k has a complete header
Clean(S, k) == \A h \in 2 .. k - 1 : Opens(S, h) => MessageStarts(S[h])

\* the message under construction opened at segment h and is still open at k
InBody(S, h, k) ==
    /\ Opens(S, h)
    /\ \A u \in h .. k - 1 : S[u].tag # "UNT"
    /\ message = MessageBetween(S, h, k)

\* the parser has read the segments before k, all of them as the grammar has it
ReadUpTo(S, k) ==
    /\ Before(k)
    /\ Clean(S, k)
    /\ result.messages = MessagesUpTo(S, k)
    /\ pc = "message" => Opens(S, k)
    /\ pc = "body" => \E h \in 2 .. k - 1 : InBody(S, h, k)

(* The strengthening of AcceptsTheGrammar and MessagesMirrorTheStream.      *)
(* While there is no error, the parser stands before a segment and has what *)
(* the segments before it say; once there is one, no continuation of the    *)
(* stream can be valid any more, wherever the parser has gone on to.        *)
GrammarInv ==
    LET S == Segments(tokens)
    IN  /\ pc = "advice" => at = 1
        /\ pc = "UNB" => Before(1)
        /\ pc \in {"advice", "UNB"} => errors = {} /\ result.messages = <<>>
        /\ pc \in {"message", "body"} /\ errors = {} =>
               /\ S # <<>> /\ HeaderComplete(S[1])
               /\ result.reference = ValueAt(S[1], 5, 1)
               /\ \E k \in 2 .. Len(S) + 1 : ReadUpTo(S, k)
        /\ pc \in {"message", "body", "rejected"} /\ errors # {} => ~ValidInterchange(S)
        /\ pc = "accepted" => ValidInterchange(S) /\ result.messages = MessagesOf(S)

(* A message header is no trailer: an interchange closes at one segment.    *)
LEMMA ClosesOnce ==
    ASSUME NEW S, Len(S) \in Nat,
           NEW y \in 2 .. Len(S), ClosesAt(S, y), NEW z \in 2 .. Len(S), ClosesAt(S, z)
    PROVE  y = z
  <1>1. ASSUME NEW a \in 2 .. Len(S), NEW b \in 2 .. Len(S), a < b, ClosesAt(S, a), ClosesAt(S, b)
        PROVE  FALSE
    <2>1. a \in 2 .. b - 1
      BY <1>1
    <2>2. MessageStarts(S[a])
      BY <1>1, <2>1 DEF ClosesAt
    <2> QED
      BY <1>1, <2>2 DEF ClosesAt, MessageStarts, TrailerAgrees
  <1> QED
    BY <1>1

(* Where a message must open or the interchange close, and neither does,    *)
(* the stream is refuted; so it is when it ends in the middle.              *)
LEMMA Refuted ==
    ASSUME NEW S, Len(S) \in Nat, NEW k \in 2 .. Len(S) + 1, Clean(S, k),
           k <= Len(S) => Opens(S, k) /\ ~MessageStarts(S[k]) /\ ~ClosesAt(S, k)
    PROVE  ~ValidInterchange(S)
  <1> SUFFICES ASSUME NEW z \in 2 .. Len(S), ClosesAt(S, z)
               PROVE  FALSE
    BY DEF ValidInterchange
  <1>1. CASE z < k
    <2>1. MessageStarts(S[z])
      BY <1>1 DEF Clean, ClosesAt
    <2> QED
      BY <2>1 DEF ClosesAt, MessageStarts, TrailerAgrees
  <1>2. CASE z = k
    BY <1>2
  <1>3. CASE z > k
    <2>1. k \in 2 .. z - 1 /\ k <= Len(S)
      BY <1>3
    <2> QED
      BY <2>1 DEF ClosesAt
  <1> QED
    BY <1>1, <1>2, <1>3

(* Right behind the header there is no message yet.                         *)
LEMMA NoMessages ==
    ASSUME NEW S
    PROVE  MessagesUpTo(S, 2) = <<>>
  <1>1. MessageTrailers(S, 2) = {}
    BY DEF MessageTrailers
  <1>2. Cardinality(MessageTrailers(S, 2)) = 0
    BY <1>1, FS_EmptySet
  <1>3. DOMAIN InOrder(MessageTrailers(S, 2)) = {}
    BY <1>2 DEF InOrder
  <1> QED
    BY <1>3 DEF MessagesUpTo

(* The parser knows a complete header when it reads one (parser.go:244-296). *)
LEMMA HeaderAgrees ==
    ASSUME TypeOK, StreamOK, NEW k \in 1 .. Len(Segments(tokens)), Before(k),
           errors = {}, parseUNB
    PROVE  /\ errors' = {} <=> HeaderComplete(Segments(tokens)[k])
           /\ result'.reference = ValueAt(Segments(tokens)[k], 5, 1)
           /\ result'.messages = result.messages
  <1> DEFINE seg == Segments(tokens)[k]
             date == <<Component(4, 1), Component(4, 2)>>
  <1>1. /\ isSegmentTag("UNB") /\ ElementCount >= 5
        /\ result' = Header /\ errors' = HeaderProblems
    BY DEF parseUNB
  <1>2. /\ seg.tag = "UNB"
        /\ Len(seg.elements) = ElementCount /\ ElementCount \in Nat
        /\ \A e \in 1 .. ElementCount : Has(e, 1)
        /\ \A e, c \in Nat \ {0} :
               /\ Has(e, c) <=> e <= Len(seg.elements) /\ c <= Len(seg.elements[e])
               /\ Component(e, c) = ValueAt(seg, e, c)
               /\ Has(e, c) => Component(e, c) = seg.elements[e][c]
    BY <1>1, SeesSegment DEF Tags
  <1> HIDE DEF seg
  <1>3. /\ Component(2, 1) = ValueAt(seg, 2, 1)
        /\ Component(3, 1) = ValueAt(seg, 3, 1)
        /\ Component(5, 1) = ValueAt(seg, 5, 1)
        /\ Has(4, 2) <=> 2 <= Len(seg.elements[4])
        /\ Has(4, 2) => date = <<seg.elements[4][1], seg.elements[4][2]>>
    <2>1. Has(4, 1)
      BY <1>1, <1>2
    <2> QED
      BY <1>1, <1>2, <2>1
  <1>4. /\ result'.sender = Component(2, 1)
        /\ result'.receiver = Component(3, 1)
        /\ result'.prepared = IF Has(4, 2) /\ date \in Date THEN date ELSE NoDate
        /\ result'.reference = Component(5, 1)
        /\ result'.messages = result.messages
    BY <1>1 DEF Header, TypeOK, ParseResult
  <1>5. Has(4, 2) => (result'.prepared = NoDate <=> date \notin Date)
    BY <1>4, ParserAssumption
  <1>6. errors' = {} <=> /\ Has(4, 2) => date \in Date
                         /\ Component(2, 1) # Empty
                         /\ Component(3, 1) # Empty
                         /\ Component(5, 1) # Empty
    BY <1>1, <1>4, <1>5 DEF HeaderProblems, Reported
  <1>7. HeaderComplete(seg) <=> /\ Has(4, 2) => date \in Date
                                /\ Component(2, 1) # Empty
                                /\ Component(3, 1) # Empty
                                /\ Component(5, 1) # Empty
    <2>1. Len(seg.elements) >= 5
      BY <1>1, <1>2
    <2>2. Len(seg.elements[4]) >= 2 <=> Has(4, 2)
      BY <1>3
    <2> QED
      BY <1>2, <1>3, <2>1, <2>2 DEF HeaderComplete
  <1> QED
    BY <1>3, <1>4, <1>6, <1>7 DEF seg

(* ... and the trailer of the interchange (parser.go:376-416).              *)
LEMMA TrailerKnown ==
    ASSUME TypeOK, StreamOK, NEW k \in 1 .. Len(Segments(tokens)), Before(k),
           isSegmentTag("UNZ")
    PROVE  TrailerProblems = {} <=>
               TrailerAgrees(Segments(tokens)[k], Len(result.messages), result.reference)
  <1> DEFINE seg == Segments(tokens)[k]
  <1>2. /\ seg.tag = "UNZ"
        /\ Len(seg.elements) = ElementCount /\ ElementCount \in Nat
        /\ \A e \in 1 .. ElementCount : Has(e, 1)
        /\ \A e, c \in Nat \ {0} :
               Has(e, c) => Component(e, c) = seg.elements[e][c]
    BY SeesSegment DEF Tags
  <1> HIDE DEF seg
  <1>3. CASE ElementCount < 2
    BY <1>2, <1>3 DEF TrailerProblems, TrailerAgrees, seg
  <1>4. CASE ElementCount >= 2
    <2>1. /\ Has(2, 1)
          /\ Component(1, 1) = seg.elements[1][1]
          /\ Component(2, 1) = seg.elements[2][1]
      BY <1>2, <1>4
    <2>2. ~(ElementCount < 2) /\ Len(seg.elements) >= 2
      BY <1>2, <1>4
    <2> QED
      BY <1>2, <2>1, <2>2 DEF TrailerProblems, TrailerAgrees, Reported, seg
  <1> QED
    BY <1>2, <1>3, <1>4

(* Advice and header (parser.go:180-203).                                   *)
LEMMA HeaderStep ==
    ASSUME TypeOK, StreamOK, GrammarInv,
           NoAdvice \/ SkipAdvice \/ MissingUNB \/ ShortUNB \/ parseUNB
    PROVE  GrammarInv'
  <1> DEFINE S == Segments(tokens)
  <1>1. /\ tokens' = tokens /\ Segments(tokens') = S /\ Len(S) \in Nat
        /\ errors = {} /\ result.messages = <<>>
    BY SegmentsIs DEF GrammarInv, NoAdvice, SkipAdvice, MissingUNB, ShortUNB, parseUNB, Missing
  <1>2. CASE NoAdvice
    <2>1. Before(1)
      BY <1>2, AdviceIs DEF NoAdvice, GrammarInv
    <2>2. Before(1)'
      BY <1>1, <1>2, <2>1 DEF NoAdvice, Before
    <2>3. pc' = "UNB" /\ errors' = errors /\ result' = result
      BY <1>2 DEF NoAdvice
    <2> QED
      BY <1>1, <2>2, <2>3 DEF GrammarInv
  <1>3. CASE SkipAdvice
    <2>1. Before(1)'
      BY <1>3, AdviceIs DEF SkipAdvice, GrammarInv
    <2>2. pc' = "UNB" /\ errors' = errors /\ result' = result
      BY <1>3 DEF SkipAdvice
    <2> QED
      BY <1>1, <2>1, <2>2 DEF GrammarInv
  <1>4. ASSUME MissingUNB \/ ShortUNB \/ parseUNB
        PROVE  Before(1) /\ pc = "UNB"
    BY <1>4 DEF GrammarInv, MissingUNB, ShortUNB, parseUNB
  <1>5. (Len(S) >= 1 => ~HeaderComplete(S[1])) => ~ValidInterchange(S)
    BY <1>1 DEF ValidInterchange
  <1>6. CASE MissingUNB
    <2>1. ~isSegmentTag("UNB") /\ pc' = "rejected"
      BY <1>6 DEF MissingUNB, Missing
    <2>2. Len(S) >= 1 => ~HeaderComplete(S[1])
      <3> SUFFICES ASSUME Len(S) >= 1
                   PROVE  ~HeaderComplete(S[1])
        OBVIOUS
      <3>1. 1 \in 1 .. Len(S)
        BY <1>1
      <3>2. S[1].tag # "UNB"
        BY <1>4, <1>6, <2>1, <3>1, SeesSegment DEF Tags
      <3> QED
        BY <3>2 DEF HeaderComplete
    <2> QED
      BY <1>1, <1>5, <2>1, <2>2 DEF GrammarInv
  <1>7. ASSUME isSegmentTag("UNB"), Before(1)
        PROVE  1 \in 1 .. Len(S)
    <2>1. ~(1 > Len(S))
      BY <1>7, SeesEnd
    <2> QED
      BY <1>1, <2>1
  <1>8. CASE ShortUNB
    <2>1. isSegmentTag("UNB") /\ ElementCount < 5 /\ pc' = "rejected"
      BY <1>8 DEF ShortUNB
    <2>2. 1 \in 1 .. Len(S)
      BY <1>4, <1>7, <1>8, <2>1
    <2>3. Len(S[1].elements) = ElementCount /\ ElementCount \in Nat
      BY <1>4, <1>8, <2>2, SeesSegment
    <2>4. ~HeaderComplete(S[1])
      BY <2>1, <2>3 DEF HeaderComplete
    <2> QED
      BY <1>1, <1>5, <2>1, <2>4 DEF GrammarInv
  <1>9. CASE parseUNB
    <2>1. /\ isSegmentTag("UNB") /\ ReadSegment
          /\ pc' = IF errors' = {} THEN "message" ELSE "rejected"
      BY <1>9 DEF parseUNB
    <2>2. 1 \in 1 .. Len(S)
      BY <1>4, <1>7, <1>9, <2>1
    <2>3. /\ errors' = {} <=> HeaderComplete(S[1])
          /\ result'.reference = ValueAt(S[1], 5, 1)
          /\ result'.messages = <<>>
      BY <1>1, <1>4, <1>9, <2>2, HeaderAgrees
    <2>4. Before(2)'
      BY <1>1, <1>4, <1>9, <2>1, <2>2, ReadsOn
    <2>5. CASE errors' = {}
      <3>1. pc' = "message" /\ HeaderComplete(S[1]) /\ S # <<>>
        BY <2>1, <2>2, <2>3, <2>5
      <3>2. 2 \in 2 .. Len(S) + 1
        BY <1>1, <2>2
      <3>3. Clean(S, 2) /\ Opens(S, 2) /\ result'.messages = MessagesUpTo(S, 2)
        BY <2>3, NoMessages DEF Clean, Opens
      <3>4. ReadUpTo(S, 2)'
        BY <1>1, <2>4, <3>1, <3>3 DEF ReadUpTo
      <3>5. \E k \in 2 .. Len(S) + 1 : ReadUpTo(S, k)'
        BY <3>2, <3>4
      <3> QED
        BY <1>1, <2>3, <2>5, <3>1, <3>5 DEF GrammarInv
    <2>6. CASE errors' # {}
      BY <1>1, <1>5, <2>1, <2>3, <2>6 DEF GrammarInv
    <2> QED
      BY <2>5, <2>6
  <1> QED
    BY <1>2, <1>3, <1>6, <1>8, <1>9

(* What a step leaves behind that finds an error, or meets an earlier one.  *)
LEMMA RefutedStep ==
    ASSUME TypeOK, StreamOK, tokens' = tokens, ~ValidInterchange(Segments(tokens)),
           errors' # {}, pc' \in {"message", "body", "looping", "rejected"}
    PROVE  GrammarInv'
  BY DEF GrammarInv

(* ... and a step that reads on without one.                                *)
LEMMA ReadingStep ==
    ASSUME TypeOK, StreamOK, tokens' = tokens,
           NEW k \in 2 .. Len(Segments(tokens)) + 1,
           Segments(tokens) # <<>>, HeaderComplete(Segments(tokens)[1]),
           result'.reference = ValueAt(Segments(tokens)[1], 5, 1),
           Before(k)', Clean(Segments(tokens), k),
           result'.messages = MessagesUpTo(Segments(tokens), k),
           \/ pc' = "message" /\ Opens(Segments(tokens), k)
           \/ pc' = "body" /\ \E h \in 2 .. k - 1 : InBody(Segments(tokens), h, k)',
           errors' = {}
    PROVE  GrammarInv'
  <1> DEFINE S == Segments(tokens)
  <1>1. Segments(tokens') = S
    OBVIOUS
  <1>2. pc' \in {"message", "body"}
    OBVIOUS
  <1>3. ReadUpTo(S, k)'
    BY <1>1, Zenon DEF ReadUpTo
  <1>4. (\E m \in 2 .. Len(S) + 1 : ReadUpTo(S, m))'
    BY <1>1, <1>3
  <1> QED
    BY <1>1, <1>2, <1>4 DEF GrammarInv

(* A clean reader that is in a body stays clean: no message opens there.    *)
LEMMA BodyStaysClean ==
    ASSUME NEW S, NEW k \in Nat, Clean(S, k), NEW h \in 2 .. k - 1, InBody(S, h, k)
    PROVE  Clean(S, k + 1)
  <1>1. ~Opens(S, k)
    <2>1. k # 2 /\ k - 1 \in h .. k - 1
      OBVIOUS
    <2> QED
      BY <2>1 DEF Opens, InBody
  <1> SUFFICES ASSUME NEW g \in 2 .. (k + 1) - 1, Opens(S, g)
               PROVE  MessageStarts(S[g])
    BY DEF Clean
  <1>2. g \in 2 .. k - 1 \/ g = k
    OBVIOUS
  <1> QED
    BY <1>1, <1>2 DEF Clean

(* What the parser takes from the segments of a message.                    *)
LEMMA SeesFields ==
    ASSUME TypeOK, StreamOK, NEW k \in 1 .. Len(Segments(tokens)), Before(k)
    PROVE  /\ \A tag \in Tags : isSegmentTag(tag) <=> Segments(tokens)[k].tag = tag
           /\ Len(Segments(tokens)[k].elements) = ElementCount /\ ElementCount \in Nat
           /\ Component(1, 1) = ValueAt(Segments(tokens)[k], 1, 1)
           /\ Component(2, 1) = ValueAt(Segments(tokens)[k], 2, 1)
           /\ Has(2, 1) <=> Len(Segments(tokens)[k].elements) > 1
  <1> DEFINE seg == Segments(tokens)[k]
  <1>1. /\ \A tag \in Tags : isSegmentTag(tag) <=> seg.tag = tag
        /\ Len(seg.elements) = ElementCount /\ ElementCount \in Nat
        /\ \A e \in 1 .. ElementCount : Has(e, 1)
        /\ \A e, c \in Nat \ {0} :
               /\ Has(e, c) <=> e <= Len(seg.elements) /\ c <= Len(seg.elements[e])
               /\ Component(e, c) = ValueAt(seg, e, c)
    BY SeesSegment
  <1> HIDE DEF seg
  <1>2. /\ Component(1, 1) = ValueAt(seg, 1, 1)
        /\ Component(2, 1) = ValueAt(seg, 2, 1)
        /\ Has(2, 1) <=> Len(seg.elements) > 1
    BY <1>1
  <1> QED
    BY <1>1, <1>2 DEF seg

\* the parser is between header and trailer and has met no error yet
Reads(S, k) ==
    /\ tokens' = tokens
    /\ S = Segments(tokens)
    /\ Len(S) \in Nat
    /\ k \in 2 .. Len(S) + 1
    /\ errors = {}
    /\ S # <<>> /\ HeaderComplete(S[1])
    /\ result.reference = ValueAt(S[1], 5, 1)
    /\ ReadUpTo(S, k)

(* The header of a message (parser.go:302-340).                             *)
LEMMA UNHStep ==
    ASSUME TypeOK, StreamOK, NEW S, NEW k, Reads(S, k), ShortUNH \/ ReadUNH
    PROVE  GrammarInv'
  <1>1. /\ tokens' = tokens /\ S = Segments(tokens) /\ Len(S) \in Nat
        /\ k \in 2 .. Len(S) + 1 /\ k \in Nat /\ errors = {}
        /\ S # <<>> /\ HeaderComplete(S[1])
        /\ result.reference = ValueAt(S[1], 5, 1)
        /\ Before(k) /\ Clean(S, k) /\ result.messages = MessagesUpTo(S, k)
    BY DEF Reads, ReadUpTo
  <1>2. /\ pc = "message" /\ isSegmentTag("UNH") /\ ReadSegment /\ result' = result
        /\ Opens(S, k)
    BY DEF ShortUNH, ReadUNH, Reads, ReadUpTo
  <1>3. k \in 1 .. Len(S)
    <2>1. ~(k > Len(S))
      BY <1>1, <1>2, SeesEnd
    <2> QED
      BY <1>1, <2>1
  <1>4. /\ S[k].tag = "UNH"
        /\ Len(S[k].elements) = ElementCount /\ ElementCount \in Nat
        /\ Component(1, 1) = ValueAt(S[k], 1, 1)
        /\ Component(2, 1) = ValueAt(S[k], 2, 1)
    BY <1>1, <1>2, <1>3, SeesFields DEF Tags
  <1>5. ~ClosesAt(S, k)
    BY <1>4 DEF ClosesAt, TrailerAgrees
  <1>6. ~MessageStarts(S[k]) => ~ValidInterchange(S)
    BY <1>1, <1>2, <1>5, Refuted
  <1>7. Before(k + 1)'
    BY <1>1, <1>2, <1>3, ReadsOn
  <1>8. CASE ShortUNH
    <2>1. errors' # {} /\ pc' = "message" /\ ElementCount < 2
      BY <1>2, <1>8 DEF ShortUNH
    <2>2. ValueAt(S[k], 2, 1) = Empty
      BY <1>4, <2>1 DEF ValueAt
    <2>3. ~MessageStarts(S[k])
      BY <2>2 DEF MessageStarts
    <2> QED
      BY <1>1, <1>6, <2>1, <2>3, RefutedStep
  <1>9. CASE ReadUNH
    <2>1. /\ errors' = MessageHeaderProblems /\ pc' = "body" /\ message' = MessageHeader
      BY <1>1, <1>9 DEF ReadUNH
    <2>2. /\ message'.reference = ValueAt(S[k], 1, 1)
          /\ message'.type = ValueAt(S[k], 2, 1)
      BY <1>4, <2>1 DEF MessageHeader
    <2>3. errors' = {} <=> MessageStarts(S[k])
      BY <1>4, <2>1, <2>2 DEF MessageHeaderProblems, Reported, MessageStarts
    <2>4. CASE errors' = {}
      <3>1. message' = MessageBetween(S, k, k + 1)
        BY <1>1, <1>4, <2>1, MessageOpened DEF MessageHeader
      <3>2. \A u \in k .. (k + 1) - 1 : S[u].tag # "UNT"
        <4>1. \A u \in k .. (k + 1) - 1 : u = k
          BY <1>1
        <4> QED
          BY <1>4, <4>1
      <3>3. InBody(S, k, k + 1)'
        BY <1>1, <1>2, <3>1, <3>2 DEF InBody
      <3>4. Clean(S, k + 1)
        <4>1. \A g \in 2 .. (k + 1) - 1 : g \in 2 .. k - 1 \/ g = k
          BY <1>1
        <4> QED
          BY <1>1, <2>3, <2>4, <4>1 DEF Clean
      <3>5. result'.messages = MessagesUpTo(S, k + 1)
        BY <1>1, <1>2, <1>4, NoTrailerNoMessage
      <3>6. k + 1 \in 2 .. Len(S) + 1 /\ k \in 2 .. (k + 1) - 1
        BY <1>1, <1>3
      <3> QED
        BY <1>1, <1>2, <1>7, <2>1, <2>4, <3>3, <3>4, <3>5, <3>6, ReadingStep
    <2>5. CASE errors' # {}
      BY <1>1, <1>6, <2>1, <2>3, <2>5, RefutedStep
    <2> QED
      BY <2>4, <2>5
  <1> QED
    BY <1>8, <1>9

(* Its body (parser.go:342-374).                                            *)
LEMMA BodyStep ==
    ASSUME TypeOK, StreamOK, NEW S, NEW k, Reads(S, k), ReadBody
    PROVE  GrammarInv'
  <1>1. /\ tokens' = tokens /\ S = Segments(tokens) /\ Len(S) \in Nat
        /\ k \in 2 .. Len(S) + 1 /\ k \in Nat /\ errors = {}
        /\ S # <<>> /\ HeaderComplete(S[1])
        /\ result.reference = ValueAt(S[1], 5, 1)
        /\ Before(k) /\ Clean(S, k) /\ result.messages = MessagesUpTo(S, k)
    BY DEF Reads, ReadUpTo
  <1>2. /\ pc = "body" /\ BodyGoesOn /\ ReadSegment
        /\ result' = result /\ errors' = errors /\ pc' = pc
    BY DEF ReadBody
  <1>3. PICK h \in 2 .. k - 1 : InBody(S, h, k)
    BY <1>2 DEF Reads, ReadUpTo
  <1>4. k \in 1 .. Len(S)
    <2> SUFFICES ASSUME k > Len(S)
                 PROVE  FALSE
      BY <1>1
    <2>1. at = Len(tokens) /\ currentToken.type \in Ending
      BY <1>1, SeesEnd
    <2>2. currentToken.type = "Error"
      BY <1>2, <2>1 DEF BodyGoesOn, Ending
    <2>3. First = at /\ ~IsData(at)
      BY <2>2 DEF First, currentToken, IsData
    <2>4. at \in Nat /\ Stop \in Nat /\ at <= Stop
      BY StopCloses DEF Position
    <2>5. ~(at \in First .. Stop - 1)
      BY <2>3, StopIs
    <2>6. Stop = at
      BY <2>3, <2>4, <2>5
    <2> QED
      BY <1>2, <2>2, <2>6 DEF ReadSegment, currentToken
  <1>5. /\ isSegmentTag("LOC") <=> S[k].tag = "LOC"
        /\ S[k].tag # "UNT"
        /\ Has(2, 1) <=> Len(S[k].elements) > 1
        /\ Component(1, 1) = ValueAt(S[k], 1, 1)
        /\ Component(2, 1) = ValueAt(S[k], 2, 1)
    BY <1>1, <1>2, <1>4, SeesFields DEF Tags, BodyGoesOn
  <1>7. message' = IF Names(S, k) THEN [message EXCEPT !.subscription = ValueAt(S[k], 2, 1)]
                   ELSE message
    BY <1>5 DEF ReadBody, Names
  <1>8. message' = MessageBetween(S, h, k + 1)
    BY <1>1, <1>3, <1>7, MessageGoesOn DEF InBody
  <1>9. \A u \in h .. (k + 1) - 1 : S[u].tag # "UNT"
    <2>1. \A u \in h .. (k + 1) - 1 : u \in h .. k - 1 \/ u = k
      BY <1>1
    <2> QED
      BY <1>3, <1>5, <2>1 DEF InBody
  <1>10. InBody(S, h, k + 1)'
    BY <1>1, <1>3, <1>8, <1>9 DEF InBody
  <1>11. k + 1 \in 2 .. Len(S) + 1 /\ h \in 2 .. (k + 1) - 1
    BY <1>1, <1>4
  <1>12. Clean(S, k + 1) /\ result'.messages = MessagesUpTo(S, k + 1) /\ Before(k + 1)'
    BY <1>1, <1>2, <1>3, <1>4, <1>5, BodyStaysClean, NoTrailerNoMessage, ReadsOn
  <1> QED
    BY <1>1, <1>2, <1>10, <1>11, <1>12, ReadingStep

(* Its trailer, or the end in its place (parser.go:205-213, 342).           *)
LEMMA UNTStep ==
    ASSUME TypeOK, StreamOK, NEW S, NEW k, Reads(S, k), ReadUNT \/ MissingUNT
    PROVE  GrammarInv'
  <1>1. /\ tokens' = tokens /\ S = Segments(tokens) /\ Len(S) \in Nat
        /\ k \in 2 .. Len(S) + 1 /\ k \in Nat /\ errors = {}
        /\ S # <<>> /\ HeaderComplete(S[1])
        /\ result.reference = ValueAt(S[1], 5, 1)
        /\ Before(k) /\ Clean(S, k) /\ result.messages = MessagesUpTo(S, k)
    BY DEF Reads, ReadUpTo
  <1>2. pc = "body" /\ AddMessage /\ pc' = "message"
    BY DEF ReadUNT, MissingUNT
  <1>3. /\ result'.messages = Append(result.messages, message)
        /\ result'.reference = result.reference
    BY <1>2, AddedMessage
  <1>4. PICK h \in 2 .. k - 1 : InBody(S, h, k)
    BY <1>2 DEF Reads, ReadUpTo
  <1>5. CASE ReadUNT
    <2>1. isSegmentTag("UNT") /\ ReadSegment /\ errors' = {}
      BY <1>1, <1>5 DEF ReadUNT
    <2>2. k \in 1 .. Len(S)
      <3>1. ~(k > Len(S))
        BY <1>1, <2>1, SeesEnd
      <3> QED
        BY <1>1, <3>1
    <2>3. S[k].tag = "UNT"
      BY <1>1, <2>1, <2>2, SeesSegment DEF Tags
    <2>4. result'.messages = MessagesUpTo(S, k + 1)
      BY <1>1, <1>3, <1>4, <2>3, TrailerAddsMessage DEF InBody
    <2>5. Opens(S, k + 1)
      <3>1. (k + 1) - 1 = k
        BY <1>1
      <3> QED
        BY <2>3, <3>1 DEF Opens
    <2>6. Before(k + 1)' /\ Clean(S, k + 1) /\ k + 1 \in 2 .. Len(S) + 1
      BY <1>1, <1>4, <2>1, <2>2, BodyStaysClean, ReadsOn
    <2> QED
      BY <1>1, <1>2, <1>3, <2>1, <2>4, <2>5, <2>6, ReadingStep
  <1>6. CASE MissingUNT
    <2>1. currentToken.type = "EOF" /\ errors' # {}
      BY <1>6 DEF MissingUNT, BodyGoesOn
    <2>2. ~(k \in 1 .. Len(S))
      BY <1>1, <2>1, SeesSegment DEF Ending
    <2>3. ~ValidInterchange(S)
      BY <1>1, <2>2, Refuted
    <2> QED
      BY <1>1, <1>2, <2>1, <2>3, RefutedStep
  <1> QED
    BY <1>5, <1>6

(* The trailer of the interchange (parser.go:215-230, 376-416).             *)
LEMMA UNZStep ==
    ASSUME TypeOK, StreamOK, NEW S, NEW k, Reads(S, k), MissingUNZ \/ parseUNZ
    PROVE  GrammarInv'
  <1>1. /\ tokens' = tokens /\ S = Segments(tokens) /\ Len(S) \in Nat
        /\ k \in 2 .. Len(S) + 1 /\ k \in Nat /\ errors = {}
        /\ result.reference = ValueAt(S[1], 5, 1)
        /\ Before(k) /\ Clean(S, k) /\ result.messages = MessagesUpTo(S, k)
    BY DEF Reads, ReadUpTo
  <1>2. Opens(S, k)
    BY DEF MissingUNZ, parseUNZ, Reads, ReadUpTo
  <1>3. k <= Len(S) => k \in 1 .. Len(S)
    BY <1>1
  <1>4. CASE MissingUNZ
    <2>1. ~isSegmentTag("UNH") /\ ~isSegmentTag("UNZ") /\ errors' # {} /\ pc' = "rejected"
      BY <1>4 DEF MissingUNZ, Missing
    <2>2. k <= Len(S) => S[k].tag # "UNH" /\ S[k].tag # "UNZ"
      BY <1>1, <1>3, <2>1, SeesSegment DEF Tags
    <2>3. k <= Len(S) => ~MessageStarts(S[k]) /\ ~ClosesAt(S, k)
      BY <2>2 DEF MessageStarts, ClosesAt, TrailerAgrees
    <2>4. ~ValidInterchange(S)
      BY <1>1, <1>2, <2>3, Refuted
    <2> QED
      BY <1>1, <2>1, <2>4, RefutedStep
  <1>5. CASE parseUNZ
    <2>1. /\ isSegmentTag("UNZ") /\ result' = result /\ errors' = TrailerProblems
          /\ pc' = IF errors' = {} THEN "accepted" ELSE "rejected"
      BY <1>1, <1>5 DEF parseUNZ
    <2>2. k \in 1 .. Len(S)
      <3>1. ~(k > Len(S))
        BY <1>1, <2>1, SeesEnd
      <3> QED
        BY <1>1, <3>1
    <2>3. S[k].tag = "UNZ"
      BY <1>1, <2>1, <2>2, SeesSegment DEF Tags
    <2>4. errors' = {} <=> ClosesAt(S, k)
      <3>1. Len(result.messages) = Cardinality(MessageTrailers(S, k))
        BY <1>1, MessagesCounted
      <3>2. errors' = {} <=> TrailerAgrees(S[k], Len(result.messages), result.reference)
        BY <1>1, <2>1, <2>2, TrailerKnown
      <3> QED
        BY <1>1, <1>2, <3>1, <3>2 DEF ClosesAt, Clean
    <2>5. CASE errors' = {}
      <3>1. k \in 2 .. Len(S) /\ ClosesAt(S, k)
        BY <1>1, <2>2, <2>4, <2>5
      <3>2. ValidInterchange(S)
        <4>1. S # <<>>
          BY DEF Reads
        <4>2. HeaderComplete(S[1])
          BY DEF Reads
        <4> QED
          BY <3>1, <4>1, <4>2 DEF ValidInterchange
      <3>3. (CHOOSE z \in 2 .. Len(S) : ClosesAt(S, z)) = k
        <4>1. \A z \in 2 .. Len(S) : ClosesAt(S, z) => z = k
          BY <1>1, <3>1, ClosesOnce
        <4> QED
          BY <3>1, <4>1
      <3>4. result'.messages = MessagesOf(S)
        BY <1>1, <2>1, <3>3 DEF MessagesOf
      <3> QED
        BY <1>1, <2>1, <2>5, <3>2, <3>4 DEF GrammarInv
    <2>6. CASE errors' # {}
      <3>1. ~MessageStarts(S[k]) /\ ~ClosesAt(S, k)
        BY <2>3, <2>4, <2>6 DEF MessageStarts
      <3>2. ~ValidInterchange(S)
        BY <1>1, <1>2, <3>1, Refuted
      <3> QED
        BY <1>1, <2>1, <2>6, <3>2, RefutedStep
    <2> QED
      BY <2>5, <2>6
  <1> QED
    BY <1>4, <1>5

(* Once refuted, always refuted: errors are not forgotten.                  *)
LEMMA ErrorStep ==
    ASSUME TypeOK, StreamOK, GrammarInv, pc \in {"message", "body"}, errors # {}, Parse
    PROVE  GrammarInv'
  <1>1. ~ValidInterchange(Segments(tokens))
    BY DEF GrammarInv
  <1>2. /\ tokens' = tokens /\ errors' # {}
        /\ pc' \in {"message", "body", "looping", "rejected"}
    BY DEF Parse, NoAdvice, SkipAdvice, MissingUNB, ShortUNB, parseUNB, ShortUNH, ReadUNH,
           ReadBody, ReadUNT, MissingUNT, MissingUNZ, parseUNZ, Missing, ReadForEver,
           SkipForEver
  <1> QED
    BY <1>1, <1>2, RefutedStep

(* Every step follows the grammar.                                          *)
LEMMA GrammarStep == TypeOK /\ StreamOK /\ GrammarInv /\ [Parse]_vars => GrammarInv'
  <1> SUFFICES ASSUME TypeOK, StreamOK, GrammarInv, [Parse]_vars
               PROVE  GrammarInv'
    OBVIOUS
  <1>1. CASE UNCHANGED vars
    BY <1>1 DEF vars, GrammarInv, ReadUpTo, InBody, Before
  <1>2. CASE NoAdvice \/ SkipAdvice \/ MissingUNB \/ ShortUNB \/ parseUNB
    BY <1>2, HeaderStep
  <1>3. CASE \/ ShortUNH \/ ReadUNH \/ ReadBody \/ ReadUNT \/ MissingUNT
             \/ MissingUNZ \/ parseUNZ
    <2>1. pc \in {"message", "body"} /\ tokens' = tokens /\ Parse
      BY <1>3 DEF Parse, ShortUNH, ReadUNH, ReadBody, ReadUNT, MissingUNT, MissingUNZ,
                  parseUNZ, Missing
    <2>2. CASE errors # {}
      BY <2>1, <2>2, ErrorStep
    <2>3. CASE errors = {}
      <3>1. PICK k : Reads(Segments(tokens), k)
        BY <2>1, <2>3, SegmentsIs DEF GrammarInv, Reads
      <3> QED
        BY <1>3, <3>1, UNHStep, BodyStep, UNTStep, UNZStep
    <2> QED
      BY <2>2, <2>3
  <1>4. CASE ReadForEver \/ SkipForEver
    BY <1>4 DEF ReadForEver, SkipForEver, GrammarInv
  <1> QED
    BY <1>1, <1>2, <1>3, <1>4 DEF Parse

LEMMA GrammarInit == NewParser => GrammarInv
  BY DEF NewParser, GrammarInv

(* Parse accepts exactly the streams whose segments follow the grammar, for *)
(* every stream with an end: what it rejects is invalid, whatever it has    *)
(* skipped, and what it accepts is valid (parser.go:175-231).               *)
THEOREM GrammarDecided == Spec => []AcceptsTheGrammar
  <1>1. TypeOK /\ GrammarInv /\ CompleteInv => AcceptsTheGrammar
    BY DEF TypeOK, GrammarInv, CompleteInv, AcceptsTheGrammar, Running
  <1> QED
    BY <1>1, CompleteInit, TypeInit, TypeStep, CompleteStep, GrammarInit, GrammarStep, PTL DEF Spec

(* The messages of an accepted stream are those of its segments, in order,  *)
(* each with its own reference, type and subscription (parser.go:302-374).  *)
THEOREM MessagesAreTheStreams == Spec => []MessagesMirrorTheStream
  <1>1. GrammarInv => MessagesMirrorTheStream
    BY DEF GrammarInv, MessagesMirrorTheStream
  <1> QED
    BY <1>1, TypeInit, TypeStep, GrammarInit, GrammarStep, PTL DEF Spec

-------------------------------------------------------------------------------
(* A segment that is read to its end is at least one token.                 *)
LEMMA ReadingMovesOn ==
    ASSUME TypeOK, StreamOK, ReadSegment, currentToken.type # "EOF"
    PROVE  at' > at
  <1>1. First \in Position /\ Stop \in Position /\ Stop >= First /\ at \in Position
    BY SegmentBounds DEF TypeOK
  <1>2. ~IsData(Stop) /\ tokens[Stop].type # "Error"
    BY StopIs DEF ReadSegment
  <1>3. First = at + 1 \/ (First = at /\ currentToken.type # "SegmentTag")
    BY DEF First
  <1>4. Stop # at \/ tokens[Stop].type = "SegmentEnd"
    <2> SUFFICES ASSUME Stop = at
                 PROVE  tokens[at].type = "SegmentEnd"
      OBVIOUS
    <2>1. currentToken.type # "SegmentTag"
      BY <1>1, <1>3 DEF Position
    <2>2. tokens[at].type \in TokenType
      BY <1>1, StreamFacts DEF TokenRecord
    <2> QED
      BY <1>2, <2>1, <2>2 DEF currentToken, IsData, TokenType
  <1> QED
    BY <1>1, <1>3, <1>4 DEF ReadSegment, Position

LEMMA SkippingMovesOn ==
    ASSUME TypeOK, StreamOK, SkipAdvice
    PROVE  at' >= at
  <1>1. SkipStop \in Nat /\ SkipStop >= at /\ at \in Nat
    BY SkipStopIs DEF TypeOK, Position
  <1>2. at' \in {SkipStop, SkipStop + 1}
    BY DEF SkipAdvice
  <1> QED
    BY <1>1, <1>2

(* What is left to do, a number every step of the parser lowers: twice the  *)
(* tokens, since a message that stops without a trailer reads none.         *)
StepsInSegment ==
    CASE pc \in {"advice", "body"} -> 3
      [] pc \in {"UNB", "message"} -> 2
      [] OTHER                     -> 0

Left == 2 * (Len(tokens) - at) + StepsInSegment

LEMMA LeftIsNatural == TypeOK /\ StreamOK => Left \in Nat
  <1> SUFFICES ASSUME TypeOK, StreamOK
               PROVE  Left \in Nat
    OBVIOUS
  <1>1. StepsInSegment \in 0 .. 3
    BY DEF StepsInSegment, TypeOK
  <1>2. Len(tokens) - at \in Nat
    BY StreamFacts DEF TypeOK, Position
  <1> QED
    BY <1>1, <1>2 DEF Left

LEMMA LessIsLeft ==
    ASSUME TypeOK, TypeOK', StreamOK, tokens' = tokens,
           \/ at' > at /\ StepsInSegment \in {2, 3}
           \/ at' >= at /\ StepsInSegment' < StepsInSegment
    PROVE  Left' < Left
  <1>1. Len(tokens) \in Nat /\ at \in Nat /\ at' \in Nat
    BY StreamFacts DEF TypeOK, Position
  <1>2. StepsInSegment \in 0 .. 3 /\ StepsInSegment' \in 0 .. 3
    BY DEF StepsInSegment, TypeOK
  <1> QED
    BY <1>1, <1>2 DEF Left

LEMMA StepGetsOn ==
    ASSUME TypeOK, TypeOK', StreamOK, Parse
    PROVE  Left' < Left
  <1>t. tokens' = tokens /\ pc \in {"advice", "UNB", "message", "body"}
    BY DEF Parse, NoAdvice, SkipAdvice, MissingUNB, ShortUNB, parseUNB, ShortUNH, ReadUNH,
           ReadBody, ReadUNT, MissingUNT, MissingUNZ, parseUNZ, Missing, ReadForEver,
           SkipForEver, SegmentDue
  <1>s. StepsInSegment \in {2, 3}
    BY <1>t DEF StepsInSegment
  <1>1. CASE NoAdvice \/ MissingUNB \/ MissingUNT \/ MissingUNZ
    <2>1. at' = at /\ StepsInSegment' < StepsInSegment
      BY <1>1 DEF NoAdvice, MissingUNB, MissingUNT, MissingUNZ, Missing, StepsInSegment
    <2>2. at' >= at
      BY <2>1 DEF TypeOK, Position
    <2> QED
      BY <1>t, <2>1, <2>2, LessIsLeft
  <1>2. CASE SkipAdvice
    <2>1. at' >= at
      BY <1>2, SkippingMovesOn
    <2>2. StepsInSegment' < StepsInSegment
      BY <1>2 DEF SkipAdvice, StepsInSegment
    <2> QED
      BY <1>t, <2>1, <2>2, LessIsLeft
  <1>3. CASE ShortUNB \/ parseUNB \/ ShortUNH \/ ReadUNH \/ ReadBody \/ ReadUNT \/ parseUNZ
    <2>1. ReadSegment /\ currentToken.type # "EOF"
      BY <1>3 DEF ShortUNB, parseUNB, ShortUNH, ReadUNH, ReadBody, ReadUNT, parseUNZ,
                  isSegmentTag, BodyGoesOn
    <2> QED
      BY <1>t, <1>s, <2>1, ReadingMovesOn, LessIsLeft
  <1>4. CASE ReadForEver \/ SkipForEver
    <2>1. First >= at /\ First \in Nat /\ at \in Nat
      BY SegmentBounds DEF First, TypeOK, Position
    <2>2. Stop >= at /\ SkipStop >= at
      BY <2>1, SegmentBounds, SkipStopIs DEF Position
    <2>3. at' >= at /\ StepsInSegment' = 0
      BY <1>4, <2>2 DEF ReadForEver, SkipForEver, StepsInSegment
    <2> QED
      BY <1>t, <1>s, <2>3, LessIsLeft
  <1> QED
    BY <1>1, <1>2, <1>3, <1>4 DEF Parse

(* Every step of Parse lowers a natural number that starts at twice the     *)
(* tokens and one, the step into an endless loop included, behind which     *)
(* there is no other: after so many steps at most Parse has returned or is  *)
(* caught in front of an error token (parser.go:175-231, 302-374, 434-474). *)
THEOREM AlwaysGetsOn == Spec => [](Left \in Nat) /\ [][Left' < Left]_vars
  <1>1. TypeOK /\ TypeOK' /\ StreamOK /\ [Parse]_vars => [Left' < Left]_vars
    BY StepGetsOn
  <1> QED
    BY <1>1, LeftIsNatural, TypeInit, TypeStep, PTL DEF Spec

\* caught in a loop only by an error token, behind which the stream has nothing
CaughtByErrors == pc = "looping" => at = Len(tokens) /\ currentToken.type = "Error"

(* What catches the parser is the error token that ends its stream and      *)
(* nothing else: neither damaged segments nor what it has skipped or        *)
(* reported before; on a stream that ends with the input no state of it is  *)
(* in an endless loop (parser.go:440-474, 481-492).                         *)
THEOREM OnlyErrorsCatch ==
    Spec => [](CaughtByErrors /\ (tokens[Len(tokens)].type = "EOF" => pc # "looping"))
  <1>1. NewParser => CaughtByErrors
    BY DEF NewParser, CaughtByErrors
  <1>2. ASSUME TypeOK, StreamOK, CaughtByErrors, [Parse]_vars
        PROVE  CaughtByErrors'
    <2>1. CASE UNCHANGED vars
      BY <1>2, <2>1 DEF vars, CaughtByErrors, currentToken
    <2>2. CASE ReadForEver \/ SkipForEver
      <3>1. tokens' = tokens /\ at' \in Position /\ tokens[at'].type = "Error"
        BY <1>2, <2>2, SegmentBounds, SkipStopIs DEF ReadForEver, SkipForEver
      <3>2. at' = Len(tokens)
        BY <1>2, <3>1, StreamFacts DEF Position, Ending
      <3> QED
        BY <3>1, <3>2 DEF CaughtByErrors, currentToken
    <2>3. CASE Parse /\ ~ReadForEver /\ ~SkipForEver
      <3>1. pc' # "looping"
        BY <2>3 DEF Parse, NoAdvice, SkipAdvice, MissingUNB, ShortUNB, parseUNB, ShortUNH,
                    ReadUNH, ReadBody, ReadUNT, MissingUNT, MissingUNZ, parseUNZ, Missing
      <3> QED
        BY <3>1 DEF CaughtByErrors
    <2> QED
      BY <1>2, <2>1, <2>2, <2>3
  <1>3. CaughtByErrors =>
            CaughtByErrors /\ (tokens[Len(tokens)].type = "EOF" => pc # "looping")
    BY DEF CaughtByErrors, currentToken
  <1> QED
    BY <1>1, <1>2, <1>3, TypeInit, TypeStep, PTL DEF Spec
===============================================================================
