-------------------------------- MODULE Parser --------------------------------
(***************************************************************************)
(* The parser of parser.go over the stream of tokens the lexer returns.    *)
(* A step is one segment: one call of readSegment (or skipSegment) and     *)
(* what the caller makes of it.  The parser runs on one goroutine and the  *)
(* stream does not change under it, so nothing can come in between.        *)
(*                                                                         *)
(* The stream is written down up to its end, an end of input or an error   *)
(* token; NextToken returns the latter again and again, and advance() at   *)
(* the end of the stream therefore stays there.                            *)
(***************************************************************************)
EXTENDS Token, Integers, FiniteSets, Sequences, SequencesExt

CONSTANTS
    Value,          \* tags and values of tokens
    Empty,          \* the empty value, and the zero value of a string field
    NoDate,         \* the zero time
    Date,           \* the <<date, time>> pairs time.Parse accepts
    Count,          \* the values fmt.Sscanf reads a number from
    CountOf,        \* ... and the number
    Inputs          \* the token streams of this instance

TokenRecord == [type : TokenType, value : Value]

ASSUME ParserAssumption ==
    /\ {Empty, "172", "UNA", "UNB", "UNH", "UNT", "UNZ", "LOC"} \subseteq Value
    /\ Empty \notin {"172", "UNA", "UNB", "UNH", "UNT", "UNZ", "LOC"}
    /\ NoDate \notin Date
    /\ Count \subseteq Value \ {Empty}
    /\ CountOf \in [Count -> Int]
    /\ Inputs \subseteq Seq(TokenRecord)
    /\ \A stream \in Inputs :
           /\ stream # <<>>
           /\ Orderly([i \in DOMAIN stream |-> stream[i].type])
           /\ stream[Len(stream)].type \in Ending

VARIABLES
    tokens,         \* what the lexer returns, call by call
    at,             \* the position of currentToken
    pc,             \* where Parse is
    result,         \* the ParseResult under construction
    message,        \* the ParsedMessage under construction
    errors          \* the errors collected, by kind

vars == <<tokens, at, pc, result, message, errors>>

Message == [reference : Value, type : Value, subscription : Value]

NoMessage == [reference |-> Empty, type |-> Empty, subscription |-> Empty]

\* the errors the parser can report, by kind
Problem == {"missingUNB", "shortUNB", "date", "sender", "receiver", "reference",
            "shortUNH", "messageReference", "messageType", "missingUNT",
            "missingUNZ", "shortUNZ", "count", "trailerReference", "unexpectedToken"}

NewParser ==
    /\ tokens \in Inputs
    /\ at = 1
    /\ pc = "advice"
    /\ result = [sender |-> Empty, receiver |-> Empty, prepared |-> NoDate,
                 reference |-> Empty, messages |-> <<>>, subscriptions |-> <<>>]
    /\ message = NoMessage
    /\ errors = {}

-------------------------------------------------------------------------------
(* The stream, segment by segment *)

Running == pc \notin {"accepted", "rejected"}

Position == 1 .. Len(tokens)

currentToken == tokens[at]

isSegmentTag(tag) == currentToken = [type |-> "SegmentTag", value |-> tag]

IsData(i) == tokens[i].type \in {"DataElement", "Component"}

First == IF currentToken.type = "SegmentTag" THEN at + 1 ELSE at

\* where readSegment stops reading: the position behind the data
Stop == CHOOSE j \in Position :
            /\ j >= First /\ ~IsData(j)
            /\ \A k \in First .. j - 1 : IsData(k)

(* readSegment returns at the end of a segment, before the next tag, or at  *)
(* the end of the input; over an error token it does not return             *)
(* (ReadForEver).                                                           *)
ReadSegment ==
    /\ tokens[Stop].type # "Error"
    /\ at' = IF tokens[Stop].type = "SegmentEnd" THEN Stop + 1 ELSE Stop

(* The data elements of the segment.  One opens with every data element     *)
(* token, and with a component at the very start; the components behind it  *)
(* belong to it.                                                            *)
OpensElement(i) == i = First \/ tokens[i].type = "DataElement"

Openings(upTo) == {i \in First .. upTo : OpensElement(i)}

ElementCount == Cardinality(Openings(Stop - 1))

\* where element e opens, if it has a component c: at one position or at none
Opening(e, c) ==
    {i \in Openings(Stop - 1) :
        /\ Cardinality(Openings(i)) = e
        /\ i + c - 1 < Stop
        /\ \A k \in i + 1 .. i + c - 1 : ~OpensElement(k)}

Has(e, c) == Opening(e, c) # {}

Component(e, c) ==
    IF Has(e, c) THEN tokens[(CHOOSE i \in Opening(e, c) : TRUE) + c - 1].value ELSE Empty

\* the error, where there is one
Reported(problem, condition) == IF condition THEN {problem} ELSE {}

-------------------------------------------------------------------------------
(* Parse: the advice and the interchange header *)

NoAdvice ==
    /\ pc = "advice"
    /\ ~isSegmentTag("UNA")
    /\ pc' = "UNB"
    /\ UNCHANGED <<tokens, at, result, message, errors>>

\* where skipSegment stops skipping: at the end of the segment or of the stream
SkipStop == CHOOSE j \in Position :
                LET Skips(k) == tokens[k].type \notin {"SegmentEnd"} \cup Ending
                IN  /\ j >= at /\ ~Skips(j)
                    /\ \A k \in at .. j - 1 : Skips(k)

SkipAdvice ==
    /\ pc = "advice"
    /\ isSegmentTag("UNA")
    /\ tokens[SkipStop].type # "Error"
    /\ at' = IF tokens[SkipStop].type = "SegmentEnd" THEN SkipStop + 1 ELSE SkipStop
    /\ pc' = "UNB"
    /\ UNCHANGED <<tokens, result, message, errors>>

Missing(problem) ==
    /\ pc' = "rejected"
    /\ errors' = errors \cup {problem}
    /\ UNCHANGED <<tokens, at, result, message>>

MissingUNB ==
    /\ pc = "UNB"
    /\ ~isSegmentTag("UNB")
    /\ Missing("missingUNB")

Header ==
    LET date == <<Component(4, 1), Component(4, 2)>>
    IN  [result EXCEPT !.sender    = Component(2, 1),
                       !.receiver  = Component(3, 1),
                       !.prepared  = IF Has(4, 2) /\ date \in Date THEN date ELSE NoDate,
                       !.reference = Component(5, 1)]

HeaderProblems ==
    Reported("date", Has(4, 2) /\ result'.prepared = NoDate)
    \cup Reported("sender", result'.sender = Empty)
    \cup Reported("receiver", result'.receiver = Empty)
    \cup Reported("reference", result'.reference = Empty)

ShortUNB ==
    /\ pc = "UNB"
    /\ isSegmentTag("UNB")
    /\ ElementCount < 5
    /\ ReadSegment
    /\ errors' = errors \cup {"shortUNB"}
    /\ pc' = "rejected"
    /\ UNCHANGED <<tokens, result, message>>

parseUNB ==
    /\ pc = "UNB"
    /\ isSegmentTag("UNB")
    /\ ElementCount >= 5
    /\ ReadSegment
    /\ result' = Header
    /\ errors' = errors \cup HeaderProblems
    /\ pc' = IF errors' = {} THEN "message" ELSE "rejected"
    /\ UNCHANGED <<tokens, message>>

-------------------------------------------------------------------------------
(* The messages *)

KeepsSubscription ==
    [reference |-> Component(1, 1), type |-> Component(2, 1),
     subscription |-> message.subscription]

MessageHeader ==
    [reference |-> Component(1, 1), type |-> Component(2, 1), subscription |-> Empty]

MessageHeaderProblems ==
    Reported("messageReference", message'.reference = Empty)
    \cup Reported("messageType", message'.type = Empty)

\* a header too short yields no message: the loop goes on behind it
ShortUNH ==
    /\ pc = "message"
    /\ isSegmentTag("UNH")
    /\ ElementCount < 2
    /\ ReadSegment
    /\ errors' = errors \cup {"shortUNH"}
    /\ UNCHANGED <<tokens, pc, result, message>>

ReadUNH ==
    /\ pc = "message"
    /\ isSegmentTag("UNH")
    /\ ElementCount >= 2
    /\ ReadSegment
    /\ message' = MessageHeader
    /\ errors' = errors \cup MessageHeaderProblems
    /\ pc' = "body"
    /\ UNCHANGED <<tokens, result>>

ReadsOnAtEnd == ~isSegmentTag("UNT")

\* the condition of the body loop
BodyGoesOn == currentToken.type # "EOF" /\ ~isSegmentTag("UNT")

\* the last LOC 172 with a second element names the subscription
ReadBody ==
    /\ pc = "body"
    /\ BodyGoesOn
    /\ ReadSegment
    /\ message' = IF /\ isSegmentTag("LOC")
                     /\ Component(1, 1) = "172"
                     /\ Has(2, 1)
                  THEN [message EXCEPT !.subscription = Component(2, 1)]
                  ELSE message
    /\ UNCHANGED <<tokens, pc, result, errors>>

KeepsDuplicates ==
    result' = [result EXCEPT
        !.messages      = Append(@, message),
        !.subscriptions = IF message.subscription = Empty THEN @
                          ELSE Append(@, message.subscription)]

(* parseMessage returns the message, with or without its trailer, and Parse *)
(* adds it and the subscription it names.                                   *)
AddMessage ==
    LET known == Range(result.subscriptions) \cup {Empty}
    IN  result' = [result EXCEPT
            !.messages      = Append(@, message),
            !.subscriptions = IF message.subscription \in known THEN @
                              ELSE Append(@, message.subscription)]

ReadUNT ==
    /\ pc = "body"
    /\ isSegmentTag("UNT")
    /\ ReadSegment
    /\ AddMessage
    /\ pc' = "message"
    /\ UNCHANGED <<tokens, message, errors>>

MissingUNT ==
    /\ pc = "body"
    /\ ~BodyGoesOn
    /\ ~isSegmentTag("UNT")
    /\ AddMessage
    /\ errors' = errors \cup {"missingUNT"}
    /\ pc' = "message"
    /\ UNCHANGED <<tokens, at, message>>

-------------------------------------------------------------------------------
(* The interchange trailer *)

MissingUNZ ==
    /\ pc = "message"
    /\ ~isSegmentTag("UNH")
    /\ ~isSegmentTag("UNZ")
    /\ Missing("missingUNZ")

IgnoresCount ==
    IF ElementCount < 2 THEN {"shortUNZ"}
    ELSE Reported("trailerReference", Has(2, 1) /\ Component(2, 1) # result.reference)

\* a count that is no number, and an element without a value, are not checked
TrailerProblems ==
    IF ElementCount < 2 THEN {"shortUNZ"}
    ELSE Reported("count", /\ Component(1, 1) \in Count
                           /\ CountOf[Component(1, 1)] # Len(result.messages))
         \cup Reported("trailerReference",
                       Has(2, 1) /\ Component(2, 1) # result.reference)

ForgetsEarlierErrors ==
    /\ pc = "message"
    /\ isSegmentTag("UNZ")
    /\ ReadSegment
    /\ errors' = errors \cup TrailerProblems
    /\ pc' = IF TrailerProblems = {} THEN "accepted" ELSE "rejected"
    /\ UNCHANGED <<tokens, result, message>>

parseUNZ ==
    /\ pc = "message"
    /\ isSegmentTag("UNZ")
    /\ ReadSegment
    /\ errors' = errors \cup TrailerProblems
    /\ pc' = IF errors' = {} THEN "accepted" ELSE "rejected"
    /\ UNCHANGED <<tokens, result, message>>

-------------------------------------------------------------------------------
(* The loops over an error token: NextToken returns the same token again,   *)
(* so the loop turns for good.  Its first turn is the step into "looping";  *)
(* the later ones repeat the error and change nothing else.                 *)

\* readSegment is called here
SegmentDue ==
    \/ pc = "UNB" /\ isSegmentTag("UNB")
    \/ pc = "message" /\ (isSegmentTag("UNH") \/ isSegmentTag("UNZ"))
    \/ pc = "body" /\ (BodyGoesOn \/ isSegmentTag("UNT"))

ReadForEver ==
    /\ SegmentDue
    /\ tokens[Stop].type = "Error"
    /\ at' = Stop
    /\ errors' = errors \cup {"unexpectedToken"}
    /\ pc' = "looping"
    /\ UNCHANGED <<tokens, result, message>>

SkipForEver ==
    /\ pc = "advice"
    /\ isSegmentTag("UNA")
    /\ tokens[SkipStop].type = "Error"
    /\ at' = SkipStop
    /\ pc' = "looping"
    /\ UNCHANGED <<tokens, result, message, errors>>

Parse ==
    \/ NoAdvice \/ SkipAdvice \/ MissingUNB \/ ShortUNB \/ parseUNB
    \/ ShortUNH \/ ReadUNH \/ ReadBody \/ ReadUNT \/ MissingUNT
    \/ MissingUNZ \/ parseUNZ \/ ReadForEver \/ SkipForEver

(* Fairness: Parse runs on the goroutine of the request, to its end if it   *)
(* has one.                                                                 *)
Spec == NewParser /\ [][Parse]_vars /\ WF_vars(Parse)

-------------------------------------------------------------------------------
(* The reference the parser is compared with: the interchange as a list of  *)
(* segments, read off the whole stream.                                     *)

\* a finite set of numbers as a sequence, smallest first
InOrder(S) ==
    [n \in 1 .. Cardinality(S) |-> CHOOSE x \in S : Cardinality({y \in S : y <= x}) = n]

(* Cut the data at first .. last before every data element.                 *)
Elements(stream, first, last) ==
    LET opening == InOrder({i \in first .. last :
                               i = first \/ stream[i].type = "DataElement"})
        end(n) == IF n < Len(opening) THEN opening[n + 1] - 1 ELSE last
    IN  [n \in DOMAIN opening |->
            [j \in 1 .. end(n) - opening[n] + 1 |-> stream[opening[n] + j - 1].value]]

Closing(stream) ==
    InOrder({i \in DOMAIN stream :
        \/ stream[i].type = "SegmentEnd"
        \/ i = Len(stream) /\ i > 1 /\ stream[i - 1].type # "SegmentEnd"})

\* the segment that begins at from and is closed at to
Segment(stream, from, to) ==
    LET tagged == stream[from].type = "SegmentTag"
    IN  [tag      |-> IF tagged THEN stream[from].value ELSE Empty,
         elements |-> Elements(stream, IF tagged THEN from + 1 ELSE from, to - 1)]

AllSegments(stream) ==
    LET closing == Closing(stream)
    IN  [n \in DOMAIN closing |->
            Segment(stream, IF n = 1 THEN 1 ELSE closing[n - 1] + 1, closing[n])]

\* the segments behind the service advice
Segments(stream) ==
    LET all == AllSegments(stream)
        advised == all # <<>> /\ all[1].tag = "UNA"
    IN  SubSeq(all, IF advised THEN 2 ELSE 1, Len(all))

\* component c of element e of a segment, where the segment has it
ValueAt(seg, e, c) ==
    IF e <= Len(seg.elements) /\ c <= Len(seg.elements[e]) THEN seg.elements[e][c] ELSE Empty

HeaderComplete(seg) ==
    /\ seg.tag = "UNB"
    /\ Len(seg.elements) >= 5
    /\ \A e \in {2, 3, 5} : ValueAt(seg, e, 1) # Empty
    /\ Len(seg.elements[4]) >= 2 =>
           <<seg.elements[4][1], seg.elements[4][2]>> \in Date

MessageStarts(seg) ==
    /\ seg.tag = "UNH"
    /\ ValueAt(seg, 1, 1) # Empty
    /\ ValueAt(seg, 2, 1) # Empty

TrailerAgrees(seg, number, reference) ==
    /\ seg.tag = "UNZ"
    /\ Len(seg.elements) >= 2
    /\ seg.elements[1][1] \in Count => CountOf[seg.elements[1][1]] = number
    /\ seg.elements[2][1] = reference

\* a message, or the trailer of the interchange, may begin at segment h
Opens(S, h) == h = 2 \/ S[h - 1].tag = "UNT"

\* the message trailers between the header of the interchange and segment z
MessageTrailers(S, z) == {u \in 2 .. z - 1 : S[u].tag = "UNT"}

(* Segment z of S closes an interchange of messages: each message runs from *)
(* the segment behind the header or the last trailer to the next UNT.       *)
ClosesAt(S, z) ==
    /\ Opens(S, z)
    /\ \A h \in 2 .. z - 1 : Opens(S, h) => MessageStarts(S[h])
    /\ TrailerAgrees(S[z], Cardinality(MessageTrailers(S, z)), ValueAt(S[1], 5, 1))

ValidInterchange(S) ==
    /\ S # <<>>
    /\ HeaderComplete(S[1])
    /\ \E z \in 2 .. Len(S) : ClosesAt(S, z)

MessageBetween(S, h, u) ==
    LET named == {i \in h + 1 .. u - 1 : /\ S[i].tag = "LOC"
                                         /\ ValueAt(S[i], 1, 1) = "172"
                                         /\ Len(S[i].elements) > 1}
        latest == CHOOSE i \in named : \A j \in named : j <= i
    IN  [reference    |-> ValueAt(S[h], 1, 1),
         type         |-> ValueAt(S[h], 2, 1),
         subscription |-> IF named = {} THEN Empty ELSE ValueAt(S[latest], 2, 1)]

MessagesUpTo(S, z) ==
    LET trailers == InOrder(MessageTrailers(S, z))
        header(n) == IF n = 1 THEN 2 ELSE trailers[n - 1] + 1
    IN  [n \in DOMAIN trailers |-> MessageBetween(S, header(n), trailers[n])]

MessagesOf(S) == MessagesUpTo(S, CHOOSE z \in 2 .. Len(S) : ClosesAt(S, z))

-------------------------------------------------------------------------------
(* Properties *)

ParseResult == [sender : Value, receiver : Value, prepared : Date \cup {NoDate},
                reference : Value, messages : Seq(Message), subscriptions : Seq(Value)]

(* Type invariant.                                                          *)
TypeOK ==
    /\ tokens \in Seq(TokenRecord)
    /\ at \in Position
    /\ pc \in {"advice", "UNB", "message", "body", "looping", "accepted", "rejected"}
    /\ result \in ParseResult
    /\ message \in Message
    /\ errors \subseteq Problem

(* Parse accepts exactly the interchanges whose segments follow the         *)
(* grammar, whatever order headers, bodies and trailers come in             *)
(* (parser.go:175-231).  What follows the trailer is not looked at.         *)
AcceptsTheGrammar ==
    ~Running => (pc = "accepted" <=> ValidInterchange(Segments(tokens)))

(* An accepted interchange has the messages of the stream, in order, each   *)
(* with its own reference, type and subscription (parser.go:302-374).       *)
MessagesMirrorTheStream ==
    pc = "accepted" => result.messages = MessagesOf(Segments(tokens))

(* The subscriptions of the result are those its messages name, each once:  *)
(* the service looks up the row of a message's subscription in the rows it  *)
(* made for this list (parser.go:207-212, ingestion_service.go).            *)
SubscriptionsCoverMessages ==
    /\ Range(result.subscriptions) =
           {m.subscription : m \in Range(result.messages)} \ {Empty}
    /\ \A i, j \in DOMAIN result.subscriptions :
           result.subscriptions[i] = result.subscriptions[j] => i = j

(* Parse returns a complete result or an error, never neither: an accepted  *)
(* interchange names its sender, receiver and reference and each message    *)
(* its reference and type; a rejection has something to report, since the   *)
(* callers of combinedError take nil for success (parser.go:513).           *)
CompleteOrExplained ==
    /\ pc = "accepted" =>
           /\ Empty \notin {result.sender, result.receiver, result.reference}
           /\ \A m \in Range(result.messages) : Empty \notin {m.reference, m.type}
    /\ pc = "rejected" => errors # {}

(* Parse comes to an end on every stream that has one, however damaged its  *)
(* segments are.                                                            *)
TerminatesOnEndOfInput ==
    tokens[Len(tokens)].type = "EOF" => <>~Running

(* What Parse says of itself: it collects the errors it meets and returns   *)
(* them (parser.go:174), an error token of the lexer like any other         *)
(* (parser.go:469-472).                                                     *)
ReportsErrorTokens == <>~Running
===============================================================================
