-------------------------------- MODULE Lexer ---------------------------------
(***************************************************************************)
(* The scanner of lexer.go, one byte per step.  The parser calls NextToken *)
(* until it sees the end of the input; the steps of mode "next" are the    *)
(* dispatch at the head of NextToken, those of the modes "tag" and "value" *)
(* the loops of lexSegmentTag and lexValue.                                *)
(*                                                                         *)
(* Bytes are model values or one-character strings; which of them are      *)
(* letters and digits, blanks, and the delimiters in force are parameters. *)
(* Line and column, which only feed messages, and the two-byte look-ahead  *)
(* buffer are left out.                                                    *)
(***************************************************************************)
EXTENDS Token, Naturals, Sequences, SequencesExt

CONSTANTS
    Byte,           \* the bytes an input is made of
    Alnum,          \* ASCII letters and digits
    Blank,          \* space, tab, newline, carriage return
    NUL,            \* the zero byte, also the lexer's mark of the end of input
    DelimiterSets,  \* the delimiters an interchange may choose
    Inputs          \* the inputs of this instance

Delimiters == [component : Byte, element : Byte, release : Byte, terminator : Byte]

Structural(d) == {d.component, d.element, d.terminator}

(* ParseUNA takes whatever six bytes follow UNA: letters, blanks, one byte  *)
(* for two purposes.                                                        *)
ASSUME LexerAssumption ==
    /\ Alnum \subseteq Byte /\ Blank \subseteq Byte /\ NUL \in Byte
    /\ Alnum \cap Blank = {} /\ NUL \notin Alnum \cup Blank
    /\ DelimiterSets \subseteq Delimiters
    /\ Inputs \subseteq Seq(Byte)

(* What ISO 9735 means by delimiters: different bytes, none of them data *)
Suitable(d) ==
    /\ Structural(d) \cap (Alnum \cup Blank \cup {NUL}) = {}
    /\ d.release \notin Alnum \cup Blank \cup {NUL} \cup Structural(d)
    /\ d.component # d.element
    /\ d.terminator \notin {d.component, d.element}

VARIABLES
    text,               \* the bytes behind the reader
    delimiters,         \* the delimiters in force
    at,                 \* the position of current
    afterSegmentEnd,    \* the fields of the Lexer of that name
    atSegmentStart,
    mode,               \* between calls, or in the loop of a tag or a value
    kind,               \* tokenType of lexValue
    buf,                \* the bytes of the token being read
    tokens              \* the tokens returned so far

vars == <<text, delimiters, at, afterSegmentEnd, atSegmentStart, mode, kind, buf, tokens>>

input == <<text, delimiters>>

flags == <<afterSegmentEnd, atSegmentStart>>

NewLexer ==
    /\ text \in Inputs
    /\ delimiters \in DelimiterSets
    /\ at = 1
    /\ afterSegmentEnd = TRUE
    /\ atSegmentStart = TRUE
    /\ mode = "next"
    /\ kind = "DataElement"
    /\ buf = <<>>
    /\ tokens = <<>>

ByteAt(i) == IF i \in 1 .. Len(text) THEN text[i] ELSE NUL

current == ByteAt(at)

peek == ByteAt(at + 1)

Latest == IF tokens = <<>> THEN "start" ELSE tokens[Len(tokens)].type

(* NextToken returns.  A call that returns the end again reads nothing and  *)
(* changes nothing, so the end of the stream is kept once; so is an error,  *)
(* which with suitable delimiters is returned again as well.  Where the     *)
(* release character is also a letter, a blank or a separator, the calls    *)
(* behind its error at the end of the input go on to read it as that, and   *)
(* then the end: these are left out.                                        *)
Emit(type, value) ==
    /\ Latest \notin Ending
    /\ tokens' = Append(tokens, [type |-> type, value |-> value])
    /\ mode' = "next"
    /\ buf' = <<>>

-------------------------------------------------------------------------------
(* The head of NextToken *)

NeverSkips == FALSE

Skipping == mode = "next" /\ afterSegmentEnd /\ current \in Blank

Dispatching == mode = "next" /\ ~Skipping

SkipsInPlace ==
    /\ Skipping
    /\ UNCHANGED vars

SkipBlank ==
    /\ Skipping
    /\ at' = at + 1
    /\ UNCHANGED <<input, flags, mode, kind, buf, tokens>>

EndOfInput ==
    /\ Dispatching
    /\ current = NUL
    /\ Emit("EOF", <<>>)
    /\ UNCHANGED <<input, at, flags, kind>>

TagAhead ==
    /\ current \in Alnum
    /\ afterSegmentEnd \/ (atSegmentStart /\ current \notin Structural(delimiters))

BeginTag ==
    /\ Dispatching
    /\ TagAhead
    /\ mode' = "tag"
    /\ UNCHANGED <<input, at, flags, kind, buf, tokens>>

(* The byte is tested against the delimiters in this order, after the end   *)
(* of the input and the tag                                                 *)
Separates == Dispatching /\ ~TagAhead /\ current # NUL

LexSegmentEnd ==
    /\ Separates
    /\ current = delimiters.terminator
    /\ Emit("SegmentEnd", <<current>>)
    /\ at' = at + 1
    /\ afterSegmentEnd' = TRUE
    /\ atSegmentStart' = TRUE
    /\ UNCHANGED <<input, kind>>

BeginDataElement ==
    /\ Separates
    /\ current = delimiters.element /\ current # delimiters.terminator
    /\ at' = at + 1
    /\ atSegmentStart' = FALSE
    /\ mode' = "value"
    /\ kind' = "DataElement"
    /\ UNCHANGED <<input, afterSegmentEnd, buf, tokens>>

BeginComponent ==
    /\ Separates
    /\ current = delimiters.component
    /\ current \notin {delimiters.terminator, delimiters.element}
    /\ at' = at + 1
    /\ mode' = "value"
    /\ kind' = "Component"
    /\ UNCHANGED <<input, flags, buf, tokens>>

\* nothing matches: the byte stays where it is
Unexpected ==
    /\ Separates
    /\ current \notin Structural(delimiters)
    /\ Emit("Error", <<>>)
    /\ UNCHANGED <<input, at, flags, kind>>

-------------------------------------------------------------------------------
(* lexSegmentTag and lexValue *)

TagByte ==
    /\ mode = "tag"
    /\ current \in Alnum
    /\ buf' = Append(buf, current)
    /\ at' = at + 1
    /\ UNCHANGED <<input, flags, mode, kind, tokens>>

StaysAfterSegmentEnd ==
    /\ mode = "tag"
    /\ current \notin Alnum
    /\ Emit("SegmentTag", buf)
    /\ atSegmentStart' = TRUE
    /\ UNCHANGED <<input, at, kind, afterSegmentEnd>>

EndTag ==
    /\ mode = "tag"
    /\ current \notin Alnum
    /\ Emit("SegmentTag", buf)
    /\ afterSegmentEnd' = FALSE
    /\ atSegmentStart' = TRUE
    /\ UNCHANGED <<input, at, kind>>

Released == mode = "value" /\ current = delimiters.release /\ current # NUL

EndsValue == Structural(delimiters) \cup {NUL}

KeepsEscapedByte ==
    /\ Released
    /\ peek # NUL
    /\ buf' = Append(buf, peek)
    /\ at' = at + 1
    /\ UNCHANGED <<input, flags, mode, kind, tokens>>

ReleasedByte ==
    /\ Released
    /\ peek # NUL
    /\ buf' = Append(buf, peek)
    /\ at' = at + 2
    /\ UNCHANGED <<input, flags, mode, kind, tokens>>

\* the value read so far is dropped and the release character stays
ReleaseAtEnd ==
    /\ Released
    /\ peek = NUL
    /\ Emit("Error", <<>>)
    /\ UNCHANGED <<input, at, flags, kind>>

ValueByte ==
    /\ mode = "value"
    /\ current \notin EndsValue \cup {delimiters.release}
    /\ buf' = Append(buf, current)
    /\ at' = at + 1
    /\ UNCHANGED <<input, flags, mode, kind, tokens>>

EndValue ==
    /\ mode = "value"
    /\ current \in EndsValue /\ ~Released
    /\ Emit(kind, buf)
    /\ UNCHANGED <<input, at, flags, kind>>

NextToken ==
    \/ SkipBlank \/ EndOfInput \/ LexSegmentEnd \/ Unexpected
    \/ BeginTag \/ TagByte \/ EndTag
    \/ BeginDataElement \/ BeginComponent
    \/ ReleasedByte \/ ReleaseAtEnd \/ ValueByte \/ EndValue

(* Fairness: the parser runs on the request's goroutine and keeps calling   *)
(* NextToken until the stream ends.                                         *)
Spec == NewLexer /\ [][NextToken]_vars /\ WF_vars(NextToken)

-------------------------------------------------------------------------------
(* The reference the scanner is compared with: what each byte of the input  *)
(* means, read off the whole text.  The text ends at its first NUL.         *)

Used == LET end == SelectInSeq(text, LAMBDA b : b = NUL)
        IN  IF end = 0 THEN text ELSE SubSeq(text, 1, end - 1)

\* released[i]: byte i follows a release character that acts on it
released[i \in 0 .. Len(Used)] ==
    i > 1 /\ Used[i - 1] = delimiters.release /\ ~released[i - 1]

Mark(i) == Used[i] \in Structural(delimiters) /\ ~released[i]

Releases(i) == Used[i] = delimiters.release /\ ~released[i]

EndsSegment(i) == Mark(i) /\ Used[i] = delimiters.terminator

\* a blank before the first byte of a segment
Between(i) == \E j \in 0 .. i - 1 :
    /\ j = 0 \/ EndsSegment(j)
    /\ \A k \in j + 1 .. i : Used[k] \in Blank

\* before the first separator of its segment, where only a tag may be
Opening(i) == \A j \in 1 .. i - 1 :
    Mark(j) => \E k \in j .. i - 1 : EndsSegment(k)

WellFormed == \A i \in DOMAIN Used :
    /\ Opening(i) => Used[i] \in Alnum \cup Structural(delimiters) \/ Between(i)
    /\ Releases(i) => i < Len(Used)

Data(value) == [i \in DOMAIN value |-> <<value[i], "data">>]

Separator(b) == <<<<b, "mark">>>>

\* meaning[i]: what the first i bytes say
meaning[i \in 0 .. Len(Used)] ==
    IF i = 0 THEN <<>>
    ELSE IF Releases(i) \/ Between(i) THEN meaning[i - 1]
    ELSE Append(meaning[i - 1], <<Used[i], IF Mark(i) THEN "mark" ELSE "data">>)

Meaning == meaning[Len(Used)]

Written(t) ==
    CASE t.type = "SegmentTag"  -> Data(t.value)
      [] t.type = "DataElement" -> Separator(delimiters.element) \o Data(t.value)
      [] t.type = "Component"   -> Separator(delimiters.component) \o Data(t.value)
      [] t.type = "SegmentEnd"  -> Separator(delimiters.terminator)
      [] OTHER                  -> <<>>

-------------------------------------------------------------------------------
(* Properties *)

TokenRecord == [type : TokenType, value : Seq(Byte)]

(* Type invariant: the fields of the Lexer and the tokens it has returned.  *)
TypeOK ==
    /\ text \in Seq(Byte)
    /\ delimiters \in DelimiterSets
    /\ at \in 1 .. Len(text) + 1
    /\ afterSegmentEnd \in BOOLEAN
    /\ atSegmentStart \in BOOLEAN
    /\ mode \in {"next", "tag", "value"}
    /\ kind \in {"DataElement", "Component"}
    /\ buf \in Seq(Byte)
    /\ tokens \in Seq(TokenRecord)

(* Reading to the end of the input loses, invents and reorders nothing:    *)
(* released delimiters are data, all others are separators, and of the     *)
(* text only acting release characters and blanks between segments vanish  *)
(* (lexer.go lexValue, skipInterSegmentWhitespace).                        *)
LosesNothing ==
    Latest = "EOF" /\ Suitable(delimiters) =>
        FlattenSeq([i \in DOMAIN tokens |-> Written(tokens[i])]) = Meaning

(* The lexer gives up on an input exactly when it is malformed: a byte that *)
(* is no tag before the first separator of a segment, or a release          *)
(* character with nothing to release (lexer.go:98, 140).                    *)
GivesUpOnlyOnBadInput ==
    Latest \in Ending /\ Suitable(delimiters) => (Latest = "EOF" <=> WellFormed)

(* NextToken always makes progress: a parser that keeps asking sees the end *)
(* of the input or an error token, whatever the input.                      *)
ReachesAnEnd == <>(Latest \in Ending)

Types ==
    IF Suitable(delimiters) THEN [i \in DOMAIN tokens |-> tokens[i].type] ELSE <<>>

Stream == INSTANCE TokenStream WITH types <- Types

(* The tokens come in the order the parser relies on: one tag at most, at   *)
(* the start of a segment, and an end that stays (parser.go:426, 461).      *)
KeepsTokenOrder == Stream!Spec
===============================================================================
