------------------------------- MODULE MCParser -------------------------------
(***************************************************************************)
(* Instances of Parser for TLC.  Streams are put together from segments:   *)
(* every variant of the interchange header before a closing trailer, every *)
(* sequence of up to MaxBody pieces between a good header and every        *)
(* variant of the trailer; each stream ends behind its last segment or in  *)
(* the middle of it.                                                       *)
(***************************************************************************)
EXTENDS Parser

CONSTANT MaxBody        \* the most pieces of MCBody between header and trailer

MCDate == {<<"today", "now">>}

MCCountOf == [c \in Count |-> CASE c = "0" -> 0 [] c = "1" -> 1 [] c = "2" -> 2]

Tok(type, value) == [type |-> type, value |-> value]

ElementTokens(values) ==
    [i \in DOMAIN values |->
        Tok(IF i = 1 THEN "DataElement" ELSE "Component", values[i])]

Tagged(tag, elements) ==
    <<Tok("SegmentTag", tag)>>
    \o FlattenSeq([e \in DOMAIN elements |-> ElementTokens(elements[e])])
    \o <<Tok("SegmentEnd", Empty)>>

UNB(sender, receiver, date, reference) ==
    Tagged("UNB", <<<<"x">>, <<sender>>, <<receiver, "x">>, date, <<reference>>>>)

GoodUNB == UNB("x", "x", <<"today", "now">>, "ref")

Headers ==
    {UNB(s, r, d, f) : s \in {"x", Empty}, r \in {"x", Empty}, f \in {"ref", Empty},
                       d \in {<<"today", "now">>, <<"today">>, <<"now", "today">>}}
    \cup {Tagged("UNB", <<<<"x">>, <<"x">>, <<"x">>, <<"x">>>>),
          Tagged("UNH", <<<<"x">>, <<"x">>>>)}

Advices == {<<>>, Tagged("UNA", <<>>)}

GoodUNH == Tagged("UNH", <<<<"x">>, <<"x", "ref">>>>)

UNT == Tagged("UNT", <<>>)

LOC(value) == Tagged("LOC", <<<<"172">>, <<value>>>>)

MCBody ==
    {GoodUNH, Tagged("UNH", <<<<"x">>>>), Tagged("UNH", <<<<"x">>, <<Empty>>>>), UNT,
     LOC("a"), Tagged("LOC", <<<<"172">>>>), <<Tok("Component", "172"), Tok("SegmentEnd", Empty)>>,
     GoodUNH \o LOC("a") \o UNT, GoodUNH \o LOC("x")}

Trailers ==
    {<<>>, Tagged("UNZ", <<<<"1">>>>), Tagged("UNZ", <<<<"x">>, <<"ref">>>>),
     Tagged("UNZ", <<<<"1">>, <<"x">>>>)}
    \cup {Tagged("UNZ", <<<<c>>, <<"ref">>>>) : c \in Count}

Streams ==
    {a \o h \o t : a \in Advices, h \in Headers,
                   t \in {Tagged("UNZ", <<<<"0">>, <<"ref">>>>), <<>>}}
    \cup Advices
    \cup {GoodUNB \o FlattenSeq(b) \o t :
             b \in UNION {[1 .. n -> MCBody] : n \in 0 .. MaxBody}, t \in Trailers}

Ended(stream, end) == Append(stream, Tok(end, Empty))

\* an error token inside the advice, inside the header, behind it, and in a body
ErrorInputs == {Ended(Front(Tagged("UNA", <<>>)), "Error"), Ended(Front(GoodUNB), "Error"),
    Ended(GoodUNB, "Error"), Ended(GoodUNB \o GoodUNH, "Error")}

MCInputs ==
    {Ended(s, "EOF") : s \in Streams}
    \cup {Ended(Front(s), "EOF") : s \in {s \in Streams : Len(s) > 1}}
    \cup ErrorInputs
===============================================================================
