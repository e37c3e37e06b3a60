----------------------------- MODULE Lexer_proofs -----------------------------
(***************************************************************************)
(* Proofs about Lexer, for every input and every choice of delimiters: its *)
(* type invariant and, for suitable delimiters, that its tokens come in    *)
(* the order the parser relies on (the lexer implements TokenStream), that *)
(* it reports an error exactly on malformed texts, and that the tokens of  *)
(* a text it reads to the end say what the text says.  For delimiters of   *)
(* any kind every step brings it closer to its end.                        *)
(***************************************************************************)
EXTENDS Lexer, SequenceTheorems, WellFoundedInduction, TLAPS

Mid == {"SegmentTag", "DataElement", "Component"}

(* What Parser assumes of the streams it reads, for suitable delimiters.    *)
HandsOutAStream ==
    Latest \in Ending /\ Suitable(delimiters) =>
        /\ Types # <<>>
        /\ Orderly(Types)
        /\ Types[Len(Types)] \in Ending

(* What keeps a second tag out of a segment.  Between two calls the byte    *)
(* behind a tag or a value is one no tag starts with, and no blank that     *)
(* would be skipped to reach one.                                           *)
OrderInv ==
    Suitable(delimiters) =>
        /\ mode = "tag" => Latest \notin Mid
        /\ mode = "next" /\ Latest = "SegmentTag" => ~afterSegmentEnd /\ current \notin Alnum
        /\ mode = "next" /\ Latest \in {"DataElement", "Component"} => current \in EndsValue

-------------------------------------------------------------------------------
(* The byte at any position is a byte, and one that is not NUL is inside    *)
(* the text (lexer.go readByte).                                            *)
LEMMA BytesOfText ==
    ASSUME TypeOK
    PROVE  /\ \A i \in Nat : ByteAt(i) \in Byte
           /\ \A i \in Nat : ByteAt(i) # NUL => i \in 1 .. Len(text)
  BY LexerAssumption DEF TypeOK, ByteAt

(* A token that is returned is the latest one, and there was no end before. *)
LEMMA EmittedIsLatest ==
    ASSUME TypeOK, NEW type \in TokenType, NEW value \in Seq(Byte), Emit(type, value)
    PROVE  /\ tokens' \in Seq(TokenRecord)
           /\ Latest' = type
           /\ Latest \notin Ending
           /\ mode' = "next"
           /\ buf' = <<>>
  <1>1. [type |-> type, value |-> value] \in TokenRecord
    BY DEF TokenRecord
  <1>2. /\ tokens' = Append(tokens, [type |-> type, value |-> value])
        /\ Latest \notin Ending
        /\ mode' = "next"
        /\ buf' = <<>>
    BY DEF Emit
  <1>3. /\ tokens' \in Seq(TokenRecord)
        /\ tokens' # <<>>
        /\ tokens'[Len(tokens')] = [type |-> type, value |-> value]
    BY <1>1, <1>2 DEF TypeOK
  <1>4. Latest' = type
    BY <1>3 DEF Latest
  <1> QED
    BY <1>2, <1>3, <1>4

-------------------------------------------------------------------------------
(* The fields of the lexer keep their types and the position stays inside   *)
(* the text or directly behind it (lexer.go NextToken and the functions it  *)
(* calls).                                                                  *)
LEMMA TypeStep == TypeOK /\ [NextToken]_vars => TypeOK'
  <1> SUFFICES ASSUME TypeOK, [NextToken]_vars
               PROVE  TypeOK'
    OBVIOUS
  <1>b. /\ current \in Byte
        /\ peek \in Byte
        /\ current # NUL => at + 1 \in 1 .. Len(text) + 1
        /\ peek # NUL => at + 2 \in 1 .. Len(text) + 1
    BY BytesOfText DEF TypeOK, current, peek
  <1>d. NUL \notin Blank /\ NUL \notin Alnum
    BY LexerAssumption
  <1>t. {"EOF", "Error", "SegmentEnd", "SegmentTag"} \subseteq TokenType
    BY DEF TokenType
  <1>1. CASE SkipBlank
    BY <1>1, <1>b, <1>d DEF SkipBlank, Skipping, TypeOK, input, flags
  <1>2. CASE EndOfInput
    <2>1. Emit("EOF", <<>>) /\ <<>> \in Seq(Byte)
      BY <1>2 DEF EndOfInput
    <2>2. tokens' \in Seq(TokenRecord) /\ mode' = "next" /\ buf' = <<>>
      BY <2>1, <1>t, EmittedIsLatest
    <2> QED
      BY <1>2, <2>2 DEF EndOfInput, TypeOK, input, flags
  <1>3. CASE BeginTag
    BY <1>3 DEF BeginTag, TypeOK, input, flags
  <1>4. CASE LexSegmentEnd
    <2>1. Emit("SegmentEnd", <<current>>) /\ <<current>> \in Seq(Byte)
      BY <1>4, <1>b DEF LexSegmentEnd
    <2>2. tokens' \in Seq(TokenRecord) /\ mode' = "next" /\ buf' = <<>>
      BY <2>1, <1>t, EmittedIsLatest
    <2> QED
      BY <1>4, <2>2, <1>b, <1>d DEF LexSegmentEnd, Separates, TypeOK, input, flags
  <1>5. CASE BeginDataElement
    BY <1>5, <1>b, <1>d DEF BeginDataElement, Separates, TypeOK, input
  <1>6. CASE BeginComponent
    BY <1>6, <1>b, <1>d DEF BeginComponent, Separates, TypeOK, input, flags
  <1>7. CASE Unexpected
    <2>1. Emit("Error", <<>>) /\ <<>> \in Seq(Byte)
      BY <1>7 DEF Unexpected
    <2>2. tokens' \in Seq(TokenRecord) /\ mode' = "next" /\ buf' = <<>>
      BY <2>1, <1>t, EmittedIsLatest
    <2> QED
      BY <1>7, <2>2 DEF Unexpected, TypeOK, input, flags
  <1>8. CASE TagByte
    BY <1>8, <1>b, <1>d DEF TagByte, TypeOK, input, flags
  <1>9. CASE EndTag
    <2>1. Emit("SegmentTag", buf) /\ buf \in Seq(Byte)
      BY <1>9 DEF EndTag, TypeOK
    <2>2. tokens' \in Seq(TokenRecord) /\ mode' = "next" /\ buf' = <<>>
      BY <2>1, <1>t, EmittedIsLatest
    <2>3. /\ UNCHANGED <<text, delimiters, at, kind>>
          /\ afterSegmentEnd' \in BOOLEAN
          /\ atSegmentStart' \in BOOLEAN
      BY <1>9 DEF EndTag, input
    <2> QED
      BY <2>2, <2>3 DEF TypeOK
  <1>10. CASE ReleasedByte
    BY <1>10, <1>b, <1>d DEF ReleasedByte, Released, TypeOK, input, flags
  <1>11. CASE ReleaseAtEnd
    <2>1. Emit("Error", <<>>) /\ <<>> \in Seq(Byte)
      BY <1>11 DEF ReleaseAtEnd
    <2>2. tokens' \in Seq(TokenRecord) /\ mode' = "next" /\ buf' = <<>>
      BY <2>1, <1>t, EmittedIsLatest
    <2> QED
      BY <1>11, <2>2 DEF ReleaseAtEnd, TypeOK, input, flags
  <1>12. CASE ValueByte
    BY <1>12, <1>b, <1>d DEF ValueByte, EndsValue, TypeOK, input, flags
  <1>13. CASE EndValue
    <2>1. Emit(kind, buf) /\ buf \in Seq(Byte) /\ kind \in TokenType
      BY <1>13 DEF EndValue, TypeOK, TokenType
    <2>2. tokens' \in Seq(TokenRecord) /\ mode' = "next" /\ buf' = <<>>
      BY <2>1, EmittedIsLatest
    <2> QED
      BY <1>13, <2>2 DEF EndValue, TypeOK, input, flags
  <1>14. CASE UNCHANGED vars
    BY <1>14 DEF vars, TypeOK
  <1> QED
    BY <1>1, <1>2, <1>3, <1>4, <1>5, <1>6, <1>7, <1>8, <1>9, <1>10, <1>11,
       <1>12, <1>13, <1>14 DEF NextToken

(* Type correctness: the fields of the lexer and its tokens keep their      *)
(* types, and the position never leaves the text by more than its end,      *)
(* whatever follows a release character (lexer.go:138).                     *)
THEOREM TypeCorrect == Spec => []TypeOK
  <1>1. NewLexer => TypeOK
    BY LexerAssumption DEF NewLexer, TypeOK
  <1> QED
    BY <1>1, TypeStep, PTL DEF Spec

-------------------------------------------------------------------------------
(* The delimiters are chosen once (parser.go:153-161).                      *)
LEMMA DelimitersStay == [NextToken]_vars => delimiters' = delimiters
  BY DEF vars, NextToken, input, SkipBlank, EndOfInput, LexSegmentEnd, Unexpected,
         BeginTag, TagByte, EndTag, BeginDataElement, BeginComponent, ReleasedByte,
         ReleaseAtEnd, ValueByte, EndValue

(* OrderInv holds at every step of the scanner (lexer.go:58-104).           *)
LEMMA OrderStep == TypeOK /\ OrderInv /\ [NextToken]_vars => OrderInv'
  <1> SUFFICES ASSUME TypeOK, OrderInv, [NextToken]_vars, Suitable(delimiters)'
               PROVE  OrderInv'
    BY DEF OrderInv
  <1>s. delimiters' = delimiters /\ Suitable(delimiters)
    BY DelimitersStay
  <1>t. {"EOF", "Error", "SegmentEnd", "SegmentTag", "DataElement", "Component"} \subseteq TokenType
    BY DEF TokenType
  <1>d. /\ EndsValue \cap (Alnum \cup Blank) = {}
        /\ current \in Byte
    BY <1>s, LexerAssumption, BytesOfText DEF TypeOK, EndsValue, Suitable, current
  <1>e. <<>> \in Seq(Byte) /\ <<current>> \in Seq(Byte)
    BY <1>d
  <1>1. CASE SkipBlank
    <2>1. mode = "next" /\ afterSegmentEnd /\ current \notin EndsValue
      BY <1>1, <1>d DEF SkipBlank, Skipping
    <2>2. Latest \notin Mid
      BY <1>s, <2>1 DEF OrderInv, Mid
    <2>3. Latest' = Latest /\ mode' = "next"
      BY <1>1, <2>1 DEF SkipBlank, Latest
    <2> QED
      BY <1>s, <2>2, <2>3 DEF OrderInv, Mid
  <1>2. CASE EndOfInput \/ Unexpected \/ ReleaseAtEnd \/ LexSegmentEnd
    <2>1. \/ Emit("EOF", <<>>) \/ Emit("Error", <<>>)
          \/ Emit("SegmentEnd", <<current>>)
      BY <1>2 DEF EndOfInput, Unexpected, ReleaseAtEnd, LexSegmentEnd
    <2>2. Latest' \in {"EOF", "Error", "SegmentEnd"} /\ mode' = "next"
      BY <2>1, <1>t, <1>e, EmittedIsLatest
    <2> QED
      BY <1>s, <2>2 DEF OrderInv, Mid
  <1>3. CASE BeginTag
    <2>1. mode = "next" /\ current \in Alnum
      BY <1>3 DEF BeginTag, Dispatching, TagAhead
    <2>2. Latest \notin Mid
      BY <1>s, <2>1, <1>d DEF OrderInv, Mid
    <2>3. Latest' = Latest /\ mode' = "tag"
      BY <1>3 DEF BeginTag, Latest
    <2> QED
      BY <1>s, <2>2, <2>3 DEF OrderInv, Mid
  <1>4. CASE BeginDataElement \/ BeginComponent
    <2>1. mode' = "value"
      BY <1>4 DEF BeginDataElement, BeginComponent
    <2> QED
      BY <1>s, <2>1 DEF OrderInv
  <1>5. CASE TagByte
    <2>1. Latest' = Latest /\ mode' = mode /\ mode = "tag"
      BY <1>5 DEF TagByte, Latest
    <2> QED
      BY <1>s, <2>1 DEF OrderInv, Mid
  <1>6. CASE EndTag
    <2>1. Emit("SegmentTag", buf) /\ buf \in Seq(Byte)
      BY <1>6 DEF EndTag, TypeOK
    <2>2. Latest' = "SegmentTag" /\ mode' = "next"
      BY <2>1, <1>t, EmittedIsLatest
    <2>3. current' = current
      BY <1>6 DEF EndTag, input, current, ByteAt
    <2>4. ~afterSegmentEnd' /\ current \notin Alnum
      BY <1>6 DEF EndTag
    <2> QED
      BY <1>s, <2>2, <2>3, <2>4 DEF OrderInv
  <1>7. CASE ReleasedByte \/ ValueByte
    <2>1. mode' = "value"
      BY <1>7 DEF ReleasedByte, ValueByte, Released
    <2> QED
      BY <1>s, <2>1 DEF OrderInv
  <1>8. CASE EndValue
    <2>1. Emit(kind, buf) /\ buf \in Seq(Byte) /\ kind \in {"DataElement", "Component"}
      BY <1>8 DEF EndValue, TypeOK
    <2>2. Latest' = kind /\ mode' = "next"
      BY <2>1, <1>t, EmittedIsLatest
    <2>3. current' = current /\ EndsValue' = EndsValue /\ current \in EndsValue
      BY <1>8 DEF EndValue, input, current, ByteAt, EndsValue
    <2> QED
      BY <1>s, <2>1, <2>2, <2>3 DEF OrderInv
  <1>9. CASE UNCHANGED vars
    BY <1>9, <1>s DEF vars, OrderInv, Latest, current, ByteAt, EndsValue
  <1> QED
    BY <1>1, <1>2, <1>3, <1>4, <1>5, <1>6, <1>7, <1>8, <1>9 DEF NextToken

(* The mapped stream has the types of the tokens.                           *)
LEMMA TypesOfStream ==
    ASSUME TypeOK, Suitable(delimiters)
    PROVE  /\ Types \in Seq(TokenType)
           /\ Len(Types) = Len(tokens)
           /\ Stream!Latest = Latest
           /\ Latest \in TokenType \cup {"start"}
  <1>1. /\ tokens \in Seq(TokenRecord)
        /\ \A i \in 1 .. Len(tokens) : tokens[i].type \in TokenType
    <2>1. tokens \in Seq(TokenRecord)
      BY DEF TypeOK
    <2>2. \A i \in 1 .. Len(tokens) : tokens[i] \in TokenRecord
      BY <2>1
    <2> QED
      BY <2>1, <2>2 DEF TokenRecord
  <1>2. Types \in Seq(TokenType) /\ Len(Types) = Len(tokens)
    BY <1>1 DEF Types
  <1>3. CASE tokens = <<>>
    BY <1>1, <1>2, <1>3 DEF Stream!Latest, Latest, Types
  <1>4. CASE tokens # <<>>
    <2>1. /\ Len(tokens) \in 1 .. Len(tokens)
          /\ Types # <<>>
          /\ Types[Len(Types)] = tokens[Len(tokens)].type
      BY <1>1, <1>2, <1>4 DEF Types
    <2> QED
      BY <1>1, <1>2, <1>4, <2>1 DEF Stream!Latest, Latest
  <1> QED
    BY <1>2, <1>3, <1>4

(* A token that may follow the latest one is a step of the abstract stream. *)
LEMMA EmittedIsStep ==
    ASSUME TypeOK, NEW type \in TokenType, NEW value \in Seq(Byte), Emit(type, value),
           type \in Follows(Latest), Suitable(delimiters), delimiters' = delimiters
    PROVE  Stream!Next
  <1>1. /\ Latest \notin Ending
        /\ tokens' = Append(tokens, [type |-> type, value |-> value])
    BY DEF Emit
  <1>2. tokens' \in Seq(TokenRecord) /\ tokens \in Seq(TokenRecord)
    BY EmittedIsLatest DEF TypeOK
  <1>3. /\ Len(tokens') = Len(tokens) + 1
        /\ \A i \in 1 .. Len(tokens) : tokens'[i] = tokens[i]
        /\ tokens'[Len(tokens) + 1].type = type
    BY <1>1, <1>2
  <1>4. Types \in Seq(TokenType) /\ Len(Types) = Len(tokens)
    BY TypesOfStream
  <1>5. Types' = Append(Types, type)
    BY <1>2, <1>3, <1>4 DEF Types
  <1> QED
    BY <1>1, <1>5, TypesOfStream
       DEF Stream!Next, Stream!Ending, Ending, Stream!Follows, Follows,
           Stream!TokenType, TokenType

(* Whatever NextToken does, the type it returns may follow the one before:  *)
(* a step of the scanner is a step of the abstract stream or leaves it.     *)
LEMMA StepsOfStream ==
    TypeOK /\ OrderInv /\ [NextToken]_vars => [Stream!Next]_Types
  <1> SUFFICES ASSUME TypeOK, OrderInv, [NextToken]_vars
               PROVE  Types' = Types \/ Stream!Next
    OBVIOUS
  <1>s. delimiters' = delimiters
    BY DelimitersStay
  <1>u. CASE ~Suitable(delimiters)
    BY <1>u, <1>s DEF Types
  <1>1. CASE Suitable(delimiters) /\ EndTag
    <2>1. Emit("SegmentTag", buf) /\ buf \in Seq(Byte)
      BY <1>1 DEF EndTag, TypeOK
    <2>2. Latest \notin Ending \cup Mid
      BY <1>1, <2>1 DEF OrderInv, EndTag, Emit
    <2>3. "SegmentTag" \in Follows(Latest) /\ "SegmentTag" \in TokenType
      BY <1>1, <2>2, TypesOfStream DEF Follows, TokenType, Ending, Mid
    <2> QED
      BY <1>1, <1>s, <2>1, <2>3, EmittedIsStep
  <1>2. ASSUME NEW type \in TokenType \ {"SegmentTag"}, NEW value \in Seq(Byte),
               Emit(type, value), Suitable(delimiters)
        PROVE  Stream!Next
    <2>1. type \in Follows(Latest)
      BY DEF Follows
    <2> QED
      BY <1>2, <1>s, <2>1, EmittedIsStep
  <1>3. CASE UNCHANGED tokens
    BY <1>3, <1>s DEF Types
  <1>4. CASE /\ Suitable(delimiters)
             /\ EndOfInput \/ LexSegmentEnd \/ Unexpected \/ ReleaseAtEnd \/ EndValue
    <2>1. <<>> \in Seq(Byte) /\ <<current>> \in Seq(Byte) /\ buf \in Seq(Byte)
      BY BytesOfText DEF TypeOK, current
    <2>2. \/ Emit("EOF", <<>>) \/ Emit("SegmentEnd", <<current>>)
          \/ Emit("Error", <<>>) \/ Emit(kind, buf)
      BY <1>4 DEF EndOfInput, LexSegmentEnd, Unexpected, ReleaseAtEnd, EndValue
    <2>3. {"EOF", "SegmentEnd", "Error", kind} \subseteq TokenType \ {"SegmentTag"}
      BY DEF TypeOK, TokenType
    <2> QED
      BY <1>4, <2>1, <2>2, <2>3, <1>2
  <1>5. CASE SkipBlank \/ BeginTag \/ TagByte \/ BeginDataElement \/ BeginComponent
              \/ ReleasedByte \/ ValueByte \/ UNCHANGED vars
    BY <1>5, <1>3 DEF SkipBlank, BeginTag, TagByte, BeginDataElement, BeginComponent,
                      ReleasedByte, ValueByte, vars
  <1> QED
    BY <1>u, <1>1, <1>4, <1>5 DEF NextToken

(* The lexer implements the abstract stream: for every text and all         *)
(* suitable delimiters a segment has at most one tag, at its start, and an  *)
(* end of input or an error is the last token there is (lexer.go:58-104;    *)
(* what parser.go:426 relies on).                                           *)
THEOREM ImplementsTokenStream == Spec => KeepsTokenOrder
  <1>1. NewLexer => Stream!Init /\ OrderInv
    BY DEF NewLexer, Stream!Init, Types, Latest, OrderInv, Mid
  <1>2. NewLexer => TypeOK
    BY LexerAssumption DEF NewLexer, TypeOK
  <1> QED
    BY <1>1, <1>2, TypeStep, OrderStep, StepsOfStream, PTL DEF Spec, KeepsTokenOrder, Stream!Spec

(* Every stream the abstract lexer can hand out is in order, token by       *)
(* token.                                                                   *)
LEMMA StreamsAreOrderly ==
    ASSUME Types \in Seq(TokenType), Orderly(Types), [Stream!Next]_Types
    PROVE  Types' \in Seq(TokenType) /\ Orderly(Types')
  <1>1. CASE UNCHANGED Types
    BY <1>1
  <1>2. CASE Stream!Next
    <2>1. PICK t \in Follows(Stream!Latest) : Types' = Append(Types, t)
      BY <1>2 DEF Stream!Next, Stream!Follows, Follows, Stream!TokenType, TokenType
    <2>2. Stream!Latest \notin Ending /\ t \in TokenType
      BY <1>2 DEF Stream!Next, Stream!Ending, Ending, Follows
    <2> DEFINE new == Types'
    <2>3. /\ new \in Seq(TokenType) /\ Len(new) = Len(Types) + 1
          /\ \A i \in 1 .. Len(Types) : new[i] = Types[i]
          /\ new[Len(Types) + 1] = t
      BY <2>1, <2>2
    <2>4. Types = <<>> => Orderly(new)
      BY <2>1, <2>3 DEF Orderly, Stream!Latest
    <2>5. ASSUME Types # <<>>
          PROVE  Orderly(new)
      <3>1. Len(Types) \in Nat /\ Len(Types) >= 1
        BY <2>5
      <3>2. new[1] \in Follows("start")
        BY <2>3, <2>5, <3>1 DEF Orderly
      <3>3. ASSUME NEW i \in 1 .. Len(new) - 1
            PROVE  new[i] \notin Ending /\ new[i + 1] \in Follows(new[i])
        <4>1. CASE i = Len(Types)
          BY <2>1, <2>2, <2>3, <2>5, <3>1, <4>1 DEF Stream!Latest
        <4>2. CASE i # Len(Types)
          <5>1. i \in 1 .. Len(Types) - 1 /\ i \in 1 .. Len(Types) /\ i + 1 \in 1 .. Len(Types)
            BY <2>3, <3>1, <4>2
          <5> QED
            BY <2>3, <5>1 DEF Orderly
        <4> QED
          BY <4>1, <4>2
      <3> QED
        BY <3>2, <3>3 DEF Orderly
    <2> QED
      BY <2>3, <2>4, <2>5
  <1> QED
    BY <1>1, <1>2

(* What the lexer hands to the parser is what the parser is proved for:     *)
(* once a stream is over it has a first and a last token, only the last     *)
(* one is an end, and a tag only begins a segment.  ParserAssumption asks   *)
(* for no more of its streams (parser.go:426, 452-467).                     *)
THEOREM ParserGetsAStream == Spec => []HandsOutAStream
  <1> DEFINE InOrder == Types \in Seq(TokenType) /\ Orderly(Types)
  <1>1. NewLexer => InOrder
    <2>1. NewLexer => Types = <<>>
      BY DEF NewLexer, Types
    <2>2. <<>> \in Seq(TokenType) /\ Orderly(<<>>)
      BY DEF Orderly
    <2> QED
      BY <2>1, <2>2
  <1>2. TypeOK /\ OrderInv /\ InOrder /\ [NextToken]_vars => InOrder'
    BY StepsOfStream, StreamsAreOrderly
  <1>3. TypeOK /\ InOrder => HandsOutAStream
    <2> SUFFICES ASSUME TypeOK, InOrder, Latest \in Ending, Suitable(delimiters)
                 PROVE  /\ Types # <<>> /\ Orderly(Types)
                        /\ Types[Len(Types)] \in Ending
      BY DEF HandsOutAStream
    <2>1. Stream!Latest \in Ending /\ "start" \notin Ending
      BY TypesOfStream DEF Ending
    <2> QED
      BY <2>1 DEF Stream!Latest
  <1>4. NewLexer => TypeOK /\ OrderInv
    BY LexerAssumption DEF NewLexer, TypeOK, Types, Latest, OrderInv, Mid
  <1> HIDE DEF InOrder
  <1> QED
    BY <1>1, <1>2, <1>3, <1>4, TypeStep, OrderStep, PTL DEF Spec

-------------------------------------------------------------------------------
(* A nonempty set of numbers has a smallest one.  It stands in for          *)
(* induction, which needs an operator as a parameter.                       *)
LEMMA SmallestNumber ==
    ASSUME NEW S \in SUBSET Nat, S # {}
    PROVE  \E x \in S : \A y \in S : x <= y
  <1>1. PICK x \in S : \A y \in S : <<y, x>> \notin OpToRel(<, Nat)
    BY NatLessThanWellFounded, WFMin
  <1>2. ASSUME NEW y \in S, ~(x <= y)
        PROVE  FALSE
    <2>1. x \in Nat /\ y \in Nat /\ y < x
      BY <1>2
    <2>2. <<y, x>> \in OpToRel(<, Nat)
      BY <2>1 DEF OpToRel
    <2> QED
      BY <1>1, <2>2
  <1> QED
    BY <1>1, <1>2

(* The text the lexer reads ends before its first NUL, where ByteAt begins  *)
(* to answer NUL (lexer.go readByte, isAtEnd).                              *)
LEMMA UsedBytes ==
    ASSUME TypeOK
    PROVE  /\ Used \in Seq(Byte)
           /\ \A i \in 1 .. Len(Used) : Used[i] = ByteAt(i) /\ Used[i] # NUL
           /\ ByteAt(Len(Used) + 1) = NUL
  <1> DEFINE Zeros == {i \in 1 .. Len(text) : text[i] = NUL}
             end == IF Zeros # {} THEN Min(Zeros) ELSE 0
  <1>1. Used = IF end = 0 THEN text ELSE SubSeq(text, 1, end - 1)
    BY DEF Used, SelectInSeq
  <1>2. text \in Seq(Byte)
    BY DEF TypeOK
  <1>3. CASE Zeros = {}
    BY <1>1, <1>2, <1>3 DEF ByteAt
  <1>4. CASE Zeros # {}
    <2>1. Zeros \in SUBSET Nat
      BY <1>2
    <2>2. PICK z \in Zeros : \A y \in Zeros : z <= y
      BY <1>4, <2>1, SmallestNumber
    <2>3. Min(Zeros) \in Zeros /\ \A y \in Zeros : Min(Zeros) <= y
      BY <2>2 DEF Min
    <2>4. PICK e \in 1 .. Len(text) : e = Min(Zeros)
      BY <2>3
    <2>5. text[e] = NUL /\ \A i \in 1 .. e - 1 : text[i] # NUL
      <3>1. e \in Zeros /\ \A y \in Zeros : e <= y
        BY <2>3, <2>4
      <3>2. ASSUME NEW i \in 1 .. e - 1, text[i] = NUL
            PROVE  FALSE
        <4>1. i \in Zeros
          BY <1>2, <2>4, <3>2
        <4> QED
          BY <3>1, <3>2, <4>1
      <3> QED
        BY <3>1, <3>2
    <2>6. Used = SubSeq(text, 1, e - 1)
      <3>1. end = e /\ e # 0
        BY <1>4, <2>4
      <3> HIDE DEF end
      <3> QED
        BY <1>1, <3>1
    <2>7. e \in Nat /\ e >= 1 /\ e <= Len(text) /\ Len(text) \in Nat
      BY <1>2, <2>4
    <2>8. Len(Used) = e - 1 /\ Used \in Seq(Byte)
      BY <1>2, <2>6, <2>7
    <2>9. \A i \in 1 .. e - 1 : Used[i] = text[i]
      BY <1>2, <2>6, <2>7
    <2> HIDE DEF Zeros, end
    <2> QED
      BY <2>5, <2>7, <2>8, <2>9 DEF ByteAt
  <1> QED
    BY <1>3, <1>4

(* The same said of the position of the lexer and of its look-ahead.        *)
LEMMA BytesAhead ==
    ASSUME TypeOK, at <= Len(Used) + 1
    PROVE  /\ Len(Used) \in Nat /\ at \in 1 .. Len(Used) + 1
           /\ current = NUL <=> at = Len(Used) + 1
           /\ current # NUL => at \in 1 .. Len(Used) /\ Used[at] = current
           /\ current # NUL =>
                  /\ peek = NUL <=> at = Len(Used)
                  /\ peek # NUL => at + 1 \in 1 .. Len(Used) /\ Used[at + 1] = peek
  BY UsedBytes DEF TypeOK, current, peek

-------------------------------------------------------------------------------
\* an odd number of release characters in a row ends before byte i
RunBefore(i) == \E j \in 1 .. i - 1, k \in Nat :
    /\ i - j = 2 * k + 1
    /\ \A l \in j .. i - 1 : Used[l] = delimiters.release
    /\ j = 1 \/ Used[j - 1] # delimiters.release

(* The recursive definition of released has a solution, parity, and is thus *)
(* what it says: byte i is released by a release character that is not      *)
(* itself released.                                                         *)
LEMMA ReleasedIs ==
    ASSUME TypeOK
    PROVE  /\ released \in [0 .. Len(Used) -> BOOLEAN]
           /\ \A i \in 0 .. Len(Used) :
                  released[i] <=> i > 1 /\ Used[i - 1] = delimiters.release /\ ~released[i - 1]
  <1> DEFINE r == [i \in 0 .. Len(Used) |-> RunBefore(i)]
             n == Len(Used)
  <1>0. n \in Nat
    BY UsedBytes
  <1>1. ASSUME NEW i \in 0 .. n
        PROVE  RunBefore(i) <=> i > 1 /\ Used[i - 1] = delimiters.release /\ ~RunBefore(i - 1)
    <2>1. ASSUME i > 1, Used[i - 1] = delimiters.release, ~RunBefore(i - 1)
          PROVE  RunBefore(i)
      <3> DEFINE Starts == {j \in 1 .. i - 1 : \A l \in j .. i - 1 : Used[l] = delimiters.release}
      <3>1. i - 1 \in Starts /\ Starts \in SUBSET Nat
        BY <1>0, <2>1
      <3>2. PICK j \in Starts : \A y \in Starts : j <= y
        BY <3>1, SmallestNumber
      <3>3. j = 1 \/ Used[j - 1] # delimiters.release
        <4>1. ASSUME j # 1, Used[j - 1] = delimiters.release
              PROVE  FALSE
          <5>1. j - 1 \in Starts
            BY <1>0, <4>1
          <5> QED
            BY <1>0, <3>2, <5>1
        <4> QED
          BY <4>1
      <3>4. j \in 1 .. i - 1 /\ \A l \in j .. i - 1 : Used[l] = delimiters.release
        OBVIOUS
      <3>5. PICK k \in Nat : i - j = 2 * k + 1 \/ i - j = 2 * k + 2
        <4>1. PICK d \in Nat : i - j = d + 1
          BY <1>0, <3>4
        <4>2. \E k \in Nat : d = 2 * k \/ d = 2 * k + 1
          <5>1. d \div 2 \in Nat /\ (d = 2 * (d \div 2) \/ d = 2 * (d \div 2) + 1)
            OBVIOUS
          <5> QED
            BY <5>1
        <4> QED
          BY <1>0, <3>4, <4>1, <4>2
      <3>6. CASE i - j = 2 * k + 1
        BY <3>3, <3>4, <3>6 DEF RunBefore
      <3>7. CASE i - j = 2 * k + 2
        <4>1. j \in 1 .. (i - 1) - 1 /\ (i - 1) - j = 2 * k + 1
          BY <1>0, <3>4, <3>7
        <4>2. \A l \in j .. (i - 1) - 1 : Used[l] = delimiters.release
          BY <1>0, <3>4
        <4> QED
          BY <2>1, <3>3, <4>1, <4>2 DEF RunBefore
      <3> QED
        BY <3>5, <3>6, <3>7
    <2>2. ASSUME RunBefore(i)
          PROVE  i > 1 /\ Used[i - 1] = delimiters.release /\ ~RunBefore(i - 1)
      <3>1. PICK j \in 1 .. i - 1, k \in Nat :
               /\ i - j = 2 * k + 1
               /\ \A l \in j .. i - 1 : Used[l] = delimiters.release
               /\ j = 1 \/ Used[j - 1] # delimiters.release
        BY <2>2 DEF RunBefore
      <3>2. ASSUME RunBefore(i - 1)
            PROVE  FALSE
        <4>1. PICK j2 \in 1 .. (i - 1) - 1, k2 \in Nat :
                 /\ (i - 1) - j2 = 2 * k2 + 1
                 /\ \A l \in j2 .. (i - 1) - 1 : Used[l] = delimiters.release
                 /\ j2 = 1 \/ Used[j2 - 1] # delimiters.release
          BY <3>2 DEF RunBefore
        <4>2. j2 = j
          <5>1. ~(j2 < j)
            <6>1. j2 < j => j - 1 \in j2 .. (i - 1) - 1 /\ j # 1
              BY <1>0
            <6> QED
              BY <3>1, <4>1, <6>1
          <5>2. ~(j < j2)
            <6>1. j < j2 => j2 - 1 \in j .. i - 1 /\ j2 # 1
              BY <1>0
            <6> QED
              BY <3>1, <4>1, <6>1
          <5> QED
            BY <1>0, <5>1, <5>2
        <4> QED
          BY <1>0, <3>1, <4>1, <4>2
      <3>3. i > 1 /\ i - 1 \in j .. i - 1
        BY <1>0
      <3> QED
        BY <3>1, <3>2, <3>3
    <2> QED
      BY <2>1, <2>2
  <1>2. \A i \in 0 .. n : r[i] = (i > 1 /\ Used[i - 1] = delimiters.release /\ ~r[i - 1])
    <2> SUFFICES ASSUME NEW i \in 0 .. n
                 PROVE  r[i] = (i > 1 /\ Used[i - 1] = delimiters.release /\ ~r[i - 1])
      OBVIOUS
    <2>1. i > 1 => r[i - 1] = RunBefore(i - 1)
      BY <1>0
    <2>2. r[i] = RunBefore(i)
      BY <1>0
    <2>3. RunBefore(i) = (i > 1 /\ Used[i - 1] = delimiters.release /\ ~RunBefore(i - 1))
      BY <1>1 DEF RunBefore
    <2> HIDE DEF r
    <2> QED
      BY <2>1, <2>2, <2>3
  <1>3. r = [i \in 0 .. n |-> i > 1 /\ Used[i - 1] = delimiters.release /\ ~r[i - 1]]
    BY <1>2
  <1>4. released = [i \in 0 .. n |-> i > 1 /\ Used[i - 1] = delimiters.release /\ ~released[i - 1]]
    BY <1>3 DEF released
  <1> QED
    BY <1>4

(* The text and the delimiters do not change, and with them nothing that is *)
(* read off them.                                                           *)
LEMMA InputStays ==
    ASSUME TypeOK, TypeOK', [NextToken]_vars
    PROVE  /\ text' = text /\ delimiters' = delimiters
           /\ Used' = Used /\ released' = released
  <1>1. text' = text /\ delimiters' = delimiters
    BY DEF vars, NextToken, input, SkipBlank, EndOfInput, LexSegmentEnd, Unexpected,
           BeginTag, TagByte, EndTag, BeginDataElement, BeginComponent, ReleasedByte,
           ReleaseAtEnd, ValueByte, EndValue
  <1>2. Used' = Used
    <2>1. {i \in 1 .. Len(text) : text[i] = NUL}' = {i \in 1 .. Len(text) : text[i] = NUL}
      BY <1>1
    <2> QED
      BY <1>1, <2>1, Zenon DEF Used, SelectInSeq
  <1> DEFINE n == Len(Used)
  <1>3. n \in Nat /\ n' = n
    BY <1>2, UsedBytes
  <1>4. /\ released \in [0 .. n -> BOOLEAN]
        /\ \A i \in 0 .. n :
               released[i] <=> i > 1 /\ Used[i - 1] = delimiters.release /\ ~released[i - 1]
    BY ReleasedIs
  <1>5. (TypeOK => /\ released \in [0 .. n -> BOOLEAN]
                   /\ \A i \in 0 .. n : released[i] <=>
                          i > 1 /\ Used[i - 1] = delimiters.release /\ ~released[i - 1])'
    BY ReleasedIs, PTL
  <1>6. /\ released' \in [0 .. n -> BOOLEAN]
        /\ \A i \in 0 .. n : released'[i] <=>
               i > 1 /\ Used[i - 1] = delimiters.release /\ ~released'[i - 1]
    BY <1>1, <1>2, <1>3, <1>5
  <1> HIDE DEF n
  <1> DEFINE Differ == {i \in 0 .. n : released'[i] # released[i]}
  <1>7. ASSUME Differ # {}
        PROVE  FALSE
    <2>1. Differ \in SUBSET Nat
      BY <1>3
    <2>2. PICK d \in Differ : \A y \in Differ : d <= y
      BY <1>7, <2>1, SmallestNumber
    <2>3. d > 1 => d - 1 \in 0 .. n /\ d - 1 \notin Differ
      BY <1>3, <2>2
    <2>4. d \in 0 .. n /\ released'[d] # released[d]
      OBVIOUS
    <2>5. d > 1 => released'[d - 1] = released[d - 1]
      BY <2>3
    <2>6. released'[d] \in BOOLEAN /\ released[d] \in BOOLEAN
      BY <1>4, <1>6, <2>4
    <2> HIDE DEF Differ
    <2> QED
      BY <1>4, <1>6, <2>4, <2>5, <2>6
  <1>8. released' = released
    <2>1. [i \in 0 .. n |-> released'[i]] = [i \in 0 .. n |-> released[i]]
      BY <1>7
    <2>2. released' = [i \in 0 .. n |-> released'[i]]
      BY <1>6
    <2>3. released = [i \in 0 .. n |-> released[i]]
      BY <1>4
    <2> QED
      BY <2>1, <2>2, <2>3
  <1> QED
    BY <1>1, <1>2, <1>8

-------------------------------------------------------------------------------
\* byte i may stand where a segment opens
Sound(i) == Used[i] \in Alnum \cup Structural(delimiters) \/ Between(i)

(* The part of WellFormed that is about the bytes before position p.        *)
Prefix(p) ==
    /\ \A i \in 1 .. p - 1 : Opening(i) => Sound(i)
    /\ \A i \in 1 .. p - 1 : Releases(i) => i < p - 1

(* A text is well-formed when the prefix that is all of it is.              *)
LEMMA WholePrefix ==
    ASSUME TypeOK
    PROVE  WellFormed <=> Prefix(Len(Used) + 1)
  BY UsedBytes DEF WellFormed, Prefix, Sound

(* Byte p is not released when the bytes before it are read.                *)
LEMMA Unreleased ==
    ASSUME TypeOK, NEW p \in 1 .. Len(Used), Prefix(p)
    PROVE  /\ ~released[p]
           /\ Mark(p) <=> Used[p] \in Structural(delimiters)
           /\ Releases(p) <=> Used[p] = delimiters.release
           /\ EndsSegment(p) <=> Used[p] = delimiters.terminator
  <1>1. Len(Used) \in Nat
    BY UsedBytes
  <1>2. ~released[p]
    <2>1. released[p] => p - 1 \in 1 .. p - 1 /\ Releases(p - 1)
      BY <1>1, ReleasedIs DEF Releases
    <2> QED
      BY <1>1, <2>1 DEF Prefix
  <1> QED
    BY <1>2 DEF Mark, Releases, EndsSegment, Structural

(* Where a tag may be: what byte p makes of the next position.              *)
LEMMA OpeningNext ==
    ASSUME TypeOK, NEW p \in 1 .. Len(Used)
    PROVE  Opening(p + 1) <=> EndsSegment(p) \/ (Opening(p) /\ ~Mark(p))
  <1>1. Len(Used) \in Nat
    BY UsedBytes
  <1>2. CASE EndsSegment(p)
    <2>1. \A j \in 1 .. (p + 1) - 1 : p \in j .. (p + 1) - 1
      BY <1>1
    <2> QED
      BY <1>2, <2>1 DEF Opening
  <1>3. CASE ~EndsSegment(p)
    <2>1. ASSUME Opening(p + 1)
          PROVE  Opening(p) /\ ~Mark(p)
      <3>1. ~Mark(p)
        BY <1>1, <1>3, <2>1 DEF Opening
      <3>2. ASSUME NEW j \in 1 .. p - 1, Mark(j)
            PROVE  \E k \in j .. p - 1 : EndsSegment(k)
        <4>1. PICK k \in j .. (p + 1) - 1 : EndsSegment(k)
          BY <1>1, <2>1, <3>2 DEF Opening
        <4>2. k # p
          BY <1>3, <4>1
        <4>3. k \in j .. p - 1
          BY <1>1, <4>2
        <4> QED
          BY <4>1, <4>3
      <3> QED
        BY <3>1, <3>2 DEF Opening
    <2>2. ASSUME Opening(p), ~Mark(p)
          PROVE  Opening(p + 1)
      <3>1. ASSUME NEW j \in 1 .. (p + 1) - 1, Mark(j)
            PROVE  \E k \in j .. (p + 1) - 1 : EndsSegment(k)
        <4>1. j \in 1 .. p - 1
          BY <1>1, <2>2, <3>1
        <4>2. PICK k \in j .. p - 1 : EndsSegment(k)
          BY <2>2, <3>1, <4>1 DEF Opening
        <4>3. k \in j .. (p + 1) - 1
          BY <1>1
        <4> QED
          BY <4>2, <4>3
      <3> QED
        BY <3>1 DEF Opening
    <2> QED
      BY <1>3, <2>1, <2>2
  <1> QED
    BY <1>2, <1>3

(* A blank at the start of the input, behind a segment or behind such a     *)
(* blank is between segments.                                               *)
LEMMA BetweenNext ==
    ASSUME TypeOK, NEW p \in 1 .. Len(Used), Used[p] \in Blank,
           p = 1 \/ EndsSegment(p - 1) \/ Between(p - 1)
    PROVE  Between(p)
  <1>1. Len(Used) \in Nat
    BY UsedBytes
  <1>2. CASE p = 1 \/ EndsSegment(p - 1)
    <2>1. /\ p - 1 \in 0 .. p - 1
          /\ p - 1 = 0 \/ EndsSegment(p - 1)
          /\ \A k \in (p - 1) + 1 .. p : Used[k] \in Blank
      BY <1>1, <1>2
    <2> QED
      BY <2>1 DEF Between
  <1>3. CASE Between(p - 1)
    <2>1. PICK j \in 0 .. (p - 1) - 1 :
             /\ j = 0 \/ EndsSegment(j)
             /\ \A k \in j + 1 .. p - 1 : Used[k] \in Blank
      BY <1>3 DEF Between
    <2>2. j \in 0 .. p - 1 /\ \A k \in j + 1 .. p : Used[k] \in Blank
      BY <1>1, <2>1
    <2> QED
      BY <2>1, <2>2 DEF Between
  <1> QED
    BY <1>2, <1>3

(* Between segments only a tag may follow, and letters are not between.     *)
LEMMA BetweenOpens ==
    ASSUME TypeOK, Suitable(delimiters), NEW p \in 1 .. Len(Used), Between(p)
    PROVE  /\ Opening(p)
           /\ Used[p] \in Blank
           /\ p = 1 \/ Used[p - 1] \notin Alnum
  <1>1. Len(Used) \in Nat
    BY UsedBytes
  <1>2. PICK i \in 0 .. p - 1 :
           /\ i = 0 \/ EndsSegment(i)
           /\ \A k \in i + 1 .. p : Used[k] \in Blank
    BY DEF Between
  <1>3. Blank \cap Structural(delimiters) = {} /\ Blank \cap Alnum = {}
    BY LexerAssumption DEF Suitable
  <1>4. Used[p] \in Blank
    BY <1>1, <1>2
  <1>5. ASSUME NEW j \in 1 .. p - 1, Mark(j)
        PROVE  \E k \in j .. p - 1 : EndsSegment(k)
    <2>1. j <= i
      BY <1>1, <1>2, <1>3, <1>5 DEF Mark
    <2>2. i \in j .. p - 1 /\ EndsSegment(i)
      BY <1>1, <1>2, <2>1
    <2> QED
      BY <2>2
  <1>6. ASSUME p # 1, Used[p - 1] \in Alnum
        PROVE  FALSE
    <2>1. p - 1 \notin i + 1 .. p
      BY <1>2, <1>3, <1>6
    <2>2. EndsSegment(p - 1)
      BY <1>1, <1>2, <1>6, <2>1
    <2>3. Used[p - 1] \in Structural(delimiters)
      BY <2>2 DEF EndsSegment, Mark
    <2> QED
      BY <1>6, <2>3 DEF Suitable
  <1> QED
    BY <1>4, <1>5, <1>6 DEF Opening

-------------------------------------------------------------------------------
(* Where the lexer is in its segment.  A value has no tag before it and     *)
(* none may follow; what comes behind a segment or a blank is between       *)
(* segments if it is a blank; behind a tag it is not.                       *)
Place ==
    /\ Opening(at) <=> ~ \/ mode = "value"
                         \/ mode = "next" /\ Latest \in {"DataElement", "Component"}
    /\ mode = "next" /\ Latest \in {"start", "SegmentEnd"} =>
           /\ afterSegmentEnd
           /\ at = 1 \/ EndsSegment(at - 1) \/ Between(at - 1)
    /\ \/ mode = "next" /\ Latest = "SegmentTag"
       \/ mode = "tag" /\ buf # <<>>
       => at > 1 /\ Used[at - 1] \in Alnum
    /\ mode = "tag" /\ buf = <<>> => current \in Alnum
    /\ mode = "next" => buf = <<>>

(* The strengthening of GivesUpOnlyOnBadInput: what has been read so far is *)
(* well-formed, and where the lexer is agrees with the text.                *)
ReadInv ==
    Suitable(delimiters) =>
        /\ at <= Len(Used) + 1
        /\ Latest = "Error" => ~WellFormed
        /\ Latest # "Error" => Prefix(at)
        /\ Latest = "EOF" => at = Len(Used) + 1 /\ mode = "next"
        /\ Latest \notin Ending => Place

(* A byte that is no release character and stands where it may extends the  *)
(* well-formed prefix.                                                      *)
LEMMA PrefixNext ==
    ASSUME TypeOK, NEW p \in 1 .. Len(Used), Prefix(p), ~Releases(p), Opening(p) => Sound(p)
    PROVE  Prefix(p + 1)
  <1>1. Len(Used) \in Nat
    BY UsedBytes
  <1> QED
    BY <1>1 DEF Prefix

(* The two tokens that end the stream: EOF where the text ends, an error    *)
(* where it is malformed.                                                   *)
LEMMA EndingStep ==
    ASSUME TypeOK, OrderInv, ReadInv, [NextToken]_vars, Suitable(delimiters),
           TypeOK', NEW type \in {"EOF", "Error"}, Emit(type, <<>>), at' = at,
           type = "EOF" => current = NUL,
           type = "Error" => ~WellFormed
    PROVE  ReadInv'
  <1>1. type \in TokenType /\ <<>> \in Seq(Byte)
    BY DEF TokenType
  <1>2. Latest' = type /\ Latest \notin Ending /\ mode' = "next"
    BY <1>1, EmittedIsLatest
  <1>3. Used' = Used /\ released' = released /\ delimiters' = delimiters
    BY InputStays
  <1>4. at <= Len(Used) + 1 /\ Prefix(at)
    BY <1>2 DEF ReadInv, Ending
  <1>5. type = "EOF" => at = Len(Used) + 1
    BY <1>4, BytesAhead
  <1>6. (WellFormed <=> WellFormed') /\ (Prefix(at) <=> Prefix(at)')
    BY <1>3 DEF WellFormed, Prefix, Sound, Opening, Between, EndsSegment, Mark, Releases, Structural
  <1> QED
    BY <1>2, <1>3, <1>4, <1>5, <1>6 DEF ReadInv, Ending

(* Every step of the scanner keeps the agreement (lexer.go:58-160).         *)
LEMMA ReadStep == TypeOK /\ OrderInv /\ ReadInv /\ [NextToken]_vars => ReadInv'
  <1> SUFFICES ASSUME TypeOK, OrderInv, ReadInv, [NextToken]_vars, Suitable(delimiters)'
               PROVE  ReadInv'
    BY DEF ReadInv
  <1>a. TypeOK'
    BY TypeStep
  <1>b. /\ Used' = Used /\ released' = released /\ delimiters' = delimiters
        /\ text' = text
    BY <1>a, InputStays
  <1>c. Suitable(delimiters)
    BY <1>b
  <1>d. /\ \A i \in Nat : Opening(i)' <=> Opening(i)
        /\ \A i \in Nat : Prefix(i)' <=> Prefix(i)
        /\ \A i \in Nat : EndsSegment(i)' <=> EndsSegment(i)
        /\ \A i \in Nat : Between(i)' <=> Between(i)
        /\ WellFormed' <=> WellFormed
    BY <1>b DEF WellFormed, Prefix, Sound, Opening, Between, EndsSegment, Mark, Releases, Structural
  <1>e. /\ at <= Len(Used) + 1
        /\ Len(Used) \in Nat /\ at \in 1 .. Len(Used) + 1
        /\ current = NUL <=> at = Len(Used) + 1
        /\ current # NUL => at \in 1 .. Len(Used) /\ Used[at] = current
        /\ current # NUL =>
               /\ peek = NUL <=> at = Len(Used)
               /\ peek # NUL => at + 1 \in 1 .. Len(Used) /\ Used[at + 1] = peek
    BY <1>c, BytesAhead DEF ReadInv
  <1>f. /\ NUL \notin Alnum \cup Blank \cup Structural(delimiters) \cup {delimiters.release}
        /\ Alnum \cap Blank = {}
        /\ Structural(delimiters) \cap (Alnum \cup Blank) = {}
        /\ delimiters.release \notin Alnum \cup Blank \cup Structural(delimiters)
    BY <1>c, LexerAssumption DEF Suitable
  \* a step that returns nothing leaves what has been returned as it is
  <1>g. ASSUME UNCHANGED tokens, at' \in 1 .. Len(Used) + 1, current # NUL,
               Latest \notin Ending => Prefix(at') /\ Place'
        PROVE  ReadInv'
    <2>1. Latest' = Latest
      BY <1>g DEF Latest
    <2>2. Latest # "EOF"
      BY <1>c, <1>e, <1>g DEF ReadInv
    <2> QED
      BY <1>b, <1>c, <1>d, <1>g, <2>1, <2>2 DEF ReadInv, Ending
  <1>h. Latest \notin Ending => Prefix(at) /\ Place
    BY <1>c DEF ReadInv, Ending
  <1>i. ASSUME Latest \notin Ending, current # NUL
        PROVE  /\ ~released[at]
               /\ Mark(at) <=> current \in Structural(delimiters)
               /\ Releases(at) <=> current = delimiters.release
               /\ EndsSegment(at) <=> current = delimiters.terminator
               /\ Opening(at + 1) <=> EndsSegment(at) \/ (Opening(at) /\ ~Mark(at))
               /\ ~Releases(at) /\ (Opening(at) => Sound(at)) => Prefix(at + 1)
    BY <1>e, <1>h, <1>i, Unreleased, OpeningNext, PrefixNext
  <1>1. CASE SkipBlank
    <2>1. /\ mode = "next" /\ afterSegmentEnd /\ current \in Blank
          /\ UNCHANGED <<tokens, mode, buf, afterSegmentEnd>> /\ at' = at + 1
      BY <1>1 DEF SkipBlank, Skipping, flags
    <2>2. current # NUL /\ current \notin Structural(delimiters) \cup Alnum
      BY <1>f, <2>1
    <2>3. ASSUME Latest \notin Ending
          PROVE  Prefix(at') /\ Place'
      <3>1. Latest \in {"start", "SegmentEnd"}
        BY <1>c, <2>1, <2>2, <2>3, TypesOfStream DEF OrderInv, EndsValue, TokenType, Ending
      <3>2. Between(at)
        BY <1>e, <1>h, <2>1, <2>2, <2>3, <3>1, BetweenNext DEF Place
      <3>3. Prefix(at + 1) /\ Opening(at + 1)
        BY <1>e, <1>f, <1>i, <2>1, <2>2, <2>3, <3>2, BetweenOpens, <1>c DEF Sound
      <3>4. Latest' = Latest
        BY <2>1 DEF Latest
      <3>5. at' - 1 = at /\ Between(at' - 1)
        BY <1>e, <2>1, <3>2
      <3>6. buf' = <<>>
        BY <1>h, <2>1, <2>3 DEF Place
      <3> QED
        BY <1>b, <1>d, <1>e, <2>1, <3>1, <3>2, <3>3, <3>4, <3>5, <3>6 DEF Place
    <2> QED
      BY <1>e, <1>g, <2>1, <2>2, <2>3
  <1>2. CASE EndOfInput
    BY <1>2, <1>a, <1>c, EndingStep DEF EndOfInput
  <1>3. CASE BeginTag
    <2>1. /\ mode = "next" /\ current \in Alnum
          /\ UNCHANGED <<tokens, buf, at>> /\ mode' = "tag"
      BY <1>3 DEF BeginTag, Dispatching, TagAhead
    <2>2. current' = current /\ Latest' = Latest
      BY <1>b, <2>1 DEF current, ByteAt, Latest
    <2>3. ASSUME Latest \notin Ending
          PROVE  Prefix(at') /\ Place'
      <3>1. Latest \in {"start", "SegmentEnd"}
        BY <1>c, <1>f, <2>1, <2>3, TypesOfStream, LexerAssumption
           DEF OrderInv, EndsValue, TokenType, Ending
      <3>2. Prefix(at) /\ Opening(at) /\ buf' = <<>>
        BY <1>h, <2>1, <2>3, <3>1 DEF Place
      <3>3. Prefix(at')
        BY <2>1, <3>2
      <3>4. Opening(at)'
        BY <1>d, <1>e, <2>1, <3>2
      <3>5. mode' = "tag" /\ buf' = <<>> /\ current' \in Alnum
        BY <2>1, <2>2, <3>2
      <3>6. Place'
        BY <3>4, <3>5 DEF Place
      <3> QED
        BY <3>3, <3>6
    <2> QED
      BY <1>e, <1>f, <1>g, <2>1, <2>3
  <1>4. CASE LexSegmentEnd
    <2>1. /\ current = delimiters.terminator /\ at' = at + 1 /\ afterSegmentEnd'
          /\ Emit("SegmentEnd", <<current>>)
      BY <1>4 DEF LexSegmentEnd
    <2>2. /\ Latest' = "SegmentEnd" /\ Latest \notin Ending
          /\ mode' = "next" /\ buf' = <<>>
      <3>1. <<current>> \in Seq(Byte) /\ "SegmentEnd" \in TokenType
        BY BytesOfText DEF TypeOK, current, TokenType
      <3> QED
        BY <2>1, <3>1, EmittedIsLatest
    <2>3. current \in Structural(delimiters) /\ current # NUL
      BY <1>f, <2>1 DEF Structural
    <2>4. Prefix(at + 1) /\ EndsSegment(at) /\ Opening(at + 1)
      BY <1>e, <1>f, <1>i, <2>1, <2>2, <2>3 DEF Sound
    <2>5. at' - 1 = at
      BY <1>e, <2>1
    <2>6. Place'
      BY <1>d, <1>e, <2>1, <2>2, <2>4, <2>5 DEF Place
    <2> QED
      BY <1>b, <1>d, <1>e, <2>1, <2>2, <2>3, <2>4, <2>6 DEF ReadInv, Ending
  <1>5. CASE Unexpected
    <2>1. /\ mode = "next" /\ ~(afterSegmentEnd /\ current \in Blank)
          /\ ~TagAhead /\ current \notin Structural(delimiters) \cup {NUL}
          /\ Emit("Error", <<>>) /\ at' = at
      BY <1>5 DEF Unexpected, Separates, Dispatching, Skipping
    <2>2. Latest \notin Ending
      BY <2>1 DEF Emit
    <2>3. Latest \in {"start", "SegmentEnd", "SegmentTag"}
      BY <1>c, <2>1, <2>2, TypesOfStream DEF OrderInv, EndsValue, TokenType, Ending
    <2>4. Opening(at)
      BY <1>h, <2>1, <2>2, <2>3 DEF Place
    <2>5. at \in 1 .. Len(Used) /\ Used[at] = current
      BY <1>e, <2>1
    <2>6. current \notin Alnum /\ ~Between(at)
      <3>1. CASE Latest = "SegmentTag"
        <4>1. current \notin Alnum
          BY <1>c, <2>1, <3>1 DEF OrderInv
        <4>2. at > 1 /\ Used[at - 1] \in Alnum
          BY <1>h, <2>1, <2>2, <3>1 DEF Place
        <4> QED
          BY <1>c, <1>e, <2>5, <4>1, <4>2, BetweenOpens
      <3>2. CASE Latest # "SegmentTag"
        <4>1. afterSegmentEnd
          BY <1>h, <2>1, <2>2, <2>3, <3>2 DEF Place
        <4>2. current \notin Blank /\ current \notin Alnum
          BY <2>1, <4>1 DEF TagAhead
        <4> QED
          BY <1>c, <2>5, <4>2, BetweenOpens
      <3> QED
        BY <3>1, <3>2
    <2>7. ~WellFormed
      BY <1>e, <2>1, <2>4, <2>5, <2>6 DEF WellFormed
    <2> QED
      BY <1>a, <1>c, <2>1, <2>7, EndingStep
  <1>6. CASE TagByte
    <2>1. /\ mode = "tag" /\ current \in Alnum /\ buf' = Append(buf, current)
          /\ at' = at + 1 /\ UNCHANGED <<mode, tokens>>
      BY <1>6 DEF TagByte
    <2>2. current # NUL /\ current \notin Structural(delimiters) \cup {delimiters.release}
      BY <1>f, <2>1
    <2>3. ASSUME Latest \notin Ending
          PROVE  Prefix(at') /\ Place'
      <3>1. Opening(at) /\ Sound(at)
        BY <1>e, <1>h, <2>1, <2>2, <2>3 DEF Place, Sound
      <3>2. Prefix(at + 1) /\ Opening(at + 1)
        BY <1>i, <2>2, <2>3, <3>1
      <3>3. at' > 1 /\ at' - 1 = at /\ Used[at] \in Alnum
        BY <1>e, <2>1, <2>2
      <3>4. buf' # <<>>
        BY <2>1, BytesOfText DEF TypeOK, current
      <3> QED
        BY <1>b, <1>d, <1>e, <2>1, <3>2, <3>3, <3>4 DEF Place
    <2> QED
      BY <1>e, <1>g, <2>1, <2>2, <2>3
  <1>7. CASE EndTag
    <2>1. /\ mode = "tag" /\ current \notin Alnum /\ at' = at
          /\ Emit("SegmentTag", buf)
      BY <1>7 DEF EndTag
    <2>2. /\ Latest' = "SegmentTag" /\ Latest \notin Ending
          /\ mode' = "next" /\ buf' = <<>>
      <3>1. buf \in Seq(Byte) /\ "SegmentTag" \in TokenType
        BY DEF TypeOK, TokenType
      <3> QED
        BY <2>1, <3>1, EmittedIsLatest
    <2>3. Opening(at) /\ at > 1 /\ Used[at - 1] \in Alnum
      BY <1>h, <2>1, <2>2 DEF Place
    <2>4. Place'
      BY <1>b, <1>d, <1>e, <2>1, <2>2, <2>3 DEF Place
    <2> QED
      BY <1>b, <1>d, <1>e, <1>h, <2>1, <2>2, <2>4 DEF ReadInv, Ending
  <1>8. CASE BeginDataElement \/ BeginComponent
    <2>1. /\ current \in Structural(delimiters) /\ current # delimiters.terminator
          /\ at' = at + 1 /\ mode' = "value" /\ UNCHANGED <<tokens, buf>>
      BY <1>8 DEF BeginDataElement, BeginComponent, Structural
    <2>2. current # NUL
      BY <1>f, <2>1
    <2>3. ASSUME Latest \notin Ending
          PROVE  Prefix(at') /\ Place'
      <3>1. Mark(at) /\ ~EndsSegment(at) /\ Prefix(at + 1) /\ ~Opening(at + 1)
        BY <1>e, <1>f, <1>i, <2>1, <2>2, <2>3 DEF Sound
      <3> QED
        BY <1>d, <1>e, <2>1, <3>1 DEF Place
    <2> QED
      BY <1>e, <1>g, <2>1, <2>2, <2>3
  <1>9. CASE ReleasedByte
    <2>1. /\ mode = "value" /\ current = delimiters.release /\ current # NUL /\ peek # NUL
          /\ at' = at + 2 /\ UNCHANGED <<tokens, mode>>
      BY <1>9 DEF ReleasedByte, Released
    <2>2. at + 1 \in 1 .. Len(Used)
      BY <1>e, <2>1
    <2>3. ASSUME Latest \notin Ending
          PROVE  Prefix(at') /\ Place'
      <3>1. Releases(at) /\ ~Mark(at) /\ ~EndsSegment(at) /\ ~Opening(at)
        BY <1>f, <1>h, <1>i, <2>1, <2>3 DEF Place, Structural
      <3>2. ~Opening(at + 1)
        BY <1>i, <2>1, <2>3, <3>1
      <3>3. released[at + 1]
        BY <1>e, <2>2, <3>1, ReleasedIs DEF Releases
      <3>4. ~Mark(at + 1) /\ ~EndsSegment(at + 1) /\ ~Releases(at + 1)
        BY <3>3 DEF Mark, EndsSegment, Releases
      <3>5. ~Opening((at + 1) + 1)
        BY <2>2, <3>2, <3>4, OpeningNext
      <3>6. Prefix(at + 2)
        <4>1. \A i \in 1 .. (at + 2) - 1 : i \in 1 .. at - 1 \/ i = at \/ i = at + 1
          BY <1>e
        <4> QED
          BY <1>e, <1>h, <2>3, <3>1, <3>2, <3>4, <4>1 DEF Prefix
      <3>7. (at + 1) + 1 = at'
        BY <1>e, <2>1
      <3> QED
        BY <1>d, <1>e, <2>1, <3>5, <3>6, <3>7 DEF Place
    <2> QED
      BY <1>e, <1>g, <2>1, <2>2, <2>3
  <1>10. CASE ReleaseAtEnd
    <2>1. /\ mode = "value" /\ current = delimiters.release /\ current # NUL /\ peek = NUL
          /\ Emit("Error", <<>>) /\ at' = at
      BY <1>10 DEF ReleaseAtEnd, Released
    <2>2. Latest \notin Ending
      BY <2>1 DEF Emit
    <2>3. Releases(at) /\ at = Len(Used)
      BY <1>e, <1>i, <2>1, <2>2
    <2>4. ~WellFormed
      BY <1>e, <2>1, <2>3 DEF WellFormed
    <2> QED
      BY <1>a, <1>c, <2>1, <2>4, EndingStep
  <1>11. CASE ValueByte
    <2>1. /\ mode = "value" /\ current \notin EndsValue \cup {delimiters.release}
          /\ at' = at + 1 /\ UNCHANGED <<mode, tokens>>
      BY <1>11 DEF ValueByte
    <2>2. current # NUL /\ current \notin Structural(delimiters) \cup {delimiters.release}
      BY <2>1 DEF EndsValue
    <2>3. ASSUME Latest \notin Ending
          PROVE  Prefix(at') /\ Place'
      <3>1. ~Opening(at)
        BY <1>h, <2>1, <2>3 DEF Place
      <3>2. ~EndsSegment(at)
        BY <1>i, <2>2, <2>3 DEF Structural
      <3>3. Prefix(at + 1) /\ ~Opening(at + 1)
        BY <1>i, <2>2, <2>3, <3>1, <3>2
      <3> QED
        BY <1>d, <1>e, <2>1, <3>3 DEF Place
    <2> QED
      BY <1>e, <1>g, <2>1, <2>2, <2>3
  <1>12. CASE EndValue
    <2>1. /\ mode = "value" /\ at' = at /\ Emit(kind, buf)
      BY <1>12 DEF EndValue, Released
    <2>2. /\ Latest' = kind /\ Latest \notin Ending /\ kind \in {"DataElement", "Component"}
          /\ mode' = "next" /\ buf' = <<>>
      <3>1. buf \in Seq(Byte) /\ kind \in TokenType /\ kind \in {"DataElement", "Component"}
        BY DEF TypeOK, TokenType
      <3> QED
        BY <2>1, <3>1, EmittedIsLatest
    <2>3. Place'
      BY <1>d, <1>e, <1>h, <2>1, <2>2 DEF Place
    <2> QED
      BY <1>b, <1>d, <1>e, <1>h, <2>1, <2>2, <2>3 DEF ReadInv, Ending
  <1>13. CASE UNCHANGED vars
    <2>1. /\ at' = at /\ mode' = mode /\ buf' = buf /\ Latest' = Latest
          /\ afterSegmentEnd' = afterSegmentEnd /\ current' = current
      BY <1>13 DEF vars, Latest, current, ByteAt
    <2>2. Place' <=> Place
      BY <1>b, <1>d, <1>e, <2>1 DEF Place
    <2> QED
      BY <1>b, <1>c, <1>d, <1>e, <2>1, <2>2 DEF ReadInv
  <1> QED
    BY <1>1, <1>2, <1>3, <1>4, <1>5, <1>6, <1>7, <1>8, <1>9, <1>10, <1>11, <1>12, <1>13
       DEF NextToken

(* A new lexer stands at the start of its text, before its first segment.   *)
LEMMA ReadInit == TypeOK /\ NewLexer => OrderInv /\ ReadInv
  <1> SUFFICES ASSUME TypeOK, NewLexer
               PROVE  OrderInv /\ ReadInv
    OBVIOUS
  <1>1. at = 1 /\ mode = "next" /\ buf = <<>> /\ Latest = "start" /\ afterSegmentEnd
    BY DEF NewLexer, Latest
  <1>2. Opening(1) /\ Prefix(1)
    BY DEF Opening, Prefix
  <1>3. Len(Used) \in Nat
    BY UsedBytes
  <1> QED
    BY <1>1, <1>2, <1>3 DEF OrderInv, Mid, ReadInv, Place, Ending

(* The lexer reports an error exactly on malformed texts: a byte that is no *)
(* tag, separator or blank where a segment opens, or a release character at *)
(* the very end of the input (lexer.go:98, 140).                            *)
THEOREM ErrorsAreDeserved == Spec => []GivesUpOnlyOnBadInput
  <1>1. NewLexer => TypeOK
    BY LexerAssumption DEF NewLexer, TypeOK
  <1>2. TypeOK /\ ReadInv => GivesUpOnlyOnBadInput
    BY WholePrefix DEF ReadInv, GivesUpOnlyOnBadInput, Ending
  <1> QED
    BY <1>1, <1>2, ReadInit, TypeStep, OrderStep, ReadStep, PTL DEF Spec

-------------------------------------------------------------------------------
(* The functions on 0 .. n with a given first value and a rule for the next *)
Runs(n, S, base, next) ==
    {g \in [0 .. n -> S] : g[0] = base /\ \A i \in 1 .. n : g[i] = next[i][g[i - 1]]}

(* There is always one: what the recursive functions below stand on.        *)
LEMMA RunExists ==
    ASSUME NEW n \in Nat, NEW S, NEW base \in S, NEW next \in [1 .. n -> [S -> S]]
    PROVE  \E g : g \in Runs(n, S, base, next)
  <1> DEFINE Fits(g, m) == g[0] = base /\ \A i \in 1 .. m : g[i] = next[i][g[i - 1]]
             None == {m \in 0 .. n : \A g \in [0 .. m -> S] : ~Fits(g, m)}
  <1>1. ASSUME None # {}
        PROVE  FALSE
    <2>1. PICK m \in None : \A y \in None : m <= y
      <3>1. None \in SUBSET Nat
        OBVIOUS
      <3> QED
        BY <1>1, <3>1, SmallestNumber
    <2>2. m \in 0 .. n /\ \A g \in [0 .. m -> S] : ~Fits(g, m)
      OBVIOUS
    <2>3. CASE m = 0
      <3>1. [i \in 0 .. 0 |-> base] \in [0 .. m -> S] /\ Fits([i \in 0 .. 0 |-> base], m)
        BY <2>3
      <3> QED
        BY <2>2, <3>1
    <2>4. CASE m # 0
      <3>1. m - 1 \in 0 .. n /\ m - 1 \notin None
        <4> HIDE DEF None
        <4> QED
          BY <2>1, <2>2, <2>4
      <3>2. PICK g \in [0 .. m - 1 -> S] : Fits(g, m - 1)
        BY <3>1
      <3> DEFINE h == [i \in 0 .. m |-> IF i = m THEN next[m][g[m - 1]] ELSE g[i]]
      <3>3. m \in 1 .. n /\ m - 1 \in 0 .. m - 1
        BY <2>2, <2>4
      <3>4. next[m][g[m - 1]] \in S
        BY <3>3
      <3>5. h \in [0 .. m -> S]
        BY <3>3, <3>4
      <3>6. h[0] = base
        BY <3>2, <3>3
      <3>7. ASSUME NEW i \in 1 .. m
            PROVE  h[i] = next[i][h[i - 1]]
        <4>1. i - 1 \in 0 .. m - 1 /\ h[i - 1] = g[i - 1]
          BY <3>3
        <4>2. CASE i = m
          BY <3>3, <4>1, <4>2
        <4>3. CASE i # m
          <5>1. i \in 1 .. m - 1 /\ h[i] = g[i]
            BY <3>3, <4>3
          <5> HIDE DEF h
          <5> QED
            BY <3>2, <4>1, <5>1
        <4> QED
          BY <4>2, <4>3
      <3> HIDE DEF h
      <3>8. Fits(h, m)
        BY <3>6, <3>7
      <3> QED
        BY <2>2, <3>5, <3>8
    <2> QED
      BY <2>3, <2>4
  <1>2. n \in 0 .. n /\ n \notin None
    <2> HIDE DEF None
    <2> QED
      BY <1>1
  <1>3. PICK g \in [0 .. n -> S] : Fits(g, n)
    BY <1>2
  <1> QED
    BY <1>3 DEF Runs

(* FlattenSeq joins its sequences one by one.                               *)
LEMMA FlattenBySteps ==
    ASSUME NEW T, NEW seqs \in Seq(Seq(T)), NEW g \in [0 .. Len(seqs) -> Seq(T)],
           g[0] = <<>>, \A i \in 1 .. Len(seqs) : g[i] = g[i - 1] \o seqs[i]
    PROVE  FlattenSeq(seqs) = g[Len(seqs)]
  <1> DEFINE L == Len(seqs)
             Fits(f) == f = [i \in 1 .. L |-> IF i = 1 THEN seqs[i] ELSE f[i - 1] \o seqs[i]]
             f0 == [i \in 1 .. L |-> g[i]]
             flat == CHOOSE f : Fits(f)
  <1>0. L \in Nat /\ \A i \in 1 .. L : seqs[i] \in Seq(T)
    OBVIOUS
  <1>1. CASE L = 0
    BY <1>1 DEF FlattenSeq
  <1>2. CASE L # 0
    <2>1. \A i \in 1 .. L : f0[i] = IF i = 1 THEN seqs[i] ELSE f0[i - 1] \o seqs[i]
      <3> SUFFICES ASSUME NEW i \in 1 .. L
                   PROVE  f0[i] = IF i = 1 THEN seqs[i] ELSE f0[i - 1] \o seqs[i]
        OBVIOUS
      <3>1. f0[i] = g[i - 1] \o seqs[i]
        BY <1>0
      <3>2. i = 1 => g[i - 1] \o seqs[i] = seqs[i]
        BY <1>0
      <3>3. i # 1 => f0[i - 1] = g[i - 1]
        BY <1>0
      <3> HIDE DEF f0
      <3> QED
        BY <3>1, <3>2, <3>3
    <2>2. Fits(f0)
      BY <2>1
    <2>3. Fits(flat)
      <3> HIDE DEF Fits, f0
      <3> QED
        BY <2>2
    <2>4. FlattenSeq(seqs) = flat[L]
      BY <1>2 DEF FlattenSeq
    <2>5. \A i \in 1 .. L : flat[i] = IF i = 1 THEN seqs[i] ELSE flat[i - 1] \o seqs[i]
      <3> HIDE DEF flat
      <3> QED
        BY <2>3
    <2> HIDE DEF flat, f0, L
    <2> DEFINE Differ == {i \in 1 .. L : flat[i] # g[i]}
    <2>6. ASSUME Differ # {}
          PROVE  FALSE
      <3>1. PICK d \in Differ : \A y \in Differ : d <= y
        <4>1. Differ \in SUBSET Nat
          BY <1>0
        <4> HIDE DEF Differ
        <4> QED
          BY <2>6, <4>1, SmallestNumber
      <3>2. d \in 1 .. L /\ flat[d] # g[d]
        OBVIOUS
      <3>3. d # 1 => d - 1 \in 1 .. L /\ d - 1 \notin Differ
        BY <1>0, <3>1, <3>2
      <3>4. d # 1 => flat[d - 1] = g[d - 1]
        BY <3>3
      <3>5. flat[d] = IF d = 1 THEN seqs[d] ELSE flat[d - 1] \o seqs[d]
        BY <2>5, <3>2
      <3>6. g[d] = g[d - 1] \o seqs[d] /\ seqs[d] \in Seq(T)
        BY <1>0, <3>2 DEF L
      <3>7. d = 1 => g[d] = seqs[d]
        <4>1. <<>> \o seqs[d] = seqs[d]
          BY <3>6
        <4>2. d = 1 => g[d - 1] = <<>>
          OBVIOUS
        <4> QED
          BY <3>6, <4>1, <4>2
      <3> HIDE DEF Differ
      <3> QED
        BY <3>2, <3>4, <3>5, <3>6, <3>7
    <2>7. L \in 1 .. L
      BY <1>0, <1>2
    <2>8. flat[L] = g[L]
      BY <2>6, <2>7
    <2> QED
      BY <2>4, <2>8 DEF L
  <1> QED
    BY <1>1, <1>2

(* ... so one more sequence at the end is one more piece of the result.     *)
LEMMA FlattenAppend ==
    ASSUME NEW T, NEW seqs \in Seq(Seq(T)), NEW s \in Seq(T)
    PROVE  /\ FlattenSeq(seqs) \in Seq(T)
           /\ FlattenSeq(Append(seqs, s)) = FlattenSeq(seqs) \o s
  <1> DEFINE L == Len(seqs)
             longer == Append(seqs, s)
             N == Len(longer)
             next == [i \in 1 .. N |-> [t \in Seq(T) |-> t \o longer[i]]]
  <1>1. /\ L \in Nat /\ N \in Nat /\ N = L + 1
        /\ longer \in Seq(Seq(T))
        /\ \A i \in 1 .. N : longer[i] \in Seq(T)
        /\ \A i \in 1 .. L : longer[i] = seqs[i] /\ i \in 1 .. N /\ i - 1 \in 0 .. L
        /\ longer[N] = s
    OBVIOUS
  <1> HIDE DEF longer
  <1>2. next \in [1 .. N -> [Seq(T) -> Seq(T)]]
    <2>1. \A i \in 1 .. N, t \in Seq(T) : t \o longer[i] \in Seq(T)
      BY <1>1
    <2> QED
      BY <2>1
  <1>3. <<>> \in Seq(T)
    OBVIOUS
  <1>4. PICK g \in [0 .. N -> Seq(T)] :
           /\ g[0] = <<>>
           /\ \A i \in 1 .. N : g[i] = next[i][g[i - 1]]
    <2> HIDE DEF next, N
    <2>1. PICK g : g \in Runs(N, Seq(T), <<>>, next)
      BY <1>1, <1>2, <1>3, RunExists, Zenon
    <2> QED
      BY <2>1 DEF Runs
  <1>5. \A i \in 1 .. N : g[i] = g[i - 1] \o longer[i]
    <2>1. ASSUME NEW i \in 1 .. N
          PROVE  g[i] = g[i - 1] \o longer[i]
      <3>1. g[i - 1] \in Seq(T)
        <4>1. N \in Nat
          BY <1>1
        <4> HIDE DEF N, next
        <4> QED
          BY ONLY <4>1, g \in [0 .. N -> Seq(T)], i \in 1 .. N
      <3> QED
        BY <1>4, <3>1
    <2> QED
      BY <2>1
  <1> HIDE DEF next
  <1>6. FlattenSeq(longer) = g[N]
    BY <1>1, <1>4, <1>5, FlattenBySteps
  <1> HIDE DEF N
  <1> DEFINE h == [i \in 0 .. L |-> g[i]]
  <1>7. h \in [0 .. L -> Seq(T)] /\ h[0] = <<>> /\ h[L] = g[L] /\ g[L] \in Seq(T)
    BY <1>1, <1>4
  <1>8. \A i \in 1 .. L : h[i] = h[i - 1] \o seqs[i]
    <2>1. ASSUME NEW i \in 1 .. L
          PROVE  h[i] = h[i - 1] \o seqs[i]
      <3>1. h[i] = g[i] /\ h[i - 1] = g[i - 1]
        BY <1>1
      <3>2. g[i] = g[i - 1] \o longer[i] /\ longer[i] = seqs[i]
        BY <1>1, <1>5
      <3> QED
        BY <3>1, <3>2
    <2> QED
      BY <2>1
  <1>9. FlattenSeq(seqs) = g[L]
    <2> HIDE DEF h
    <2> QED
      BY <1>7, <1>8, FlattenBySteps
  <1>10. g[N] = g[L] \o s
    <2>1. N \in 1 .. N /\ N - 1 = L
      BY <1>1
    <2> QED
      BY <1>1, <1>5, <2>1
  <1> QED
    BY <1>6, <1>7, <1>9, <1>10 DEF longer

-------------------------------------------------------------------------------
\* a byte of the text and what it is
Symbol == Byte \X {"mark", "data"}

(* What the proofs below use of concatenation.                              *)
LEMMA Concatenation ==
    ASSUME NEW S, NEW s \in Seq(S), NEW t \in Seq(S), NEW e \in S
    PROVE  /\ s \o <<>> = s
           /\ s \o t \in Seq(S)
           /\ s \o Append(t, e) = Append(s \o t, e)
           /\ s \o <<e>> = Append(s, e)
           /\ Append(<<>>, e) = <<e>>
  OBVIOUS

(* Append, point by point.                                                  *)
LEMMA AppendPoints ==
    ASSUME NEW S, NEW s \in Seq(S), NEW e \in S
    PROVE  /\ Append(s, e) = [i \in 1 .. Len(s) + 1 |-> IF i = Len(s) + 1 THEN e ELSE s[i]]
           /\ Append(s, e) \in Seq(S)
           /\ Len(Append(s, e)) = Len(s) + 1
           /\ \A i \in 1 .. Len(s) + 1 : Append(s, e)[i] = IF i = Len(s) + 1 THEN e ELSE s[i]
  <1> DEFINE t == [i \in 1 .. Len(s) + 1 |-> IF i = Len(s) + 1 THEN e ELSE s[i]]
  <1>1. /\ Append(s, e) \in Seq(S)
        /\ Len(Append(s, e)) = Len(s) + 1
        /\ \A i \in 1 .. Len(s) : Append(s, e)[i] = s[i]
        /\ Append(s, e)[Len(s) + 1] = e
    BY AppendProperties
  <1>2. t \in Seq(S) /\ Len(t) = Len(s) + 1
    OBVIOUS
  <1>3. ASSUME NEW i \in 1 .. Len(s) + 1
        PROVE  t[i] = Append(s, e)[i] /\ t[i] = IF i = Len(s) + 1 THEN e ELSE s[i]
    <2>1. CASE i = Len(s) + 1
      BY <1>1, <2>1
    <2>2. CASE i # Len(s) + 1
      <3>1. i \in 1 .. Len(s)
        BY <2>2
      <3> QED
        BY <1>1, <2>2, <3>1
    <2> QED
      BY <2>1, <2>2
  <1> HIDE DEF t
  <1>4. t = Append(s, e)
    BY <1>1, <1>2, <1>3, SeqEqual
  <1> QED
    BY <1>1, <1>3, <1>4 DEF t

(* One more byte of a value is one more byte of data.                       *)
LEMMA DataBytes ==
    /\ Data(<<>>) = <<>>
    /\ \A s \in Seq(Byte) : Data(s) \in Seq(Symbol)
    /\ \A s \in Seq(Byte), b \in Byte : Data(Append(s, b)) = Append(Data(s), <<b, "data">>)
  <1>1. Data(<<>>) = <<>>
    BY DEF Data
  <1>2. ASSUME NEW s \in Seq(Byte)
        PROVE  Data(s) \in Seq(Symbol)
    BY DEF Data, Symbol
  <1>3. ASSUME NEW s \in Seq(Byte), NEW b \in Byte
        PROVE  Data(Append(s, b)) = Append(Data(s), <<b, "data">>)
    <2>1. /\ Data(s) \in Seq(Symbol) /\ Len(Data(s)) = Len(s)
          /\ \A i \in 1 .. Len(s) : Data(s)[i] = <<s[i], "data">>
      BY <1>2 DEF Data
    <2>2. /\ Append(s, b) \in Seq(Byte) /\ Len(Append(s, b)) = Len(s) + 1
          /\ Data(Append(s, b)) \in Seq(Symbol)
          /\ Len(Data(Append(s, b))) = Len(s) + 1
          /\ \A i \in 1 .. Len(s) + 1 : Data(Append(s, b))[i] = <<Append(s, b)[i], "data">>
      <3>1. /\ Append(s, b) \in Seq(Byte) /\ Len(Append(s, b)) = Len(s) + 1
            /\ DOMAIN Append(s, b) = 1 .. Len(s) + 1
        OBVIOUS
      <3>2. Data(Append(s, b)) \in Seq(Symbol)
        BY <1>2, <3>1
      <3>3. DOMAIN Data(Append(s, b)) = 1 .. Len(s) + 1
        BY <3>1 DEF Data
      <3>4. \A i \in 1 .. Len(s) + 1 : Data(Append(s, b))[i] = <<Append(s, b)[i], "data">>
        BY <3>1 DEF Data
      <3> QED
        BY <3>1, <3>2, <3>3, <3>4
    <2>3. \A i \in 1 .. Len(s) + 1 :
             Append(s, b)[i] = IF i = Len(s) + 1 THEN b ELSE s[i]
      OBVIOUS
    <2>4. <<b, "data">> \in Symbol
      BY DEF Symbol
    <2>5. /\ Append(Data(s), <<b, "data">>) \in Seq(Symbol)
          /\ Len(Append(Data(s), <<b, "data">>)) = Len(s) + 1
          /\ \A i \in 1 .. Len(s) + 1 : Append(Data(s), <<b, "data">>)[i] =
                 IF i = Len(s) + 1 THEN <<b, "data">> ELSE <<s[i], "data">>
      <3>1. PICK d \in Seq(Symbol) : d = Data(s)
        BY <2>1
      <3>2. PICK e \in Symbol : e = <<b, "data">>
        BY <2>4
      <3>3. /\ Append(d, e) \in Seq(Symbol)
            /\ Len(Append(d, e)) = Len(d) + 1
            /\ \A i \in 1 .. Len(d) + 1 : Append(d, e)[i] = IF i = Len(d) + 1 THEN e ELSE d[i]
        BY AppendPoints
      <3>4. Len(d) = Len(s) /\ \A i \in 1 .. Len(s) : d[i] = <<s[i], "data">>
        BY <2>1, <3>1
      <3>5. \A i \in 1 .. Len(s) + 1 : Append(d, e)[i] =
                IF i = Len(s) + 1 THEN e ELSE <<s[i], "data">>
        <4>1. Len(s) \in Nat
          OBVIOUS
        <4>2. ASSUME NEW i \in 1 .. Len(s) + 1
              PROVE  Append(d, e)[i] = IF i = Len(s) + 1 THEN e ELSE <<s[i], "data">>
          <5>1. i # Len(s) + 1 => i \in 1 .. Len(s)
            BY <4>1
          <5>2. Append(d, e)[i] = IF i = Len(s) + 1 THEN e ELSE d[i]
            BY <3>3, <3>4
          <5> QED
            BY <3>4, <5>1, <5>2
        <4> QED
          BY <4>2
      <3> QED
        BY <3>1, <3>2, <3>3, <3>4, <3>5
    <2>6. \A i \in 1 .. Len(s) + 1 :
             Data(Append(s, b))[i] = Append(Data(s), <<b, "data">>)[i]
      BY <2>2, <2>3, <2>5
    <2> HIDE DEF Data
    <2> QED
      BY <2>2, <2>5, <2>6
  <1> QED
    BY <1>1, <1>2, <1>3

(* A token says a sequence of symbols.                                      *)
LEMMA WrittenTyped ==
    ASSUME TypeOK, NEW t \in TokenRecord
    PROVE  Written(t) \in Seq(Symbol)
  <1>1. t.value \in Seq(Byte) /\ t.type \in TokenType
    BY DEF TokenRecord
  <1>2. Data(t.value) \in Seq(Symbol)
    BY <1>1, DataBytes
  <1>3. \A b \in Byte : Separator(b) \in Seq(Symbol)
    BY DEF Separator, Symbol
  <1>4. delimiters \in Delimiters
    BY LexerAssumption DEF TypeOK
  <1>5. {delimiters.element, delimiters.component, delimiters.terminator} \subseteq Byte
    BY <1>4 DEF Delimiters
  <1>6. <<>> \in Seq(Symbol)
    OBVIOUS
  <1>7. \A b \in Byte : Separator(b) \o Data(t.value) \in Seq(Symbol)
    BY <1>2, <1>3
  <1>8. /\ Separator(delimiters.element) \o Data(t.value) \in Seq(Symbol)
        /\ Separator(delimiters.component) \o Data(t.value) \in Seq(Symbol)
        /\ Separator(delimiters.terminator) \in Seq(Symbol)
    BY <1>3, <1>5, <1>7
  <1> QED
    BY <1>1, <1>2, <1>6, <1>8 DEF Written, TokenType

\* what the tokens returned so far say
Said == FlattenSeq([i \in DOMAIN tokens |-> Written(tokens[i])])

(* Each token that is returned adds what it says.                           *)
LEMMA SaidByEmit ==
    ASSUME TypeOK, TypeOK', delimiters' = delimiters, NEW type \in TokenType,
           NEW value \in Seq(Byte), Emit(type, value)
    PROVE  /\ Said \in Seq(Symbol)
           /\ Said' = Said \o Written([type |-> type, value |-> value])
  <1> DEFINE t == [type |-> type, value |-> value]
             pieces == [i \in DOMAIN tokens |-> Written(tokens[i])]
  <1>1. t \in TokenRecord /\ tokens' = Append(tokens, t) /\ tokens \in Seq(TokenRecord)
    BY DEF Emit, TokenRecord, TypeOK
  <1> HIDE DEF t
  <1>2. Written(t) \in Seq(Symbol)
    BY <1>1, WrittenTyped
  <1>3. pieces \in Seq(Seq(Symbol)) /\ Len(pieces) = Len(tokens)
    <2>1. \A i \in 1 .. Len(tokens) : Written(tokens[i]) \in Seq(Symbol)
      BY <1>1, WrittenTyped
    <2> QED
      BY <1>1, <2>1
  <1>4. \A r : Written(r)' = Written(r)
    BY DEF Written, Separator, Data
  <1>5. /\ Len(tokens') = Len(tokens) + 1 /\ DOMAIN tokens' = 1 .. Len(tokens) + 1
        /\ \A i \in 1 .. Len(tokens) : tokens'[i] = tokens[i]
        /\ tokens'[Len(tokens) + 1] = t
    BY <1>1
  <1>6. [i \in DOMAIN tokens |-> Written(tokens[i])]' = Append(pieces, Written(t))
    <2>1. [i \in DOMAIN tokens |-> Written(tokens[i])]'
             = [i \in 1 .. Len(tokens) + 1 |-> Written(tokens'[i])]
      BY <1>4, <1>5
    <2>2. \A i \in 1 .. Len(tokens) : pieces[i] = Written(tokens[i])
      BY <1>1
    <2> HIDE DEF pieces
    <2>3. Append(pieces, Written(t)) = [i \in 1 .. Len(tokens) + 1 |->
              IF i = Len(tokens) + 1 THEN Written(t) ELSE pieces[i]]
      BY <1>2, <1>3, AppendPoints
    <2> QED
      BY <1>1, <1>5, <2>1, <2>2, <2>3
  <1>7. /\ FlattenSeq(pieces) \in Seq(Symbol)
        /\ FlattenSeq(Append(pieces, Written(t))) = FlattenSeq(pieces) \o Written(t)
    <2> HIDE DEF pieces
    <2> QED
      BY <1>2, <1>3, FlattenAppend
  <1>8. Said' = FlattenSeq(Append(pieces, Written(t)))
    BY <1>6 DEF Said
  <1> QED
    BY <1>7, <1>8 DEF Said, t

(* The equations of meaning, for any function.                              *)
IsMeaning(m) ==
    /\ m[0] = <<>>
    /\ \A i \in 1 .. Len(Used) :
           m[i] = IF Releases(i) \/ Between(i) THEN m[i - 1]
                  ELSE Append(m[i - 1], <<Used[i], IF Mark(i) THEN "mark" ELSE "data">>)

(* The recursive definition of meaning has a solution and so satisfies its  *)
(* equations.                                                               *)
LEMMA MeaningExists ==
    ASSUME TypeOK
    PROVE  IsMeaning(meaning)
  <1> DEFINE n == Len(Used)
             sym(i) == <<Used[i], IF Mark(i) THEN "mark" ELSE "data">>
             next == [i \in 1 .. n |-> [s \in Seq(Symbol) |->
                         IF Releases(i) \/ Between(i) THEN s ELSE Append(s, sym(i))]]
             Fits(f) == f = [i \in 0 .. n |->
                 IF i = 0 THEN <<>>
                 ELSE IF Releases(i) \/ Between(i) THEN f[i - 1]
                 ELSE Append(f[i - 1], sym(i))]
  <1>1. n \in Nat /\ \A i \in 1 .. n : sym(i) \in Symbol
    BY UsedBytes DEF Symbol
  <1> HIDE DEF n, sym
  <1>2. next \in [1 .. n -> [Seq(Symbol) -> Seq(Symbol)]] /\ <<>> \in Seq(Symbol)
    BY <1>1
  <1>3. PICK g \in [0 .. n -> Seq(Symbol)] :
           g[0] = <<>> /\ \A i \in 1 .. n : g[i] = next[i][g[i - 1]]
    <2> HIDE DEF next
    <2>1. PICK g : g \in Runs(n, Seq(Symbol), <<>>, next)
      BY <1>1, <1>2, RunExists, Zenon
    <2> QED
      BY <2>1 DEF Runs
  <1>4. \A i \in 1 .. n : /\ g[i - 1] \in Seq(Symbol)
                          /\ g[i] = IF Releases(i) \/ Between(i) THEN g[i - 1]
                                    ELSE Append(g[i - 1], sym(i))
    <2> SUFFICES ASSUME NEW i \in 1 .. n
                 PROVE  /\ g[i - 1] \in Seq(Symbol)
                        /\ g[i] = IF Releases(i) \/ Between(i) THEN g[i - 1]
                                  ELSE Append(g[i - 1], sym(i))
      OBVIOUS
    <2>1. i - 1 \in 0 .. n
      BY <1>1
    <2>2. g[i - 1] \in Seq(Symbol)
      BY <2>1
    <2> QED
      BY <1>3, <2>2
  <1> HIDE DEF next
  <1>5. Fits(g)
    <2>1. g = [i \in 0 .. n |-> g[i]]
      OBVIOUS
    <2>2. \A i \in 0 .. n : i = 0 \/ i \in 1 .. n
      BY <1>1
    <2>3. \A i \in 0 .. n : g[i] = IF i = 0 THEN <<>>
                 ELSE IF Releases(i) \/ Between(i) THEN g[i - 1]
                 ELSE Append(g[i - 1], sym(i))
      BY <1>3, <1>4, <2>2
    <2> QED
      BY <2>1, <2>3
  <1>6. Fits(meaning)
    <2>1. meaning = CHOOSE f : Fits(f)
      BY DEF meaning, n, sym
    <2> HIDE DEF Fits
    <2> QED
      BY <1>5, <2>1
  <1>7. \A i \in 0 .. n : meaning[i] = IF i = 0 THEN <<>>
                 ELSE IF Releases(i) \/ Between(i) THEN meaning[i - 1]
                 ELSE Append(meaning[i - 1], sym(i))
    BY <1>6
  <1>8. \A i \in 1 .. n : i \in 0 .. n /\ i # 0
    BY <1>1
  <1>9. meaning[0] = <<>>
    BY <1>1, <1>7
  <1>10. \A i \in 1 .. n : meaning[i] = IF Releases(i) \/ Between(i) THEN meaning[i - 1]
                 ELSE Append(meaning[i - 1], sym(i))
    BY <1>7, <1>8
  <1> QED
    BY <1>9, <1>10 DEF IsMeaning, n, sym

-------------------------------------------------------------------------------
\* the separator a value of kind k begins with
Opens(k) == IF k = "DataElement" THEN delimiters.element ELSE delimiters.component

\* what the bytes of the token being read say so far
Pending ==
    IF mode = "next" THEN <<>>
    ELSE IF mode = "tag" THEN Data(buf)
    ELSE Separator(Opens(kind)) \o Data(buf)

(* The strengthening of LosesNothing: the tokens returned and the bytes of  *)
(* the one being read say what the text up to the current byte says.        *)
WriteInv ==
    Suitable(delimiters) /\ Latest # "Error" =>
        \A m : IsMeaning(m) => Said \o Pending = m[at - 1]

(* Both parts of the invariant are sequences of symbols.                    *)
LEMMA PendingTyped ==
    ASSUME TypeOK
    PROVE  /\ Pending \in Seq(Symbol) /\ Data(buf) \in Seq(Symbol)
           /\ \A k : Separator(Opens(k)) = <<<<Opens(k), "mark">>>>
           /\ \A k : <<Opens(k), "mark">> \in Symbol /\ Separator(Opens(k)) \in Seq(Symbol)
  <1>1. delimiters \in Delimiters
    BY LexerAssumption DEF TypeOK
  <1>2. \A k : Opens(k) \in Byte
    BY <1>1 DEF Opens, Delimiters
  <1>3. \A k : <<Opens(k), "mark">> \in Symbol /\ Separator(Opens(k)) \in Seq(Symbol)
    BY <1>2 DEF Symbol, Separator
  <1>4. \A k : Separator(Opens(k)) = <<<<Opens(k), "mark">>>>
    BY DEF Separator
  <1>5. Data(buf) \in Seq(Symbol)
    BY DataBytes DEF TypeOK
  <1>6. Separator(Opens(kind)) \o Data(buf) \in Seq(Symbol)
    BY <1>3, <1>5, ConcatProperties
  <1>7. <<>> \in Seq(Symbol)
    OBVIOUS
  <1> QED
    BY <1>3, <1>4, <1>5, <1>6, <1>7 DEF Pending

(* What the tokens returned so far say is a sequence of symbols.            *)
LEMMA SaidTyped ==
    ASSUME TypeOK
    PROVE  Said \in Seq(Symbol)
  <1> DEFINE pieces == [i \in DOMAIN tokens |-> Written(tokens[i])]
  <1>1. pieces \in Seq(Seq(Symbol))
    <2>1. tokens \in Seq(TokenRecord)
      BY DEF TypeOK
    <2>2. \A i \in 1 .. Len(tokens) : Written(tokens[i]) \in Seq(Symbol)
      BY <2>1, WrittenTyped
    <2> QED
      BY <2>1, <2>2
  <1>2. FlattenSeq(pieces) \in Seq(Symbol)
    <2> HIDE DEF pieces
    <2>1. <<>> \in Seq(Symbol)
      OBVIOUS
    <2> QED
      BY <1>1, <2>1, FlattenAppend
  <1> QED
    BY <1>2 DEF Said

(* Every step of the scanner says what the bytes it consumes say            *)
(* (lexer.go:106-160).                                                      *)
LEMMA WriteStep == TypeOK /\ OrderInv /\ ReadInv /\ WriteInv /\ [NextToken]_vars => WriteInv'
  <1> SUFFICES ASSUME TypeOK, OrderInv, ReadInv, WriteInv, [NextToken]_vars,
                      Suitable(delimiters)', Latest' # "Error",
                      NEW m, IsMeaning(m)'
               PROVE  Said' \o Pending' = m[at' - 1]
    BY DEF WriteInv
  <1>a. TypeOK'
    BY TypeStep
  <1>b. /\ Used' = Used /\ released' = released /\ delimiters' = delimiters
        /\ text' = text
    BY <1>a, InputStays
  <1>c. Suitable(delimiters) /\ IsMeaning(m)
    BY <1>b DEF IsMeaning, Releases, Between, EndsSegment, Mark, Structural
  <1>d. /\ \A s : Data(s)' = Data(s)
        /\ \A k : Opens(k)' = Opens(k)
        /\ \A b : Separator(b)' = Separator(b)
    BY <1>b DEF Data, Opens, Separator
  <1>e. /\ at <= Len(Used) + 1
        /\ Len(Used) \in Nat /\ at \in 1 .. Len(Used) + 1
        /\ current = NUL <=> at = Len(Used) + 1
        /\ current # NUL => at \in 1 .. Len(Used) /\ Used[at] = current
        /\ current # NUL =>
               /\ peek = NUL <=> at = Len(Used)
               /\ peek # NUL => at + 1 \in 1 .. Len(Used) /\ Used[at + 1] = peek
    BY <1>c, BytesAhead DEF ReadInv
  <1>f. /\ NUL \notin Alnum \cup Blank \cup Structural(delimiters) \cup {delimiters.release}
        /\ Alnum \cap Blank = {}
        /\ Structural(delimiters) \cap (Alnum \cup Blank) = {}
        /\ delimiters.release \notin Alnum \cup Blank \cup Structural(delimiters)
    BY <1>c, LexerAssumption DEF Suitable
  <1>h. Latest \notin Ending => Prefix(at) /\ Place /\ Said \o Pending = m[at - 1]
    BY <1>c DEF ReadInv, WriteInv, Ending
  <1>i. ASSUME Latest \notin Ending, current # NUL
        PROVE  /\ ~released[at]
               /\ Mark(at) <=> current \in Structural(delimiters)
               /\ Releases(at) <=> current = delimiters.release
               /\ Between(at) => Opening(at) /\ current \in Blank
               /\ m[at] = IF Releases(at) \/ Between(at) THEN m[at - 1]
                          ELSE Append(m[at - 1], <<current, IF Mark(at) THEN "mark" ELSE "data">>)
    BY <1>c, <1>e, <1>h, <1>i, Unreleased, BetweenOpens DEF IsMeaning
  <1>j. /\ Said \in Seq(Symbol) /\ Pending \in Seq(Symbol) /\ Data(buf) \in Seq(Symbol)
        /\ Said \o Pending \in Seq(Symbol)
        /\ \A k : <<Opens(k), "mark">> \in Symbol /\ Separator(Opens(k)) \in Seq(Symbol)
        /\ \A k : Separator(Opens(k)) = <<<<Opens(k), "mark">>>>
        /\ buf \in Seq(Byte) /\ current \in Byte /\ peek \in Byte
        /\ Len(buf) \in Nat /\ <<>> \in Seq(Byte)
    BY PendingTyped, SaidTyped, BytesOfText, Concatenation DEF TypeOK, current, peek
  \* a step that returns nothing, of a stream that is not at its end
  <1>k. ASSUME UNCHANGED tokens, current # NUL
        PROVE  /\ Latest \notin Ending /\ Said' = Said
               /\ Prefix(at) /\ Place /\ Said \o Pending = m[at - 1]
    <2>1. Latest' = Latest
      BY <1>k DEF Latest
    <2>2. Latest \notin Ending
      BY <1>c, <1>e, <1>k, <2>1 DEF ReadInv, Ending
    <2>3. Said' = Said
      <3>1. \A r : Written(r)' = Written(r)
        BY <1>b DEF Written, Data, Separator
      <3>2. [i \in DOMAIN tokens |-> Written(tokens[i])]' = [i \in DOMAIN tokens |-> Written(tokens[i])]
        BY <1>k, <3>1
      <3> QED
        BY <3>2, Zenon DEF Said
    <2> QED
      BY <1>h, <2>2, <2>3
  \* a byte of the token being read that means itself
  <1>l. ASSUME NEW s \in Seq(Symbol), NEW b \in Byte
        PROVE  /\ s \o Data(Append(buf, b)) = Append(s \o Data(buf), <<b, "data">>)
               /\ <<b, "data">> \in Symbol
    <2>1. <<b, "data">> \in Symbol
      BY DEF Symbol
    <2>2. Data(Append(buf, b)) = Append(Data(buf), <<b, "data">>)
      BY <1>j, DataBytes
    <2> QED
      BY <1>j, <2>1, <2>2, Concatenation
  <1>m. ASSUME NEW b \in Byte, mode \in {"tag", "value"}, buf' = Append(buf, b),
               mode' = mode, kind' = kind, Said' = Said
        PROVE  Said' \o Pending' = Append(Said \o Pending, <<b, "data">>)
    <2>1. CASE mode = "tag"
      <3>1. Pending = Data(buf) /\ Pending' = Data(Append(buf, b))
        BY <1>d, <1>m, <2>1 DEF Pending
      <3> QED
        BY <1>j, <1>l, <1>m, <3>1
    <2>2. CASE mode = "value"
      <3> DEFINE sep == Separator(Opens(kind))
      <3>1. Pending = sep \o Data(buf) /\ Pending' = sep \o Data(Append(buf, b))
        BY <1>d, <1>m, <2>2 DEF Pending
      <3>2. Pending' = Append(Pending, <<b, "data">>)
        BY <1>j, <1>l, <3>1
      <3> QED
        BY <1>j, <1>l, <1>m, <3>2, Concatenation
    <2> QED
      BY <1>m, <2>1, <2>2
  <1>1. CASE SkipBlank
    <2>1. /\ mode = "next" /\ afterSegmentEnd /\ current \in Blank
          /\ UNCHANGED <<tokens, mode, buf>> /\ at' = at + 1
      BY <1>1 DEF SkipBlank, Skipping
    <2>2. current # NUL /\ current \notin EndsValue \cup Alnum
      BY <1>f, <2>1 DEF EndsValue
    <2>3. /\ Latest \notin Ending /\ Said' = Said
          /\ Place /\ Said \o Pending = m[at - 1]
      BY <1>k, <2>1, <2>2
    <2>4. Latest \in {"start", "SegmentEnd"}
      BY <1>c, <2>1, <2>2, <2>3, TypesOfStream DEF OrderInv, TokenType, Ending
    <2>5. Between(at)
      BY <1>e, <2>1, <2>2, <2>3, <2>4, BetweenNext DEF Place
    <2>6. m[at] = m[at - 1]
      BY <1>i, <2>2, <2>3, <2>5
    <2>7. Pending' = Pending
      BY <2>1 DEF Pending
    <2> QED
      BY <1>e, <2>1, <2>3, <2>6, <2>7
  <1>2. CASE EndOfInput
    <2>1. mode = "next" /\ at' = at /\ Emit("EOF", <<>>)
      BY <1>2 DEF EndOfInput, Dispatching
    <2>2. /\ Latest \notin Ending /\ mode' = "next"
          /\ Said' = Said \o Written([type |-> "EOF", value |-> <<>>])
      <3>1. "EOF" \in TokenType
        BY DEF TokenType
      <3> QED
        BY <1>a, <1>b, <1>j, <2>1, <3>1, EmittedIsLatest, SaidByEmit
    <2>3. Written([type |-> "EOF", value |-> <<>>]) = <<>>
      BY DEF Written
    <2>4. Pending = <<>> /\ Pending' = <<>>
      BY <2>1, <2>2 DEF Pending
    <2>5. Said' = Said
      BY <1>j, <2>2, <2>3
    <2> QED
      BY <1>h, <2>1, <2>2, <2>4, <2>5
  <1>3. CASE BeginTag
    <2>1. /\ mode = "next" /\ current \in Alnum
          /\ UNCHANGED <<tokens, buf, at>> /\ mode' = "tag"
      BY <1>3 DEF BeginTag, Dispatching, TagAhead
    <2>2. Said' = Said /\ Place /\ Said \o Pending = m[at - 1]
      BY <1>f, <1>k, <2>1
    <2>3. buf' = <<>>
      BY <2>1, <2>2 DEF Place
    <2>4. Pending = <<>> /\ Pending' = <<>>
      BY <1>d, <2>1, <2>3, DataBytes DEF Pending
    <2> QED
      BY <2>1, <2>2, <2>4
  <1>4. CASE LexSegmentEnd
    <2>1. /\ mode = "next" /\ current = delimiters.terminator /\ at' = at + 1
          /\ Emit("SegmentEnd", <<current>>)
      BY <1>4 DEF LexSegmentEnd, Separates, Dispatching
    <2>2. /\ Latest \notin Ending /\ mode' = "next"
          /\ Said' = Said \o Written([type |-> "SegmentEnd", value |-> <<current>>])
      <3>1. "SegmentEnd" \in TokenType /\ <<current>> \in Seq(Byte)
        BY <1>j DEF TokenType
      <3> QED
        BY <1>a, <1>b, <2>1, <3>1, EmittedIsLatest, SaidByEmit
    <2>3. Written([type |-> "SegmentEnd", value |-> <<current>>]) = <<<<current, "mark">>>>
      BY <2>1 DEF Written, Separator
    <2>4. current \in Structural(delimiters) /\ current # NUL
      BY <1>f, <2>1 DEF Structural
    <2>5. m[at] = Append(m[at - 1], <<current, "mark">>)
      BY <1>f, <1>i, <2>2, <2>4
    <2>6. Pending = <<>> /\ Pending' = <<>>
      BY <2>1, <2>2 DEF Pending
    <2>7. <<current, "mark">> \in Symbol
      BY <1>j DEF Symbol
    <2>8. Said = m[at - 1]
      BY <1>h, <1>j, <2>2, <2>6
    <2>9. Said' = m[at] /\ Said' \o <<>> = m[at]
      <3>1. Said \o <<<<current, "mark">>>> = Append(Said, <<current, "mark">>)
        BY <1>j, <2>7, Concatenation
      <3>2. Said' = Append(Said, <<current, "mark">>)
        BY <2>2, <2>3, <3>1
      <3>3. Append(Said, <<current, "mark">>) \in Seq(Symbol)
        BY <1>j, <2>7
      <3> QED
        BY <2>5, <2>8, <3>2, <3>3
    <2> QED
      BY <1>e, <2>1, <2>6, <2>9
  <1>5. CASE Unexpected \/ ReleaseAtEnd
    <2>1. Emit("Error", <<>>)
      BY <1>5 DEF Unexpected, ReleaseAtEnd
    <2>2. Latest' = "Error"
      <3>1. "Error" \in TokenType
        BY DEF TokenType
      <3> QED
        BY <1>j, <2>1, <3>1, EmittedIsLatest
    <2> QED
      BY <2>2
  <1>6. CASE TagByte
    <2>1. /\ mode = "tag" /\ current \in Alnum /\ buf' = Append(buf, current)
          /\ at' = at + 1 /\ UNCHANGED <<mode, kind, tokens>>
      BY <1>6 DEF TagByte
    <2>2. current # NUL /\ current \notin Structural(delimiters) \cup {delimiters.release} \cup Blank
      BY <1>f, <2>1
    <2>3. Latest \notin Ending /\ Said' = Said /\ Said \o Pending = m[at - 1]
      BY <1>k, <2>1, <2>2
    <2>4. m[at] = Append(m[at - 1], <<current, "data">>)
      BY <1>i, <2>2, <2>3
    <2>5. Said' \o Pending' = Append(Said \o Pending, <<current, "data">>)
      BY <1>j, <1>m, <2>1, <2>3
    <2>6. at' - 1 = at
      BY <1>e, <2>1
    <2> QED
      BY <2>3, <2>4, <2>5, <2>6
  <1>7. CASE EndTag
    <2>1. mode = "tag" /\ at' = at /\ Emit("SegmentTag", buf)
      BY <1>7 DEF EndTag
    <2>2. /\ Latest \notin Ending /\ mode' = "next"
          /\ Said' = Said \o Written([type |-> "SegmentTag", value |-> buf])
      <3>1. "SegmentTag" \in TokenType
        BY DEF TokenType
      <3> QED
        BY <1>a, <1>b, <1>j, <2>1, <3>1, EmittedIsLatest, SaidByEmit
    <2>3. Written([type |-> "SegmentTag", value |-> buf]) = Pending /\ Pending' = <<>>
      BY <2>1, <2>2 DEF Written, Pending
    <2>4. Said' \o Pending' = Said \o Pending
      BY <1>j, <2>2, <2>3
    <2> QED
      BY <1>h, <2>1, <2>2, <2>4
  <1>8. CASE BeginDataElement \/ BeginComponent
    <2>1. /\ mode = "next" /\ current = Opens(kind')
          /\ current \in Structural(delimiters)
          /\ at' = at + 1 /\ mode' = "value" /\ UNCHANGED <<tokens, buf>>
      BY <1>8 DEF BeginDataElement, BeginComponent, Structural, Separates, Dispatching, Opens
    <2>2. current # NUL
      BY <1>f, <2>1
    <2>3. Latest \notin Ending /\ Said' = Said /\ Place /\ Said \o Pending = m[at - 1]
      BY <1>k, <2>1, <2>2
    <2>4. m[at] = Append(m[at - 1], <<current, "mark">>)
      BY <1>f, <1>i, <2>1, <2>2, <2>3
    <2>5. buf' = <<>>
      BY <2>1, <2>3 DEF Place
    <2>6. Pending = <<>> /\ Pending' = <<<<current, "mark">>>>
      <3>1. Pending' = Separator(Opens(kind')) \o Data(<<>>)
        BY <1>d, <2>1, <2>5 DEF Pending
      <3>2. Separator(Opens(kind')) \o <<>> = Separator(Opens(kind'))
        BY <1>j
      <3>3. Pending = <<>>
        BY <2>1 DEF Pending
      <3> QED
        BY <1>j, <2>1, <3>1, <3>2, <3>3, DataBytes
    <2>7. Said = m[at - 1]
      BY <1>j, <2>3, <2>6
    <2>8. <<current, "mark">> \in Symbol
      BY <1>j DEF Symbol
    <2>9. Said' \o Pending' = m[at]
      BY <1>j, <2>3, <2>4, <2>6, <2>7, <2>8, Concatenation
    <2> QED
      BY <1>e, <2>1, <2>9
  <1>9. CASE ReleasedByte
    <2>1. /\ mode = "value" /\ current = delimiters.release /\ current # NUL /\ peek # NUL
          /\ at' = at + 2 /\ UNCHANGED <<tokens, mode, kind>> /\ buf' = Append(buf, peek)
      BY <1>9 DEF ReleasedByte, Released
    <2>2. at + 1 \in 1 .. Len(Used) /\ Used[at + 1] = peek
      BY <1>e, <2>1
    <2>3. Latest \notin Ending /\ Said' = Said /\ Place /\ Said \o Pending = m[at - 1]
      BY <1>k, <2>1
    <2>4. Releases(at) /\ m[at] = m[at - 1] /\ ~Mark(at)
      BY <1>f, <1>i, <2>1, <2>3
    <2>5. released[at + 1]
      BY <1>e, <2>1, <2>2, <2>4, ReleasedIs DEF Releases
    <2>6. ~Opening(at + 1)
      <3>1. ~Opening(at)
        BY <2>1, <2>3 DEF Place
      <3>2. ~EndsSegment(at)
        BY <2>4 DEF EndsSegment
      <3> QED
        BY <1>e, <2>1, <3>1, <3>2, OpeningNext
    <2>7. ~Mark(at + 1) /\ ~Releases(at + 1) /\ ~Between(at + 1)
      BY <1>c, <2>2, <2>5, <2>6, BetweenOpens DEF Mark, Releases
    <2>8. m[at + 1] = Append(m[at], <<peek, "data">>)
      <3>1. (at + 1) - 1 = at
        BY <1>e
      <3> QED
        BY <1>c, <2>2, <2>7, <3>1 DEF IsMeaning
    <2>9. Said' \o Pending' = Append(Said \o Pending, <<peek, "data">>)
      BY <1>j, <1>m, <2>1, <2>3
    <2>10. at' - 1 = at + 1
      BY <1>e, <2>1
    <2> QED
      BY <2>3, <2>4, <2>8, <2>9, <2>10
  <1>10. CASE ValueByte
    <2>1. /\ mode = "value" /\ current \notin EndsValue \cup {delimiters.release}
          /\ at' = at + 1 /\ UNCHANGED <<mode, kind, tokens>> /\ buf' = Append(buf, current)
      BY <1>10 DEF ValueByte
    <2>2. current # NUL /\ current \notin Structural(delimiters) \cup {delimiters.release}
      BY <2>1 DEF EndsValue
    <2>3. Latest \notin Ending /\ Said' = Said /\ Place /\ Said \o Pending = m[at - 1]
      BY <1>k, <2>1, <2>2
    <2>4. ~Opening(at)
      BY <2>1, <2>3 DEF Place
    <2>5. m[at] = Append(m[at - 1], <<current, "data">>)
      BY <1>i, <2>2, <2>3, <2>4
    <2>6. Said' \o Pending' = Append(Said \o Pending, <<current, "data">>)
      BY <1>j, <1>m, <2>1, <2>3
    <2>7. at' - 1 = at
      BY <1>e, <2>1
    <2> QED
      BY <2>3, <2>5, <2>6, <2>7
  <1>11. CASE EndValue
    <2>1. mode = "value" /\ at' = at /\ Emit(kind, buf)
      BY <1>11 DEF EndValue, Released
    <2>2. kind \in {"DataElement", "Component"} /\ kind \in TokenType
      BY DEF TypeOK, TokenType
    <2>3. /\ Latest \notin Ending /\ mode' = "next"
          /\ Said' = Said \o Written([type |-> kind, value |-> buf])
      BY <1>a, <1>b, <1>j, <2>1, <2>2, EmittedIsLatest, SaidByEmit
    <2>4. Written([type |-> kind, value |-> buf]) = Pending /\ Pending' = <<>>
      BY <2>1, <2>2, <2>3 DEF Written, Pending, Opens
    <2>5. Said' \o Pending' = Said \o Pending
      BY <1>j, <2>3, <2>4
    <2> QED
      BY <1>h, <2>1, <2>3, <2>5
  <1>12. CASE UNCHANGED vars
    <2>1. Pending' = Pending /\ at' = at /\ Latest' = Latest /\ tokens' = tokens
      BY <1>12 DEF vars, Pending, Opens, Data, Separator, Latest
    <2>2. Said' = Said
      <3>1. \A r : Written(r)' = Written(r)
        BY <1>b DEF Written, Data, Separator
      <3>2. [i \in DOMAIN tokens |-> Written(tokens[i])]' = [i \in DOMAIN tokens |-> Written(tokens[i])]
        BY <2>1, <3>1
      <3> QED
        BY <3>2, Zenon DEF Said
    <2>3. Said \o Pending = m[at - 1]
      BY <1>c, <2>1 DEF WriteInv
    <2> QED
      BY <2>1, <2>2, <2>3
  <1> QED
    BY <1>1, <1>2, <1>3, <1>4, <1>5, <1>6, <1>7, <1>8, <1>9, <1>10, <1>11, <1>12
       DEF NextToken

(* Reading a text to its end loses, invents and reorders nothing: the       *)
(* tokens say what the text says, byte for byte, whatever the text and the  *)
(* suitable delimiters (lexer.go:58-160; what Meaning takes away are the    *)
(* acting release characters and the blanks between segments).              *)
THEOREM NothingIsLost == Spec => []LosesNothing
  <1>1. NewLexer => TypeOK
    BY LexerAssumption DEF NewLexer, TypeOK
  <1>2. NewLexer => WriteInv
    <2> SUFFICES ASSUME NewLexer
                 PROVE  WriteInv
      OBVIOUS
    <2>1. at = 1 /\ mode = "next" /\ tokens = <<>>
      BY DEF NewLexer
    <2>2. Said = <<>> /\ Pending = <<>> /\ at - 1 = 0
      BY <2>1 DEF Said, Pending, FlattenSeq
    <2> QED
      BY <2>2 DEF WriteInv, IsMeaning
  <1>3. TypeOK /\ ReadInv /\ WriteInv => LosesNothing
    <2> SUFFICES ASSUME TypeOK, ReadInv, WriteInv, Latest = "EOF", Suitable(delimiters)
                 PROVE  Said = Meaning
      BY DEF LosesNothing, Said
    <2>1. at = Len(Used) + 1 /\ Len(Used) \in Nat
      BY UsedBytes DEF ReadInv
    <2>2. Said \o Pending = meaning[Len(Used)]
      BY <2>1, MeaningExists DEF WriteInv
    <2>3. mode = "next"
      BY DEF ReadInv
    <2> QED
      BY <2>2, <2>3, SaidTyped DEF Pending, Meaning
  <1> QED
    BY <1>1, <1>2, <1>3, ReadInit, TypeStep, OrderStep, ReadStep, WriteStep, PTL DEF Spec

-------------------------------------------------------------------------------
(* The loop of NextToken never runs without getting anywhere: whichever way *)
(* a step leaves the position, the ranks of the modes order what may happen *)
(* at one position.                                                         *)
Rank ==
    IF mode = "next" THEN IF Latest \in Ending THEN 1 ELSE 2
    ELSE IF mode = "tag" /\ buf = <<>> THEN 0 ELSE 3

(* What is left to do, a number every step of the scanner lowers.           *)
Left == 4 * (Len(text) + 1 - at) + Rank

\* a tag is entered on its first byte
TagHasBytes ==
    /\ mode = "tag" /\ buf = <<>> => current \in Alnum
    /\ mode = "next" => buf = <<>>

LEMMA LeftIsNatural == TypeOK => Left \in Nat
  <1> SUFFICES ASSUME TypeOK
               PROVE  Left \in Nat
    OBVIOUS
  <1>1. Rank \in 0 .. 3
    BY DEF Rank
  <1>2. Len(text) + 1 - at \in Nat
    BY DEF TypeOK
  <1> QED
    BY <1>1, <1>2 DEF Left

LEMMA TagStep == TypeOK /\ TagHasBytes /\ [NextToken]_vars => TagHasBytes'
  <1> SUFFICES ASSUME TypeOK, TagHasBytes, [NextToken]_vars
               PROVE  TagHasBytes'
    OBVIOUS
  <1>1. CASE EndOfInput \/ LexSegmentEnd \/ Unexpected \/ EndTag \/ ReleaseAtEnd \/ EndValue
    <2>1. mode' = "next" /\ buf' = <<>>
      BY <1>1 DEF EndOfInput, LexSegmentEnd, Unexpected, EndTag, ReleaseAtEnd, EndValue, Emit
    <2> QED
      BY <2>1 DEF TagHasBytes
  <1>2. CASE SkipBlank
    BY <1>2 DEF SkipBlank, Skipping, TagHasBytes
  <1>3. CASE BeginTag
    <2>1. current' = current
      BY <1>3 DEF BeginTag, input, current, ByteAt
    <2> QED
      BY <1>3, <2>1 DEF BeginTag, TagAhead, TagHasBytes
  <1>4. CASE TagByte
    <2>1. buf' # <<>>
      BY <1>4 DEF TagByte, TypeOK
    <2> QED
      BY <1>4, <2>1 DEF TagByte, TagHasBytes
  <1>5. CASE BeginDataElement \/ BeginComponent \/ ReleasedByte \/ ValueByte
    <2>1. mode' = "value"
      BY <1>5 DEF BeginDataElement, BeginComponent, ReleasedByte, Released, ValueByte
    <2> QED
      BY <2>1 DEF TagHasBytes
  <1>6. CASE UNCHANGED vars
    BY <1>6 DEF vars, TagHasBytes, current, ByteAt
  <1> QED
    BY <1>1, <1>2, <1>3, <1>4, <1>5, <1>6 DEF NextToken

(* Moving on in the text outweighs the rank; staying lowers it.             *)
LEMMA LessIsLeft ==
    ASSUME TypeOK, text' = text, at' \in Nat,
           at' > at \/ (at' = at /\ Rank' < Rank)
    PROVE  Left' < Left
  <1>1. Rank \in 0 .. 3 /\ Rank' \in 0 .. 3
    BY DEF Rank
  <1>2. Len(text) \in Nat /\ at \in Nat
    BY DEF TypeOK
  <1> QED
    BY <1>1, <1>2 DEF Left

LEMMA StepGetsOn ==
    ASSUME TypeOK, TagHasBytes, NextToken
    PROVE  Left' < Left
  <1>p. at \in Nat /\ "EOF" \in Ending /\ "Error" \in Ending
    BY DEF TypeOK, Ending
  <1>e. <<>> \in Seq(Byte) /\ buf \in Seq(Byte) /\ {"EOF", "Error", "SegmentTag", kind} \subseteq TokenType
    BY DEF TypeOK, TokenType
  <1>1. CASE SkipBlank \/ LexSegmentEnd \/ BeginDataElement \/ BeginComponent
             \/ TagByte \/ ReleasedByte \/ ValueByte
    <2>1. text' = text /\ at' \in Nat /\ at' > at
      BY <1>1, <1>p DEF SkipBlank, LexSegmentEnd, BeginDataElement, BeginComponent,
                        TagByte, ReleasedByte, ValueByte, input
    <2> QED
      BY <2>1, LessIsLeft
  <1>2. CASE EndOfInput \/ Unexpected \/ ReleaseAtEnd
    <2>1. Emit("EOF", <<>>) \/ Emit("Error", <<>>)
      BY <1>2 DEF EndOfInput, Unexpected, ReleaseAtEnd
    <2>2. Latest' \in Ending /\ Latest \notin Ending /\ mode' = "next"
      BY <1>e, <1>p, <2>1, EmittedIsLatest
    <2>3. text' = text /\ at' = at /\ mode \in {"next", "value"}
      BY <1>2 DEF EndOfInput, Unexpected, ReleaseAtEnd, Separates, Dispatching, Released, input
    <2>4. Rank' = 1 /\ Rank \in {2, 3}
      BY <2>2, <2>3 DEF Rank
    <2> QED
      BY <1>p, <2>3, <2>4, LessIsLeft
  <1>3. CASE BeginTag
    <2>1. text' = text /\ at' = at /\ mode = "next" /\ mode' = "tag" /\ buf' = <<>>
      BY <1>3 DEF BeginTag, Dispatching, TagHasBytes, input
    <2>2. Rank' = 0 /\ Rank \in {1, 2}
      BY <2>1 DEF Rank
    <2> QED
      BY <1>p, <2>1, <2>2, LessIsLeft
  <1>4. CASE EndTag \/ EndValue
    <2>1. Emit("SegmentTag", buf) \/ Emit(kind, buf)
      BY <1>4 DEF EndTag, EndValue
    <2>2. Latest' \in {"SegmentTag", kind} /\ mode' = "next"
      BY <1>e, <2>1, EmittedIsLatest
    <2>3. Latest' \notin Ending
      BY <2>2 DEF TypeOK, Ending
    <2>4. text' = text /\ at' = at /\ Rank = 3
      BY <1>4 DEF EndTag, EndValue, TagHasBytes, Rank, input
    <2>5. Rank' = 2
      BY <2>2, <2>3 DEF Rank
    <2> QED
      BY <1>p, <2>4, <2>5, LessIsLeft
  <1> QED
    BY <1>1, <1>2, <1>3, <1>4 DEF NextToken

(* Whatever the input and the delimiters, every step of NextToken lowers a  *)
(* natural number that starts at 4 * Len(text) + 2.  No step leaves the     *)
(* state as it is (StepGetsOn), so the scanner cannot loop without reading, *)
(* and comes to an end of the stream or stops (lexer.go:58-170).            *)
THEOREM AlwaysGetsOn == Spec => [](Left \in Nat) /\ [][Left' < Left]_vars
  <1>1. NewLexer => TypeOK /\ TagHasBytes
    BY LexerAssumption DEF NewLexer, TypeOK, TagHasBytes
  <1>2. TypeOK /\ TagHasBytes /\ [NextToken]_vars => [Left' < Left]_vars
    BY StepGetsOn
  <1> QED
    BY <1>1, <1>2, LeftIsNatural, TypeStep, TagStep, PTL DEF Spec
===============================================================================
