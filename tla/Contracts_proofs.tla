-------------------------- MODULE Contracts_proofs --------------------------
(***************************************************************************)
(* That the functions compute what they are to, for any inputs.            *)
(***************************************************************************)
EXTENDS Contracts, PathTemplate_proofs

(* A state is one of the inputs; what it is of, `about` says. *)
Inputs ==
  /\ about = "template" => arg \in Templates
  /\ about = "pair" => \E segments \in Templates, slots \in SlotSeqs : arg = <<segments, slots>>
  /\ about = "text" => arg \in Seq(Pieces)
  /\ about = "target" => arg \in Requests
  /\ about = "scalar" => arg \in OneScalar

(* Only a pair is made of another input, a text of another text.           *)
THEOREM InputsInvariant == Spec => []Inputs
<1>1. Init => Inputs
  <2>1. <<>> \in Seq(Pieces)
    OBVIOUS
  <2> QED
    BY <2>1 DEF Init, Inputs
<1>2. Inputs /\ [Next]_vars => Inputs'
  <2> SUFFICES ASSUME Inputs, [Next]_vars PROVE Inputs'
    OBVIOUS
  <2>1. CASE Pair
    BY <2>1 DEF Pair, Inputs
  <2>2. CASE Grow
    <3>1. PICK piece \in Pieces : arg' = Append(arg, piece)
      BY <2>2 DEF Grow
    <3>2. about = "text" /\ about' = "text" /\ arg \in Seq(Pieces)
      BY <2>2 DEF Grow, Inputs
    <3>3. arg' \in Seq(Pieces)
      BY <3>1, <3>2
    <3> QED
      BY <3>2, <3>3 DEF Inputs
  <2>3. CASE UNCHANGED vars
    BY <2>3 DEF vars, Inputs
  <2> QED
    BY <2>1, <2>2, <2>3 DEF Next
<1> QED
  BY <1>1, <1>2, PTL DEF Spec

(***************************************************************************)
(* Templates.                                                              *)
(***************************************************************************)
LEMMA TemplateTypes ==
  /\ MaxPath \in Nat
  /\ \A segments \in Templates :
       /\ Unverbed(segments) \in Template(Field)
       /\ Unverbed(segments).segments = segments
       /\ template_slots(Unverbed(segments)) \in SlotSeq
       /\ Len(template_slots(Unverbed(segments))) <= MaxPath
  /\ \A slots \in SlotSeqs : slots \in SlotSeq /\ Len(slots) <= MaxPath
  /\ \A p \in Paths : p \in Seq(Text)
<1>1. \A segments : Unverbed(segments).segments = segments
  BY DEF Unverbed
<1>2. \A t \in Template(Field) : template_slots(t) \in SlotSeq
  BY DEF Template
<1>3. ASSUME NEW p \in Paths PROVE p \in Seq(Text)
  <2>1. PICK k \in 1..MaxPath : p \in [1..k -> Text]
    BY DEF Paths
  <2>2. k \in Nat
    BY TemplateInputs
  <2> QED
    BY <2>1, <2>2
<1> QED
  BY <1>1, <1>2, <1>3, TemplateInputs

(* `PathTemplate::matches` succeeds on exactly the paths that fit a        *)
(* template, with exactly the captures its variables stand over.           *)
THEOREM WalkFitsInvariant == Spec => []WalkFits
<1>1. Inputs => WalkFits
  <2> SUFFICES ASSUME arg \in Templates, NEW p \in Paths
               PROVE  LET t == Unverbed(arg) slots == template_slots(t) IN
                      match_segments(arg, p) =
                        IF Fits(slots, p) THEN {captures(t, p)} ELSE NoMatch
    BY DEF Inputs, WalkFits
  <2> DEFINE t == Unverbed(arg)
  <2>1. t \in Template(Field) /\ t.segments = arg /\ p \in Seq(Text)
    BY TemplateTypes
  <2> HIDE DEF t
  <2>2. match_segments(t.segments, p) =
          IF Fits(template_slots(t), p) THEN {captures(t, p)} ELSE {}
    BY <2>1, WalkByCalls
  <2> QED
    BY <2>1, <2>2 DEF t, NoMatch
<1> QED
  BY <1>1, InputsInvariant, PTL

LEMMA PairTypes ==
  ASSUME Inputs, about = "pair"
  PROVE  LET slots == template_slots(Unverbed(arg[1])) IN
         /\ slots \in SlotSeq /\ Len(slots) \in 1..MaxPath
         /\ arg[2] \in SlotSeq /\ Len(arg[2]) \in 1..MaxPath
<1>1. PICK segments \in Templates, slots \in SlotSeqs : arg = <<segments, slots>>
  BY DEF Inputs
<1>2. arg[1] = segments /\ arg[2] = slots
  BY <1>1
<1>3. \A s \in SlotSeq : Len(s) \in Nat \ {0}
  BY FixedSlots
<1>4. \A s \in SlotSeq : Len(s) <= MaxPath => Len(s) \in 1..MaxPath
  BY <1>3, TemplateTypes
<1> QED
  BY <1>2, <1>4, TemplateTypes

(* `slots_overlap` says yes to exactly the templates that overlap.         *)
THEOREM OverlapAgreesInvariant == Spec => []OverlapAgrees
<1>1. Inputs => OverlapAgrees
  BY PairTypes, OverlapByCalls DEF OverlapAgrees
<1> QED
  BY <1>1, InputsInvariant, PTL

(* A reported overlap is a path that both templates match, and such a path *)
(* is reported; one as long as the longer template shows it.               *)
THEOREM OverlapIsExactInvariant == Spec => []OverlapIsExact
<1>1. Inputs => OverlapIsExact
  <2> SUFFICES ASSUME Inputs, about = "pair"
               PROVE  LET slots == template_slots(Unverbed(arg[1])) IN
                      templates_overlap(slots, arg[2])
                        <=> \E p \in Paths : Fits(slots, p) /\ Fits(arg[2], p)
    BY DEF OverlapIsExact
  <2> DEFINE a == template_slots(Unverbed(arg[1]))
             b == arg[2]
  <2>1. a \in SlotSeq /\ Len(a) \in 1..MaxPath /\ b \in SlotSeq /\ Len(b) \in 1..MaxPath
    BY PairTypes
  <2> HIDE DEF a, b
  <2>2. ASSUME NEW p \in Paths, Fits(a, p), Fits(b, p)
        PROVE  templates_overlap(a, b)
    <3>1. p \in Seq(Text)
      BY TemplateTypes
    <3> QED
      BY <2>1, <2>2, <3>1, FitBothOverlap
  <2>3. ASSUME templates_overlap(a, b)
        PROVE  \E p \in Paths : Fits(a, p) /\ Fits(b, p)
    <3>1. PICK p \in Seq(Text) :
            /\ p # <<>> /\ (Len(p) <= Len(a) \/ Len(p) <= Len(b))
            /\ Fits(a, p) /\ Fits(b, p)
      BY <2>1, <2>3, OverlapHasPath
    <3>2. Len(p) \in 1..MaxPath /\ p \in [1..Len(p) -> Text]
      BY <2>1, <3>1, TemplateTypes
    <3>3. p \in Paths
      BY <3>2 DEF Paths
    <3> QED
      BY <3>1, <3>3
  <2> QED
    BY <2>2, <2>3 DEF a, b
<1> QED
  BY <1>1, InputsInvariant, PTL
(***************************************************************************)
(* Scalars.                                                                *)
(***************************************************************************)
LEMMA WholeNumber ==
  ASSUME NEW range, NEW n \in range
  PROVE  Scalars!parse(Scalars!Decimal(n), range) = Scalars!Coerced(n)
BY DEF Scalars!parse, Scalars!Decimal

(* The text an enum value is rendered as stands for it and for no other.   *)
LEMMA EnumReturns ==
  ASSUME NEW n \in Scalars!Signed(Bits), NEW opts
  PROVE  Scalars!coerce_enum(Scalars!Enum(n, opts).text) = Scalars!Coerced(n)
<1> DEFINE text == Scalars!Enum(n, opts).text
           range == Scalars!Signed(Bits)
<1>1. CASE ~opts.use_enum_numbers /\ n \in DOMAIN EnumNames
  <2>1. text = Scalars!Word(EnumNames[n])
    BY <1>1 DEF Scalars!Enum, Scalars!String, Scalars!Json
  <2>2. ~Scalars!parse(text, range).ok
    BY <2>1 DEF Scalars!parse, Scalars!Word, Scalars!Invalid
  <2>3. Scalars!EnumNumbers(text) = {n}
    <3>1. ASSUME NEW m \in DOMAIN EnumNames
          PROVE  text = Scalars!Word(EnumNames[m]) <=> m = n
      <4>1. \A v, w : Scalars!Word(v) = Scalars!Word(w) <=> v = w
        BY DEF Scalars!Word
      <4> QED
        BY <1>1, <2>1, <4>1, EnumNamesDiffer
    <3> QED
      BY <1>1, <3>1 DEF Scalars!EnumNumbers
  <2> HIDE DEF text, range
  <2>4. (CHOOSE m \in Scalars!EnumNumbers(text) : TRUE) = n
    BY <2>3
  <2>5. Scalars!coerce_enum(text) = Scalars!Coerced(n)
    BY <2>2, <2>3, <2>4 DEF Scalars!coerce_enum, range
  <2> QED
    BY <2>5 DEF text
<1>2. CASE ~(~opts.use_enum_numbers /\ n \in DOMAIN EnumNames)
  <2>1. text = Scalars!Decimal(n)
    BY <1>2 DEF Scalars!Enum, Scalars!Number, Scalars!Json
  <2>2. Scalars!parse(text, range) = Scalars!Coerced(n)
    BY <2>1, WholeNumber
  <2> QED
    BY <2>2 DEF Scalars!coerce_enum, Scalars!Coerced
<1> QED
  BY <1>1, <1>2

(* What is rendered of a field is read back as the same value: for any     *)
(* widths of integers and any enum whose values' names differ.             *)
THEOREM ScalarsReturnInvariant == Spec => []ScalarsReturn
<1>1. Inputs => ScalarsReturn
  <2> SUFFICES ASSUME NEW k \in Scalars!Kind, NEW v \in Scalars!Values(k),
                      NEW o \in Scalars!Options,
                      k = "double" => v[1] # "word"
               PROVE  Scalars!coerce_scalar(k, Scalars!encode_field_json(k, v, o).text)
                        = Scalars!Coerced(v)
    <3>1. ASSUME Inputs, about = "scalar", arg.kind = "double" => arg.value[1] # "word"
          PROVE  \E k \in Scalars!Kind : \E v \in Scalars!Values(k) : \E o \in Scalars!Options :
                   /\ arg.kind = k /\ arg.value = v /\ arg.opts = o
      <4>1. arg \in OneScalar
        BY <3>1 DEF Inputs
      <4>2. PICK k \in Scalars!Kind : \E v \in Scalars!Values(k) : \E o \in Scalars!Options :
                   arg = [kind |-> k, value |-> v, opts |-> o]
        BY <4>1 DEF OneScalar
      <4> QED
        BY <4>2
    <3> QED
      BY <3>1 DEF ScalarsReturn
  <2> DEFINE text == Scalars!encode_field_json(k, v, o).text
  <2>1. CASE k = "bool"
    <3>1. v \in BOOLEAN
      BY <2>1 DEF Scalars!Values
    <3>2. text = IF v THEN Scalars!Word("true") ELSE Scalars!Word("false")
      BY <2>1 DEF Scalars!encode_field_json, Scalars!Boolean, Scalars!Json
    <3>3. /\ Scalars!Word("true") \in Scalars!TrueTexts
          /\ Scalars!Word("false") \notin Scalars!TrueTexts
          /\ Scalars!Word("false") \in Scalars!FalseTexts
      BY DEF Scalars!TrueTexts, Scalars!FalseTexts, Scalars!Word, Scalars!Decimal
    <3> HIDE DEF text
    <3>4. CASE v = TRUE
      BY <2>1, <3>2, <3>3, <3>4 DEF Scalars!coerce_scalar, text
    <3>5. CASE v = FALSE
      BY <2>1, <3>2, <3>3, <3>5 DEF Scalars!coerce_scalar, text
    <3> QED
      BY <3>1, <3>4, <3>5
  <2>2. CASE k \in {"int32", "uint32"}
    <3>1. text = Scalars!Decimal(v)
      BY <2>2 DEF Scalars!encode_field_json, Scalars!Number, Scalars!Json
    <3>2. k = "int32" => v \in Scalars!Signed(Bits)
      BY DEF Scalars!Values
    <3>3. k = "uint32" => v \in Scalars!Unsigned(Bits)
      BY DEF Scalars!Values
    <3> HIDE DEF text
    <3> QED
      BY <2>2, <3>1, <3>2, <3>3, WholeNumber DEF Scalars!coerce_scalar, text
  <2>3. CASE k \in {"int64", "uint64"}
    <3>1. text = Scalars!Decimal(v)
      BY <2>3 DEF Scalars!encode_field_json, Scalars!Integer64, Scalars!String, Scalars!Number, Scalars!Json
    <3>2. k = "int64" => v \in Scalars!Signed(Bits64)
      BY DEF Scalars!Values
    <3>3. k = "uint64" => v \in Scalars!Unsigned(Bits64)
      BY DEF Scalars!Values
    <3> HIDE DEF text
    <3> QED
      BY <2>3, <3>1, <3>2, <3>3, WholeNumber DEF Scalars!coerce_scalar, text
  <2>4. CASE k = "double"
    <3>1. PICK n : v = Scalars!Decimal(n)
      BY <2>4 DEF Scalars!Values, Scalars!Decimal, Scalars!Word
    <3>2. v[1] = "decimal" /\ v = Scalars!Decimal(v[2])
      BY <3>1 DEF Scalars!Decimal
    <3>3. text = v
      BY <2>4, <3>2 DEF Scalars!encode_field_json, Scalars!Float, Scalars!Number, Scalars!Json
    <3> HIDE DEF text
    <3> QED
      BY <2>4, <3>2, <3>3 DEF Scalars!coerce_scalar, text
  <2>5. CASE k = "string"
    <3>1. text = v
      BY <2>5 DEF Scalars!encode_field_json, Scalars!String, Scalars!Json
    <3> HIDE DEF text
    <3> QED
      BY <2>5, <3>1 DEF Scalars!coerce_scalar, text
  <2>6. CASE k = "enum"
    <3>1. v \in Scalars!Signed(Bits)
      BY <2>6 DEF Scalars!Values
    <3>2. text = Scalars!Enum(v, o).text
      BY <2>6 DEF Scalars!encode_field_json
    <3> HIDE DEF text
    <3> QED
      BY <2>6, <3>1, <3>2, EnumReturns DEF Scalars!coerce_scalar, text
  <2>7. CASE k = "bytes"
    BY <2>7 DEF Scalars!Values
  <2> QED
    BY <2>1, <2>2, <2>3, <2>4, <2>5, <2>6, <2>7 DEF Scalars!Kind
<1> QED
  BY <1>1, InputsInvariant, PTL
(***************************************************************************)
(* Request targets.                                                        *)
(***************************************************************************)
LEMMA WireTexts ==
  /\ \A text, sep : Wire!split(text, sep) = split(text, sep)
  /\ \A text, sep, otherwise :
       Wire!split_once(text, sep, otherwise) = split_once(text, sep, otherwise)
  /\ \A parts, sep : Wire!Join(parts, sep) = Join(parts, sep)
  /\ \A seqs : Wire!FlattenSeq(seqs) = FlattenSeq(seqs)
  /\ \A text, c : Wire!StartsWith(text, c) <=> StartsWith(text, c)
  /\ \A text, i : Wire!From(text, i) = From(text, i) /\ Wire!UpTo(text, i) = UpTo(text, i)
<1>1. \A text, sep : Wire!split(text, sep) = split(text, sep)
  BY DEF Wire!split, split, Wire!Extend, Extend
<1>2. \A text, i : Wire!From(text, i) = From(text, i) /\ Wire!UpTo(text, i) = UpTo(text, i)
  BY DEF Wire!From, From, Wire!UpTo, UpTo
<1>3. \A text, C : Wire!PrefixBefore(text, C) = PrefixBefore(text, C)
  BY DEF Wire!PrefixBefore, PrefixBefore, Wire!SelectInSeq, SelectInSeq, Wire!Min, Min
<1>4. \A text, sep, otherwise :
        Wire!split_once(text, sep, otherwise) = split_once(text, sep, otherwise)
  BY <1>2, <1>3 DEF Wire!split_once, split_once
<1>5. \A seqs : Wire!FlattenSeq(seqs) = FlattenSeq(seqs)
  BY DEF Wire!FlattenSeq, FlattenSeq
<1>6. \A parts, sep : Wire!Join(parts, sep) = Join(parts, sep)
  BY <1>5 DEF Wire!Join, Join
<1>7. \A text, c : Wire!StartsWith(text, c) <=> StartsWith(text, c)
  BY DEF Wire!StartsWith, StartsWith
<1> QED
  BY <1>1, <1>2, <1>4, <1>5, <1>6, <1>7

LEMMA Tokens ==
  /\ \A c : Wire!Plain(c)[1] = c /\ ~Wire!IsEscape(Wire!Plain(c))
  /\ \A c : Wire!Escape(c)[2] = c /\ Wire!IsEscape(Wire!Escape(c))
  /\ \A c, d : Wire!Plain(c) = Wire!Plain(d) <=> c = d
  /\ \A c, d : Wire!Escape(c) = Wire!Escape(d) <=> c = d
  /\ \A c, d : Wire!Plain(c) # Wire!Escape(d)
BY DEF Wire!Plain, Wire!Escape, Wire!IsEscape

(* What a client sends: escaped and plain characters, and delimiters. *)
Token ==
  {Wire!Escape(c) : c \in Char}
    \cup {Wire!Plain(c) : c \in Char \cup {"/", ":", "?", "&", "=", "+"}}

LEMMA DecodeEscaped ==
  ASSUME NEW text \in Seq(Plain(Char)), NEW C,
         NEW wire, wire = [i \in DOMAIN text |-> IF text[i][1] \in C THEN Wire!Escape(text[i][1])
                                                                     ELSE text[i]]
  PROVE  Wire!decode(wire) = text
<1>1. DOMAIN text = 1..Len(text) /\ Len(text) \in Nat
  OBVIOUS
<1>2. ASSUME NEW i \in 1..Len(text)
      PROVE  text[i][1] \in Char /\ text[i] = Wire!Plain(text[i][1])
  <2>1. PICK c \in Char : text[i] = Wire!Plain(c)
    BY DEF Plain
  <2> QED
    BY <2>1, Tokens
<1>3. DOMAIN wire = 1..Len(text) /\ Len(wire) = Len(text)
  BY <1>1
<1>4. \A i \in 1..Len(text) :
        wire[i] = IF text[i][1] \in C THEN Wire!Escape(text[i][1]) ELSE text[i]
  BY <1>1
<1>5. ~Wire!Contains(wire, Wire!BadByte)
  <2> SUFFICES ASSUME NEW i \in 1..Len(text) PROVE wire[i] # Wire!BadByte
    BY <1>3 DEF Wire!Contains
  <2>1. text[i][1] # "invalid"
    BY <1>2, RequestInputs
  <2>2. wire[i] = Wire!Escape(text[i][1]) \/ wire[i] = Wire!Plain(text[i][1])
    BY <1>2, <1>4
  <2> QED
    BY <2>1, <2>2, Tokens DEF Wire!BadByte
<1> DEFINE back == [i \in DOMAIN wire |-> IF Wire!IsEscape(wire[i]) THEN Wire!Plain(wire[i][2])
                                                                    ELSE wire[i]]
<1>6. Wire!decode(wire) = back
  BY <1>5 DEF Wire!decode
<1>7. \A i \in 1..Len(text) : back[i] = text[i]
  <2> TAKE i \in 1..Len(text)
  <2>1. back[i] = IF Wire!IsEscape(wire[i]) THEN Wire!Plain(wire[i][2]) ELSE wire[i]
    BY <1>3
  <2> HIDE DEF back
  <2>2. CASE text[i][1] \in C
    <3>1. wire[i] = Wire!Escape(text[i][1])
      BY <1>4, <2>2
    <3> QED
      BY <1>2, <2>1, <3>1, Tokens
  <2>3. CASE text[i][1] \notin C
    <3>1. wire[i] = Wire!Plain(text[i][1])
      BY <1>2, <1>4, <2>3
    <3> QED
      BY <1>2, <2>1, <3>1, Tokens
  <2> QED
    BY <2>2, <2>3
<1>8. back = text
  BY <1>1, <1>3, <1>7
<1> QED
  BY <1>6, <1>8

(* A piece of the path: what delimits is escaped, and comes back.          *)
LEMMA PathPiece ==
  ASSUME NEW text \in Seq(Plain(Char)), NEW delimiters
  PROVE  /\ Wire!AsPath(text, delimiters) \in Seq(Token)
         /\ \A d \in delimiters : Wire!AsPath(text, delimiters) \in Seq(Token \ {Wire!Plain(d)})
         /\ Wire!decode(Wire!AsPath(text, delimiters)) = text
<1> DEFINE C == delimiters \cup {"%"}
           wire == [i \in DOMAIN text |-> IF text[i][1] \in C THEN Wire!Escape(text[i][1])
                                                              ELSE text[i]]
           n == Len(text)
<1>1. Wire!AsPath(text, delimiters) = wire
  BY DEF Wire!AsPath
<1>2. Wire!decode(wire) = text
  <2> HIDE DEF C
  <2> QED
    BY DecodeEscaped
<1>3. DOMAIN text = 1..n /\ n \in Nat
  OBVIOUS
<1>4. ASSUME NEW i \in 1..n
      PROVE  wire[i] \in Token /\ \A d \in delimiters : wire[i] # Wire!Plain(d)
  <2>1. PICK c \in Char : text[i] = Wire!Plain(c) /\ text[i][1] = c
    BY Tokens DEF Plain
  <2>2. wire[i] = IF c \in C THEN Wire!Escape(c) ELSE Wire!Plain(c)
    BY <1>3, <2>1
  <2> HIDE DEF wire
  <2>3. wire[i] \in Token
    BY <2>2 DEF Token
  <2>4. \A d \in delimiters : wire[i] # Wire!Plain(d)
    BY <2>2, Tokens
  <2> QED
    BY <2>3, <2>4
<1>5. wire \in [1..n -> Token] /\ \A d \in delimiters : wire \in [1..n -> Token \ {Wire!Plain(d)}]
  BY <1>3, <1>4
<1> HIDE DEF wire, n
<1>6. wire \in Seq(Token) /\ \A d \in delimiters : wire \in Seq(Token \ {Wire!Plain(d)})
  BY <1>3, <1>5
<1> QED
  BY <1>1, <1>2, <1>6

(* And of the query, spaces sent as '+'.                                   *)
LEMMA QueryPiece ==
  ASSUME NEW text \in Seq(Plain(Char))
  PROVE  /\ Wire!AsQuery(text) \in Seq(Token)
         /\ Wire!AsQuery(text) \in Seq(Token \ {Wire!Plain("&")})
         /\ Wire!AsQuery(text) \in Seq(Token \ {Wire!Plain("=")})
         /\ Wire!query_decode(Wire!AsQuery(text)) = text
<1> DEFINE C == {"&", "=", "+", "%"}
           wire == Wire!AsQuery(text)
           spaced == Wire!Spaced(wire)
           n == Len(text)
<1>1. DOMAIN text = 1..n /\ n \in Nat
  OBVIOUS
<1>2. DOMAIN wire = 1..n /\ DOMAIN spaced = 1..n
  BY <1>1 DEF Wire!AsQuery, Wire!Spaced
<1>3. ASSUME NEW i \in 1..n
      PROVE  /\ wire[i] \in Token /\ wire[i] # Wire!Plain("&") /\ wire[i] # Wire!Plain("=")
             /\ spaced[i] = IF text[i][1] \in C THEN Wire!Escape(text[i][1]) ELSE text[i]
  <2>1. PICK c \in Char : text[i] = Wire!Plain(c) /\ text[i][1] = c
    BY Tokens DEF Plain
  <2>2. wire[i] = IF Wire!Plain(c) = Wire!Plain(" ") THEN Wire!Plain("+")
                  ELSE IF c \in C THEN Wire!Escape(c) ELSE Wire!Plain(c)
    BY <1>1, <2>1 DEF Wire!AsQuery
  <2>3. spaced[i] = IF wire[i] = Wire!Plain("+") THEN Wire!Plain(" ") ELSE wire[i]
    BY <1>2 DEF Wire!Spaced
  <2> HIDE DEF wire, spaced
  <2>4. CASE c = " "
    <3>1. wire[i] = Wire!Plain("+") /\ c \notin C
      BY <2>2, <2>4
    <3>2. Wire!Plain("+") # Wire!Plain("&") /\ Wire!Plain("+") # Wire!Plain("=")
      BY Tokens
    <3> QED
      BY <2>1, <2>3, <2>4, <3>1, <3>2 DEF Token
  <2>5. CASE c # " " /\ c \in C
    <3>1. wire[i] = Wire!Escape(c)
      BY <2>2, <2>5, Tokens
    <3>2. \A d : Wire!Escape(c) # Wire!Plain(d)
      BY Tokens
    <3> QED
      BY <2>1, <2>3, <2>5, <3>1, <3>2 DEF Token
  <2>6. CASE c # " " /\ c \notin C
    <3>1. wire[i] = Wire!Plain(c)
      BY <2>2, <2>6, Tokens
    <3>2. Wire!Plain(c) # Wire!Plain("&") /\ Wire!Plain(c) # Wire!Plain("=") /\ Wire!Plain(c) # Wire!Plain("+")
      BY <2>6, Tokens
    <3> QED
      BY <2>1, <2>3, <2>6, <3>1, <3>2 DEF Token
  <2> QED
    BY <2>4, <2>5, <2>6
<1>4. spaced = [i \in DOMAIN text |-> IF text[i][1] \in C THEN Wire!Escape(text[i][1]) ELSE text[i]]
  <2>1. spaced = [i \in DOMAIN spaced |-> spaced[i]]
    BY DEF Wire!Spaced
  <2> HIDE DEF spaced
  <2> QED
    BY <1>1, <1>2, <1>3, <2>1
<1>5. Wire!query_decode(wire) = text
  <2>1. Wire!query_decode(wire) = Wire!decode(spaced)
    BY DEF Wire!query_decode
  <2> HIDE DEF spaced, C, wire
  <2>2. Wire!decode(spaced) = text
    BY <1>4, DecodeEscaped
  <2> QED
    BY <2>1, <2>2
<1>6. /\ wire \in [1..n -> Token] /\ wire \in [1..n -> Token \ {Wire!Plain("&")}]
      /\ wire \in [1..n -> Token \ {Wire!Plain("=")}]
  <2>1. wire = [i \in DOMAIN wire |-> wire[i]]
    BY DEF Wire!AsQuery
  <2> HIDE DEF wire
  <2> QED
    BY <1>2, <1>3, <2>1
<1> HIDE DEF wire, n
<1>7. /\ wire \in Seq(Token) /\ wire \in Seq(Token \ {Wire!Plain("&")})
      /\ wire \in Seq(Token \ {Wire!Plain("=")})
  BY <1>1, <1>6
<1> QED
  BY <1>5, <1>7 DEF wire
(* One pair of a query. *)
LEMMA PairArrives ==
  ASSUME NEW key \in Seq(Plain(Char)), NEW value \in Seq(Plain(Char))
  PROVE  LET sent == (Wire!AsQuery(key) \o <<Wire!Plain("=")>>) \o Wire!AsQuery(value) IN
         /\ sent \in Seq(Token \ {Wire!Plain("&")}) /\ sent # <<>>
         /\ Wire!query_pair(sent) = <<<<key, value>>>>
<1> DEFINE amp == Wire!Plain("&")
           eq == Wire!Plain("=")
           T == Token \ {amp}
           a == Wire!AsQuery(key)
           b == Wire!AsQuery(value)
           one == <<eq>>
           sent == (a \o one) \o b
<1>1. /\ a \in Seq(T) /\ a \in Seq(Token \ {eq}) /\ Wire!query_decode(a) = key
      /\ b \in Seq(T) /\ b \in Seq(Token) /\ Wire!query_decode(b) = value
  BY QueryPiece
<1>2. eq \in Token /\ eq \in T
  BY Tokens DEF Token
<1>3. one \in Seq(T) /\ Len(one) = 1
  BY <1>2
<1> HIDE DEF amp, eq, T, a, b, one
<1>4. sent = a \o (one \o b)
  BY <1>1, <1>3, ConcatAssociative
<1>5. sent \in Seq(T) /\ sent # <<>>
  <2> DEFINE ob == one \o b
  <2>1. ob \in Seq(T) /\ Len(ob) = Len(one) + Len(b)
    BY <1>1, <1>3, ConcatProperties
  <2> HIDE DEF ob
  <2>2. a \o ob \in Seq(T) /\ Len(a \o ob) = Len(a) + Len(ob)
    BY <1>1, <2>1, ConcatProperties
  <2>3. Len(a) \in Nat /\ Len(b) \in Nat
    BY <1>1
  <2>4. Len(a \o ob) # 0
    BY <1>3, <2>1, <2>2, <2>3
  <2>5. a \o ob # <<>>
    BY <2>4
  <2> QED
    BY <1>4, <2>2, <2>5 DEF ob
<1>6. split_once(sent, eq, <<>>) = <<a, b>>
  <2>1. split_once(a \o (<<eq>> \o b), eq, <<>>) = <<a, b>>
    BY <1>1, <1>2, SplitOnce
  <2> HIDE DEF sent
  <2> QED
    BY <1>4, <2>1 DEF one
<1> HIDE DEF sent
<1>7. Wire!split_once(sent, eq, <<>>) = <<a, b>>
  BY <1>6, WireTexts
<1>8. Wire!query_pair(sent) = <<<<Wire!query_decode(a), Wire!query_decode(b)>>>>
  BY <1>5, <1>7 DEF Wire!query_pair, eq
<1> QED
  BY <1>1, <1>5, <1>8 DEF sent, one, a, b, eq, T, amp

(* The pairs of a query, empty keys and values included.                   *)
LEMMA QueryArrives ==
  ASSUME NEW pairs \in Seq(Seq(Plain(Char)) \X Seq(Plain(Char))), pairs # <<>>
  PROVE  /\ Wire!QueryText(pairs) \in Seq(Token)
         /\ Wire!query_pairs(Wire!QueryText(pairs)) = pairs
<1> DEFINE P == Seq(Plain(Char))
           amp == Wire!Plain("&")
           eq == Wire!Plain("=")
           sent(k) == (Wire!AsQuery(pairs[k][1]) \o <<eq>>) \o Wire!AsQuery(pairs[k][2])
           parts == [k \in DOMAIN pairs |-> sent(k)]
           text == Wire!QueryText(pairs)
           n == Len(pairs)
<1>1. /\ n \in Nat \ {0} /\ DOMAIN pairs = 1..n
      /\ \A k \in 1..n : pairs[k] = <<pairs[k][1], pairs[k][2]>> /\ pairs[k][1] \in P /\ pairs[k][2] \in P
  <2>1. ASSUME NEW k \in 1..n
        PROVE  pairs[k] = <<pairs[k][1], pairs[k][2]>> /\ pairs[k][1] \in P /\ pairs[k][2] \in P
    <3>1. pairs[k] \in P \X P
      OBVIOUS
    <3> HIDE DEF P
    <3> QED
      BY <3>1
  <2> QED
    BY <2>1
<1>2. amp \in Token /\ eq \in Token /\ eq # amp
  BY Tokens DEF Token
<1> HIDE DEF amp, eq, P, n
<1>3. ASSUME NEW k \in 1..n
      PROVE  /\ sent(k) \in Seq(Token \ {amp}) /\ sent(k) # <<>>
             /\ Wire!query_pair(sent(k)) = <<pairs[k]>>
  <2>1. pairs[k][1] \in Seq(Plain(Char)) /\ pairs[k][2] \in Seq(Plain(Char))
    BY <1>1 DEF P
  <2> QED
    BY <1>1, <2>1, PairArrives DEF amp, eq
<1> HIDE DEF sent
<1>4. parts \in Seq(Seq(Token \ {amp})) /\ Len(parts) = n /\ parts # <<>> /\ DOMAIN parts = 1..n
      /\ \A k \in 1..n : parts[k] = sent(k)
  <2> DEFINE Q == Seq(Token \ {amp})
  <2>1. parts \in [1..n -> Q] /\ DOMAIN parts = 1..n /\ \A k \in 1..n : parts[k] = sent(k)
    BY <1>1, <1>3
  <2> HIDE DEF parts, Q
  <2>2. parts \in Seq(Q) /\ Len(parts) = n /\ parts # <<>>
    BY <1>1, <2>1
  <2> QED
    BY <2>1, <2>2 DEF Q
<1>5. text = Join(parts, amp)
  <2>1. text = Wire!Join(parts, amp)
    BY DEF Wire!QueryText, sent, amp, eq
  <2> HIDE DEF text, parts
  <2> QED
    BY <2>1, WireTexts
<1> HIDE DEF text, parts
<1>6. Wire!split(text, amp) = parts
  BY <1>2, <1>4, <1>5, SplitJoin, WireTexts
<1>7. text \in Seq(Token)
  <2>1. parts \in Parts(Token)
    <3>1. \A s \in Seq(Token \ {amp}) : s \in Seq(Token)
      OBVIOUS
    <3>2. parts \in Seq(Seq(Token))
      BY <1>4, <3>1
    <3> QED
      BY <1>4, <3>2 DEF Parts
  <2> QED
    BY <1>2, <1>5, <2>1, JoinType
<1>8. Wire!query_pairs(text) = pairs
  <2> DEFINE each == [k \in DOMAIN parts |-> Wire!query_pair(parts[k])]
             ones == [k \in DOMAIN pairs |-> <<pairs[k]>>]
  <2>1. Wire!query_pairs(text) = Wire!FlattenSeq(each)
    BY <1>6 DEF Wire!query_pairs, amp
  <2>2. each = ones
    BY <1>1, <1>3, <1>4
  <2>3. FlattenSeq(ones) = pairs
    BY FlattenOnes
  <2> HIDE DEF each, ones
  <2> QED
    BY <2>1, <2>2, <2>3, WireTexts
<1> QED
  BY <1>7, <1>8 DEF text

LEMMA TokensAssociate == \A a, b, c \in Seq(Token) : (a \o b) \o c = a \o (b \o c)
BY ConcatAssociative

(* The last ':' of a text. *)
LEMMA ColonFound ==
  ASSUME NEW a \in Seq(Token), NEW b \in Seq(Token \ {Wire!Plain(":")})
  PROVE  /\ Wire!rfind_colon(b) = 0
         /\ Wire!rfind_colon(a \o (<<Wire!Plain(":")>> \o b)) = Len(a) + 1
<1> DEFINE colon == Wire!Plain(":")
           t == a \o (<<colon>> \o b)
           none == {i \in 1..Len(b) : b[i] = colon}
           found == {i \in 1..Len(t) : t[i] = colon}
<1>1. /\ Len(a) \in Nat /\ Len(b) \in Nat /\ b \in Seq(Token) /\ colon \in Token
      /\ \A i \in 1..Len(b) : b[i] # colon
  BY DEF Token
<1> HIDE DEF colon
<1>2. /\ t \in Seq(Token) /\ Len(t) = Len(a) + (1 + Len(b)) /\ t[Len(a) + 1] = colon
      /\ \A i \in 1..Len(b) : t[Len(a) + 1 + i] = b[i]
  BY <1>1, AroundSep
<1>3. none = {}
  BY <1>1
<1>4. Wire!rfind_colon(b) = 0
  BY <1>3 DEF Wire!rfind_colon, Wire!SelectLastInSeq, colon
<1> HIDE DEF t
<1>5. found # {} /\ Wire!Max(found) = Len(a) + 1
  <2>1. Len(a) + 1 \in found
    BY <1>1, <1>2
  <2>2. ASSUME NEW i \in found PROVE i \in Nat /\ i <= Len(a) + 1
    <3>1. i \in 1..(Len(a) + (1 + Len(b))) /\ t[i] = colon
      BY <1>2
    <3>2. CASE i > Len(a) + 1
      <4>1. PICK j \in 1..Len(b) : i = Len(a) + 1 + j
        <5>1. i - (Len(a) + 1) \in 1..Len(b) /\ i = Len(a) + 1 + (i - (Len(a) + 1))
          BY <1>1, <3>1, <3>2
        <5> QED
          BY <5>1
      <4> QED
        BY <1>1, <1>2, <3>1, <4>1
    <3> QED
      BY <1>1, <3>1, <3>2
  <2>3. \A i \in found : (\A j \in found : i >= j) => i = Len(a) + 1
    BY <1>1, <2>1, <2>2
  <2>4. \A j \in found : Len(a) + 1 >= j
    BY <1>1, <2>2
  <2> HIDE DEF found
  <2> QED
    BY <2>1, <2>3, <2>4 DEF Wire!Max
<1>6. Wire!rfind_colon(t) = Len(a) + 1
  <2>1. Wire!rfind_colon(t) = IF found # {} THEN Wire!Max(found) ELSE 0
    BY DEF Wire!rfind_colon, Wire!SelectLastInSeq, colon
  <2> HIDE DEF found
  <2> QED
    BY <1>5, <2>1
<1> QED
  BY <1>4, <1>6 DEF t, colon
(* The path and its verb. *)
LEMMA PathArrives ==
  ASSUME NEW segments \in Seq(Seq(Plain(Char))), segments # <<>>,
         NEW verb, verb = NoVerb \/ verb \in Seq(Plain(Char \ {"/", "?", ":"}))
  PROVE  /\ Wire!PathText(segments, verb) \in Seq(Token \ {Wire!Plain("?")})
         /\ Wire!split_request_path(Wire!PathText(segments, verb))
              = [segments |-> segments, verb |-> verb]
<1> DEFINE slash == Wire!Plain("/")
           colon == Wire!Plain(":")
           mark == Wire!Plain("?")
           n == Len(segments)
           delimiters(k) == IF k = n /\ verb = NoVerb THEN {"/", "?", ":"} ELSE {"/", "?"}
           sent(k) == Wire!AsPath(segments[k], delimiters(k))
           parts == [k \in DOMAIN segments |-> sent(k)]
           one == <<slash>>
           suffix == IF verb = NoVerb THEN <<>> ELSE <<colon>> \o verb
           joined == Join(parts, slash)
           text == Wire!PathText(segments, verb)
           raw == Wire!RawSegments(text)
<1>1. n \in Nat \ {0} /\ DOMAIN segments = 1..n /\ \A k \in 1..n : segments[k] \in Seq(Plain(Char))
  OBVIOUS
<1>2. /\ slash \in Token /\ colon \in Token /\ mark \in Token
      /\ slash # colon /\ slash # mark /\ colon # mark
  BY Tokens DEF Token
<1>3. text = (one \o joined) \o suffix
  <2>1. text = (one \o Wire!Join(parts, slash)) \o suffix
    BY DEF Wire!PathText
  <2> HIDE DEF text, parts, suffix, one
  <2> QED
    BY <2>1, WireTexts
<1>4. ASSUME NEW k \in 1..n
      PROVE  /\ sent(k) \in Seq(Token) /\ sent(k) \in Seq(Token \ {slash})
             /\ sent(k) \in Seq(Token \ {mark})
             /\ k = n /\ verb = NoVerb => sent(k) \in Seq(Token \ {colon})
             /\ Wire!decode(sent(k)) = segments[k]
  <2>1. "/" \in delimiters(k) /\ "?" \in delimiters(k) /\ (k = n /\ verb = NoVerb => ":" \in delimiters(k))
    OBVIOUS
  <2> HIDE DEF delimiters
  <2> QED
    BY <1>1, <2>1, PathPiece
<1>5. ASSUME verb # NoVerb
      PROVE  /\ verb \in Seq(Token \ {slash}) /\ verb \in Seq(Token \ {mark})
             /\ verb \in Seq(Token \ {colon})
  <2>1. \A c \in Char \ {"/", "?", ":"} :
          Wire!Plain(c) \in Token /\ Wire!Plain(c) \notin {slash, mark, colon}
    BY Tokens DEF Token
  <2>2. Plain(Char \ {"/", "?", ":"}) \subseteq Token \ {slash, mark, colon}
    BY <2>1 DEF Plain
  <2>3. verb \in Seq(Plain(Char \ {"/", "?", ":"}))
    BY <1>5
  <2> DEFINE T == Plain(Char \ {"/", "?", ":"})
  <2>4. /\ \A c \in T : c \in Token \ {slash}
        /\ \A c \in T : c \in Token \ {mark}
        /\ \A c \in T : c \in Token \ {colon}
    BY <2>2
  <2> HIDE DEF slash, mark, colon, T
  <2> DEFINE m == Len(verb)
  <2>5. m \in Nat /\ verb \in [1..m -> T]
    BY <2>3 DEF T
  <2> HIDE DEF m
  <2>6. /\ verb \in [1..m -> Token \ {slash}] /\ verb \in [1..m -> Token \ {mark}]
        /\ verb \in [1..m -> Token \ {colon}]
    BY <2>4, <2>5
  <2> QED
    BY <2>5, <2>6
<1> HIDE DEF slash, colon, mark, sent, n, one, text, raw
<1>6. /\ suffix \in Seq(Token \ {slash}) /\ suffix \in Seq(Token \ {mark}) /\ suffix \in Seq(Token)
  <2>1. CASE verb = NoVerb
    <3>1. suffix = <<>>
      BY <2>1
    <3> HIDE DEF suffix
    <3>2. \A S : <<>> \in Seq(S)
      OBVIOUS
    <3> QED
      BY <3>1, <3>2
  <2>2. CASE verb # NoVerb
    <3> DEFINE c == <<colon>>
    <3>1. suffix = c \o verb /\ c \in Seq(Token \ {slash}) /\ c \in Seq(Token \ {mark})
      BY <1>2, <2>2
    <3> HIDE DEF c, suffix
    <3>2. suffix \in Seq(Token \ {slash}) /\ suffix \in Seq(Token \ {mark})
      BY <1>5, <2>2, <3>1, ConcatProperties
    <3> QED
      BY <3>2
  <2> QED
    BY <2>1, <2>2
<1> HIDE DEF suffix
<1>7. /\ DOMAIN parts = 1..n /\ Len(parts) = n /\ \A k \in 1..n : parts[k] = sent(k)
      /\ parts \in Seq(Seq(Token \ {slash})) /\ parts # <<>>
      /\ parts \in Parts(Token) /\ parts \in Parts(Token \ {mark})
  <2> DEFINE P == Seq(Token \ {slash})
             Q == Seq(Token \ {mark})
             R == Seq(Token)
  <2>1. /\ parts \in [1..n -> P] /\ parts \in [1..n -> Q] /\ parts \in [1..n -> R]
        /\ DOMAIN parts = 1..n /\ \A k \in 1..n : parts[k] = sent(k)
    BY <1>1, <1>4
  <2> HIDE DEF parts, P, Q, R
  <2>2. parts \in Seq(P) /\ parts \in Seq(Q) /\ parts \in Seq(R) /\ Len(parts) = n /\ parts # <<>>
    BY <1>1, <2>1
  <2> QED
    BY <2>1, <2>2 DEF P, Q, R, Parts
<1> HIDE DEF parts, joined
<1>8. /\ joined \in Seq(Token) /\ joined \in Seq(Token \ {mark})
      /\ split(joined, slash) = parts
  <2>1. joined \in Seq(Token)
    BY <1>2, <1>7, JoinType DEF joined
  <2>2. joined \in Seq(Token \ {mark})
    <3>1. slash \in Token \ {mark}
      BY <1>2
    <3> QED
      BY <1>7, <3>1, JoinType DEF joined
  <2>3. split(joined, slash) = parts
    BY <1>2, <1>7, SplitJoin DEF joined
  <2> QED
    BY <2>1, <2>2, <2>3
<1>9. one \in Seq(Token) /\ one \in Seq(Token \ {mark}) /\ Len(one) = 1 /\ one[1] = slash /\ one # <<>>
      /\ Tail(one) = <<>>
  BY <1>2 DEF one
<1>10. text \in Seq(Token \ {mark}) /\ text = one \o (joined \o suffix)
       /\ joined \o suffix \in Seq(Token)
  <2>1. one \o joined \in Seq(Token \ {mark})
    BY <1>8, <1>9, ConcatProperties
  <2>2. (one \o joined) \o suffix \in Seq(Token \ {mark})
    BY <1>6, <2>1, ConcatProperties
  <2> HIDE DEF one, joined, suffix
  <2>3. (one \o joined) \o suffix = one \o (joined \o suffix)
    <3>1. one \in Seq(Token) /\ joined \in Seq(Token) /\ suffix \in Seq(Token)
      BY <1>6, <1>8, <1>9
    <3> QED
      BY <3>1, TokensAssociate, Zenon
  <2>4. joined \o suffix \in Seq(Token)
    BY <1>6, <1>8, ConcatProperties
  <2> QED
    BY <1>3, <2>2, <2>3, <2>4
<1>11. StartsWith(text, slash) /\ Tail(text) = joined \o suffix
  <2> DEFINE rest == joined \o suffix
  <2>1. rest \in Seq(Token) /\ text = one \o rest
    BY <1>10
  <2> HIDE DEF rest
  <2>2. Tail(text) = Tail(one) \o rest
    BY <1>9, <2>1, TailConcat
  <2>3. Tail(one) \o rest = rest
    BY <1>9, <2>1, ConcatEmptySeq
  <2>4. Len(text) = 1 + Len(rest) /\ text[1] = slash
    <3>1. /\ Len(text) = Len(one) + Len(rest)
          /\ \A i \in 1..(Len(one) + Len(rest)) :
               text[i] = IF i <= Len(one) THEN one[i] ELSE rest[i - Len(one)]
      BY <1>9, <2>1, ConcatProperties
    <3>2. Len(rest) \in Nat
      BY <2>1
    <3>3. 1 \in 1..(Len(one) + Len(rest)) /\ 1 <= Len(one)
      BY <1>9, <3>2
    <3> QED
      BY <1>9, <3>1, <3>3
  <2>5. text # <<>>
    <3>1. Len(rest) \in Nat
      BY <2>1
    <3>2. Len(text) # 0
      BY <2>4, <3>1
    <3> QED
      BY <3>2
  <2>6. StartsWith(text, slash)
    BY <2>4, <2>5 DEF StartsWith
  <2> QED
    BY <2>2, <2>3, <2>6 DEF rest
<1>12. raw = Lengthen(parts, suffix)
  <2>1. raw = split(Tail(text), slash)
    BY <1>11, WireTexts DEF Wire!RawSegments, slash, raw
  <2>2. split(joined \o suffix, slash) = Lengthen(split(joined, slash), suffix)
    <3>1. joined \in Seq(Token) /\ suffix \in Seq(Token \ {slash})
      BY <1>6, <1>8
    <3> QED
      BY <3>1, SplitPart
  <2> QED
    BY <1>8, <1>11, <2>1, <2>2
<1> DEFINE last == sent(n) \o suffix
<1>13. /\ DOMAIN raw = 1..n /\ Len(raw) = n /\ raw[n] = last
       /\ \A k \in 1..(n - 1) : raw[k] = sent(k)
  <2>1. /\ raw = [k \in 1..n |-> IF k = n THEN parts[k] \o suffix ELSE parts[k]]
    BY <1>7, <1>12 DEF Lengthen
  <2>2. n \in 1..n /\ parts[n] = sent(n)
    BY <1>1, <1>7
  <2> HIDE DEF last
  <2>3. raw[n] = last
    BY <2>1, <2>2 DEF last
  <2>4. \A k \in 1..(n - 1) : raw[k] = sent(k)
    BY <1>1, <1>7, <2>1
  <2>5. Len(raw) = n /\ DOMAIN raw = 1..n
    BY <1>1, <2>1
  <2> QED
    BY <2>3, <2>4, <2>5
<1> HIDE DEF last
<1> DEFINE at == Wire!rfind_colon(last)
           stem == IF at = 0 THEN last ELSE Wire!UpTo(last, at - 1)
           behind == IF at = 0 THEN NoVerb ELSE Wire!From(last, at + 1)
<1>14. stem = sent(n) /\ behind = verb
  <2>0. n \in 1..n
    BY <1>1
  <2>1. CASE verb = NoVerb
    <3>1. last = sent(n)
      <4>1. suffix = <<>>
        BY <2>1 DEF suffix
      <4>2. sent(n) \o <<>> = sent(n)
        BY <1>4, <2>0, ConcatEmptySeq
      <4> QED
        BY <4>1, <4>2 DEF last
    <3>2. at = 0
      <4>1. last \in Seq(Token \ {Wire!Plain(":")}) /\ last \in Seq(Token)
        BY <1>4, <2>0, <2>1, <3>1 DEF colon
      <4> QED
        BY <4>1, ColonFound
    <3> QED
      BY <2>1, <3>1, <3>2
  <2>2. CASE verb # NoVerb
    <3> DEFINE a == sent(n)
    <3>1. a \in Seq(Token) /\ verb \in Seq(Token \ {colon}) /\ verb \in Seq(Token)
      BY <1>4, <1>5, <2>0, <2>2
    <3>2. last = a \o (<<colon>> \o verb)
      BY <2>2 DEF last, suffix
    <3> HIDE DEF a
    <3>3. at = Len(a) + 1
      BY <3>1, <3>2, ColonFound DEF colon
    <3>4. Len(a) \in Nat
      BY <3>1
    <3>5. UpTo(last, Len(a)) = a /\ From(last, Len(a) + 2) = verb
      BY <1>2, <3>1, <3>2, SepParts DEF UpTo, From
    <3>6. at # 0 /\ at - 1 = Len(a) /\ at + 1 = Len(a) + 2
      BY <3>3, <3>4
    <3> HIDE DEF at
    <3>7. stem = UpTo(last, Len(a)) /\ behind = From(last, Len(a) + 2)
      BY <3>6, WireTexts
    <3> QED
      BY <3>5, <3>7 DEF a
  <2> QED
    BY <2>1, <2>2
<1>15. Wire!split_request_path(text) = [segments |-> segments, verb |-> verb]
  <2> DEFINE decoded == [k \in DOMAIN raw |-> Wire!decode(IF k = Len(raw) THEN stem ELSE raw[k])]
  <2>1. Wire!split_request_path(text) = [segments |-> decoded, verb |-> behind]
    BY <1>13 DEF Wire!split_request_path, raw
  <2> HIDE DEF stem, behind
  <2>2. decoded = segments
    <3>1. ASSUME NEW k \in 1..n PROVE decoded[k] = segments[k]
      <4>1. decoded[k] = Wire!decode(IF k = n THEN stem ELSE raw[k])
        BY <1>13
      <4>2. CASE k = n
        BY <1>4, <1>14, <4>1, <4>2
      <4>3. CASE k # n
        <5>1. k \in 1..(n - 1)
          BY <1>1, <4>3
        <5> QED
          BY <1>4, <1>13, <4>1, <4>3, <5>1
      <4> QED
        BY <4>2, <4>3
    <3>2. DOMAIN decoded = 1..n /\ decoded = [k \in DOMAIN decoded |-> decoded[k]]
      BY <1>13
    <3>3. segments = [k \in 1..n |-> segments[k]]
      BY <1>1
    <3> HIDE DEF decoded
    <3> QED
      BY <3>1, <3>2, <3>3
  <2> HIDE DEF decoded
  <2> QED
    BY <1>14, <2>1, <2>2
<1> QED
  BY <1>10, <1>15 DEF text, mark

(* Whatever a client sends arrives as it was meant: segments, verb and     *)
(* pairs of any number and length, over any characters, delimiters         *)
(* included.                                                               *)
THEOREM TargetArrivesInvariant == Spec => []TargetArrives
<1>1. ASSUME NEW r \in Requests
      PROVE  Wire!request(Wire!TargetText(r.segments, r.verb, r.pairs)) = r
  <2> DEFINE mark == Wire!Plain("?")
             path == Wire!PathText(r.segments, r.verb)
             query == Wire!QueryText(r.pairs)
             text == Wire!TargetText(r.segments, r.verb, r.pairs)
             parts == Wire!split_once(text, mark, NoQuery)
  <2>1. /\ r = [segments |-> r.segments, verb |-> r.verb, pairs |-> r.pairs]
        /\ r.segments \in Seq(Seq(Plain(Char))) /\ r.segments # <<>>
        /\ r.verb = NoVerb \/ r.verb \in Seq(Plain(Char \ {"/", "?", ":"}))
        /\ r.pairs \in Seq(Seq(Plain(Char)) \X Seq(Plain(Char)))
        /\ r.pairs # <<>> => query # NoQuery
    BY RequestInputs
  <2>2. /\ path \in Seq(Token \ {mark})
        /\ Wire!split_request_path(path) = [segments |-> r.segments, verb |-> r.verb]
    BY <2>1, PathArrives
  <2>3. text = path \o (IF r.pairs = <<>> THEN <<>> ELSE <<mark>> \o query)
    BY DEF Wire!TargetText
  <2>4. mark \in Token /\ path \in Seq(Token)
    BY <2>2 DEF Token
  <2>5. r.pairs # <<>> => query \in Seq(Token) /\ Wire!query_pairs(query) = r.pairs
    BY <2>1, QueryArrives
  <2>6. Wire!request(text) =
          [ segments |-> Wire!split_request_path(parts[1]).segments,
            verb     |-> Wire!split_request_path(parts[1]).verb,
            pairs    |-> IF parts[2] = NoQuery THEN <<>> ELSE Wire!query_pairs(parts[2]) ]
    BY DEF Wire!request
  <2> HIDE DEF mark, path, query, text
  <2>7. parts = <<path, IF r.pairs = <<>> THEN NoQuery ELSE query>>
    <3>1. CASE r.pairs = <<>>
      <4>1. path \o <<>> = path
        BY <2>4, ConcatEmptySeq
      <4>2. text = path
        BY <2>3, <3>1, <4>1
      <4>3. split_once(path, mark, NoQuery) = <<path, NoQuery>>
        <5>1. ASSUME NEW p \in Seq(Token \ {mark}), NEW none
              PROVE  split_once(p, mark, none) = <<p, none>>
          BY <2>4, SplitNowhere
        <5> QED
          BY <2>2, <5>1
      <4> QED
        BY <3>1, <4>2, <4>3, WireTexts
    <3>2. CASE r.pairs # <<>>
      <4>1. text = path \o (<<mark>> \o query)
        BY <2>3, <3>2
      <4>2. split_once(path \o (<<mark>> \o query), mark, NoQuery) = <<path, query>>
        BY <2>2, <2>4, <2>5, <3>2, SplitOnce
      <4> QED
        BY <3>2, <4>1, <4>2, WireTexts
    <3> QED
      BY <3>1, <3>2
  <2> HIDE DEF parts
  <2>8. Wire!request(text) = [segments |-> r.segments, verb |-> r.verb, pairs |-> r.pairs]
    <3>1. CASE r.pairs = <<>>
      BY <2>2, <2>6, <2>7, <3>1
    <3>2. CASE r.pairs # <<>>
      BY <2>1, <2>2, <2>5, <2>6, <2>7, <3>2
    <3> QED
      BY <3>1, <3>2
  <2> QED
    BY <2>1, <2>8 DEF text
<1>2. Inputs => TargetArrives
  BY <1>1 DEF Inputs, TargetArrives
<1> QED
  BY <1>2, InputsInvariant, PTL

(***************************************************************************)
(* The parser.  It consumes a text from its beginning; what it returns is  *)
(* Failed, or a value and what it has left of the text.                    *)
(***************************************************************************)
Results(V, C, n) == {Failed} \cup {Parsed(v, r) : v \in V, r \in {s \in Seq(C) : Len(s) <= n}}

LEMMA ResultCases ==
  ASSUME NEW V, NEW C, NEW n
  PROVE  /\ Failed \in Results(V, C, n)
         /\ \A v \in V, r \in Seq(C) : Len(r) <= n => Parsed(v, r) \in Results(V, C, n)
         /\ \A result \in Results(V, C, n) :
              \/ result = Failed /\ ~result.ok
              \/ /\ result.ok /\ result = Parsed(result.value, result.rest)
                 /\ result.value \in V /\ result.rest \in Seq(C) /\ Len(result.rest) <= n
<1>1. Failed \in Results(V, C, n) /\ ~Failed.ok
  BY DEF Results, Failed
<1>2. \A v \in V, r \in Seq(C) : Len(r) <= n => Parsed(v, r) \in Results(V, C, n)
  BY DEF Results
<1>3. \A v, r : Parsed(v, r).ok /\ Parsed(v, r).value = v /\ Parsed(v, r).rest = r
  BY DEF Parsed
<1> HIDE DEF Failed, Parsed
<1>4. ASSUME NEW result \in Results(V, C, n), result # Failed
      PROVE  /\ result.ok /\ result = Parsed(result.value, result.rest)
             /\ result.value \in V /\ result.rest \in Seq(C) /\ Len(result.rest) <= n
  <2>1. PICK v \in V, r \in {s \in Seq(C) : Len(s) <= n} : result = Parsed(v, r)
    BY <1>4 DEF Results
  <2> QED
    BY <1>3, <2>1
<1> QED
  BY <1>1, <1>2, <1>4

LEMMA TurnCases ==
  ASSUME NEW segments, NEW rest, NEW text, NEW parsed
  PROVE  /\ Turn(Failed, text, parsed) = Failed
         /\ ~StartsWith(rest, "/") =>
              Turn(Parsed(segments, rest), text, parsed) = Parsed(segments, rest)
         /\ \A result :
              StartsWith(rest, "/") /\ result = parsed[Len(text) - Len(rest) + 2] =>
              Turn(Parsed(segments, rest), text, parsed) =
                IF segments # <<>> /\ is_catch_all(Last(segments)) THEN Failed
                ELSE IF result.ok THEN Parsed(Append(segments, result.value), result.rest)
                ELSE Failed
<1>1. \A a, b : Parsed(a, b).ok /\ Parsed(a, b).value = a /\ Parsed(a, b).rest = b
  BY DEF Parsed
<1>2. ~Failed.ok
  BY DEF Failed
<1> HIDE DEF Failed, Parsed
<1>3. Turn(Failed, text, parsed) = Failed
  BY <1>2 DEF Turn, Then
<1>4. ASSUME ~StartsWith(rest, "/")
      PROVE  Turn(Parsed(segments, rest), text, parsed) = Parsed(segments, rest)
  BY <1>1, <1>4 DEF Turn, Then
<1>5. ASSUME NEW result, StartsWith(rest, "/"), result = parsed[Len(text) - Len(rest) + 2]
      PROVE  Turn(Parsed(segments, rest), text, parsed) =
               IF segments # <<>> /\ is_catch_all(Last(segments)) THEN Failed
               ELSE IF result.ok THEN Parsed(Append(segments, result.value), result.rest)
               ELSE Failed
  BY <1>1, <1>5, Zenon DEF Turn, Then
<1> QED
  BY <1>3, <1>4, <1>5

(* What the loop has made of the text after each turn. *)
IsLoop(f, text, parsed) ==
  /\ f[0] = Parsed(<<>>, <<"/">> \o text)
  /\ \A k \in 1..(Len(text) + 1) : f[k] = Turn(f[k - 1], text, parsed)

LEMMA TurnType ==
  ASSUME NEW V, NEW C, NEW text \in Seq(C),
         NEW parsed \in [1..(Len(text) + 1) -> Results(V, C, Len(text))],
         NEW r \in Results(Seq(V), C, Len(text) + 1)
  PROVE  Turn(r, text, parsed) \in Results(Seq(V), C, Len(text) + 1)
<1> DEFINE n == Len(text)
<1>1. n \in Nat
  OBVIOUS
<1>2. CASE r = Failed
  BY <1>2, TurnCases
<1>3. CASE r # Failed
  <2> DEFINE segments == r.value
             rest == r.rest
  <2>1. r = Parsed(segments, rest) /\ segments \in Seq(V) /\ rest \in Seq(C) /\ Len(rest) <= n + 1
    BY <1>3, ResultCases
  <2> HIDE DEF segments, rest
  <2>2. CASE ~StartsWith(rest, "/")
    BY <2>1, <2>2, TurnCases
  <2>3. CASE StartsWith(rest, "/")
    <3>1. n - Len(rest) + 2 \in 1..(n + 1)
      <4>1. rest # <<>>
        BY <2>3 DEF StartsWith
      <4> QED
        BY <1>1, <2>1, <4>1
    <3> DEFINE result == parsed[n - Len(rest) + 2]
               next == Turn(r, text, parsed)
    <3>2. result \in Results(V, C, n)
      BY <3>1
    <3>3. \/ next = Failed
          \/ result.ok /\ next = Parsed(Append(segments, result.value), result.rest)
      <4>1. next = Turn(Parsed(segments, rest), text, parsed)
        BY <2>1
      <4>2. result = parsed[Len(text) - Len(rest) + 2]
        OBVIOUS
      <4> HIDE DEF next, result
      <4>3. next = IF segments # <<>> /\ is_catch_all(Last(segments)) THEN Failed
                   ELSE IF result.ok THEN Parsed(Append(segments, result.value), result.rest)
                   ELSE Failed
        BY <2>3, <4>1, <4>2, TurnCases, Zenon
      <4> QED
        BY <4>3
    <3> HIDE DEF result, next
    <3>4. CASE next = Failed
      BY <3>4, ResultCases DEF next
    <3>5. CASE next # Failed
      <4>1. result.ok /\ next = Parsed(Append(segments, result.value), result.rest)
        BY <3>3, <3>5
      <4>2. result.value \in V /\ result.rest \in Seq(C) /\ Len(result.rest) <= n
        BY <3>2, <4>1, ResultCases
      <4> DEFINE longer == Append(segments, result.value)
                 T == Seq(V)
      <4>3. longer \in T /\ Len(result.rest) <= n + 1
        BY <1>1, <2>1, <4>2
      <4> HIDE DEF longer, T, n
      <4>4. Parsed(longer, result.rest) \in Results(T, C, n + 1)
        BY <4>2, <4>3, ResultCases
      <4> QED
        BY <4>1, <4>4 DEF next, n, T, longer
    <3> QED
      BY <3>4, <3>5
  <2> QED
    BY <2>2, <2>3
<1> QED
  BY <1>2, <1>3

LEMMA LoopDef ==
  ASSUME NEW V, NEW C, "/" \in C, NEW text \in Seq(C),
         NEW parsed \in [1..(Len(text) + 1) -> Results(V, C, Len(text))]
  PROVE  \E f \in [0..(Len(text) + 1) -> Results(Seq(V), C, Len(text) + 1)] :
           IsLoop(f, text, parsed) /\ Segments(text, parsed) = f[Len(text) + 1]
<1> DEFINE n == Len(text) + 1
           S == Results(Seq(V), C, n)
           start == Parsed(<<>>, <<"/">> \o text)
           step == [k \in 1..n |-> [r \in S |-> Turn(r, text, parsed)]]
           Is(f) == f = [k \in 0..n |-> IF k = 0 THEN Parsed(<<>>, <<"/">> \o text)
                                        ELSE Turn(f[k - 1], text, parsed)]
           all == CHOOSE f : Is(f)
<1>1. n \in Nat
  OBVIOUS
<1>2. start \in S
  <2>1. <<"/">> \in Seq(C) /\ <<>> \in Seq(V)
    OBVIOUS
  <2>2. <<"/">> \o text \in Seq(C) /\ Len(<<"/">> \o text) = n
    BY <2>1, ConcatProperties
  <2> DEFINE T == Seq(V)
             none == <<>>
  <2>3. none \in T /\ n <= n
    BY <1>1, <2>1
  <2> HIDE DEF n, T, none
  <2>4. Parsed(none, <<"/">> \o text) \in Results(T, C, n)
    BY <2>2, <2>3, ResultCases
  <2> QED
    BY <2>4 DEF T, none
<1>3. step \in [1..n -> [S -> S]]
  <2>1. ASSUME NEW r \in S PROVE Turn(r, text, parsed) \in S
    BY TurnType
  <2> HIDE DEF n, S
  <2> QED
    BY <2>1
<1> HIDE DEF n, S, start, step
<1>4. PICK g \in [0..n -> S] : IsRecursion(g, n, start, step)
  BY <1>1, <1>2, <1>3, Recursion
<1>5. g[0] = start /\ \A k \in 1..n : g[k] = Turn(g[k - 1], text, parsed)
  <2>1. ASSUME NEW k \in 1..n PROVE g[k] = Turn(g[k - 1], text, parsed)
    <3>1. g[k - 1] \in S
      BY <1>1, <1>4
    <3>2. step[k][g[k - 1]] = Turn(g[k - 1], text, parsed)
      BY <3>1 DEF step
    <3> QED
      BY <1>4, <3>2 DEF IsRecursion
  <2> QED
    BY <1>4, <2>1 DEF IsRecursion
<1>6. Is(g)
  <2> DEFINE h == [k \in 0..n |-> IF k = 0 THEN Parsed(<<>>, <<"/">> \o text)
                                  ELSE Turn(g[k - 1], text, parsed)]
  <2>1. ASSUME NEW k \in 0..n PROVE g[k] = h[k]
    <3>1. k # 0 => k \in 1..n
      BY <1>1
    <3> QED
      BY <1>5, <3>1 DEF start
  <2> QED
    BY <1>4, <2>1
<1>7. Is(all)
  BY <1>6
<1>8. Segments(text, parsed) = all[n]
  BY DEF Segments, n
<1> HIDE DEF all
<1> DEFINE D == {k \in 0..n : all[k] = g[k]}
<1>9. 0 \in D
  BY <1>1, <1>5, <1>7 DEF start
<1>10. ASSUME NEW k \in 0..(n - 1), k \in D
       PROVE  k + 1 \in D
  <2>1. k + 1 \in 1..n /\ k + 1 \in 0..n /\ (k + 1) - 1 = k /\ k + 1 # 0
    BY <1>1
  <2>2. all[k + 1] = Turn(all[k], text, parsed)
    BY <1>7, <2>1
  <2>3. g[k + 1] = Turn(g[k], text, parsed)
    BY <1>5, <2>1
  <2> QED
    BY <1>10, <2>1, <2>2, <2>3
<1>11. \A k \in 0..n : k \in D
  <2> HIDE DEF D
  <2> QED
    BY <1>1, <1>9, <1>10, UpInduction
<1>12. all[n] = g[n]
  BY <1>1, <1>11
<1>13. IsLoop(g, text, parsed)
  BY <1>5 DEF IsLoop, n, start
<1> QED
  BY <1>4, <1>8, <1>12, <1>13 DEF n, S

(***************************************************************************)
(* What a text is read as: a value, spelled by the beginning of the text.  *)
(* R relates values to their spellings.                                    *)
(***************************************************************************)
Reads(R, C, text, result) ==
  \/ result = Failed
  \/ \E value : \E piece \in Seq(C), rest \in Seq(C) :
       /\ <<value, piece>> \in R
       /\ result = Parsed(value, rest)
       /\ text = Cat(piece, rest)

Spelled(R, values, pieces) ==
  /\ Len(pieces) = Len(values)
  /\ \A i \in 1..Len(values) : <<values[i], pieces[i]>> \in R

(* Nothing is written behind a `**`. *)
OnlyLast(values) == \A i \in 1..(Len(values) - 1) : ~is_catch_all(values[i])

(* As the loop of `parse_segments` goes on. *)
SoFar(R, V, C, text, values, rest) ==
  \E pieces \in Seq(Seq(C)) :
    /\ values \in Seq(V) /\ rest \in Seq(C)
    /\ Spelled(R, values, pieces)
    /\ OnlyLast(values)
    /\ Cat(One("/"), text) = Cat(Slashed(pieces), rest)

LEMMA SpelledAppend ==
  ASSUME NEW V, NEW C, NEW R, NEW values \in Seq(V), NEW pieces \in Seq(Seq(C)),
         NEW v \in V, NEW p \in Seq(C), Spelled(R, values, pieces), <<v, p>> \in R
  PROVE  Spelled(R, Append(values, v), Append(pieces, p))
<1> DEFINE vs == Append(values, v)
           ps == Append(pieces, p)
           n == Len(values)
           T == Seq(C)
<1>1. Len(vs) = n + 1 /\ vs[n + 1] = v /\ n \in Nat /\ \A i \in 1..n : vs[i] = values[i]
  BY AppendProperties
<1>2. Len(pieces) = n /\ \A i \in 1..n : <<values[i], pieces[i]>> \in R
  BY DEF Spelled
<1>3. Len(ps) = n + 1 /\ ps[n + 1] = p /\ \A i \in 1..n : ps[i] = pieces[i]
  <2>1. pieces \in Seq(T) /\ p \in T
    OBVIOUS
  <2> HIDE DEF T
  <2> QED
    BY <1>2, <2>1, AppendProperties
<1> HIDE DEF vs, ps, n
<1>4. ASSUME NEW i \in 1..(n + 1) PROVE <<vs[i], ps[i]>> \in R
  <2>1. CASE i = n + 1
    BY <1>1, <1>3, <2>1
  <2>2. CASE i # n + 1
    <3>1. i \in 1..n
      BY <1>1, <2>2
    <3> QED
      BY <1>1, <1>2, <1>3, <3>1
  <2> QED
    BY <2>1, <2>2
<1>5. Spelled(R, vs, ps)
  BY <1>1, <1>3, <1>4 DEF Spelled
<1> QED
  BY <1>5 DEF vs, ps

LEMMA OnlyLastAppend ==
  ASSUME NEW V, NEW values \in Seq(V), NEW v \in V, OnlyLast(values),
         values = <<>> \/ ~is_catch_all(Last(values))
  PROVE  OnlyLast(Append(values, v))
<1> DEFINE vs == Append(values, v)
           n == Len(values)
<1>1. Len(vs) = n + 1 /\ n \in Nat /\ \A i \in 1..n : vs[i] = values[i]
  BY AppendProperties
<1>2. ASSUME NEW i \in 1..n PROVE ~is_catch_all(values[i])
  <2>1. CASE i = n
    <3>1. values # <<>> /\ Last(values) = values[n]
      BY <2>1 DEF Last
    <3> QED
      BY <2>1, <3>1
  <2>2. CASE i # n
    <3>1. i \in 1..(Len(values) - 1)
      BY <1>1, <2>2
    <3> QED
      BY <3>1 DEF OnlyLast
  <2> QED
    BY <2>1, <2>2
<1> HIDE DEF vs, n
<1>3. \A i \in 1..(Len(vs) - 1) : ~is_catch_all(vs[i])
  BY <1>1, <1>2
<1> QED
  BY <1>3 DEF OnlyLast, vs

LEMMA TurnReads ==
  ASSUME NEW C, "/" \in C, NEW V, NEW R \in SUBSET (V \X Seq(C)),
         NEW text \in Seq(C),
         NEW parsed, \A i \in 1..(Len(text) + 1) : Reads(R, C, From(text, i), parsed[i]),
         NEW values, NEW rest, SoFar(R, V, C, text, values, rest)
  PROVE  LET next == Turn(Parsed(values, rest), text, parsed) IN
         \/ next = Failed
         \/ /\ next = Parsed(values, rest) /\ ~StartsWith(rest, "/")
         \/ \E more, left : /\ more # <<>> /\ next = Parsed(more, left)
                            /\ SoFar(R, V, C, text, more, left)
<1> DEFINE next == Turn(Parsed(values, rest), text, parsed)
           at == Len(text) - Len(rest) + 2
           result == parsed[at]
<1>1. PICK pieces \in Seq(Seq(C)) :
        /\ values \in Seq(V) /\ rest \in Seq(C)
        /\ Spelled(R, values, pieces) /\ OnlyLast(values)
        /\ Cat(One("/"), text) = Cat(Slashed(pieces), rest)
  BY DEF SoFar
<1>2. Slashed(pieces) \in Seq(C)
  BY <1>1, FlattenType, HeadedType DEF Slashed
<1>3. CASE ~StartsWith(rest, "/")
  <2>1. next = Parsed(values, rest)
    BY <1>3, TurnCases
  <2> QED
    BY <1>3, <2>1
<1>4. CASE StartsWith(rest, "/") /\ next # Failed
  <2>1. rest # <<>> /\ Tail(rest) \in Seq(C) /\ rest = Cat(One("/"), Tail(rest))
    BY <1>1, <1>4, SlashTail
  <2>2. at \in 1..(Len(text) + 1) /\ From(text, at) = Tail(rest)
    <3>1. <<"/">> \o text = Slashed(pieces) \o rest
      BY <1>1 DEF Cat, One
    <3> QED
      BY <1>1, <1>2, <2>1, <3>1, LeftBehind
  <2>3. next = IF values # <<>> /\ is_catch_all(Last(values)) THEN Failed
               ELSE IF result.ok THEN Parsed(Append(values, result.value), result.rest)
               ELSE Failed
    BY <1>4, TurnCases, Zenon
  <2> HIDE DEF next
  <2>4. /\ values = <<>> \/ ~is_catch_all(Last(values))
        /\ result.ok /\ next = Parsed(Append(values, result.value), result.rest)
    BY <1>4, <2>3
  <2>5. Reads(R, C, Tail(rest), result)
    BY <2>2
  <2> HIDE DEF result, at
  <2>14. result # Failed
    BY <2>4 DEF Failed
  <2>15. PICK value : \E piece \in Seq(C), left \in Seq(C) :
           /\ <<value, piece>> \in R /\ result = Parsed(value, left)
           /\ Tail(rest) = Cat(piece, left)
    BY <2>5, <2>14, Zenon DEF Reads
  <2>6. PICK piece \in Seq(C), left \in Seq(C) :
          /\ <<value, piece>> \in R /\ result = Parsed(value, left)
          /\ Tail(rest) = Cat(piece, left)
    BY <2>15
  <2>7. next = Parsed(Append(values, value), left) /\ value \in V
    BY <2>4, <2>6 DEF Parsed
  <2> DEFINE ps == Append(pieces, piece)
             vs == Append(values, value)
  <2>8. Spelled(R, vs, ps) /\ OnlyLast(vs)
    BY <1>1, <2>4, <2>6, <2>7, SpelledAppend, OnlyLastAppend
  <2>9. vs \in Seq(V) /\ vs # <<>>
    <3>1. values \in Seq(V) /\ value \in V
      BY <1>1, <2>7
    <3> QED
      BY <3>1, AppendProperties
  <2>10. ps \in Seq(Seq(C))
    <3> DEFINE T == Seq(C)
    <3>1. pieces \in Seq(T) /\ piece \in T
      BY <1>1, <2>6
    <3> HIDE DEF T
    <3>2. ps \in Seq(T)
      BY <3>1, AppendProperties
    <3> QED
      BY <3>2 DEF T
  <2>11. Slashed(ps) = Cat(Slashed(pieces), Cat(One("/"), piece))
    BY <1>1, <2>6, SlashedAppend DEF Cat, One
  <2> HIDE DEF ps, vs
  <2>12. Cat(One("/"), text) = Cat(Slashed(ps), left)
    <3>1. One("/") \in Seq(C) /\ Slashed(pieces) \in Seq(C)
      BY <1>2, Cats
    <3>3. /\ Cat(One("/"), text) = Cat(Slashed(pieces), rest)
          /\ rest = Cat(One("/"), Cat(piece, left))
          /\ piece \in Seq(C) /\ left \in Seq(C)
      BY <1>1, <2>1, <2>6
    <3>2. rest = Cat(Cat(One("/"), piece), left) /\ Cat(One("/"), piece) \in Seq(C)
      BY <3>1, <3>3, Cats
    <3>4. Cat(Slashed(pieces), rest) = Cat(Cat(Slashed(pieces), Cat(One("/"), piece)), left)
      BY <3>1, <3>2, <3>3, Cats
    <3> QED
      BY <2>11, <3>3, <3>4
  <2>13. SoFar(R, V, C, text, vs, left)
    BY <2>6, <2>8, <2>9, <2>10, <2>12 DEF SoFar
  <2> QED
    BY <2>7, <2>9, <2>13 DEF vs, next
<1>5. CASE next = Failed
  BY <1>5
<1> QED
  BY <1>3, <1>4, <1>5

LEMMA ReadsResult ==
  ASSUME NEW C, NEW V, NEW R \in SUBSET (V \X Seq(C)), NEW text \in Seq(C),
         NEW n, n \in Nat, Len(text) <= n, NEW result, Reads(R, C, text, result)
  PROVE  result \in Results(V, C, n)
<1>1. CASE result = Failed
  BY <1>1, ResultCases
<1>2. CASE result # Failed
  <2>1. PICK value : \E piece \in Seq(C), rest \in Seq(C) :
          /\ <<value, piece>> \in R /\ result = Parsed(value, rest)
          /\ text = Cat(piece, rest)
    BY <1>2, Zenon DEF Reads
  <2>2. PICK piece \in Seq(C), rest \in Seq(C) :
          /\ <<value, piece>> \in R /\ result = Parsed(value, rest)
          /\ text = Cat(piece, rest)
    BY <2>1
  <2>3. value \in V
    BY <2>2
  <2>4. Len(rest) <= n
    <3>1. Len(text) = Len(piece) + Len(rest)
      BY <2>2, ConcatProperties DEF Cat
    <3>2. Len(piece) \in Nat /\ Len(rest) \in Nat
      OBVIOUS
    <3> QED
      BY <3>1, <3>2
  <2>5. Parsed(value, rest) \in Results(V, C, n)
    BY <2>3, <2>4, ResultCases
  <2> QED
    BY <2>2, <2>5
<1> QED
  BY <1>1, <1>2

(* The loop after k turns. *)
Turned(R, V, C, text, k, result) ==
  \/ result = Failed
  \/ \E values, rest :
       /\ result = Parsed(values, rest)
       /\ SoFar(R, V, C, text, values, rest)
       /\ IF k = 0 THEN StartsWith(rest, "/") ELSE values # <<>>

LEMMA TurnedFirst ==
  ASSUME NEW C, "/" \in C, NEW V, NEW R, NEW text \in Seq(C)
  PROVE  Turned(R, V, C, text, 0, Parsed(<<>>, <<"/">> \o text))
<1> DEFINE none == <<>>
           rest == Cat(One("/"), text)
           T == Seq(C)
<1>1. none \in Seq(V) /\ none \in Seq(T) /\ none \in T
  OBVIOUS
<1>2. rest \in T
  BY Cats
<1>3. Spelled(R, none, none) /\ OnlyLast(none)
  BY DEF Spelled, OnlyLast
<1>4. rest = Cat(Slashed(none), rest)
  <2>1. Slashed(none) = <<>>
    BY SlashedEmpty
  <2> HIDE DEF rest
  <2>2. <<>> \o rest = rest
    BY <1>2, ConcatEmptySeq
  <2> QED
    BY <2>1, <2>2 DEF Cat
<1>5. StartsWith(rest, "/")
  BY DEF StartsWith, Cat, One
<1>6. rest = <<"/">> \o text
  BY DEF Cat, One
<1> HIDE DEF none, T
<1>7. SoFar(R, V, C, text, none, rest)
  BY <1>1, <1>2, <1>3, <1>4, Zenon DEF SoFar, T
<1> HIDE DEF rest
<1>8. Turned(R, V, C, text, 0, Parsed(none, rest))
  BY <1>5, <1>7 DEF Turned
<1> QED
  BY <1>6, <1>8 DEF none

LEMMA TurnedNext ==
  ASSUME NEW C, "/" \in C, NEW V, NEW R \in SUBSET (V \X Seq(C)),
         NEW text \in Seq(C),
         NEW parsed, \A i \in 1..(Len(text) + 1) : Reads(R, C, From(text, i), parsed[i]),
         NEW k \in Nat, NEW result, Turned(R, V, C, text, k, result)
  PROVE  Turned(R, V, C, text, k + 1, Turn(result, text, parsed))
<1> DEFINE next == Turn(result, text, parsed)
<1>0. k + 1 # 0
  OBVIOUS
<1>1. CASE result = Failed
  BY <1>1, TurnCases DEF Turned
<1>2. CASE result # Failed
  <2>1. PICK values, rest :
          /\ result = Parsed(values, rest)
          /\ SoFar(R, V, C, text, values, rest)
          /\ IF k = 0 THEN StartsWith(rest, "/") ELSE values # <<>>
    BY <1>2, Zenon DEF Turned
  <2>2. \/ next = Failed
        \/ next = Parsed(values, rest) /\ ~StartsWith(rest, "/")
        \/ \E more, left : /\ more # <<>> /\ next = Parsed(more, left)
                           /\ SoFar(R, V, C, text, more, left)
    BY <2>1, TurnReads
  <2> HIDE DEF next
  <2>3. next = Failed => Turned(R, V, C, text, k + 1, next)
    BY DEF Turned
  <2>4. ASSUME next = Parsed(values, rest), ~StartsWith(rest, "/")
        PROVE  Turned(R, V, C, text, k + 1, next)
    <3>1. values # <<>>
      BY <2>1, <2>4
    <3> QED
      BY <1>0, <2>1, <2>4, <3>1, Zenon DEF Turned
  <2>5. ASSUME NEW more, NEW left, more # <<>>, next = Parsed(more, left),
               SoFar(R, V, C, text, more, left)
        PROVE  Turned(R, V, C, text, k + 1, next)
    BY <1>0, <2>5, Zenon DEF Turned
  <2>6. Turned(R, V, C, text, k + 1, next)
    BY <2>2, <2>3, <2>4, <2>5
  <2> QED
    BY <2>6 DEF next
<1> QED
  BY <1>1, <1>2

(* The loop when it has ended. *)
ReadsList(R, V, C, text, result) ==
  \/ result = Failed
  \/ \E values \in Seq(V), pieces \in Seq(Seq(C)), rest \in Seq(C) :
       /\ result = Parsed(values, rest)
       /\ values # <<>> /\ Spelled(R, values, pieces) /\ OnlyLast(values)
       /\ text = Cat(Join(pieces, "/"), rest)

LEMMA SegmentsRead ==
  ASSUME NEW C, "/" \in C, NEW V, NEW R \in SUBSET (V \X Seq(C)),
         NEW text \in Seq(C),
         NEW parsed, parsed = [i \in 1..(Len(text) + 1) |-> parsed[i]],
         \A i \in 1..(Len(text) + 1) : Reads(R, C, From(text, i), parsed[i])
  PROVE  ReadsList(R, V, C, text, Segments(text, parsed))
<1> DEFINE n == Len(text) + 1
           S == Results(V, C, Len(text))
           last == Segments(text, parsed)
<1>1. n \in Nat /\ n # 0 /\ Len(text) \in Nat
  OBVIOUS
<1>2. parsed \in [1..n -> S]
  <2>1. ASSUME NEW i \in 1..n PROVE parsed[i] \in S
    <3>1. From(text, i) \in Seq(C) /\ Len(From(text, i)) <= Len(text)
      <4>1. PICK b \in 0..Len(text) : i = b + 1 /\ Len(text) = b + (Len(text) - b)
        <5>1. i - 1 \in 0..Len(text) /\ i = (i - 1) + 1 /\ Len(text) = (i - 1) + (Len(text) - (i - 1))
          BY <1>1
        <5> QED
          BY <5>1
      <4>2. Len(text) - b \in 0..(Len(text) - b)
        BY <1>1
      <4>3. /\ SubSeq(text, b + 1, b + (Len(text) - b)) \in Seq(C)
            /\ Len(SubSeq(text, b + 1, b + (Len(text) - b))) = Len(text) - b
        BY <4>2, Slice
      <4>4. From(text, i) = SubSeq(text, b + 1, b + (Len(text) - b))
        BY <4>1 DEF From
      <4> QED
        BY <1>1, <4>3, <4>4
    <3>2. Reads(R, C, From(text, i), parsed[i])
      OBVIOUS
    <3> QED
      BY <1>1, <3>1, <3>2, ReadsResult
  <2> HIDE DEF S, n
  <2> QED
    BY <2>1 DEF n
<1>3. PICK f \in [0..n -> Results(Seq(V), C, n)] : IsLoop(f, text, parsed) /\ last = f[n]
  BY <1>2, LoopDef, Zenon
<1> HIDE DEF S, last
<1> DEFINE D == {k \in 0..n : Turned(R, V, C, text, k, f[k])}
<1>4. 0 \in D
  BY <1>1, <1>3, TurnedFirst DEF IsLoop
<1>5. ASSUME NEW k \in 0..(n - 1), k \in D PROVE k + 1 \in D
  <2>1. k + 1 \in 1..n /\ k + 1 \in 0..n /\ (k + 1) - 1 = k /\ k \in Nat
    BY <1>1
  <2>2. f[k + 1] = Turn(f[k], text, parsed)
    BY <1>3, <2>1 DEF IsLoop
  <2>3. Turned(R, V, C, text, k, f[k])
    BY <1>5
  <2>4. Turned(R, V, C, text, k + 1, Turn(f[k], text, parsed))
    BY <2>1, <2>3, TurnedNext
  <2> QED
    BY <2>1, <2>2, <2>4
<1>6. n \in D
  <2> HIDE DEF D, n
  <2>1. \A k \in 0..n : k \in D
    BY <1>1, <1>4, <1>5, UpInduction
  <2> QED
    BY <1>1, <2>1
<1>7. Turned(R, V, C, text, n, last)
  BY <1>3, <1>6
<1>8. ASSUME last # Failed
      PROVE  \E values \in Seq(V), pieces \in Seq(Seq(C)), rest \in Seq(C) :
              /\ last = Parsed(values, rest)
              /\ values # <<>> /\ Spelled(R, values, pieces) /\ OnlyLast(values)
              /\ text = Cat(Join(pieces, "/"), rest)
  <2> HIDE DEF n
  <2>1. PICK values, rest :
          /\ last = Parsed(values, rest) /\ values # <<>>
          /\ SoFar(R, V, C, text, values, rest)
    BY <1>1, <1>7, <1>8, Zenon DEF Turned
  <2>2. PICK pieces \in Seq(Seq(C)) :
          /\ values \in Seq(V) /\ rest \in Seq(C)
          /\ Spelled(R, values, pieces) /\ OnlyLast(values)
          /\ Cat(One("/"), text) = Cat(Slashed(pieces), rest)
    BY <2>1 DEF SoFar
  <2>3. pieces # <<>>
    <3>1. Len(values) # 0 /\ Len(pieces) = Len(values)
      BY <2>1, <2>2 DEF Spelled
    <3> QED
      BY <3>1
  <2>4. text = Cat(Join(pieces, "/"), rest)
    BY <2>2, <2>3, Joined
  <2> QED
    BY <2>1, <2>2, <2>4, Zenon
<1> QED
  BY <1>8, Zenon DEF last, ReadsList

Delimiters == {"/", "*", "{", "}", "=", ":", "."}

LEMMA Delimiting ==
  ASSUME NEW C, Delimiters \subseteq C
  PROVE  \A c \in Delimiters : c \in C /\ One(c) \in Seq(C)
BY DEF One

LEMMA Delimited ==
  ASSUME NEW C, Delimiters \subseteq C
  PROVE  /\ "/" \in C /\ "*" \in C /\ "{" \in C /\ "}" \in C /\ "=" \in C
         /\ ":" \in C /\ "." \in C
         /\ One("/") \in Seq(C) /\ One("{") \in Seq(C) /\ One("}") \in Seq(C)
         /\ One("=") \in Seq(C) /\ One(":") \in Seq(C)
<1>1. /\ "/" \in Delimiters /\ "*" \in Delimiters /\ "{" \in Delimiters /\ "}" \in Delimiters
      /\ "=" \in Delimiters /\ ":" \in Delimiters /\ "." \in Delimiters
  BY DEF Delimiters
<1> QED
  BY <1>1, Delimiting

(***************************************************************************)
(* Slots: literals, `*` and `**`.                                          *)
(***************************************************************************)
LitTexts(C) == {l \in Seq(C) : l # <<>> /\ ToSet(l) \cap {"/", "*", "{", "}", "="} = {}}

Slots(C) == {Lit(l) : l \in LitTexts(C)} \cup {Single, CatchAll}
SlotReading(C) == {pair \in Slots(C) \X Seq(C) : pair[2] = SlotText(pair[1])}

LEMMA SlotReadings ==
  ASSUME NEW C
  PROVE  /\ SlotReading(C) \in SUBSET (Slots(C) \X Seq(C))
         /\ \A l \in LitTexts(C) : <<Lit(l), l>> \in SlotReading(C)
         /\ "*" \in C => <<Single, One("*")>> \in SlotReading(C)
         /\ "*" \in C => <<CatchAll, <<"*", "*">>>> \in SlotReading(C)
<1>1. \A l \in LitTexts(C) : SlotText(Lit(l)) = l /\ Lit(l) \in Slots(C) /\ l \in Seq(C)
  BY DEF SlotText, Lit, Slots, LitTexts
<1>2. SlotText(Single) = <<"*">> /\ SlotText(CatchAll) = <<"*", "*">>
  BY DEF SlotText, Single, CatchAll
<1>3. Single \in Slots(C) /\ CatchAll \in Slots(C)
  BY DEF Slots
<1> DEFINE T == Seq(C)
           star == <<"*">>
           stars == <<"*", "*">>
<1>4. "*" \in C => star \in T /\ stars \in T
  OBVIOUS
<1>5. \A v \in Slots(C), p \in T : p = SlotText(v) => <<v, p>> \in SlotReading(C)
  BY DEF SlotReading
<1> HIDE DEF T, star, stars
<1>6. "*" \in C => <<Single, star>> \in SlotReading(C) /\ <<CatchAll, stars>> \in SlotReading(C)
  BY <1>2, <1>3, <1>4, <1>5 DEF star, stars
<1>7. \A l \in LitTexts(C) : <<Lit(l), l>> \in SlotReading(C)
  BY <1>1, <1>5 DEF T
<1>8. SlotReading(C) \in SUBSET (Slots(C) \X Seq(C))
  BY DEF SlotReading
<1> QED
  BY <1>6, <1>7, <1>8 DEF One, star, stars

LEMMA ReadsAs ==
  ASSUME NEW R, NEW C, NEW text, NEW value, NEW piece \in Seq(C), NEW rest \in Seq(C),
         <<value, piece>> \in R, text = Cat(piece, rest)
  PROVE  Reads(R, C, text, Parsed(value, rest))
BY Zenon DEF Reads

LEMMA LiteralReads ==
  ASSUME NEW C, NEW text \in Seq(C)
  PROVE  Reads(SlotReading(C), C, text, parse_literal(text))
<1> DEFINE end == PrefixBefore(text, {"/", "{", "}", "="})
           lit == UpTo(text, end)
           rest == From(text, end + 1)
<1>1. end \in 0..Len(text) /\ lit \in Seq(C \ {"/", "{", "}", "="})
  BY PrefixCuts
<1>2. lit \in Seq(C) /\ rest \in Seq(C) /\ text = Cat(lit, rest)
  BY <1>1, Cut
<1>3. parse_literal(text) = IF lit = <<>> \/ Contains(lit, "*") THEN Failed
                            ELSE Parsed(Lit(lit), rest)
  BY DEF parse_literal
<1> HIDE DEF lit, rest, end
<1>4. CASE lit = <<>> \/ Contains(lit, "*")
  BY <1>3, <1>4 DEF Reads
<1>5. CASE lit # <<>> /\ ~Contains(lit, "*")
  <2>1. lit \in LitTexts(C)
    <3>1. \A i \in 1..Len(lit) : lit[i] \notin {"/", "{", "}", "="}
      <4>1. ASSUME NEW D, NEW l \in Seq(C \ D) PROVE \A i \in 1..Len(l) : l[i] \notin D
        OBVIOUS
      <4> QED
        BY <1>1, <4>1
    <3>2. \A i \in 1..Len(lit) : lit[i] # "*"
      BY <1>5 DEF Contains
    <3>3. DOMAIN lit = 1..Len(lit)
      BY <1>2
    <3>4. ToSet(lit) \cap {"/", "*", "{", "}", "="} = {}
      BY <3>1, <3>2, <3>3 DEF ToSet
    <3> QED
      BY <1>2, <1>5, <3>4 DEF LitTexts
  <2>2. Reads(SlotReading(C), C, text, Parsed(Lit(lit), rest))
    BY <1>2, <2>1, SlotReadings, ReadsAs
  <2> QED
    BY <1>3, <1>5, <2>2
<1> QED
  BY <1>4, <1>5

LEMMA SubSegmentReads ==
  ASSUME NEW C, "*" \in C, NEW text \in Seq(C)
  PROVE  Reads(SlotReading(C), C, text, parse_sub_segment(text))
<1> DEFINE result == parse_sub_segment(text)
           stars == <<"*", "*">>
<1>1. CASE IsPrefix(stars, text)
  <2>1. Len(text) \in Nat /\ 2 <= Len(text) /\ stars = UpTo(text, 2) /\ stars \in Seq(C)
    <3>1. stars \in Seq(C) /\ Len(stars) = 2
      OBVIOUS
    <3> HIDE DEF stars
    <3>2. SubSeq(stars, 1, 2) = stars
      BY <3>1, SubSeqFull
    <3> QED
      BY <1>1, <3>1, <3>2 DEF IsPrefix, UpTo
  <2>2. result = Parsed(CatchAll, From(text, 3))
    BY <1>1 DEF parse_sub_segment
  <2>3. 2 \in 0..Len(text) /\ 2 + 1 = 3
    BY <2>1
  <2>4. text = Cat(UpTo(text, 2), From(text, 3)) /\ From(text, 3) \in Seq(C)
    BY <2>3, Cut
  <2>5. <<CatchAll, stars>> \in SlotReading(C)
    BY SlotReadings
  <2> HIDE DEF stars, result
  <2>6. Reads(SlotReading(C), C, text, Parsed(CatchAll, From(text, 3)))
    BY <2>1, <2>4, <2>5, ReadsAs
  <2> QED
    BY <2>2, <2>6 DEF result
<1>2. CASE ~IsPrefix(stars, text) /\ StartsWith(text, "*")
  <2>1. result = Parsed(Single, Tail(text))
    BY <1>2 DEF parse_sub_segment
  <2>2. One("*") \in Seq(C) /\ Tail(text) \in Seq(C) /\ text = Cat(One("*"), Tail(text))
    BY <1>2, OneCut
  <2>3. <<Single, One("*")>> \in SlotReading(C)
    BY SlotReadings
  <2> HIDE DEF result
  <2>4. Reads(SlotReading(C), C, text, Parsed(Single, Tail(text)))
    BY <2>2, <2>3, ReadsAs
  <2> QED
    BY <2>1, <2>4 DEF result
<1>3. CASE /\ ~IsPrefix(stars, text) /\ ~StartsWith(text, "*")
           /\ StartsWith(text, "{")
  BY <1>3 DEF parse_sub_segment, Reads
<1>4. CASE /\ ~IsPrefix(stars, text) /\ ~StartsWith(text, "*")
           /\ ~StartsWith(text, "{")
  BY <1>4, LiteralReads DEF parse_sub_segment
<1> QED
  BY <1>1, <1>2, <1>3, <1>4

(* The sub-patterns of variables. *)
Subs(C) == {sub \in Seq(Slots(C)) : sub # <<>> /\ OnlyLast(sub)}

SlotTexts(sub) == [i \in DOMAIN sub |-> SlotText(sub[i])]

LEMMA SpelledSlots ==
  ASSUME NEW C, NEW sub \in Seq(Slots(C)), NEW pieces \in Seq(Seq(C)),
         Spelled(SlotReading(C), sub, pieces)
  PROVE  SlotTexts(sub) = pieces
<1> DEFINE T == Seq(C)
<1>1. Len(pieces) = Len(sub) /\ \A i \in 1..Len(sub) : <<sub[i], pieces[i]>> \in SlotReading(C)
  BY DEF Spelled
<1>2. \A v, p : <<v, p>> \in SlotReading(C) => p = SlotText(v)
  BY DEF SlotReading
<1>3. DOMAIN sub = 1..Len(sub)
  OBVIOUS
<1>4. pieces = [i \in 1..Len(pieces) |-> pieces[i]]
  <2>1. pieces \in Seq(T)
    OBVIOUS
  <2> HIDE DEF T
  <2> QED
    BY <2>1
<1>5. \A i \in 1..Len(sub) : pieces[i] = SlotText(sub[i])
  BY <1>1, <1>2
<1> QED
  BY <1>1, <1>3, <1>4, <1>5, Zenon DEF SlotTexts

ReadsSub(C, text, result) ==
  \/ result = Failed
  \/ \E sub \in Subs(C), rest \in Seq(C) :
       /\ result = Parsed(sub, rest)
       /\ Join(SlotTexts(sub), "/") \in Seq(C)
       /\ text = Cat(Join(SlotTexts(sub), "/"), rest)

LEMMA SubSegmentsRead ==
  ASSUME NEW C, Delimiters \subseteq C, NEW text \in Seq(C)
  PROVE  ReadsSub(C, text, parse_sub_segments(text))
<1> DEFINE parsed == [i \in 1..(Len(text) + 1) |-> parse_sub_segment(From(text, i))]
           result == Segments(text, parsed)
           R == SlotReading(C)
           V == Slots(C)
<1>1. parse_sub_segments(text) = result
  BY DEF parse_sub_segments
<1>2. \A i \in 1..(Len(text) + 1) : Reads(R, C, From(text, i), parsed[i])
  <2> TAKE i \in 1..(Len(text) + 1)
  <2>1. From(text, i) \in Seq(C)
    BY FromType
  <2>2. Reads(R, C, From(text, i), parse_sub_segment(From(text, i)))
    BY <2>1, Delimited, SubSegmentReads
  <2> QED
    BY <2>2
<1>3. parsed = [i \in 1..(Len(text) + 1) |-> parsed[i]]
  OBVIOUS
<1>4. R \in SUBSET (V \X Seq(C))
  BY SlotReadings
<1> HIDE DEF parsed, R, V
<1>5. ReadsList(R, V, C, text, result)
  <2>1. "/" \in C
    BY Delimited
  <2> QED
    BY <1>2, <1>3, <1>4, <2>1, SegmentsRead
<1> HIDE DEF result
<1>6. CASE result # Failed
  <2>1. PICK values \in Seq(V), pieces \in Seq(Seq(C)), rest \in Seq(C) :
           /\ result = Parsed(values, rest)
           /\ values # <<>> /\ Spelled(R, values, pieces) /\ OnlyLast(values)
           /\ text = Cat(Join(pieces, "/"), rest)
    BY <1>5, <1>6, Zenon DEF ReadsList
  <2>2. SlotTexts(values) = pieces
    BY <2>1, SpelledSlots DEF R, V
  <2>3. values \in Subs(C)
    BY <2>1 DEF Subs, V
  <2>4. Join(pieces, "/") \in Seq(C)
    <3>1. pieces # <<>>
      <4>1. Len(values) # 0 /\ Len(pieces) = Len(values)
        BY <2>1 DEF Spelled
      <4> QED
        BY <4>1
    <3>2. pieces \in Parts(C)
      BY <3>1 DEF Parts
    <3>3. "/" \in C
      BY Delimited
    <3> QED
      BY <3>2, <3>3, JoinType
  <2>5. ReadsSub(C, text, result)
    BY <2>1, <2>2, <2>3, <2>4, Zenon DEF ReadsSub
  <2> QED
    BY <1>1, <2>5
<1>7. CASE result = Failed
  BY <1>1, <1>7 DEF ReadsSub
<1> QED
  BY <1>6, <1>7

(***************************************************************************)
(* Field paths.                                                            *)
(***************************************************************************)
Fields(C) == {field \in Parts(C) : ~Contains(field, <<>>)}

ReadsField(C, text, result) ==
  \/ result = Failed
  \/ \E field \in Fields(C), rest \in Seq(C) :
       /\ result = Parsed(field, rest)
       /\ Join(field, ".") \in Seq(C)
       /\ text = Cat(Join(field, "."), rest)

LEMMA FieldPathReads ==
  ASSUME NEW C, Delimiters \subseteq C, NEW text \in Seq(C)
  PROVE  ReadsField(C, text, parse_field_path(text))
<1> DEFINE end == PrefixBefore(text, {"=", "}"})
           raw == UpTo(text, end)
           rest == From(text, end + 1)
           field == split(raw, ".")
           result == parse_field_path(text)
<1>1. end \in 0..Len(text)
  BY PrefixCuts
<1>2. raw \in Seq(C) /\ rest \in Seq(C) /\ text = Cat(raw, rest)
  BY <1>1, Cut
<1>3. result = IF end = Len(text) \/ raw = <<>> \/ Contains(field, <<>>) THEN Failed
               ELSE Parsed(field, rest)
  BY DEF parse_field_path
<1> HIDE DEF end, raw, rest, result
<1>4. field \in Parts(C) /\ Join(field, ".") = raw
  <2>1. "." \in C
    BY Delimited
  <2> QED
    BY <1>2, <2>1, SplitType, JoinSplit
<1> HIDE DEF field
<1>5. result = Failed \/ (field \in Fields(C) /\ result = Parsed(field, rest))
  BY <1>3, <1>4 DEF Fields
<1> QED
  BY <1>2, <1>4, <1>5, Zenon DEF result, ReadsField

(***************************************************************************)
(* Segments: slots and variables.  What stands for `{name=*}` may be       *)
(* written `{name}`.                                                       *)
(***************************************************************************)
Segs(C) == Slots(C) \cup {Var(field, sub) : field \in Fields(C), sub \in Subs(C)}

MayBeBare(segment) == segment.kind = "var" /\ segment.sub = <<Single>>

SegmentReading(C) ==
  {pair \in Segs(C) \X Seq(C) :
     \/ pair[2] = SegmentText(pair[1], FALSE)
     \/ pair[2] = SegmentText(pair[1], TRUE) /\ MayBeBare(pair[1])}

LEMMA SlotIsSegment ==
  ASSUME NEW C, NEW text \in Seq(C), NEW result, Reads(SlotReading(C), C, text, result)
  PROVE  Reads(SegmentReading(C), C, text, result)
<1>1. SlotReading(C) \subseteq SegmentReading(C)
  <2> SUFFICES ASSUME NEW pair \in SlotReading(C) PROVE pair \in SegmentReading(C)
    OBVIOUS
  <2>1. pair \in Slots(C) \X Seq(C) /\ pair[2] = SlotText(pair[1]) /\ pair[1] \in Slots(C)
    BY DEF SlotReading
  <2>2. pair[1].kind # "var"
    BY <2>1 DEF Slots, Lit, Single, CatchAll
  <2>3. pair[2] = SegmentText(pair[1], FALSE)
    BY <2>1, <2>2 DEF SegmentText
  <2>4. pair \in Segs(C) \X Seq(C)
    BY <2>1 DEF Segs
  <2> QED
    BY <2>3, <2>4 DEF SegmentReading
<1> QED
  BY <1>1, Zenon DEF Reads

Open   == One("{")
Close  == One("}")
Equals == One("=")

(* The text of a variable, with and without its sub-pattern. *)
Braced(name, sub) == Cat(Cat(Cat(Open, name), Cat(Equals, sub)), Close)

VarText(field, sub) == Braced(Join(field, "."), Join(SlotTexts(sub), "/"))
BareText(field) == Cat(Cat(Open, Join(field, ".")), Close)

LEMMA VariableTexts ==
  ASSUME NEW C, Delimiters \subseteq C, NEW field, NEW sub, Join(field, ".") \in Seq(C)
  PROVE  /\ SegmentText(Var(field, sub), FALSE) = VarText(field, sub)
         /\ SegmentText(Var(field, sub), TRUE) = BareText(field)
<1> DEFINE v == Var(field, sub)
           name == Cat(Open, Join(field, "."))
<1>1. v.kind = "var" /\ v.field = field /\ v.sub = sub
  BY DEF Var
<1> HIDE DEF v
<1>2. SegmentText(v, FALSE) = VarText(field, sub)
  BY <1>1 DEF SegmentText, VarText, Braced, SlotTexts, Cat, One, Open, Close, Equals
<1>3. SegmentText(v, TRUE) = ((<<"{">> \o Join(field, ".")) \o <<>>) \o <<"}">>
  BY <1>1 DEF SegmentText
<1>4. name = <<"{">> \o Join(field, ".") /\ name \in Seq(C)
  <2>1. name \in Seq(C)
    BY Delimited, Cats DEF Open
  <2> QED
    BY <2>1 DEF Cat, One, Open
<1> HIDE DEF name
<1>5. name \o <<>> = name
  BY <1>4, ConcatEmptySeq
<1>6. SegmentText(v, TRUE) = name \o <<"}">>
  BY <1>3, <1>4, <1>5
<1>7. SegmentText(v, TRUE) = BareText(field)
  BY <1>6 DEF BareText, name, Cat, One, Close
<1> QED
  BY <1>2, <1>7 DEF v

LEMMA VarIsSegment ==
  ASSUME NEW C, NEW field \in Fields(C), NEW sub \in Subs(C)
  PROVE  Var(field, sub) \in Segs(C)
<1>1. Var(field, sub) \in {Var(f, s) : f \in Fields(C), s \in Subs(C)}
  OBVIOUS
<1> QED
  BY <1>1 DEF Segs

LEMMA VariableReadings ==
  ASSUME NEW C, Delimiters \subseteq C, NEW field \in Fields(C), NEW sub \in Subs(C),
         Join(field, ".") \in Seq(C)
  PROVE  /\ Join(SlotTexts(sub), "/") \in Seq(C) =>
              <<Var(field, sub), VarText(field, sub)>> \in SegmentReading(C)
         /\ sub = <<Single>> => <<Var(field, sub), BareText(field)>> \in SegmentReading(C)
<1> DEFINE v == Var(field, sub)
           T == Seq(C)
<1>1. v \in Segs(C)
  BY VarIsSegment
<1>2. BareText(field) \in T
  BY Delimited, Cats DEF BareText, Open, Close
<1>3. Join(SlotTexts(sub), "/") \in T => VarText(field, sub) \in T
  BY Delimited, Cats DEF VarText, Braced, Open, Close, Equals
<1>4. SegmentText(v, FALSE) = VarText(field, sub) /\ SegmentText(v, TRUE) = BareText(field)
  BY VariableTexts
<1>5. sub = <<Single>> => MayBeBare(v)
  BY DEF MayBeBare, Var
<1> HIDE DEF v, T
<1>6. \A p \in T : p = SegmentText(v, FALSE) => <<v, p>> \in SegmentReading(C)
  BY <1>1 DEF SegmentReading, T
<1>7. \A p \in T : p = SegmentText(v, TRUE) /\ MayBeBare(v) => <<v, p>> \in SegmentReading(C)
  BY <1>1 DEF SegmentReading, T
<1> QED
  BY <1>2, <1>3, <1>4, <1>5, <1>6, <1>7 DEF v, T

LEMMA BareParts ==
  ASSUME NEW C, Delimiters \subseteq C, NEW field, Join(field, ".") \in Seq(C),
         NEW left \in Seq(C)
  PROVE  Cat(Open, Cat(Join(field, "."), Cat(Close, left))) = Cat(BareText(field), left)
<1> DEFINE a == Open
           n == Join(field, ".")
           z == Close
           T == Seq(C)
<1>1. a \in T /\ n \in T /\ z \in T /\ left \in T
  BY Delimited DEF Open, Close
<1>2. \A x, y \in T : Cat(x, y) \in T
  BY Cats
<1>3. \A x, y, t \in T : Cat(Cat(x, y), t) = Cat(x, Cat(y, t))
  BY Cats
<1> HIDE DEF a, n, z, T
<1>4. Cat(a, Cat(n, Cat(z, left))) = Cat(Cat(a, n), Cat(z, left))
  BY <1>1, <1>2, <1>3
<1>5. Cat(Cat(a, n), Cat(z, left)) = Cat(Cat(Cat(a, n), z), left)
  BY <1>1, <1>2, <1>3
<1> QED
  BY <1>4, <1>5 DEF BareText, a, n, z

LEMMA VarParts ==
  ASSUME NEW C, Delimiters \subseteq C, NEW n \in Seq(C), NEW s \in Seq(C), NEW left \in Seq(C)
  PROVE  Cat(Open, Cat(n, Cat(Equals, Cat(s, Cat(Close, left)))))
           = Cat(Braced(n, s), left)
<1> DEFINE a == Open
           e == Equals
           z == Close
           T == Seq(C)
           an == Cat(a, n)
           es == Cat(e, s)
           ze == Cat(z, left)
<1>1. a \in T /\ n \in T /\ e \in T /\ s \in T /\ z \in T /\ left \in T
  BY Delimited DEF Open, Close, Equals
<1>2. \A x, y \in T : Cat(x, y) \in T
  BY Cats
<1>3. \A x, y, t \in T : Cat(Cat(x, y), t) = Cat(x, Cat(y, t))
  BY Cats
<1> HIDE DEF a, e, z, T
<1>4. an \in T /\ es \in T /\ ze \in T
  BY <1>1, <1>2
<1>5. Cat(e, Cat(s, ze)) = Cat(es, ze)
  BY <1>1, <1>3, <1>4
<1> HIDE DEF ze
<1>6. Cat(a, Cat(n, Cat(es, ze))) = Cat(an, Cat(es, ze))
  <2>1. Cat(es, ze) \in T
    BY <1>2, <1>4
  <2> HIDE DEF es
  <2> QED
    BY <1>1, <1>3, <2>1
<1> HIDE DEF an, es
<1>7. Cat(an, Cat(es, ze)) = Cat(Cat(an, es), ze) /\ Cat(an, es) \in T
  BY <1>2, <1>3, <1>4
<1>8. Cat(Cat(an, es), Cat(z, left)) = Cat(Cat(Cat(an, es), z), left)
  BY <1>1, <1>3, <1>7
<1>9. Cat(a, Cat(n, Cat(e, Cat(s, ze)))) = Cat(Cat(Cat(an, es), z), left)
  BY <1>5, <1>6, <1>7, <1>8 DEF ze
<1> QED
  BY <1>9 DEF Braced, a, e, z, an, es, ze

(* The sub-pattern of a variable, and what is left behind it. *)
SubPart(rest) ==
  IF StartsWith(rest, "=") THEN parse_sub_segments(Tail(rest)) ELSE Parsed(<<Single>>, rest)

LEMMA VariableCases ==
  ASSUME NEW text
  PROVE  /\ parse_field_path(Tail(text)) = Failed => parse_variable(text) = Failed
         /\ \A field, rest :
              parse_field_path(Tail(text)) = Parsed(field, rest) =>
              /\ SubPart(rest) = Failed => parse_variable(text) = Failed
              /\ \A sub, left :
                   SubPart(rest) = Parsed(sub, left) =>
                   \/ parse_variable(text) = Failed
                   \/ /\ StartsWith(left, "}")
                      /\ parse_variable(text) = Parsed(Var(field, sub), Tail(left))
<1>1. \A a, b : Parsed(a, b).ok /\ Parsed(a, b).value = a /\ Parsed(a, b).rest = b
  BY DEF Parsed
<1>2. ~Failed.ok
  BY DEF Failed
<1> HIDE DEF Failed, Parsed
<1> DEFINE name == parse_field_path(Tail(text))
           result == parse_variable(text)
<1>3. result =
        IF name.ok
        THEN IF SubPart(name.rest).ok
             THEN IF \/ ~StartsWith(SubPart(name.rest).rest, "}")
                     \/ \E i \in 1..(Len(SubPart(name.rest).value) - 1) :
                          SubPart(name.rest).value[i] = CatchAll
                  THEN Failed
                  ELSE Parsed(Var(name.value, SubPart(name.rest).value),
                              Tail(SubPart(name.rest).rest))
             ELSE Failed
        ELSE Failed
  BY Zenon DEF parse_variable, SubPart, Then
<1> HIDE DEF name, result
<1>4. name = Failed => result = Failed
  BY <1>2, <1>3
<1>5. ASSUME NEW field, NEW rest, name = Parsed(field, rest)
      PROVE  /\ SubPart(rest) = Failed => result = Failed
             /\ \A sub, left :
                  SubPart(rest) = Parsed(sub, left) =>
                  \/ result = Failed
                  \/ /\ StartsWith(left, "}")
                     /\ result = Parsed(Var(field, sub), Tail(left))
  <2>1. name.ok /\ name.value = field /\ name.rest = rest
    BY <1>1, <1>5
  <2>2. SubPart(rest) = Failed => result = Failed
    BY <1>2, <1>3, <2>1
  <2>3. ASSUME NEW sub, NEW left, SubPart(rest) = Parsed(sub, left), result # Failed
        PROVE  StartsWith(left, "}") /\ result = Parsed(Var(field, sub), Tail(left))
    <3>1. /\ SubPart(rest).ok /\ SubPart(rest).value = sub /\ SubPart(rest).rest = left
      BY <1>1, <2>3
    <3>2. result = IF \/ ~StartsWith(left, "}")
                      \/ \E i \in 1..(Len(sub) - 1) : sub[i] = CatchAll
                   THEN Failed
                   ELSE Parsed(Var(field, sub), Tail(left))
      BY <1>3, <2>1, <3>1, Zenon
    <3> QED
      BY <2>3, <3>2
  <2> QED
    BY <2>2, <2>3
<1> QED
  BY <1>4, <1>5 DEF name, result

LEMMA SubPartReads ==
  ASSUME NEW C, Delimiters \subseteq C, NEW rest \in Seq(C)
  PROVE  \/ SubPart(rest) = Failed
         \/ \E sub \in Subs(C), left \in Seq(C) :
              /\ SubPart(rest) = Parsed(sub, left)
              /\ \/ sub = <<Single>> /\ rest = left
                 \/ /\ Join(SlotTexts(sub), "/") \in Seq(C)
                    /\ rest = Cat(Equals, Cat(Join(SlotTexts(sub), "/"), left))
<1>1. CASE ~StartsWith(rest, "=")
  <2> DEFINE sub == <<Single>>
  <2>1. SubPart(rest) = Parsed(sub, rest)
    BY <1>1 DEF SubPart
  <2>2. sub \in Subs(C)
    <3>1. Single \in Slots(C)
      BY DEF Slots
    <3> HIDE DEF Single
    <3>2. sub \in Seq(Slots(C)) /\ sub # <<>> /\ Len(sub) = 1
      BY <3>1
    <3> HIDE DEF sub
    <3>3. OnlyLast(sub)
      BY <3>2 DEF OnlyLast
    <3> QED
      BY <3>2, <3>3 DEF Subs
  <2> QED
    BY <2>1, <2>2
<1>2. CASE StartsWith(rest, "=")
  <2>1. SubPart(rest) = parse_sub_segments(Tail(rest))
    BY <1>2 DEF SubPart
  <2>2. Tail(rest) \in Seq(C) /\ rest = Cat(Equals, Tail(rest))
    BY <1>2, OneCut DEF Open, Close, Equals
  <2>3. ReadsSub(C, Tail(rest), parse_sub_segments(Tail(rest)))
    BY <2>2, SubSegmentsRead
  <2> QED
    BY <2>1, <2>2, <2>3, Zenon DEF ReadsSub
<1> QED
  BY <1>1, <1>2

LEMMA BracedReads ==
  ASSUME NEW C, Delimiters \subseteq C, NEW field \in Fields(C), NEW sub \in Subs(C),
         NEW name \in Seq(C), name = Join(field, "."),
         NEW inner \in Seq(C), inner = Join(SlotTexts(sub), "/"),
         NEW left \in Seq(C), NEW text,
         text = Cat(Open, Cat(name, Cat(Equals, Cat(inner, Cat(Close, left)))))
  PROVE  Reads(SegmentReading(C), C, text, Parsed(Var(field, sub), left))
<1>1. <<Var(field, sub), VarText(field, sub)>> \in SegmentReading(C)
  BY VariableReadings
<1>2. text = Cat(Braced(name, inner), left)
  BY VarParts
<1>3. VarText(field, sub) = Braced(name, inner)
  BY DEF VarText
<1>4. Braced(name, inner) \in Seq(C)
  BY Delimited, Cats DEF Braced, Open, Close, Equals
<1> QED
  BY <1>1, <1>2, <1>3, <1>4, ReadsAs

LEMMA VariableReads ==
  ASSUME NEW C, Delimiters \subseteq C, NEW text \in Seq(C), StartsWith(text, "{")
  PROVE  Reads(SegmentReading(C), C, text, parse_variable(text))
<1> DEFINE result == parse_variable(text)
<1>1. Tail(text) \in Seq(C) /\ text = Cat(Open, Tail(text))
  BY OneCut DEF Open, Close, Equals
<1>2. ReadsField(C, Tail(text), parse_field_path(Tail(text)))
  BY <1>1, FieldPathReads
<1>3. CASE result = Failed
  BY <1>3 DEF Reads
<1>4. CASE result # Failed
  <2>1. PICK field \in Fields(C), rest \in Seq(C) :
           /\ parse_field_path(Tail(text)) = Parsed(field, rest)
           /\ Join(field, ".") \in Seq(C)
           /\ Tail(text) = Cat(Join(field, "."), rest)
    BY <1>2, <1>4, VariableCases, Zenon DEF ReadsField
  <2>2. SubPart(rest) # Failed
    BY <1>4, <2>1, VariableCases
  <2>3. PICK sub \in Subs(C), left \in Seq(C) :
              /\ SubPart(rest) = Parsed(sub, left)
              /\ \/ sub = <<Single>> /\ rest = left
                 \/ /\ Join(SlotTexts(sub), "/") \in Seq(C)
                    /\ rest = Cat(Equals, Cat(Join(SlotTexts(sub), "/"), left))
    BY <2>2, SubPartReads
  <2>4. StartsWith(left, "}") /\ result = Parsed(Var(field, sub), Tail(left))
    BY <1>4, <2>1, <2>3, VariableCases
  <2> DEFINE end == Tail(left)
  <2>5. end \in Seq(C) /\ left = Cat(Close, end)
    BY <2>4, OneCut DEF Open, Close, Equals
  <2> HIDE DEF end, result
  <2>6. CASE sub = <<Single>> /\ rest = left
    <3>1. <<Var(field, sub), BareText(field)>> \in SegmentReading(C)
      BY <2>1, <2>6, VariableReadings
    <3>5. text = Cat(Open, Cat(Join(field, "."), Cat(Close, end)))
      BY <1>1, <2>1, <2>5, <2>6
    <3>2. text = Cat(BareText(field), end)
      BY <2>1, <2>5, <3>5, BareParts, Zenon
    <3>3. BareText(field) \in Seq(C)
      BY <2>1, Delimited, Cats DEF BareText, Open, Close
    <3>4. Reads(SegmentReading(C), C, text, Parsed(Var(field, sub), end))
      BY <2>5, <3>1, <3>2, <3>3, ReadsAs
    <3> QED
      BY <2>4, <3>4 DEF end, result
  <2>7. CASE /\ Join(SlotTexts(sub), "/") \in Seq(C)
             /\ rest = Cat(Equals, Cat(Join(SlotTexts(sub), "/"), left))
    <3>1. text = Cat(Open, Cat(Join(field, "."),
                   Cat(Equals, Cat(Join(SlotTexts(sub), "/"), Cat(Close, end)))))
      BY <1>1, <2>1, <2>5, <2>7
    <3>4. Reads(SegmentReading(C), C, text, Parsed(Var(field, sub), end))
      BY <2>1, <2>5, <2>7, <3>1, BracedReads
    <3> QED
      BY <2>4, <3>4 DEF end, result
  <2> QED
    BY <2>3, <2>6, <2>7
<1> QED
  BY <1>3, <1>4

LEMMA SegmentReads ==
  ASSUME NEW C, Delimiters \subseteq C, NEW text \in Seq(C)
  PROVE  Reads(SegmentReading(C), C, text, parse_segment(text))
<1>1. CASE StartsWith(text, "{")
  BY <1>1, VariableReads DEF parse_segment
<1>2. CASE ~StartsWith(text, "{")
  <2>1. Reads(SlotReading(C), C, text, parse_sub_segment(text))
    BY Delimited, SubSegmentReads
  <2>2. Reads(SegmentReading(C), C, text, parse_sub_segment(text))
    BY <2>1, SlotIsSegment
  <2> QED
    BY <1>2, <2>2 DEF parse_segment
<1> QED
  BY <1>1, <1>2

LEMMA ParseSegmentsRead ==
  ASSUME NEW C, Delimiters \subseteq C, NEW text \in Seq(C)
  PROVE  ReadsList(SegmentReading(C), Segs(C), C, text, parse_segments(text))
<1> DEFINE parsed == [i \in 1..(Len(text) + 1) |-> parse_segment(From(text, i))]
           R == SegmentReading(C)
           V == Segs(C)
<1>1. parse_segments(text) = Segments(text, parsed)
  BY DEF parse_segments
<1>2. \A i \in 1..(Len(text) + 1) : Reads(R, C, From(text, i), parsed[i])
  <2> TAKE i \in 1..(Len(text) + 1)
  <2>1. From(text, i) \in Seq(C)
    BY FromType
  <2>2. Reads(R, C, From(text, i), parse_segment(From(text, i)))
    BY <2>1, SegmentReads
  <2> QED
    BY <2>2
<1>3. parsed = [i \in 1..(Len(text) + 1) |-> parsed[i]]
  OBVIOUS
<1>4. R \in SUBSET (V \X Seq(C))
  BY DEF SegmentReading
<1> HIDE DEF parsed, R, V
<1>5. "/" \in C
  BY Delimited
<1>6. ReadsList(R, V, C, text, Segments(text, parsed))
  BY <1>2, <1>3, <1>4, <1>5, SegmentsRead
<1> QED
  BY <1>1, <1>6 DEF R, V

(***************************************************************************)
(* The verb.                                                               *)
(***************************************************************************)
LEMMA VerbColon ==
  ASSUME NEW C, NEW text \in Seq(C)
  PROVE  /\ verb_colon(text) \in 0..Len(text)
         /\ verb_colon(text) # 0 => text[verb_colon(text)] = ":"
<1> DEFINE colons == {i \in DOMAIN text : text[i] = ":" /\ Depth(text)[i] = 0}
           n == Len(text)
<1>1. n \in Nat /\ DOMAIN text = 1..n
  OBVIOUS
<1>2. colons \subseteq 1..n /\ \A i \in colons : text[i] = ":"
  BY <1>1
<1>3. verb_colon(text) = IF colons = {} THEN 0 ELSE CHOOSE i \in colons : \A j \in colons : j <= i
  BY DEF verb_colon
<1> HIDE DEF colons, n
<1>4. CASE colons = {}
  BY <1>1, <1>3, <1>4 DEF n
<1>5. CASE colons # {}
  <2>1. \E i \in colons : \A j \in colons : j <= i
    BY <1>1, <1>2, <1>5, UpperMost
  <2>2. (CHOOSE k \in colons : \A j \in colons : j <= k) \in colons
    BY <2>1, Zenon
  <2>3. verb_colon(text) \in colons
    BY <1>3, <1>5, <2>2
  <2> QED
    <3>1. verb_colon(text) \in 1..n /\ text[verb_colon(text)] = ":"
      BY <1>2, <2>3
    <3>2. \A k \in 1..n : k \in 0..n
      BY <1>1
    <3> QED
      BY <3>1, <3>2 DEF n
<1> QED
  BY <1>4, <1>5

LEMMA CutAtColon ==
  ASSUME NEW C, NEW text \in Seq(C), StartsWith(text, "/"),
         NEW i \in 1..Len(text), text[i] = ":"
  PROVE  /\ UpTo(text, i - 1) \in Seq(C) /\ From(text, i + 1) \in Seq(C)
         /\ StartsWith(UpTo(text, i - 1), "/")
         /\ text = Cat(UpTo(text, i - 1), Cat(One(":"), From(text, i + 1)))
<1> DEFINE n == Len(text)
           path == UpTo(text, i - 1)
           tail == From(text, i)
           verb == From(text, i + 1)
<1>1. n \in Nat /\ text # <<>> /\ text[1] = "/"
  BY DEF StartsWith
<1>2. i # 1 /\ i - 1 \in 0..n /\ i \in 0..n /\ (i - 1) + 1 = i /\ 1 \in 1..(i - 1)
  BY <1>1
<1>3. /\ path \in Seq(C) /\ Len(path) = i - 1 /\ \A j \in 1..(i - 1) : path[j] = text[j]
      /\ tail \in Seq(C) /\ Len(tail) = n - (i - 1)
      /\ \A j \in 1..(n - (i - 1)) : tail[j] = text[(i - 1) + j]
      /\ text = Cat(path, tail)
  <2> DEFINE e == i - 1
  <2>1. e \in 0..Len(text) /\ tail = From(text, e + 1)
    BY <1>2
  <2> HIDE DEF e, tail
  <2>2. /\ UpTo(text, e) \in Seq(C) /\ Len(UpTo(text, e)) = e
        /\ \A j \in 1..e : UpTo(text, e)[j] = text[j]
        /\ From(text, e + 1) \in Seq(C) /\ Len(From(text, e + 1)) = Len(text) - e
        /\ \A j \in 1..(Len(text) - e) : From(text, e + 1)[j] = text[e + j]
        /\ text = Cat(UpTo(text, e), From(text, e + 1))
    BY <2>1, Cut
  <2> QED
    BY <2>1, <2>2, Zenon DEF e
<1>4. verb \in Seq(C) /\ Len(verb) = n - i /\ \A j \in 1..(n - i) : verb[j] = text[i + j]
  BY <1>2, Cut
<1> HIDE DEF path, tail, verb, n
<1>5. StartsWith(path, "/")
  <2>1. path[1] = "/" /\ Len(path) # 0
    BY <1>1, <1>2, <1>3
  <2> QED
    BY <1>3, <2>1 DEF StartsWith
<1>6. tail = Cat(One(":"), verb)
  <2>1. tail # <<>> /\ tail[1] = ":" /\ i \in 1..n
    <3>1. i \in 1..n
      BY DEF n
    <3>2. 1 \in 1..(n - (i - 1)) /\ (i - 1) + 1 = i
      BY <1>1, <3>1
    <3>3. tail[1] = text[i] /\ Len(tail) # 0
      BY <1>3, <3>2
    <3> QED
      BY <3>1, <3>3
  <2>2. Tail(tail) \in Seq(C) /\ Len(Tail(tail)) = n - i
        /\ \A j \in 1..(n - i) : Tail(tail)[j] = tail[j + 1]
    <3>1. /\ Tail(tail) \in Seq(C) /\ Len(Tail(tail)) = Len(tail) - 1
          /\ \A j \in 1..Len(Tail(tail)) : Tail(tail)[j] = tail[j + 1]
      BY <1>3, <2>1, HeadTailProperties
    <3>2. Len(tail) - 1 = n - i
      BY <1>1, <1>3, <2>1
    <3> QED
      BY <3>1, <3>2
  <2> DEFINE u == Tail(tail)
  <2> HIDE DEF u
  <2>3. ASSUME NEW j \in 1..(n - i) PROVE u[j] = verb[j]
    <3>1. j + 1 \in 1..(n - (i - 1)) /\ (i - 1) + (j + 1) = i + j
      BY <1>1, <2>1
    <3>2. tail[j + 1] = text[i + j]
      BY <1>3, <3>1
    <3> QED
      BY <1>4, <2>2, <3>2 DEF u
  <2>4. u = verb
    <3>1. u \in Seq(C) /\ Len(u) = n - i
      BY <2>2 DEF u
    <3> QED
      BY <1>4, <2>3, <3>1, SeqEqual
  <2>5. StartsWith(tail, ":")
    BY <1>3, <2>1 DEF StartsWith
  <2> QED
    BY <1>3, <2>4, <2>5, OneCut DEF u
<1> QED
  BY <1>3, <1>4, <1>5, <1>6 DEF path, verb

ReadsVerb(C, text, result) ==
  \/ result = Failed
  \/ result = Parsed(NoVerb, text)
  \/ \E verb \in Seq(C), path \in Seq(C) :
       /\ result = Parsed(verb, path)
       /\ verb # <<>> /\ ~Contains(verb, "/")
       /\ StartsWith(path, "/")
       /\ text = Cat(path, Cat(One(":"), verb))

LEMMA SplitVerbReads ==
  ASSUME NEW C, NEW text \in Seq(C), StartsWith(text, "/")
  PROVE  ReadsVerb(C, text, split_verb(text))
<1> DEFINE colon == verb_colon(text)
           verb == From(text, colon + 1)
           path == UpTo(text, colon - 1)
           result == split_verb(text)
<1>1. colon \in 0..Len(text) /\ (colon # 0 => text[colon] = ":")
  BY VerbColon
<1>2. result = IF colon = 0 THEN Parsed(NoVerb, text)
               ELSE IF verb = <<>> \/ Contains(verb, "/") THEN Failed
               ELSE Parsed(verb, path)
  BY DEF split_verb
<1>3. CASE colon = 0
  BY <1>2, <1>3 DEF ReadsVerb
<1>4. CASE colon # 0
  <2>1. colon \in 1..Len(text) /\ text[colon] = ":"
    BY <1>1, <1>4
  <2> HIDE DEF colon
  <2>2. /\ path \in Seq(C) /\ verb \in Seq(C) /\ StartsWith(path, "/")
        /\ text = Cat(path, Cat(One(":"), verb))
    BY <2>1, CutAtColon
  <2> HIDE DEF verb, path, result
  <2>3. ReadsVerb(C, text, result)
    BY <1>2, <1>4, <2>2, Zenon DEF ReadsVerb
  <2> QED
    BY <2>3 DEF result
<1> QED
  BY <1>3, <1>4

(***************************************************************************)
(* The whole template.                                                     *)
(***************************************************************************)
LEMMA ParseCases ==
  ASSUME NEW text, StartsWith(text, "/")
  PROVE  /\ split_verb(text) = Failed => parse(text) = Failed
         /\ \A verb, path :
              split_verb(text) = Parsed(verb, path) =>
              /\ parse_segments(Tail(path)) = Failed => parse(text) = Failed
              /\ \A segments, rest :
                   parse_segments(Tail(path)) = Parsed(segments, rest) =>
                   \/ parse(text) = Failed
                   \/ /\ rest = <<>>
                      /\ parse(text) = Parsed([segments |-> segments, verb |-> verb], <<>>)
<1>1. \A a, b : Parsed(a, b).ok /\ Parsed(a, b).value = a /\ Parsed(a, b).rest = b
  BY DEF Parsed
<1>2. ~Failed.ok
  BY DEF Failed
<1> HIDE DEF Failed, Parsed
<1> DEFINE verbed == split_verb(text)
           result == parse(text)
           after == parse_segments(Tail(verbed.rest))
<1>3. result =
        IF verbed.ok
        THEN IF after.ok
             THEN IF after.rest # <<>> THEN Failed
                  ELSE Parsed([segments |-> after.value, verb |-> verbed.value], <<>>)
             ELSE Failed
        ELSE Failed
  BY Zenon DEF parse, Then
<1> HIDE DEF verbed, result, after
<1>4. verbed = Failed => result = Failed
  BY <1>2, <1>3
<1>5. ASSUME NEW verb, NEW path, verbed = Parsed(verb, path)
      PROVE  /\ parse_segments(Tail(path)) = Failed => result = Failed
             /\ \A segments, rest :
                  parse_segments(Tail(path)) = Parsed(segments, rest) =>
                  \/ result = Failed
                  \/ /\ rest = <<>>
                     /\ result = Parsed([segments |-> segments, verb |-> verb], <<>>)
  <2>1. verbed.ok /\ verbed.value = verb /\ verbed.rest = path
    BY <1>1, <1>5
  <2>2. after = parse_segments(Tail(path))
    BY <2>1 DEF after
  <2>3. after = Failed => result = Failed
    BY <1>2, <1>3, <2>1
  <2>4. ASSUME NEW segments, NEW rest, after = Parsed(segments, rest), result # Failed
        PROVE  rest = <<>> /\ result = Parsed([segments |-> segments, verb |-> verb], <<>>)
    <3>1. after.ok /\ after.value = segments /\ after.rest = rest
      BY <1>1, <2>4
    <3> QED
      BY <1>3, <2>1, <2>4, <3>1, Zenon
  <2> QED
    BY <2>2, <2>3, <2>4
<1> QED
  BY <1>4, <1>5 DEF verbed, result

(* What a template that was parsed is made of. *)
Composed(C, text, t) ==
  \E pieces \in Seq(Seq(C)) :
    /\ t = [segments |-> t.segments, verb |-> t.verb]
    /\ t.segments \in Seq(Segs(C)) /\ t.segments # <<>>
    /\ Spelled(SegmentReading(C), t.segments, pieces) /\ OnlyLast(t.segments)
    /\ \/ t.verb = NoVerb /\ text = Cat(One("/"), Join(pieces, "/"))
       \/ /\ t.verb \in Seq(C) /\ t.verb # <<>> /\ ~Contains(t.verb, "/")
          /\ text = Cat(Cat(One("/"), Join(pieces, "/")), Cat(One(":"), t.verb))

LEMMA PathComposed ==
  ASSUME NEW C, Delimiters \subseteq C, NEW path \in Seq(C), StartsWith(path, "/"),
         NEW segments, parse_segments(Tail(path)) = Parsed(segments, <<>>)
  PROVE  \E pieces \in Seq(Seq(C)) :
           /\ segments \in Seq(Segs(C)) /\ segments # <<>>
           /\ Spelled(SegmentReading(C), segments, pieces) /\ OnlyLast(segments)
           /\ path = Cat(One("/"), Join(pieces, "/"))
<1> DEFINE result == parse_segments(Tail(path))
<1>1. Tail(path) \in Seq(C) /\ path = Cat(One("/"), Tail(path))
  BY OneCut
<1>2. ReadsList(SegmentReading(C), Segs(C), C, Tail(path), result)
  BY <1>1, ParseSegmentsRead
<1>3. result # Failed
  BY DEF Parsed, Failed
<1>4. result = Parsed(segments, <<>>)
  OBVIOUS
<1> HIDE DEF result
<1>5. PICK values \in Seq(Segs(C)), pieces \in Seq(Seq(C)), rest \in Seq(C) :
        /\ result = Parsed(values, rest)
        /\ values # <<>> /\ Spelled(SegmentReading(C), values, pieces) /\ OnlyLast(values)
        /\ Tail(path) = Cat(Join(pieces, "/"), rest)
  BY <1>2, <1>3, Zenon DEF ReadsList
<1>6. values = segments /\ rest = <<>>
  BY <1>4, <1>5 DEF Parsed
<1>7. Join(pieces, "/") \in Seq(C)
  <2>1. pieces # <<>>
    <3>1. Len(values) # 0 /\ Len(pieces) = Len(values)
      BY <1>5 DEF Spelled
    <3> QED
      BY <3>1
  <2>2. pieces \in Parts(C)
    BY <2>1 DEF Parts
  <2>3. "/" \in C
    BY Delimited
  <2> QED
    BY <2>2, <2>3, JoinType
<1>8. Tail(path) = Join(pieces, "/")
  <2>1. Join(pieces, "/") \o <<>> = Join(pieces, "/")
    BY <1>7, ConcatEmptySeq
  <2> QED
    BY <1>5, <1>6, <2>1 DEF Cat
<1>9. path = Cat(One("/"), Join(pieces, "/"))
  BY <1>1, <1>8
<1> QED
  BY <1>5, <1>6, <1>9

LEMMA ParseComposed ==
  ASSUME NEW C, Delimiters \subseteq C, NEW text \in Seq(C), parse(text).ok
  PROVE  /\ parse(text) = Parsed(parse(text).value, <<>>)
         /\ Composed(C, text, parse(text).value)
<1> DEFINE result == parse(text)
           t == result.value
<1>1. result # Failed
  BY DEF Failed
<1>2. StartsWith(text, "/")
  BY <1>1 DEF parse
<1>3. ReadsVerb(C, text, split_verb(text))
  BY <1>2, SplitVerbReads
<1>4. split_verb(text) # Failed
  BY <1>1, <1>2, ParseCases
<1>5. \E verb, path :
        /\ split_verb(text) = Parsed(verb, path)
        /\ path \in Seq(C) /\ StartsWith(path, "/")
        /\ \/ verb = NoVerb /\ path = text
           \/ /\ verb \in Seq(C) /\ verb # <<>> /\ ~Contains(verb, "/")
              /\ text = Cat(path, Cat(One(":"), verb))
  BY <1>2, <1>3, <1>4, Zenon DEF ReadsVerb
<1>6. PICK verb, path :
        /\ split_verb(text) = Parsed(verb, path)
        /\ path \in Seq(C) /\ StartsWith(path, "/")
        /\ \/ verb = NoVerb /\ path = text
           \/ /\ verb \in Seq(C) /\ verb # <<>> /\ ~Contains(verb, "/")
              /\ text = Cat(path, Cat(One(":"), verb))
  BY <1>5
<1>7. parse_segments(Tail(path)) # Failed
  BY <1>1, <1>2, <1>6, ParseCases
<1>8. PICK segments, rest : parse_segments(Tail(path)) = Parsed(segments, rest)
  <2>1. Tail(path) \in Seq(C)
    BY <1>6, OneCut
  <2>2. ReadsList(SegmentReading(C), Segs(C), C, Tail(path), parse_segments(Tail(path)))
    BY <2>1, ParseSegmentsRead
  <2> QED
    BY <1>7, <2>2, Zenon DEF ReadsList
<1>9. rest = <<>> /\ result = Parsed([segments |-> segments, verb |-> verb], <<>>)
  BY <1>1, <1>2, <1>6, <1>8, ParseCases
<1>10. /\ t = [segments |-> segments, verb |-> verb]
       /\ t.segments = segments /\ t.verb = verb /\ result = Parsed(t, <<>>)
  BY <1>9 DEF Parsed
<1>11. PICK pieces \in Seq(Seq(C)) :
         /\ segments \in Seq(Segs(C)) /\ segments # <<>>
         /\ Spelled(SegmentReading(C), segments, pieces) /\ OnlyLast(segments)
         /\ path = Cat(One("/"), Join(pieces, "/"))
  BY <1>6, <1>8, <1>9, PathComposed
<1> HIDE DEF t, result
<1>12. \/ t.verb = NoVerb /\ text = Cat(One("/"), Join(pieces, "/"))
       \/ /\ t.verb \in Seq(C) /\ t.verb # <<>> /\ ~Contains(t.verb, "/")
          /\ text = Cat(Cat(One("/"), Join(pieces, "/")), Cat(One(":"), t.verb))
  BY <1>6, <1>10, <1>11
<1>13. Composed(C, text, t)
  BY <1>10, <1>11, <1>12, Zenon DEF Composed
<1> QED
  BY <1>10, <1>13 DEF t, result

(***************************************************************************)
(* A template so composed is well-formed, and its text spells it.          *)
(***************************************************************************)
LEMMA SegmentShapes ==
  ASSUME NEW C, NEW s \in Segs(C)
  PROVE  /\ expand(s) \in Subs(C)
         /\ ~is_catch_all(s) => expand(s) \in Seq(Slots(C) \ {CatchAll})
         /\ s.kind = "var" => s.field \in Fields(C)
<1>1. CASE s \in Slots(C)
  <2> DEFINE one == <<s>>
  <2>1. s.kind # "var"
    BY <1>1 DEF Slots, Lit, Single, CatchAll
  <2>2. expand(s) = one
    BY <2>1 DEF expand
  <2>3. one \in Seq(Slots(C)) /\ one # <<>> /\ Len(one) = 1
    BY <1>1
  <2>4. s # CatchAll => one \in Seq(Slots(C) \ {CatchAll})
    BY <1>1
  <2>5. ~is_catch_all(s) => s # CatchAll
    BY DEF is_catch_all
  <2> HIDE DEF one
  <2>6. OnlyLast(one)
    BY <2>3 DEF OnlyLast
  <2>7. one \in Subs(C)
    BY <2>3, <2>6 DEF Subs
  <2> QED
    BY <2>1, <2>2, <2>4, <2>5, <2>7
<1>2. CASE s \notin Slots(C)
  <2>1. PICK field \in Fields(C), sub \in Subs(C) : s = Var(field, sub)
    BY <1>2 DEF Segs
  <2>2. s.kind = "var" /\ s.field = field /\ s.sub = sub
    BY <2>1 DEF Var
  <2>3. expand(s) = sub
    BY <2>2 DEF expand
  <2>4. sub \in Seq(Slots(C))
    BY DEF Subs
  <2>5. ASSUME ~is_catch_all(s) PROVE sub \in Seq(Slots(C) \ {CatchAll})
    <3>1. ~Contains(sub, CatchAll)
      BY <2>2, <2>5 DEF is_catch_all
    <3>2. \A i \in 1..Len(sub) : sub[i] # CatchAll
      BY <3>1 DEF Contains
    <3> QED
      BY <2>4, <3>2
  <2> QED
    BY <2>2, <2>3, <2>5
<1> QED
  BY <1>1, <1>2

LEMMA SlotsOnlyLast ==
  ASSUME NEW C, NEW t, t.segments \in Seq(Segs(C)), t.segments # <<>>, OnlyLast(t.segments)
  PROVE  /\ template_slots(t) # <<>>
         /\ \A i \in 1..(Len(template_slots(t)) - 1) : template_slots(t)[i] # CatchAll
<1> DEFINE values == t.segments
           n == Len(values)
           K == Slots(C) \ {CatchAll}
           S == Slots(C)
           e == [i \in 1..n |-> expand(values[i])]
           front == Begin(e, n - 1)
           f == FlattenSeq(front)
           last == e[n]
           all == template_slots(t)
<1>1. n \in Nat /\ n # 0 /\ DOMAIN values = 1..n /\ \A i \in 1..n : values[i] \in Segs(C)
  OBVIOUS
<1>2. all = FlattenSeq(e)
  BY <1>1 DEF template_slots
<1>3. \A i \in 1..n : e[i] \in Subs(C)
  BY <1>1, SegmentShapes
<1>4. \A i \in 1..(n - 1) : e[i] \in Seq(K)
  <2> TAKE i \in 1..(n - 1)
  <2>1. i \in 1..n /\ ~is_catch_all(values[i])
    BY <1>1 DEF OnlyLast
  <2> QED
    BY <1>1, <2>1, SegmentShapes
<1>5. n \in 1..n /\ n - 1 \in 0..n
  BY <1>1
<1>6. Len(e) = n /\ \A i \in 1..n : e[i] \in Seq(S)
  BY <1>1, <1>3 DEF Subs
<1>7. e = [i \in 1..n |-> e[i]]
  OBVIOUS
<1> HIDE DEF n, e, values, all
<1>8. front \in Seq(Seq(K)) /\ e \in Seq(Seq(S))
  <2> DEFINE T == Seq(S)
             U == Seq(K)
  <2>1. front = [i \in 1..(n - 1) |-> e[i]] /\ n - 1 \in Nat
    BY <1>1 DEF Begin
  <2> HIDE DEF front, T, U
  <2>2. front \in Seq(U)
    BY <1>4, <2>1 DEF U
  <2>3. e \in Seq(T)
    BY <1>1, <1>6, <1>7 DEF T
  <2> QED
    BY <2>2, <2>3 DEF U, T
<1>9. f \in Seq(K)
  <2> HIDE DEF front
  <2> QED
    BY <1>8, FlattenType
<1>10. all = f \o last
  <2>1. FlattenSeq(Begin(e, n)) = FlattenSeq(Begin(e, n - 1)) \o e[n]
    BY <1>5, <1>6, <1>8, FlattenBegin
  <2>2. FlattenSeq(Begin(e, n)) = FlattenSeq(e)
    BY <1>6, <1>8, FlattenBegin
  <2> QED
    BY <1>2, <2>1, <2>2
<1>11. last \in Seq(S) /\ last # <<>> /\ OnlyLast(last)
  BY <1>3, <1>5 DEF Subs
<1> HIDE DEF f, last
<1>12. f \in Seq(S) /\ Len(f) \in Nat /\ \A i \in 1..Len(f) : f[i] # CatchAll
  BY <1>9
<1>13. Len(last) \in Nat /\ Len(last) # 0 /\ \A i \in 1..(Len(last) - 1) : last[i] # CatchAll
  BY <1>11 DEF OnlyLast, is_catch_all
<1> HIDE DEF S, K
<1>14. /\ all \in Seq(S) /\ Len(all) = Len(f) + Len(last)
       /\ \A i \in 1..Len(all) : all[i] = IF i <= Len(f) THEN f[i] ELSE last[i - Len(f)]
  BY <1>10, <1>11, <1>12, ConcatProperties
<1>15. ASSUME NEW i \in 1..(Len(all) - 1) PROVE all[i] # CatchAll
  <2>1. CASE i <= Len(f)
    BY <1>12, <1>13, <1>14, <2>1
  <2>2. CASE ~(i <= Len(f))
    <3>1. i - Len(f) \in 1..(Len(last) - 1) /\ i \in 1..Len(all)
      BY <1>12, <1>13, <1>14, <2>2
    <3> QED
      BY <1>13, <1>14, <2>2, <3>1
  <2> QED
    BY <2>1, <2>2
<1>16. all # <<>>
  BY <1>12, <1>13, <1>14
<1> QED
  BY <1>15, <1>16 DEF all

LEMMA ComposedIsWellFormed ==
  ASSUME NEW C, NEW text, NEW t, Composed(C, text, t)
  PROVE  WellFormedTemplate(t)
<1>1. /\ t.segments \in Seq(Segs(C)) /\ t.segments # <<>> /\ OnlyLast(t.segments)
      /\ t.verb = NoVerb \/ (t.verb # <<>> /\ ~Contains(t.verb, "/"))
  BY Zenon DEF Composed
<1>2. /\ template_slots(t) # <<>>
      /\ \A i \in 1..(Len(template_slots(t)) - 1) : template_slots(t)[i] # CatchAll
  BY <1>1, SlotsOnlyLast
<1>3. \A k \in DOMAIN t.segments : t.segments[k] \in Segs(C)
  BY <1>1
<1>4. ASSUME NEW lit \in Literals(t)
      PROVE  lit.text # <<>> /\ ToSet(lit.text) \cap {"/", "*", "{", "}", "="} = {}
  <2>1. PICK k \in DOMAIN t.segments : lit \in ToSet(expand(t.segments[k]))
    BY DEF Literals
  <2>2. expand(t.segments[k]) \in Seq(Slots(C))
    BY <1>3, SegmentShapes DEF Subs
  <2>3. lit \in Slots(C)
    BY <2>1, <2>2 DEF ToSet
  <2>4. lit.kind = "lit"
    BY DEF Literals
  <2>5. PICK l \in LitTexts(C) : lit = Lit(l)
    BY <2>3, <2>4 DEF Slots, Single, CatchAll
  <2>6. lit.text = l
    BY <2>5 DEF Lit
  <2> QED
    BY <2>6 DEF LitTexts
<1>5. ASSUME NEW k \in DOMAIN t.segments, t.segments[k].kind = "var"
      PROVE  t.segments[k].field # <<>> /\ ~Contains(t.segments[k].field, <<>>)
  <2>1. t.segments[k].field \in Fields(C)
    BY <1>3, <1>5, SegmentShapes
  <2> QED
    BY <2>1 DEF Fields, Parts
<1> QED
  BY <1>1, <1>2, <1>4, <1>5 DEF WellFormedTemplate

LEMMA SugarOrNot ==
  ASSUME NEW segment, NEW k, NEW sugared
  PROVE  /\ k \in sugared => SegmentText(segment, k \in sugared) = SegmentText(segment, TRUE)
         /\ k \notin sugared => SegmentText(segment, k \in sugared) = SegmentText(segment, FALSE)
BY Zenon DEF SegmentText

LEMMA ComposedIsSpelled ==
  ASSUME NEW C, Delimiters \subseteq C, NoVerb \notin Seq(C), NEW text, NEW t,
         Composed(C, text, t)
  PROVE  text \in Spellings(t)
<1>1. PICK pieces \in Seq(Seq(C)) :
        /\ t.segments \in Seq(Segs(C)) /\ t.segments # <<>>
        /\ Spelled(SegmentReading(C), t.segments, pieces)
        /\ \/ t.verb = NoVerb /\ text = Cat(One("/"), Join(pieces, "/"))
           \/ /\ t.verb \in Seq(C) /\ t.verb # <<>> /\ ~Contains(t.verb, "/")
              /\ text = Cat(Cat(One("/"), Join(pieces, "/")), Cat(One(":"), t.verb))
  BY Zenon DEF Composed
<1> DEFINE D == DOMAIN t.segments
           sugared == {k \in D : pieces[k] # SegmentText(t.segments[k], FALSE)}
           texts == [k \in D |-> SegmentText(t.segments[k], k \in sugared)]
           T == Seq(C)
<1>2. D = 1..Len(t.segments) /\ Len(pieces) = Len(t.segments)
  BY <1>1 DEF Spelled
<1>3. pieces \in Seq(T) /\ pieces = [k \in 1..Len(pieces) |-> pieces[k]]
  <2>1. pieces \in Seq(T)
    OBVIOUS
  <2> HIDE DEF T
  <2> QED
    BY <2>1
<1>4. ASSUME NEW k \in D
      PROVE  \/ pieces[k] = SegmentText(t.segments[k], FALSE)
             \/ pieces[k] = SegmentText(t.segments[k], TRUE) /\ MayBeBare(t.segments[k])
  <2>1. <<t.segments[k], pieces[k]>> \in SegmentReading(C)
    BY <1>1, <1>2 DEF Spelled
  <2> QED
    BY <2>1 DEF SegmentReading
<1>5. ASSUME NEW k \in D PROVE SegmentText(t.segments[k], k \in sugared) = pieces[k]
  <2>1. /\ k \in sugared => pieces[k] = SegmentText(t.segments[k], TRUE)
        /\ k \notin sugared => pieces[k] = SegmentText(t.segments[k], FALSE)
    BY <1>4
  <2> HIDE DEF sugared
  <2> QED
    BY <2>1, SugarOrNot, Zenon
<1>6. texts = pieces
  BY <1>2, <1>3, <1>5, Zenon
<1>7. sugared \in SUBSET {k \in D : t.segments[k].kind = "var" /\ t.segments[k].sub = <<Single>>}
  BY <1>4 DEF MayBeBare
<1> DEFINE start == Cat(One("/"), Join(pieces, "/"))
<1>8. TemplateText(t, sugared) =
        start \o (IF t.verb = NoVerb THEN <<>> ELSE <<":">> \o t.verb)
  <2>1. start = <<"/">> \o Join(texts, "/")
    BY <1>6 DEF Cat, One
  <2> HIDE DEF start, sugared
  <2> QED
    BY <2>1 DEF TemplateText
<1>9. start \in Seq(C)
  <2>1. pieces # <<>>
    <3>1. Len(t.segments) # 0
      BY <1>1
    <3> QED
      BY <1>2, <3>1
  <2>2. pieces \in Parts(C)
    BY <2>1 DEF Parts
  <2>3. "/" \in C
    BY Delimited
  <2>4. Join(pieces, "/") \in Seq(C)
    BY <2>2, <2>3, JoinType
  <2>5. One("/") \in Seq(C)
    BY Delimited
  <2> QED
    BY <2>4, <2>5, Cats
<1> HIDE DEF start, sugared
<1>10. TemplateText(t, sugared) = text
  <2>1. CASE t.verb = NoVerb
    <3>1. text = start
      BY <1>1, <2>1 DEF start
    <3>2. start \o <<>> = start
      BY <1>9, ConcatEmptySeq
    <3> QED
      BY <1>8, <2>1, <3>1, <3>2
  <2>2. CASE t.verb # NoVerb
    <3>1. text = Cat(start, Cat(One(":"), t.verb))
      BY <1>1, <2>2 DEF start
    <3> QED
      BY <1>8, <2>2, <3>1 DEF Cat, One
  <2> QED
    BY <2>1, <2>2
<1> QED
  BY <1>7, <1>10, Zenon DEF Spellings

(* The parser accepts nothing but templates: whatever the text, what it is *)
(* read as is a template that the text spells, well-formed in all that the *)
(* matcher, the overlap test and the verb split rely on.                   *)
THEOREM ParseIsSoundInvariant == Spec => []ParseIsSound
<1>1. Delimiters \subseteq Sign /\ NoVerb \notin Seq(Sign) /\ \A piece \in Pieces : piece \in Seq(Sign)
  BY TextInputs DEF Delimiters
<1>2. Inputs => ParseIsSound
  <2> SUFFICES ASSUME Inputs, about = "text", parse(FlattenSeq(arg)).ok
               PROVE  /\ WellFormedTemplate(parse(FlattenSeq(arg)).value)
                      /\ FlattenSeq(arg) \in Spellings(parse(FlattenSeq(arg)).value)
    BY Zenon DEF ParseIsSound
  <2> DEFINE text == FlattenSeq(arg)
             t == parse(text).value
  <2>1. text \in Seq(Sign)
    <3>1. arg \in Seq(Pieces)
      BY DEF Inputs
    <3>2. arg \in Seq(Seq(Sign))
      BY <1>1, <3>1
    <3> QED
      BY <3>2, FlattenType
  <2>2. parse(text).ok
    OBVIOUS
  <2> HIDE DEF text
  <2>3. Composed(Sign, text, t)
    BY <1>1, <2>1, <2>2, ParseComposed
  <2> QED
    BY <1>1, <2>3, ComposedIsWellFormed, ComposedIsSpelled, Zenon DEF text
<1> QED
  BY <1>2, InputsInvariant, PTL

(***************************************************************************)
(* The converse: a template that is written is read, whatever stands       *)
(* behind it.  The same way up as above: one turn of the loop, the loop,   *)
(* slots, field paths, variables, segments, the verb, the whole.           *)
(***************************************************************************)
(* What may stand behind a segment. *)
Ends(left) == left = <<>> \/ StartsWith(left, "/") \/ StartsWith(left, "}")

(* The converse of Reads: whatever is written is read, all of it.          *)
Writes(R, C, text, result) ==
  \A value : \A piece \in Seq(C), left \in Seq(C) :
    <<value, piece>> \in R /\ text = Cat(piece, left) /\ Ends(left) =>
      result = Parsed(value, left)

LEMMA TurnWrites ==
  ASSUME NEW C, "/" \in C, NEW R, NEW text \in Seq(C),
         NEW parsed, \A i \in 1..(Len(text) + 1) : Writes(R, C, From(text, i), parsed[i]),
         NEW done, done = <<>> \/ ~is_catch_all(Last(done)),
         NEW a \in Seq(C), NEW v, NEW p \in Seq(C), <<v, p>> \in R,
         NEW left \in Seq(C), Ends(left),
         Cat(One("/"), text) = Cat(a, Cat(One("/"), Cat(p, left)))
  PROVE  Turn(Parsed(done, Cat(One("/"), Cat(p, left))), text, parsed)
           = Parsed(Append(done, v), left)
<1> DEFINE more == Cat(p, left)
           rest == Cat(One("/"), more)
           at == Len(text) - Len(rest) + 2
<1>1. more \in Seq(C)
  BY Cats
<1> HIDE DEF more
<1>2. rest \in Seq(C) /\ rest # <<>> /\ StartsWith(rest, "/") /\ Tail(rest) = more
  BY <1>1, Before1
<1>3. <<"/">> \o text = a \o rest
  BY DEF Cat, One, more
<1> HIDE DEF rest
<1>4. at \in 1..(Len(text) + 1) /\ From(text, at) = Tail(rest)
  BY <1>2, <1>3, LeftBehind
<1>5. Writes(R, C, more, parsed[at])
  BY <1>2, <1>4
<1>6. parsed[at] = Parsed(v, left)
  BY <1>5, Zenon DEF Writes, more
<1>7. Turn(Parsed(done, rest), text, parsed) =
        IF done # <<>> /\ is_catch_all(Last(done)) THEN Failed
        ELSE IF parsed[at].ok THEN Parsed(Append(done, parsed[at].value), parsed[at].rest)
        ELSE Failed
  BY <1>2, TurnCases
<1>8. parsed[at].ok /\ parsed[at].value = v /\ parsed[at].rest = left
  BY <1>6 DEF Parsed
<1>9. Turn(Parsed(done, rest), text, parsed) = Parsed(Append(done, v), left)
  <2> HIDE DEF at
  <2> QED
    BY <1>7, <1>8, Zenon
<1> QED
  BY <1>9 DEF rest, more

(* The last of some values is spelled by the last piece. *)
SpelledLast(R, V, values, pieces, p) ==
  \E vs \in Seq(V), v \in V :
    /\ values = Append(vs, v)
    /\ Spelled(R, vs, pieces) /\ <<v, p>> \in R
    /\ OnlyLast(vs) /\ (vs = <<>> \/ ~is_catch_all(Last(vs)))

LEMMA SpelledSplit ==
  ASSUME NEW V, NEW C, NEW R, NEW values \in Seq(V), NEW pieces \in Seq(Seq(C)), NEW p \in Seq(C),
         Spelled(R, values, Append(pieces, p)), OnlyLast(values)
  PROVE  SpelledLast(R, V, values, pieces, p)
<1> DEFINE ps == Append(pieces, p)
           n == Len(pieces)
           T == Seq(C)
<1>1. Len(ps) = n + 1 /\ ps[n + 1] = p /\ n \in Nat /\ \A i \in 1..n : ps[i] = pieces[i]
  <2>1. pieces \in Seq(T) /\ p \in T
    OBVIOUS
  <2> HIDE DEF T
  <2> QED
    BY <2>1, AppendProperties
<1>2. Len(values) = Len(ps) /\ \A i \in 1..Len(values) : <<values[i], ps[i]>> \in R
  BY DEF Spelled
<1> HIDE DEF ps, n
<1>3. values # <<>>
  <2>1. Len(values) # 0
    BY <1>1, <1>2
  <2> QED
    BY <2>1
<1>4. PICK vs \in Seq(V), v \in V : values = Append(vs, v)
  BY <1>3, SequenceEmptyOrAppend
<1>5. Len(values) = Len(vs) + 1 /\ values[Len(vs) + 1] = v /\ \A i \in 1..Len(vs) : values[i] = vs[i]
  BY <1>4, AppendProperties
<1>6. Len(vs) = n
  BY <1>1, <1>2, <1>5
<1>7. Spelled(R, vs, pieces)
  <2>1. \A i \in 1..n : i \in 1..(n + 1)
    BY <1>1
  <2>2. \A i \in 1..n : <<vs[i], pieces[i]>> \in R
    BY <1>1, <1>2, <1>5, <1>6, <2>1
  <2> QED
    BY <1>6, <2>2 DEF Spelled, n
<1>8. <<v, p>> \in R
  <2>1. n + 1 \in 1..(n + 1)
    BY <1>1
  <2> QED
    BY <1>1, <1>2, <1>5, <1>6, <2>1
<1>9. \A i \in 1..n : ~is_catch_all(vs[i])
  <2>1. Len(values) - 1 = n
    BY <1>1, <1>2
  <2> QED
    BY <1>5, <1>6, <2>1 DEF OnlyLast
<1>10. OnlyLast(vs)
  <2>1. \A i \in 1..(n - 1) : i \in 1..n
    BY <1>1
  <2> QED
    BY <1>6, <1>9, <2>1 DEF OnlyLast
<1>11. ASSUME vs # <<>> PROVE ~is_catch_all(Last(vs))
  <2>1. n \in 1..n /\ Last(vs) = vs[n]
    BY <1>6, <1>11 DEF Last
  <2> QED
    BY <1>9, <2>1
<1> QED
  BY <1>4, <1>7, <1>8, <1>10, <1>11, Zenon DEF SpelledLast

(* As the loop of `parse_segments` goes on, over the pieces of its text.   *)
Written(f, R, V, C, text, pieces) ==
  \A values \in Seq(V), rest \in Seq(C) :
    /\ Spelled(R, values, pieces) /\ OnlyLast(values)
    /\ Ends(rest)
    /\ Cat(One("/"), text) = Cat(Slashed(pieces), rest)
    => /\ Len(pieces) <= Len(text) + 1
       /\ f[Len(pieces)] = Parsed(values, rest)

LEMMA NothingWritten ==
  ASSUME NEW C, "/" \in C, NEW V, NEW R, NEW text \in Seq(C), NEW parsed, NEW f, IsLoop(f, text, parsed)
  PROVE  Written(f, R, V, C, text, <<>>)
<1> DEFINE none == <<>>
<1> SUFFICES ASSUME NEW values \in Seq(V), NEW rest \in Seq(C), Spelled(R, values, none),
                    Cat(One("/"), text) = Cat(Slashed(none), rest)
             PROVE  Len(none) <= Len(text) + 1 /\ f[Len(none)] = Parsed(values, rest)
  BY DEF Written
<1>1. values = <<>> /\ Len(none) = 0 /\ 0 <= Len(text) + 1
  BY DEF Spelled
<1>2. rest = <<"/">> \o text
  <2>1. Cat(Slashed(none), rest) = rest
    BY SlashedEmpty, ConcatEmptySeq DEF Cat
  <2> QED
    BY <2>1 DEF Cat, One
<1>3. f[0] = Parsed(<<>>, <<"/">> \o text)
  BY DEF IsLoop
<1> QED
  BY <1>1, <1>2, <1>3

LEMMA OneMoreWritten ==
  ASSUME NEW C, "/" \in C, NEW V, NEW R, NEW text \in Seq(C),
         NEW parsed, \A i \in 1..(Len(text) + 1) : Writes(R, C, From(text, i), parsed[i]),
         NEW f, IsLoop(f, text, parsed),
         NEW pieces \in Seq(Seq(C)), NEW p \in Seq(C), Written(f, R, V, C, text, pieces)
  PROVE  Written(f, R, V, C, text, Append(pieces, p))
<1> DEFINE ps == Append(pieces, p)
           n == Len(pieces)
           T == Seq(C)
<1> SUFFICES ASSUME NEW values \in Seq(V), NEW rest \in Seq(C),
                    Spelled(R, values, ps), OnlyLast(values), Ends(rest),
                    Cat(One("/"), text) = Cat(Slashed(ps), rest)
             PROVE  Len(ps) <= Len(text) + 1 /\ f[Len(ps)] = Parsed(values, rest)
  BY DEF Written
<1>1. PICK vs \in Seq(V), v \in V :
        /\ values = Append(vs, v)
        /\ Spelled(R, vs, pieces) /\ <<v, p>> \in R
        /\ OnlyLast(vs) /\ (vs = <<>> \/ ~is_catch_all(Last(vs)))
  <2>1. Spelled(R, values, Append(pieces, p)) /\ OnlyLast(values)
    OBVIOUS
  <2>2. SpelledLast(R, V, values, pieces, p)
    BY <2>1, SpelledSplit
  <2> QED
    BY <2>2, Zenon DEF SpelledLast
<1> DEFINE more == Cat(One("/"), Cat(p, rest))
<1>2. more \in Seq(C) /\ Ends(more)
  <2>1. Cat(p, rest) \in Seq(C)
    BY Cats
  <2> QED
    BY <2>1, Before1 DEF Ends
<1>3. Slashed(pieces) \in Seq(C) /\ Slashed(ps) = Cat(Slashed(pieces), Cat(One("/"), p))
  BY SlashedAppend DEF Cat, One
<1>4. Cat(One("/"), text) = Cat(Slashed(pieces), more)
  <2>1. One("/") \in Seq(C) /\ Cat(One("/"), p) \in Seq(C)
    BY Cats
  <2>2. Cat(Slashed(ps), rest) = Cat(Slashed(pieces), Cat(Cat(One("/"), p), rest))
    BY <1>3, <2>1, Cats
  <2>3. Cat(Cat(One("/"), p), rest) = more
    BY <2>1, Cats
  <2> QED
    BY <2>2, <2>3
<1>5. n <= Len(text) + 1 /\ f[n] = Parsed(vs, more)
  <2> HIDE DEF more
  <2> QED
    BY <1>1, <1>2, <1>4, Zenon DEF Written
<1>6. Turn(Parsed(vs, more), text, parsed) = Parsed(values, rest)
  BY <1>1, <1>3, <1>4, TurnWrites
<1>7. Len(ps) = n + 1 /\ n \in Nat
  <2>1. pieces \in Seq(T) /\ p \in T
    OBVIOUS
  <2> HIDE DEF T
  <2> QED
    BY <2>1, AppendProperties
<1>8. n + 1 <= Len(text) + 1
  <2>1. Len(ps) <= Len(Slashed(ps)) /\ Slashed(ps) \in Seq(C)
    <3>1. ps \in Seq(T)
      BY AppendType
    <3> HIDE DEF ps
    <3> QED
      BY <3>1, SlashedLong DEF T
  <2>2. Len(Cat(One("/"), text)) = Len(text) + 1
    BY Before1
  <2>3. Len(Cat(Slashed(ps), rest)) = Len(Slashed(ps)) + Len(rest)
    <3> HIDE DEF ps
    <3> QED
      BY <2>1, ConcatProperties DEF Cat
  <2>4. Len(rest) \in Nat /\ Len(text) \in Nat /\ Len(Slashed(ps)) \in Nat
    BY <2>1
  <2>5. Len(text) + 1 = Len(Slashed(ps)) + Len(rest)
    BY <2>2, <2>3
  <2> HIDE DEF ps, n
  <2> QED
    BY <1>7, <2>1, <2>4, <2>5
<1>9. n + 1 \in 1..(Len(text) + 1) /\ (n + 1) - 1 = n
  BY <1>7, <1>8
<1>10. f[n + 1] = Turn(f[n], text, parsed)
  BY <1>9 DEF IsLoop
<1> HIDE DEF ps, more, n
<1> QED
  BY <1>5, <1>6, <1>7, <1>8, <1>10

(* Once no '/' follows the loop is done. *)
LEMMA LoopStays ==
  ASSUME NEW C, NEW text \in Seq(C), NEW parsed, NEW f, IsLoop(f, text, parsed),
         NEW k \in Nat, k <= Len(text) + 1,
         NEW values, NEW rest, f[k] = Parsed(values, rest), ~StartsWith(rest, "/")
  PROVE  f[Len(text) + 1] = Parsed(values, rest)
<1> DEFINE n == Len(text) + 1
           D == {i \in 0..n : i >= k => f[i] = Parsed(values, rest)}
<1>1. n \in Nat /\ \A i \in 1..n : f[i] = Turn(f[i - 1], text, parsed)
  BY DEF IsLoop
<1>2. Turn(Parsed(values, rest), text, parsed) = Parsed(values, rest)
  BY TurnCases
<1> HIDE DEF n
<1>3. 0 \in D
  <2>1. 0 \in 0..n /\ (0 >= k => k = 0)
    BY <1>1
  <2> QED
    BY <2>1
<1>4. ASSUME NEW i \in 0..(n - 1), i \in D PROVE i + 1 \in D
  <2>1. i + 1 \in 1..n /\ i + 1 \in 0..n /\ (i + 1) - 1 = i /\ i \in Nat
    BY <1>1
  <2>2. f[i + 1] = Turn(f[i], text, parsed)
    BY <1>1, <2>1
  <2>3. CASE i >= k
    BY <1>2, <1>4, <2>1, <2>2, <2>3
  <2>4. CASE ~(i >= k)
    <3>1. i + 1 >= k => i + 1 = k
      BY <2>1, <2>4
    <3> QED
      BY <2>1, <3>1
  <2> QED
    BY <2>3, <2>4
<1>5. \A i \in 0..n : i \in D
  <2> HIDE DEF D
  <2> QED
    BY <1>1, <1>3, <1>4, UpInduction
<1>6. n \in D /\ n >= k
  BY <1>1, <1>5 DEF n
<1> QED
  BY <1>6 DEF n

(* The loop, as a function that exists. *)
Runs(text, parsed) ==
  \E f : IsLoop(f, text, parsed) /\ Segments(text, parsed) = f[Len(text) + 1]

LEMMA LoopRuns ==
  ASSUME NEW V, NEW C, "/" \in C, NEW text \in Seq(C),
         NEW parsed \in [1..(Len(text) + 1) -> Results(V, C, Len(text))]
  PROVE  Runs(text, parsed)
<1>1. PICK f \in [0..(Len(text) + 1) -> Results(Seq(V), C, Len(text) + 1)] :
        IsLoop(f, text, parsed) /\ Segments(text, parsed) = f[Len(text) + 1]
  BY LoopDef
<1> QED
  BY <1>1, Zenon DEF Runs

(* Each position of a text is read as it is written. *)
WritesAll(R, C, text, parsed) ==
  \A i \in 1..(Len(text) + 1) : Writes(R, C, From(text, i), parsed[i])

LEMMA SegmentsWrite ==
  ASSUME NEW C, "/" \in C, NEW V, NEW R, NEW text \in Seq(C),
         NEW parsed \in [1..(Len(text) + 1) -> Results(V, C, Len(text))],
         WritesAll(R, C, text, parsed),
         NEW values \in Seq(V), NEW pieces \in Seq(Seq(C)), pieces # <<>>,
         Spelled(R, values, pieces), OnlyLast(values),
         NEW rest \in Seq(C), Ends(rest), ~StartsWith(rest, "/"),
         text = Cat(Join(pieces, "/"), rest)
  PROVE  Segments(text, parsed) = Parsed(values, rest)
<1> DEFINE n == Len(text) + 1
<1>1. PICK f : IsLoop(f, text, parsed) /\ Segments(text, parsed) = f[Len(text) + 1]
  BY LoopRuns DEF Runs
<1>2. IsLoop(f, text, parsed) /\ Segments(text, parsed) = f[n]
  BY <1>1
<1>3. \A i \in 1..(Len(text) + 1) : Writes(R, C, From(text, i), parsed[i])
  BY Zenon DEF WritesAll
<1>4. \A s \in Seq(Seq(C)) : Written(f, R, V, C, text, s)
  <2> DEFINE U == Seq(C)
             T == {s \in Seq(U) : Written(f, R, V, C, text, s)}
  <2>1. <<>> \in T
    <3>1. <<>> \in Seq(U)
      OBVIOUS
    <3> QED
      BY <1>2, <3>1, NothingWritten
  <2>2. ASSUME NEW s \in Seq(U), NEW p \in U, s \in T PROVE Append(s, p) \in T
    <3>1. Append(s, p) \in Seq(U)
      BY AppendType
    <3>2. Written(f, R, V, C, text, Append(s, p))
      <4>1. Written(f, R, V, C, text, s)
        BY <2>2
      <4> QED
        BY <1>2, <1>3, <4>1, OneMoreWritten
    <3> QED
      BY <3>1, <3>2
  <2>3. \A s \in Seq(U) : s \in T
    <3> HIDE DEF T, U
    <3> QED
      BY <2>1, <2>2, SeqInduction
  <2> QED
    BY <2>3
<1>5. Cat(One("/"), text) = Cat(Slashed(pieces), rest)
  <2>1. Slashed(pieces) = Cat(One("/"), Join(pieces, "/")) /\ Join(pieces, "/") \in Seq(C)
    BY SlashedJoin
  <2>2. One("/") \in Seq(C)
    BY Cats
  <2> QED
    BY <2>1, <2>2, Cats
<1>6. Len(pieces) <= n /\ f[Len(pieces)] = Parsed(values, rest)
  BY <1>4, <1>5, Zenon DEF Written
<1>7. Len(pieces) \in Nat
  OBVIOUS
<1> DEFINE k == Len(pieces)
<1>8. k \in Nat /\ k <= Len(text) + 1 /\ f[k] = Parsed(values, rest)
  BY <1>6, <1>7
<1> HIDE DEF k
<1>9. f[Len(text) + 1] = Parsed(values, rest)
  BY <1>2, <1>8, LoopStays
<1> QED
  BY <1>2, <1>9

LEMMA EndsIn ==
  ASSUME NEW left, Ends(left)
  PROVE  left = <<>> \/ Head(left) \in {"/", "{", "}", "="}
BY DEF Ends, StartsWith

(***************************************************************************)
(* Slots are read as they are written.                                     *)
(***************************************************************************)
LEMMA LitTextChars ==
  ASSUME NEW C, NEW l \in LitTexts(C)
  PROVE  /\ l \in Seq(C) /\ l # <<>>
         /\ \A i \in 1..Len(l) : l[i] \notin {"/", "*", "{", "}", "="}
<1>1. l \in Seq(C) /\ l # <<>> /\ ToSet(l) \cap {"/", "*", "{", "}", "="} = {}
  BY DEF LitTexts
<1>2. \A i \in 1..Len(l) : l[i] \in ToSet(l)
  BY <1>1, SeqSet
<1> QED
  BY <1>1, <1>2

LEMMA LiteralWrites ==
  ASSUME NEW C, NEW l \in LitTexts(C), NEW left \in Seq(C), Ends(left)
  PROVE  parse_literal(Cat(l, left)) = Parsed(Lit(l), left)
<1> DEFINE text == Cat(l, left)
           D == {"/", "{", "}", "="}
           end == PrefixBefore(text, D)
<1>1. l \in Seq(C) /\ l # <<>> /\ \A i \in 1..Len(l) : l[i] \notin {"/", "*", "{", "}", "="}
  BY LitTextChars
<1>2. \A i \in 1..Len(l) : l[i] \notin D
  BY <1>1
<1>3. left = <<>> \/ Head(left) \in D
  BY EndsIn
<1>4. ~Contains(l, "*")
  <2>1. DOMAIN l = 1..Len(l)
    BY <1>1, SeqSet
  <2> QED
    BY <1>1, <2>1 DEF Contains
<1>5. parse_literal(text) = IF UpTo(text, end) = <<>> \/ Contains(UpTo(text, end), "*") THEN Failed
                            ELSE Parsed(Lit(UpTo(text, end)), From(text, end + 1))
  BY DEF parse_literal
<1>6. end = Len(l)
  <2> HIDE DEF D
  <2> QED
    BY <1>1, <1>2, <1>3, PrefixEnds
<1>7. UpTo(text, Len(l)) = l /\ From(text, Len(l) + 1) = left
  BY <1>1, CatParts
<1> HIDE DEF text, end, D
<1>8. parse_literal(text) = Parsed(Lit(l), left)
  BY <1>1, <1>4, <1>5, <1>6, <1>7, Zenon
<1> QED
  BY <1>8 DEF text

LEMMA TwoStars ==
  ASSUME NEW C, NEW text \in Seq(C)
  PROVE  IsPrefix(<<"*", "*">>, text) <=> Len(text) >= 2 /\ text[1] = "*" /\ text[2] = "*"
<1> DEFINE stars == <<"*", "*">>
<1>1. Len(stars) = 2 /\ stars[1] = "*" /\ stars[2] = "*" /\ Len(text) \in Nat
  OBVIOUS
<1>2. SubSeq(stars, 1, 2) = [i \in 1..2 |-> stars[i]]
  OBVIOUS
<1>3. ASSUME Len(text) >= 2
      PROVE SubSeq(text, 1, 2) = [i \in 1..2 |-> text[i]]
  BY <1>1, <1>3
<1> HIDE DEF stars
<1>4. ASSUME IsPrefix(stars, text) PROVE Len(text) >= 2 /\ text[1] = "*" /\ text[2] = "*"
  <2>1. Len(text) >= 2 /\ SubSeq(stars, 1, 2) = SubSeq(text, 1, 2)
    BY <1>1, <1>4 DEF IsPrefix
  <2>2. SubSeq(stars, 1, 2)[1] = stars[1] /\ SubSeq(stars, 1, 2)[2] = stars[2]
    BY <1>2
  <2>3. SubSeq(text, 1, 2)[1] = text[1] /\ SubSeq(text, 1, 2)[2] = text[2]
    BY <1>3, <2>1
  <2>4. stars[1] = text[1] /\ stars[2] = text[2]
    BY <2>1, <2>2, <2>3
  <2> QED
    BY <1>1, <2>1, <2>4
<1>5. ASSUME Len(text) >= 2, text[1] = "*", text[2] = "*" PROVE IsPrefix(stars, text)
  <2>1. \A i \in 1..2 : stars[i] = text[i]
    BY <1>1, <1>5
  <2>2. SubSeq(stars, 1, 2) = SubSeq(text, 1, 2)
    BY <1>2, <1>3, <1>5, <2>1
  <2> QED
    BY <1>1, <1>5, <2>2 DEF IsPrefix
<1> QED
  BY <1>4, <1>5 DEF stars

LEMMA SlotWrites ==
  ASSUME NEW C, Delimiters \subseteq C, NEW slot \in Slots(C), NEW left \in Seq(C), Ends(left)
  PROVE  /\ SlotText(slot) \in Seq(C)
         /\ ~StartsWith(Cat(SlotText(slot), left), "{")
         /\ parse_sub_segment(Cat(SlotText(slot), left)) = Parsed(slot, left)
<1> DEFINE text == Cat(SlotText(slot), left)
<1>1. CASE slot \in {Lit(l) : l \in LitTexts(C)}
  <2>1. PICK l \in LitTexts(C) : slot = Lit(l)
    BY <1>1
  <2>2. SlotText(slot) = l
    BY <2>1 DEF SlotText, Lit
  <2>3. l \in Seq(C) /\ l # <<>> /\ l[1] \notin {"/", "*", "{", "}", "="}
    <3>1. l \in Seq(C) /\ l # <<>> /\ \A i \in 1..Len(l) : l[i] \notin {"/", "*", "{", "}", "="}
      BY LitTextChars
    <3>2. 1 \in 1..Len(l)
      BY <3>1, FirstIn
    <3> QED
      BY <3>1, <3>2
  <2>4. /\ text \in Seq(C) /\ text[1] = l[1]
        /\ \A c : StartsWith(text, c) <=> l[1] = c
    BY <2>2, <2>3, FirstOfCat
  <2> HIDE DEF text
  <2>5. ~StartsWith(text, "*") /\ ~StartsWith(text, "{") /\ ~IsPrefix(<<"*", "*">>, text)
    BY <2>3, <2>4, TwoStars
  <2>6. parse_sub_segment(text) = parse_literal(text)
    BY <2>5 DEF parse_sub_segment
  <2>7. parse_literal(text) = Parsed(Lit(l), left)
    BY <2>2, LiteralWrites DEF text
  <2> QED
    BY <2>1, <2>2, <2>3, <2>5, <2>6, <2>7 DEF text
<1>2. CASE slot = Single
  <2>1. SlotText(slot) = One("*") /\ One("*") \in Seq(C) /\ "*" \in C
    BY <1>2, Delimited, Cats DEF SlotText, Single, One
  <2>2. /\ text \in Seq(C) /\ StartsWith(text, "*") /\ Tail(text) = left
        /\ Len(text) = Len(left) + 1 /\ text # <<>>
    <3>1. text = Cat(One("*"), left)
      BY <2>1
    <3> HIDE DEF text
    <3> QED
      BY <2>1, <3>1, Before1, Zenon
  <2> HIDE DEF text
  <2>3. ~StartsWith(text, "{")
    BY <2>2 DEF StartsWith
  <2>4. ~IsPrefix(<<"*", "*">>, text)
    <3>1. SUFFICES ASSUME Len(text) >= 2, text[2] = "*" PROVE FALSE
      BY <2>2, TwoStars
    <3>2. left # <<>>
      BY <2>2, <3>1
    <3>3. Head(left) = "*"
      BY <2>2, <3>1
    <3> QED
      BY <3>2, <3>3 DEF Ends, StartsWith
  <2>5. parse_sub_segment(text) = Parsed(Single, left)
    BY <2>2, <2>4 DEF parse_sub_segment
  <2> QED
    BY <1>2, <2>1, <2>3, <2>5 DEF text
<1>3. CASE slot = CatchAll
  <2> DEFINE stars == <<"*", "*">>
  <2>1. SlotText(slot) = stars /\ stars \in Seq(C) /\ Len(stars) = 2
        /\ stars # <<>> /\ stars[1] = "*" /\ stars[2] = "*"
    <3>1. SlotText(slot) = stars
      BY <1>3 DEF SlotText, CatchAll
    <3>2. "*" \in C
      BY Delimited
    <3>3. stars \in Seq(C)
      BY <3>2
    <3> QED
      BY <3>1, <3>3
  <2> HIDE DEF stars
  <2>2. text \in Seq(C) /\ (StartsWith(text, "{") <=> stars[1] = "{") /\ text[1] = "*"
    BY <2>1, FirstOfCat
  <2>3. Len(text) >= 2 /\ text[2] = "*"
    <3>1. text = Cat(stars, left)
      BY <2>1
    <3> HIDE DEF text
    <3>2. Len(text) >= Len(stars) /\ \A i \in 1..Len(stars) : text[i] = stars[i]
      BY <2>1, <3>1, CatAt
    <3>3. 2 \in 1..Len(stars)
      BY <2>1
    <3> QED
      BY <2>1, <3>2, <3>3
  <2>4. From(text, 3) = left
    <3>1. From(Cat(stars, left), Len(stars) + 1) = left
      BY <2>1, CatParts
    <3>2. Len(stars) + 1 = 3
      BY <2>1
    <3> QED
      BY <2>1, <3>1, <3>2
  <2> HIDE DEF text
  <2>5. IsPrefix(<<"*", "*">>, text)
    BY <2>2, <2>3, TwoStars
  <2>6. parse_sub_segment(text) = Parsed(CatchAll, left)
    BY <2>4, <2>5 DEF parse_sub_segment
  <2> QED
    BY <1>3, <2>1, <2>2, <2>6 DEF text
<1> QED
  BY <1>1, <1>2, <1>3 DEF Slots

LEMMA ParsedType ==
  ASSUME NEW C, NEW V, NEW R \in SUBSET (V \X Seq(C)), NEW text \in Seq(C),
         NEW parsed, parsed = [i \in 1..(Len(text) + 1) |-> parsed[i]],
         \A i \in 1..(Len(text) + 1) : Reads(R, C, From(text, i), parsed[i])
  PROVE  parsed \in [1..(Len(text) + 1) -> Results(V, C, Len(text))]
<1> DEFINE S == Results(V, C, Len(text))
           n == Len(text) + 1
<1>1. Len(text) \in Nat
  OBVIOUS
<1>2. ASSUME NEW i \in 1..n PROVE parsed[i] \in S
  <2>1. From(text, i) \in Seq(C) /\ Len(From(text, i)) <= Len(text)
    <3>1. PICK b \in 0..Len(text) : i = b + 1
      <4>1. i - 1 \in 0..Len(text) /\ i = (i - 1) + 1
        BY <1>1
      <4> QED
        BY <4>1
    <3>2. Len(From(text, b + 1)) = Len(text) - b /\ From(text, b + 1) \in Seq(C)
      BY Cut
    <3> QED
      BY <1>1, <3>1, <3>2
  <2>2. Reads(R, C, From(text, i), parsed[i])
    OBVIOUS
  <2> QED
    BY <1>1, <2>1, <2>2, ReadsResult
<1> HIDE DEF S, n
<1> QED
  BY <1>2 DEF S, n

(* Lists of slots are read back as they were written. *)
LEMMA SlotReadingWrites ==
  ASSUME NEW C, Delimiters \subseteq C, NEW text \in Seq(C)
  PROVE  Writes(SlotReading(C), C, text, parse_sub_segment(text))
<1>1. ASSUME NEW value, NEW piece \in Seq(C), NEW left \in Seq(C),
             <<value, piece>> \in SlotReading(C), text = Cat(piece, left), Ends(left)
      PROVE  parse_sub_segment(text) = Parsed(value, left)
  <2>1. value \in Slots(C) /\ piece = SlotText(value)
    BY <1>1 DEF SlotReading
  <2>2. parse_sub_segment(Cat(SlotText(value), left)) = Parsed(value, left)
    BY <1>1, <2>1, SlotWrites
  <2> QED
    BY <1>1, <2>1, <2>2
<1> QED
  BY <1>1, Zenon DEF Writes

LEMMA SlotTextsSpell ==
  ASSUME NEW C, Delimiters \subseteq C, NEW sub \in Seq(Slots(C))
  PROVE  SlotTexts(sub) \in Seq(Seq(C)) /\ Spelled(SlotReading(C), sub, SlotTexts(sub))
<1> DEFINE pieces == SlotTexts(sub)
           V == Slots(C)
<1>1. DOMAIN sub = 1..Len(sub) /\ Len(sub) \in Nat /\ \A i \in 1..Len(sub) : sub[i] \in V
  OBVIOUS
<1>2. \A slot \in V : SlotText(slot) \in Seq(C)
  <2>1. <<>> \in Seq(C) /\ Ends(<<>>)
    BY DEF Ends
  <2> QED
    BY <2>1, SlotWrites
<1> HIDE DEF V
<1>3. pieces = [i \in 1..Len(sub) |-> SlotText(sub[i])]
  BY <1>1 DEF SlotTexts
<1>4. pieces \in Seq(Seq(C)) /\ Len(pieces) = Len(sub) /\ \A i \in 1..Len(sub) : pieces[i] = SlotText(sub[i])
  BY <1>1, <1>2, <1>3
<1> HIDE DEF pieces
<1>5. ASSUME NEW i \in 1..Len(sub) PROVE <<sub[i], pieces[i]>> \in SlotReading(C)
  BY <1>1, <1>2, <1>4 DEF SlotReading, V
<1> QED
  BY <1>4, <1>5 DEF Spelled, pieces

(* A list of segments, as SegmentsWrite has it. *)
ListWritten(R, V, C, text, result) ==
  \A values \in Seq(V), pieces \in Seq(Seq(C)), rest \in Seq(C) :
    /\ pieces # <<>> /\ Spelled(R, values, pieces) /\ OnlyLast(values)
    /\ Ends(rest) /\ ~StartsWith(rest, "/")
    /\ text = Cat(Join(pieces, "/"), rest)
    => result = Parsed(values, rest)

LEMMA ListWrites ==
  ASSUME NEW C, "/" \in C, NEW V, NEW R, NEW text \in Seq(C),
         NEW parsed \in [1..(Len(text) + 1) -> Results(V, C, Len(text))],
         WritesAll(R, C, text, parsed)
  PROVE  ListWritten(R, V, C, text, Segments(text, parsed))
<1> SUFFICES ASSUME NEW values \in Seq(V), NEW pieces \in Seq(Seq(C)), NEW rest \in Seq(C),
                    pieces # <<>>, Spelled(R, values, pieces), OnlyLast(values),
                    Ends(rest), ~StartsWith(rest, "/"), text = Cat(Join(pieces, "/"), rest)
             PROVE  Segments(text, parsed) = Parsed(values, rest)
  BY Zenon DEF ListWritten
<1> QED
  BY SegmentsWrite

LEMMA SubSegmentsWrite ==
  ASSUME NEW C, Delimiters \subseteq C, NEW sub \in Subs(C), NEW rest \in Seq(C),
         StartsWith(rest, "}")
  PROVE  /\ Join(SlotTexts(sub), "/") \in Seq(C)
         /\ parse_sub_segments(Cat(Join(SlotTexts(sub), "/"), rest)) = Parsed(sub, rest)
<1> DEFINE pieces == SlotTexts(sub)
           text == Cat(Join(pieces, "/"), rest)
           parsed == [i \in 1..(Len(text) + 1) |-> parse_sub_segment(From(text, i))]
           R == SlotReading(C)
           V == Slots(C)
<1>1. sub \in Seq(V) /\ sub # <<>> /\ OnlyLast(sub)
  BY DEF Subs
<1>2. pieces \in Seq(Seq(C)) /\ Spelled(R, sub, pieces)
  BY <1>1, SlotTextsSpell
<1>3. "/" \in C
  BY Delimited
<1>4. pieces # <<>>
  <2>1. Len(pieces) = Len(sub)
    BY <1>2 DEF Spelled
  <2>2. Len(sub) # 0
    BY <1>1, NotEmpty
  <2> QED
    BY <2>1, <2>2
<1>5. Join(pieces, "/") \in Seq(C)
  BY <1>2, <1>3, <1>4, SlashedJoin
<1>6. text \in Seq(C)
  BY <1>5, Cats
<1>7. parse_sub_segments(text) = Segments(text, parsed)
  BY DEF parse_sub_segments
<1> DEFINE joined == Join(pieces, "/")
<1>8. text = Cat(joined, rest)
  OBVIOUS
<1> HIDE DEF text, joined
<1>9. \A i \in 1..(Len(text) + 1) : From(text, i) \in Seq(C) /\ parsed[i] = parse_sub_segment(From(text, i))
  BY <1>6, FromType
<1>10. \A i \in 1..(Len(text) + 1) : Reads(R, C, From(text, i), parsed[i])
  <2> TAKE i \in 1..(Len(text) + 1)
  <2>1. Reads(R, C, From(text, i), parse_sub_segment(From(text, i)))
    BY <1>9, Delimited, SubSegmentReads
  <2> QED
    BY <1>9, <2>1
<1>11. WritesAll(R, C, text, parsed)
  <2> SUFFICES ASSUME NEW i \in 1..(Len(text) + 1)
               PROVE  Writes(R, C, From(text, i), parsed[i])
    BY Zenon DEF WritesAll
  <2>1. Writes(R, C, From(text, i), parse_sub_segment(From(text, i)))
    BY <1>9, SlotReadingWrites
  <2> QED
    BY <1>9, <2>1
<1>12. parsed = [i \in 1..(Len(text) + 1) |-> parsed[i]]
  OBVIOUS
<1>13. R \in SUBSET (V \X Seq(C))
  BY SlotReadings
<1>14. Ends(rest) /\ ~StartsWith(rest, "/")
  BY DEF Ends, StartsWith
<1> HIDE DEF parsed, R, V, pieces
<1>15. text = Cat(Join(pieces, "/"), rest)
  BY <1>8 DEF joined
<1>16. parsed \in [1..(Len(text) + 1) -> Results(V, C, Len(text))]
  BY <1>6, <1>10, <1>12, <1>13, ParsedType
<1>17. ListWritten(R, V, C, text, Segments(text, parsed))
  BY <1>3, <1>6, <1>11, <1>16, ListWrites
<1>18. Segments(text, parsed) = Parsed(sub, rest)
  BY <1>1, <1>2, <1>4, <1>14, <1>15, <1>17, Zenon DEF ListWritten
<1> QED
  BY <1>5, <1>7, <1>18 DEF text, pieces, joined

(***************************************************************************)
(* Field paths and variables are read as they are written.                 *)
(***************************************************************************)
(* Field paths whose names hold nothing that would end them. *)
Names(C) == {field \in Fields(C) : field \in Seq(Seq(C \ {".", "=", "{", "}"}))}

LEMMA NameTexts ==
  ASSUME NEW C, Delimiters \subseteq C, NEW field \in Names(C)
  PROVE  /\ field # <<>> /\ ~Contains(field, <<>>)
         /\ Join(field, ".") \in Seq(C \ {"=", "{", "}"}) /\ Join(field, ".") \in Seq(C)
         /\ split(Join(field, "."), ".") = field
         /\ Join(field, ".") # <<>>
<1> DEFINE N == C \ {".", "=", "{", "}"}
           D == C \ {"=", "{", "}"}
           E == D \ {"."}
<1>1. N = E /\ D \subseteq C /\ E \subseteq D
  OBVIOUS
<1>2. "." \in D
  <2>1. "." \in C
    BY Delimited
  <2> QED
    BY <2>1
<1>3. field \in Seq(Seq(N)) /\ field # <<>> /\ ~Contains(field, <<>>)
  BY DEF Names, Fields, Parts
<1> HIDE DEF N, D, E
<1>4. field \in Seq(Seq(E)) /\ field \in Seq(Seq(D))
  <2>1. Seq(E) \subseteq Seq(D)
    BY <1>1, WiderSeq
  <2>2. Seq(Seq(E)) \subseteq Seq(Seq(D))
    BY <2>1, WiderSeq
  <2> QED
    BY <1>1, <1>3, <2>2
<1>5. Join(field, ".") \in Seq(D)
  <2>1. field \in Parts(D)
    BY <1>3, <1>4 DEF Parts
  <2> QED
    BY <1>2, <2>1, JoinType
<1>6. Join(field, ".") \in Seq(C)
  BY <1>1, <1>5, WiderSeq
<1>7. split(Join(field, "."), ".") = field
  BY <1>2, <1>3, <1>4, SplitJoin DEF E
<1>8. Join(field, ".") # <<>>
  <2>1. SUFFICES ASSUME Join(field, ".") = <<>> PROVE FALSE
    OBVIOUS
  <2>2. field = <<<<>>>>
    BY <1>7, <2>1, SplitEmpty
  <2>3. Contains(field, <<>>)
    BY <2>2 DEF Contains
  <2> QED
    BY <1>3, <2>3
<1> QED
  BY <1>3, <1>5, <1>6, <1>7, <1>8 DEF D

LEMMA FieldWrites ==
  ASSUME NEW C, Delimiters \subseteq C, NEW field \in Names(C), NEW rest \in Seq(C),
         StartsWith(rest, "=") \/ StartsWith(rest, "}")
  PROVE  parse_field_path(Cat(Join(field, "."), rest)) = Parsed(field, rest)
<1> DEFINE name == Join(field, ".")
           text == Cat(name, rest)
           D == {"=", "}"}
<1>1. name \in Seq(C \ {"=", "{", "}"}) /\ name \in Seq(C) /\ name # <<>>
      /\ split(name, ".") = field /\ ~Contains(field, <<>>)
  BY NameTexts
<1>2. rest # <<>> /\ Head(rest) \in D
  BY HeadIs
<1>3. \A i \in 1..Len(name) : name[i] \notin D
  <2> HIDE DEF name
  <2>1. \A i \in 1..Len(name) : name[i] \notin {"=", "{", "}"}
    BY <1>1, NotAmong
  <2> QED
    BY <2>1
<1> HIDE DEF name
<1>4. PrefixBefore(text, D) = Len(name)
  <2> HIDE DEF D
  <2> QED
    BY <1>1, <1>2, <1>3, PrefixEnds
<1>5. UpTo(text, Len(name)) = name /\ From(text, Len(name) + 1) = rest
  BY <1>1, CatParts
<1>6. Len(name) # Len(text)
  BY <1>1, <1>2, CatLonger
<1> HIDE DEF text
<1>7. parse_field_path(text) = Parsed(field, rest)
  BY <1>1, <1>4, <1>5, <1>6 DEF parse_field_path
<1> QED
  BY <1>7 DEF text, name

(* What VariableRuns asks of the parts of a variable. *)
CatchAllLast(sub) == \A i \in 1..(Len(sub) - 1) : sub[i] # CatchAll

Gives(result, value, rest) == result = Parsed(value, rest)

LEMMA VariableRuns ==
  ASSUME NEW text, NEW field, NEW rest, Gives(parse_field_path(Tail(text)), field, rest),
         NEW sub, NEW end, Gives(SubPart(rest), sub, end), StartsWith(end, "}"),
         CatchAllLast(sub)
  PROVE  parse_variable(text) = Parsed(Var(field, sub), Tail(end))
<1>1. \A a, b : Parsed(a, b).ok /\ Parsed(a, b).value = a /\ Parsed(a, b).rest = b
  BY DEF Parsed
<1> HIDE DEF Failed, Parsed
<1> DEFINE name == parse_field_path(Tail(text))
           result == parse_variable(text)
<1>2. result =
        IF name.ok
        THEN IF SubPart(name.rest).ok
             THEN IF \/ ~StartsWith(SubPart(name.rest).rest, "}")
                     \/ \E i \in 1..(Len(SubPart(name.rest).value) - 1) :
                          SubPart(name.rest).value[i] = CatchAll
                  THEN Failed
                  ELSE Parsed(Var(name.value, SubPart(name.rest).value),
                              Tail(SubPart(name.rest).rest))
             ELSE Failed
        ELSE Failed
  BY Zenon DEF parse_variable, SubPart, Then
<1> DEFINE part == SubPart(rest)
<1>3. name = Parsed(field, rest) /\ part = Parsed(sub, end)
  BY DEF Gives
<1> HIDE DEF name, result, part
<1>4. name.ok /\ name.value = field /\ name.rest = rest
  BY <1>1, <1>3
<1>5. part.ok /\ part.value = sub /\ part.rest = end
  BY <1>1, <1>3
<1>6. SubPart(name.rest) = part
  BY <1>4 DEF part
<1>7. result =
        IF \/ ~StartsWith(end, "}")
           \/ \E i \in 1..(Len(sub) - 1) : sub[i] = CatchAll
        THEN Failed
        ELSE Parsed(Var(field, sub), Tail(end))
  BY <1>2, <1>4, <1>5, <1>6
<1> QED
  BY <1>7 DEF CatchAllLast, result

LEMMA SubOnlyLast ==
  ASSUME NEW C, NEW sub \in Subs(C)
  PROVE  CatchAllLast(sub)
BY DEF Subs, OnlyLast, is_catch_all, CatchAllLast

LEMMA VariableWrites ==
  ASSUME NEW C, Delimiters \subseteq C, NEW field \in Names(C), NEW sub \in Subs(C),
         NEW left \in Seq(C)
  PROVE  /\ VarText(field, sub) \in Seq(C)
         /\ StartsWith(Cat(VarText(field, sub), left), "{")
         /\ parse_variable(Cat(VarText(field, sub), left)) = Parsed(Var(field, sub), left)
<1> DEFINE n == Join(field, ".")
           s == Join(SlotTexts(sub), "/")
           end == Cat(Close, left)
           inner == Cat(s, end)
           rest == Cat(Equals, inner)
           after == Cat(n, rest)
           text == Cat(Open, after)
<1>1. "{" \in C /\ "}" \in C /\ "=" \in C
  BY Delimited
<1>2. n \in Seq(C)
  BY NameTexts
<1>3. end \in Seq(C) /\ StartsWith(end, "}") /\ Tail(end) = left
  BY <1>1, Before1 DEF Close
<1> HIDE DEF end
<1>4. s \in Seq(C) /\ parse_sub_segments(inner) = Parsed(sub, end)
  BY <1>3, SubSegmentsWrite
<1>5. inner \in Seq(C)
  BY <1>3, <1>4, Cats
<1> HIDE DEF inner, s
<1>6. rest \in Seq(C) /\ StartsWith(rest, "=") /\ Tail(rest) = inner
  BY <1>1, <1>5, Before1 DEF Equals
<1> HIDE DEF rest
<1>7. parse_field_path(after) = Parsed(field, rest)
  BY <1>6, FieldWrites
<1>8. after \in Seq(C)
  BY <1>2, <1>6, Cats
<1> HIDE DEF after, n
<1>9. text \in Seq(C) /\ StartsWith(text, "{") /\ Tail(text) = after
  BY <1>1, <1>8, Before1 DEF Open
<1> HIDE DEF text
<1>10. SubPart(rest) = Parsed(sub, end)
  BY <1>4, <1>6 DEF SubPart
<1>11. parse_variable(text) = Parsed(Var(field, sub), left)
  <2>1. parse_field_path(Tail(text)) = Parsed(field, rest)
    BY <1>7, <1>9
  <2>2. parse_variable(text) = Parsed(Var(field, sub), Tail(end))
    <3>1. CatchAllLast(sub) /\ StartsWith(end, "}")
      BY <1>3, SubOnlyLast
    <3>2. Gives(parse_field_path(Tail(text)), field, rest) /\ Gives(SubPart(rest), sub, end)
      BY <1>10, <2>1 DEF Gives
    <3> QED
      BY <3>1, <3>2, VariableRuns
  <2> QED
    BY <1>3, <2>2
<1>12. text = Cat(VarText(field, sub), left)
  <2>1. Cat(Open, Cat(n, Cat(Equals, Cat(s, Cat(Close, left))))) = Cat(Braced(n, s), left)
    BY <1>2, <1>4, VarParts
  <2> QED
    BY <2>1 DEF text, after, rest, inner, end, n, s, VarText
<1>13. VarText(field, sub) \in Seq(C)
  <2>1. Open \in Seq(C) /\ Close \in Seq(C) /\ Equals \in Seq(C)
    BY Delimited DEF Open, Close, Equals
  <2> QED
    BY <1>2, <1>4, <2>1, Cats DEF VarText, Braced, n, s
<1> QED
  BY <1>9, <1>11, <1>12, <1>13

LEMMA BareWrites ==
  ASSUME NEW C, Delimiters \subseteq C, NEW field \in Names(C), NEW left \in Seq(C)
  PROVE  /\ BareText(field) \in Seq(C)
         /\ StartsWith(Cat(BareText(field), left), "{")
         /\ parse_variable(Cat(BareText(field), left)) = Parsed(Var(field, <<Single>>), left)
<1> DEFINE n == Join(field, ".")
           end == Cat(Close, left)
           after == Cat(n, end)
           text == Cat(Open, after)
<1>1. "{" \in C /\ "}" \in C
  BY Delimited
<1>2. n \in Seq(C)
  BY NameTexts
<1>3. end \in Seq(C) /\ StartsWith(end, "}") /\ Tail(end) = left
  BY <1>1, Before1 DEF Close
<1> HIDE DEF end
<1>4. ~StartsWith(end, "=")
  BY <1>3 DEF StartsWith
<1>5. parse_field_path(after) = Parsed(field, end)
  BY <1>3, FieldWrites
<1>6. after \in Seq(C)
  BY <1>2, <1>3, Cats
<1> HIDE DEF after, n
<1>7. text \in Seq(C) /\ StartsWith(text, "{") /\ Tail(text) = after
  BY <1>1, <1>6, Before1 DEF Open
<1> HIDE DEF text
<1>8. SubPart(end) = Parsed(<<Single>>, end)
  BY <1>4 DEF SubPart
<1>9. parse_variable(text) = Parsed(Var(field, <<Single>>), left)
  <2>1. parse_field_path(Tail(text)) = Parsed(field, end)
    BY <1>5, <1>7
  <2>2. CatchAllLast(<<Single>>)
    BY DEF CatchAllLast
  <2>3. parse_variable(text) = Parsed(Var(field, <<Single>>), Tail(end))
    <3>1. StartsWith(end, "}")
      BY <1>3
    <3> DEFINE one == <<Single>>
    <3>2. SubPart(end) = Parsed(one, end) /\ CatchAllLast(one)
      BY <1>8, <2>2
    <3> HIDE DEF one
    <3>3. parse_variable(text) = Parsed(Var(field, one), Tail(end))
      <4>1. Gives(parse_field_path(Tail(text)), field, end) /\ Gives(SubPart(end), one, end)
        BY <2>1, <3>2 DEF Gives
      <4>2. CatchAllLast(one)
        BY <3>2
      <4> QED
        BY <3>1, <4>1, <4>2, VariableRuns
    <3> QED
      BY <3>3 DEF one
  <2> QED
    BY <1>3, <2>3
<1>10. text = Cat(BareText(field), left)
  <2>1. Cat(Open, Cat(n, Cat(Close, left))) = Cat(BareText(field), left)
    BY <1>2, BareParts DEF n
  <2> QED
    BY <2>1 DEF text, after, end
<1>11. BareText(field) \in Seq(C)
  <2>1. Open \in Seq(C) /\ Close \in Seq(C)
    BY Delimited DEF Open, Close
  <2> QED
    BY <1>2, <2>1, Cats DEF BareText, n
<1> QED
  BY <1>7, <1>9, <1>10, <1>11

(* Segments outside, their variables so named. *)
NamedReading(C) ==
  {pair \in SegmentReading(C) : pair[1].kind = "var" => pair[1].field \in Names(C)}

LEMMA SegmentWrites ==
  ASSUME NEW C, Delimiters \subseteq C, NEW text \in Seq(C)
  PROVE  Writes(NamedReading(C), C, text, parse_segment(text))
<1>1. ASSUME NEW s, NEW piece \in Seq(C), NEW left \in Seq(C),
             <<s, piece>> \in NamedReading(C), text = Cat(piece, left), Ends(left)
      PROVE  parse_segment(text) = Parsed(s, left)
  <2>1. /\ s \in Segs(C) /\ (s.kind = "var" => s.field \in Names(C))
        /\ piece = SegmentText(s, FALSE) \/ (piece = SegmentText(s, TRUE) /\ MayBeBare(s))
    BY <1>1 DEF NamedReading, SegmentReading
  <2>2. CASE s \in Slots(C)
    <3>1. s.kind # "var"
      BY <2>2 DEF Slots, Lit, Single, CatchAll
    <3>2. piece = SlotText(s)
      BY <2>1, <3>1 DEF MayBeBare, SegmentText
    <3>3. /\ ~StartsWith(Cat(SlotText(s), left), "{")
          /\ parse_sub_segment(Cat(SlotText(s), left)) = Parsed(s, left)
      BY <1>1, <2>2, SlotWrites
    <3>4. ~StartsWith(text, "{") /\ parse_sub_segment(text) = Parsed(s, left)
      BY <1>1, <3>2, <3>3
    <3> QED
      BY <3>4 DEF parse_segment
  <2>3. CASE s \notin Slots(C)
    <3>1. PICK field \in Fields(C), sub \in Subs(C) : s = Var(field, sub)
      BY <2>1, <2>3 DEF Segs
    <3>2. s.kind = "var" /\ s.field = field /\ s.sub = sub
      BY <3>1 DEF Var
    <3>3. field \in Names(C)
      BY <2>1, <3>2
    <3>4. Join(field, ".") \in Seq(C)
      BY <3>3, NameTexts
    <3>5. SegmentText(s, FALSE) = VarText(field, sub) /\ SegmentText(s, TRUE) = BareText(field)
      BY <3>1, <3>4, VariableTexts
    <3>6. piece = VarText(field, sub) \/ (piece = BareText(field) /\ sub = <<Single>>)
      BY <2>1, <3>2, <3>5 DEF MayBeBare
    <3>7. CASE piece = VarText(field, sub)
      <4>1. /\ StartsWith(Cat(VarText(field, sub), left), "{")
            /\ parse_variable(Cat(VarText(field, sub), left)) = Parsed(Var(field, sub), left)
        BY <3>3, VariableWrites
      <4>2. StartsWith(text, "{") /\ parse_variable(text) = Parsed(s, left)
        BY <1>1, <3>1, <3>7, <4>1
      <4> QED
        BY <4>2 DEF parse_segment
    <3>8. CASE piece = BareText(field) /\ sub = <<Single>>
      <4>1. /\ StartsWith(Cat(BareText(field), left), "{")
            /\ parse_variable(Cat(BareText(field), left)) = Parsed(Var(field, <<Single>>), left)
        BY <3>3, BareWrites
      <4>2. StartsWith(text, "{") /\ parse_variable(text) = Parsed(s, left)
        BY <1>1, <3>1, <3>8, <4>1
      <4> QED
        BY <4>2 DEF parse_segment
    <3> QED
      BY <3>6, <3>7, <3>8
  <2> QED
    BY <2>2, <2>3
<1> QED
  BY <1>1, Zenon DEF Writes

LEMMA ParseSegmentsWrite ==
  ASSUME NEW C, Delimiters \subseteq C, NEW segments \in Seq(Segs(C)),
         NEW pieces \in Seq(Seq(C)), pieces # <<>>,
         Spelled(NamedReading(C), segments, pieces), OnlyLast(segments)
  PROVE  parse_segments(Join(pieces, "/")) = Parsed(segments, <<>>)
<1> DEFINE text == Join(pieces, "/")
           parsed == [i \in 1..(Len(text) + 1) |-> parse_segment(From(text, i))]
           Q == SegmentReading(C)
           R == NamedReading(C)
           V == Segs(C)
<1>1. "/" \in C
  BY Delimited
<1>2. text \in Seq(C)
  BY <1>1, SlashedJoin
<1>3. parse_segments(text) = Segments(text, parsed)
  BY DEF parse_segments
<1>4. text = Cat(Join(pieces, "/"), <<>>)
  BY <1>2, ConcatEmptySeq DEF Cat
<1> HIDE DEF text
<1>5. \A i \in 1..(Len(text) + 1) : From(text, i) \in Seq(C) /\ parsed[i] = parse_segment(From(text, i))
  BY <1>2, FromType
<1>6. \A i \in 1..(Len(text) + 1) : Reads(Q, C, From(text, i), parsed[i])
  <2> TAKE i \in 1..(Len(text) + 1)
  <2>1. Reads(Q, C, From(text, i), parse_segment(From(text, i)))
    BY <1>5, SegmentReads
  <2> QED
    BY <1>5, <2>1
<1>7. WritesAll(R, C, text, parsed)
  <2> SUFFICES ASSUME NEW i \in 1..(Len(text) + 1)
               PROVE  Writes(R, C, From(text, i), parsed[i])
    BY Zenon DEF WritesAll
  <2>1. Writes(R, C, From(text, i), parse_segment(From(text, i)))
    BY <1>5, SegmentWrites
  <2> QED
    BY <1>5, <2>1
<1>8. parsed = [i \in 1..(Len(text) + 1) |-> parsed[i]]
  OBVIOUS
<1>9. Q \in SUBSET (V \X Seq(C))
  BY DEF SegmentReading
<1>10. <<>> \in Seq(C) /\ Ends(<<>>) /\ ~StartsWith(<<>>, "/")
  BY DEF Ends, StartsWith
<1> HIDE DEF parsed, Q, R, V
<1>11. parsed \in [1..(Len(text) + 1) -> Results(V, C, Len(text))]
  BY <1>2, <1>6, <1>8, <1>9, ParsedType
<1>12. ListWritten(R, V, C, text, Segments(text, parsed))
  BY <1>1, <1>2, <1>7, <1>11, ListWrites
<1>13. segments \in Seq(V) /\ Spelled(R, segments, pieces)
  BY DEF R, V
<1>14. Segments(text, parsed) = Parsed(segments, <<>>)
  BY <1>4, <1>10, <1>12, <1>13, Zenon DEF ListWritten
<1> QED
  BY <1>3, <1>14 DEF text

(***************************************************************************)
(* The verb is found behind the path: no ':' of a variable counts.         *)
(***************************************************************************)
(* How deep in braces each character of a text stands. *)
DepthAt(c, d) ==
  IF c = "{" THEN d + 1 ELSE IF c = "}" /\ d > 0 THEN d - 1 ELSE d

IsDepth(f, text) ==
  f[0] = 0 /\ \A i \in 1..Len(text) : f[i] = DepthAt(text[i], f[i - 1])

LEMMA DepthAtType ==
  ASSUME NEW c, NEW d \in Nat
  PROVE  DepthAt(c, d) \in Nat
<1>1. d + 1 \in Nat /\ (d > 0 => d - 1 \in Nat)
  OBVIOUS
<1>2. CASE c = "}" /\ d > 0
  BY <1>1, <1>2, Zenon DEF DepthAt
<1>3. CASE ~(c = "}" /\ d > 0)
  BY <1>1, <1>3, Zenon DEF DepthAt
<1> QED
  BY <1>2, <1>3

LEMMA DepthDef ==
  ASSUME NEW S, NEW text \in Seq(S)
  PROVE  Depth(text) \in [0..Len(text) -> Nat] /\ IsDepth(Depth(text), text)
<1> DEFINE n == Len(text)
           step == [i \in 1..n |-> [d \in Nat |-> DepthAt(text[i], d)]]
           Is(f) == f = [i \in 0..n |-> IF i = 0 THEN 0
                                        ELSE IF text[i] = "{" THEN f[i - 1] + 1
                                        ELSE IF text[i] = "}" /\ f[i - 1] > 0 THEN f[i - 1] - 1
                                        ELSE f[i - 1]]
           all == CHOOSE f : Is(f)
<1>1. n \in Nat
  OBVIOUS
<1>2. step \in [1..n -> [Nat -> Nat]]
  <2>1. ASSUME NEW i \in 1..n, NEW d \in Nat PROVE DepthAt(text[i], d) \in Nat
    BY DepthAtType
  <2> HIDE DEF n
  <2> QED
    BY <2>1
<1>3. PICK g \in [0..n -> Nat] : IsRecursion(g, n, 0, step)
  <2> HIDE DEF n, step
  <2> QED
    BY <1>1, <1>2, Recursion
<1>4. g[0] = 0 /\ \A i \in 1..n : g[i] = DepthAt(text[i], g[i - 1])
  <2>1. ASSUME NEW i \in 1..n PROVE g[i] = DepthAt(text[i], g[i - 1])
    <3>1. g[i - 1] \in Nat
      <4> HIDE DEF n, step
      <4>1. i - 1 \in 0..n
        BY <1>1
      <4> QED
        BY <1>3, <4>1
    <3>2. step[i] = [d \in Nat |-> DepthAt(text[i], d)]
      OBVIOUS
    <3> HIDE DEF step
    <3>3. step[i][g[i - 1]] = DepthAt(text[i], g[i - 1])
      BY <3>1, <3>2
    <3> QED
      BY <1>3, <3>3 DEF IsRecursion
  <2> QED
    BY <1>3, <2>1 DEF IsRecursion
<1>5. Is(g)
  <2> DEFINE h == [i \in 0..n |-> IF i = 0 THEN 0
                                  ELSE IF text[i] = "{" THEN g[i - 1] + 1
                                  ELSE IF text[i] = "}" /\ g[i - 1] > 0 THEN g[i - 1] - 1
                                  ELSE g[i - 1]]
  <2>1. ASSUME NEW i \in 0..n PROVE g[i] = h[i]
    <3>1. CASE i = 0
      BY <1>4, <3>1
    <3>2. CASE i # 0
      <4>1. i \in 1..n
        BY <1>1, <3>2
      <4>2. g[i] = DepthAt(text[i], g[i - 1])
        BY <1>4, <4>1
      <4> QED
        BY <3>2, <4>2 DEF DepthAt
    <3> QED
      BY <3>1, <3>2
  <2> HIDE DEF n
  <2>2. g = [i \in 0..n |-> g[i]]
    BY <1>3
  <2>3. g = h
    BY <2>1, <2>2
  <2> QED
    BY <2>3
<1>6. Is(all)
  <2> HIDE DEF Is
  <2> QED
    BY <1>5
<1>7. Depth(text) = all
  BY DEF Depth
<1>8. all[0] = 0 /\ DOMAIN all = 0..n /\ \A i \in 1..n : all[i] = DepthAt(text[i], all[i - 1])
  <2>1. DOMAIN all = 0..n
    BY <1>6
  <2>2. \A i \in 0..n : all[i] = IF i = 0 THEN 0
                                 ELSE IF text[i] = "{" THEN all[i - 1] + 1
                                 ELSE IF text[i] = "}" /\ all[i - 1] > 0 THEN all[i - 1] - 1
                                 ELSE all[i - 1]
    BY <1>6
  <2> HIDE DEF all, n
  <2>3. 0 \in 0..n /\ \A i \in 1..n : i \in 0..n /\ i # 0
    BY <1>1
  <2> QED
    BY <2>1, <2>2, <2>3 DEF DepthAt
<1>9. all = [i \in 0..n |-> all[i]]
  BY <1>6
<1> HIDE DEF all, n
<1>10. \A i \in 0..n : all[i] \in Nat
  <2> DEFINE T == {i \in 0..n : all[i] \in Nat}
  <2>1. 0 \in T
    BY <1>1, <1>8
  <2>2. ASSUME NEW i \in 0..(n - 1), i \in T PROVE i + 1 \in T
    <3>1. i + 1 \in 1..n /\ i + 1 \in 0..n /\ (i + 1) - 1 = i
      BY <1>1
    <3>2. all[i + 1] = DepthAt(text[i + 1], all[i])
      BY <1>8, <3>1
    <3>3. all[i] \in Nat
      BY <2>2
    <3>4. all[i + 1] \in Nat
      BY <3>2, <3>3, DepthAtType
    <3> QED
      BY <3>1, <3>4
  <2> HIDE DEF T
  <2>3. \A i \in 0..n : i \in T
    BY <1>1, <2>1, <2>2, UpInduction
  <2> QED
    BY <2>3 DEF T
<1> QED
  BY <1>7, <1>8, <1>9, <1>10 DEF IsDepth, n

(* All braces of a text are closed; no ':' of it stands outside of them. *)
Flat(text) == Depth(text)[Len(text)] = 0

Covered(text) == \A i \in 1..Len(text) : text[i] = ":" => Depth(text)[i] # 0

LEMMA DepthCat ==
  ASSUME NEW S, NEW a \in Seq(S), NEW b \in Seq(S)
  PROVE  /\ \A i \in 0..Len(a) : Depth(Cat(a, b))[i] = Depth(a)[i]
         /\ Flat(a) => \A i \in 0..Len(b) : Depth(Cat(a, b))[Len(a) + i] = Depth(b)[i]
<1> DEFINE t == Cat(a, b)
           m == Len(a)
           n == Len(b)
           f == Depth(t)
           g == Depth(a)
           h == Depth(b)
<1>1. m \in Nat /\ n \in Nat
  OBVIOUS
<1>2. t \in Seq(S) /\ Len(t) = m + n
  BY Cats, CatAt
<1>3. (\A i \in 1..m : t[i] = a[i]) /\ (\A i \in 1..n : t[m + i] = b[i])
  BY CatAt
<1>4. f[0] = 0 /\ \A i \in 1..(m + n) : f[i] = DepthAt(t[i], f[i - 1])
  <2>1. IsDepth(f, t)
    BY <1>2, DepthDef
  <2> HIDE DEF t, m, n, f
  <2> QED
    BY <1>2, <2>1 DEF IsDepth
<1>5. g[0] = 0 /\ \A i \in 1..m : g[i] = DepthAt(a[i], g[i - 1])
  BY DepthDef DEF IsDepth
<1>6. h[0] = 0 /\ \A i \in 1..n : h[i] = DepthAt(b[i], h[i - 1])
  BY DepthDef DEF IsDepth
<1> HIDE DEF t, m, n, f, g, h
<1>7. \A i \in 0..m : f[i] = g[i]
  <2> DEFINE T == {i \in 0..m : f[i] = g[i]}
  <2>1. 0 \in T
    BY <1>1, <1>4, <1>5
  <2>2. ASSUME NEW i \in 0..(m - 1), i \in T PROVE i + 1 \in T
    <3>1. i + 1 \in 1..m /\ i + 1 \in 0..m /\ i + 1 \in 1..(m + n) /\ (i + 1) - 1 = i
      BY <1>1
    <3>2. f[i + 1] = DepthAt(t[i + 1], f[i]) /\ g[i + 1] = DepthAt(a[i + 1], g[i])
      BY <1>4, <1>5, <3>1
    <3>3. t[i + 1] = a[i + 1] /\ f[i] = g[i]
      BY <1>3, <2>2, <3>1
    <3> QED
      BY <3>1, <3>2, <3>3
  <2> HIDE DEF T
  <2>3. \A i \in 0..m : i \in T
    BY <1>1, <2>1, <2>2, UpInduction
  <2> QED
    BY <2>3 DEF T
<1>8. ASSUME g[m] = 0 PROVE \A i \in 0..n : f[m + i] = h[i]
  <2> DEFINE T == {i \in 0..n : f[m + i] = h[i]}
  <2>1. 0 \in T
    <3>1. m + 0 = m /\ m \in 0..m /\ 0 \in 0..n
      BY <1>1
    <3> QED
      BY <1>6, <1>7, <1>8, <3>1
  <2>2. ASSUME NEW i \in 0..(n - 1), i \in T PROVE i + 1 \in T
    <3>1. /\ i + 1 \in 1..n /\ i + 1 \in 0..n /\ (i + 1) - 1 = i
          /\ m + (i + 1) \in 1..(m + n) /\ (m + (i + 1)) - 1 = m + i
      BY <1>1
    <3>2. f[m + (i + 1)] = DepthAt(t[m + (i + 1)], f[m + i]) /\ h[i + 1] = DepthAt(b[i + 1], h[i])
      BY <1>4, <1>6, <3>1
    <3>3. t[m + (i + 1)] = b[i + 1] /\ f[m + i] = h[i]
      BY <1>3, <2>2, <3>1
    <3> QED
      BY <3>1, <3>2, <3>3
  <2> HIDE DEF T
  <2>3. \A i \in 0..n : i \in T
    BY <1>1, <2>1, <2>2, UpInduction
  <2> QED
    BY <2>3 DEF T
<1> QED
  BY <1>7, <1>8 DEF Flat, t, f, g, h, m, n

LEMMA FlatCat ==
  ASSUME NEW S, NEW a \in Seq(S), NEW b \in Seq(S), Flat(a)
  PROVE  /\ Flat(b) => Flat(Cat(a, b))
         /\ Covered(a) /\ Covered(b) => Covered(Cat(a, b))
<1> DEFINE t == Cat(a, b)
           m == Len(a)
           n == Len(b)
           f == Depth(t)
<1>1. m \in Nat /\ n \in Nat
  OBVIOUS
<1>2. Len(t) = m + n
  BY CatAt
<1>3. (\A i \in 1..m : t[i] = a[i]) /\ (\A i \in 1..n : t[m + i] = b[i])
  BY CatAt
<1>4. (\A i \in 0..m : f[i] = Depth(a)[i]) /\ (\A i \in 0..n : f[m + i] = Depth(b)[i])
  BY DepthCat
<1> HIDE DEF t, m, n, f
<1>5. n \in 0..n
  BY <1>1
<1>6. Flat(b) => f[Len(t)] = 0
  BY <1>2, <1>4, <1>5 DEF Flat, n
<1>7. ASSUME Covered(a), Covered(b), NEW i \in 1..Len(t), t[i] = ":"
      PROVE  f[i] # 0
  <2>1. CASE i \in 1..m
    <3>1. i \in 0..m /\ i \in 1..Len(a)
      BY <1>1, <2>1 DEF m
    <3>2. a[i] = ":"
      BY <1>3, <1>7, <2>1
    <3>3. Depth(a)[i] # 0
      BY <1>7, <3>1, <3>2 DEF Covered
    <3> QED
      BY <1>4, <3>1, <3>3
  <2>2. CASE i \notin 1..m
    <3>1. i - m \in 1..n /\ i - m \in 0..n /\ m + (i - m) = i
      BY <1>1, <1>2, <1>7, <2>2
    <3>2. i - m \in 1..Len(b)
      BY <3>1 DEF n
    <3> DEFINE j == i - m
    <3>3. j \in 1..n /\ j \in 0..n /\ m + j = i /\ j \in 1..Len(b)
      BY <3>1, <3>2
    <3> HIDE DEF j
    <3>4. b[j] = ":"
      BY <1>3, <1>7, <3>3
    <3>5. Depth(b)[j] # 0
      BY <1>7, <3>3, <3>4 DEF Covered
    <3> QED
      BY <1>4, <3>3, <3>5
  <2> QED
    BY <2>1, <2>2
<1> QED
  BY <1>6, <1>7 DEF Flat, Covered, t, f

IsBrace(c) == c \in {"{", "}"}

Unbraced(s) == \A i \in 1..Len(s) : ~IsBrace(s[i])

LEMMA DepthChanges ==
  ASSUME NEW d \in Nat
  PROVE  /\ \A c : ~IsBrace(c) => DepthAt(c, d) = d
         /\ DepthAt(Open[1], d) = d + 1
         /\ d > 0 => DepthAt(Close[1], d) = d - 1
         /\ Open[1] # ":" /\ Close[1] # ":"
<1>1. Open[1] = "{" /\ Close[1] = "}"
  BY DEF Open, Close, One
<1>2. \A c : ~IsBrace(c) => DepthAt(c, d) = d
  BY Zenon DEF IsBrace, DepthAt
<1>3. DepthAt("{", d) = d + 1
  BY Zenon DEF DepthAt
<1>4. "{" # "}"
  OBVIOUS
<1>5. d > 0 => DepthAt("}", d) = d - 1
  BY <1>4, Zenon DEF DepthAt
<1> QED
  BY <1>1, <1>2, <1>3, <1>5

LEMMA UnbracedSeq ==
  ASSUME NEW S, NEW s \in Seq(S \ {"{", "}"})
  PROVE  s \in Seq(S) /\ Unbraced(s)
<1>1. \A i \in 1..Len(s) : s[i] \notin {"{", "}"}
  BY NotAmong
<1>2. s \in Seq(S)
  <2> DEFINE T == S \ {"{", "}"}
  <2>1. T \subseteq S /\ s \in Seq(T)
    OBVIOUS
  <2> HIDE DEF T
  <2> QED
    BY <2>1, WiderSeq
<1> QED
  BY <1>1, <1>2 DEF Unbraced, IsBrace

LEMMA UnbracedFlat ==
  ASSUME NEW S, NEW s \in Seq(S), Unbraced(s)
  PROVE  /\ \A i \in 0..Len(s) : Depth(s)[i] = 0
         /\ Flat(s)
<1> DEFINE f == Depth(s)
           n == Len(s)
<1>1. n \in Nat
  OBVIOUS
<1>2. f[0] = 0 /\ \A i \in 1..n : f[i] = DepthAt(s[i], f[i - 1])
  BY DepthDef DEF IsDepth
<1>3. \A i \in 1..n : ~IsBrace(s[i])
  BY DEF Unbraced
<1> HIDE DEF f, n
<1> DEFINE T == {i \in 0..n : f[i] = 0}
<1>4. 0 \in T
  BY <1>1, <1>2
<1>5. ASSUME NEW i \in 0..(n - 1), i \in T PROVE i + 1 \in T
  <2>1. i + 1 \in 1..n /\ i + 1 \in 0..n /\ (i + 1) - 1 = i
    BY <1>1
  <2>2. f[i + 1] = DepthAt(s[i + 1], f[i]) /\ ~IsBrace(s[i + 1]) /\ f[i] = 0
    BY <1>2, <1>3, <1>5, <2>1
  <2>3. f[i + 1] = 0
    BY <2>2, DepthChanges
  <2> QED
    BY <2>1, <2>3
<1> HIDE DEF T
<1>6. \A i \in 0..n : i \in T
  BY <1>1, <1>4, <1>5, UpInduction
<1>7. \A i \in 0..n : f[i] = 0
  BY <1>6 DEF T
<1>8. n \in 0..n
  BY <1>1
<1> QED
  BY <1>7, <1>8 DEF Flat, f, n

LEMMA ColonFree ==
  ASSUME NEW S, NEW s \in Seq(S \ {":"})
  PROVE  Covered(s)
<1>1. \A i \in 1..Len(s) : s[i] \notin {":"}
  BY NotAmong
<1> QED
  BY <1>1 DEF Covered

LEMMA BracesCover ==
  ASSUME NEW S, Open \in Seq(S), Close \in Seq(S), NEW s \in Seq(S), Unbraced(s)
  PROVE  LET t == Cat(Open, Cat(s, Close)) IN t \in Seq(S) /\ Flat(t) /\ Covered(t)
<1> DEFINE t == Cat(Open, Cat(s, Close))
           f == Depth(t)
           n == Len(s)
           Colon(c) == c = ":"
<1>1. /\ t \in Seq(S) /\ Len(t) = n + 2 /\ t[1] = Open[1] /\ t[n + 2] = Close[1]
      /\ \A i \in 1..n : t[i + 1] = s[i]
  <2>1. Len(Open) = 1 /\ Len(Close) = 1
    BY DEF Open, Close, One
  <2>2. t \in Seq(S) /\ Enclosed(t, s, Open, Close)
    BY <2>1, Around
  <2> HIDE DEF t, f
  <2> QED
    BY <2>2, Zenon DEF Enclosed
<1>2. n \in Nat
  OBVIOUS
<1>3. \A i \in 1..n : ~IsBrace(s[i])
  BY DEF Unbraced
<1>4. ~Colon(Open[1]) /\ ~Colon(Close[1])
  BY DepthChanges
<1>5. f[0] = 0 /\ \A i \in 1..(n + 2) : f[i] = DepthAt(t[i], f[i - 1])
  <2>1. IsDepth(f, t)
    BY <1>1, DepthDef
  <2> HIDE DEF t, n, f
  <2> QED
    BY <1>1, <2>1 DEF IsDepth
<1> HIDE DEF t, f, n, Colon
<1>6. f[1] = 1
  <2>1. 1 \in 1..(n + 2) /\ 1 - 1 = 0
    BY <1>2
  <2>2. f[1] = DepthAt(Open[1], 0)
    BY <1>1, <1>5, <2>1
  <2>3. DepthAt(Open[1], 0) = 0 + 1
    BY DepthChanges
  <2> QED
    BY <2>2, <2>3
<1> DEFINE T == {i \in 0..n : f[i + 1] = 1}
<1>7. 0 \in T
  BY <1>2, <1>6
<1>8. ASSUME NEW i \in 0..(n - 1), i \in T PROVE i + 1 \in T
  <2>1. /\ i + 1 \in 1..n /\ i + 1 \in 0..n
        /\ (i + 1) + 1 \in 1..(n + 2) /\ ((i + 1) + 1) - 1 = i + 1
    BY <1>2
  <2>2. f[(i + 1) + 1] = DepthAt(t[(i + 1) + 1], f[i + 1]) /\ t[(i + 1) + 1] = s[i + 1]
    BY <1>1, <1>5, <2>1
  <2>3. ~IsBrace(s[i + 1])
    BY <1>3, <2>1
  <2>4. f[i + 1] = 1
    BY <1>8
  <2>5. f[(i + 1) + 1] = 1
    BY <2>2, <2>3, <2>4, DepthChanges
  <2> QED
    BY <2>1, <2>5
<1> HIDE DEF T
<1>9. \A i \in 0..n : i \in T
  BY <1>2, <1>7, <1>8, UpInduction
<1>10. \A i \in 0..n : f[i + 1] = 1
  BY <1>9 DEF T
<1>11. f[n + 2] = 0
  <2>1. n + 2 \in 1..(n + 2) /\ (n + 2) - 1 = n + 1 /\ n \in 0..n
    BY <1>2
  <2>2. f[n + 2] = DepthAt(Close[1], f[n + 1]) /\ f[n + 1] = 1
    BY <1>1, <1>5, <1>10, <2>1
  <2>3. DepthAt(Close[1], 1) = 0
    <3>1. 1 > 0 /\ 1 - 1 = 0 /\ 1 \in Nat
      OBVIOUS
    <3> QED
      BY <3>1, DepthChanges
  <2> QED
    BY <2>2, <2>3
<1>12. ASSUME NEW i \in 1..(n + 2), Colon(t[i]) PROVE f[i] # 0
  <2>1. i # n + 2
    BY <1>1, <1>4, <1>12
  <2> DEFINE j == i - 1
  <2>2. j \in 0..n /\ j + 1 = i
    BY <1>2, <2>1
  <2> HIDE DEF j
  <2>3. f[i] = 1
    BY <1>10, <2>2
  <2> QED
    BY <2>3
<1>13. Flat(t)
  BY <1>1, <1>11 DEF Flat, f
<1>14. Covered(t)
  <2>1. \A i \in 1..Len(t) : Colon(t[i]) => f[i] # 0
    BY <1>1, <1>12
  <2> QED
    BY <2>1, Zenon DEF Covered, f, Colon
<1> QED
  BY <1>1, <1>13, <1>14 DEF t

(* The ':' the verb follows. *)
TopColons(text) == {i \in DOMAIN text : text[i] = ":" /\ Depth(text)[i] = 0}

LEMMA CoveredColons ==
  ASSUME NEW S, NEW text \in Seq(S)
  PROVE  /\ Covered(text) <=> TopColons(text) = {}
         /\ TopColons(text) \subseteq 1..Len(text)
<1>1. DOMAIN text = 1..Len(text)
  OBVIOUS
<1>2. TopColons(text) = {i \in 1..Len(text) : text[i] = ":" /\ Depth(text)[i] = 0}
  BY <1>1 DEF TopColons
<1>3. (\E i \in 1..Len(text) : text[i] = ":" /\ Depth(text)[i] = 0) <=> TopColons(text) # {}
  BY <1>2
<1>4. Covered(text) <=> ~(\E i \in 1..Len(text) : text[i] = ":" /\ Depth(text)[i] = 0)
  BY Zenon DEF Covered
<1> QED
  BY <1>2, <1>3, <1>4

LEMMA VerbColonIs ==
  ASSUME NEW S, NEW text \in Seq(S)
  PROVE  /\ Covered(text) <=> verb_colon(text) = 0
         /\ \A i \in TopColons(text) : (\A j \in TopColons(text) : j <= i) => verb_colon(text) = i
<1> DEFINE D == TopColons(text)
           n == Len(text)
<1>1. n \in Nat /\ D \in SUBSET (1..n)
  BY CoveredColons
<1>2. verb_colon(text) = IF D = {} THEN 0 ELSE CHOOSE i \in D : \A j \in D : j <= i
  BY Zenon DEF verb_colon, TopColons
<1>3. Covered(text) <=> D = {}
  BY CoveredColons
<1> HIDE DEF D, n
<1>4. D # {} => verb_colon(text) \in D
  <2> SUFFICES ASSUME D # {} PROVE verb_colon(text) \in D
    OBVIOUS
  <2>1. \E i \in D : \A j \in D : j <= i
    BY <1>1, UpperMost
  <2>2. (CHOOSE i \in D : \A j \in D : j <= i) \in D
    BY <2>1, Zenon
  <2> QED
    BY <1>2, <2>2
<1>5. Covered(text) <=> verb_colon(text) = 0
  <2>1. 0 \notin D
    BY <1>1
  <2> QED
    BY <1>2, <1>3, <1>4, <2>1
<1>6. ASSUME NEW i \in D, \A j \in D : j <= i PROVE verb_colon(text) = i
  <2> DEFINE m == CHOOSE k \in D : \A j \in D : j <= k
  <2>1. m \in D /\ \A j \in D : j <= m
    BY <1>6, Zenon
  <2>2. D # {}
    BY <1>6
  <2>3. verb_colon(text) = m
    BY <1>2, <2>2
  <2> HIDE DEF m
  <2>4. i <= m /\ m <= i /\ i \in Nat /\ m \in Nat
    BY <1>1, <1>6, <2>1
  <2> QED
    BY <2>3, <2>4
<1> QED
  BY <1>5, <1>6 DEF D

DepthInParts(t, a, s, z) ==
  /\ \A i \in 0..Len(s) : Depth(t)[Len(a) + i] = Depth(s)[i]
  /\ \A i \in 0..Len(z) : Depth(t)[Len(a) + (Len(s) + i)] = Depth(z)[i]

LEMMA ThreeDepths ==
  ASSUME NEW S, NEW a \in Seq(S), NEW s \in Seq(S), NEW z \in Seq(S), Flat(a), Flat(s)
  PROVE  DepthInParts(Cat(a, Cat(s, z)), a, s, z)
<1> DEFINE b == Cat(s, z)
           t == Cat(a, b)
<1>1. Len(a) \in Nat /\ Len(s) \in Nat /\ Len(z) \in Nat
  OBVIOUS
<1>2. b \in Seq(S) /\ Len(b) = Len(s) + Len(z)
  BY Cats, CatAt
<1>3. \A i \in 0..Len(s) : Depth(b)[i] = Depth(s)[i]
  BY DepthCat
<1>4. \A i \in 0..Len(z) : Depth(b)[Len(s) + i] = Depth(z)[i]
  BY DepthCat
<1> HIDE DEF b
<1>5. \A i \in 0..Len(b) : Depth(t)[Len(a) + i] = Depth(b)[i]
  BY <1>2, DepthCat
<1> HIDE DEF t
<1>6. \A i \in 0..Len(s) : Depth(t)[Len(a) + i] = Depth(s)[i]
  <2> TAKE i \in 0..Len(s)
  <2>1. i \in 0..Len(b)
    BY <1>1, <1>2
  <2> QED
    BY <1>3, <1>5, <2>1
<1>7. \A i \in 0..Len(z) : Depth(t)[Len(a) + (Len(s) + i)] = Depth(z)[i]
  <2> TAKE i \in 0..Len(z)
  <2>1. Len(s) + i \in 0..Len(b)
    BY <1>1, <1>2
  <2> QED
    BY <1>4, <1>5, <2>1
<1> QED
  BY <1>6, <1>7 DEF DepthInParts, t, b

LEMMA VerbFound ==
  ASSUME NEW S, ":" \in S, NEW path \in Seq(S), NEW verb \in Seq(S),
         Flat(path), verb_colon(verb) = 0
  PROVE  /\ Cat(path, Cat(One(":"), verb)) \in Seq(S)
         /\ verb_colon(Cat(path, Cat(One(":"), verb))) = Len(path) + 1
<1> DEFINE colon == One(":")
           text == Cat(path, Cat(colon, verb))
           m == Len(path)
           n == Len(verb)
           Colon(c) == c = ":"
<1>1. colon \in Seq(S) /\ Len(colon) = 1 /\ colon[1] = ":"
  BY DEF One
<1>2. \A i \in 1..n : Colon(verb[i]) => Depth(verb)[i] # 0
  BY VerbColonIs DEF Covered
<1>3. \A c : Colon(c) => ~IsBrace(c)
  BY DEF IsBrace
<1> HIDE DEF Colon
<1>4. Colon(colon[1])
  BY <1>1 DEF Colon
<1> HIDE DEF colon
<1>5. colon \in Seq(S) /\ Len(colon) = 1
  BY <1>1
<1>6. Flat(colon)
  <2>1. Unbraced(colon)
    <3>1. \A i \in 1..1 : i = 1
      OBVIOUS
    <3> QED
      BY <1>3, <1>4, <1>5, <3>1 DEF Unbraced
  <2> QED
    BY <1>5, <2>1, UnbracedFlat
<1>7. text \in Seq(S) /\ InParts(text, path, colon, verb) /\ DepthInParts(text, path, colon, verb)
  BY <1>5, <1>6, ThreeParts, ThreeDepths
<1>8. DOMAIN text = 1..Len(text)
  BY <1>7
<1> HIDE DEF text
<1>9. m \in Nat /\ n \in Nat
  BY SMT
<1>10. /\ Len(text) = m + (1 + n)
       /\ \A i \in 1..1 : text[m + i] = colon[i]
       /\ \A i \in 1..n : text[m + (1 + i)] = verb[i]
  BY <1>5, <1>7 DEF InParts
<1>11. /\ \A i \in 0..1 : Depth(text)[m + i] = Depth(colon)[i]
       /\ \A i \in 0..n : Depth(text)[m + (1 + i)] = Depth(verb)[i]
  BY <1>5, <1>7 DEF DepthInParts
<1>12. Depth(colon)[1] = 0
  BY <1>5, <1>6 DEF Flat
<1> DEFINE D == TopColons(text)
<1>13. D = {i \in 1..Len(text) : Colon(text[i]) /\ Depth(text)[i] = 0}
  BY <1>8, Zenon DEF TopColons, Colon
<1> HIDE DEF D, m, n
<1>14. m + 1 \in D
  <2>1. 1 \in 1..1 /\ 1 \in 0..1 /\ m + 1 \in 1..Len(text)
    BY <1>9, <1>10
  <2>2. Colon(text[m + 1])
    BY <1>4, <1>10, <2>1
  <2>3. Depth(text)[m + 1] = 0
    BY <1>11, <1>12, <2>1
  <2> QED
    BY <1>13, <2>1, <2>2, <2>3
<1>15. \A j \in D : j <= m + 1
  <2> SUFFICES ASSUME NEW j \in D, ~(j <= m + 1) PROVE FALSE
    OBVIOUS
  <2> DEFINE i == j - (m + 1)
  <2>1. j \in 1..Len(text) /\ Colon(text[j]) /\ Depth(text)[j] = 0
    BY <1>13
  <2>2. i \in 1..n /\ i \in 0..n /\ m + (1 + i) = j
    BY <1>9, <1>10, <2>1
  <2> HIDE DEF i
  <2>3. Colon(verb[i]) /\ Depth(verb)[i] = 0
    BY <1>10, <1>11, <2>1, <2>2
  <2> QED
    BY <1>2, <2>2, <2>3
<1>16. verb_colon(text) = m + 1
  BY <1>7, <1>14, <1>15, VerbColonIs DEF D
<1> QED
  BY <1>7, <1>16 DEF text, colon, m

LEMMA SplitVerbWrites ==
  ASSUME NEW S, ":" \in S, NEW path \in Seq(S)
  PROVE  /\ Covered(path) => split_verb(path) = Parsed(NoVerb, path)
         /\ \A verb \in Seq(S) :
              Flat(path) /\ verb # <<>> /\ ~Contains(verb, "/") /\ verb_colon(verb) = 0 =>
                split_verb(Cat(path, Cat(One(":"), verb))) = Parsed(verb, path)
<1>1. ASSUME Covered(path) PROVE split_verb(path) = Parsed(NoVerb, path)
  <2>1. verb_colon(path) = 0
    BY <1>1, VerbColonIs
  <2> QED
    BY <2>1 DEF split_verb
<1>2. ASSUME NEW verb \in Seq(S), Flat(path), verb # <<>>, ~Contains(verb, "/"),
             verb_colon(verb) = 0
      PROVE  split_verb(Cat(path, Cat(One(":"), verb))) = Parsed(verb, path)
  <2> DEFINE text == Cat(path, Cat(One(":"), verb))
             n == Len(path)
             at == verb_colon(text)
  <2>1. at = n + 1
    BY <1>2, VerbFound
  <2>2. SubSeq(text, 1, n) = path /\ SubSeq(text, n + 2, Len(text)) = verb
    BY SepParts DEF Cat, One
  <2>3. n \in Nat
    OBVIOUS
  <2>4. UpTo(text, n) = path /\ From(text, n + 2) = verb
    BY <2>2 DEF UpTo, From
  <2> HIDE DEF text, n
  <2>5. at # 0 /\ at - 1 = n /\ at + 1 = n + 2
    BY <2>1, <2>3
  <2>6. split_verb(text) = IF at = 0 THEN Parsed(NoVerb, text)
                           ELSE IF From(text, at + 1) = <<>> \/ Contains(From(text, at + 1), "/")
                           THEN Failed
                           ELSE Parsed(From(text, at + 1), UpTo(text, at - 1))
    BY Zenon DEF split_verb
  <2> HIDE DEF at
  <2>7. split_verb(text) = Parsed(verb, path)
    BY <1>2, <2>4, <2>5, <2>6
  <2> QED
    BY <2>7 DEF text
<1> QED
  BY <1>1, <1>2

(* The characters of what stands in braces. *)
Bare(C) == C \ {"{", "}"}

LEMMA BareSeq ==
  ASSUME NEW C, NEW s \in Seq(Bare(C))
  PROVE  s \in Seq(C) /\ Unbraced(s) /\ Flat(s)
<1>1. s \in Seq(C) /\ Unbraced(s)
  BY UnbracedSeq DEF Bare
<1> QED
  BY <1>1, UnbracedFlat

LEMMA SlotTextBare ==
  ASSUME NEW C, Delimiters \subseteq C, NEW slot \in Slots(C)
  PROVE  /\ SlotText(slot) \in Seq(Bare(C))
         /\ slot.kind = "lit" => SlotText(slot) = slot.text
         /\ slot.kind # "lit" => Covered(SlotText(slot))
<1>1. CASE slot \in {Lit(l) : l \in LitTexts(C)}
  <2>1. PICK l \in LitTexts(C) : slot = Lit(l)
    BY <1>1
  <2>2. slot.kind = "lit" /\ slot.text = l /\ SlotText(slot) = l
    BY <2>1 DEF SlotText, Lit
  <2>3. l \in Seq(C) /\ \A i \in 1..Len(l) : l[i] \notin {"{", "}"}
    <3>1. l \in Seq(C) /\ \A i \in 1..Len(l) : l[i] \notin {"/", "*", "{", "}", "="}
      BY LitTextChars
    <3> QED
      BY <3>1
  <2>4. l \in Seq(Bare(C))
    BY <2>3, WithoutSeq DEF Bare
  <2> QED
    BY <2>2, <2>4
<1>2. CASE slot = Single \/ slot = CatchAll
  <2> DEFINE one == <<"*">>
             two == <<"*", "*">>
             D == Bare(C) \ {":"}
  <2>1. slot.kind # "lit" /\ SlotText(slot) \in {one, two}
    BY <1>2 DEF SlotText, Single, CatchAll
  <2>2. "*" \in D
    <3>1. "*" \in C
      BY Delimited
    <3> QED
      BY <3>1 DEF Bare
  <2> HIDE DEF D
  <2>3. one \in Seq(D) /\ two \in Seq(D)
    BY <2>2
  <2>4. SlotText(slot) \in Seq(D)
    BY <2>1, <2>3
  <2>5. SlotText(slot) \in Seq(Bare(C))
    <3>1. D \subseteq Bare(C)
      BY DEF D
    <3> QED
      BY <2>4, <3>1, WiderSeq
  <2>6. Covered(SlotText(slot))
    BY <2>4, ColonFree DEF D
  <2> QED
    BY <2>1, <2>5, <2>6
<1> QED
  BY <1>1, <1>2 DEF Slots

LEMMA SubTextBare ==
  ASSUME NEW C, Delimiters \subseteq C, NEW sub \in Subs(C)
  PROVE  Join(SlotTexts(sub), "/") \in Seq(Bare(C))
<1> DEFINE V == Slots(C)
           D == Bare(C)
           pieces == SlotTexts(sub)
<1>1. sub \in Seq(V) /\ sub # <<>>
  BY DEF Subs
<1>2. \A slot \in V : SlotText(slot) \in Seq(D)
  BY SlotTextBare
<1> HIDE DEF V, D
<1>3. DOMAIN sub = 1..Len(sub) /\ Len(sub) \in Nat \ {0} /\ \A i \in 1..Len(sub) : sub[i] \in V
  BY <1>1
<1>4. pieces = [i \in 1..Len(sub) |-> SlotText(sub[i])]
  BY <1>3 DEF SlotTexts
<1>5. pieces \in Seq(Seq(D)) /\ Len(pieces) = Len(sub)
  BY <1>2, <1>3, <1>4
<1>6. pieces # <<>>
  BY <1>3, <1>5
<1>7. pieces \in Parts(D)
  BY <1>5, <1>6 DEF Parts
<1>8. "/" \in D
  BY Delimited DEF D, Bare
<1> HIDE DEF pieces
<1>9. Join(pieces, "/") \in Seq(D)
  BY <1>7, <1>8, JoinType
<1> QED
  BY <1>9 DEF pieces, D

LEMMA BracedCovered ==
  ASSUME NEW C, Open \in Seq(C), Close \in Seq(C), NEW n \in Seq(C), NEW inner \in Seq(C),
         Unbraced(Cat(n, inner))
  PROVE  /\ Cat(Cat(Cat(Open, n), inner), Close) \in Seq(C)
         /\ Flat(Cat(Cat(Cat(Open, n), inner), Close))
         /\ Covered(Cat(Cat(Cat(Open, n), inner), Close))
<1> DEFINE T == Seq(C)
           s == Cat(n, inner)
<1>1. /\ \A x, y \in T : Cat(x, y) \in T
      /\ \A x, y, z \in T : Cat(Cat(x, y), z) = Cat(x, Cat(y, z))
      /\ Open \in T /\ Close \in T /\ n \in T /\ inner \in T
  <2>1. \A x, y \in T : Cat(x, y) \in T
    BY Cats
  <2>2. \A x, y, z \in T : Cat(Cat(x, y), z) = Cat(x, Cat(y, z))
    BY Cats
  <2> QED
    BY <2>1, <2>2
<1>2. /\ Cat(Open, Cat(s, Close)) \in T
      /\ Flat(Cat(Open, Cat(s, Close))) /\ Covered(Cat(Open, Cat(s, Close)))
  <2>1. s \in Seq(C) /\ Unbraced(s)
    BY <1>1
  <2> HIDE DEF s
  <2> QED
    BY <2>1, BracesCover
<1> HIDE DEF T
<1>3. Cat(Cat(Open, n), inner) = Cat(Open, s)
  BY <1>1
<1>4. Cat(Cat(Open, s), Close) = Cat(Open, Cat(s, Close))
  BY <1>1
<1>5. Cat(Cat(Cat(Open, n), inner), Close) = Cat(Open, Cat(s, Close))
  BY <1>3, <1>4
<1> QED
  BY <1>2, <1>5 DEF T

LEMMA VariableCovered ==
  ASSUME NEW C, Delimiters \subseteq C, NEW field \in Names(C), NEW sub \in Subs(C)
  PROVE  /\ VarText(field, sub) \in Seq(C) /\ Flat(VarText(field, sub)) /\ Covered(VarText(field, sub))
         /\ BareText(field) \in Seq(C) /\ Flat(BareText(field)) /\ Covered(BareText(field))
<1> DEFINE D == Bare(C)
           n == Join(field, ".")
           s == Join(SlotTexts(sub), "/")
           inner == Cat(Equals, s)
<1>1. Open \in Seq(C) /\ Close \in Seq(C)
  BY Delimited DEF Open, Close
<1>2. n \in Seq(D)
  <2>1. C \ {"=", "{", "}"} \subseteq D
    BY DEF Bare
  <2> DEFINE N == C \ {"=", "{", "}"}
  <2>2. n \in Seq(N)
    BY NameTexts
  <2> HIDE DEF N, D, n
  <2>3. N \subseteq D
    BY <2>1 DEF N
  <2> QED
    BY <2>2, <2>3, WiderSeq
<1>3. s \in Seq(D)
  BY SubTextBare
<1>4. Equals \in Seq(D)
  <2>1. "=" \in C
    BY Delimited
  <2>2. "=" \in D
    BY <2>1 DEF Bare
  <2> HIDE DEF D
  <2> QED
    BY <2>2 DEF Equals, One
<1> HIDE DEF D, n, s
<1>5. inner \in Seq(D) /\ Cat(n, inner) \in Seq(D)
  BY <1>2, <1>3, <1>4, Cats
<1> HIDE DEF inner
<1>6. /\ inner \in Seq(C) /\ n \in Seq(C) /\ Unbraced(Cat(n, inner)) /\ Unbraced(n)
  BY <1>2, <1>5, BareSeq DEF D
<1>7. VarText(field, sub) = Cat(Cat(Cat(Open, n), inner), Close)
  BY Zenon DEF VarText, Braced, n, s, inner
<1>8. BareText(field) = Cat(Cat(Open, n), Close)
  BY Zenon DEF BareText, n
<1>9. /\ VarText(field, sub) \in Seq(C) /\ Flat(VarText(field, sub)) /\ Covered(VarText(field, sub))
  BY <1>1, <1>6, <1>7, BracedCovered
<1>10. /\ BareText(field) \in Seq(C) /\ Flat(BareText(field)) /\ Covered(BareText(field))
  <2>1. Cat(Cat(Open, n), Close) = Cat(Open, Cat(n, Close))
    BY <1>1, <1>6, Cats
  <2>2. Cat(Open, Cat(n, Close)) \in Seq(C) /\ Flat(Cat(Open, Cat(n, Close)))
        /\ Covered(Cat(Open, Cat(n, Close)))
    BY <1>1, <1>6, BracesCover
  <2> QED
    BY <1>8, <2>1, <2>2
<1> QED
  BY <1>9, <1>10

LEMMA SegmentCovered ==
  ASSUME NEW C, Delimiters \subseteq C, NEW s, NEW piece, <<s, piece>> \in NamedReading(C)
  PROVE  /\ piece \in Seq(C) /\ Flat(piece)
         /\ (s.kind = "lit" => ~Contains(s.text, ":")) => Covered(piece)
<1>1. /\ s \in Segs(C) /\ (s.kind = "var" => s.field \in Names(C)) /\ piece \in Seq(C)
      /\ piece = SegmentText(s, FALSE) \/ (piece = SegmentText(s, TRUE) /\ MayBeBare(s))
  BY DEF NamedReading, SegmentReading
<1>2. CASE s \in Slots(C)
  <2>1. s.kind # "var"
    BY <1>2 DEF Slots, Lit, Single, CatchAll
  <2>2. piece = SlotText(s)
    BY <1>1, <2>1 DEF MayBeBare, SegmentText
  <2>3. piece \in Seq(Bare(C)) /\ (s.kind = "lit" => piece = s.text) /\ (s.kind # "lit" => Covered(piece))
    BY <1>2, <2>2, SlotTextBare
  <2>4. Flat(piece)
    BY <2>3, BareSeq
  <2>5. ~Contains(piece, ":") => Covered(piece)
    <3>1. DOMAIN piece = 1..Len(piece)
      BY <1>1
    <3> QED
      BY <3>1 DEF Contains, Covered
  <2> QED
    BY <1>1, <2>3, <2>4, <2>5
<1>3. CASE s \notin Slots(C)
  <2>1. PICK field \in Fields(C), sub \in Subs(C) : s = Var(field, sub)
    BY <1>1, <1>3 DEF Segs
  <2>2. s.kind = "var" /\ s.field = field
    BY <2>1 DEF Var
  <2>3. field \in Names(C)
    BY <1>1, <2>2
  <2>4. Join(field, ".") \in Seq(C)
    BY <2>3, NameTexts
  <2>5. SegmentText(s, FALSE) = VarText(field, sub) /\ SegmentText(s, TRUE) = BareText(field)
    BY <2>1, <2>4, VariableTexts
  <2>6. piece = VarText(field, sub) \/ piece = BareText(field)
    BY <1>1, <2>5
  <2>7. /\ Flat(VarText(field, sub)) /\ Covered(VarText(field, sub))
        /\ Flat(BareText(field)) /\ Covered(BareText(field))
    BY <2>3, VariableCovered
  <2> QED
    BY <1>1, <2>6, <2>7
<1> QED
  BY <1>2, <1>3

LEMMA SlashedCovered ==
  ASSUME NEW C, "/" \in C, NEW pieces \in Seq(Seq(C)), \A i \in 1..Len(pieces) : Flat(pieces[i])
  PROVE  /\ Slashed(pieces) \in Seq(C) /\ Flat(Slashed(pieces))
         /\ (\A i \in 1..Len(pieces) : Covered(pieces[i])) => Covered(Slashed(pieces))
<1> DEFINE P == {p \in Seq(C) : Flat(p)}
           Q == {p \in P : Covered(p)}
           T == {s \in Seq(P) : Slashed(s) \in Seq(C) /\ Flat(Slashed(s))}
           U == {s \in Seq(Q) : Slashed(s) \in Seq(C) /\ Flat(Slashed(s)) /\ Covered(Slashed(s))}
<1>1. Flat(<<>>) /\ Covered(<<>>) /\ <<>> \in Seq(C) /\ Flat(<<"/">>) /\ Covered(<<"/">>) /\ <<"/">> \in Seq(C)
  <2>1. <<>> \in Seq(C) /\ <<"/">> \in Seq(C)
    OBVIOUS
  <2>2. Flat(<<>>) /\ Flat(<<"/">>)
    <3> DEFINE D == Bare(C)
               slash == <<"/">>
    <3>1. "/" \in D
      BY DEF Bare
    <3> HIDE DEF D
    <3>2. <<>> \in Seq(D) /\ slash \in Seq(D)
      BY <3>1
    <3> HIDE DEF slash
    <3>3. Flat(<<>>) /\ Flat(slash)
      BY <3>2, BareSeq DEF D
    <3> QED
      BY <3>3 DEF slash
  <2>3. Covered(<<>>) /\ Covered(<<"/">>)
    BY DEF Covered
  <2> QED
    BY <2>1, <2>2, <2>3
<1>2. ASSUME NEW s \in Seq(Seq(C)), NEW p \in Seq(C), Slashed(s) \in Seq(C), Flat(Slashed(s)), Flat(p)
      PROVE  /\ Slashed(Append(s, p)) \in Seq(C) /\ Flat(Slashed(Append(s, p)))
             /\ Covered(Slashed(s)) /\ Covered(p) => Covered(Slashed(Append(s, p)))
  <2> DEFINE slash == <<"/">>
             more == Cat(slash, p)
  <2>1. Slashed(Append(s, p)) = Cat(Slashed(s), more)
    BY SlashedAppend DEF Cat
  <2>2. slash \in Seq(C) /\ Flat(slash) /\ Covered(slash)
    BY <1>1
  <2> HIDE DEF slash
  <2>3. more \in Seq(C) /\ Flat(more) /\ (Covered(p) => Covered(more))
    BY <1>2, <2>2, Cats, FlatCat
  <2> HIDE DEF more
  <2>4. /\ Cat(Slashed(s), more) \in Seq(C) /\ Flat(Cat(Slashed(s), more))
        /\ Covered(Slashed(s)) /\ Covered(more) => Covered(Cat(Slashed(s), more))
    BY <1>2, <2>3, Cats, FlatCat
  <2> QED
    BY <2>1, <2>3, <2>4
<1>3. \A s \in Seq(P) : s \in T
  <2>1. <<>> \in T
    <3>1. <<>> \in Seq(P)
      OBVIOUS
    <3> HIDE DEF P
    <3> QED
      BY <1>1, <3>1, SlashedEmpty
  <2>2. ASSUME NEW s \in Seq(P), NEW p \in P, s \in T PROVE Append(s, p) \in T
    <3>1. Append(s, p) \in Seq(P)
      BY AppendType
    <3>2. s \in Seq(Seq(C)) /\ p \in Seq(C) /\ Flat(p)
      <4>1. P \subseteq Seq(C)
        OBVIOUS
      <4> QED
        BY <4>1, WiderSeq
    <3>3. Slashed(s) \in Seq(C) /\ Flat(Slashed(s))
      BY <2>2
    <3>4. Slashed(Append(s, p)) \in Seq(C) /\ Flat(Slashed(Append(s, p)))
      BY <1>2, <3>2, <3>3
    <3> QED
      BY <3>1, <3>4
  <2> HIDE DEF T, P
  <2> QED
    BY <2>1, <2>2, SeqInduction
<1>4. \A s \in Seq(Q) : s \in U
  <2>1. <<>> \in U
    <3>1. <<>> \in Seq(Q)
      OBVIOUS
    <3> HIDE DEF Q
    <3> QED
      BY <1>1, <3>1, SlashedEmpty
  <2>2. ASSUME NEW s \in Seq(Q), NEW p \in Q, s \in U PROVE Append(s, p) \in U
    <3>1. Append(s, p) \in Seq(Q)
      BY AppendType
    <3>2. s \in Seq(Seq(C)) /\ p \in Seq(C) /\ Flat(p) /\ Covered(p)
      <4>1. Q \subseteq Seq(C)
        OBVIOUS
      <4> QED
        BY <4>1, WiderSeq
    <3>3. Slashed(s) \in Seq(C) /\ Flat(Slashed(s)) /\ Covered(Slashed(s))
      BY <2>2
    <3>4. Slashed(Append(s, p)) \in Seq(C) /\ Flat(Slashed(Append(s, p)))
          /\ Covered(Slashed(Append(s, p)))
      BY <1>2, <3>2, <3>3
    <3> QED
      BY <3>1, <3>4
  <2> HIDE DEF U, Q
  <2> QED
    BY <2>1, <2>2, SeqInduction
<1>5. pieces \in Seq(P)
  OBVIOUS
<1>6. (\A i \in 1..Len(pieces) : Covered(pieces[i])) => pieces \in Seq(Q)
  OBVIOUS
<1> QED
  BY <1>3, <1>4, <1>5, <1>6

(***************************************************************************)
(* The whole of a template.                                                *)
(***************************************************************************)
LEMMA ParseRuns ==
  ASSUME NEW text, StartsWith(text, "/"), NEW verb, NEW path, Gives(split_verb(text), verb, path),
         NEW segments, Gives(parse_segments(Tail(path)), segments, <<>>)
  PROVE  parse(text) = Parsed([segments |-> segments, verb |-> verb], <<>>)
<1>1. \A a, b : Parsed(a, b).ok /\ Parsed(a, b).value = a /\ Parsed(a, b).rest = b
  BY DEF Parsed
<1> HIDE DEF Parsed
<1> DEFINE verbed == split_verb(text)
           list == parse_segments(Tail(path))
           none == <<>>
           whole(v, s) == Parsed([segments |-> s, verb |-> v], none)
           result == parse(text)
<1>2. result =
        IF verbed.ok
        THEN IF parse_segments(Tail(verbed.rest)).ok
             THEN IF parse_segments(Tail(verbed.rest)).rest # <<>> THEN Failed
                  ELSE whole(verbed.value, parse_segments(Tail(verbed.rest)).value)
             ELSE Failed
        ELSE Failed
  BY Zenon DEF parse, Then
<1>3. verbed = Parsed(verb, path) /\ list = Parsed(segments, none)
  BY DEF Gives
<1>4. result = parse(text) /\ none = <<>>
  OBVIOUS
<1> HIDE DEF verbed, list, whole, none, result
<1>5. verbed.ok /\ verbed.value = verb /\ verbed.rest = path
  BY <1>1, <1>3
<1>6. list.ok /\ list.value = segments /\ list.rest = none
  BY <1>1, <1>3
<1>7. parse_segments(Tail(verbed.rest)) = list
  BY <1>5 DEF list
<1>8. result = whole(verb, segments)
  BY <1>2, <1>4, <1>5, <1>6, <1>7
<1> QED
  BY <1>4, <1>8 DEF whole, none

(* The parser reads segments back from a path, and from it with a verb. *)
ReadBack(C, segments, path) ==
  /\ (\A i \in 1..Len(segments) :
        segments[i].kind = "lit" => ~Contains(segments[i].text, ":")) =>
       parse(path) = Parsed([segments |-> segments, verb |-> NoVerb], <<>>)
  /\ \A verb \in Seq(C) :
       verb # <<>> /\ ~Contains(verb, "/") /\ verb_colon(verb) = 0 =>
         parse(Cat(path, Cat(One(":"), verb))) = Parsed([segments |-> segments, verb |-> verb], <<>>)

LEMMA ParseWrites ==
  ASSUME NEW C, Delimiters \subseteq C, NEW segments \in Seq(Segs(C)),
         NEW pieces \in Seq(Seq(C)), pieces # <<>>,
         Spelled(NamedReading(C), segments, pieces), OnlyLast(segments),
         NEW path, path = Cat(One("/"), Join(pieces, "/"))
  PROVE  ReadBack(C, segments, path)
<1>1. "/" \in C /\ ":" \in C
  BY Delimited
<1>2. path = Slashed(pieces) /\ Join(pieces, "/") \in Seq(C)
  <2>1. Slashed(pieces) = Cat(One("/"), Join(pieces, "/")) /\ Join(pieces, "/") \in Seq(C)
    BY <1>1, SlashedJoin, Zenon
  <2> QED
    BY <2>1
<1>3. path \in Seq(C) /\ StartsWith(path, "/") /\ Tail(path) = Join(pieces, "/")
  <2> DEFINE joined == Join(pieces, "/")
  <2>1. joined \in Seq(C) /\ path = Cat(One("/"), joined)
    BY <1>2
  <2> HIDE DEF joined
  <2>2. path \in Seq(C) /\ StartsWith(path, "/") /\ Tail(path) = joined
    BY <1>1, <2>1, Before1
  <2> QED
    BY <2>2 DEF joined
<1>4. Gives(parse_segments(Tail(path)), segments, <<>>)
  BY <1>3, ParseSegmentsWrite DEF Gives
<1>5. Len(pieces) = Len(segments) /\ \A i \in 1..Len(pieces) : <<segments[i], pieces[i]>> \in NamedReading(C)
  BY Zenon DEF Spelled
<1>6. \A i \in 1..Len(pieces) :
        /\ Flat(pieces[i])
        /\ (segments[i].kind = "lit" => ~Contains(segments[i].text, ":")) => Covered(pieces[i])
  BY <1>5, SegmentCovered
<1>7. /\ Flat(path)
      /\ (\A i \in 1..Len(pieces) : Covered(pieces[i])) => Covered(path)
  <2>1. \A i \in 1..Len(pieces) : Flat(pieces[i])
    BY <1>6
  <2> QED
    BY <1>1, <1>2, <2>1, SlashedCovered
<1>8. ASSUME \A i \in 1..Len(segments) : segments[i].kind = "lit" => ~Contains(segments[i].text, ":")
      PROVE  parse(path) = Parsed([segments |-> segments, verb |-> NoVerb], <<>>)
  <2>1. \A i \in 1..Len(pieces) : Covered(pieces[i])
    BY <1>5, <1>6, <1>8
  <2>2. Covered(path)
    BY <1>7, <2>1
  <2>3. Gives(split_verb(path), NoVerb, path)
    BY <1>1, <1>3, <2>2, SplitVerbWrites DEF Gives
  <2> QED
    BY <1>3, <1>4, <2>3, ParseRuns
<1>9. ASSUME NEW verb \in Seq(C), verb # <<>>, ~Contains(verb, "/"), verb_colon(verb) = 0
      PROVE  parse(Cat(path, Cat(One(":"), verb)))
               = Parsed([segments |-> segments, verb |-> verb], <<>>)
  <2> DEFINE tail == Cat(One(":"), verb)
             text == Cat(path, tail)
  <2>1. tail \in Seq(C)
    BY <1>1, Cats
  <2>2. split_verb(text) = Parsed(verb, path)
    BY <1>1, <1>3, <1>7, <1>9, SplitVerbWrites
  <2> HIDE DEF tail
  <2>3. StartsWith(text, "/")
    BY <1>3, <2>1, StartsCat
  <2> HIDE DEF text
  <2>4. Gives(split_verb(text), verb, path)
    BY <2>2 DEF Gives
  <2>5. parse(text) = Parsed([segments |-> segments, verb |-> verb], <<>>)
    BY <1>4, <2>3, <2>4, ParseRuns
  <2> QED
    BY <2>5 DEF text, tail
<1> QED
  BY <1>8, <1>9, Zenon DEF ReadBack

(***************************************************************************)
(* The templates of the specification can be written down.                 *)
(***************************************************************************)
(* The slots of a segment can be written in its characters. *)
LEMMA SlotSpelled ==
  ASSUME NEW segments \in Templates, NEW k \in DOMAIN segments,
         expand(segments[k]) \in SlotSeq
  PROVE  expand(segments[k]) \in Subs(Sign)
<1> DEFINE t == Unverbed(segments)
           e == expand(segments[k])
<1>1. t.segments = segments
  BY DEF Unverbed
<1> HIDE DEF t
<1>2. /\ \A lit \in Literals(t) :
           lit.text # <<>> /\ ToSet(lit.text) \cap {"/", "*", "{", "}", "="} = {}
      /\ \A lit \in Literals(t) : lit.text \in Seq(Sign)
  BY SpelledInputs, Zenon DEF WellFormedTemplate, t
<1>3. \A lit \in Literals(t) : lit.text \in LitTexts(Sign)
  BY <1>2 DEF LitTexts
<1>4. \A s \in ToSet(e) : s.kind = "lit" => s \in Literals(t)
  BY <1>1 DEF Literals
<1>5. e \in Seq(Slot) /\ e # <<>> /\ Len(e) \in Nat /\ \A i \in 1..(Len(e) - 1) : e[i] # CatchAll
  BY DEF SlotSeq
<1>6. ASSUME NEW i \in 1..Len(e) PROVE e[i] \in Slots(Sign)
  <2>1. /\ e[i].kind \in {"lit", "any", "rest"}
        /\ e[i].kind = "any" => e[i] = Single
        /\ e[i].kind = "rest" => e[i] = CatchAll
        /\ e[i].kind = "lit" => e[i] = Lit(e[i].text)
    BY SlotKinds
  <2>2. e[i] \in ToSet(e)
    BY <1>5 DEF ToSet
  <2>3. CASE e[i].kind = "lit"
    <3>1. e[i].text \in LitTexts(Sign)
      BY <1>3, <1>4, <2>2, <2>3
    <3> QED
      BY <2>1, <2>3, <3>1 DEF Slots
  <2>4. CASE e[i].kind # "lit"
    BY <2>1, <2>4 DEF Slots
  <2> QED
    BY <2>3, <2>4
<1>7. e \in Seq(Slots(Sign))
  BY <1>5, <1>6
<1>8. OnlyLast(e)
  <2>1. ASSUME NEW i \in 1..(Len(e) - 1) PROVE ~is_catch_all(e[i])
    <3>1. i \in 1..Len(e) /\ e[i] # CatchAll
      BY <1>5
    <3>2. e[i].kind # "var"
      BY <3>1, SlotKinds
    <3> QED
      BY <3>1, <3>2 DEF is_catch_all
  <2> QED
    BY <2>1 DEF OnlyLast
<1> QED
  BY <1>5, <1>7, <1>8 DEF Subs

(* `is_catch_all` is whether the segment is open. *)
LEMMA OpenOrNot ==
  ASSUME NEW F, NEW s \in Segment(F), expand(s) \in SlotSeq
  PROVE  is_catch_all(s) <=> IsOpen(expand(s))
<1> DEFINE e == expand(s)
<1>1. CASE s.kind # "var"
  <2>1. s \in Slot /\ e = <<s>>
    BY <1>1, SegmentKinds
  <2>2. IsOpen(e) <=> s = CatchAll
    BY <2>1, OneSlot
  <2> QED
    BY <1>1, <2>2 DEF is_catch_all
<1>2. CASE s.kind = "var"
  <2>1. e = s.sub /\ s # CatchAll
    BY <1>2, SegmentKinds DEF CatchAll
  <2>2. e \in Seq(Slot) /\ e # <<>> /\ \A i \in 1..(Len(e) - 1) : e[i] # CatchAll
    BY DEF SlotSeq
  <2>3. IsOpen(e) <=> Contains(e, CatchAll)
    <3>1. Len(e) \in Nat \ {0} /\ DOMAIN e = 1..Len(e)
      BY <2>2
    <3> DEFINE n == Len(e)
    <3> HIDE DEF n
    <3>2. Len(e) = n /\ n \in Nat /\ n # 0
      BY <3>1 DEF n
    <3>3. n \in 1..n /\ \A i \in 1..n : i = n \/ i \in 1..(n - 1)
      BY <3>2
    <3> QED
      BY <2>2, <3>1, <3>2, <3>3 DEF IsOpen, Contains
  <2> QED
    BY <1>2, <2>1, <2>3 DEF is_catch_all
<1> QED
  BY <1>1, <1>2

LEMMA TemplateSegments ==
  ASSUME NEW segments \in Templates
  PROVE  /\ segments \in Seq(Segs(Sign)) /\ segments # <<>> /\ OnlyLast(segments)
         /\ \A k \in 1..Len(segments) :
              segments[k].kind = "var" => segments[k].field \in Names(Sign)
<1> DEFINE t == Unverbed(segments)
           n == Len(segments)
<1>1. t \in Template(Field) /\ t.segments = segments
  BY TemplateTypes
<1>2. /\ n \in Nat \ {0} /\ DOMAIN segments = 1..n
      /\ \A k \in 1..n : segments[k] \in Segment(Field)
      /\ \A k \in 1..n : Expanded(t)[k] = expand(segments[k]) /\ expand(segments[k]) \in SlotSeq
  BY <1>1, ExpandedType
<1>3. \A k \in 1..(n - 1) : ~IsOpen(expand(segments[k]))
  <2>1. \A k \in 1..(n - 1) : ~IsOpen(Expanded(t)[k])
    BY <1>1, OnlyLastOpen
  <2>2. \A k \in 1..(n - 1) : k \in 1..n
    BY <1>2
  <2> QED
    BY <1>2, <2>1, <2>2
<1>4. segments \in Seq(Segment(Field))
  BY <1>1 DEF Template
<1>5. ASSUME NEW k \in 1..n, segments[k].kind = "var" PROVE segments[k].field \in Names(Sign)
  <2> DEFINE field == segments[k].field
             D == Sign \ {".", "=", "{", "}"}
  <2>1. field \in Seq(Seq(D))
    BY <1>2, <1>5, SpelledInputs
  <2>2. field # <<>> /\ ~Contains(field, <<>>)
    <3>1. \A j \in DOMAIN t.segments :
            t.segments[j].kind = "var" =>
              t.segments[j].field # <<>> /\ ~Contains(t.segments[j].field, <<>>)
      BY SpelledInputs, Zenon DEF WellFormedTemplate
    <3> HIDE DEF t
    <3> QED
      BY <1>1, <1>2, <1>5, <3>1
  <2>3. field \in Seq(Seq(Sign))
    <3>1. \A s \in Seq(D) : s \in Seq(Sign)
      <4>1. D \subseteq Sign
        OBVIOUS
      <4> HIDE DEF D
      <4> QED
        BY <4>1, WiderSeq
    <3> HIDE DEF D, field
    <3> QED
      BY <2>1, <3>1, WiderSeq
  <2> QED
    BY <2>1, <2>2, <2>3 DEF Names, Fields, Parts
<1>6. ASSUME NEW k \in 1..n PROVE segments[k] \in Segs(Sign)
  <2>1. expand(segments[k]) \in Subs(Sign)
    BY <1>2, SlotSpelled
  <2>2. segments[k] \in Segment(Field)
    BY <1>2
  <2>3. CASE segments[k].kind # "var"
    <3>1. expand(segments[k]) = <<segments[k]>>
      BY <2>2, <2>3, SegmentKinds
    <3>2. <<segments[k]>> \in Seq(Slots(Sign))
      BY <2>1, <3>1 DEF Subs
    <3>3. segments[k] \in Slots(Sign)
      BY <3>2
    <3> QED
      BY <3>3 DEF Segs
  <2>4. CASE segments[k].kind = "var"
    <3>1. segments[k] = Var(segments[k].field, segments[k].sub)
      BY <2>2, <2>4 DEF Segment, Slot, Single, CatchAll, Var
    <3>2. expand(segments[k]) = segments[k].sub
      BY <2>4 DEF expand
    <3>3. segments[k].field \in Fields(Sign)
      BY <1>5, <2>4 DEF Names
    <3> QED
      BY <2>1, <3>1, <3>2, <3>3, VarIsSegment
  <2> QED
    BY <2>3, <2>4
<1>7. segments \in Seq(Segs(Sign))
  BY <1>2, <1>4, <1>6
<1>8. OnlyLast(segments)
  <2>1. ASSUME NEW k \in 1..(n - 1) PROVE ~is_catch_all(segments[k])
    <3>1. k \in 1..n
      BY <1>2
    <3> QED
      BY <1>2, <1>3, <3>1, OpenOrNot
  <2> QED
    BY <2>1 DEF OnlyLast
<1>9. segments # <<>>
  BY <1>2
<1> QED
  BY <1>5, <1>7, <1>8, <1>9

(* A way to write a template: the texts of its segments. *)
TextsOf(segments, sugared) ==
  [k \in DOMAIN segments |-> SegmentText(segments[k], k \in sugared)]

AllNamed(C, segments) ==
  \A k \in 1..Len(segments) : segments[k].kind = "var" => segments[k].field \in Names(C)

AllBare(segments, sugared) == \A k \in DOMAIN segments : k \in sugared => MayBeBare(segments[k])

LEMMA SegmentsSpelled ==
  ASSUME NEW C, Delimiters \subseteq C, NEW segments \in Seq(Segs(C)), segments # <<>>,
         AllNamed(C, segments), NEW sugared, AllBare(segments, sugared),
         NEW pieces, pieces = TextsOf(segments, sugared)
  PROVE  /\ pieces \in Seq(Seq(C)) /\ pieces # <<>>
         /\ Spelled(NamedReading(C), segments, pieces)
<1> USE DEF TextsOf, AllNamed, AllBare
<1> DEFINE n == Len(segments)
<1>1. /\ n \in Nat \ {0} /\ DOMAIN segments = 1..n
      /\ \A k \in 1..n : segments[k] \in Segs(C)
  OBVIOUS
<1>2. ASSUME NEW k \in 1..n
      PROVE  /\ pieces[k] = SegmentText(segments[k], FALSE)
                \/ (pieces[k] = SegmentText(segments[k], TRUE) /\ MayBeBare(segments[k]))
  <2>1. pieces[k] = SegmentText(segments[k], k \in sugared)
    BY <1>1
  <2>2. k \in sugared => MayBeBare(segments[k])
    BY <1>1
  <2> QED
    BY <2>1, <2>2, SugarOrNot, Zenon
<1>3. ASSUME NEW k \in 1..n
      PROVE  pieces[k] \in Seq(C)
  <2> DEFINE s == segments[k]
  <2>1. s \in Segs(C) /\ (s.kind = "var" => s.field \in Names(C))
    BY <1>1
  <2>2. CASE s \in Slots(C)
    <3>1. s.kind # "var"
      BY <2>2 DEF Slots, Lit, Single, CatchAll
    <3>2. pieces[k] = SlotText(s)
      BY <1>2, <3>1 DEF SegmentText, MayBeBare
    <3>3. SlotText(s) \in Seq(Bare(C))
      BY <2>2, SlotTextBare
    <3> QED
      BY <3>2, <3>3, BareSeq
  <2>3. CASE s \notin Slots(C)
    <3>1. PICK field \in Fields(C), sub \in Subs(C) : s = Var(field, sub)
      BY <2>1, <2>3 DEF Segs
    <3>2. s.kind = "var" /\ s.field = field
      BY <3>1 DEF Var
    <3>3. field \in Names(C)
      BY <2>1, <3>2
    <3>4. Join(field, ".") \in Seq(C)
      BY <3>3, NameTexts
    <3>5. SegmentText(s, FALSE) = VarText(field, sub) /\ SegmentText(s, TRUE) = BareText(field)
      BY <3>1, <3>4, VariableTexts
    <3>6. VarText(field, sub) \in Seq(C) /\ BareText(field) \in Seq(C)
      BY <3>3, VariableCovered
    <3> QED
      BY <1>2, <3>5, <3>6
  <2> QED
    BY <2>2, <2>3
<1>4. pieces = [k \in 1..n |-> pieces[k]]
  BY <1>1
<1>5. ASSUME NEW k \in 1..n PROVE <<segments[k], pieces[k]>> \in NamedReading(C)
  <2> DEFINE pair == <<segments[k], pieces[k]>>
  <2>1. pair[1] = segments[k] /\ pair[2] = pieces[k]
    OBVIOUS
  <2>2. pair \in Segs(C) \X Seq(C)
    BY <1>1, <1>3
  <2>3. pair[1].kind = "var" => pair[1].field \in Names(C)
    BY <1>1, <2>1
  <2> HIDE DEF pair
  <2>4. pair \in SegmentReading(C)
    BY <1>2, <2>1, <2>2 DEF SegmentReading
  <2>5. pair \in NamedReading(C)
    BY <2>3, <2>4 DEF NamedReading
  <2> QED
    BY <2>5 DEF pair
<1> HIDE DEF n
<1>6. pieces \in Seq(Seq(C)) /\ Len(pieces) = n
  <2> DEFINE T == Seq(C)
  <2>1. \A k \in 1..n : pieces[k] \in T
    BY <1>3
  <2> HIDE DEF T
  <2>2. pieces \in Seq(T) /\ Len(pieces) = n
    BY <1>1, <1>4, <2>1
  <2> QED
    BY <2>2 DEF T
<1>7. pieces # <<>>
  BY <1>1, <1>6
<1>8. Spelled(NamedReading(C), segments, pieces)
  BY <1>5, <1>6 DEF Spelled, n
<1> QED
  BY <1>6, <1>7, <1>8

(* Written without a verb, or with it. *)
VerbText(t, path) == IF t.verb = NoVerb THEN path ELSE Cat(path, Cat(One(":"), t.verb))

LEMMA TemplateTexts ==
  ASSUME NEW C, Delimiters \subseteq C, NEW t, NEW sugared, NEW pieces \in Seq(Seq(C)), pieces # <<>>,
         pieces = TextsOf(t.segments, sugared),
         NEW path, path = Cat(One("/"), Join(pieces, "/"))
  PROVE  TemplateText(t, sugared) = VerbText(t, path)
<1>1. path \in Seq(C)
  <2>1. "/" \in C /\ One("/") \in Seq(C)
    BY Delimited
  <2>2. Join(pieces, "/") \in Seq(C)
    BY <2>1, SlashedJoin
  <2> QED
    BY <2>1, <2>2, Cats
<1>2. path \o <<>> = path
  BY <1>1, ConcatEmptySeq
<1>3. TemplateText(t, sugared) = path \o (IF t.verb = NoVerb THEN <<>> ELSE <<":">> \o t.verb)
  <2>1. path = <<"/">> \o Join([k \in DOMAIN t.segments |-> SegmentText(t.segments[k], k \in sugared)], "/")
    BY Zenon DEF Cat, One, TextsOf
  <2> QED
    BY <2>1, Zenon DEF TemplateText
<1>4. CASE t.verb = NoVerb
  BY <1>2, <1>3, <1>4 DEF VerbText
<1>5. CASE t.verb # NoVerb
  BY <1>3, <1>5 DEF Cat, One, VerbText
<1> QED
  BY <1>4, <1>5

(* The parser accepts every template in each of its spellings, and reads   *)
(* it back as it was written: the matcher and the overlap test work on     *)
(* what the author of the template meant.                                  *)
THEOREM ParseIsCompleteInvariant == Spec => []ParseIsComplete
<1>1. Delimiters \subseteq Sign /\ NoVerb \notin Verb
  BY TextInputs, PathTemplateAssumptions DEF Delimiters
<1>2. \A verb \in Verb :
        verb \in Seq(Sign) /\ verb # <<>> /\ ~Contains(verb, "/") /\ verb_colon(verb) = 0
  BY SpelledInputs
<1>3. ASSUME NEW segments \in Templates, NEW v \in Verb \cup {NoVerb}, NEW t,
             t = [segments |-> segments, verb |-> v],
             v = NoVerb => \A k \in DOMAIN segments :
                             segments[k].kind = "lit" => ~Contains(segments[k].text, ":"),
             NEW text \in Spellings(t)
      PROVE  parse(text) = Parsed(t, <<>>)
  <2>1. t.segments = segments /\ t.verb = v
    BY <1>3
  <2>2. PICK sugared : AllBare(t.segments, sugared) /\ text = TemplateText(t, sugared)
    <3>1. PICK sugared \in SUBSET {k \in DOMAIN t.segments :
                   t.segments[k].kind = "var" /\ t.segments[k].sub = <<Single>>} :
            text = TemplateText(t, sugared)
      BY Zenon DEF Spellings
    <3>2. AllBare(t.segments, sugared)
      BY DEF AllBare, MayBeBare
    <3> QED
      BY <3>1, <3>2, Zenon
  <2> DEFINE pieces == TextsOf(segments, sugared)
             path == Cat(One("/"), Join(pieces, "/"))
             D == DOMAIN segments
  <2>3. /\ segments \in Seq(Segs(Sign)) /\ segments # <<>> /\ OnlyLast(segments)
        /\ AllNamed(Sign, segments)
    BY TemplateSegments DEF AllNamed
  <2>4. pieces = TextsOf(t.segments, sugared) /\ pieces = TextsOf(segments, sugared)
    BY <2>1
  <2>5. AllBare(segments, sugared)
    BY <2>1, <2>2
  <2>6. path = Cat(One("/"), Join(pieces, "/"))
    OBVIOUS
  <2>7. D = DOMAIN segments /\ D = 1..Len(segments)
    BY <2>3
  <2> HIDE DEF pieces, path
  <2>8. /\ pieces \in Seq(Seq(Sign)) /\ pieces # <<>>
        /\ Spelled(NamedReading(Sign), segments, pieces)
    BY <1>1, <2>3, <2>4, <2>5, SegmentsSpelled
  <2>9. TemplateText(t, sugared) = VerbText(t, path)
    BY <1>1, <2>4, <2>6, <2>8, TemplateTexts
  <2>10. ReadBack(Sign, segments, path)
    BY <1>1, <2>3, <2>6, <2>8, ParseWrites
  <2>11. CASE v = NoVerb
    <3>1. \A i \in 1..Len(segments) :
            segments[i].kind = "lit" => ~Contains(segments[i].text, ":")
      BY <1>3, <2>7, <2>11
    <3>2. parse(path) = Parsed([segments |-> segments, verb |-> NoVerb], <<>>)
      BY <2>10, <3>1, Zenon DEF ReadBack
    <3> QED
      BY <1>3, <2>1, <2>2, <2>9, <2>11, <3>2, Zenon DEF VerbText
  <2>12. CASE v # NoVerb
    <3>1. v \in Seq(Sign) /\ v # <<>> /\ ~Contains(v, "/") /\ verb_colon(v) = 0
      BY <1>2, <2>12
    <3>2. parse(Cat(path, Cat(One(":"), v))) = Parsed([segments |-> segments, verb |-> v], <<>>)
      BY <2>10, <3>1, Zenon DEF ReadBack
    <3>3. text = Cat(path, Cat(One(":"), v))
      BY <2>1, <2>2, <2>9, <2>12, Zenon DEF VerbText
    <3> QED
      BY <1>3, <3>2, <3>3, Zenon
  <2> QED
    BY <2>11, <2>12
<1>4. Inputs => ParseIsComplete
  <2> SUFFICES ASSUME Inputs, about = "template", NEW v \in Verb \cup {NoVerb}, NEW t,
                      t = [segments |-> arg, verb |-> v],
                      v = NoVerb => \A k \in DOMAIN arg :
                                      arg[k].kind = "lit" => ~Contains(arg[k].text, ":"),
                      NEW text \in Spellings(t)
               PROVE  parse(text) = Parsed(t, <<>>)
    BY Zenon DEF ParseIsComplete
  <2>1. arg \in Templates
    BY DEF Inputs
  <2> QED
    BY <1>3, <2>1
<1> QED
  BY <1>4, InputsInvariant, PTL
=============================================================================
