----------------------------- MODULE ScalarText -----------------------------
(***************************************************************************)
(* Scalars at the two edges of the gateway: texts of path variables and    *)
(* query parameters become values of a field's kind (`coerce_scalar`,      *)
(* transcode.rs), and the field a rule's response_body names becomes JSON  *)
(* (`encode_field_json`, gateway.rs).                                      *)
(*                                                                         *)
(* A text is the decimal of an integer or a word.  Integers have Bits bits *)
(* or Bits64 bits.                                                         *)
(***************************************************************************)
EXTENDS Integers, Sequences

CONSTANTS
  Bits, Bits64,  \* the widths of 32 and 64 bit integers
  EnumNames      \* [numbers -> words]: the values the enum declares

Decimal(n) == <<"decimal", n>>
Word(w)    == <<"word", w>>

Signed(bits)   == -(2^(bits - 1)) .. 2^(bits - 1) - 1
Unsigned(bits) == 0 .. 2^bits - 1

(* The floats that are no number; others are integers here. *)
NotFinite == {"NaN", "Infinity", "-Infinity"}

Kind == {"bool", "int32", "int64", "uint32", "uint64", "double", "string", "enum", "bytes"}

(* The values of each kind, as <<kind, value>>. *)
Values(kind) ==
  CASE kind = "bool"   -> BOOLEAN
    [] kind = "int32"  -> Signed(Bits)
    [] kind = "int64"  -> Signed(Bits64)
    [] kind = "uint32" -> Unsigned(Bits)
    [] kind = "uint64" -> Unsigned(Bits64)
    [] kind = "double" -> {Decimal(n) : n \in Signed(Bits)} \cup {Word(w) : w \in NotFinite}
    [] kind = "string" -> {Decimal(1), Word("true"), Word("NaN"), Word("other")}
    [] kind = "enum"   -> Signed(Bits)
    [] kind = "bytes"  -> {}

(* `BindError::InvalidValue`, and the `UnsupportedField` of bytes.         *)
Invalid     == [ok |-> FALSE, error |-> "invalid_value"]
Unsupported == [ok |-> FALSE, error |-> "unsupported_field"]
Coerced(v)  == [ok |-> TRUE, value |-> v]

TrueTexts  == {Word("true"), Word("t"), Word("T"), Word("TRUE"), Word("True"), Decimal(1)}
FalseTexts == {Word("false"), Word("f"), Word("F"), Word("FALSE"), Word("False"), Decimal(0)}

(* `str::parse` of an integer type, and what follows from its failure.     *)
parse(text, range) ==
  IF text[1] = "decimal" /\ text[2] \in range THEN Coerced(text[2]) ELSE Invalid

EnumNumbers(text) == {n \in DOMAIN EnumNames : text = Word(EnumNames[n])}

BugNamesOnly(text) ==    \* mutant: an enum value must be declared
  IF EnumNumbers(text) # {} THEN Coerced(CHOOSE n \in EnumNumbers(text) : TRUE) ELSE Invalid

(* An enum value goes by number, declared or not, or by name. *)
coerce_enum(text) ==
  IF parse(text, Signed(Bits)).ok THEN parse(text, Signed(Bits))
  ELSE IF EnumNumbers(text) # {} THEN Coerced(CHOOSE n \in EnumNumbers(text) : TRUE)
  ELSE Invalid

coerce_scalar(kind, text) ==
  CASE kind = "bool"   -> IF text \in TrueTexts THEN Coerced(TRUE)
                          ELSE IF text \in FalseTexts THEN Coerced(FALSE) ELSE Invalid
    [] kind = "int32"  -> parse(text, Signed(Bits))
    [] kind = "int64"  -> parse(text, Signed(Bits64))
    [] kind = "uint32" -> parse(text, Unsigned(Bits))
    [] kind = "uint64" -> parse(text, Unsigned(Bits64))
    [] kind = "double" -> IF text[1] = "decimal" \/ text[2] \in NotFinite
                          THEN Coerced(text) ELSE Invalid
    [] kind = "string" -> Coerced(text)
    [] kind = "enum"   -> coerce_enum(text)
    [] kind = "bytes"  -> Unsupported

(***************************************************************************)
(* JSON.                                                                   *)
(***************************************************************************)
Json(type, text) == [type |-> type, text |-> text]
Number(n)    == Json("number", Decimal(n))
String(text) == Json("string", text)
Null         == Json("null", Word("null"))
Boolean(b)   == Json("boolean", IF b THEN Word("true") ELSE Word("false"))

(* `JsonOptions`, as far as scalars go. *)
Options == [stringify_64_bit_integers : BOOLEAN, use_enum_numbers : BOOLEAN]

Integer64(n, opts) ==
  IF opts.stringify_64_bit_integers THEN String(Decimal(n)) ELSE Number(n)

Enum(n, opts) ==
  IF ~opts.use_enum_numbers /\ n \in DOMAIN EnumNames THEN String(Word(EnumNames[n]))
                                                     ELSE Number(n)

(* `serde_json::Value::from` of a float: there is no JSON number for NaN.  *)
Float(v) == IF v[1] = "decimal" THEN Number(v[2]) ELSE Null

(* `encode_field_json`; bytes, lists and maps are an error there.          *)
encode_field_json(kind, v, opts) ==
  CASE kind = "bool" -> Boolean(v)
    [] kind \in {"int32", "uint32"} -> Number(v)
    [] kind \in {"int64", "uint64"} -> Integer64(v, opts)
    [] kind = "double" -> Float(v)
    [] kind = "string" -> String(v)
    [] kind = "enum" -> Enum(v, opts)

(* The canonical mapping, which prost-reflect implements for whole         *)
(* messages (external).                                                    *)
canonical_json(kind, v, opts) ==
  IF kind = "double" /\ v[1] = "word" THEN String(v) ELSE encode_field_json(kind, v, opts)
=============================================================================
