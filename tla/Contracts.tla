----------------------------- MODULE Contracts -----------------------------
(***************************************************************************)
(* What the pure functions of the code are to compute, for any inputs.  A  *)
(* state is one input; `about` says for which functions.                   *)
(***************************************************************************)
EXTENDS TemplateWalk, TemplateParser

CONSTANTS
  Field,             \* field paths of variables
  Templates,         \* the segments of templates
  SlotSeqs,          \* flattened templates to compare them with
  MaxPath,           \* segments of a path
  Sign,              \* characters of template texts
  Pieces,            \* texts to build template texts from,
  MaxPieces,         \* of so many pieces
  Char, Requests,    \* characters, and requests over them
  NoQuery,           \* no `?` in a request's target
  Bits, Bits64,      \* widths of integers
  EnumNames          \* the names an enum declares

VARIABLES about, arg
vars == <<about, arg>>

Wire    == INSTANCE RequestTarget
Scalars == INSTANCE ScalarText

Unverbed(segments) == [segments |-> segments, verb |-> NoVerb]

(* Paths are as long as the longest template. *)
ASSUME TemplateInputs ==
  /\ MaxPath \in Nat
  /\ \A segments \in Templates :
       /\ Unverbed(segments) \in Template(Field)
       /\ Len(template_slots(Unverbed(segments))) <= MaxPath
  /\ \A slots \in SlotSeqs : slots \in SlotSeq /\ Len(slots) <= MaxPath

(* Any characters may stand in a template's text besides the delimiters.   *)
ASSUME TextInputs ==
  /\ {"/", "*", "{", "}", "=", ":", "."} \subseteq Sign
  /\ \A piece \in Pieces : piece \in Seq(Sign)
  /\ NoVerb \notin Seq(Sign)

(* What a template is made of can be written down.  A name holds nothing   *)
(* that ends it, and no `{`, behind which split_verb would look for a `}`; *)
(* an unbraced `:` in a verb would begin another.                          *)
ASSUME SpelledInputs ==
  /\ \A segments \in Templates :
       /\ WellFormedTemplate(Unverbed(segments))
       /\ \A lit \in Literals(Unverbed(segments)) : lit.text \in Seq(Sign)
       /\ \A k \in DOMAIN segments : segments[k].kind = "var" =>
            segments[k].field \in Seq(Seq(Sign \ {".", "=", "{", "}"}))
  /\ \A verb \in Verb :
       verb \in Seq(Sign) /\ verb # <<>> /\ ~Contains(verb, "/") /\ verb_colon(verb) = 0

Paths == UNION {[1..k -> Text] : k \in 1..MaxPath}

(* A request as a client means it.  A verb cannot be escaped; a character  *)
(* is no byte that is not UTF-8.                                           *)
Plain(C) == {Wire!Plain(c) : c \in C}

ASSUME RequestInputs ==
  /\ "invalid" \notin Char
  /\ \A r \in Requests :
       /\ r = [segments |-> r.segments, verb |-> r.verb, pairs |-> r.pairs]
       /\ r.segments \in Seq(Seq(Plain(Char))) /\ r.segments # <<>>
       /\ r.verb = NoVerb \/ r.verb \in Seq(Plain(Char \ {"/", "?", ":"}))
       /\ r.pairs \in Seq(Seq(Plain(Char)) \X Seq(Plain(Char)))
       /\ r.pairs # <<>> => Wire!QueryText(r.pairs) # NoQuery

(* The names of an enum's values differ. *)
ASSUME EnumNamesDiffer ==
  \A m, n \in DOMAIN EnumNames : EnumNames[m] = EnumNames[n] => m = n

(* A scalar of any kind, with each setting of the JSON options. *)
OneScalar ==
  UNION {{[kind |-> k, value |-> v, opts |-> o] : v \in Scalars!Values(k), o \in Scalars!Options} :
           k \in Scalars!Kind}

Init ==
  \/ about = "template" /\ arg \in Templates
  \/ about = "text"     /\ arg = <<>>
  \/ about = "target"   /\ arg \in Requests
  \/ about = "scalar"   /\ arg \in OneScalar

Pair ==
  /\ about = "template"
  /\ about' = "pair"
  /\ \E slots \in SlotSeqs : arg' = <<arg, slots>>

Grow ==
  /\ about = "text"
  /\ Len(arg) < MaxPieces
  /\ \E piece \in Pieces : arg' = Append(arg, piece)
  /\ UNCHANGED about

Next == Pair \/ Grow
Spec == Init /\ [][Next]_vars

(***************************************************************************)
(* Templates.                                                              *)
(***************************************************************************)
(* `PathTemplate::matches` succeeds on exactly the paths that fit the      *)
(* flattened template position by position, and each variable captures the *)
(* part of the path its sub-pattern stands over.                           *)
WalkFits ==
  about = "template" =>
    LET t == Unverbed(arg) slots == template_slots(t) IN
    \A p \in Paths :
      match_segments(arg, p) = IF Fits(slots, p) THEN {captures(t, p)} ELSE NoMatch

(* `slots_overlap` computes the closed form the theorems are about.        *)
OverlapAgrees ==
  about = "pair" =>
    LET slots == template_slots(Unverbed(arg[1])) IN
    slots_overlap(slots, arg[2]) <=> templates_overlap(slots, arg[2])

(* Two templates are reported as overlapping exactly if some request path  *)
(* matches both: no false alarm, and no missed overlap.                    *)
OverlapIsExact ==
  about = "pair" =>
    LET slots == template_slots(Unverbed(arg[1])) IN
    templates_overlap(slots, arg[2]) <=> \E p \in Paths : Fits(slots, p) /\ Fits(arg[2], p)

(* The parser accepts nothing but templates: what it makes of a text is    *)
(* spelled by that text, has `**` at its very end only, through all the    *)
(* places where one may be written, and no empty name or literal.  The     *)
(* matcher, the overlap test and the verb split rely on each.              *)
ParseIsSound ==
  about = "text" =>
    LET text == FlattenSeq(arg) result == parse(text) IN
    result.ok => WellFormedTemplate(result.value) /\ text \in Spellings(result.value)

(* The parser accepts every template however it is spelled, and reads it   *)
(* back as it was written.  A literal that holds a ':' needs braces or a   *)
(* verb behind it.                                                         *)
ParseIsComplete ==
  about = "template" =>
    \A v \in Verb \cup {NoVerb} :
      LET t == [segments |-> arg, verb |-> v] IN
      (v = NoVerb => \A k \in DOMAIN arg : arg[k].kind = "lit" => ~Contains(arg[k].text, ":")) =>
        \A text \in Spellings(t) : parse(text) = Parsed(t, <<>>)

(***************************************************************************)
(* Request targets.                                                        *)
(***************************************************************************)
(* Whatever the segments of a path and the keys and values of a query are  *)
(* made of, delimiters and spaces included, a client can send them: what   *)
(* it escapes is never taken for a delimiter, and arrives decoded once.    *)
TargetArrives ==
  about = "target" =>
    Wire!request(Wire!TargetText(arg.segments, arg.verb, arg.pairs)) = arg

(***************************************************************************)
(* Scalars.                                                                *)
(***************************************************************************)
(* What the gateway renders of a field can be sent back to it: the text of *)
(* a finite value, in a path variable or query parameter, is that value    *)
(* again, at the ends of each type's range and for enum values no name is  *)
(* declared for.                                                           *)
ScalarsReturn ==
  about = "scalar" /\ (arg.kind = "double" => arg.value[1] # "word") =>
    Scalars!coerce_scalar(arg.kind, Scalars!encode_field_json(arg.kind, arg.value, arg.opts).text)
      = Scalars!Coerced(arg.value)

(* "Scalars render as their canonical proto3 JSON value" (gateway.rs): as  *)
(* the same field would inside a whole message.                            *)
RendersCanonically ==
  about = "scalar" =>
    Scalars!encode_field_json(arg.kind, arg.value, arg.opts)
      = Scalars!canonical_json(arg.kind, arg.value, arg.opts)
=============================================================================
