--------------------------- MODULE TemplateParser ---------------------------
(***************************************************************************)
(* The recursive-descent parser of path templates (template.rs), over      *)
(* texts whose characters are "/", "*", "{", "}", "=", ":", "." and names. *)
(* Each parse function takes what is left of the text and returns what it  *)
(* made of it with what is left then, or fails.                            *)
(***************************************************************************)
EXTENDS PathTemplate, Texts

Failed == [ok |-> FALSE]
Parsed(value, rest) == [ok |-> TRUE, value |-> value, rest |-> rest]

(* What the code's `?` does: go on with what was parsed, or fail. *)
Then(result, Continue(_, _)) ==
  IF result.ok THEN Continue(result.value, result.rest) ELSE Failed

(***************************************************************************)
(* The verb is split off first.                                            *)
(***************************************************************************)
(* How many braces are open after each character: `}` never goes below 0.  *)
Depth(text) ==
  LET depth[i \in 0..Len(text)] ==
        IF i = 0 THEN 0
        ELSE IF text[i] = "{" THEN depth[i - 1] + 1
        ELSE IF text[i] = "}" /\ depth[i - 1] > 0 THEN depth[i - 1] - 1
        ELSE depth[i - 1]
  IN depth

BugAnyColon(text) ==    \* mutant: a ':' in a variable counts as well
  LET colons == {i \in DOMAIN text : text[i] = ":"}
  IN IF colons = {} THEN 0 ELSE CHOOSE i \in colons : \A j \in colons : j <= i

(* The position of the ':' the verb follows, 0 if there is none. *)
verb_colon(text) ==
  LET colons == {i \in DOMAIN text : text[i] = ":" /\ Depth(text)[i] = 0}
  IN IF colons = {} THEN 0 ELSE CHOOSE i \in colons : \A j \in colons : j <= i

(* `split_verb`. *)
split_verb(text) ==
  LET colon == verb_colon(text)
      verb  == From(text, colon + 1)
  IN IF colon = 0 THEN Parsed(NoVerb, text)
     ELSE IF verb = <<>> \/ Contains(verb, "/") THEN Failed
     ELSE Parsed(verb, UpTo(text, colon - 1))

(***************************************************************************)
(* Segments.                                                               *)
(***************************************************************************)
parse_literal(text) ==
  LET end == PrefixBefore(text, {"/", "{", "}", "="})
      lit == UpTo(text, end)
  IN IF lit = <<>> \/ Contains(lit, "*") THEN Failed
     ELSE Parsed(Lit(lit), From(text, end + 1))

(* `parse_field_path`: it must end, and no part of it may be empty. *)
parse_field_path(text) ==
  LET end == PrefixBefore(text, {"=", "}"})
      raw == UpTo(text, end)
  IN IF end = Len(text) \/ raw = <<>> \/ Contains(split(raw, "."), <<>>) THEN Failed
     ELSE Parsed(split(raw, "."), From(text, end + 1))

(* Mutant of is_catch_all: a variable may be followed whatever it holds. *)
BugBareOnly(segment) == segment = CatchAll

(* `parse_segments` lets nothing follow such a segment. *)
is_catch_all(segment) ==
  \/ segment = CatchAll
  \/ segment.kind = "var" /\ Contains(segment.sub, CatchAll)

(* The loop of `parse_segments`, given what one segment is parsed to at    *)
(* each position of the text: as long as a `/` stands next, one more.  The *)
(* first segment is as if behind one.                                      *)
Turn(so_far, text, parsed) ==
  Then(so_far, LAMBDA segments, rest :
    IF ~StartsWith(rest, "/") THEN so_far
    ELSE IF segments # <<>> /\ is_catch_all(Last(segments)) THEN Failed
    ELSE Then(parsed[Len(text) - Len(rest) + 2], LAMBDA segment, more :
           Parsed(Append(segments, segment), more)))

Segments(text, parsed) ==
  LET loop[k \in 0..(Len(text) + 1)] ==
        IF k = 0 THEN Parsed(<<>>, <<"/">> \o text) ELSE Turn(loop[k - 1], text, parsed)
  IN loop[Len(text) + 1]

(* `parse_segment` and `parse_segments` in a variable. *)
parse_sub_segment(text) ==
  IF IsPrefix(<<"*", "*">>, text) THEN Parsed(CatchAll, From(text, 3))
  ELSE IF StartsWith(text, "*") THEN Parsed(Single, Tail(text))
  ELSE IF StartsWith(text, "{") THEN Failed
  ELSE parse_literal(text)

parse_sub_segments(text) ==
  Segments(text, [i \in 1..(Len(text) + 1) |-> parse_sub_segment(From(text, i))])

(* `{name}` stands for `{name=*}`. *)
parse_variable(text) ==
  Then(parse_field_path(Tail(text)), LAMBDA field, rest :
    Then(IF StartsWith(rest, "=") THEN parse_sub_segments(Tail(rest))
                                  ELSE Parsed(<<Single>>, rest), LAMBDA sub, end :
      IF \/ ~StartsWith(end, "}")
         \/ \E i \in 1..(Len(sub) - 1) : sub[i] = CatchAll
      THEN Failed
      ELSE Parsed(Var(field, sub), Tail(end))))

(* `parse_segment` and `parse_segments` outside. *)
parse_segment(text) ==
  IF StartsWith(text, "{") THEN parse_variable(text) ELSE parse_sub_segment(text)

parse_segments(text) ==
  Segments(text, [i \in 1..(Len(text) + 1) |-> parse_segment(From(text, i))])

(* `PathTemplate::parse`. *)
parse(text) ==
  IF ~StartsWith(text, "/") THEN Failed
  ELSE Then(split_verb(text), LAMBDA verb, path :
         Then(parse_segments(Tail(path)), LAMBDA segments, rest :
           IF rest # <<>> THEN Failed
           ELSE Parsed([segments |-> segments, verb |-> verb], <<>>)))

(***************************************************************************)
(* What the parser is to invert: a template as text.  The variables at     *)
(* `sugared` are written `{name}`.                                         *)
(***************************************************************************)
SlotText(slot) ==
  CASE slot.kind = "lit"  -> slot.text
    [] slot.kind = "any"  -> <<"*">>
    [] slot.kind = "rest" -> <<"*", "*">>

SegmentText(segment, sugar) ==
  IF segment.kind # "var" THEN SlotText(segment)
  ELSE LET sub == Join([i \in DOMAIN segment.sub |-> SlotText(segment.sub[i])], "/")
       IN <<"{">> \o Join(segment.field, ".")
            \o (IF sugar THEN <<>> ELSE <<"=">> \o sub) \o <<"}">>

TemplateText(t, sugared) ==
  <<"/">> \o Join([k \in DOMAIN t.segments |-> SegmentText(t.segments[k], k \in sugared)], "/")
    \o (IF t.verb = NoVerb THEN <<>> ELSE <<":">> \o t.verb)

Spellings(t) ==
  {TemplateText(t, sugared) : sugared \in
     SUBSET {k \in DOMAIN t.segments :
               t.segments[k].kind = "var" /\ t.segments[k].sub = <<Single>>}}

(* What the rest of the gateway takes for granted of a template.           *)
Literals(t) ==
  {slot \in UNION {ToSet(expand(t.segments[k])) : k \in DOMAIN t.segments} : slot.kind = "lit"}

WellFormedTemplate(t) ==
  /\ LET slots == template_slots(t)
     IN slots # <<>> /\ \A i \in 1..(Len(slots) - 1) : slots[i] # CatchAll
  /\ \A lit \in Literals(t) :
       lit.text # <<>> /\ ToSet(lit.text) \cap {"/", "*", "{", "}", "="} = {}
  /\ \A k \in DOMAIN t.segments :
       t.segments[k].kind = "var" =>
         t.segments[k].field # <<>> /\ ~Contains(t.segments[k].field, <<>>)
  /\ t.verb = NoVerb \/ (t.verb # <<>> /\ ~Contains(t.verb, "/"))
=============================================================================
