---------------------------- MODULE PathTemplate ----------------------------
(***************************************************************************)
(* Compiled path templates: which request paths they match, what their     *)
(* variables capture (template.rs), and when two of them overlap           *)
(* (routes.rs).                                                            *)
(*                                                                         *)
(* The code walks segment lists recursively.  Here a template is first     *)
(* flattened to structural slots, and matching and overlap are stated      *)
(* position by position; TemplateWalk transcribes the recursion itself and *)
(* is checked to agree.  These forms are the ones theorems are about.      *)
(***************************************************************************)
EXTENDS SequencesExt

CONSTANTS
  Text,      \* decoded texts of a path segment
  Verb,      \* custom verbs
  NoVerb     \* no `:verb` suffix

ASSUME PathTemplateAssumptions == Text # {} /\ NoVerb \notin Verb

(***************************************************************************)
(* Templates.  A segment is a literal, `*`, `**`, or a variable with its   *)
(* sub-pattern; `{name}` is `{name=*}`.  The first three are also the      *)
(* structural slots a template flattens to.                                *)
(***************************************************************************)
Lit(text)  == [kind |-> "lit", text |-> text]
Single     == [kind |-> "any"]
CatchAll   == [kind |-> "rest"]
Var(f, sub) == [kind |-> "var", field |-> f, sub |-> sub]

Slot == [kind : {"lit"}, text : Text] \cup {Single, CatchAll}

(* The parser lets `**` end a template and nothing follow it.  *)
SlotSeq == {s \in Seq(Slot) : s # <<>> /\ \A i \in 1..(Len(s) - 1) : s[i] # CatchAll}

(* A variable's field path is a value of its own. *)
Segment(F) == Slot \cup [kind : {"var"}, field : F, sub : SlotSeq]

(* The slots one segment expands to. *)
expand(segment) == IF segment.kind = "var" THEN segment.sub ELSE <<segment>>

(* `template_slots`. *)
template_slots(t) == FlattenSeq([i \in DOMAIN t.segments |-> expand(t.segments[i])])

(* The templates the parser makes: nothing follows a `**`, nor a variable  *)
(* that holds one.                                                         *)
Template(F) ==
  {t \in [segments : Seq(Segment(F)), verb : Verb \cup {NoVerb}] :
     t.segments # <<>> /\ template_slots(t) \in SlotSeq}

(***************************************************************************)
(* Request paths.  A raw segment decodes to `text`; if it holds an         *)
(* unescaped ':' then `stem` and `verb` are what stands on either side of  *)
(* the last one.  An escaped ':' (%3A) is part of the text only.           *)
(***************************************************************************)
RawSegment ==
  {s \in [text : Text, stem : Text, verb : Verb \cup {NoVerb}] :
     s.verb = NoVerb => s.stem = s.text}

(* `split_request_path`, and `decode` of each segment: the last segment    *)
(* loses its verb.  The code never sees a path of no segments.             *)
split_request_path(path) ==
  [ segments |-> [i \in DOMAIN path |-> IF i = Len(path) THEN path[i].stem
                                                         ELSE path[i].text],
    verb     |-> path[Len(path)].verb ]

(***************************************************************************)
(* Matching.                                                               *)
(***************************************************************************)
IsOpen(slots) == slots[Len(slots)] = CatchAll
Fixed(slots)  == IF IsOpen(slots) THEN Len(slots) - 1 ELSE Len(slots)

SlotFits(slot, text) == slot = Single \/ slot = Lit(text)

(* `match_segments` with `match_variable` and `sub_pattern_matches`. *)
Fits(slots, path) ==
  /\ IF IsOpen(slots) THEN Len(path) >= Fixed(slots) ELSE Len(path) = Fixed(slots)
  /\ \A i \in 1..Fixed(slots) : SlotFits(slots[i], path[i])

(* `PathTemplate::matches`: the verb first, then the segments. *)
matches(verb, slots, request) ==
  /\ verb = request.verb
  /\ Fits(slots, request.segments)

(* `Captures`: each variable takes the part of the path its sub-pattern    *)
(* stands over, a `**` one all that is left.  The code's list is in        *)
(* template order, the order of `segment` here.                            *)
Capture(k, f, value) == [segment |-> k, field |-> f, value |-> value]

Before(t, k) == Len(FlattenSeq([i \in 1..(k - 1) |-> expand(t.segments[i])]))
Span(t, path, k) ==
  LET sub == t.segments[k].sub
  IN SubSeq(path, Before(t, k) + 1,
            IF IsOpen(sub) THEN Len(path) ELSE Before(t, k) + Len(sub))

Variables(t) == {k \in DOMAIN t.segments : t.segments[k].kind = "var"}

captures(t, path) ==
  {Capture(k, t.segments[k].field, Span(t, path, k)) : k \in Variables(t)}

(***************************************************************************)
(* Overlap.                                                                *)
(***************************************************************************)
BugLiteralsOnly(x, y) == x = y    \* mutant: a wildcard does not meet a literal

Compatible(x, y) == x.kind # "lit" \/ y.kind # "lit" \/ x = y

BugRestTakesOne(a, b) ==    \* mutant: `**` must match at least one segment
  /\ \A i \in 1..Len(a) : i <= Len(b) => Compatible(a[i], b[i])
  /\ \/ Fixed(a) = Fixed(b) /\ IsOpen(a) = IsOpen(b)
     \/ Fixed(a) < Fixed(b) /\ IsOpen(a)
     \/ Fixed(b) < Fixed(a) /\ IsOpen(b)

(* `templates_overlap`: compatible as far as both are fixed, and the       *)
(* shorter one is open unless they are equally long.                       *)
templates_overlap(a, b) ==
  /\ \A i \in 1..Fixed(a) : i <= Fixed(b) => Compatible(a[i], b[i])
  /\ \/ Fixed(a) = Fixed(b)
     \/ Fixed(a) < Fixed(b) /\ IsOpen(a)
     \/ Fixed(b) < Fixed(a) /\ IsOpen(b)
=============================================================================
