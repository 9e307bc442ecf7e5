---------------------------- MODULE TemplateWalk ----------------------------
(***************************************************************************)
(* The recursion of template.rs and routes.rs as the code has it, to       *)
(* compare with PathTemplate.  A call on what is left of a list is a value *)
(* of a recursive function at the position where it goes on.               *)
(***************************************************************************)
EXTENDS PathTemplate

(* `sub_pattern_matches`: element k of both lists is looked at by call k.  *)
(* Variables never nest.                                                   *)
sub_pattern_matches(sub, input) ==
  LET call[k \in 1..(Len(sub) + 1)] ==
        IF k > Len(sub) THEN Len(input) = Len(sub)
        ELSE \/ /\ sub[k].kind = "lit"
                /\ k <= Len(input) /\ input[k] = sub[k].text
                /\ call[k + 1]
             \/ sub[k].kind = "any" /\ k <= Len(input) /\ call[k + 1]
             \/ sub[k].kind = "rest" /\ k = Len(sub)
  IN call[1]

(* `segment_count`: the fixed segments, and whether more may follow. *)
segment_count(sub) ==
  [ fixed |-> Cardinality({i \in DOMAIN sub : sub[i].kind # "rest"}),
    open  |-> \E i \in DOMAIN sub : sub[i].kind = "rest" ]

BugExactTake(count, left) == count.fixed    \* mutant: a `**` variable takes its minimum

(* How many of the segments left `match_variable` hands to the variable. *)
take(count, left) == IF count.open THEN left ELSE count.fixed

(* The arguments of a call of `match_segments`: the input from behind      *)
(* position `at` on, and the captures so far.  An `Option` is the set of   *)
(* what it holds.                                                          *)
Call(at, captured) == {[at |-> at, captured |-> captured]}
NoMatch == {}

(* `match_variable`, the variable being segment k.                         *)
match_variable(segments, k, input, c) ==
  LET var   == segments[k]
      count == segment_count(var.sub)
      n     == take(count, Len(input) - c.at)
      head  == SubSeq(input, c.at + 1, c.at + n)
  IN IF /\ Len(input) - c.at >= count.fixed
        /\ Len(input) - c.at >= n
        /\ sub_pattern_matches(var.sub, head)
     THEN Call(c.at + n, c.captured \cup {Capture(k, var.field, head)})
     ELSE NoMatch

(* What `match_segments` does with segment k: the call it makes for the    *)
(* rest, if it makes one.  `**` succeeds at once if it is last; that is    *)
(* the outcome of a call with nothing left of either list.                 *)
match_segment(segments, k, input, c) ==
  LET segment == segments[k] IN
  CASE segment.kind = "lit" ->
         IF c.at < Len(input) /\ input[c.at + 1] = segment.text
         THEN Call(c.at + 1, c.captured) ELSE NoMatch
    [] segment.kind = "any" ->
         IF c.at < Len(input) THEN Call(c.at + 1, c.captured) ELSE NoMatch
    [] segment.kind = "rest" ->
         IF k = Len(segments) THEN Call(Len(input), c.captured) ELSE NoMatch
    [] segment.kind = "var" -> match_variable(segments, k, input, c)

(* `match_segments`. *)
match_segments(segments, input) ==
  LET call[k \in 0..Len(segments)] ==
        IF k = 0 THEN Call(0, {})
        ELSE UNION {match_segment(segments, k, input, c) : c \in call[k - 1]}
  IN {c.captured : c \in {d \in call[Len(segments)] : d.at = Len(input)}}

(* `slots_overlap`: a call for each position that both lists reach, and    *)
(* one behind the shorter.                                                 *)
slots_overlap(a, b) ==
  LET shorter == IF Len(a) < Len(b) THEN Len(a) ELSE Len(b)
      call[i \in 1..(shorter + 1)] ==
        CASE i > Len(a) /\ i > Len(b) -> TRUE
          [] \/ i <= Len(a) /\ a[i] = CatchAll
             \/ i <= Len(b) /\ b[i] = CatchAll -> TRUE
          [] OTHER -> /\ i <= Len(a) /\ i <= Len(b)
                      /\ Compatible(a[i], b[i])
                      /\ call[i + 1]
  IN call[1]
=============================================================================
