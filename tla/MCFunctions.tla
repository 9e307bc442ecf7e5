---------------------------- MODULE MCFunctions ----------------------------
(***************************************************************************)
(* Small inputs for the pure functions: templates of up to two segments,   *)
(* template texts of a few pieces, and the ends of each range.             *)
(***************************************************************************)
EXTENDS Contracts

MCText  == {<<"a">>, <<"a", ":", "b">>}
MCVerb  == {<<"v">>}
MCField == {<<<<"f">>, <<"g">>>>}
MCEnum  == (0 :> "ZERO" @@ 1 :> "ONE")

(* Sequences over S of up to n elements, whose last one is from End. *)
Ending(S, End, n) ==
  UNION {{Append(s, e) : s \in [1..(k - 1) -> S], e \in End} : k \in 1..n}

(* Templates with sub-patterns of at most two slots. *)
Closed     == {Lit(t) : t \in Text} \cup {Single}
MCSlotSeqs == Ending(Closed, Slot, 3)
SubPattern == Ending(Closed, Slot, 2)

MCTemplates ==
  Ending(Closed \cup {Var(f, s) : f \in Field, s \in {x \in SubPattern : ~IsOpen(x)}},
         Slot \cup {Var(f, s) : f \in Field, s \in SubPattern}, 2)

MCSign == {"/", "*", "{", "}", "=", ":", ".", "a", "b", "f", "g", "v"}

MCPieces ==
  { <<"/">>, <<"*">>, <<"*", "*">>, <<"{">>, <<"}">>, <<"=">>, <<":">>,
    <<"a">>, <<"{", "a", "=">> }

(* Requests of texts of at most two characters, delimiters included. *)
MCChar     == {"a", "/", ":", "?", "%", "+", "&", "=", " "}
PathChars  == {"a", "/", ":", "?", "%", "+"}
QueryChars == {"a", "&", "=", "+", "%", " ", "?"}
UpTo2(C)   == UNION {[1..k -> Plain(C)] : k \in 0..2}
UpTo1(C)   == UNION {[1..k -> Plain(C)] : k \in 0..1}

OnePath  == {[segments |-> <<s, t>>, verb |-> v, pairs |-> <<>>] :
               s, t \in UpTo2(PathChars), v \in {NoVerb, <<Wire!Plain("a")>>}}
OnePair  == {<<<<k, v>>>> : k, v \in UpTo2(QueryChars)}
TwoPairs == {<<<<k, v>>, <<m, w>>>> : k, v, m, w \in UpTo1(QueryChars)}
OneQuery == {[segments |-> <<<<>>>>, verb |-> NoVerb, pairs |-> q] : q \in OnePair \cup TwoPairs}

MCRequests == OnePath \cup OneQuery
=============================================================================
