----------------------- MODULE RequestBinding_proofs -----------------------
(***************************************************************************)
(* The message built from a request is well formed at every step: no       *)
(* binding leaves two members of a oneof set, at whatever depth, or a      *)
(* field outside its message.  It rests on `get_field_mut` keeping both    *)
(* when it materializes a lineage.                                         *)
(*                                                                         *)
(* Then, which of body, path and query a field of the message is from, and *)
(* that a request is refused for its own faults only, for every schema and *)
(* every number of bindings.  It rests on what a binding leaves alone:     *)
(* every field but its own that it does not evict from a oneof.            *)
(***************************************************************************)
EXTENDS RequestBinding, TLAPS

(* A set of fields that can be set together, each with the way to it.      *)
Chain(S) ==
  /\ S \subseteq Field
  /\ \A f \in S : Lineage[f] \subseteq S
  /\ \A f, g \in S : ~Rivals(f, g)

Good(m) == IsMessage(m) /\ WellFormed(m)

LEMMA RivalsSymmetric ==
  ASSUME NEW f, NEW g PROVE Rivals(f, g) <=> Rivals(g, f)
BY DEF Rivals

LEMMA LineageIsChain ==
  ASSUME NEW f \in Field PROVE Chain(Lineage[f]) /\ f \in Lineage[f]
<1>1. /\ Lineage[f] \subseteq Field /\ f \in Lineage[f]
      /\ \A g \in Lineage[f] : Lineage[g] \subseteq Lineage[f]
      /\ \A g, h \in Lineage[f] : ~Rivals(g, h)
  BY RequestBindingAssumptions
<1> QED
  BY <1>1 DEF Chain

(* Materializing a chain keeps a message well formed. *)
LEMMA GetFieldMut ==
  ASSUME NEW m, Good(m), NEW S, Chain(S)
  PROVE  /\ Good(get_field_mut(m, S))
         /\ S \subseteq DOMAIN get_field_mut(m, S)
<1> DEFINE kept == {f \in DOMAIN m : \A g \in Lineage[f], s \in S : ~Rivals(g, s)}
           n == get_field_mut(m, S)
<1>1. n = [f \in kept \cup S |-> IF f \in kept THEN m[f] ELSE <<>>]
  BY DEF get_field_mut
<1>2. kept \subseteq DOMAIN m /\ DOMAIN m \subseteq Field /\ S \subseteq Field
  BY DEF Good, IsMessage, Chain
<1>3. IsMessage(n)
  <2>1. \A f \in kept \cup S : n[f] \in Seq(Value)
    BY <1>1, <1>2 DEF Good, IsMessage
  <2> QED
    BY <1>1, <1>2, <2>1 DEF IsMessage
<1>4. \A f \in DOMAIN n : Lineage[f] \subseteq DOMAIN n
  <2> SUFFICES ASSUME NEW f \in kept \cup S, NEW g \in Lineage[f] PROVE g \in kept \cup S
    BY <1>1
  <2>1. CASE f \in S
    BY <2>1 DEF Chain
  <2>2. CASE f \in kept
    <3>1. f \in Field /\ Lineage[g] \subseteq Lineage[f]
      BY <1>2, <2>2, RequestBindingAssumptions
    <3>2. g \in DOMAIN m
      BY <2>2 DEF Good, WellFormed
    <3> QED
      BY <2>2, <3>1, <3>2
  <2> QED
    BY <2>1, <2>2
<1>5. \A f, g \in DOMAIN n : ~Rivals(f, g)
  <2> SUFFICES ASSUME NEW f \in kept \cup S, NEW g \in kept \cup S PROVE ~Rivals(f, g)
    BY <1>1
  <2>1. f \in Lineage[f] /\ g \in Lineage[g]
    BY <1>2, RequestBindingAssumptions
  <2>2. CASE f \in kept /\ g \in kept
    BY <2>2 DEF Good, WellFormed
  <2>3. CASE f \in S /\ g \in S
    BY <2>3 DEF Chain
  <2>4. CASE f \in kept /\ g \in S
    BY <2>1, <2>4
  <2>5. CASE f \in S /\ g \in kept
    BY <2>1, <2>5, RivalsSymmetric
  <2> QED
    BY <2>2, <2>3, <2>4, <2>5
<1> QED
  BY <1>1, <1>3, <1>4, <1>5 DEF Good, WellFormed

(* Giving a present field another value changes nothing else.              *)
LEMMA ChangeValue ==
  ASSUME NEW m, Good(m), NEW f \in DOMAIN m, NEW value \in Seq(Value)
  PROVE  Good([m EXCEPT ![f] = value])
BY DEF Good, IsMessage, WellFormed

LEMMA DescendedIsChain ==
  ASSUME NEW b \in Bind PROVE Chain(Descended(b.key))
<1>1. b.key.at \in Field \cup {Root}
  BY DEF Bind, Key
<1>2. CASE b.key.at = Root
  BY <1>2 DEF Descended, Chain
<1>3. CASE b.key.at \in Field
  <2>1. Root \notin Field
    BY RequestBindingAssumptions
  <2>2. Chain(Lineage[b.key.at])
    BY <1>3, LineageIsChain
  <2>3. Chain(Lineage[b.key.at] \ {b.key.at})
    <3>1. \A g \in Lineage[b.key.at] \ {b.key.at} : b.key.at \notin Lineage[g]
      BY <1>3, RequestBindingAssumptions
    <3> QED
      BY <2>2, <3>1 DEF Chain
  <2> QED
    BY <1>3, <2>1, <2>2, <2>3 DEF Descended
<1> QED
  BY <1>1, <1>2, <1>3

(* Binding a text that is a value of its field's type.                     *)
LEMMA BindLeaf ==
  ASSUME NEW m, Good(m), NEW b \in Bind, NEW mode, bind_error(b) = "none"
  PROVE  Good(bind_leaf(m, b, mode))
<1> DEFINE f == b.key.at
           n == get_field_mut(m, Descended(b.key))
           l == get_field_mut(n, Lineage[f])
<1>1. f \in Field /\ b.text \in Value
  <2>1. ~b.key.more /\ b.text # Junk
    BY DEF bind_error
  <2> QED
    BY <2>1 DEF Bind, Key
<1>2. Good(n)
  BY DescendedIsChain, GetFieldMut
<1>3. Good(l) /\ f \in DOMAIN l
  BY <1>1, <1>2, LineageIsChain, GetFieldMut
<1> HIDE DEF f, n, l
<1>4. Good([l EXCEPT ![f] = <<b.text>>])
  <2>1. <<b.text>> \in Seq(Value)
    BY <1>1
  <2> QED
    BY <1>3, <2>1, ChangeValue
<1>5. Good([l EXCEPT ![f] = Append(@, b.text)])
  <2>1. l[f] \in Seq(Value)
    BY <1>3 DEF Good, IsMessage
  <2>2. Append(l[f], b.text) \in Seq(Value)
    BY <1>1, <2>1
  <2>3. [l EXCEPT ![f] = Append(@, b.text)] = [l EXCEPT ![f] = Append(l[f], b.text)]
    OBVIOUS
  <2> QED
    BY <1>3, <2>2, <2>3, ChangeValue
<1>6. bind_leaf(m, b, mode) \in
        {n, [l EXCEPT ![f] = <<b.text>>], [l EXCEPT ![f] = Append(@, b.text)]}
  BY DEF bind_leaf, set_field, f, n, l
<1> QED
  BY <1>2, <1>4, <1>5, <1>6

(* The inductive invariant: a binding is only made of a text that has its  *)
(* key's type when the request itself is typed.                            *)
IInv == TypeOK /\ MessageWellFormed

LEMMA InputTyped ==
  ASSUME input \in Input
  PROVE  /\ input.captures \in Seq(Bind) /\ input.query \in Seq(Bind)
         /\ input.selector \in {"wildcard", "field", "missing", "none"}
         /\ input.body = Invalid \/ Good(input.body)
BY RequestBindingAssumptions DEF Good

LEMMA Initially == Init => IInv
BY DEF Init, IInv, TypeOK, Stage, MessageWellFormed, WellFormed, IsMessage, Empty

LEMMA Step == IInv /\ [Next]_vars => IInv'
<1> SUFFICES ASSUME IInv, [Next]_vars PROVE IInv'
  OBVIOUS
<1>i. /\ input \in Input /\ stage \in Stage /\ next \in Nat \ {0} /\ Good(msg)
  BY DEF IInv, TypeOK, MessageWellFormed, Good
<1>t. /\ input.captures \in Seq(Bind) /\ input.query \in Seq(Bind)
      /\ input.selector \in {"wildcard", "field", "missing", "none"}
      /\ input.body = Invalid \/ Good(input.body)
  BY <1>i, InputTyped
<1>g. ASSUME input' = input, stage' \in Stage, next' \in Nat \ {0}, Good(msg') PROVE IInv'
  BY <1>i, <1>g DEF IInv, TypeOK, MessageWellFormed, Good
<1>r. ASSUME NEW code \in Stage, Reject(code) PROVE IInv'
  BY <1>i, <1>g, <1>r DEF Reject
<1>1. CASE DecodeBody
  <2>1. CASE input.selector = "missing"
    BY <1>1, <1>r, <2>1 DEF DecodeBody, Stage
  <2>2. CASE input.selector # "missing" /\ input.selector # "none" /\ input.body = Invalid
    BY <1>1, <1>r, <2>2 DEF DecodeBody, Stage
  <2>3. CASE input.selector = "none"
    <3>1. Good(Empty)
      BY DEF Good, Empty, IsMessage, WellFormed
    <3> QED
      BY <1>1, <1>i, <1>g, <2>3, <3>1 DEF DecodeBody, Stage
  <2>4. CASE input.selector \notin {"missing", "none"} /\ input.body # Invalid
    BY <1>1, <1>i, <1>t, <1>g, <2>4 DEF DecodeBody, Stage
  <2> QED
    BY <2>1, <2>2, <2>3, <2>4
<1>2. CASE BindVariable
  <2> DEFINE b == input.captures[next]
  <2>1. b \in Bind
    BY <1>2, <1>i, <1>t DEF BindVariable
  <2> HIDE DEF b
  <2>2. CASE bind_error(b) # "none"
    BY <1>2, <1>r, <2>2 DEF BindVariable, Stage, b
  <2>3. CASE bind_error(b) = "none"
    <3>1. Good(bind_leaf(msg, b, "overwrite"))
      BY <1>i, <2>1, <2>3, BindLeaf
    <3>2. /\ input' = input /\ stage' = stage /\ next' = next + 1
          /\ msg' = bind_leaf(msg, b, "overwrite")
      BY <1>2, <2>3 DEF BindVariable, b
    <3> QED
      BY <1>i, <1>g, <3>1, <3>2
  <2> QED
    BY <2>2, <2>3
<1>3. CASE VariablesBound
  BY <1>3, <1>i, <1>g DEF VariablesBound, Stage
<1>4. CASE BindParameter
  <2> DEFINE b == input.query[next]
             error == bind_error(b)
  <2>1. b \in Bind
    BY <1>4, <1>i, <1>t DEF BindParameter
  <2> HIDE DEF b
  <2>2. CASE error # "none" /\ ~tolerated(error)
    BY <1>4, <1>r, <2>2 DEF BindParameter, Stage, b
  <2>3. CASE error = "none" \/ tolerated(error)
    <3>1. error = "none" => Good(bind_leaf(msg, b, "fill"))
      BY <1>i, <2>1, BindLeaf
    <3>2. Good(get_field_mut(msg, Descended(b.key)))
      BY <1>i, <2>1, DescendedIsChain, GetFieldMut
    <3>3. /\ input' = input /\ stage' = stage /\ next' = next + 1
          /\ msg' = IF error = "none" THEN bind_leaf(msg, b, "fill")
                    ELSE get_field_mut(msg, Descended(b.key))
      BY <1>4, <2>3 DEF BindParameter, b
    <3> QED
      BY <1>i, <1>g, <3>1, <3>2, <3>3
  <2> QED
    BY <2>2, <2>3
<1>5. CASE QueryBound
  BY <1>5, <1>i, <1>g DEF QueryBound, Stage
<1>6. CASE UNCHANGED vars
  BY <1>6, <1>i, <1>g DEF vars
<1> QED
  BY <1>1, <1>2, <1>3, <1>4, <1>5, <1>6 DEF Next

THEOREM Consistent == Spec => []IInv
BY Initially, Step, PTL DEF Spec

(* Every variable keeps its type: a message only ever holds known fields,  *)
(* with values `coerce_scalar` made or the body's decoder did.             *)
THEOREM TypeCorrect == Spec => []TypeOK
BY Consistent, PTL DEF IInv

(* The message `build_request` hands to the encoder is one its type        *)
(* allows, for every schema, body, and order of path and query bindings:   *)
(* no oneof has two members set and no field stands outside its message.   *)
THEOREM WellFormedAlways == Spec => []MessageWellFormed
BY Consistent, PTL DEF IInv

(***************************************************************************)
(* What a binding leaves alone.                                            *)
(***************************************************************************)
(* A field no part of which has a rival in S stays as it is. *)
LEMMA MaterializingLeaves ==
  ASSUME NEW m, NEW S, NEW f \in DOMAIN m,
         \A g \in Lineage[f], s \in S : ~Rivals(g, s)
  PROVE  f \in DOMAIN get_field_mut(m, S) /\ get_field_mut(m, S)[f] = m[f]
BY DEF get_field_mut

(* No field changes its value, if it stays. *)
LEMMA MaterializingKeeps ==
  ASSUME NEW m, NEW S, Chain(S), NEW f \in DOMAIN m, f \in DOMAIN get_field_mut(m, S)
  PROVE  get_field_mut(m, S)[f] = m[f]
<1>1. CASE f \in S
  <2>1. \A g \in Lineage[f], s \in S : ~Rivals(g, s)
    BY <1>1 DEF Chain
  <2> QED
    BY <2>1, MaterializingLeaves
<1>2. CASE f \notin S
  BY <1>2 DEF get_field_mut
<1> QED
  BY <1>1, <1>2

LEMMA MaterializingAdds ==
  ASSUME NEW m, NEW S
  PROVE  DOMAIN get_field_mut(m, S) \subseteq DOMAIN m \cup S
BY DEF get_field_mut

(* The key of a binding that succeeds is a field, reached over its parents. *)
LEMMA BoundKey ==
  ASSUME NEW b \in Bind, bind_error(b) = "none"
  PROVE  /\ b.key.at \in Field /\ b.key.at # Root /\ ~b.key.more
         /\ Descended(b.key) = Lineage[b.key.at] \ {b.key.at}
         /\ b.key.at \in Lineage[b.key.at]
         /\ Chain(Lineage[b.key.at])
<1>1. ~b.key.more
  BY DEF bind_error
<1>2. b.key.at \in Field /\ b.key.at # Root
  BY <1>1, RequestBindingAssumptions DEF Bind, Key
<1> QED
  BY <1>1, <1>2, LineageIsChain DEF Descended

(* `bind_leaf` materializes twice: the parents, then the field. *)
LEMMA BindLeafLeaves ==
  ASSUME NEW m, NEW b \in Bind, NEW mode, bind_error(b) = "none",
         NEW f \in DOMAIN m, f # b.key.at, ~Evicts(b, f)
  PROVE  f \in DOMAIN bind_leaf(m, b, mode) /\ bind_leaf(m, b, mode)[f] = m[f]
<1> DEFINE at == b.key.at
           n == get_field_mut(m, Descended(b.key))
           l == get_field_mut(n, Lineage[at])
<1>1. \A g \in Lineage[f], s \in Lineage[at] : ~Rivals(g, s)
  BY BoundKey DEF Evicts
<1>2. f \in DOMAIN n /\ n[f] = m[f]
  <2>1. \A g \in Lineage[f], s \in Descended(b.key) : ~Rivals(g, s)
    BY <1>1, BoundKey
  <2> QED
    BY <2>1, MaterializingLeaves
<1>3. f \in DOMAIN l /\ l[f] = m[f]
  BY <1>1, <1>2, MaterializingLeaves
<1>4. bind_leaf(m, b, mode) \in
        {n, [l EXCEPT ![at] = <<b.text>>], [l EXCEPT ![at] = Append(@, b.text)]}
  BY DEF bind_leaf, set_field
<1> HIDE DEF n, l
<1> QED
  BY <1>2, <1>3, <1>4

LEMMA BindLeafAdds ==
  ASSUME NEW m, NEW b \in Bind, NEW mode, bind_error(b) = "none"
  PROVE  DOMAIN bind_leaf(m, b, mode) \subseteq DOMAIN m \cup Lineage[b.key.at]
<1> DEFINE at == b.key.at
           n == get_field_mut(m, Descended(b.key))
           l == get_field_mut(n, Lineage[at])
<1>1. DOMAIN n \subseteq DOMAIN m \cup Lineage[at]
  BY BoundKey, MaterializingAdds
<1>2. DOMAIN l \subseteq DOMAIN m \cup Lineage[at]
  BY <1>1, MaterializingAdds
<1>3. bind_leaf(m, b, mode) \in
        {n, [l EXCEPT ![at] = <<b.text>>], [l EXCEPT ![at] = Append(@, b.text)]}
  BY DEF bind_leaf, set_field
<1> HIDE DEF n, l
<1> QED
  BY <1>1, <1>2, <1>3

(* A path variable sets its field. *)
LEMMA OverwriteSets ==
  ASSUME NEW m, Good(m), NEW b \in Bind, bind_error(b) = "none", Shape[b.key.at] # "list"
  PROVE  /\ b.key.at \in DOMAIN bind_leaf(m, b, "overwrite")
         /\ bind_leaf(m, b, "overwrite")[b.key.at] = <<b.text>>
<1> DEFINE at == b.key.at
           n == get_field_mut(m, Descended(b.key))
           l == get_field_mut(n, Lineage[at])
<1>1. Good(n)
  BY DescendedIsChain, GetFieldMut
<1>2. at \in DOMAIN l
  BY <1>1, BoundKey, GetFieldMut
<1>3. bind_leaf(m, b, "overwrite") = [l EXCEPT ![at] = <<b.text>>]
  BY DEF bind_leaf, set_field
<1> HIDE DEF l
<1> QED
  BY <1>2, <1>3

(* A query parameter leaves a field that is set. *)
LEMMA FillKeeps ==
  ASSUME NEW m, Good(m), NEW b \in Bind, bind_error(b) = "none",
         NEW f \in Field, has_field(m, f), Shape[f] # "list"
  PROVE  /\ f \in DOMAIN bind_leaf(m, b, "fill") => bind_leaf(m, b, "fill")[f] = m[f]
         /\ ~Evicts(b, f) => f \in DOMAIN bind_leaf(m, b, "fill")
<1> DEFINE at == b.key.at
           n == get_field_mut(m, Descended(b.key))
           l == get_field_mut(n, Lineage[at])
           result == bind_leaf(m, b, "fill")
<1>d. f \in DOMAIN m
  BY DEF has_field
<1>1. Chain(Lineage[at]) /\ at \in Lineage[at]
  BY BoundKey
<1>c. Chain(Descended(b.key))
  BY DescendedIsChain
<1>2. CASE f \in Lineage[at]
  <2>1. \A g \in Lineage[f], s \in Lineage[at] : ~Rivals(g, s)
    BY <1>1, <1>2 DEF Chain
  <2>2. f \in DOMAIN n /\ n[f] = m[f]
    <3>1. \A g \in Lineage[f], s \in Descended(b.key) : ~Rivals(g, s)
      BY <2>1, BoundKey
    <3> QED
      BY <1>d, <3>1, MaterializingLeaves
  <2>3. f \in DOMAIN l /\ l[f] = m[f]
    BY <2>1, <2>2, MaterializingLeaves
  <2>4. has_field(n, f)
    BY <2>2 DEF has_field
  <2>5. result = IF Shape[at] = "list" THEN [l EXCEPT ![at] = Append(@, b.text)]
                 ELSE IF has_field(n, at) THEN n ELSE [l EXCEPT ![at] = <<b.text>>]
    BY DEF bind_leaf, set_field
  <2> HIDE DEF n, l, result
  <2>6. f \in DOMAIN result /\ result[f] = m[f]
    BY <2>2, <2>3, <2>4, <2>5
  <2> QED
    BY <2>6 DEF result
<1>3. CASE f \notin Lineage[at]
  <2>1. f # at
    BY <1>1, <1>3
  <2>2. ~Evicts(b, f) => f \in DOMAIN result
    BY <1>d, <2>1, BindLeafLeaves
  <2>3. f \in DOMAIN n => n[f] = m[f]
    BY <1>d, <1>c, MaterializingKeeps
  <2>4. f \in DOMAIN l => f \in DOMAIN n
    BY <1>3, MaterializingAdds
  <2>5. f \in DOMAIN l => l[f] = m[f]
    BY <1>1, <2>3, <2>4, MaterializingKeeps
  <2>6. result \in {n, [l EXCEPT ![at] = <<b.text>>], [l EXCEPT ![at] = Append(@, b.text)]}
    BY DEF bind_leaf, set_field
  <2> HIDE DEF n, l, result
  <2>7. f \in DOMAIN result => result[f] = m[f]
    BY <2>1, <2>3, <2>5, <2>6
  <2> QED
    BY <2>2, <2>7 DEF result
<1> QED
  BY <1>2, <1>3

(***************************************************************************)
(* The steps, as far as they matter here.                                  *)
(***************************************************************************)
LEMMA Typed ==
  ASSUME IInv
  PROVE  /\ input \in Input /\ stage \in Stage /\ next \in Nat \ {0} /\ Good(msg)
         /\ input.captures \in Seq(Bind) /\ input.query \in Seq(Bind)
         /\ input.selector \in {"wildcard", "field", "missing", "none"}
         /\ input.body = Invalid \/ Good(input.body)
BY InputTyped DEF IInv, TypeOK, MessageWellFormed, Good

(* A variable is bound, or ends the request. *)
LEMMA VariableStep ==
  ASSUME IInv, BindVariable
  PROVE  /\ stage = "path" /\ next \in DOMAIN input.captures /\ input.captures[next] \in Bind
         /\ UNCHANGED input
         /\ \/ /\ bind_error(input.captures[next]) # "none"
               /\ stage' = "bad_request" /\ UNCHANGED <<next, msg>>
            \/ /\ bind_error(input.captures[next]) = "none"
               /\ msg' = bind_leaf(msg, input.captures[next], "overwrite")
               /\ stage' = "path" /\ next' = next + 1
<1>1. stage = "path" /\ next \in DOMAIN input.captures /\ input.captures[next] \in Bind
  BY Typed DEF BindVariable
<1> QED
  BY <1>1 DEF BindVariable, Reject

(* A parameter is bound, skipped, or ends the request. *)
LEMMA ParameterStep ==
  ASSUME IInv, BindParameter
  PROVE  /\ stage = "query" /\ next \in DOMAIN input.query /\ input.query[next] \in Bind
         /\ UNCHANGED input
         /\ \/ /\ bind_error(input.query[next]) \notin {"none", "unknown_field"}
               /\ stage' = "bad_request" /\ UNCHANGED <<next, msg>>
            \/ /\ bind_error(input.query[next]) = "none"
               /\ msg' = bind_leaf(msg, input.query[next], "fill")
               /\ stage' = "query" /\ next' = next + 1
            \/ /\ bind_error(input.query[next]) = "unknown_field"
               /\ msg' = get_field_mut(msg, Descended(input.query[next].key))
               /\ stage' = "query" /\ next' = next + 1
<1>1. stage = "query" /\ next \in DOMAIN input.query /\ input.query[next] \in Bind
  BY Typed DEF BindParameter
<1> QED
  BY <1>1 DEF BindParameter, Reject, tolerated

LEMMA BodyStep ==
  ASSUME IInv, DecodeBody
  PROVE  /\ stage = "body" /\ UNCHANGED <<input, next>>
         /\ \/ /\ input.selector = "missing" /\ stage' = "bad_rule"
            \/ /\ input.selector \in {"wildcard", "field"} /\ input.body = Invalid
               /\ stage' = "bad_request"
            \/ /\ input.selector \in {"wildcard", "field"} /\ input.body # Invalid
               /\ stage' = "path" /\ msg' = input.body
            \/ input.selector = "none" /\ stage' = "path"
BY Typed DEF DecodeBody, Reject

(***************************************************************************)
(* A query parameter never overwrites what is set.                         *)
(***************************************************************************)
LEMMA StepFills ==
  ASSUME IInv, [Next]_vars, NEW f \in Field, stage = "query", has_field(msg, f),
         Shape[f] # "list"
  PROVE  f \notin DOMAIN msg' \/ msg'[f] = msg[f]
<1>1. CASE BindParameter
  <2> DEFINE b == input.query[next]
  <2>1. b \in Bind /\ Good(msg) /\ f \in DOMAIN msg
    BY <1>1, ParameterStep, Typed DEF has_field
  <2>2. CASE bind_error(b) = "none"
    BY <1>1, <2>1, <2>2, ParameterStep, FillKeeps
  <2>3. CASE bind_error(b) = "unknown_field"
    BY <1>1, <2>1, <2>3, ParameterStep, DescendedIsChain, MaterializingKeeps
  <2>4. CASE bind_error(b) \notin {"none", "unknown_field"}
    BY <1>1, <2>4, ParameterStep
  <2> QED
    BY <2>2, <2>3, <2>4
<1>2. CASE QueryBound \/ UNCHANGED vars
  BY <1>2 DEF QueryBound, vars
<1> QED
  BY <1>1, <1>2 DEF Next, DecodeBody, BindVariable, VariablesBound

(* A query parameter never changes a field that is set, unless it is a     *)
(* list; at most it evicts it from a oneof.                                *)
THEOREM QueryFills == Spec => QueryOnlyFills
<1>1. IInv /\ [Next]_vars =>
        [\A f \in Field :
           stage = "query" /\ has_field(msg, f) /\ Shape[f] # "list" =>
             f \notin DOMAIN msg' \/ msg'[f] = msg[f]]_vars
  BY StepFills
<1> QED
  BY <1>1, Consistent, PTL DEF Spec, QueryOnlyFills

(***************************************************************************)
(* The verdict on a request.                                               *)
(***************************************************************************)
BodyUsable == input.selector = "none" \/ (input.selector # "missing" /\ input.body # Invalid)

Bindable(bindings, errors, upto) ==
  \A k \in DOMAIN bindings : k < upto => bind_error(bindings[k]) \in errors

CapturesBindable == \A k \in DOMAIN input.captures : bind_error(input.captures[k]) = "none"

(* What is known of the request at each stage. *)
Judged ==
  /\ stage = "body" => next = 1
  /\ stage = "path" => BodyUsable /\ Bindable(input.captures, {"none"}, next)
  /\ stage = "query" =>
       /\ BodyUsable /\ CapturesBindable /\ input.selector # "wildcard"
       /\ Bindable(input.query, {"none", "unknown_field"}, next)
  /\ RejectsTheFaulty

LEMMA AllBindable ==
  ASSUME NEW bindings \in Seq(Bind), NEW errors, NEW n \in Nat, n > Len(bindings),
         Bindable(bindings, errors, n)
  PROVE  \A k \in DOMAIN bindings : bind_error(bindings[k]) \in errors
BY DEF Bindable

LEMMA NextBindable ==
  ASSUME NEW bindings, NEW errors, NEW n \in Nat, Bindable(bindings, errors, n),
         DOMAIN bindings \subseteq Nat, bind_error(bindings[n]) \in errors
  PROVE  Bindable(bindings, errors, n + 1)
<1> SUFFICES ASSUME NEW k \in DOMAIN bindings, k < n + 1
             PROVE  bind_error(bindings[k]) \in errors
  BY DEF Bindable
<1>1. k < n \/ k = n
  OBVIOUS
<1> QED
  BY <1>1 DEF Bindable

LEMMA StepJudges == IInv /\ Judged /\ [Next]_vars => Judged'
<1> SUFFICES ASSUME IInv, Judged, [Next]_vars PROVE Judged'
  OBVIOUS
<1>t. /\ input.captures \in Seq(Bind) /\ input.query \in Seq(Bind) /\ next \in Nat \ {0}
      /\ DOMAIN input.captures \subseteq Nat /\ DOMAIN input.query \subseteq Nat
      /\ input.selector \in {"wildcard", "field", "missing", "none"}
  BY Typed
<1>1. CASE DecodeBody
  <2>1. stage' = "path" => BodyUsable /\ UNCHANGED input
    BY <1>1, BodyStep DEF BodyUsable
  <2>2. stage' = "path" => Bindable(input.captures, {"none"}, next)'
    <3>1. next = 1 /\ UNCHANGED <<input, next>>
      BY <1>1, BodyStep DEF Judged
    <3> QED
      BY <1>t, <3>1 DEF Bindable
  <2> QED
    BY <1>1, <2>1, <2>2, BodyStep DEF Judged, RejectsTheFaulty, Faulty, BodyUsable
<1>2. CASE BindVariable
  <2> DEFINE b == input.captures[next]
  <2>1. CASE bind_error(b) # "none"
    BY <1>2, <2>1, VariableStep DEF Judged, RejectsTheFaulty, Faulty, BodyUsable
  <2>2. CASE bind_error(b) = "none"
    <3>1. Bindable(input.captures, {"none"}, next + 1)
      BY <1>2, <1>t, <2>2, VariableStep, NextBindable DEF Judged
    <3> QED
      BY <1>2, <2>2, <3>1, VariableStep DEF Judged, RejectsTheFaulty, BodyUsable
  <2> QED
    BY <2>1, <2>2
<1>3. CASE VariablesBound
  <2>1. CapturesBindable /\ BodyUsable
    BY <1>3, <1>t, AllBindable DEF VariablesBound, Judged, CapturesBindable
  <2>2. Bindable(input.query, {"none", "unknown_field"}, 1)
    BY <1>t DEF Bindable
  <2>3. /\ UNCHANGED input /\ next' = 1
        /\ stage' = IF input.selector = "wildcard" THEN "forward" ELSE "query"
    BY <1>3 DEF VariablesBound
  <2>4. input.selector = "wildcard" => ~Faulty /\ input.selector # "missing"
    BY <2>1 DEF Faulty, Parameters, CapturesBindable, BodyUsable
  <2>5. Faulty' <=> Faulty
    BY <2>3 DEF Faulty, Parameters
  <2>6. (CapturesBindable /\ BodyUsable)'
    BY <2>1, <2>3 DEF CapturesBindable, BodyUsable
  <2>7. Bindable(input.query, {"none", "unknown_field"}, next)'
    BY <2>2, <2>3 DEF Bindable
  <2> QED
    BY <2>3, <2>4, <2>5, <2>6, <2>7 DEF Judged, RejectsTheFaulty
<1>4. CASE BindParameter
  <2> DEFINE b == input.query[next]
  <2>0. stage = "query" /\ input.selector # "wildcard" /\ UNCHANGED input
    BY <1>4, ParameterStep DEF Judged
  <2>1. CASE bind_error(b) \notin {"none", "unknown_field"}
    <3>1. Faulty'
      BY <1>4, <2>0, <2>1, ParameterStep DEF Faulty, Parameters
    <3> QED
      BY <1>4, <2>0, <2>1, <3>1, ParameterStep DEF Judged, RejectsTheFaulty, BodyUsable
  <2>2. CASE bind_error(b) \in {"none", "unknown_field"}
    <3>1. Bindable(input.query, {"none", "unknown_field"}, next + 1)
      BY <1>4, <1>t, <2>0, <2>2, NextBindable DEF Judged
    <3>2. stage' = "query" /\ next' = next + 1
      BY <1>4, <2>2, ParameterStep
    <3> QED
      BY <2>0, <3>1, <3>2 DEF Judged, RejectsTheFaulty, BodyUsable, CapturesBindable
  <2> QED
    BY <2>1, <2>2
<1>5. CASE QueryBound
  <2>1. /\ BodyUsable /\ CapturesBindable /\ input.selector # "wildcard"
        /\ \A k \in DOMAIN input.query : bind_error(input.query[k]) \in {"none", "unknown_field"}
    BY <1>5, <1>t, AllBindable DEF QueryBound, Judged
  <2>2. ~Faulty /\ input.selector # "missing"
    BY <2>1 DEF Faulty, Parameters, BodyUsable, CapturesBindable
  <2>3. Faulty' <=> Faulty
    BY <1>5 DEF QueryBound, Faulty, Parameters
  <2> QED
    BY <1>5, <2>2, <2>3 DEF QueryBound, Judged, RejectsTheFaulty
<1>6. CASE UNCHANGED vars
  BY <1>6 DEF vars, Judged, RejectsTheFaulty, Faulty, Parameters, BodyUsable,
              CapturesBindable, Bindable
<1> QED
  BY <1>1, <1>2, <1>3, <1>4, <1>5, <1>6 DEF Next

(* A request is refused for its own faults only, and for each of them.     *)
THEOREM VerdictIsOwn == Spec => []RejectsTheFaulty
<1>1. Init => Judged
  BY DEF Init, Judged, RejectsTheFaulty
<1>2. Judged => RejectsTheFaulty
  BY DEF Judged
<1> QED
  BY <1>1, <1>2, StepJudges, Consistent, PTL DEF Spec

(***************************************************************************)
(* Body and path variables.                                                *)
(***************************************************************************)
(* The captures, and the parameters, that have been bound. *)
Bound  == {k \in DOMAIN input.captures : stage = "path" => k < next}
Looked == {k \in DOMAIN Parameters : stage # "path" /\ (stage = "query" => k < next)}

(* What binding the next variable, or going on to the query, means to them. *)
LEMMA BoundSteps ==
  ASSUME IInv
  PROVE  /\ BindVariable /\ stage' = "path" => Bound' = Bound \cup {next} /\ next \notin Bound
         /\ VariablesBound => Bound' = Bound
         /\ BindParameter \/ QueryBound => Bound' = Bound
<1>t. next \in Nat \ {0} /\ input.captures \in Seq(Bind) /\ DOMAIN input.captures \subseteq Nat
  BY Typed
<1>1. ASSUME BindVariable, stage' = "path"
      PROVE  Bound' = Bound \cup {next} /\ next \notin Bound
  <2>1. /\ stage = "path" /\ next \in DOMAIN input.captures
        /\ input' = input /\ next' = next + 1
    BY <1>1, VariableStep
  <2>2. \A k \in DOMAIN input.captures : k < next + 1 <=> k < next \/ k = next
    BY <1>t
  <2> QED
    BY <1>1, <1>t, <2>1, <2>2 DEF Bound
<1>2. ASSUME VariablesBound PROVE Bound' = Bound
  <2>1. \A k \in DOMAIN input.captures : k < next
    BY <1>t, <1>2 DEF VariablesBound
  <2>2. UNCHANGED input /\ stage' # "path"
    BY <1>2 DEF VariablesBound
  <2> QED
    BY <2>1, <2>2 DEF Bound
<1>3. ASSUME BindParameter \/ QueryBound PROVE Bound' = Bound
  <2>1. UNCHANGED input /\ stage # "path" /\ stage' # "path"
    BY <1>3, ParameterStep DEF QueryBound
  <2> QED
    BY <2>1 DEF Bound
<1> QED
  BY <1>1, <1>2, <1>3

(* A field of the body that no variable bound so far is, or evicts. *)
Untouched(f, B) == \A k \in B : input.captures[k].key.at # f /\ ~Evicts(input.captures[k], f)

Owned ==
  input.selector = "wildcard" /\ stage \in {"path", "forward"} =>
    /\ DOMAIN msg \subseteq DOMAIN input.body
         \cup UNION {Lineage[input.captures[k].key.at] : k \in Bound}
    /\ \A f \in DOMAIN input.body :
         Untouched(f, Bound) => f \in DOMAIN msg /\ msg[f] = input.body[f]

LEMMA StepOwns == IInv /\ Judged /\ Owned /\ [Next]_vars => Owned'
<1> SUFFICES ASSUME IInv, Judged, Owned, [Next]_vars,
                    input'.selector = "wildcard", stage' \in {"path", "forward"}
             PROVE  /\ DOMAIN msg' \subseteq DOMAIN input'.body
                         \cup UNION {Lineage[input'.captures[k].key.at] : k \in Bound'}
                    /\ \A f \in DOMAIN input'.body :
                         Untouched(f, Bound)' => f \in DOMAIN msg' /\ msg'[f] = input'.body[f]
  BY DEF Owned
<1>1. CASE DecodeBody
  BY <1>1, BodyStep
<1>2. CASE BindVariable
  <2> DEFINE b == input.captures[next]
             B == Bound
  <2>1. /\ stage = "path" /\ input' = input /\ b \in Bind /\ bind_error(b) = "none"
        /\ msg' = bind_leaf(msg, b, "overwrite") /\ stage' = "path"
    BY <1>2, VariableStep
  <2>2. Bound' = B \cup {next}
    BY <1>2, <2>1, BoundSteps
  <2>3. /\ DOMAIN msg \subseteq DOMAIN input.body
             \cup UNION {Lineage[input.captures[k].key.at] : k \in B}
        /\ \A f \in DOMAIN input.body :
             Untouched(f, B) => f \in DOMAIN msg /\ msg[f] = input.body[f]
    BY <2>1 DEF Owned
  <2> HIDE DEF B
  <2>4. DOMAIN msg' \subseteq DOMAIN msg \cup Lineage[b.key.at]
    BY <2>1, BindLeafAdds
  <2>5. ASSUME NEW f \in DOMAIN input.body, Untouched(f, B \cup {next})
        PROVE  f \in DOMAIN msg' /\ msg'[f] = input.body[f]
    <3>1. Untouched(f, B) /\ b.key.at # f /\ ~Evicts(b, f)
      BY <2>5 DEF Untouched
    <3> QED
      BY <2>1, <2>3, <3>1, BindLeafLeaves
  <2>6. \A f : Untouched(f, Bound)' <=> Untouched(f, B \cup {next})
    BY <2>1, <2>2 DEF Untouched, Evicts
  <2>7. ASSUME NEW f \in DOMAIN msg'
        PROVE  f \in DOMAIN input.body
                    \cup UNION {Lineage[input.captures[k].key.at] : k \in B \cup {next}}
    BY <2>3, <2>4, <2>7
  <2>8. \A f \in DOMAIN input'.body :
          Untouched(f, Bound)' => f \in DOMAIN msg' /\ msg'[f] = input'.body[f]
    BY <2>1, <2>5, <2>6
  <2>9. input'.captures = input.captures /\ input'.body = input.body
    BY <2>1
  <2>10. {Lineage[input'.captures[k].key.at] : k \in Bound'}
           = {Lineage[input.captures[k].key.at] : k \in B \cup {next}}
    BY <2>2, <2>9
  <2> HIDE DEF b
  <2>11. DOMAIN msg' \subseteq DOMAIN input'.body
             \cup UNION {Lineage[input'.captures[k].key.at] : k \in Bound'}
    BY <2>7, <2>9, <2>10
  <2> QED
    BY <2>8, <2>11
<1>3. CASE VariablesBound
  <2>1. stage = "path" /\ UNCHANGED <<input, msg>> /\ Bound' = Bound
    BY <1>3, BoundSteps DEF VariablesBound
  <2>2. \A f : Untouched(f, Bound)' <=> Untouched(f, Bound)
    BY <2>1 DEF Untouched, Evicts
  <2> QED
    BY <2>1, <2>2 DEF Owned
<1>4. CASE BindParameter \/ QueryBound
  BY <1>4, ParameterStep DEF QueryBound, Judged
<1>5. CASE UNCHANGED vars
  <2>1. UNCHANGED <<input, msg, stage>> /\ Bound' = Bound
    BY <1>5 DEF vars, Bound
  <2>2. \A f : Untouched(f, Bound)' <=> Untouched(f, Bound)
    BY <2>1 DEF Untouched, Evicts
  <2> QED
    BY <2>1, <2>2 DEF Owned
<1> QED
  BY <1>1, <1>2, <1>3, <1>4, <1>5 DEF Next

(* With `body: "*"` the message is the body but for the path variables.    *)
THEOREM BodyOwns == Spec => []BodyOwnsTheRest
<1>1. Init => Judged /\ Owned
  BY DEF Init, Judged, RejectsTheFaulty, Owned
<1>2. Owned => BodyOwnsTheRest
  <2> SUFFICES ASSUME Owned, stage = "forward", input.selector = "wildcard"
               PROVE  BodyOwnsTheRest
    BY DEF BodyOwnsTheRest
  <2>1. Bound = DOMAIN input.captures
    BY DEF Bound
  <2> QED
    BY <2>1 DEF Owned, Untouched, BodyOwnsTheRest
<1> QED
  BY <1>1, <1>2, StepJudges, StepOwns, Consistent, PTL DEF Spec

(***************************************************************************)
(* Path variables and query.                                               *)
(***************************************************************************)
(* The value of variable k shows, and of the variables in B and parameters *)
(* in P none takes its place.                                              *)
Shows(k, B, P) ==
  LET b == input.captures[k]
      f == b.key.at
  IN /\ Shape[f] = "scalar"
     /\ f \in Presence \/ b.text # Default
     /\ \A j \in B : j > k => input.captures[j].key.at # f /\ ~Evicts(input.captures[j], f)
     /\ \A j \in P : ~Evicts(Parameters[j], f)

Kept(k, m) ==
  input.captures[k].key.at \in DOMAIN m /\ m[input.captures[k].key.at] = <<input.captures[k].text>>

PathKept ==
  stage \in {"path", "query", "forward"} =>
    \A k \in Bound : Shows(k, Bound, Looked) => Kept(k, msg)

(* A variable's value that shows is one no parameter fills in for. *)
LEMMA ShownIsSet ==
  ASSUME NEW k, NEW B, NEW P, NEW m, Shows(k, B, P), Kept(k, m)
  PROVE  has_field(m, input.captures[k].key.at) /\ Shape[input.captures[k].key.at] # "list"
<1>1. input.captures[k].text # Default =>
        <<input.captures[k].text>> \notin {<<>>, <<Default>>}
  OBVIOUS
<1>2. <<input.captures[k].text>> # <<>>
  OBVIOUS
<1> QED
  BY <1>1, <1>2 DEF Shows, Kept, has_field

LEMMA VariableKeeps ==
  ASSUME IInv, PathKept, BindVariable, stage' = "path",
         NEW k \in Bound \cup {next}, Shows(k, Bound \cup {next}, {})
  PROVE  Kept(k, msg')
<1> DEFINE b == input.captures[next]
<1>1. /\ stage = "path" /\ b \in Bind /\ bind_error(b) = "none" /\ Good(msg)
      /\ msg' = bind_leaf(msg, b, "overwrite")
  BY VariableStep, Typed
<1>2. CASE k = next
  BY <1>1, <1>2, OverwriteSets DEF Shows, Kept
<1>3. CASE k # next
  <2>1. k \in Bound /\ k < next
    BY <1>1, <1>3 DEF Bound
  <2>2. Looked = {}
    BY <1>1 DEF Looked
  <2>3. Shows(k, Bound, Looked)
    BY <2>2 DEF Shows
  <2>4. Kept(k, msg)
    BY <1>1, <2>1, <2>3 DEF PathKept
  <2>5. input.captures[k].key.at # b.key.at /\ ~Evicts(b, input.captures[k].key.at)
    <3>1. next > k
      BY <2>1, Typed DEF Bound
    <3> QED
      BY <3>1 DEF Shows
  <2> QED
    BY <1>1, <2>4, <2>5, BindLeafLeaves DEF Kept
<1> QED
  BY <1>2, <1>3

LEMMA ParameterKeeps ==
  ASSUME IInv, Judged, PathKept, BindParameter, stage' = "query",
         NEW k \in Bound, Shows(k, Bound, Looked \cup {next})
  PROVE  Kept(k, msg')
<1> DEFINE b == input.query[next]
           f == input.captures[k].key.at
<1>1. stage = "query" /\ b \in Bind /\ Good(msg)
  BY ParameterStep, Typed
<1>2. Parameters = input.query
  BY <1>1 DEF Judged, Parameters
<1>3. Shows(k, Bound, Looked) /\ ~Evicts(b, f)
  BY <1>2 DEF Shows
<1>4. Kept(k, msg) /\ has_field(msg, f) /\ Shape[f] # "list"
  BY <1>1, <1>3, ShownIsSet DEF PathKept
<1>5. f \in Field
  <2>1. input.captures[k] \in Bind /\ bind_error(input.captures[k]) = "none"
    BY <1>1, Typed DEF Bound, Judged, CapturesBindable
  <2> QED
    BY <2>1, BoundKey
<1>6. CASE bind_error(b) = "none"
  <2>1. msg' = bind_leaf(msg, b, "fill")
    BY <1>6, ParameterStep
  <2>2. f \in DOMAIN msg' /\ msg'[f] = msg[f]
    BY <1>1, <1>3, <1>4, <1>5, <1>6, <2>1, FillKeeps
  <2> QED
    BY <1>4, <2>2 DEF Kept
<1>7. CASE bind_error(b) = "unknown_field"
  <2>1. msg' = get_field_mut(msg, Descended(b.key)) /\ b.key.more
    BY <1>7, ParameterStep DEF bind_error
  <2>2. \A g \in Lineage[f], s \in Descended(b.key) : ~Rivals(g, s)
    BY <1>3, <2>1 DEF Evicts, Descended
  <2>3. f \in DOMAIN msg' /\ msg'[f] = msg[f]
    BY <1>4, <2>1, <2>2, MaterializingLeaves DEF Kept
  <2> QED
    BY <1>4, <2>3 DEF Kept
<1> QED
  BY <1>6, <1>7, ParameterStep

LEMMA StepKeepsPath == IInv /\ Judged /\ PathKept /\ [Next]_vars => PathKept'
<1> SUFFICES ASSUME IInv, Judged, PathKept, [Next]_vars,
                    stage' \in {"path", "query", "forward"},
                    NEW k \in Bound', Shows(k, Bound, Looked)'
             PROVE  Kept(k, msg)'
  BY DEF PathKept
<1>t. /\ next \in Nat \ {0} /\ input.captures \in Seq(Bind) /\ input.query \in Seq(Bind)
      /\ DOMAIN input.captures \subseteq Nat \ {0} /\ DOMAIN input.query \subseteq Nat \ {0}
  BY Typed
<1>i. UNCHANGED input /\ Parameters' = Parameters
  <2>1. UNCHANGED input
    BY BodyStep, VariableStep, ParameterStep DEF Next, VariablesBound, QueryBound, vars
  <2> QED
    BY <2>1 DEF Parameters
<1>e. \A b, f : Evicts(b, f)' <=> Evicts(b, f)
  BY DEF Evicts
<1>s. \A B, P : Shows(k, B, P)' <=> Shows(k, B, P)
  BY <1>i, <1>e DEF Shows
<1>k. Kept(k, msg)' <=> Kept(k, msg')
  BY <1>i DEF Kept
<1>h. Shows(k, Bound', Looked')
  BY <1>i, <1>e DEF Shows
<1>u. ASSUME msg' = msg, Bound' = Bound, Looked \subseteq Looked',
             stage \in {"path", "query", "forward"}
      PROVE  Kept(k, msg)'
  <2>1. Shows(k, Bound, Looked)
    BY <1>h, <1>u DEF Shows
  <2> QED
    BY <1>k, <1>u, <2>1 DEF PathKept
<1>1. CASE DecodeBody
  <2>1. next' = 1 /\ stage' = "path"
    BY <1>1, BodyStep DEF Judged
  <2>2. Bound' = {}
    BY <1>i, <1>t, <2>1 DEF Bound
  <2> QED
    BY <2>2
<1>2. CASE BindVariable
  <2>1. stage' = "path"
    BY <1>2, VariableStep
  <2>2. Bound' = Bound \cup {next} /\ Looked' = {}
    BY <1>2, <2>1, BoundSteps DEF Looked
  <2>3. Shows(k, Bound \cup {next}, {})
    BY <1>h, <2>2
  <2> QED
    BY <1>2, <1>k, <2>1, <2>2, <2>3, VariableKeeps
<1>3. CASE VariablesBound
  <2>1. msg' = msg /\ Bound' = Bound /\ stage = "path"
    BY <1>3, BoundSteps DEF VariablesBound
  <2>2. Looked = {}
    BY <2>1 DEF Looked
  <2> QED
    BY <1>u, <2>1, <2>2
<1>4. CASE BindParameter
  <2>1. /\ stage = "query" /\ stage' = "query" /\ next' = next + 1
        /\ next \in DOMAIN input.query
    BY <1>4, ParameterStep
  <2>2. Bound' = Bound
    BY <1>4, BoundSteps
  <2>3. Looked \cup {next} \subseteq Looked'
    <3>1. Parameters = input.query
      BY <2>1 DEF Judged, Parameters
    <3>2. \A j \in DOMAIN input.query : j < next \/ j = next => j < next + 1
      BY <1>t
    <3> QED
      BY <1>i, <2>1, <3>1, <3>2 DEF Looked
  <2>4. Shows(k, Bound, Looked \cup {next})
    BY <1>h, <2>2, <2>3 DEF Shows
  <2> QED
    BY <1>4, <1>k, <2>1, <2>2, <2>4, ParameterKeeps
<1>5. CASE QueryBound
  <2>1. msg' = msg /\ Bound' = Bound /\ stage = "query" /\ stage' = "forward"
    BY <1>5, BoundSteps DEF QueryBound
  <2>2. Looked \subseteq Looked'
    BY <1>i, <2>1 DEF Looked
  <2> QED
    BY <1>u, <2>1, <2>2
<1>6. CASE UNCHANGED vars
  <2>1. msg' = msg /\ Bound' = Bound /\ Looked' = Looked /\ stage' = stage
    BY <1>6, <1>i DEF vars, Bound, Looked
  <2> QED
    BY <1>u, <2>1
<1> QED
  BY <1>1, <1>2, <1>3, <1>4, <1>5, <1>6 DEF Next

(* A path variable whose value shows wins over body and query.             *)
THEOREM PathVariableWins == Spec => []VisiblePathWins
<1>1. Init => Judged /\ PathKept
  BY DEF Init, Judged, RejectsTheFaulty, PathKept
<1>2. PathKept => VisiblePathWins
  <2> SUFFICES ASSUME PathKept, stage = "forward", NEW k \in DOMAIN input.captures,
                      Shows(k, DOMAIN input.captures, DOMAIN Parameters)
               PROVE  Kept(k, msg)
    BY DEF VisiblePathWins, Shows, Kept
  <2>1. Bound = DOMAIN input.captures /\ Looked = DOMAIN Parameters
    BY DEF Bound, Looked
  <2> QED
    BY <2>1 DEF PathKept
<1> QED
  BY <1>1, <1>2, StepJudges, StepKeepsPath, Consistent, PTL DEF Spec
=============================================================================
