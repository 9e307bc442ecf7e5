--------------------------- MODULE RequestBinding ---------------------------
(***************************************************************************)
(* How a request becomes the input message of its method: `build_request`  *)
(* (gateway.rs) and `bind_field_path` (transcode.rs).  The JSON body is    *)
(* decoded first, the path variables are bound over it, and the query      *)
(* parameters fill what is left; each binding is a step.                   *)
(*                                                                         *)
(* A message is the function of its present fields to their values.  A     *)
(* field here is a whole field path of the input message (`user.id`), and  *)
(* Lineage[f] holds the fields on the way to f, f among them.  Presence,   *)
(* oneofs and the default made by `get_field_mut` are prost-reflect's.     *)
(***************************************************************************)
EXTENDS Sequences, Integers

CONSTANTS
  Field,      \* field paths of the input message
  Lineage,    \* [Field -> SUBSET Field]
  Shape,      \* [Field -> "scalar", "list", "message" or "opaque"]
  Presence,   \* fields with explicit presence
  Oneof,      \* oneofs, each at its place in the message
  NoOneof,
  OneofOf,    \* [Field -> Oneof \cup {NoOneof}]
  Root,       \* the input message itself
  Value, Default,
  Junk,       \* a text that is no value of the field's type
  Invalid,    \* a body that is not the JSON of the message
  Input       \* the requests

Rivals(f, g) == f # g /\ OneofOf[f] = OneofOf[g] /\ OneofOf[f] # NoOneof

(* A key of a path variable or query parameter is a path down to the field *)
(* `at`; if `more`, one name follows that is no field of it.               *)
Key  == [at : Field \cup {Root}, more : BOOLEAN]
Bind == {b \in [key : Key, text : Value \cup {Junk}] : b.key.at = Root => b.key.more}

IsMessage(m) == DOMAIN m \subseteq Field /\ \A f \in DOMAIN m : m[f] \in Seq(Value)
Empty == [f \in {} |-> <<>>]

WellFormed(m) ==
  /\ \A f \in DOMAIN m : Lineage[f] \subseteq DOMAIN m
  /\ \A f, g \in DOMAIN m : ~Rivals(f, g)

(* What a message of the schema is, and that the JSON decoder makes one.   *)
ASSUME RequestBindingAssumptions ==
  /\ Root \notin Field
  /\ Lineage \in [Field -> SUBSET Field]
  /\ \A f \in Field :
       /\ f \in Lineage[f]
       /\ \A g \in Lineage[f] : Lineage[g] \subseteq Lineage[f]
       /\ \A g \in Lineage[f] \ {f} : f \notin Lineage[g]
       /\ \A g, h \in Lineage[f] : ~Rivals(g, h)
  /\ Shape \in [Field -> {"scalar", "list", "message", "opaque"}]
  /\ \A f \in Field : \A g \in Lineage[f] \ {f} : Shape[g] = "message"
  /\ OneofOf \in [Field -> Oneof \cup {NoOneof}]
  /\ NoOneof \notin Oneof
  /\ Default \in Value
  /\ Junk \notin Value
  /\ \A r \in Input :
       /\ r.selector \in {"wildcard", "field", "missing", "none"}
       /\ r.body = Invalid \/ (IsMessage(r.body) /\ WellFormed(r.body))
       /\ r.captures \in Seq(Bind)
       /\ r.query \in Seq(Bind)

VARIABLES
  input,   \* the request: selector, body, captures and query
  stage,   \* "body", "path", "query", or the verdict on the request
  next,    \* the capture or parameter bound next
  msg      \* the message built so far

vars == <<input, stage, next, msg>>

(***************************************************************************)
(* prost-reflect (external).                                               *)
(***************************************************************************)
(* `has_field`: without explicit presence, a default is as good as unset.  *)
has_field(m, f) ==
  f \in DOMAIN m /\ (f \in Presence \/ m[f] \notin {<<>>, <<Default>>})

(* `get_field_mut` along S: a field that is not there gets its default,    *)
(* and the other members of its oneof go, with all that is in them.        *)
get_field_mut(m, S) ==
  LET kept == {f \in DOMAIN m : \A g \in Lineage[f], s \in S : ~Rivals(g, s)}
  IN [f \in kept \cup S |-> IF f \in kept THEN m[f] ELSE <<>>]

set_field(m, f, value) == [get_field_mut(m, Lineage[f]) EXCEPT ![f] = value]

(***************************************************************************)
(* Binding one text.                                                       *)
(***************************************************************************)
(* The message fields `bind_inner` descends through before it succeeds or  *)
(* fails: each is materialized.                                            *)
Descended(key) ==
  IF key.at = Root THEN {}
  ELSE IF key.more /\ Shape[key.at] = "message" THEN Lineage[key.at]
  ELSE Lineage[key.at] \ {key.at}

BugNoCoercion(b) ==    \* mutant: the text is stored as it came
  IF b.key.more
  THEN IF b.key.at = Root \/ (b.key.at \in Field /\ Shape[b.key.at] = "message")
       THEN "unknown_field" ELSE "not_a_message"
  ELSE IF Shape[b.key.at] \in {"message", "opaque"} THEN "unsupported_field"
  ELSE "none"

(* The `BindError` of a binding; `coerce_scalar` is the last two cases.    *)
bind_error(b) ==
  IF b.key.more
  THEN IF b.key.at = Root \/ (b.key.at \in Field /\ Shape[b.key.at] = "message")
       THEN "unknown_field" ELSE "not_a_message"
  ELSE IF Shape[b.key.at] \in {"message", "opaque"} THEN "unsupported_field"
  ELSE IF b.text = Junk THEN "invalid_value"
  ELSE "none"

BugAlwaysOverwrite(m, b, mode) ==    \* mutant: the mode is ignored
  IF Shape[b.key.at] = "list"
  THEN LET n == get_field_mut(m, Lineage[b.key.at])
       IN [n EXCEPT ![b.key.at] = Append(@, b.text)]
  ELSE set_field(m, b.key.at, <<b.text>>)

BugEvictNobody(m, b, mode) ==        \* mutant: a oneof keeps its other member
  IF mode = "fill" /\ has_field(m, b.key.at) THEN m
  ELSE [f \in DOMAIN m \cup Lineage[b.key.at] |->
          IF f = b.key.at THEN <<b.text>> ELSE IF f \in DOMAIN m THEN m[f] ELSE <<>>]

(* `bind_leaf`, reached through its parents. *)
bind_leaf(m, b, mode) ==
  LET f == b.key.at
      n == get_field_mut(m, Descended(b.key))
  IN IF Shape[f] = "list"
     THEN [get_field_mut(n, Lineage[f]) EXCEPT ![f] = Append(@, b.text)]
     ELSE IF mode = "fill" /\ has_field(n, f) THEN n
     ELSE set_field(n, f, <<b.text>>)

(***************************************************************************)
(* `build_request`.                                                        *)
(***************************************************************************)
Init ==
  /\ input \in Input
  /\ stage = "body"
  /\ next = 1
  /\ msg = Empty

Reject(code) == stage' = code /\ UNCHANGED <<input, next, msg>>

(* Mutant of DecodeBody: the body is parsed before its field is looked up. *)
BugParseFirst ==
  /\ stage = "body"
  /\ IF input.selector # "none" /\ input.body = Invalid THEN Reject("bad_request")
     ELSE IF input.selector = "missing" THEN Reject("bad_rule")
     ELSE /\ msg' = IF input.selector = "none" THEN Empty ELSE input.body
          /\ stage' = "path"
          /\ UNCHANGED <<input, next>>

(* `decode_request_body` or `decode_body_into_field`. *)
DecodeBody ==
  /\ stage = "body"
  /\ IF input.selector = "missing" THEN Reject("bad_rule")
     ELSE IF input.selector # "none" /\ input.body = Invalid THEN Reject("bad_request")
     ELSE /\ msg' = IF input.selector = "none" THEN Empty ELSE input.body
          /\ stage' = "path"
          /\ UNCHANGED <<input, next>>

(* Mutant of BindVariable: a path variable only fills what is unset. *)
BugFillFromPath ==
  /\ stage = "path" /\ next <= Len(input.captures)
  /\ LET b == input.captures[next] IN
       IF bind_error(b) # "none" THEN Reject("bad_request")
       ELSE /\ msg' = bind_leaf(msg, b, "fill")
            /\ next' = next + 1
            /\ UNCHANGED <<input, stage>>

BindVariable ==
  /\ stage = "path" /\ next <= Len(input.captures)
  /\ LET b == input.captures[next] IN
       IF bind_error(b) # "none" THEN Reject("bad_request")
       ELSE /\ msg' = bind_leaf(msg, b, "overwrite")
            /\ next' = next + 1
            /\ UNCHANGED <<input, stage>>

BugQueryAlways ==    \* mutant: the query is applied to a whole-message body too
  /\ stage = "path" /\ next > Len(input.captures)
  /\ stage' = "query"
  /\ next' = 1
  /\ UNCHANGED <<input, msg>>

(* With `body: "*"` the query is not looked at. *)
VariablesBound ==
  /\ stage = "path" /\ next > Len(input.captures)
  /\ stage' = IF input.selector = "wildcard" THEN "forward" ELSE "query"
  /\ next' = 1
  /\ UNCHANGED <<input, msg>>

BugTolerateAll(error) == error # "none"    \* mutant: a value that does not parse is skipped

(* The error `bind_query` goes on after. *)
tolerated(error) == error = "unknown_field"

(* One turn of the loop in `bind_query`. *)
BindParameter ==
  /\ stage = "query" /\ next <= Len(input.query)
  /\ LET b == input.query[next]
         error == bind_error(b)
     IN IF error # "none" /\ ~tolerated(error) THEN Reject("bad_request")
        ELSE /\ msg' = IF error = "none" THEN bind_leaf(msg, b, "fill")
                       ELSE get_field_mut(msg, Descended(b.key))
             /\ next' = next + 1
             /\ UNCHANGED <<input, stage>>

QueryBound ==
  /\ stage = "query" /\ next > Len(input.query)
  /\ stage' = "forward"
  /\ UNCHANGED <<input, next, msg>>

Next == DecodeBody \/ BindVariable \/ VariablesBound \/ BindParameter \/ QueryBound

Spec == Init /\ [][Next]_vars

(***************************************************************************)
(* Correctness.                                                            *)
(***************************************************************************)
Stage == {"body", "path", "query", "forward", "bad_request", "bad_rule"}

(* Every variable has its type; a scalar that is present has one value.    *)
TypeOK ==
  /\ input \in Input
  /\ stage \in Stage
  /\ next \in Nat \ {0}
  /\ IsMessage(msg)

(* The message is one its type allows, whatever the order of the bindings: *)
(* no two members of a oneof, at any depth, and no field without the       *)
(* message it is in.                                                       *)
MessageWellFormed == WellFormed(msg)

(* A query parameter never overwrites: a field that was set keeps its      *)
(* value, unless it is a list or another member of its oneof is bound.     *)
QueryOnlyFills ==
  [][\A f \in Field :
       stage = "query" /\ has_field(msg, f) /\ Shape[f] # "list" =>
         f \notin DOMAIN msg' \/ msg'[f] = msg[f]]_vars

(* Whether binding `b` puts another member of a oneof in place of f, or of *)
(* a message f is in. *)
Evicts(b, f) ==
  b.key.at # Root /\ \E g \in Lineage[f], h \in Descended(b.key) \cup
    (IF b.key.more THEN {} ELSE {b.key.at}) : Rivals(g, h)

Parameters == IF input.selector = "wildcard" THEN <<>> ELSE input.query

(* A path variable wins over body and query as long as its value can be    *)
(* told from an unset field and nothing bound later is in a oneof with it. *)
VisiblePathWins ==
  stage = "forward" =>
    \A k \in DOMAIN input.captures :
      LET b == input.captures[k]
          f == b.key.at
      IN /\ Shape[f] = "scalar"
         /\ f \in Presence \/ b.text # Default
         /\ \A j \in DOMAIN input.captures : j > k =>
              input.captures[j].key.at # f /\ ~Evicts(input.captures[j], f)
         /\ \A j \in DOMAIN Parameters : ~Evicts(Parameters[j], f)
         => f \in DOMAIN msg /\ msg[f] = <<b.text>>

(* With `body: "*"` the message is the body but for the path variables:    *)
(* nothing in the query string reaches it.                                 *)
BodyOwnsTheRest ==
  stage = "forward" /\ input.selector = "wildcard" =>
    /\ DOMAIN msg \subseteq DOMAIN input.body
         \cup UNION {Lineage[input.captures[k].key.at] : k \in DOMAIN input.captures}
    /\ \A f \in DOMAIN input.body :
         (\A k \in DOMAIN input.captures :
            input.captures[k].key.at # f /\ ~Evicts(input.captures[k], f))
         => f \in DOMAIN msg /\ msg[f] = input.body[f]

(* A request is refused for its own faults only, and for each of them: the *)
(* verdict depends on no binding made before.  A rule whose body selector  *)
(* names no field fails every request as the rule's fault, never as the    *)
(* client's, whatever else is wrong with the request.                      *)
Faulty ==
  \/ input.selector \in {"wildcard", "field"} /\ input.body = Invalid
  \/ \E k \in DOMAIN input.captures : bind_error(input.captures[k]) # "none"
  \/ \E k \in DOMAIN Parameters :
       bind_error(Parameters[k]) \notin {"none", "unknown_field"}

RejectsTheFaulty ==
  /\ stage = "bad_rule" => input.selector = "missing"
  /\ stage = "bad_request" => Faulty /\ input.selector # "missing"
  /\ stage = "forward" => ~Faulty /\ input.selector # "missing"

(* "path variables > body > query" (gateway.rs): the value a path variable *)
(* gave a field is the value the backend receives.                         *)
PathWins ==
  stage = "forward" /\ Len(input.captures) = 1 =>
    LET b == input.captures[1] IN
    Shape[b.key.at] = "scalar" =>
      b.key.at \in DOMAIN msg /\ msg[b.key.at] = <<b.text>>

(* "Unknown query fields are ignored" (gateway.rs): a parameter that names *)
(* no field leaves the message as it was.                                  *)
UnknownIsIgnored ==
  [][stage = "query" /\ next <= Len(input.query)
       /\ bind_error(input.query[next]) = "unknown_field" => msg' = msg]_vars
=============================================================================
