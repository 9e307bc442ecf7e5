----------------------------- MODULE RouteTable -----------------------------
(***************************************************************************)
(* The route table: how `google.api.http` rules are lowered to bindings    *)
(* (routes.rs), what `grpc-gw check` reports about them (bin/grpc-gw.rs),  *)
(* when a gateway can be built from them, and which endpoint a request     *)
(* reaches (gateway.rs).                                                   *)
(*                                                                         *)
(* A binding is named by its position <<m, b>>: pattern b of method m.     *)
(* Declaration order is the lexicographic order of positions.              *)
(***************************************************************************)
EXTENDS PathTemplate, Integers

CONSTANTS
  Path,         \* path templates as written, and the default paths
  Compiled,     \* [Path -> what `PathTemplate::parse` makes of them]
  Kind,         \* HTTP methods, and kinds of custom patterns
  Upper,        \* [Kind -> Kind], ASCII uppercase
  Method,       \* gRPC paths; each is also its default HTTP path
  Streaming,    \* the server-streaming methods
  POST,         \* the kind of a default binding
  DescriptorSet,\* the descriptor sets a table is built from
  Request       \* what `handle` is called with

Unparsable == [unparsable |-> TRUE]
NoPattern  == [pattern |-> FALSE]    \* a rule whose `pattern` oneof is unset

Parses(path) == Compiled[path] # Unparsable
Pattern == [kind : Kind, path : Path]

(* The patterns of a method's rule, the primary one first; none for a      *)
(* method without annotation.                                              *)
MethodHttp == [grpc_path : Method, rule : Seq(Pattern \cup {NoPattern})]

ASSUME RouteTableAssumptions ==
  /\ Method \subseteq Path
  /\ Streaming \subseteq Method
  /\ POST \in Kind
  /\ Upper \in [Kind -> Kind]
  /\ DescriptorSet \subseteq Seq(MethodHttp)
  /\ Request \subseteq [method : Kind, path : Seq(RawSegment) \ {<<>>}]
  /\ \A path \in Path : Parses(path) =>
       /\ template_slots(Compiled[path]) \in SlotSeq
       /\ Compiled[path].verb \in Verb \cup {NoVerb}

VARIABLES
  methods,          \* the descriptor set, in its order
  unbound_methods,  \* whether unannotated methods get a default binding
  strict_routes,    \* whether shadowing is an error
  check,            \* what `grpc-gw check` reported
  gateway,          \* what `build` returned: the entries of `Inner.routes`
  answer            \* the request handled last, and the entry that took it

config == <<methods, unbound_methods, strict_routes>>
vars   == <<config, check, gateway, answer>>

(***************************************************************************)
(* Lowering.                                                               *)
(***************************************************************************)
Binding == [kind : Kind, path : Path, grpc_path : Method]
Position == Nat \X Nat

Precedes(p, q) == p[1] < q[1] \/ (p[1] = q[1] /\ p[2] < q[2])

default_binding(m) == [kind |-> POST, path |-> m.grpc_path, grpc_path |-> m.grpc_path]

(* `primary_binding`: a rule without a pattern has none. *)
primary_binding(m, b) ==
  [kind |-> m.rule[b].kind, path |-> m.rule[b].path, grpc_path |-> m.grpc_path]

(* `lower_method` and `lower_rule`. *)
lower_method(m, unbound) ==
  IF m.rule = <<>>
  THEN [b \in IF unbound THEN {1} ELSE {} |-> default_binding(m)]
  ELSE [b \in {c \in DOMAIN m.rule : m.rule[c] # NoPattern} |-> primary_binding(m, b)]

(* `RouteTable::from_methods`. *)
from_methods(ms, unbound) ==
  LET lowered == [m \in DOMAIN ms |-> lower_method(ms[m], unbound)]
  IN [p \in UNION {{<<m, b>> : b \in DOMAIN lowered[m]} : m \in DOMAIN ms} |->
        lowered[p[1]][p[2]]]

table == from_methods(methods, unbound_methods)

(***************************************************************************)
(* Conflicts.                                                              *)
(***************************************************************************)
slots == [path \in {x \in Path : Parses(x)} |-> template_slots(Compiled[path])]

BugSamePath(routes, p, q) ==    \* mutant: templates compared as opaque literals
  /\ Precedes(p, q)
  /\ Parses(routes[p].path) /\ Parses(routes[q].path)
  /\ routes[p].kind = routes[q].kind
  /\ routes[p].path = routes[q].path

BugAnyVerb(routes, p, q) ==     \* mutant: the verb is not compared
  /\ Precedes(p, q)
  /\ Parses(routes[p].path) /\ Parses(routes[q].path)
  /\ routes[p].kind = routes[q].kind
  /\ templates_overlap(slots[routes[p].path], slots[routes[q].path])

(* The later binding q collides with the earlier p. *)
Collides(routes, p, q) ==
  /\ Precedes(p, q)
  /\ Parses(routes[p].path) /\ Parses(routes[q].path)
  /\ routes[p].kind = routes[q].kind
  /\ Compiled[routes[p].path].verb = Compiled[routes[q].path].verb
  /\ templates_overlap(slots[routes[p].path], slots[routes[q].path])

First(S) == CHOOSE p \in S : \A q \in S : p = q \/ Precedes(p, q)

(* `RouteTable::conflicts`: every later binding once, against the first    *)
(* earlier one it collides with.                                           *)
Colliding(routes, q) == {p \in DOMAIN routes : Collides(routes, p, q)}

conflict(routes, q) ==
  LET p == First(Colliding(routes, q))
  IN [ what |-> IF routes[p].path = routes[q].path THEN "duplicate" ELSE "shadowed",
       by |-> p, at |-> q ]

conflicts(routes) ==
  {conflict(routes, q) : q \in {x \in DOMAIN routes : Colliding(routes, x) # {}}}

(* Mutants of is_error: one half of the condition is lost. *)
BugDuplicatesOnly(c, strict) == c.what = "duplicate"
BugStrictOnly(c, strict)     == strict

is_error(c, strict) == c.what = "duplicate" \/ strict

errors(routes, strict) == {c \in conflicts(routes) : is_error(c, strict)}

(***************************************************************************)
(* Actions.                                                                *)
(***************************************************************************)
NotRun   == [run |-> FALSE, ok |-> FALSE, warnings |-> {}]
NotBuilt == [status |-> "none", routes |-> <<>>]
NoAnswer == [verdict |-> "none"]

Init ==
  /\ methods \in DescriptorSet
  /\ unbound_methods \in BOOLEAN
  /\ strict_routes \in BOOLEAN
  /\ check = NotRun
  /\ gateway = NotBuilt
  /\ answer = NoAnswer

(* Methods no binding reaches: reported only with default bindings on. *)
Unbound(routes) ==
  {m \in DOMAIN methods : unbound_methods /\ \A p \in DOMAIN routes : p[1] # m}

BugSkipParse(routes) == {}    \* mutant: `check` looks for conflicts only

(* The loop of `run_check` over the bindings' templates. *)
Unparsed(routes) == {p \in DOMAIN routes : ~Parses(routes[p].path)}

(* `run_check`. *)
Check ==
  /\ ~check.run
  /\ LET routes == table IN
       check' = [ run      |-> TRUE,
                  ok       |-> /\ Unbound(routes) = {}
                               /\ Unparsed(routes) = {}
                               /\ errors(routes, strict_routes) = {},
                  warnings |-> conflicts(routes) \ errors(routes, strict_routes) ]
  /\ UNCHANGED <<config, gateway, answer>>

(* Mutant of endpoints: additional bindings are decoded but not served. *)
BugPrimaryOnly(routes) == [p \in {q \in DOMAIN routes : q[2] = 1} |-> routes[p]]

(* The loop of `build` that fills `Inner.routes`: one entry per binding,   *)
(* with the template compiled from its path.  The lists by HTTP method are *)
(* one function here, whose entries carry their kind.                      *)
endpoints(routes) == routes

(* `GatewayBuilder::build`: conflicts are looked at before the templates   *)
(* are compiled for good, and either failure leaves no gateway.            *)
Build ==
  /\ gateway = NotBuilt
  /\ LET routes == table IN
       gateway' = IF \/ errors(routes, strict_routes) # {}
                     \/ \E p \in DOMAIN routes : ~Parses(routes[p].path)
                  THEN [status |-> "failed", routes |-> <<>>]
                  ELSE [status |-> "built", routes |-> endpoints(routes)]
  /\ UNCHANGED <<config, check, answer>>

(* The entries the request matches; `Gateway::handle` takes the first.     *)
Hits(routes, req) ==
  {p \in DOMAIN routes :
     /\ routes[p].kind = Upper[req.method]
     /\ matches(Compiled[routes[p].path].verb, slots[routes[p].path],
                split_request_path(req.path))}

verdict(entry) == IF entry.grpc_path \in Streaming THEN "streaming" ELSE "build_request"

Handle(req) ==
  /\ gateway.status = "built"
  /\ LET hits == Hits(gateway.routes, req) IN
       answer' = IF hits = {}
                 THEN [request |-> req, verdict |-> "no_route"]
                 ELSE [request |-> req, at |-> First(hits),
                       verdict |-> verdict(gateway.routes[First(hits)])]
  /\ UNCHANGED <<config, check, gateway>>

Next == Check \/ Build \/ \E req \in Request : Handle(req)

Spec == Init /\ [][Next]_vars

(***************************************************************************)
(* Correctness.                                                            *)
(***************************************************************************)
Conflict == [what : {"duplicate", "shadowed"}, by : Position, at : Position]

Answer ==
  {NoAnswer}
    \cup [request : Request, verdict : {"no_route"}]
    \cup [request : Request, at : Position,
          verdict : {"streaming", "build_request"}]

(* Every variable has its type; a duplicate is never a mere warning. *)
TypeOK ==
  /\ methods \in DescriptorSet
  /\ unbound_methods \in BOOLEAN
  /\ strict_routes \in BOOLEAN
  /\ check \in [run : BOOLEAN, ok : BOOLEAN,
                warnings : SUBSET {c \in Conflict : c.what = "shadowed"}]
  /\ gateway.status \in {"none", "built", "failed"}
  /\ gateway.status = "built" =>
       /\ DOMAIN gateway.routes \subseteq Position
       /\ \A p \in DOMAIN gateway.routes : gateway.routes[p] \in Binding
  /\ answer \in Answer

Built    == gateway.status = "built"
Reported == {c.at : c \in conflicts(table)}

(* `grpc-gw check` vouches for the gateway: a descriptor set it accepts    *)
(* is one `build` accepts with the same options.                           *)
CheckPredictsBuild == check.run /\ check.ok => gateway.status # "failed"

(* No silent shadowing: if a second entry also matches the request just    *)
(* answered, it comes later than the one that answered, and a check that   *)
(* passed has warned about it.                                             *)
NoSilentShadowing ==
  Built /\ answer # NoAnswer =>
    LET hits == Hits(gateway.routes, answer.request) IN
    /\ answer.verdict = "no_route" <=> hits = {}
    /\ hits # {} =>
         /\ answer.at \in hits
         /\ \A p \in hits \ {answer.at} :
              /\ Precedes(answer.at, p)
              /\ check.run => \E c \in check.warnings : c.at = p

(* Under `strict_routes` declaration order never matters: no request       *)
(* matches two entries of a gateway that could be built.                   *)
StrictIsUnambiguous ==
  Built /\ strict_routes =>
    \A req \in Request : \A p, q \in Hits(gateway.routes, req) : p = q

(* A binding nobody is warned about works: some request reaches it.  (Its  *)
(* kind must be upper case: see UppercaseKeys.)                            *)
UnreportedIsReachable ==
  Built =>
    \A q \in DOMAIN table \ Reported :
      Upper[table[q].kind] = table[q].kind =>
        \E req \in Request :
          LET hits == Hits(gateway.routes, req)
          IN q \in hits /\ \A p \in hits : p = q \/ Precedes(q, p)

(* A report is never a false alarm: some request matches both bindings.    *)
ReportsAreReal ==
  Built =>
    \A c \in conflicts(table) :
      Precedes(c.by, c.at) /\ (Upper[table[c.at].kind] = table[c.at].kind =>
        \E req \in Request : {c.by, c.at} \subseteq Hits(gateway.routes, req))

(* "Exact duplicates always fail the build" (gateway.rs): two bindings     *)
(* with the same method and path never get into a gateway.                 *)
DuplicatesFail ==
  Built =>
    \A p, q \in DOMAIN gateway.routes :
      /\ gateway.routes[p].kind = gateway.routes[q].kind
      /\ gateway.routes[p].path = gateway.routes[q].path
      => p = q

(* "Uppercase HTTP method -> endpoints" (gateway.rs): the key an entry is  *)
(* stored under is one a request can look up.                              *)
UppercaseKeys ==
  Built => \A p \in DOMAIN gateway.routes :
             Upper[gateway.routes[p].kind] = gateway.routes[p].kind
=============================================================================
