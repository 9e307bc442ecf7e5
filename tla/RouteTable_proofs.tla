------------------------- MODULE RouteTable_proofs -------------------------
(***************************************************************************)
(* What holds of the route table for every descriptor set: the first of a  *)
(* set of bindings exists, a gateway that was built shadows nothing behind *)
(* the back of `check`, and under `strict_routes` is unambiguous; every    *)
(* report is real and every binding without one can be reached.            *)
(***************************************************************************)
EXTENDS RouteTable, PathTemplate_proofs

(***************************************************************************)
(* Declaration order.                                                      *)
(***************************************************************************)
(* Declaration order is total. *)
LEMMA PrecedesTotal ==
  ASSUME NEW p \in Position, NEW q \in Position
  PROVE  /\ p = q \/ Precedes(p, q) \/ Precedes(q, p)
         /\ ~(Precedes(p, q) /\ (p = q \/ Precedes(q, p)))
<1>1. /\ p[1] \in Nat /\ p[2] \in Nat /\ p = <<p[1], p[2]>>
      /\ q[1] \in Nat /\ q[2] \in Nat /\ q = <<q[1], q[2]>>
  BY DEF Position
<1> QED
  BY <1>1 DEF Precedes

(* Every nonempty set of positions has a first one. *)
LEMMA FirstExists ==
  ASSUME NEW S \in SUBSET Position, S # {}
  PROVE  First(S) \in S /\ \A q \in S : First(S) = q \/ Precedes(First(S), q)
<1> DEFINE Ms == {p[1] : p \in S}
<1>0. \A p \in S : p[1] \in Nat /\ p[2] \in Nat /\ p = <<p[1], p[2]>>
  BY DEF Position
<1>1. Ms \in SUBSET Nat /\ Ms # {}
  BY <1>0
<1>2. PICK m \in Ms : \A k \in Ms : m <= k
  <2> HIDE DEF Ms
  <2> QED
    BY <1>1, NatMin
<1> DEFINE Bs == {p[2] : p \in {x \in S : x[1] = m}}
<1>3. Bs \in SUBSET Nat /\ Bs # {}
  BY <1>0, <1>2
<1>4. PICK b \in Bs : \A k \in Bs : b <= k
  <2> HIDE DEF Bs
  <2> QED
    BY <1>3, NatMin
<1>5. PICK p \in S : p[1] = m /\ p[2] = b
  BY <1>4
<1>6. ASSUME NEW q \in S PROVE p = q \/ Precedes(p, q)
  <2>1. m <= q[1] /\ (q[1] = m => b <= q[2]) /\ m \in Nat /\ b \in Nat
    BY <1>0, <1>1, <1>2, <1>3, <1>4
  <2>2. p = <<m, b>> /\ q = <<q[1], q[2]>> /\ q[1] \in Nat /\ q[2] \in Nat
    BY <1>0, <1>5
  <2> QED
    BY <1>5, <2>1, <2>2 DEF Precedes
<1> QED
  BY <1>6 DEF First

(***************************************************************************)
(* Lowering and conflicts.                                                 *)
(***************************************************************************)
LEMMA TableType ==
  ASSUME NEW ms \in Seq(MethodHttp), NEW unbound \in BOOLEAN
  PROVE  /\ DOMAIN from_methods(ms, unbound) \subseteq Position
         /\ \A p \in DOMAIN from_methods(ms, unbound) :
              from_methods(ms, unbound)[p] \in Binding
<1> DEFINE lowered == [m \in DOMAIN ms |-> lower_method(ms[m], unbound)]
           D == UNION {{<<m, b>> : b \in DOMAIN lowered[m]} : m \in DOMAIN ms}
<1>1. from_methods(ms, unbound) = [p \in D |-> lowered[p[1]][p[2]]]
  BY DEF from_methods
<1>2. ASSUME NEW m \in DOMAIN ms, NEW b \in DOMAIN lowered[m]
      PROVE  m \in Nat /\ b \in Nat /\ lowered[m][b] \in Binding
  <2>1. m \in Nat /\ ms[m] \in MethodHttp
    OBVIOUS
  <2>2. CASE ms[m].rule = <<>>
    <3>1. b = 1 /\ lowered[m][b] = default_binding(ms[m])
      BY <2>2 DEF lower_method
    <3> QED
      BY <2>1, <3>1, RouteTableAssumptions DEF default_binding, Binding, MethodHttp
  <2>3. CASE ms[m].rule # <<>>
    <3>1. /\ b \in DOMAIN ms[m].rule /\ ms[m].rule[b] # NoPattern
          /\ lowered[m][b] = primary_binding(ms[m], b)
      BY <2>3 DEF lower_method
    <3>2. ms[m].rule \in Seq(Pattern \cup {NoPattern}) /\ ms[m].grpc_path \in Method
      BY <2>1 DEF MethodHttp
    <3>3. b \in Nat /\ ms[m].rule[b] \in Pattern
      BY <3>1, <3>2
    <3> QED
      BY <2>1, <3>1, <3>2, <3>3 DEF primary_binding, Binding, Pattern
  <2> QED
    BY <2>2, <2>3
<1>3. ASSUME NEW p \in D
      PROVE  p \in Position /\ lowered[p[1]][p[2]] \in Binding
  <2>1. PICK m \in DOMAIN ms : \E b \in DOMAIN lowered[m] : p = <<m, b>>
    OBVIOUS
  <2>2. PICK b \in DOMAIN lowered[m] : p = <<m, b>>
    BY <2>1
  <2> HIDE DEF lowered
  <2> QED
    BY <2>2, <1>2 DEF Position
<1> QED
  <2> HIDE DEF D, lowered
  <2> QED
    BY <1>1, <1>3

(* A route table: bindings at positions. *)
IsTable(routes) ==
  /\ DOMAIN routes \subseteq Position
  /\ \A p \in DOMAIN routes : routes[p] \in Binding

(* Each conflict is between a binding and an earlier one it collides with. *)
LEMMA ConflictFacts ==
  ASSUME NEW routes, IsTable(routes), NEW c \in conflicts(routes)
  PROVE  /\ c \in Conflict
         /\ c.at \in DOMAIN routes /\ c.by \in DOMAIN routes
         /\ Collides(routes, c.by, c.at)
<1>1. PICK q \in DOMAIN routes : Colliding(routes, q) # {} /\ c = conflict(routes, q)
  BY DEF conflicts
<1>2. Colliding(routes, q) \in SUBSET Position
  BY DEF Colliding, IsTable
<1>3. First(Colliding(routes, q)) \in Colliding(routes, q)
  BY <1>1, <1>2, FirstExists
<1>4. /\ First(Colliding(routes, q)) \in DOMAIN routes
      /\ Collides(routes, First(Colliding(routes, q)), q)
  BY <1>3 DEF Colliding
<1>5. c.by = First(Colliding(routes, q)) /\ c.at = q
  BY <1>1 DEF conflict
<1>6. c \in Conflict
  BY <1>1, <1>4 DEF conflict, Conflict, IsTable
<1> QED
  BY <1>4, <1>5, <1>6

(* A binding that collides with an earlier one is reported. *)
LEMMA CollisionReported ==
  ASSUME NEW routes, NEW p \in DOMAIN routes, NEW q \in DOMAIN routes,
         Collides(routes, p, q)
  PROVE  \E c \in conflicts(routes) : c.at = q
<1>1. conflict(routes, q) \in conflicts(routes)
  BY DEF conflicts, Colliding
<1>2. conflict(routes, q).at = q
  BY DEF conflict
<1> QED
  BY <1>1, <1>2

(***************************************************************************)
(* Requests.                                                               *)
(***************************************************************************)
LEMMA SlotsOf ==
  ASSUME NEW path \in Path, Parses(path)
  PROVE  /\ slots[path] \in SlotSeq
         /\ Compiled[path].verb \in Verb \cup {NoVerb}
BY RouteTableAssumptions DEF slots

LEMMA SplitPath ==
  ASSUME NEW path \in Seq(RawSegment) \ {<<>>}
  PROVE  split_request_path(path).segments \in Seq(Text)
<1>1. Len(path) \in Nat \ {0} /\ DOMAIN path = 1..Len(path)
  OBVIOUS
<1>2. \A i \in 1..Len(path) : path[i].text \in Text /\ path[i].stem \in Text
  BY <1>1 DEF RawSegment
<1>3. split_request_path(path).segments
        = [i \in 1..Len(path) |-> IF i = Len(path) THEN path[i].stem ELSE path[i].text]
  BY <1>1 DEF split_request_path
<1>4. split_request_path(path).segments \in [1..Len(path) -> Text]
  BY <1>2, <1>3
<1> QED
  BY <1>1, <1>4

(* Two bindings that match one request collide. *)
LEMMA HitsCollide ==
  ASSUME NEW routes, IsTable(routes), Unparsed(routes) = {},
         NEW req \in Request,
         NEW p \in Hits(routes, req), NEW q \in Hits(routes, req), Precedes(p, q)
  PROVE  p \in DOMAIN routes /\ q \in DOMAIN routes /\ Collides(routes, p, q)
<1> DEFINE asked == split_request_path(req.path)
<1>1. /\ p \in DOMAIN routes /\ q \in DOMAIN routes
      /\ routes[p].kind = routes[q].kind
      /\ Compiled[routes[p].path].verb = Compiled[routes[q].path].verb
      /\ Fits(slots[routes[p].path], asked.segments)
      /\ Fits(slots[routes[q].path], asked.segments)
  BY DEF Hits, matches
<1>2. /\ Parses(routes[p].path) /\ Parses(routes[q].path)
      /\ routes[p].path \in Path /\ routes[q].path \in Path
  BY <1>1 DEF Unparsed, IsTable, Binding
<1>3. slots[routes[p].path] \in SlotSeq /\ slots[routes[q].path] \in SlotSeq
  BY <1>2, SlotsOf
<1>4. asked.segments \in Seq(Text)
  BY SplitPath, RouteTableAssumptions
<1>5. templates_overlap(slots[routes[p].path], slots[routes[q].path])
  BY <1>1, <1>3, <1>4, FitBothOverlap
<1> QED
  BY <1>1, <1>2, <1>5 DEF Collides

(* Every request there is, for what is said of some request reaching an    *)
(* entry.                                                                  *)
AllRequests == [method : Kind, path : Seq(RawSegment) \ {<<>>}]

(* A path of texts, with a verb, can be asked for. *)
LEMMA PathCanBeAsked ==
  ASSUME NEW path \in Seq(Text), path # <<>>, NEW verb \in Verb \cup {NoVerb},
         NEW kind \in Kind
  PROVE  \E req \in AllRequests :
           /\ req.method = kind
           /\ split_request_path(req.path) = [segments |-> path, verb |-> verb]
<1> DEFINE raw == [i \in 1..Len(path) |->
                     [ text |-> path[i], stem |-> path[i],
                       verb |-> IF i = Len(path) THEN verb ELSE NoVerb ]]
           req == [method |-> kind, path |-> raw]
<1>1. Len(path) \in Nat \ {0} /\ DOMAIN path = 1..Len(path)
  OBVIOUS
<1>2. raw \in [1..Len(path) -> RawSegment]
  BY <1>1 DEF RawSegment
<1>3. raw \in Seq(RawSegment) /\ Len(raw) = Len(path)
  <2> HIDE DEF raw
  <2> QED
    BY <1>1, <1>2
<1>4. raw # <<>> /\ DOMAIN raw = 1..Len(path)
  BY <1>1, <1>3
<1>5. split_request_path(raw).segments = path
  <2>1. split_request_path(raw).segments = [i \in 1..Len(path) |-> path[i]]
    BY <1>3, <1>4 DEF split_request_path
  <2>2. path = [i \in 1..Len(path) |-> path[i]]
    <3>1. path \in [1..Len(path) -> Text]
      BY <1>1
    <3> QED
      BY <3>1
  <2> QED
    BY <2>1, <2>2
<1>6. split_request_path(raw).verb = verb
  <2>1. raw[Len(path)].verb = verb
    <3>1. Len(path) \in 1..Len(path)
      BY <1>1
    <3>2. raw[Len(path)] = [text |-> path[Len(path)], stem |-> path[Len(path)], verb |-> verb]
      BY <3>1
    <3> QED
      BY <3>2
  <2> HIDE DEF raw
  <2> QED
    BY <1>3, <2>1 DEF split_request_path
<1>7. split_request_path(raw)
        = [segments |-> split_request_path(raw).segments, verb |-> split_request_path(raw).verb]
  BY DEF split_request_path
<1> QED
  <2>1. req \in AllRequests
    BY <1>3, <1>4 DEF AllRequests
  <2> QED
    BY <2>1, <1>5, <1>6, <1>7

(* The paths that match a binding are asked for by some request. *)
LEMMA HitByPath ==
  ASSUME NEW routes, IsTable(routes), NEW q \in DOMAIN routes,
         Parses(routes[q].path), Upper[routes[q].kind] = routes[q].kind,
         NEW path \in Seq(Text), path # <<>>
  PROVE  \E req \in AllRequests :
           \A p \in DOMAIN routes :
             p \in Hits(routes, req) <=>
               /\ routes[p].kind = routes[q].kind
               /\ Compiled[routes[p].path].verb = Compiled[routes[q].path].verb
               /\ Fits(slots[routes[p].path], path)
<1>1. routes[q].kind \in Kind /\ Compiled[routes[q].path].verb \in Verb \cup {NoVerb}
  BY SlotsOf DEF IsTable, Binding
<1>2. PICK req \in AllRequests :
        /\ req.method = routes[q].kind
        /\ split_request_path(req.path)
             = [segments |-> path, verb |-> Compiled[routes[q].path].verb]
  BY <1>1, PathCanBeAsked
<1> QED
  BY <1>2 DEF Hits, matches

(***************************************************************************)
(* The invariant: what `check` and `build` found is what the table says.   *)
(***************************************************************************)
IInv ==
  /\ methods \in DescriptorSet
  /\ unbound_methods \in BOOLEAN
  /\ strict_routes \in BOOLEAN
  /\ check.run =>
       /\ check.ok <=> /\ Unbound(table) = {}
                       /\ Unparsed(table) = {}
                       /\ errors(table, strict_routes) = {}
       /\ check.warnings = conflicts(table) \ errors(table, strict_routes)
  /\ check \in {NotRun} \cup [run : {TRUE}, ok : BOOLEAN, warnings : SUBSET conflicts(table)]
  /\ gateway.status \in {"none", "failed", "built"}
  /\ gateway.status = "failed" =>
       errors(table, strict_routes) # {} \/ Unparsed(table) # {}
  /\ gateway.status = "built" =>
       /\ gateway.routes = table
       /\ errors(table, strict_routes) = {}
       /\ Unparsed(table) = {}
  /\ gateway.status # "built" => answer = NoAnswer
  /\ answer # NoAnswer =>
       /\ answer.request \in Request
       /\ LET hits == Hits(table, answer.request) IN
            answer = IF hits = {}
                     THEN [request |-> answer.request, verdict |-> "no_route"]
                     ELSE [request |-> answer.request, at |-> First(hits),
                           verdict |-> verdict(table[First(hits)])]

LEMMA TableIsTable ==
  ASSUME IInv PROVE IsTable(table)
BY TableType, RouteTableAssumptions DEF IInv, table, IsTable

THEOREM Consistent == Spec => []IInv
<1>1. Init => IInv
  BY DEF Init, IInv, NotRun, NotBuilt, NoAnswer
<1>2. IInv /\ [Next]_vars => IInv'
  <2> SUFFICES ASSUME IInv, [Next]_vars PROVE IInv'
    OBVIOUS
  <2>1. CASE Check
    <3>1. table' = table /\ Unbound(table)' = Unbound(table)
      BY <2>1 DEF Check, config, table, Unbound
    <3>2. /\ check'.run
          /\ check'.ok <=> /\ Unbound(table) = {}
                           /\ Unparsed(table) = {}
                           /\ errors(table, strict_routes) = {}
          /\ check'.warnings = conflicts(table) \ errors(table, strict_routes)
          /\ check' \in [run : {TRUE}, ok : BOOLEAN, warnings : SUBSET conflicts(table)]
      BY <2>1 DEF Check
    <3>3. UNCHANGED <<methods, unbound_methods, strict_routes, gateway, answer>>
      BY <2>1 DEF Check, config
    <3> QED
      BY <3>1, <3>2, <3>3 DEF IInv
  <2>2. CASE Build
    <3>1. table' = table /\ Unbound(table)' = Unbound(table)
      BY <2>2 DEF Build, config, table, Unbound
    <3>2. UNCHANGED <<methods, unbound_methods, strict_routes, check, answer>>
      BY <2>2 DEF Build, config
    <3>3. answer = NoAnswer
      BY <2>2 DEF Build, IInv, NotBuilt
    <3>4. gateway' = IF errors(table, strict_routes) # {} \/ Unparsed(table) # {}
                     THEN [status |-> "failed", routes |-> <<>>]
                     ELSE [status |-> "built", routes |-> table]
      BY <2>2 DEF Build, endpoints, Unparsed
    <3> QED
      BY <3>1, <3>2, <3>3, <3>4 DEF IInv
  <2>3. ASSUME NEW req \in Request, Handle(req) PROVE IInv'
    <3>1. table' = table /\ Unbound(table)' = Unbound(table)
      BY <2>3 DEF Handle, config, table, Unbound
    <3>2. UNCHANGED <<methods, unbound_methods, strict_routes, check, gateway>>
      BY <2>3 DEF Handle, config
    <3>3. gateway.status = "built" /\ gateway.routes = table
      BY <2>3 DEF Handle, IInv
    <3>4. answer' = IF Hits(table, req) = {}
                    THEN [request |-> req, verdict |-> "no_route"]
                    ELSE [request |-> req, at |-> First(Hits(table, req)),
                          verdict |-> verdict(table[First(Hits(table, req))])]
      BY <2>3, <3>3 DEF Handle
    <3>5. answer'.request = req
      BY <3>4
    <3> QED
      BY <3>1, <3>2, <3>3, <3>4, <3>5 DEF IInv
  <2>4. CASE UNCHANGED vars
    BY <2>4 DEF vars, config, IInv, table, Unbound
  <2> QED
    BY <2>1, <2>2, <2>3, <2>4 DEF Next
<1> QED
  BY <1>1, <1>2, PTL DEF Spec

(***************************************************************************)
(* Theorems.                                                               *)
(***************************************************************************)
(* Every variable keeps its type; no duplicate is ever a mere warning. *)
THEOREM TypeCorrect == Spec => []TypeOK
<1>1. IInv => TypeOK
  <2> SUFFICES ASSUME IInv PROVE TypeOK
    OBVIOUS
  <2>1. IsTable(table)
    BY TableIsTable
  <2>2. check \in [run : BOOLEAN, ok : BOOLEAN,
                   warnings : SUBSET {c \in Conflict : c.what = "shadowed"}]
    <3>1. CASE check = NotRun
      BY <3>1 DEF NotRun
    <3>2. CASE check \in [run : {TRUE}, ok : BOOLEAN, warnings : SUBSET conflicts(table)]
      <4>1. ASSUME NEW c \in check.warnings PROVE c \in Conflict /\ c.what = "shadowed"
        <5>1. c \in conflicts(table) /\ c \notin errors(table, strict_routes)
          BY <3>2, <4>1 DEF IInv
        <5>2. c \in Conflict
          BY <2>1, <5>1, ConflictFacts
        <5>3. c.what # "duplicate"
          BY <5>1 DEF errors, is_error
        <5> QED
          BY <5>2, <5>3 DEF Conflict
      <4> QED
        BY <3>2, <4>1
    <3> QED
      BY <3>1, <3>2 DEF IInv
  <2>3. answer \in Answer
    <3>1. CASE answer = NoAnswer
      BY <3>1 DEF Answer
    <3>2. CASE answer # NoAnswer
      <4> DEFINE hits == Hits(table, answer.request)
      <4>0. /\ answer.request \in Request
            /\ answer = IF hits = {}
                        THEN [request |-> answer.request,
                              verdict |-> "no_route"]
                        ELSE [request |-> answer.request, at |-> First(hits),
                              verdict |-> verdict(table[First(hits)])]
        BY <3>2 DEF IInv
      <4>1. CASE hits = {}
        <5> HIDE DEF hits
        <5> QED
          BY <4>0, <4>1 DEF Answer
      <4>2. CASE hits # {}
        <5>1. hits \in SUBSET Position
          BY <2>1 DEF Hits, IsTable
        <5>2. First(hits) \in Position
          <6> HIDE DEF hits
          <6> QED
            BY <4>2, <5>1, FirstExists
        <5>3. verdict(table[First(hits)]) \in {"streaming", "build_request"}
          BY DEF verdict
        <5>4. answer = [request |-> answer.request, at |-> First(hits),
                        verdict |-> verdict(table[First(hits)])]
          BY <4>0, <4>2
        <5> HIDE DEF hits
        <5> QED
          BY <4>0, <5>2, <5>3, <5>4 DEF Answer
      <4> QED
        BY <4>1, <4>2
    <3> QED
      BY <3>1, <3>2
  <2>4. /\ gateway.status \in {"none", "built", "failed"}
        /\ gateway.status = "built" =>
             /\ DOMAIN gateway.routes \subseteq Position
             /\ \A p \in DOMAIN gateway.routes : gateway.routes[p] \in Binding
    BY <2>1 DEF IInv, IsTable
  <2> QED
    BY <2>2, <2>3, <2>4 DEF IInv, TypeOK
<1> QED
  BY <1>1, Consistent, PTL

(* A descriptor set `grpc-gw check` accepts is one `build` accepts.        *)
THEOREM CheckIsSound == Spec => []CheckPredictsBuild
<1>1. IInv => CheckPredictsBuild
  BY DEF IInv, CheckPredictsBuild
<1> QED
  BY <1>1, Consistent, PTL

(* No entry is shadowed without a warning, and the first one answers.      *)
THEOREM ShadowingIsReported == Spec => []NoSilentShadowing
<1>1. IInv => NoSilentShadowing
  <2> SUFFICES ASSUME IInv, Built, answer # NoAnswer PROVE NoSilentShadowing
    BY DEF NoSilentShadowing
  <2> DEFINE hits == Hits(table, answer.request)
  <2>1. IsTable(table) /\ gateway.routes = table /\ answer.request \in Request
        /\ Unparsed(table) = {} /\ errors(table, strict_routes) = {}
    BY TableIsTable DEF IInv, Built
  <2>2. answer = IF hits = {}
                 THEN [request |-> answer.request, verdict |-> "no_route"]
                 ELSE [request |-> answer.request, at |-> First(hits),
                       verdict |-> verdict(table[First(hits)])]
    BY DEF IInv
  <2>3. answer.verdict = "no_route" <=> hits = {}
    BY <2>2 DEF verdict
  <2>4. hits # {} => answer.at = First(hits)
    BY <2>2
  <2>5. hits \in SUBSET Position
    BY <2>1 DEF Hits, IsTable
  <2> HIDE DEF hits
  <2>6. hits # {} => answer.at \in hits /\ \A p \in hits : answer.at = p \/ Precedes(answer.at, p)
    BY <2>4, <2>5, FirstExists
  <2>7. ASSUME NEW p \in hits \ {answer.at}, check.run
        PROVE  \E c \in check.warnings : c.at = p
    <3>1. Collides(table, answer.at, p) /\ answer.at \in DOMAIN table /\ p \in DOMAIN table
      <4>1. answer.at \in hits /\ p \in hits /\ Precedes(answer.at, p)
        BY <2>6
      <4> QED
        BY <2>1, <4>1, HitsCollide DEF hits
    <3>2. \E c \in conflicts(table) : c.at = p
      BY <3>1, CollisionReported
    <3>3. check.warnings = conflicts(table)
      BY <2>1, <2>7 DEF IInv
    <3> QED
      BY <3>2, <3>3
  <2>8. Hits(gateway.routes, answer.request) = hits
    BY <2>1 DEF hits
  <2> QED
    BY <2>3, <2>6, <2>7, <2>8 DEF NoSilentShadowing
<1> QED
  BY <1>1, Consistent, PTL

(* Under `strict_routes` no request matches two entries.                   *)
THEOREM StrictUnambiguous == Spec => []StrictIsUnambiguous
<1>1. IInv => StrictIsUnambiguous
  <2> SUFFICES ASSUME IInv, Built, strict_routes, NEW req \in Request,
                      NEW p \in Hits(table, req), NEW q \in Hits(table, req)
               PROVE  p = q
    BY DEF StrictIsUnambiguous, IInv, Built
  <2>1. IsTable(table) /\ Unparsed(table) = {} /\ errors(table, strict_routes) = {}
    BY TableIsTable DEF IInv, Built
  <2>2. p \in Position /\ q \in Position
    BY <2>1 DEF Hits, IsTable
  <2>3. conflicts(table) = {}
    BY <2>1 DEF errors, is_error
  <2>4. ~Precedes(p, q)
    BY <2>1, <2>3, HitsCollide, CollisionReported
  <2>5. ~Precedes(q, p)
    BY <2>1, <2>3, HitsCollide, CollisionReported
  <2> QED
    BY <2>2, <2>4, <2>5, PrecedesTotal
<1> QED
  BY <1>1, Consistent, PTL

(* Whatever may be asked, a binding without a report is reached by some    *)
(* request.                                                                *)
THEOREM UnreportedReachable ==
  ASSUME Request = AllRequests
  PROVE  Spec => []UnreportedIsReachable
<1>1. IInv => UnreportedIsReachable
  <2> SUFFICES ASSUME IInv, Built, NEW q \in DOMAIN table, q \notin Reported,
                      Upper[table[q].kind] = table[q].kind
               PROVE  \E req \in Request :
                        /\ q \in Hits(table, req)
                        /\ \A p \in Hits(table, req) : p = q \/ Precedes(q, p)
    BY DEF UnreportedIsReachable, IInv, Built
  <2>1. IsTable(table) /\ Unparsed(table) = {}
    BY TableIsTable DEF IInv, Built
  <2>2. Parses(table[q].path) /\ table[q].path \in Path
    BY <2>1 DEF Unparsed, IsTable, Binding
  <2>3. PICK path \in Seq(Text) : path # <<>> /\ Fits(slots[table[q].path], path)
    BY <2>2, SlotsOf, EveryTemplateFits
  <2>4. PICK req \in AllRequests :
          \A p \in DOMAIN table :
            p \in Hits(table, req) <=>
              /\ table[p].kind = table[q].kind
              /\ Compiled[table[p].path].verb = Compiled[table[q].path].verb
              /\ Fits(slots[table[p].path], path)
    BY <2>1, <2>2, <2>3, HitByPath
  <2>5. q \in Hits(table, req)
    BY <2>3, <2>4
  <2>6. ASSUME NEW p \in Hits(table, req) PROVE p = q \/ Precedes(q, p)
    <3>1. p \in DOMAIN table /\ p \in Position /\ q \in Position
      BY <2>1 DEF Hits, IsTable
    <3>2. ~Precedes(p, q)
      <4>1. SUFFICES ASSUME Precedes(p, q) PROVE FALSE
        OBVIOUS
      <4>2. Collides(table, p, q)
        BY <2>1, <2>5, <4>1, HitsCollide
      <4>3. \E c \in conflicts(table) : c.at = q
        BY <3>1, <4>2, CollisionReported
      <4> QED
        BY <4>3 DEF Reported
    <3> QED
      BY <3>1, <3>2, PrecedesTotal
  <2> QED
    BY <2>5, <2>6
<1> QED
  BY <1>1, Consistent, PTL

(* Every conflict reported is one: a request matches both bindings.        *)
THEOREM ReportsReal ==
  ASSUME Request = AllRequests
  PROVE  Spec => []ReportsAreReal
<1>1. IInv => ReportsAreReal
  <2>0. IInv /\ Built => gateway.routes = table
    BY DEF IInv, Built
  <2> SUFFICES ASSUME IInv, Built, NEW c \in conflicts(table)
               PROVE  /\ Precedes(c.by, c.at)
                      /\ Upper[table[c.at].kind] = table[c.at].kind =>
                           \E req \in Request : {c.by, c.at} \subseteq Hits(table, req)
    BY <2>0 DEF ReportsAreReal
  <2>1. IsTable(table) /\ Unparsed(table) = {}
    BY TableIsTable DEF IInv, Built
  <2>2. /\ c.at \in DOMAIN table /\ c.by \in DOMAIN table
        /\ Collides(table, c.by, c.at)
    BY <2>1, ConflictFacts
  <2>3. ASSUME Upper[table[c.at].kind] = table[c.at].kind
        PROVE  \E req \in Request : {c.by, c.at} \subseteq Hits(table, req)
    <3>1. /\ Parses(table[c.at].path) /\ table[c.at].path \in Path
          /\ Parses(table[c.by].path) /\ table[c.by].path \in Path
      BY <2>1, <2>2 DEF Unparsed, IsTable, Binding
    <3>2. PICK path \in Seq(Text) :
            /\ path # <<>>
            /\ Fits(slots[table[c.by].path], path)
            /\ Fits(slots[table[c.at].path], path)
      BY <2>2, <3>1, SlotsOf, OverlapHasPath DEF Collides
    <3>3. PICK req \in AllRequests :
            \A p \in DOMAIN table :
              p \in Hits(table, req) <=>
                /\ table[p].kind = table[c.at].kind
                /\ Compiled[table[p].path].verb = Compiled[table[c.at].path].verb
                /\ Fits(slots[table[p].path], path)
      BY <2>1, <2>2, <2>3, <3>1, <3>2, HitByPath
    <3>4. c.at \in Hits(table, req) /\ c.by \in Hits(table, req)
      BY <2>2, <3>2, <3>3 DEF Collides
    <3> QED
      BY <3>4
  <2> QED
    BY <2>2, <2>3 DEF Collides
<1> QED
  BY <1>1, Consistent, PTL
=============================================================================
