---------------------------- MODULE MCRouteTable ----------------------------
(***************************************************************************)
(* Two methods, /svc/A and /svc/B, with rules of up to two patterns over   *)
(* templates that relate in every way: equal, one inside the other, partly *)
(* overlapping, apart by a literal, by a verb or by the HTTP method.       *)
(***************************************************************************)
EXTENDS RouteTable

CONSTANTS
  svc, A, other,                      \* segment texts
  SvcA, SvcB,                         \* "/svc/A" and "/svc/B"
  OneVar, OneLit, Deep, VerbVar, Bad, \* "/{x}" "/svc" "/svc/{x=**}" "/{x}:v" "/{x"
  GET, get, v

MCText == {svc, A, other}
MCVerb == {v}
MCPath == {SvcA, SvcB, OneVar, OneLit, Deep, VerbVar, Bad}
MCKind == {GET, get, POST}
MCUpper == [k \in MCKind |-> IF k = get THEN GET ELSE k]

Plain(segments) == [segments |-> segments, verb |-> NoVerb]
MCCompiled ==
  [ path \in MCPath |->
      CASE path = SvcA    -> Plain(<<Lit(svc), Lit(A)>>)
        [] path = SvcB    -> Plain(<<Lit(svc), Lit(other)>>)
        [] path = OneVar  -> Plain(<<Var("x", <<Single>>)>>)
        [] path = OneLit  -> Plain(<<Lit(svc)>>)
        [] path = Deep    -> Plain(<<Lit(svc), Var("x", <<CatchAll>>)>>)
        [] path = VerbVar -> [segments |-> <<Var("x", <<Single>>)>>, verb |-> v]
        [] path = Bad     -> Unparsable ]

Get(path) == [kind |-> GET, path |-> path]
Primary ==
  {Get(path) : path \in {OneVar, OneLit, Deep, VerbVar, Bad}}
    \cup {[kind |-> POST, path |-> SvcA], [kind |-> get, path |-> OneLit]}
Additional == {Get(OneVar), Get(OneLit), NoPattern}

Rule ==
  {<<>>, <<NoPattern>>, <<NoPattern, Get(OneLit)>>}
    \cup {<<p>> : p \in Primary} \cup {<<p, q>> : p \in Primary, q \in Additional}

MCDescriptorSet ==
  {<<[grpc_path |-> SvcA, rule |-> r], [grpc_path |-> SvcB, rule |-> s]>> : r, s \in Rule}

(* "svc:v" is a segment with a verb; as any but the last, it is a text     *)
(* like no other.                                                          *)
Raw ==
  {[text |-> t, stem |-> t, verb |-> NoVerb] : t \in MCText}
    \cup {[text |-> other, stem |-> svc, verb |-> v]}
MCRequest == [method : {GET, POST}, path : {<<r>> : r \in Raw} \cup {<<r, s>> : r, s \in Raw}]
             \cup [method : {get}, path : {<<r>> : r \in Raw}]
=============================================================================
