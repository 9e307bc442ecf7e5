----------------------------- MODULE MCGateway -----------------------------
(***************************************************************************)
(* Small instances of Gateway.  One target of each kind `handle` treats    *)
(* differently; backend replies of each kind `render_reply` does.          *)
(***************************************************************************)
EXTENDS Gateway

CONSTANTS fwd, missing, invalid, r1, r2, c1, c2

MCResolution ==
  [t \in Target |-> CASE t = fwd     -> "forward"
                      [] t = missing -> "no_route"
                      [] t = invalid -> "bad_request"]

(* Success, a success that cannot be rendered, and an application error.   *)
MCReply ==
  {[status |-> 0, renders |-> TRUE], [status |-> 0, renders |-> FALSE],
   [status |-> NotFound, renders |-> TRUE]}

(* The runs about liveness do not tell replies apart. *)
MCOneReply == {[status |-> 0, renders |-> TRUE]}

MCLost == {Unavailable}
MCTimeout == {DeadlineExceeded}

(* Two requests that start alike but for their names are told apart by     *)
(* nothing: of each pair of initial states that swap them, one is enough.  *)
MCInit ==
  /\ Init
  /\ <<via[r1], via[r2]>> # <<c2, c1>>
  /\ via[r1] = via[r2] /\ deadline[r1] => deadline[r2]

MCFairSpec == MCInit /\ [][Next]_vars /\ RuntimeFair /\ AcceptFair
=============================================================================
