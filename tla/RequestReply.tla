---------------------------- MODULE RequestReply ----------------------------
(***************************************************************************)
(* What the gateway promises the two parties it stands between, with no    *)
(* mention of connections, channels or HTTP/2 streams.                     *)
(*                                                                         *)
(* A request is answered once or abandoned by its client.  Behind it the   *)
(* backend method takes effect at most once; a success answer means that   *)
(* it did, and an answer the gateway gave on its own (no route, malformed  *)
(* input, no channel) means that it never will.  Any other failure leaves  *)
(* the client not knowing: the effect may have happened, and may even      *)
(* happen after the answer.                                                *)
(***************************************************************************)
EXTENDS Naturals

CONSTANT Req    \* the requests

VARIABLES
  outcome,      \* [Req -> Outcome]
  effects       \* [Req -> Nat], how often the backend method took effect

vars == <<outcome, effects>>

Outcome == {"pending", "succeeded", "failed", "rejected", "abandoned"}

TypeOK ==
  /\ outcome \in [Req -> Outcome]
  /\ effects \in [Req -> Nat]

Init ==
  /\ outcome = [r \in Req |-> "pending"]
  /\ effects = [r \in Req |-> 0]

(* The backend method takes effect. *)
Execute(r) ==
  /\ outcome[r] \in {"pending", "failed", "abandoned"}
  /\ effects[r] = 0
  /\ effects' = [effects EXCEPT ![r] = 1]
  /\ UNCHANGED outcome

Settle(r, o) ==
  /\ outcome[r] = "pending"
  /\ outcome' = [outcome EXCEPT ![r] = o]
  /\ UNCHANGED effects

Succeed(r) == effects[r] = 1 /\ Settle(r, "succeeded")
Reject(r)  == effects[r] = 0 /\ Settle(r, "rejected")
Fail(r)    == Settle(r, "failed")

(* A client that goes away abandons all it was still waiting for. *)
Abandon(S) ==
  /\ \A r \in S : outcome[r] = "pending"
  /\ outcome' = [r \in Req |-> IF r \in S THEN "abandoned" ELSE outcome[r]]
  /\ UNCHANGED effects

Next ==
  \/ \E r \in Req : Execute(r) \/ Succeed(r) \/ Reject(r) \/ Fail(r)
  \/ \E S \in SUBSET Req : Abandon(S)

Spec == Init /\ [][Next]_vars
=============================================================================
