------------------------------ MODULE CoHosting ------------------------------
(***************************************************************************)
(* A gateway co-hosted with its backend in one process, and the shutdown   *)
(* of both: a front server whose gateway reaches a backend server through  *)
(* the channel of `in_process_channel` (grpc-gw-util), composed from       *)
(* InProcess, the two servers' drains and a main task that stops one       *)
(* server after the other.                                                 *)
(*                                                                         *)
(* The servers and the channel are tonic's: they are modelled from what    *)
(* grpc-gw-util, its documentation and the co-hosting tests rely on.  A    *)
(* draining server need not close an idle connection.  Native gRPC calls,  *)
(* which the front serves itself, are left out.                            *)
(***************************************************************************)
EXTENDS Naturals, Sequences

CONSTANTS
  Req,       \* REST requests
  Dial,      \* connections of the in-memory transport
  First,     \* the connector, which the channel owns
  NoDial

ASSUME CoHostingAssumptions == NoDial \notin Dial

VARIABLES
  connectors, dial, half, queue, incoming,   \* InProcess
  client,     \* the client of the front is connected
  request,    \* [Req -> RequestState]
  carrier,    \* [Req -> Dial \cup {NoDial}], the connection it was sent on
  server,     \* [Server -> ServerState]
  stopped     \* how many of the servers main has told to stop

transport == <<connectors, dial, half, queue, incoming>>
rest      == <<client, request, carrier>>
process   == <<server, stopped>>
vars      == <<transport, rest, process>>

Transport == INSTANCE InProcess WITH Connector <- {First}

Server       == {"front", "backend"}
ServerState  == {"serving", "draining", "done"}
RequestState == {"none", "waiting", "sent", "answered", "failed", "dropped"}

Waiting   == {r \in Req : request[r] = "waiting"}
SentOn(d) == {r \in Req : request[r] = "sent" /\ carrier[r] = d}

(* The connection the channel has, or is making. *)
Live == {d \in Dial : dial[d] \in {"future", "connected"}}

Init ==
  /\ Transport!Init
  /\ client = TRUE
  /\ request = [r \in Req |-> "none"]
  /\ carrier = [r \in Req |-> NoDial]
  /\ server = [s \in Server |-> "serving"]
  /\ stopped = 0

Becomes(R, state) == request' = [r \in Req |-> IF r \in R THEN state ELSE request[r]]

(***************************************************************************)
(* The client and the front.                                               *)
(***************************************************************************)
(* A REST request reaches `Gateway::handle`, which needs the backend. *)
Arrive(r) ==
  /\ client
  /\ server["front"] # "done"
  /\ request[r] = "none"
  /\ Becomes({r}, "waiting")
  /\ UNCHANGED <<transport, client, carrier, process>>

(* The client closes its connection and the futures of its requests go, or *)
(* a draining front closes one without requests.                           *)
ClientLeaves ==
  /\ client
  /\ client' = FALSE
  /\ Becomes({r \in Req : request[r] \in {"waiting", "sent"}}, "dropped")
  /\ UNCHANGED <<transport, carrier, process>>

(***************************************************************************)
(* The channel: lazy and reconnectable, one connection at a time.          *)
(***************************************************************************)
BugDialOnce(d) ==    \* mutant: a lost connection is not replaced
  /\ First \in connectors
  /\ \A e \in Dial : dial[e] = "none"
  /\ Waiting # {}
  /\ Transport!Call(d)
  /\ UNCHANGED <<rest, process>>

Connect(d) ==
  /\ First \in connectors
  /\ Live = {}
  /\ Waiting # {}
  /\ Transport!Call(d)
  /\ UNCHANGED <<rest, process>>

(* A dial that is refused fails one request. *)
Poll(d) ==
  /\ First \in connectors
  /\ Transport!Poll(d)
  /\ IF dial'[d] = "refused" /\ Waiting # {}
     THEN \E r \in Waiting : Becomes({r}, "failed")
     ELSE UNCHANGED request
  /\ UNCHANGED <<client, carrier, process>>

BugNoCarrier(r) ==   \* mutant: which connection it went out on is forgotten
  /\ request[r] = "waiting"
  /\ \E d \in Dial : dial[d] = "connected"
  /\ Becomes({r}, "sent")
  /\ UNCHANGED <<transport, client, carrier, process>>

Send(r) ==
  /\ request[r] = "waiting"
  /\ \E d \in Dial :
       /\ dial[d] = "connected"
       /\ carrier' = [carrier EXCEPT ![r] = d]
  /\ Becomes({r}, "sent")
  /\ UNCHANGED <<transport, client, process>>

(* The channel reads the end of a connection: what was sent on it fails.   *)
Notice(d) ==
  /\ dial[d] = "connected" /\ half[d] = "closed"
  /\ Transport!Release(d)
  /\ Becomes(SentOn(d), "failed")
  /\ UNCHANGED <<client, carrier, process>>

(* The front is gone, and with it the gateway, the last handle of the      *)
(* channel: its worker ends, and then its connection.                      *)
WorkerEnds ==
  /\ server["front"] = "done"
  /\ Transport!DropConnector(First)
  /\ UNCHANGED <<rest, process>>

HangUp(d) ==
  /\ connectors = {}
  /\ Transport!Release(d)
  /\ UNCHANGED <<rest, process>>

(***************************************************************************)
(* The backend.                                                            *)
(***************************************************************************)
Accept ==
  /\ server["backend"] = "serving"
  /\ Transport!Accept
  /\ UNCHANGED <<rest, process>>

(* A server whose stream ends stops without being told. *)
StreamEnds ==
  /\ server["backend"] = "serving"
  /\ Transport!AcceptNone
  /\ server' = [server EXCEPT !["backend"] = "draining"]
  /\ UNCHANGED <<rest, stopped>>

Serve(r) ==
  /\ request[r] = "sent"
  /\ half[carrier[r]] = "accepted"
  /\ Becomes({r}, "answered")
  /\ UNCHANGED <<transport, client, carrier, process>>

(* The peer has hung up. *)
Close(d) ==
  /\ dial[d] = "released"
  /\ Transport!Close(d)
  /\ UNCHANGED <<rest, process>>

(* A fault.  The bound: a connection is left to replace the broken one.    *)
Break(d) ==
  /\ server["backend"] = "serving"
  /\ \E e \in Dial : dial[e] = "none"
  /\ Transport!Close(d)
  /\ UNCHANGED <<rest, process>>

(* A draining server may close a connection without requests. *)
CloseIdle(d) ==
  /\ server["backend"] = "draining"
  /\ SentOn(d) = {}
  /\ Transport!Close(d)
  /\ UNCHANGED <<rest, process>>

BugForgetQueued ==   \* mutant: connections not yet accepted are left open
  /\ server["backend"] = "draining"
  /\ incoming # "dropped"
  /\ incoming' = "dropped"
  /\ UNCHANGED <<connectors, dial, half, queue, rest, process>>

(* It drops the stream it accepted from, at the latest when it is done.    *)
DropStream ==
  /\ server["backend"] = "draining"
  /\ Transport!DropIncoming
  /\ UNCHANGED <<rest, process>>

(***************************************************************************)
(* Shutdown.                                                               *)
(***************************************************************************)
AllClosed == \A d \in Dial : half[d] # "accepted"

(* A drain waits for every connection of the server. *)
Drained(s) ==
  IF s = "front" THEN ~client ELSE incoming = "dropped" /\ AllClosed

Finish(s) ==
  /\ server[s] = "draining"
  /\ Drained(s)
  /\ server' = [server EXCEPT ![s] = "done"]
  /\ UNCHANGED <<transport, rest, stopped>>

BugBackendFirst == <<"backend", "front">>   \* mutant
Order == <<"front", "backend">>

BugNoAwait == TRUE   \* mutant: the second server is stopped at once

(* `ServerHandle::shutdown` of the server before has returned. *)
Awaited == stopped > 0 => server[Order[stopped]] = "done"

Stop ==
  /\ stopped < Len(Order)
  /\ Awaited
  /\ stopped' = stopped + 1
  /\ LET s == Order[stopped + 1] IN
       server' = IF server[s] = "serving" THEN [server EXCEPT ![s] = "draining"] ELSE server
  /\ UNCHANGED <<transport, rest>>

Next ==
  \/ \E r \in Req : Arrive(r) \/ Send(r) \/ Serve(r)
  \/ \E d \in Dial : \/ Connect(d) \/ Poll(d) \/ Notice(d) \/ HangUp(d)
                     \/ Close(d) \/ Break(d) \/ CloseIdle(d)
  \/ \E s \in Server : Finish(s)
  \/ ClientLeaves \/ WorkerEnds \/ Accept \/ StreamEnds \/ DropStream \/ Stop

Spec == Init /\ [][Next]_vars

(* The runtime polls the channel, the servers and main; backend methods    *)
(* return.  Nothing makes a client leave, main begin to stop, a connection *)
(* break, or a draining server close an idle connection.                   *)
FairSpec ==
  /\ Spec
  /\ \A r \in Req : WF_vars(Send(r)) /\ WF_vars(Serve(r))
  /\ \A d \in Dial : WF_vars(Poll(d)) /\ WF_vars(Notice(d)) /\ WF_vars(HangUp(d)) /\ WF_vars(Close(d))
  /\ WF_vars(\E d \in Dial : Connect(d))
  /\ WF_vars(WorkerEnds) /\ WF_vars(Accept) /\ WF_vars(StreamEnds)
  /\ WF_vars(AllClosed /\ DropStream)
  /\ \A s \in Server : WF_vars(Finish(s))
  /\ WF_vars(stopped > 0 /\ Stop)

(***************************************************************************)
(* Correctness.                                                            *)
(***************************************************************************)
(* Every variable has its type; a request on its way has a connection.     *)
TypeOK ==
  /\ Transport!TypeOK
  /\ client \in BOOLEAN
  /\ request \in [Req -> RequestState]
  /\ carrier \in [Req -> Dial \cup {NoDial}]
  /\ \A r \in Req : request[r] = "sent" => carrier[r] \in Dial
  /\ server \in [Server -> ServerState]
  /\ stopped \in 0..Len(Order)

(* Two servers, a channel and a shutdown use the in-memory transport as    *)
(* InProcess describes it, so that what holds of it holds here.            *)
RefinesInProcess == Transport!Spec

(* Shutting down costs no request: one that the front has accepted fails   *)
(* at most because its connection broke while the backend was serving,     *)
(* never because the backend was stopping or gone.                         *)
ShutdownFailsNobody ==
  [][\A r \in Req :
       request[r] # "failed" /\ request'[r] = "failed" => server["backend"] = "serving"]_vars

(* Every request is settled, also if it was waiting when the connection    *)
(* broke: the channel dials again.                                         *)
EveryRequestSettles ==
  \A r \in Req : request[r] \in {"waiting", "sent"} ~> request[r] \notin {"waiting", "sent"}

(* Nothing of the two servers and the transport is left. *)
AllGone ==
  /\ server = [s \in Server |-> "done"]
  /\ connectors = {} /\ Live = {}
  /\ \A d \in Dial : half[d] \in {"none", "closed"}

(* Once main has begun to stop the servers and the client is gone, all of  *)
(* it goes: the backend's drain is not held up by the gateway's idle       *)
(* connection.                                                             *)
ShutdownCompletes == stopped > 0 /\ ~client ~> AllGone
=============================================================================
