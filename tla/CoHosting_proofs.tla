-------------------------- MODULE CoHosting_proofs --------------------------
(***************************************************************************)
(* Shutting down a co-hosted gateway costs no request, and the in-memory   *)
(* transport is used as InProcess describes it, for any number of requests *)
(* and connections.  Types and peers of the transport follow from the      *)
(* theorems about InProcess.                                               *)
(***************************************************************************)
EXTENDS CoHosting, TLAPS

TransportProofs == INSTANCE InProcess_proofs WITH Connector <- {First}

(***************************************************************************)
(* Every step is one of the transport, or leaves it alone.                 *)
(***************************************************************************)
LEMMA TransportInit == Init => Transport!Init
BY DEF Init

LEMMA TransportStep == [Next]_vars => [Transport!Next]_(Transport!vars)
<1> SUFFICES ASSUME [Next]_vars PROVE [Transport!Next]_(Transport!vars)
  OBVIOUS
<1> USE DEF vars, transport, Transport!vars
<1>1. CASE UNCHANGED vars
  BY <1>1
<1>2. ASSUME NEW r \in Req, Arrive(r) \/ Send(r) \/ Serve(r)
      PROVE  UNCHANGED transport
  BY <1>2 DEF Arrive, Send, Serve
<1>3. ASSUME NEW d \in Dial,
             \/ Connect(d) \/ Poll(d) \/ Notice(d) \/ HangUp(d)
             \/ Close(d) \/ Break(d) \/ CloseIdle(d)
      PROVE  Transport!Next
  <2>1. Transport!Call(d) \/ Transport!Poll(d) \/ Transport!Release(d) \/ Transport!Close(d)
    BY <1>3 DEF Connect, Poll, Notice, HangUp, Close, Break, CloseIdle
  <2> QED
    BY <2>1 DEF Transport!Next
<1>4. ASSUME NEW s \in Server, Finish(s)
      PROVE  UNCHANGED transport
  BY <1>4 DEF Finish
<1>5. CASE ClientLeaves \/ Stop
  BY <1>5 DEF ClientLeaves, Stop
<1>6. CASE WorkerEnds \/ Accept \/ StreamEnds \/ DropStream
  <2>1. \/ Transport!DropConnector(First) \/ Transport!Accept
        \/ Transport!AcceptNone \/ Transport!DropIncoming
    BY <1>6 DEF WorkerEnds, Accept, StreamEnds, DropStream
  <2> QED
    BY <2>1 DEF Transport!Next
<1> QED
  BY <1>1, <1>2, <1>3, <1>4, <1>5, <1>6 DEF Next

(* The servers, the channel and main use the transport as it is meant.     *)
THEOREM Composition == Spec => RefinesInProcess
BY TransportInit, TransportStep, PTL DEF Spec, RefinesInProcess, Transport!Spec

(* InProcess and the module its theorems are in mean the same. *)
LEMMA SameSpec == Transport!Spec => TransportProofs!Spec
<1>1. Transport!Init => TransportProofs!Init
  BY DEF Transport!Init, TransportProofs!Init
<1>2. [Transport!Next]_(Transport!vars) => [TransportProofs!Next]_(TransportProofs!vars)
  BY DEF Transport!Next, TransportProofs!Next, Transport!vars, TransportProofs!vars,
         Transport!Clone, TransportProofs!Clone,
         Transport!DropConnector, TransportProofs!DropConnector,
         Transport!Call, TransportProofs!Call, Transport!Poll, TransportProofs!Poll,
         Transport!Release, TransportProofs!Release, Transport!Close, TransportProofs!Close,
         Transport!Accept, TransportProofs!Accept,
         Transport!AcceptNone, TransportProofs!AcceptNone,
         Transport!DropIncoming, TransportProofs!DropIncoming,
         Transport!Senders, TransportProofs!Senders
<1> QED
  BY <1>1, <1>2, PTL DEF Transport!Spec, TransportProofs!Spec

LEMMA TransportType == Spec => []Transport!TypeOK
<1>1. TransportProofs!TypeOK => Transport!TypeOK
  BY DEF TransportProofs!TypeOK, Transport!TypeOK, TransportProofs!DialState,
         Transport!DialState, TransportProofs!HalfState, Transport!HalfState
<1>2. TransportProofs!Spec => []TransportProofs!TypeOK
  BY TransportProofs!TypeCorrect
<1> QED
  BY <1>1, <1>2, Composition, SameSpec, PTL DEF RefinesInProcess

(* Whatever the order in which channel, servers and main go, no client of  *)
(* the transport holds a connection nobody will ever read.                 *)
THEOREM NobodyStranded == Spec => []Transport!NoStrandedPeer
<1>1. TransportProofs!NoStrandedPeer => Transport!NoStrandedPeer
  BY DEF TransportProofs!NoStrandedPeer, Transport!NoStrandedPeer
<1>2. TransportProofs!Spec => []TransportProofs!NoStrandedPeer
  BY TransportProofs!NobodyStranded
<1> QED
  BY <1>1, <1>2, Composition, SameSpec, PTL DEF RefinesInProcess

(***************************************************************************)
(* Type correctness of the rest.                                           *)
(***************************************************************************)
RestTypeOK ==
  /\ client \in BOOLEAN
  /\ request \in [Req -> RequestState]
  /\ carrier \in [Req -> Dial \cup {NoDial}]
  /\ \A r \in Req : request[r] = "sent" => carrier[r] \in Dial
  /\ server \in [Server -> ServerState]
  /\ stopped \in 0..2

LEMMA InitRest == Init => RestTypeOK
<1> SUFFICES ASSUME Init PROVE RestTypeOK
  OBVIOUS
<1>1. client \in BOOLEAN
  BY DEF Init
<1> QED
  BY <1>1 DEF Init, RestTypeOK, RequestState, Server, ServerState

(* The steps of the transport leave servers and main alone, except that a  *)
(* stream that ends stops the backend.                                     *)
LEMMA StepRest == RestTypeOK /\ [Next]_vars => RestTypeOK'
<1> SUFFICES ASSUME RestTypeOK, [Next]_vars PROVE RestTypeOK'
  OBVIOUS
<1> USE DEF RestTypeOK, RequestState, rest, process
<1>1. CASE UNCHANGED vars
  BY <1>1 DEF vars
<1>2. ASSUME NEW r \in Req, Arrive(r) \/ Serve(r) PROVE RestTypeOK'
  BY <1>2 DEF Arrive, Serve, Becomes
<1>3. ASSUME NEW r \in Req, Send(r) PROVE RestTypeOK'
  BY <1>3 DEF Send, Becomes
<1>4. CASE ClientLeaves
  BY <1>4 DEF ClientLeaves, Becomes
<1>5. ASSUME NEW d \in Dial, Poll(d) \/ Notice(d) PROVE RestTypeOK'
  BY <1>5 DEF Poll, Notice, Becomes, Waiting
<1>6. ASSUME NEW d \in Dial, Connect(d) \/ HangUp(d) \/ Close(d) \/ Break(d) \/ CloseIdle(d)
      PROVE  RestTypeOK'
  BY <1>6 DEF Connect, HangUp, Close, Break, CloseIdle
<1>7. CASE WorkerEnds \/ Accept \/ DropStream
  BY <1>7 DEF WorkerEnds, Accept, DropStream
<1>8. CASE StreamEnds
  BY <1>8 DEF StreamEnds, Server, ServerState
<1>9. ASSUME NEW s \in Server, Finish(s) PROVE RestTypeOK'
  BY <1>9 DEF Finish, Server, ServerState
<1>10. CASE Stop
  <2>1. stopped' \in 0..2
    BY <1>10 DEF Stop, Order
  <2>2. server' \in [Server -> ServerState]
    BY <1>10 DEF Stop, Server, ServerState
  <2> QED
    BY <1>10, <2>1, <2>2 DEF Stop
<1> QED
  BY <1>1, <1>2, <1>3, <1>4, <1>5, <1>6, <1>7, <1>8, <1>9, <1>10 DEF Next

LEMMA RestType == Spec => []RestTypeOK
BY InitRest, StepRest, PTL DEF Spec

(* Every variable keeps its type, for any number of requests and dials.    *)
THEOREM TypeCorrect == Spec => []TypeOK
<1>1. Transport!TypeOK /\ RestTypeOK => TypeOK
  BY DEF TypeOK, RestTypeOK, Order
<1> QED
  BY <1>1, TransportType, RestType, PTL

(***************************************************************************)
(* The order of the shutdown, as far as a request depends on it: while one *)
(* is on its way its client is there, and so is the front, and with the    *)
(* front the channel's connector; the backend stops after the front.       *)
(***************************************************************************)
OnItsWay(r) == request[r] \in {"waiting", "sent"}

InOrder ==
  /\ \A r \in Req : OnItsWay(r) => client
  /\ server["front"] = "done" => ~client
  /\ First \notin connectors => server["front"] = "done"
  /\ server["backend"] # "serving" => server["front"] = "done"
  /\ stopped = 2 => server["front"] = "done"

IInv == RestTypeOK /\ InOrder

LEMMA InitOrder == Init => InOrder
BY DEF Init, Transport!Init, InOrder, OnItsWay, Server

LEMMA StepOrder == IInv /\ [Next]_vars => InOrder'
<1> SUFFICES ASSUME IInv, [Next]_vars PROVE InOrder'
  OBVIOUS
<1> USE DEF IInv, RestTypeOK, InOrder, OnItsWay, rest, process
<1>1. CASE UNCHANGED vars
  BY <1>1 DEF vars, transport
<1>2. ASSUME NEW r \in Req, Arrive(r) \/ Send(r) \/ Serve(r) PROVE InOrder'
  BY <1>2 DEF Arrive, Send, Serve, Becomes, transport
<1>3. CASE ClientLeaves
  BY <1>3 DEF ClientLeaves, Becomes, transport
<1>4. ASSUME NEW d \in Dial, Poll(d) \/ Notice(d) PROVE InOrder'
  BY <1>4 DEF Poll, Notice, Becomes, Waiting, Transport!Poll, Transport!Release
<1>5. ASSUME NEW d \in Dial, Connect(d) \/ HangUp(d) \/ Close(d) \/ Break(d) \/ CloseIdle(d)
      PROVE  InOrder'
  BY <1>5 DEF Connect, HangUp, Close, Break, CloseIdle,
              Transport!Call, Transport!Release, Transport!Close
<1>6. CASE WorkerEnds
  BY <1>6 DEF WorkerEnds, Transport!DropConnector
<1>7. CASE Accept \/ DropStream
  BY <1>7 DEF Accept, DropStream, Transport!Accept, Transport!DropIncoming
<1>8. CASE StreamEnds
  <2>1. connectors = {}
    BY <1>8 DEF StreamEnds, Transport!AcceptNone, Transport!Senders
  <2> QED
    BY <1>8, <2>1 DEF StreamEnds, Transport!AcceptNone, Server
<1>9. ASSUME NEW s \in Server, Finish(s) PROVE InOrder'
  BY <1>9 DEF Finish, Drained, Server, transport
<1>10. CASE Stop
  <2>1. CASE stopped = 0
    BY <1>10, <2>1 DEF Stop, Order, Server, transport
  <2>2. CASE stopped = 1
    <3>1. server["front"] = "done"
      BY <1>10, <2>2 DEF Stop, Awaited, Order
    <3> QED
      BY <1>10, <2>2, <3>1 DEF Stop, Order, Server, transport
  <2> QED
    BY <1>10, <2>1, <2>2 DEF Stop, Order
<1> QED
  BY <1>1, <1>2, <1>3, <1>4, <1>5, <1>6, <1>7, <1>8, <1>9, <1>10 DEF Next

LEMMA Consistent == Spec => []IInv
<1>1. Init => IInv
  BY InitRest, InitOrder DEF IInv
<1>2. IInv /\ [Next]_vars => IInv'
  BY StepRest, StepOrder DEF IInv
<1> QED
  BY <1>1, <1>2, PTL DEF Spec

Fails(r) == request[r] # "failed" /\ request'[r] = "failed"

LEMMA FailingStep ==
  ASSUME IInv, [Next]_vars, NEW r \in Req, Fails(r)
  PROVE  server["backend"] = "serving"
<1> USE DEF IInv, RestTypeOK, Fails, rest, process
<1>1. SUFFICES \E q \in Req : OnItsWay(q)
  BY DEF InOrder
<1>2. ASSUME NEW d \in Dial, Poll(d) PROVE \E q \in Req : OnItsWay(q)
  BY <1>2 DEF Poll, Waiting, OnItsWay
<1>3. ASSUME NEW d \in Dial, Notice(d) PROVE \E q \in Req : OnItsWay(q)
  BY <1>3 DEF Notice, SentOn, Becomes, OnItsWay
<1>4. ASSUME NEW q \in Req, Arrive(q) \/ Send(q) \/ Serve(q) PROVE FALSE
  BY <1>4 DEF Arrive, Send, Serve, Becomes
<1>5. ASSUME NEW d \in Dial, Connect(d) \/ HangUp(d) \/ Close(d) \/ Break(d) \/ CloseIdle(d)
      PROVE  FALSE
  BY <1>5 DEF Connect, HangUp, Close, Break, CloseIdle
<1>6. CASE ClientLeaves
  BY <1>6 DEF ClientLeaves, Becomes
<1>7. CASE WorkerEnds \/ Accept \/ StreamEnds \/ DropStream \/ Stop \/ UNCHANGED vars
  BY <1>7 DEF WorkerEnds, Accept, StreamEnds, DropStream, Stop, vars
<1>8. ASSUME NEW s \in Server, Finish(s) PROVE FALSE
  BY <1>8 DEF Finish
<1> QED
  BY <1>2, <1>3, <1>4, <1>5, <1>6, <1>7, <1>8 DEF Next

(* No request fails because the backend is stopping or gone.               *)
THEOREM NobodyFailed == Spec => ShutdownFailsNobody
<1>1. IInv /\ [Next]_vars =>
        [\A r \in Req :
           request[r] # "failed" /\ request'[r] = "failed" => server["backend"] = "serving"]_vars
  BY FailingStep DEF Fails
<1> QED
  BY <1>1, Consistent, PTL DEF Spec, ShutdownFailsNobody
=============================================================================
