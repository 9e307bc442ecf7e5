------------------------------ MODULE InProcess ------------------------------
(***************************************************************************)
(* The in-memory transport of grpc-gw-util: `Connector` clones dial, each  *)
(* dial hands the server half of a fresh pipe to the one `Incoming` stream *)
(* over an unbounded channel, and a server accepts from that stream.       *)
(*                                                                         *)
(* `Connector::call` only makes a future, with a sender of its own; the    *)
(* pipe is made and sent when that future is polled.  In between, the      *)
(* connector it came from, the stream and the future itself may go away.   *)
(***************************************************************************)
EXTENDS Naturals, Sequences

CONSTANTS
  Dial,        \* calls of a connector
  Connector,   \* connector clones
  First        \* the one `in_process_transport` returns

ASSUME InProcessAssumptions == First \in Connector

VARIABLES
  connectors,  \* SUBSET Connector, those alive
  dial,        \* [Dial -> DialState], what the caller has in its hands
  half,        \* [Dial -> HalfState], the server half of its pipe
  queue,       \* server halves sent and not accepted
  incoming     \* "open"; "ended" once `accept` has returned None; "dropped"

vars == <<connectors, dial, half, queue, incoming>>

(* The caller of a dial holds nothing, the future, or the client half; or  *)
(* the dial failed, or the caller let go of what it held.                  *)
DialState == {"none", "future", "connected", "refused", "released"}
HalfState == {"none", "queued", "accepted", "closed"}

Init ==
  /\ connectors = {First}
  /\ dial = [d \in Dial |-> "none"]
  /\ half = [d \in Dial |-> "none"]
  /\ queue = <<>>
  /\ incoming = "open"

(***************************************************************************)
(* The client side.                                                        *)
(***************************************************************************)
Clone(c) ==
  /\ connectors # {}
  /\ c \notin connectors
  /\ connectors' = connectors \cup {c}
  /\ UNCHANGED <<dial, half, queue, incoming>>

DropConnector(c) ==
  /\ c \in connectors
  /\ connectors' = connectors \ {c}
  /\ UNCHANGED <<dial, half, queue, incoming>>

(* `Connector::call`. *)
Call(d) ==
  /\ connectors # {}
  /\ dial[d] = "none"
  /\ dial' = [dial EXCEPT ![d] = "future"]
  /\ UNCHANGED <<connectors, half, queue, incoming>>

(* Mutants of Poll: the error of `send` is dropped; a dial waits for a     *)
(* server instead of failing; a dial is sent again.                        *)
BugSendAnyway(d) ==
  /\ dial[d] = "future"
  /\ dial' = [dial EXCEPT ![d] = "connected"]
  /\ half' = [half EXCEPT ![d] = "queued"]
  /\ queue' = Append(queue, d)
  /\ UNCHANGED <<connectors, incoming>>

BugWaitForServer(d) ==
  /\ dial[d] = "future"
  /\ incoming # "dropped"
  /\ dial' = [dial EXCEPT ![d] = "connected"]
  /\ half' = [half EXCEPT ![d] = "queued"]
  /\ queue' = Append(queue, d)
  /\ UNCHANGED <<connectors, incoming>>
BugSendTwice(d) ==
  /\ dial[d] \in {"future", "connected"}
  /\ incoming # "dropped"
  /\ Len(queue) < 3
  /\ dial' = [dial EXCEPT ![d] = "connected"]
  /\ half' = [half EXCEPT ![d] = "queued"]
  /\ queue' = Append(queue, d)
  /\ UNCHANGED <<connectors, incoming>>

(* The future runs: the pipe is made and its server half sent, which fails *)
(* when the receiver is gone.                                              *)
Poll(d) ==
  /\ dial[d] = "future"
  /\ IF incoming = "dropped"
     THEN /\ dial' = [dial EXCEPT ![d] = "refused"]
          /\ UNCHANGED <<half, queue>>
     ELSE /\ dial' = [dial EXCEPT ![d] = "connected"]
          /\ half' = [half EXCEPT ![d] = "queued"]
          /\ queue' = Append(queue, d)
  /\ UNCHANGED <<connectors, incoming>>

(* The caller drops the future, or the client half. *)
Release(d) ==
  /\ dial[d] \in {"future", "connected"}
  /\ dial' = [dial EXCEPT ![d] = "released"]
  /\ UNCHANGED <<connectors, half, queue, incoming>>

(***************************************************************************)
(* The server side.                                                        *)
(***************************************************************************)
BugNewestFirst ==      \* mutant: the halves are taken from the wrong end
  /\ incoming = "open"
  /\ queue # <<>>
  /\ half' = [half EXCEPT ![queue[Len(queue)]] = "accepted"]
  /\ queue' = SubSeq(queue, 1, Len(queue) - 1)
  /\ UNCHANGED <<connectors, dial, incoming>>

(* `Incoming::accept` and `poll_next`. *)
Accept ==
  /\ incoming = "open"
  /\ queue # <<>>
  /\ half' = [half EXCEPT ![Head(queue)] = "accepted"]
  /\ queue' = Tail(queue)
  /\ UNCHANGED <<connectors, dial, incoming>>

(* Mutants of Senders: a dial borrows its connector's sender; the stream   *)
(* keeps a sender of its own.                                              *)
BugNoClone  == connectors
BugOwnSender == {First}

(* The live senders: the connectors' and those of the pending futures.     *)
Senders == connectors \cup {d \in Dial : dial[d] = "future"}

(* `accept` returns None. *)
AcceptNone ==
  /\ incoming = "open"
  /\ queue = <<>>
  /\ Senders = {}
  /\ incoming' = "ended"
  /\ UNCHANGED <<connectors, dial, half, queue>>

(* The server drops the stream, and with it the halves not yet accepted.   *)
DropIncoming ==
  /\ incoming # "dropped"
  /\ incoming' = "dropped"
  /\ half' = [d \in Dial |-> IF half[d] = "queued" THEN "closed" ELSE half[d]]
  /\ queue' = <<>>
  /\ UNCHANGED <<connectors, dial>>

(* The server is done with a connection. *)
Close(d) ==
  /\ half[d] = "accepted"
  /\ half' = [half EXCEPT ![d] = "closed"]
  /\ UNCHANGED <<connectors, dial, queue, incoming>>

Next ==
  \/ \E c \in Connector : Clone(c) \/ DropConnector(c)
  \/ \E d \in Dial : Call(d) \/ Poll(d) \/ Release(d) \/ Close(d)
  \/ Accept \/ AcceptNone \/ DropIncoming

Spec == Init /\ [][Next]_vars

(* The server polls its stream (tonic's accept loop) and the runtime the   *)
(* futures it was given; nobody need dial, drop or close anything.         *)
FairSpec == Spec /\ WF_vars(Accept) /\ WF_vars(AcceptNone) /\ \A d \in Dial : WF_vars(Poll(d))

(***************************************************************************)
(* Correctness.                                                            *)
(***************************************************************************)
(* Every variable has its type, and no server half is queued twice. *)
TypeOK ==
  /\ connectors \subseteq Connector
  /\ dial \in [Dial -> DialState]
  /\ half \in [Dial -> HalfState]
  /\ queue \in Seq(Dial)
  /\ \A i, j \in DOMAIN queue : i # j => queue[i] # queue[j]
  /\ incoming \in {"open", "ended", "dropped"}

(* The end of the stream is final: once `accept` has returned None nothing *)
(* is queued, and nobody is left who could still dial.                     *)
EndIsFinal == incoming = "ended" => queue = <<>> /\ Senders = {}

(* A client that holds a connection has a peer or had one: its server half *)
(* is waiting in an open stream, accepted, or closed (the client reads end *)
(* of file).  Never is it left in a stream nobody can read.                *)
NoStrandedPeer ==
  \A d \in Dial :
    /\ dial[d] = "connected" => half[d] # "none"
    /\ half[d] = "queued" <=> \E i \in DOMAIN queue : queue[i] = d
    /\ half[d] = "queued" => incoming = "open"

(* Connections are accepted in the order they were dialled: a half that    *)
(* waits is overtaken by none sent after it.                               *)
AcceptedInOrder ==
  [][\A i, j \in DOMAIN queue :
       i < j /\ half[queue[j]] = "queued" /\ half'[queue[j]] = "accepted" =>
         half'[queue[i]] # "queued"]_vars

(* Every dial that was started is decided, and every connection that was   *)
(* made is accepted or closed.                                             *)
EveryDialSettles ==
  \A d \in Dial :
    /\ dial[d] = "future" ~> dial[d] # "future"
    /\ half[d] = "queued" ~> half[d] \in {"accepted", "closed"}

(* Once every connector is dropped the stream ends, with dials still under *)
(* way delivered first: a server that waits for the end is not held up.    *)
StreamEnds == connectors = {} ~> incoming # "open"
=============================================================================
