--------------------------- MODULE InProcess_proofs ---------------------------
(***************************************************************************)
(* The in-memory transport loses no connection and ends for good, for any  *)
(* number of dials and connector clones.                                   *)
(***************************************************************************)
EXTENDS InProcess, TLAPS

(* What is missing from the properties to be inductive: a pipe is only     *)
(* made when its dial is polled.                                           *)
NoEarlyPipe == \A d \in Dial : dial[d] \in {"none", "future"} => half[d] = "none"

IInv == TypeOK /\ EndIsFinal /\ NoStrandedPeer /\ NoEarlyPipe

LEMMA Initially == Init => IInv
<1> SUFFICES ASSUME Init PROVE IInv
  OBVIOUS
<1>1. TypeOK /\ EndIsFinal /\ NoEarlyPipe
  BY InProcessAssumptions
     DEF Init, TypeOK, EndIsFinal, NoEarlyPipe, DialState, HalfState
<1>2. NoStrandedPeer
  <2>1. \A d \in Dial : dial[d] = "none" /\ half[d] = "none"
    BY DEF Init
  <2>2. ~ \E i \in DOMAIN queue : TRUE
    BY DEF Init
  <2> QED
    BY <2>1, <2>2 DEF NoStrandedPeer
<1> QED
  BY <1>1, <1>2 DEF IInv

(* What sending a server half does to the queue. *)
LEMMA Sent ==
  ASSUME NEW d \in Dial, IInv, dial[d] = "future", incoming # "dropped",
         dial' = [dial EXCEPT ![d] = "connected"],
         half' = [half EXCEPT ![d] = "queued"],
         queue' = Append(queue, d),
         UNCHANGED <<connectors, incoming>>
  PROVE  IInv'
<1> USE DEF IInv
<1>1. /\ queue \in Seq(Dial) /\ half[d] = "none" /\ incoming = "open"
      /\ \A i \in DOMAIN queue : queue[i] # d
  BY DEF TypeOK, NoEarlyPipe, NoStrandedPeer, EndIsFinal, Senders
<1>2. /\ queue' \in Seq(Dial)
      /\ DOMAIN queue' = 1..(Len(queue) + 1)
      /\ \A i \in DOMAIN queue : queue'[i] = queue[i]
      /\ queue'[Len(queue) + 1] = d
      /\ DOMAIN queue = 1..Len(queue) /\ Len(queue) \in Nat
  BY <1>1
<1>3. TypeOK'
  <2>1. \A i, j \in DOMAIN queue' : i # j => queue'[i] # queue'[j]
    BY <1>1, <1>2 DEF TypeOK
  <2> QED
    BY <1>2, <2>1 DEF TypeOK, DialState, HalfState
<1>4. EndIsFinal'
  BY <1>1 DEF EndIsFinal
<1>5. NoStrandedPeer'
  <2> SUFFICES ASSUME NEW e \in Dial
               PROVE  /\ dial'[e] = "connected" => half'[e] # "none"
                      /\ half'[e] = "queued" <=> \E i \in DOMAIN queue' : queue'[i] = e
                      /\ half'[e] = "queued" => incoming' = "open"
    BY DEF NoStrandedPeer
  <2>1. (\E i \in DOMAIN queue' : queue'[i] = e) <=> e = d \/ \E i \in DOMAIN queue : queue[i] = e
    BY <1>2
  <2> QED
    BY <1>1, <2>1 DEF TypeOK, NoStrandedPeer
<1>6. NoEarlyPipe'
  BY DEF TypeOK, NoEarlyPipe
<1> QED
  BY <1>3, <1>4, <1>5, <1>6

(* What accepting the first server half does to the queue. *)
LEMMA Accepted == IInv /\ Accept => IInv'
<1> SUFFICES ASSUME IInv, Accept PROVE IInv'
  OBVIOUS
<1> USE DEF IInv
<1> DEFINE h == Head(queue)
<1>1. /\ queue \in Seq(Dial) /\ queue # <<>> /\ Len(queue) \in Nat \ {0}
      /\ DOMAIN queue = 1..Len(queue)
      /\ h = queue[1] /\ h \in Dial
  BY DEF TypeOK, Accept
<1>2. /\ queue' \in Seq(Dial)
      /\ DOMAIN queue' = 1..(Len(queue) - 1)
      /\ \A i \in DOMAIN queue' : queue'[i] = queue[i + 1]
  BY <1>1 DEF Accept
<1>3. half' = [half EXCEPT ![h] = "accepted"] /\ UNCHANGED <<connectors, dial, incoming>>
  BY DEF Accept
<1> HIDE DEF h
<1>4. TypeOK'
  <2>1. \A i, j \in DOMAIN queue' : i # j => queue'[i] # queue'[j]
    BY <1>1, <1>2 DEF TypeOK
  <2> QED
    BY <1>1, <1>2, <1>3, <2>1 DEF TypeOK, HalfState
<1>5. EndIsFinal'
  BY <1>3 DEF EndIsFinal, Accept
<1>6. NoStrandedPeer'
  <2> SUFFICES ASSUME NEW e \in Dial
               PROVE  /\ dial'[e] = "connected" => half'[e] # "none"
                      /\ half'[e] = "queued" <=> \E i \in DOMAIN queue' : queue'[i] = e
                      /\ half'[e] = "queued" => incoming' = "open"
    BY DEF NoStrandedPeer
  <2>1. (\E i \in DOMAIN queue' : queue'[i] = e) <=>
          e # h /\ \E i \in DOMAIN queue : queue[i] = e
    <3>1. ASSUME NEW i \in DOMAIN queue', queue'[i] = e
          PROVE  e # h /\ \E j \in DOMAIN queue : queue[j] = e
      BY <1>1, <1>2, <3>1 DEF TypeOK
    <3>2. ASSUME NEW i \in DOMAIN queue, queue[i] = e, e # h
          PROVE  \E j \in DOMAIN queue' : queue'[j] = e
      <4>1. i - 1 \in DOMAIN queue' /\ queue'[i - 1] = queue[i]
        BY <1>1, <1>2, <3>2
      <4> QED
        BY <3>2, <4>1
    <3> QED
      BY <3>1, <3>2
  <2> QED
    BY <1>1, <1>3, <2>1 DEF TypeOK, NoStrandedPeer
<1>7. NoEarlyPipe'
  <2>1. half[h] = "queued"
    BY <1>1 DEF NoStrandedPeer
  <2> QED
    BY <1>1, <1>3, <2>1 DEF TypeOK, NoEarlyPipe
<1> QED
  BY <1>4, <1>5, <1>6, <1>7

LEMMA Step == IInv /\ [Next]_vars => IInv'
<1> SUFFICES ASSUME IInv, [Next]_vars PROVE IInv'
  OBVIOUS
<1> USE DEF IInv
<1>1. ASSUME NEW c \in Connector, Clone(c) \/ DropConnector(c) PROVE IInv'
  BY <1>1 DEF Clone, DropConnector, TypeOK, EndIsFinal, Senders, NoStrandedPeer, NoEarlyPipe
<1>2. ASSUME NEW d \in Dial, Call(d) PROVE IInv'
  BY <1>2 DEF Call, TypeOK, DialState, EndIsFinal, Senders, NoStrandedPeer, NoEarlyPipe
<1>3. ASSUME NEW d \in Dial, Poll(d) PROVE IInv'
  <2>1. CASE incoming = "dropped"
    BY <1>3, <2>1 DEF Poll, TypeOK, DialState, EndIsFinal, NoStrandedPeer, NoEarlyPipe
  <2>2. CASE incoming # "dropped"
    BY <1>3, <2>2, Sent DEF Poll
  <2> QED
    BY <2>1, <2>2
<1>4. ASSUME NEW d \in Dial, Release(d) PROVE IInv'
  <2>1. Senders' \subseteq Senders
    BY <1>4 DEF Release, Senders, TypeOK
  <2> QED
    BY <1>4, <2>1 DEF Release, TypeOK, DialState, EndIsFinal, NoStrandedPeer, NoEarlyPipe
<1>5. ASSUME NEW d \in Dial, Close(d) PROVE IInv'
  <2>1. TypeOK' /\ EndIsFinal' /\ NoEarlyPipe'
    BY <1>5 DEF Close, TypeOK, HalfState, EndIsFinal, Senders, NoEarlyPipe
  <2>2. NoStrandedPeer'
    BY <1>5 DEF Close, TypeOK, NoStrandedPeer
  <2> QED
    BY <2>1, <2>2
<1>6. CASE Accept
  BY <1>6, Accepted
<1>7. CASE AcceptNone
  BY <1>7 DEF AcceptNone, TypeOK, EndIsFinal, Senders, NoStrandedPeer, NoEarlyPipe
<1>8. CASE DropIncoming
  BY <1>8 DEF DropIncoming, TypeOK, HalfState, EndIsFinal, NoStrandedPeer, NoEarlyPipe
<1>9. CASE UNCHANGED vars
  BY <1>9 DEF vars, TypeOK, EndIsFinal, Senders, NoStrandedPeer, NoEarlyPipe
<1> QED
  BY <1>1, <1>2, <1>3, <1>4, <1>5, <1>6, <1>7, <1>8, <1>9 DEF Next

THEOREM Consistent == Spec => []IInv
BY Initially, Step, PTL DEF Spec

(* Every variable keeps its type, and no pipe is handed over twice.        *)
THEOREM TypeCorrect == Spec => []TypeOK
BY Consistent, PTL DEF IInv

(* Once `accept` has returned None the stream is over: whatever clones and *)
(* pending dials there were, none is left that could still deliver.        *)
THEOREM EndFinal == Spec => []EndIsFinal
BY Consistent, PTL DEF IInv

(* The caller of a dial that succeeded always has a peer, accepted or      *)
(* still to be, or has been hung up on.                                    *)
THEOREM NobodyStranded == Spec => []NoStrandedPeer
BY Consistent, PTL DEF IInv

Overtakes(i, j) ==
  i < j /\ half[queue[j]] = "queued" /\ half'[queue[j]] = "accepted" /\ half'[queue[i]] = "queued"

LEMMA NoOvertaking ==
  ASSUME TypeOK, [Next]_vars, NEW i \in DOMAIN queue, NEW j \in DOMAIN queue
  PROVE  ~Overtakes(i, j)
<1> SUFFICES ASSUME i < j, half[queue[j]] = "queued", half'[queue[j]] = "accepted" PROVE FALSE
  BY DEF Overtakes
<1>1. /\ queue \in Seq(Dial) /\ DOMAIN queue = 1..Len(queue) /\ queue[j] \in Dial
      /\ half \in [Dial -> HalfState]
      /\ \A k, l \in DOMAIN queue : k # l => queue[k] # queue[l]
  BY DEF TypeOK
<1>2. CASE Accept
  <2>1. half' = [half EXCEPT ![queue[1]] = "accepted"] /\ 1 \in DOMAIN queue
    BY <1>1, <1>2 DEF Accept
  <2>2. j # 1
    BY <1>1
  <2> QED
    BY <1>1, <2>1, <2>2
<1>3. ASSUME NEW d \in Dial, Call(d) \/ Poll(d) \/ Release(d) \/ Close(d) PROVE FALSE
  BY <1>1, <1>3 DEF Call, Poll, Release, Close
<1>4. CASE DropIncoming
  BY <1>1, <1>4 DEF DropIncoming
<1>5. CASE AcceptNone \/ UNCHANGED vars
  BY <1>5 DEF AcceptNone, vars
<1>6. ASSUME NEW c \in Connector, Clone(c) \/ DropConnector(c) PROVE FALSE
  BY <1>6 DEF Clone, DropConnector
<1> QED
  BY <1>2, <1>3, <1>4, <1>5, <1>6 DEF Next

(* No connection is accepted before one that was handed over earlier and   *)
(* still waits.                                                            *)
THEOREM NobodyOvertakes == Spec => AcceptedInOrder
<1>1. TypeOK /\ [Next]_vars =>
        [\A i, j \in DOMAIN queue :
           i < j /\ half[queue[j]] = "queued" /\ half'[queue[j]] = "accepted" =>
             half'[queue[i]] # "queued"]_vars
  BY NoOvertaking DEF Overtakes
<1> QED
  BY <1>1, TypeCorrect, PTL DEF Spec, AcceptedInOrder
=============================================================================
