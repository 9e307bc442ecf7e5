--------------------------- MODULE Gateway_proofs ---------------------------
(***************************************************************************)
(* Type correctness, the safety invariants and the refinement of           *)
(* RequestReply, for any number of requests, connections and targets, any  *)
(* buffer size and any set of backend replies.                             *)
(***************************************************************************)
EXTENDS Gateway, TLAPS

USE DEF Ok, Unknown, InvalidArgument, NotFound, Unimplemented, Internal,
        Unavailable, Code

(***************************************************************************)
(* Facts about Status.                                                     *)
(***************************************************************************)

(* Every number folds to a code (`Code::from_i32` is total). *)
LEMMA FromI32Type == \A value \in Int : from_i32(value) \in Code
BY DEF from_i32

(* `http_status` is a valid HTTP status, and 200 only for Ok. *)
LEMMA HttpStatusType ==
  ASSUME NEW c \in Code
  PROVE  http_status(c) \in 100..599 /\ (http_status(c) = 200 => c = Ok)
<1>1. c \in {0,1,2,3,4,5,6,7,8,9,10,11,12,13,14,15,16}
  OBVIOUS
<1>2. QED
  BY <1>1 DEF http_status, HttpStatusTable

(* An error envelope is a response, and is never a 200. *)
LEMMA ErrorResponseType ==
  ASSUME NEW c \in Code \ {Ok}
  PROVE  /\ error_response(c) \in Response
         /\ error_response(c).http # 200
<1>1. from_i32(c) = c
  BY DEF from_i32
<1>2. QED
  BY <1>1, HttpStatusType DEF error_response, Response

(* `render_reply` gives a 200 only for an Ok status. *)
LEMMA RenderType ==
  ASSUME NEW rep, rep.status \in Int
  PROVE  /\ render_reply(rep) \in Response
         /\ render_reply(rep).http = 200 => rep.status = Ok
<1> DEFINE s == from_i32(rep.status)
<1>1. s \in Code /\ (s = Ok => rep.status = Ok)
  BY FromI32Type DEF from_i32
<1>2. CASE s # Ok
  <2>1. render_reply(rep) = error_response(s)
    BY <1>2 DEF render_reply
  <2>2. QED
    BY <1>1, <1>2, <2>1, ErrorResponseType
<1>3. CASE s = Ok /\ rep.renders
  BY <1>1, <1>3 DEF render_reply, Response
<1>4. CASE s = Ok /\ ~ rep.renders
  <2>1. render_reply(rep) = error_response(Internal)
    BY <1>4 DEF render_reply
  <2>2. QED
    BY <1>1, <1>4, <2>1, ErrorResponseType
<1>5. QED
  BY <1>2, <1>3, <1>4

(* What a call may return carries a status number. *)
LEMMA CallResultStatus ==
  ASSUME NEW rep \in CallResult
  PROVE  rep.status \in Int
BY GatewayAssumptions DEF CallResult, Failure

(***************************************************************************)
(* Type correctness.                                                       *)
(***************************************************************************)
USE DEF asked, inbound, front, link, backend, vars

(* One step of the request's future keeps the types. *)
LEMMA FutureType ==
  ASSUME TypeOK, NEW r \in Req,
         Arrive(r) \/ BodyFails(r) \/ Future(r) \/ ResetStream(r)
  PROVE  TypeOK'
<1> USE DEF Phase, Upstream, TypeOK
<1>1. CASE Arrive(r)
  BY <1>1 DEF Arrive
<1>2. CASE BodyFails(r)
  BY <1>2, ErrorResponseType DEF BodyFails, Respond
<1>3. CASE Handle(r)
  <2>1. Resolution[target[r]] \in Verdict
    BY GatewayAssumptions
  <2>2. Resolution[target[r]] # "forward" =>
          RejectionCode(Resolution[target[r]]) \in Code \ {Ok}
    BY <2>1 DEF Verdict, RejectionCode
  <2>3. QED
    BY <1>3, <2>2, ErrorResponseType DEF Handle, Respond
<1>4. CASE Call(r)
  BY <1>4 DEF Call
<1>5. CASE NotReady(r)
  BY <1>5, ErrorResponseType DEF NotReady, Respond
<1>6. CASE Resume(r)
  <2>1. reply[r] \in CallResult
    BY <1>6 DEF Resume
  <2>2. render_reply(reply[r]) \in Response
    BY <2>1, CallResultStatus, RenderType
  <2>3. QED
    BY <1>6, <2>2 DEF Resume, Respond
<1>7. CASE ResetStream(r)
  BY <1>7 DEF ResetStream, Drop
<1>8. QED
  BY <1>1, <1>2, <1>3, <1>4, <1>5, <1>6, <1>7 DEF Future

(* A step of the channel or of the backend on one call keeps the types. *)
LEMMA CallType ==
  ASSUME TypeOK, NEW r \in Req,
         Worker(r) \/ TimerExpires(r) \/ Backend(r)
  PROVE  TypeOK'
<1> USE DEF Upstream, Handler, TypeOK, CallResult
<1>1. CASE Send(r)
  BY <1>1 DEF Send
<1>2. CASE ConnectFails(r)
  BY <1>2 DEF ConnectFails, Returns
<1>3. CASE Skip(r)
  BY <1>3 DEF Skip
<1>4. CASE TimerExpires(r)
  BY <1>4 DEF TimerExpires, Returns
<1>5. CASE Accept(r)
  BY <1>5 DEF Accept
<1>6. CASE Discard(r)
  BY <1>6 DEF Discard
<1>7. CASE Commit(r)
  BY <1>7 DEF Commit
<1>8. CASE Finish(r)
  BY <1>8 DEF Finish, Returns
<1>9. CASE Notice(r)
  BY <1>9 DEF Notice
<1>10. QED
  BY <1>1, <1>2, <1>3, <1>4, <1>5, <1>6, <1>7, <1>8, <1>9 DEF Worker, Backend

(* So does an event of the process, of a connection or of the channel. *)
LEMMA SharedType ==
  ASSUME TypeOK,
         \/ \E c \in Conn : AcceptConn(c) \/ Disconnect(c)
         \/ ConnectionLost \/ WorkerDies \/ Start \/ Exit
  PROVE  TypeOK'
<1> USE DEF Phase, Upstream, ConnState, TypeOK, CallResult
<1>1. ASSUME NEW c \in Conn, Disconnect(c)
      PROVE  TypeOK'
  BY <1>1 DEF Disconnect, Drop
<1>2. CASE ConnectionLost
  BY <1>2 DEF ConnectionLost, Lose
<1>3. CASE WorkerDies
  BY <1>3 DEF WorkerDies, Lose
<1>4. ASSUME NEW c \in Conn, AcceptConn(c)
      PROVE  TypeOK'
  BY <1>4 DEF AcceptConn
<1>5. CASE Start
  BY <1>5 DEF Start
<1>6. CASE Exit
  BY <1>6 DEF Exit
<1>7. QED
  BY <1>1, <1>2, <1>3, <1>4, <1>5, <1>6

LEMMA InitType == Init => TypeOK
<1> SUFFICES ASSUME Init
             PROVE  TypeOK
  OBVIOUS
<1>1. serving \in BOOLEAN
  BY DEF Init
<1>2. QED
  BY <1>1 DEF Init, TypeOK, Phase, Upstream, Handler, ConnState

LEMMA StepType == TypeOK /\ [Next]_vars => TypeOK'
<1> SUFFICES ASSUME TypeOK, [Next]_vars
             PROVE  TypeOK'
  OBVIOUS
<1>1. CASE UNCHANGED vars
  BY <1>1 DEF TypeOK
<1>2. CASE Next
  BY <1>2, FutureType, CallType, SharedType DEF Next
<1>3. QED
  BY <1>1, <1>2

(* Every variable keeps its type, for all values of the constants. *)
THEOREM TypeCorrect == Spec => []TypeOK
BY InitType, StepType, PTL DEF Spec

(***************************************************************************)
(* The inductive invariant, one call at a time.                            *)
(***************************************************************************)
IInv == TypeOK /\ CallsConsistent

LEMMA FutureInv ==
  ASSUME IInv, NEW r \in Req, NEW q \in Req,
         Arrive(r) \/ BodyFails(r) \/ Future(r) \/ ResetStream(r)
  PROVE  CallInv(q)'
<1> USE DEF IInv, TypeOK, CallsConsistent, CallInv
<1>1. CASE Arrive(r)
  BY <1>1 DEF Arrive
<1>2. CASE BodyFails(r)
  BY <1>2, ErrorResponseType DEF BodyFails, Respond
<1>3. CASE Handle(r)
  <2>1. Resolution[target[r]] \in Verdict
    BY GatewayAssumptions
  <2>2. Resolution[target[r]] # "forward" =>
          RejectionCode(Resolution[target[r]]) \in Code \ {Ok}
    BY <2>1 DEF Verdict, RejectionCode
  <2>3. QED
    BY <1>3, <2>2, ErrorResponseType DEF Handle, Respond
<1>4. CASE Call(r)
  BY <1>4 DEF Call
<1>5. CASE NotReady(r)
  BY <1>5, ErrorResponseType DEF NotReady, Respond
<1>6. CASE Resume(r)
  <2>1. reply[r] \in CallResult
    BY <1>6 DEF Resume
  <2>2. render_reply(reply[r]).http = 200 => reply[r].status = Ok
    BY <2>1, CallResultStatus, RenderType
  <2>3. QED
    BY <1>6, <2>2 DEF Resume, Respond
<1>7. CASE ResetStream(r)
  BY <1>7 DEF ResetStream, Drop, Active
<1>8. QED
  BY <1>1, <1>2, <1>3, <1>4, <1>5, <1>6, <1>7 DEF Future

(* A status tonic reports for a failed call is never Ok. *)
LEMMA FailureStatus ==
  ASSUME NEW s \in LostStatus \cup TimeoutStatus
  PROVE  Failure(s).status # Ok
BY GatewayAssumptions DEF Failure

LEMMA CallStepInv ==
  ASSUME IInv, NEW r \in Req, NEW q \in Req,
         Worker(r) \/ TimerExpires(r) \/ Backend(r)
  PROVE  CallInv(q)'
<1> USE DEF IInv, TypeOK, CallsConsistent, CallInv
<1>1. CASE Send(r)
  BY <1>1 DEF Send
<1>2. CASE ConnectFails(r)
  BY <1>2, FailureStatus DEF ConnectFails, Returns
<1>3. CASE Skip(r)
  BY <1>3 DEF Skip
<1>4. CASE TimerExpires(r)
  BY <1>4, FailureStatus DEF TimerExpires, Returns
<1>5. CASE Accept(r)
  BY <1>5 DEF Accept
<1>6. CASE Discard(r)
  BY <1>6 DEF Discard
<1>7. CASE Commit(r)
  BY <1>7 DEF Commit
<1>8. CASE Finish(r)
  BY <1>8 DEF Finish, Returns
<1>9. CASE Notice(r)
  BY <1>9 DEF Notice
<1>10. QED
  BY <1>1, <1>2, <1>3, <1>4, <1>5, <1>6, <1>7, <1>8, <1>9 DEF Worker, Backend

LEMMA SharedInv ==
  ASSUME IInv, NEW q \in Req,
         \/ \E c \in Conn : AcceptConn(c) \/ Disconnect(c)
         \/ ConnectionLost \/ WorkerDies \/ Start \/ Exit
  PROVE  CallInv(q)'
<1> USE DEF IInv, TypeOK, CallsConsistent, CallInv
<1>1. ASSUME NEW c \in Conn, Disconnect(c)
      PROVE  CallInv(q)'
  BY <1>1 DEF Disconnect, Drop, Active
<1>2. CASE ConnectionLost
  BY <1>2, FailureStatus DEF ConnectionLost, Lose
<1>3. CASE WorkerDies
  BY <1>3, FailureStatus DEF WorkerDies, Lose, Buffered
<1>4. ASSUME NEW c \in Conn, AcceptConn(c)
      PROVE  CallInv(q)'
  BY <1>4 DEF AcceptConn
<1>5. CASE Start
  BY <1>5 DEF Start
<1>6. CASE Exit
  BY <1>6 DEF Exit, Active
<1>7. QED
  BY <1>1, <1>2, <1>3, <1>4, <1>5, <1>6

LEMMA InitInv == Init => IInv
BY InitType DEF Init, IInv, CallsConsistent, CallInv

LEMMA StepInv == IInv /\ [Next]_vars => IInv'
<1> SUFFICES ASSUME IInv, [Next]_vars
             PROVE  IInv'
  OBVIOUS
<1>1. TypeOK'
  BY StepType DEF IInv
<1>2. ASSUME NEW q \in Req
      PROVE  CallInv(q)'
  <2>1. CASE UNCHANGED vars
    BY <2>1 DEF IInv, CallsConsistent, CallInv
  <2>2. CASE Next
    BY <2>2, FutureInv, CallStepInv, SharedInv DEF Next
  <2>3. QED
    BY <2>1, <2>2
<1>3. QED
  BY <1>1, <1>2 DEF IInv, CallsConsistent

(* The inductive invariant holds. *)
THEOREM Consistent == Spec => []IInv
BY InitInv, StepInv, PTL DEF Spec

(* The backend method takes effect at most once for a request. *)
THEOREM OneEffect == Spec => []AtMostOnce
<1>1. IInv => AtMostOnce
  BY DEF IInv, CallsConsistent, CallInv, AtMostOnce
<1>2. QED
  BY <1>1, Consistent, PTL

(* A 200 means that the method took effect; an answer given without a call *)
(* means that it did not and will not.                                     *)
THEOREM Truthful == Spec => []TruthfulAnswer
<1>1. IInv => TruthfulAnswer
  BY DEF IInv, CallsConsistent, CallInv, TruthfulAnswer
<1>2. QED
  BY <1>1, Consistent, PTL

(***************************************************************************)
(* The action property, and the refinement, step by step.                  *)
(***************************************************************************)
AnswerKept(q) ==
  phase[q] \in {"responded", "dropped"} =>
    phase'[q] = phase[q] /\ response'[q] = response[q]

LEMMA StepKeepsAnswer ==
  ASSUME TypeOK, [Next]_vars, NEW q \in Req
  PROVE  AnswerKept(q)
<1> USE DEF TypeOK, AnswerKept
<1>1. CASE UNCHANGED vars
  BY <1>1
<1>2. ASSUME NEW r \in Req,
             Arrive(r) \/ BodyFails(r) \/ Future(r) \/ ResetStream(r)
      PROVE  AnswerKept(q)
  BY <1>2 DEF Arrive, BodyFails, Future, Handle, Call, NotReady, Resume,
              Respond, ResetStream, Drop, Active
<1>3. ASSUME NEW r \in Req, Worker(r) \/ TimerExpires(r) \/ Backend(r)
      PROVE  AnswerKept(q)
  BY <1>3 DEF Worker, Send, ConnectFails, Skip, TimerExpires, Returns,
              Backend, Accept, Discard, Commit, Finish, Notice
<1>4. ASSUME NEW c \in Conn, Disconnect(c)
      PROVE  AnswerKept(q)
  BY <1>4 DEF Disconnect, Drop, Active
<1>5. CASE ConnectionLost \/ WorkerDies \/ Start
  BY <1>5 DEF ConnectionLost, WorkerDies, Start
<1>6. ASSUME NEW c \in Conn, AcceptConn(c)
      PROVE  AnswerKept(q)
  BY <1>6 DEF AcceptConn
<1>7. CASE Exit
  BY <1>7 DEF Exit, Active
<1>8. QED
  BY <1>1, <1>2, <1>3, <1>4, <1>5, <1>6, <1>7 DEF Next

(* An answer is never replaced, and a dropped request gets none. *)
THEOREM AnswerStays == Spec => AnsweredOnce
<1>1. TypeOK /\ [Next]_vars =>
        [\A r \in Req :
           phase[r] \in {"responded", "dropped"} =>
             phase'[r] = phase[r] /\ response'[r] = response[r]]_vars
  BY StepKeepsAnswer DEF AnswerKept
<1>2. QED
  BY <1>1, TypeCorrect, PTL DEF Spec, AnsweredOnce

(* The abstract state of the refinement. *)
outcomes == [r \in Req |-> Outcome(r)]

(* The steps that change no outcome and have no effect. *)
LEMMA StutterStep ==
  ASSUME IInv, NEW r \in Req,
         \/ Arrive(r) \/ Call(r) \/ Worker(r) \/ TimerExpires(r)
         \/ Accept(r) \/ Discard(r) \/ Finish(r) \/ Notice(r)
         \/ ConnectionLost \/ WorkerDies
         \/ Handle(r) /\ Resolution[target[r]] = "forward"
  PROVE  outcomes' = outcomes /\ ran' = ran
<1> USE DEF IInv, TypeOK, CallsConsistent, CallInv
<1>1. ran' = ran
  BY DEF Arrive, Call, Worker, Send, ConnectFails, Skip, TimerExpires, Accept,
         Discard, Finish, Notice, ConnectionLost, WorkerDies, Handle
<1>2. ASSUME NEW q \in Req
      PROVE  Outcome(q)' = Outcome(q)
  <2>1. CASE \/ Arrive(r) \/ Call(r)
             \/ Handle(r) /\ Resolution[target[r]] = "forward"
    <3>1. /\ phase'[q] = phase[q] \/ {phase[q], phase'[q]} \subseteq
                                     {"idle", "reading", "waiting", "calling"}
          /\ response'[q] = response[q]
          /\ upstream'[q] = upstream[q] \/ phase[q] \in {"waiting"}
      BY <2>1 DEF Arrive, Call, Handle
    <3>2. QED
      BY <3>1 DEF Outcome
  <2>2. CASE Worker(r) \/ TimerExpires(r)
    BY <2>2 DEF Worker, Send, ConnectFails, Skip, TimerExpires, Returns, Outcome
  <2>3. CASE Accept(r) \/ Discard(r) \/ Finish(r) \/ Notice(r)
    BY <2>3 DEF Accept, Discard, Finish, Notice, Returns, Outcome
  <2>4. CASE ConnectionLost
    BY <2>4 DEF ConnectionLost, Lose, Outcome
  <2>5. CASE WorkerDies
    BY <2>5 DEF WorkerDies, Lose, Buffered, Outcome
  <2>6. QED
    BY <2>1, <2>2, <2>3, <2>4, <2>5
<1>3. QED
  BY <1>1, <1>2 DEF outcomes

(* The steps that answer without a call reject the request. *)
LEMMA RejectStep ==
  ASSUME IInv, NEW r \in Req,
         \/ BodyFails(r) \/ NotReady(r)
         \/ Handle(r) /\ Resolution[target[r]] # "forward"
  PROVE  Abstract!Reject(r)
<1> USE DEF IInv, TypeOK, CallsConsistent, CallInv
<1>1. /\ phase[r] \in {"reading", "waiting"} /\ upstream[r] = "none"
      /\ phase' = [phase EXCEPT ![r] = "responded"]
      /\ \E resp : response' = [response EXCEPT ![r] = resp]
      /\ upstream' = upstream /\ ran' = ran
  BY DEF BodyFails, NotReady, Handle, Respond
<1>2. outcomes' = [outcomes EXCEPT ![r] = "rejected"]
  BY <1>1 DEF outcomes, Outcome
<1>3. outcomes[r] = "pending" /\ ran[r] = 0
  BY <1>1 DEF outcomes, Outcome
<1>4. QED
  BY <1>1, <1>2, <1>3 DEF Abstract!Reject, Abstract!Settle, outcomes

(* A call's return succeeds only after the effect. *)
LEMMA ResumeStep ==
  ASSUME IInv, NEW r \in Req, Resume(r)
  PROVE  Abstract!Succeed(r) \/ Abstract!Fail(r)
<1> USE DEF IInv, TypeOK, CallsConsistent, CallInv
<1> DEFINE resp == render_reply(reply[r])
<1>1. /\ phase[r] = "calling" /\ upstream[r] # "none" /\ reply[r] # None
      /\ phase' = [phase EXCEPT ![r] = "responded"]
      /\ response' = [response EXCEPT ![r] = resp]
      /\ upstream' = upstream /\ ran' = ran
  BY DEF Resume, Respond
<1>2. reply[r] \in CallResult
  BY <1>1
<1>3. resp.http = 200 => ran[r] = 1
  BY <1>1, <1>2, CallResultStatus, RenderType
<1>4. outcomes[r] = "pending"
  BY <1>1 DEF outcomes, Outcome
<1>5. outcomes' = [outcomes EXCEPT ![r] = IF resp.http = 200 THEN "succeeded"
                                                             ELSE "failed"]
  <2> HIDE DEF resp
  <2> QED
    BY <1>1 DEF outcomes, Outcome
<1>6. QED
  BY <1>1, <1>3, <1>4, <1>5
     DEF Abstract!Succeed, Abstract!Fail, Abstract!Settle, outcomes

(* Clients that go away abandon what they were waiting for. *)
LEMMA DropStep ==
  ASSUME IInv, NEW S \in SUBSET {r \in Req : phase[r] \in Active}, Drop(S)
  PROVE  Abstract!Abandon(S)
<1> USE DEF IInv, TypeOK, CallsConsistent, CallInv
<1>1. \A q \in S : outcomes[q] = "pending"
  BY DEF outcomes, Outcome, Active
<1>2. ran' = ran
  BY DEF Drop
<1>3. ASSUME NEW q \in Req
      PROVE  Outcome(q)' = IF q \in S THEN "abandoned" ELSE Outcome(q)
  <2>1. /\ phase'[q] = IF q \in S THEN "dropped" ELSE phase[q]
        /\ response'[q] = response[q]
        /\ upstream'[q] = "none" <=> upstream[q] = "none"
    BY DEF Drop
  <2>2. QED
    BY <2>1 DEF Outcome
<1>4. QED
  BY <1>1, <1>2, <1>3 DEF Abstract!Abandon, outcomes

(* So does the end of the process, for all clients at once. *)
LEMMA ExitStep ==
  ASSUME IInv, Exit
  PROVE  Abstract!Abandon({r \in Req : phase[r] \in Active})
<1> USE DEF IInv, TypeOK, CallsConsistent, CallInv
<1> DEFINE S == {r \in Req : phase[r] \in Active}
<1>1. \A q \in S : outcomes[q] = "pending"
  BY DEF outcomes, Outcome, Active
<1>2. ran' = ran
  BY DEF Exit
<1>3. ASSUME NEW q \in Req
      PROVE  Outcome(q)' = IF q \in S THEN "abandoned" ELSE Outcome(q)
  <2>1. /\ phase'[q] = IF q \in S THEN "dropped" ELSE phase[q]
        /\ response'[q] = response[q]
        /\ upstream'[q] = "none" <=> upstream[q] = "none"
    BY DEF Exit
  <2>2. QED
    BY <2>1 DEF Outcome
<1>4. QED
  BY <1>1, <1>2, <1>3 DEF Abstract!Abandon, outcomes

(* The process and its connections come and go without an outcome. *)
LEMMA ProcessStep ==
  ASSUME Start \/ \E c \in Conn : AcceptConn(c)
  PROVE  outcomes' = outcomes /\ ran' = ran
<1>1. \A q \in Req : Outcome(q)' = Outcome(q)
  BY DEF Start, AcceptConn, Outcome
<1>2. QED
  BY <1>1 DEF Start, AcceptConn, outcomes

(* The backend takes effect for a request that was neither rejected nor    *)
(* already successful.                                                     *)
LEMMA CommitStep ==
  ASSUME IInv, NEW r \in Req, Commit(r)
  PROVE  Abstract!Execute(r)
<1> USE DEF IInv, TypeOK, CallsConsistent, CallInv
<1>1. /\ handler[r] = "running" /\ ran[r] = 0 /\ upstream[r] # "none"
      /\ ran' = [ran EXCEPT ![r] = 1]
      /\ phase' = phase /\ response' = response /\ upstream' = upstream
  <2>1. handler[r] = "running" /\ ran[r] = 0 /\ upstream[r] # "none"
    BY DEF Commit
  <2>2. ran' = [ran EXCEPT ![r] = ran[r] + 1]
    BY DEF Commit
  <2>3. phase' = phase /\ response' = response /\ upstream' = upstream
    BY DEF Commit
  <2>4. QED
    BY <2>1, <2>2, <2>3
<1>2. outcomes' = outcomes
  BY <1>1 DEF outcomes, Outcome
<1>3. outcomes[r] \in {"pending", "failed", "abandoned"}
  BY <1>1 DEF outcomes, Outcome, Phase
<1>4. QED
  BY <1>1, <1>2, <1>3 DEF Abstract!Execute, outcomes

LEMMA AbstractInit == Init => Abstract!Init
BY DEF Init, Abstract!Init, Outcome

LEMMA AbstractStep ==
  ASSUME IInv, [Next]_vars
  PROVE  [Abstract!Next]_(Abstract!vars)
<1>1. CASE outcomes' = outcomes /\ ran' = ran
  BY <1>1 DEF Abstract!vars, outcomes
<1>2. CASE UNCHANGED vars
  <2>1. \A q \in Req : Outcome(q)' = Outcome(q)
    BY <1>2 DEF Outcome
  <2>2. QED
    BY <1>2, <2>1 DEF Abstract!vars, outcomes
<1>3. ASSUME NEW r \in Req, Future(r) \/ Arrive(r) \/ BodyFails(r)
      PROVE  [Abstract!Next]_(Abstract!vars)
  BY <1>1, <1>3, StutterStep, RejectStep, ResumeStep DEF Future, Abstract!Next
<1>4. ASSUME NEW r \in Req, ResetStream(r)
      PROVE  [Abstract!Next]_(Abstract!vars)
  BY <1>4, DropStep DEF ResetStream, Abstract!Next
<1>5. ASSUME NEW r \in Req, Worker(r) \/ TimerExpires(r) \/ Backend(r)
      PROVE  [Abstract!Next]_(Abstract!vars)
  BY <1>1, <1>5, StutterStep, CommitStep DEF Backend, Abstract!Next
<1>6. ASSUME NEW c \in Conn, Disconnect(c)
      PROVE  [Abstract!Next]_(Abstract!vars)
  BY <1>6, DropStep DEF Disconnect, Abstract!Next
<1>7. CASE ConnectionLost \/ WorkerDies
  <2>1. CASE Req = {}
    BY <1>7, <2>1 DEF ConnectionLost, WorkerDies, Abstract!vars
  <2>2. CASE Req # {}
    BY <1>1, <1>7, <2>2, StutterStep
  <2>3. QED
    BY <2>1, <2>2
<1>8. CASE Start \/ \E c \in Conn : AcceptConn(c)
  BY <1>1, <1>8, ProcessStep
<1>9. CASE Exit
  BY <1>9, ExitStep DEF Abstract!Next
<1>10. QED
  BY <1>2, <1>3, <1>4, <1>5, <1>6, <1>7, <1>8, <1>9 DEF Next

(* The gateway implements RequestReply. *)
THEOREM Refinement == Spec => RefinesRequestReply
<1>1. IInv /\ [Next]_vars => [Abstract!Next]_(Abstract!vars)
  BY AbstractStep
<1>2. QED
  BY AbstractInit, <1>1, Consistent, PTL
     DEF Spec, RefinesRequestReply, Abstract!Spec
=============================================================================
