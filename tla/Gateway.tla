------------------------------ MODULE Gateway ------------------------------
(***************************************************************************)
(* The life of HTTP requests through the gateway: `run_serve` (bin),       *)
(* `serve_connection`, `dispatch`, `Gateway::handle`,                      *)
(* `Entry::render_reply` (gateway.rs) and `GrpcClient::unary` (proxy.rs).  *)
(*                                                                         *)
(* Every request is a future of its own.  It suspends at the three awaits  *)
(* of the code - the request body, `grpc.ready()` and the unary call - and *)
(* runs without interruption between them; `phase` says where it is.  The  *)
(* futures share one tonic channel: a bounded buffer, one worker that      *)
(* connects when it must, one HTTP/2 connection.  Channel, connection and  *)
(* backend are not this repository's code: they are modelled from what     *)
(* proxy.rs relies on.                                                     *)
(*                                                                         *)
(* What a target resolves to (routing and building the input message) is a *)
(* constant here; RouteTable and RequestBinding model how it is computed.  *)
(***************************************************************************)
EXTENDS Status, FiniteSets

CONSTANTS
  Req,           \* requests
  Conn,          \* inbound connections
  Http1,         \* those that speak HTTP/1.1: one request at a time
  Target,        \* what a request asks for
  Resolution,    \* [Target -> Verdict]
  Reply,         \* the replies the backend may give
  LostStatus,    \* statuses tonic reports for a call whose connection failed
  TimeoutStatus, \* statuses tonic reports for a call past its grpc-timeout
  BufferSize,    \* calls the channel's buffer holds
  MayDie         \* whether the channel's worker can terminate

(* What is decided before the backend is needed: the first matching route  *)
(* exists, is unary, its input message can be built (`handle`), and its    *)
(* method's name can stand in a URI (`unary`).                             *)
Verdict == {"forward", "no_route", "streaming", "bad_request", "bad_rule", "bad_path"}

ASSUME GatewayAssumptions ==
  /\ Http1 \subseteq Conn
  /\ Resolution \in [Target -> Verdict]
  /\ Reply \subseteq [status : Code, renders : BOOLEAN]
  /\ LostStatus \subseteq Code \ {Ok}
  /\ TimeoutStatus \subseteq Code \ {Ok}
  /\ BufferSize \in Nat \ {0}
  /\ MayDie \in BOOLEAN

None == [none |-> TRUE]          \* no reply, no response yet
Failure(status) == [status |-> status, renders |-> TRUE]

Phase    == {"idle", "reading", "waiting", "calling", "responded", "dropped"}
Upstream == {"none", "buffered", "sent", "settled"}
Handler  == {"none", "running", "committed", "finished", "cancelled"}

(* A client tries to connect until it is accepted.                         *)
ConnState == {"waiting", "open", "closed"}

VARIABLES
  phase,      \* [Req -> Phase], the request's future
  via,        \* [Req -> Conn], the connection it came in on
  target,     \* [Req -> Target]
  deadline,   \* [Req -> BOOLEAN], the client sent a grpc-timeout header
  response,   \* [Req -> Response \cup {None}], what `handle` returned
  serving,    \* the process runs its accept loop
  conn,       \* [Conn -> ConnState], as the client sees it
  channel,    \* "idle" (not connected), "up" or "dead" (worker gone)
  upstream,   \* [Req -> Upstream], the call as the channel sees it
  wire,       \* requests sent on the connection and not yet at the backend
  reply,      \* [Req -> Reply \cup ... \cup {None}], what the call returned
  handler,    \* [Req -> Handler], the backend method
  ran         \* [Req -> Nat], how often it took effect

asked    == <<via, target, deadline>>
inbound  == <<serving, conn>>
front    == <<phase, asked, response, inbound>>
link     == <<channel, upstream, wire, reply>>
backend  == <<handler, ran>>
vars     == <<front, link, backend>>

(* Futures that exist and have not returned. *)
Active == {"reading", "waiting", "calling"}

Init ==
  /\ phase = [r \in Req |-> "idle"]
  /\ via \in [Req -> Conn]
  /\ target \in [Req -> Target]
  /\ deadline \in [Req -> BOOLEAN]
  /\ response = [r \in Req |-> None]
  /\ serving = FALSE
  /\ conn = [c \in Conn |-> "waiting"]
  /\ channel = "dead"
  /\ upstream = [r \in Req |-> "none"]
  /\ wire = {}
  /\ reply = [r \in Req |-> None]
  /\ handler = [r \in Req |-> "none"]
  /\ ran = [r \in Req |-> 0]

(***************************************************************************)
(* The process.  Connections are accepted one after the other and served   *)
(* by tasks of their own.                                                  *)
(***************************************************************************)
(* `run_serve` up to its loop: a fresh, lazy channel, and the listener.    *)
Start ==
  /\ ~serving
  /\ serving' = TRUE
  /\ channel' = "idle"
  /\ UNCHANGED <<phase, asked, response, conn, upstream, wire, reply, backend>>

BugServeInline(c) ==    \* mutant: the loop serves the connection itself
  /\ serving
  /\ \A b \in Conn : conn[b] # "open"
  /\ conn[c] = "waiting"
  /\ conn' = [conn EXCEPT ![c] = "open"]
  /\ UNCHANGED <<phase, asked, response, serving, link, backend>>

AcceptConn(c) ==
  /\ serving
  /\ conn[c] = "waiting"
  /\ conn' = [conn EXCEPT ![c] = "open"]
  /\ UNCHANGED <<phase, asked, response, serving, link, backend>>

(* `accept` fails and `run_serve` returns, or the process is killed: the   *)
(* runtime goes with every connection, future and stream.                  *)
Exit ==
  /\ serving
  /\ serving' = FALSE
  /\ conn' = [c \in Conn |-> IF conn[c] = "open" THEN "closed" ELSE conn[c]]
  /\ phase' = [r \in Req |-> IF phase[r] \in Active THEN "dropped" ELSE phase[r]]
  /\ channel' = "dead"
  /\ upstream' = [r \in Req |->
       IF upstream[r] \in {"buffered", "sent"} THEN "settled" ELSE upstream[r]]
  /\ UNCHANGED <<asked, response, wire, reply, backend>>

(***************************************************************************)
(* The request's future.                                                   *)
(***************************************************************************)
Respond(r, resp) ==
  /\ phase' = [phase EXCEPT ![r] = "responded"]
  /\ response' = [response EXCEPT ![r] = resp]
  /\ UNCHANGED <<asked, inbound>>

(* hyper parses a request head and calls the service: `dispatch` starts    *)
(* collecting the body.  HTTP/1.1 serves a connection one at a time.       *)
Arrive(r) ==
  /\ phase[r] = "idle"
  /\ conn[via[r]] = "open"
  /\ via[r] \in Http1 =>
       \A q \in Req : via[q] = via[r] => phase[q] \notin Active
  /\ phase' = [phase EXCEPT ![r] = "reading"]
  /\ UNCHANGED <<asked, response, inbound, link, backend>>

BodyFails(r) ==
  /\ phase[r] = "reading"
  /\ Respond(r, error_response(Internal))
  /\ UNCHANGED <<link, backend>>

(* The code of the envelope `handle` returns without calling the backend;  *)
(* the last is `ProxyError::InvalidPath`.                                  *)
RejectionCode(verdict) ==
  CASE verdict = "no_route"    -> NotFound
    [] verdict = "streaming"   -> Unimplemented
    [] verdict = "bad_request" -> InvalidArgument
    [] verdict = "bad_rule"    -> Internal
    [] verdict = "bad_path"    -> Unavailable

(* The body is complete; `handle` runs up to `grpc.ready().await`. *)
Handle(r) ==
  /\ phase[r] = "reading"
  /\ LET verdict == Resolution[target[r]] IN
       IF verdict = "forward"
       THEN /\ phase' = [phase EXCEPT ![r] = "waiting"]
            /\ UNCHANGED <<asked, response, inbound>>
       ELSE Respond(r, error_response(RejectionCode(verdict)))
  /\ UNCHANGED <<link, backend>>

(* `ready` resolves once the buffer has room, and the call is buffered     *)
(* before the next await.                                                  *)
Buffered == {r \in Req : upstream[r] = "buffered"}

(* Mutant of Call: a request takes its slot before its body is read.       *)
BugHoldsSlot(r) ==
  /\ phase[r] = "waiting"
  /\ channel # "dead"
  /\ Cardinality(Buffered \cup {q \in Req : phase[q] = "reading"}) < BufferSize
  /\ phase' = [phase EXCEPT ![r] = "calling"]
  /\ upstream' = [upstream EXCEPT ![r] = "buffered"]
  /\ UNCHANGED <<asked, response, inbound, channel, wire, reply, backend>>

Call(r) ==
  /\ phase[r] = "waiting"
  /\ channel # "dead"
  /\ Cardinality(Buffered) < BufferSize
  /\ phase' = [phase EXCEPT ![r] = "calling"]
  /\ upstream' = [upstream EXCEPT ![r] = "buffered"]
  /\ UNCHANGED <<asked, response, inbound, channel, wire, reply, backend>>

(* Mutant of NotReady: poll `ready` again instead of giving up. *)
BugPollAgain(r) == phase[r] = "waiting" /\ channel = "dead" /\ UNCHANGED vars

(* `ProxyError::NotReady`. *)
NotReady(r) ==
  /\ phase[r] = "waiting"
  /\ channel = "dead"
  /\ Respond(r, error_response(Unavailable))
  /\ UNCHANGED <<link, backend>>

(* Mutants of render_reply: the gRPC status number as HTTP status, and a   *)
(* reply rendered without looking at its status.                           *)
BugRawStatus(rep) == [http |-> rep.status, code |-> from_i32(rep.status)]
BugIgnoreStatus(rep) ==
  IF rep.renders THEN [http |-> 200, code |-> Ok] ELSE error_response(Internal)

(* `render_reply`: an error status becomes its envelope; a payload that    *)
(* does not decode as the output message, or a `response_body` that cannot *)
(* be rendered, is Internal.                                               *)
render_reply(rep) ==
  LET status == from_i32(rep.status) IN
  IF status # Ok THEN error_response(status)
  ELSE IF rep.renders THEN [http |-> 200, code |-> Ok]
  ELSE error_response(Internal)

(* Mutants of Resume: a call that failed in transport is made again, and a *)
(* detached task answers also when the future is gone.                     *)
BugRetry(r) ==
  /\ phase[r] = "calling"
  /\ reply[r] # None
  /\ IF reply[r].status = Unavailable
     THEN /\ upstream' = [upstream EXCEPT ![r] = "buffered"]
          /\ reply' = [reply EXCEPT ![r] = None]
          /\ UNCHANGED <<front, channel, wire, backend>>
     ELSE /\ Respond(r, render_reply(reply[r]))
          /\ UNCHANGED <<link, backend>>
BugDetachedAnswer(r) ==
  /\ phase[r] # "responded"
  /\ reply[r] # None
  /\ Respond(r, render_reply(reply[r]))
  /\ UNCHANGED <<link, backend>>

(* The call returned: `unary` lowers the outcome and `handle` renders it.  *)
Resume(r) ==
  /\ phase[r] = "calling"
  /\ reply[r] # None
  /\ Respond(r, render_reply(reply[r]))
  /\ UNCHANGED <<link, backend>>

(***************************************************************************)
(* Clients that go away.  hyper drops the futures, and with them the       *)
(* upstream streams: one already sent is reset, one still in the buffer    *)
(* waits for the worker to discard it.                                     *)
(***************************************************************************)
BugDetachedCall(S) ==    \* mutant: the backend call runs in a task of its own
  /\ phase' = [r \in Req |-> IF r \in S THEN "dropped" ELSE phase[r]]
  /\ UNCHANGED <<asked, response, link, backend>>

Drop(S) ==
  /\ phase' = [r \in Req |-> IF r \in S THEN "dropped" ELSE phase[r]]
  /\ upstream' = [r \in Req |->
       IF r \in S /\ upstream[r] = "sent" THEN "settled" ELSE upstream[r]]
  /\ UNCHANGED <<asked, response, channel, wire, reply, backend>>

Disconnect(c) ==
  /\ conn[c] = "open"
  /\ conn' = [conn EXCEPT ![c] = "closed"]
  /\ UNCHANGED serving
  /\ Drop({r \in Req : via[r] = c /\ phase[r] \in Active})

(* An HTTP/2 client resets one stream of a connection. *)
ResetStream(r) ==
  /\ phase[r] \in Active
  /\ via[r] \notin Http1
  /\ UNCHANGED inbound
  /\ Drop({r})

(***************************************************************************)
(* The tonic channel (external): its worker takes buffered calls, connects *)
(* lazily, and sends each as a stream of one HTTP/2 connection.            *)
(***************************************************************************)
Returns(r, rep) ==
  /\ upstream' = [upstream EXCEPT ![r] = "settled"]
  /\ reply' = [reply EXCEPT ![r] = rep]

Send(r) ==
  /\ upstream[r] = "buffered" /\ phase[r] = "calling"
  /\ channel # "dead"
  /\ channel' = "up"
  /\ upstream' = [upstream EXCEPT ![r] = "sent"]
  /\ wire' = wire \cup {r}
  /\ UNCHANGED <<front, reply, backend>>

ConnectFails(r) ==
  /\ upstream[r] = "buffered" /\ phase[r] = "calling"
  /\ channel = "idle"
  /\ \E s \in LostStatus : Returns(r, Failure(s))
  /\ UNCHANGED <<front, channel, wire, backend>>

(* The caller has gone: its call leaves the buffer unsent. *)
Skip(r) ==
  /\ upstream[r] = "buffered" /\ phase[r] = "dropped"
  /\ channel # "dead"
  /\ upstream' = [upstream EXCEPT ![r] = "settled"]
  /\ UNCHANGED <<front, channel, wire, reply, backend>>

(* Every call in `lost` returns at once with the same transport error. *)
Lose(lost) ==
  /\ upstream' = [r \in Req |-> IF r \in lost THEN "settled" ELSE upstream[r]]
  /\ \E s \in LostStatus :
       reply' = [r \in Req |-> IF r \in lost THEN Failure(s) ELSE reply[r]]

ConnectionLost ==
  /\ channel # "idle"
  /\ channel' = IF channel = "up" THEN "idle" ELSE channel
  /\ wire' = {}
  /\ Lose({r \in Req : upstream[r] = "sent"})
  /\ UNCHANGED <<front, backend>>

WorkerDies ==
  /\ MayDie
  /\ channel # "dead"
  /\ channel' = "dead"
  /\ Lose(Buffered)
  /\ UNCHANGED <<front, wire, backend>>

(* Mutant of forwarded_deadline: the header is not on the allow-list. *)
BugNotForwarded(r) == FALSE

(* `forwarded_metadata` copies grpc-timeout into the call's metadata, and  *)
(* with it the deadline.                                                   *)
forwarded_deadline(r) == deadline[r]

(* The forwarded grpc-timeout runs out: the stream is reset. *)
TimerExpires(r) ==
  /\ upstream[r] = "sent"
  /\ forwarded_deadline(r)
  /\ \E s \in TimeoutStatus : Returns(r, Failure(s))
  /\ UNCHANGED <<front, channel, wire, backend>>

(***************************************************************************)
(* The backend (external).  A handler may be cancelled once it has heard   *)
(* that its stream is gone, whether or not it has taken effect.            *)
(***************************************************************************)
Accept(r) ==
  /\ r \in wire
  /\ wire' = wire \ {r}
  /\ handler' = [handler EXCEPT ![r] = "running"]
  /\ UNCHANGED <<front, channel, upstream, reply, ran>>

Discard(r) ==
  /\ r \in wire /\ upstream[r] = "settled"
  /\ wire' = wire \ {r}
  /\ UNCHANGED <<front, channel, upstream, reply, backend>>

Commit(r) ==
  /\ handler[r] = "running"
  /\ handler' = [handler EXCEPT ![r] = "committed"]
  /\ ran' = [ran EXCEPT ![r] = @ + 1]
  /\ UNCHANGED <<front, link>>

Finish(r) ==
  /\ handler[r] \in {"running", "committed"}
  /\ handler' = [handler EXCEPT ![r] = "finished"]
  /\ \E rep \in Reply :
       /\ rep.status = Ok => handler[r] = "committed"
       /\ IF upstream[r] = "sent" THEN Returns(r, rep)
                                  ELSE UNCHANGED <<upstream, reply>>
  /\ UNCHANGED <<front, channel, wire, ran>>

Notice(r) ==
  /\ handler[r] \in {"running", "committed"}
  /\ upstream[r] = "settled"
  /\ handler' = [handler EXCEPT ![r] = "cancelled"]
  /\ UNCHANGED <<front, link, ran>>

Future(r)  == Handle(r) \/ Call(r) \/ NotReady(r) \/ Resume(r)
Worker(r)  == Send(r) \/ ConnectFails(r) \/ Skip(r)
Backend(r) == Accept(r) \/ Discard(r) \/ Commit(r) \/ Finish(r) \/ Notice(r)

Next ==
  \/ \E r \in Req : \/ Arrive(r) \/ BodyFails(r) \/ Future(r) \/ ResetStream(r)
                    \/ Worker(r) \/ TimerExpires(r) \/ Backend(r)
  \/ \E c \in Conn : AcceptConn(c) \/ Disconnect(c)
  \/ ConnectionLost
  \/ WorkerDies
  \/ Start
  \/ Exit

Spec == Init /\ [][Next]_vars

(***************************************************************************)
(* Fairness.  The runtime polls every future that was woken, hyper and the *)
(* channel's worker run on the same runtime, timers fire, and the pipe to  *)
(* the backend delivers.  Nothing makes a client finish its body, and      *)
(* nothing makes a backend method return: these are ClientSends and        *)
(* BackendReturns, which only the properties that need them assume.  The   *)
(* accept loop as a whole goes on; no connection is promised a turn.       *)
(***************************************************************************)
RuntimeFair ==
  \A r \in Req :
    /\ WF_vars(Call(r) \/ NotReady(r) \/ Resume(r))
    /\ WF_vars(Worker(r))
    /\ WF_vars(TimerExpires(r))
    /\ WF_vars(Accept(r) \/ Discard(r))
    /\ WF_vars(Notice(r))

AcceptFair == WF_vars(\E c \in Conn : AcceptConn(c))

FairSpec == Spec /\ RuntimeFair /\ AcceptFair

(* Of one client: once it can send its request it does, and it finishes    *)
(* the body or breaks it off.                                              *)
ClientSends(r) == WF_vars(Arrive(r)) /\ WF_vars(Handle(r) \/ BodyFails(r))

BackendReturns == \A r \in Req : WF_vars(Commit(r)) /\ WF_vars(Finish(r))

(***************************************************************************)
(* Correctness.                                                            *)
(***************************************************************************)
CallResult == Reply \cup {Failure(s) : s \in LostStatus \cup TimeoutStatus}

(* Every variable has its type. *)
TypeOK ==
  /\ phase \in [Req -> Phase]
  /\ via \in [Req -> Conn]
  /\ target \in [Req -> Target]
  /\ deadline \in [Req -> BOOLEAN]
  /\ response \in [Req -> Response \cup {None}]
  /\ serving \in BOOLEAN
  /\ conn \in [Conn -> ConnState]
  /\ channel \in {"idle", "up", "dead"}
  /\ upstream \in [Req -> Upstream]
  /\ wire \subseteq Req
  /\ reply \in [Req -> CallResult \cup {None}]
  /\ handler \in [Req -> Handler]
  /\ ran \in [Req -> Nat]

(* The backend method takes effect at most once for a request, whatever    *)
(* the channel, the connection, the timer and the client do: `unary` sends *)
(* a request once and never again.                                         *)
AtMostOnce == \A r \in Req : ran[r] <= 1

(* An answer tells the truth about the effect: a 200 is given only when    *)
(* the method took effect and reported success, and an answer given        *)
(* without a call (404, 501, a bad request, an unreadable body, a channel  *)
(* that is not ready) is for a request the backend never sees.             *)
TruthfulAnswer ==
  \A r \in Req : phase[r] = "responded" =>
    /\ response[r].http = 200 => ran[r] = 1 /\ reply[r].status = Ok
    /\ upstream[r] = "none" => ran[r] = 0 /\ r \notin wire

(* The inductive invariant behind both: how a request's future, its stream *)
(* and its handler constrain each other.                                   *)
CallInv(r) ==
  /\ phase[r] \in {"idle", "reading", "waiting"} => upstream[r] = "none"
  /\ phase[r] = "calling" => upstream[r] # "none"
  /\ upstream[r] \in {"none", "buffered"} =>
       r \notin wire /\ handler[r] = "none" /\ reply[r] = None
  /\ reply[r] # None => upstream[r] = "settled"
  /\ reply[r] # None /\ reply[r].status = Ok => ran[r] = 1
  /\ r \in wire => handler[r] = "none"
  /\ handler[r] \in {"none", "running"} => ran[r] = 0
  /\ handler[r] = "committed" => ran[r] = 1
  /\ ran[r] \in 0..1
  /\ phase[r] = "responded" /\ response[r].http = 200 =>
       reply[r] # None /\ reply[r].status = Ok

CallsConsistent == \A r \in Req : CallInv(r)

(* `handle` answers each request once: an answer is never replaced, and a  *)
(* dropped request gets none.                                              *)
AnsweredOnce ==
  [][\A r \in Req :
       phase[r] \in {"responded", "dropped"} =>
         phase'[r] = phase[r] /\ response'[r] = response[r]]_vars

(* Whatever the interleaving, clients and backend see what RequestReply    *)
(* promises them.                                                          *)
Outcome(r) ==
  IF phase[r] = "dropped" THEN "abandoned"
  ELSE IF phase[r] # "responded" THEN "pending"
  ELSE IF upstream[r] = "none" THEN "rejected"
  ELSE IF response[r].http = 200 THEN "succeeded"
  ELSE "failed"

Abstract == INSTANCE RequestReply
              WITH outcome <- [r \in Req |-> Outcome(r)], effects <- ran

RefinesRequestReply == Abstract!Spec

(* A call with a grpc-timeout is answered or dropped even if its backend   *)
(* method never returns: the forwarded header bounds it.                   *)
DeadlineBoundsCall ==
  \A r \in Req :
    (phase[r] = "waiting" /\ deadline[r]) ~> phase[r] \in {"responded", "dropped"}

(* A client that goes away takes its backend call with it, also when the   *)
(* call was still in the buffer or on its way: from some point on no       *)
(* handler works for it.                                                   *)
NoOrphanedCall ==
  \A r \in Req :
    phase[r] = "dropped" ~> [](handler[r] \notin {"running", "committed"})

(* If backend methods return, every request that reached the channel is    *)
(* answered or dropped, also with the buffer full and the worker gone.     *)
EveryCallSettles ==
  BackendReturns =>
    \A r \in Req : phase[r] = "waiting" ~> phase[r] \in {"responded", "dropped"}

(* If backend methods return, a request whose client stays and sends it    *)
(* whole is answered while the process runs, from before its connection is *)
(* accepted on and whatever other clients do: hold idle connections, never *)
(* finish a body, go away.  Only those that share its HTTP/1.1 connection  *)
(* must send theirs too, for they come before it.                          *)
PatientClientIsAnswered ==
  BackendReturns =>
    \A r \in Req :
      (\A q \in Req : q = r \/ (via[q] = via[r] /\ via[r] \in Http1) => ClientSends(q)) =>
        ((serving /\ conn[via[r]] # "closed" /\ phase[r] = "idle")
           ~> (phase[r] \in {"responded", "dropped"} \/ conn[via[r]] = "closed" \/ ~serving))
=============================================================================
