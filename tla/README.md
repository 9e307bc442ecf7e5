# grpc-gw, specified

TLA+ specifications of `grpc-gw`, the JSON/HTTP to gRPC gateway in `crates/`,
with TLC configurations that check them on small instances and TLAPS proofs of
their main invariants for all instances. `PROJECT.json` lists every run,
mutant, theorem, hazard and finding, and maps definitions to source lines.

Run from this directory:

    tlc -config Gateway.cfg MCGateway.tla
    tlapm Gateway_proofs.tla

## 1. Inventory

`src/crates/grpc-gw` is the gateway library and its command line tool,
`grpc-gw-util` an in-memory transport for hosting gateway and backend in one
process, `grpc-gw-tests` integration tests. The library keeps little state: a
`Gateway` is immutable once built. What is hard is the number of parties a
request meets, and the number of rules that decide what it means.

| Component (source) | State | Operations | Talks to |
| --- | --- | --- | --- |
| Gateway (`gateway.rs`, `proxy.rs`) | per request, the future of `dispatch`; shared, the tonic `Channel` | `serve_connection`, tower `call`, `handle`, `unary`, `render_reply` | hyper (calls it, drops it), channel, backend |
| Status (`status.rs`) | none | `from_i32`, `http_status`, envelope | everyone who answers |
| Path templates (`template.rs`) | compiled templates, immutable | `parse`, `matches`, `split_request_path` | route table, `handle` |
| Route table (`routes.rs`) | the resolved bindings | `from_methods`, `conflicts`, `build`, route lookup | descriptors, templates, `check` |
| Request building (`gateway.rs`, `transcode.rs`) | the message under construction | body decoding, path variables, query parameters | prost-reflect |
| In-process transport (`grpc-gw-util`) | a queue of server halves, connector clones | `Connector::call`, `Incoming::accept`, `in_process_channel` | tonic client and server |
| Command line (`bin/grpc-gw.rs`) | the listener and the tasks of `serve` | `serve`, `routes`, `check` | all of the above |
| Descriptor decoding (`descriptor.rs`) | none | `extract_http_rules` | route table |
| JSON codec (`transcode.rs`), `BytesCodec` (`proxy.rs`) | none | conversions | prost-reflect, tonic |

What makes each correct, and where it can go wrong:

- **Gateway.** A request is answered at most once, and the answer does not lie
  about the effect at the backend. Calls of many clients share a bounded
  buffer, a worker and one connection, any of which may fail at any moment; a
  client may leave at any of three awaits; a deadline races the reply.
- **Path templates, route table.** The first matching binding in declaration
  order answers. Operators rely on `check` and `strict_routes` to tell them
  about bindings that hide others, so the static overlap test must agree
  exactly with the dynamic matcher, `**` and verbs included.
- **Request building.** Body, path variables and query write the same message
  in three passes. "Already set" is read off the message, setting one member
  of a oneof erases another, and a binding that fails halfway leaves traces.
- **In-process transport.** Dials are futures that outlive the connector they
  came from, and the stream may be dropped with connections queued. Front and
  backend of one process are shut down one after the other, and in the wrong
  order the backend's drain waits for the gateway's idle connection for ever.
- **`serve`.** Connections are accepted in a loop and served by tasks; a failed
  `accept` ends the process with calls in every state.
- **Text.** Targets and templates are split at delimiters in several functions
  and decoded afterwards; integers, enum values and floats pass through texts
  and three shapes of JSON.

## 2. Modules

| Module | Models | Composes |
| --- | --- | --- |
| `Status` | codes, HTTP statuses, error envelope | |
| `RequestReply` | abstract: what client and backend may rely on | |
| `Gateway` | `run_serve`, request futures, channel, connection, backend | `Status`; implements `RequestReply` |
| `PathTemplate` | templates, matching, captures, overlap in closed form | |
| `TemplateWalk` | the recursive functions as the code has them | `PathTemplate` |
| `Texts` | texts as sequences of characters, Rust's `str` methods | |
| `TemplateParser` | the recursive-descent parser | `PathTemplate`, `Texts` |
| `RequestTarget` | splitting and decoding of targets and queries | `Texts` |
| `ScalarText` | texts to scalars, scalars to JSON | |
| `RouteTable` | lowering, conflicts, `check`, `build`, lookup | `PathTemplate` |
| `RequestBinding` | `build_request` and field binding | |
| `InProcess` | `Connector` and `Incoming` | |
| `CoHosting` | front, `in_process_channel`, backend, shutdown | `InProcess`, which it implements |
| `Contracts` | what the pure functions promise, one input a state | `TemplateWalk`, `TemplateParser`, `RequestTarget`, `ScalarText` |
| `MC*` | the instances TLC checks (`MCFunctions`: inputs of `Contracts`) | |
| `*_proofs` | theorems and their proofs | the module they are named for; `Texts_proofs` under `PathTemplate_proofs` under `RouteTable_proofs` and `Contracts_proofs` |

### Gateway

Each request is a future that suspends at three awaits, and `phase` is the one
it is at: `reading` (the body, `dispatch`), `waiting` (`grpc.ready()`, `unary`)
and `calling` (the unary call). What lies between two awaits is one action:
`Handle` runs from the complete body through routing and message building to
`ready`; `Call` from a free slot to the buffered call; `Resume` renders the
reply. A rejection (404, 501, 400, 500) is the other branch of `Handle`, and so
is the 503 of `unary` for a method whose path is no URI.
`Disconnect` and `ResetStream` are hyper dropping the futures of a connection
or stream: the code has no handler of its own for this, its correctness lies in
*not* detaching the call from the future, which the mutant `BugDetachedCall`
undoes. Which route a target has and whether its message can be built is the
constant `Resolution`; `RouteTable` and `RequestBinding` model how these are
decided.

`Start` is `run_serve` up to its loop, `AcceptConn` one turn of the loop with
the task it spawns, `Exit` its return after a failed `accept` (or the death of
the process): every future, connection and stream goes at once, handlers at the
backend do not. A process may be started again; it has a fresh channel and
knows nothing of the requests before. A client that was never accepted keeps
trying, one that was cut off does not come back (the model's requests are not
repeated by anyone).

Channel, worker, connection and backend are external and modelled from what
`proxy.rs` relies on: `ready` waits for a slot; the worker connects lazily and
reconnects; a lost connection fails every sent call at once while their
handlers may still run; the forwarded `grpc-timeout` resets the stream. A
handler may commit its effect before or after its stream is gone.

`RequestReply` abstracts from all of it: a request is pending, succeeded,
failed, rejected or abandoned, and its effect happens at most once. Success
implies the effect; rejection excludes it for ever; any other failure promises
nothing, and the effect may even follow the answer. That last weakness is the
honest contract of a proxy without idempotency keys.

### PathTemplate and TemplateWalk

The code matches and compares templates by recursion over segment lists.
`TemplateWalk` has these functions one by one, a call on what is left of a list
being a value of a recursive function at the position where it goes on;
`PathTemplate` states the same position by position over flattened slots.
`WalkByCalls` and `OverlapByCalls` prove that they agree for templates and paths
of any length; the run `functions` checks it on every template of two segments
(sub-patterns of two slots) and every path of four segments, and every pair with
a second template of three slots. So what `RouteTable` is proved to do with the
closed forms, the code does with its recursion.

### TemplateParser, RequestTarget, ScalarText

A text is a sequence of characters, where a character is a delimiter or a name.
`TemplateParser` has the parser's functions one by one: each takes what is left
of the text and returns what it made of it with the rest, and `Then` is Rust's
`?`. `Segments` is the loop of `parse_segments`, which the code runs outside
variables and in them. The declarative side is in the same module: the `Spellings` of a template
and what a `WellFormedTemplate` is, the shape that `PathTemplate` assumes.

`RequestTarget` keeps escapes (`%XX`) apart from characters that stand for
themselves, so that a delimiter can be told from an escaped one; the client,
which is external, escapes exactly what would delimit. `ScalarText` has
integers of a few bits: only the ends of a range and what lies beyond matter.

### RouteTable

A descriptor set, `unbound_methods` and `strict_routes` are chosen initially;
`Check`, `Build` and `Handle` may then happen in any sensible order. A binding
is named by its position `<<method, pattern>>`, so declaration order is
lexicographic and "first" is a least position. `Compiled` gives what the parser
makes of each path (or that it fails). `check` and `build` parse templates in
loops of their own and are modelled apart.

### RequestBinding

A message is a function from its present field paths to values. `Lineage`,
`Presence` and `OneofOf` describe the schema; `has_field`, `get_field_mut` and
`set_field` are prost-reflect's, whose treatment of defaults and oneofs is
where the surprises are. Each path variable and each query parameter is one
step, with the failure of each kind of `BindError`.

### InProcess

`Connector::call` makes a future with a cloned sender (`Call`) and the pipe is
made when that is polled (`Poll`). `Senders` counts connectors and pending
futures, which is what keeps `Incoming` open.

### CoHosting

The composition the co-hosting tests show: a front server whose gateway reaches
the backend through the channel of `in_process_channel`. The channel is lazy,
has one connection at a time and dials again when it is lost. Everything it and
the servers do with the transport is a step of `InProcess`, taken as an action
of the instance `Transport`. `Stop` tells the next server of `Order` to drain,
once the drain of the one before was awaited (`ServerHandle::shutdown`); when
the front is done its gateway is dropped, and with it the channel's last handle
(`WorkerEnds`, `HangUp`). The servers are tonic's. Assumed of a draining one is
only that it takes no new connection, waits for those it has, and drops its
stream sooner or later; it may but need not close an idle connection, which is
what `co-hosting-with-tonic.md:135-137` warns of.

## 3. What the runs check

| Run | Instance | Shows |
| --- | --- | --- |
| `gateway` | 2 requests, an HTTP/1.1 and an HTTP/2 connection, a buffer of 1, three kinds of reply | `AtMostOnce`, `TruthfulAnswer`, `AnsweredOnce`, `RefinesRequestReply` |
| `gateway_live` | 2 forwarded requests on an HTTP/1.1 and an HTTP/2 connection, a buffer of 1 | `DeadlineBoundsCall`, `NoOrphanedCall`, `EveryCallSettles`, `PatientClientIsAnswered` |
| `functions` | templates of 2 segments and sub-patterns of 2 slots, paths of 4 segments; template texts of 6 pieces out of 9; targets of 2 segments of 2 characters, of one parameter of 2 or of two parameters of one character; integers of 3 and 4 bits | `WalkFits`, `OverlapAgrees`, `OverlapIsExact`, `ParseIsSound`, `ParseIsComplete`, `TargetArrives`, `ScalarsReturn` |
| `routes` | 2 methods, every pair of rules of up to 2 patterns over 5 templates, unparsable ones included | `CheckPredictsBuild`, `NoSilentShadowing`, `StrictIsUnambiguous`, `UnreportedIsReachable`, `ReportsAreReal` |
| `binding` | 6 fields (scalar, list, bytes, nested message in a oneof), 2 captures, 2 parameters, every selector | `MessageWellFormed`, `VisiblePathWins`, `BodyOwnsTheRest`, `RejectsTheFaulty`, `QueryOnlyFills` |
| `inproc` | 3 dials, 2 connector clones | `EndIsFinal`, `NoStrandedPeer`, `AcceptedInOrder`, `EveryDialSettles`, `StreamEnds` |
| `cohosting` | 3 requests, 3 connections one after the other | `RefinesInProcess`, `ShutdownFailsNobody`, `EveryRequestSettles`, `ShutdownCompletes` |

The runs `gateway`, `routes`, `binding`, `inproc` and `cohosting` also check
their module's `TypeOK`.

`gateway_live` starts from one of each two initial states that differ in the
names of the requests only (`MCInit`); nothing tells the names apart, and TLC
does not reduce by symmetry under liveness.

**Why the bounds are enough.** Two requests are the fewest that contend for a
slot, fail together with a connection, or follow each other on HTTP/1.1; a
buffer of one is full with one of them. The overlap of two templates depends on
the relation of their fixed lengths and on whether each ends in `**`; lengths
up to four realize every relation. Shadowing concerns two bindings and the
masking of a report a third: two methods with two patterns give four. Two
bindings of each source realize every pair of (earlier, later) over each field
kind. Six pieces write a variable with a sub-pattern and something before or
after it, which is where each of the parser's checks decides; a delimiter, an
escape and a character beside it need two characters. Three connections are one
that breaks, one that breaks after it, and the last (`Break` is bounded to leave
one to dial). Where a theorem exists (section 5) the bound no longer matters.

Runs disable the deadlock check where the modelled thing really ends: when all
requests are answered, a message is built, a gateway failed to build, or every
dial is done and the server gone.

**Fairness.** `Gateway!FairSpec` lets the runtime poll woken futures, the
channel's worker, timers and delivery to the backend. It assumes nothing of
clients (a body may never end) and nothing of backend methods, except where a
property states the premise: `BackendReturns` in `EveryCallSettles` and
`PatientClientIsAnswered`, and in the latter `ClientSends` of the client in
question and of those on its HTTP/1.1 connection. All of it is weak fairness:
tokio's buffer semaphore is first come first served, and with finitely many
calls a waiting one is enabled for good once the slot is free. `AcceptFair` says
of the accept loop only that it goes on while some client waits, for it does
nothing but accept and spawn; that a particular client gets its turn follows
with finitely many connections (the listener's backlog is first come first
served). `PatientClientIsAnswered` is what a client sees of all this: from
before its connection is accepted to the answer, neither idle connections nor
bodies that never end stand in its way, since connections are served by tasks
of their own and a request takes a slot of the buffer only when its body is
complete. `CoHosting!FairSpec`
lets the runtime poll channel, servers and main, and backend methods return;
nothing makes a client leave, main begin to stop, a connection break or a
draining server close an idle connection, so `ShutdownCompletes` has the
client's leaving and the first `Stop` as its premise. `InProcess!FairSpec` lets
the server poll its stream and the runtime the dial futures; nobody is obliged
to dial, drop or close.

## 4. Where code and documentation disagree

Five runs expect a violation. Each checks a sentence of the repository.

- `route_duplicates`: "Exact duplicates always fail the build"
  (`gateway.rs:190`). `conflicts` reports a binding against the first it
  collides with and stops, so a duplicate behind a wider earlier template is
  reported as shadowed only, and a non-strict build succeeds.
- `route_kinds`: "Uppercase HTTP method → endpoints" (`gateway.rs:101`). A
  custom pattern's kind is stored as written; `handle` looks up upper case.
- `binding_path_wins`: "path variables > body > query" (`gateway.rs:325`). A
  path variable bound to the default of a field without presence counts as
  unset and the query overwrites it.
- `binding_unknown`: "unknown fields are ignored" (`gateway.rs:490`). The
  messages above the unknown name have been materialized by then, and oneof
  siblings cleared.
- `scalar_json`: "scalars render as their canonical proto3 JSON value"
  (`gateway.rs:441-442`). With `response_body` on a float field, NaN and the
  infinities become `null`; in a whole message they are strings.

Further observations without a run: a shadowed route is not always
"unreachable" (`routes.rs:77`), partial overlap leaves it part of its paths. A
rule without pattern among others that have one is dropped and not surfaced by
`check` (`routes.rs:302` says it is). Query parameters append to a repeated
field that path or body already filled, against `m2-path-templates.md:238`. The
parser accepts field paths no identifier grammar allows (`{*}`, `{a/b}`,
against `template.rs:24` and the grammar in `m2-path-templates.md:100`) and
verbs with `*` or a stray brace. A `{` in a field name is never closed, so
that the verb behind it is not found and `/{a{b}:v` is refused. `check` and `build` do not resolve field paths
against the message (`m2-path-templates.md:167` has them resolved at build
time), so a misnamed variable or selector fails request by request. An
unescaped `:` in the last segment of a request is taken for a verb even where no
template has one, so `/v1/things/a:b` does not match `/v1/things/{name}`; a
client must send `%3A`. The key of a query parameter is split at `.` after it
was decoded, unlike everything else. A verb is compared without decoding.

## 5. What is proved

The theorems hold for every value of the constants that satisfies the module's
named `ASSUME`. Each invariant is proved through an inductive one that TLC
checked first.

- **`Gateway_proofs`**: `TypeCorrect`, `OneEffect`, `Truthful`, `AnswerStays`
  and `Refinement`. The inductive invariant is `TypeOK /\ CallsConsistent`:
  `AtMostOnce` alone is not inductive, since nothing in it keeps a second copy
  of a call from the wire. `CallInv` ties future, stream and handler of one
  request together: before it is sent there is no handler; on the wire none has
  started; an Ok reply means the effect happened. The refinement maps `Commit`
  to `Execute`, answers to `Succeed`, `Reject` or `Fail`, a lost client to
  `Abandon` of all its pending requests, and everything else to stuttering.
- **`Texts_proofs`**: what splitting does, for texts of any length: `SplitJoin`
  and `JoinSplit`, `str::split` and joining undo each other, and companions for
  `split_once`, for finding a delimiter and for flattening. The library's induction theorems take an
  operator as a parameter and cannot be instantiated here, so induction is over
  sets: `NatMin` (a nonempty set of naturals has a least element) gives
  `NatInductive` (a set with 0 that is closed under successor holds every
  natural) and `SeqInduction` for sequences; `Recursion` and `DownRecursion` say
  that a recursive function over an interval satisfies its equation, from the
  library's theorem on well-founded recursion.
- **`PathTemplate_proofs`**: `OverlapExact`, the overlap test is exact: from a
  pair that overlaps a common path is constructed slot by slot, and a common
  path forces every slot to be compatible. `OverlapByCalls`: the recursion of
  `slots_overlap` computes that test; by downward induction, a call succeeds
  exactly if the slots from its position on are compatible as far as a `**`.
  `WalkByCalls`: so does the matcher's recursion. Its invariant says of the call
  behind segment k that it exists exactly if the slots of the first k segments
  fit, stands behind them (or at the end, if they are open) and has captured
  what `Span` gives; that a `**` stands last is what makes it hold.
- **`Contracts_proofs`**: the contracts of the run `functions` for all inputs
  its `ASSUME`s allow: `WalkFitsInvariant`, `OverlapAgreesInvariant`,
  `OverlapIsExactInvariant` (the common path is no longer than the templates),
  `ScalarsReturnInvariant` and `TargetArrivesInvariant`. The last splits a
  target back into its pieces: no delimiter survives the client's escaping, so
  each split finds only its own separators, and decoding a piece undoes the
  escaping (`PathArrives`, `QueryArrives`). `ParseIsSoundInvariant` follows the
  parser function by function: each has a lemma that what it returns was spelled
  by the text it consumed (`Reads`, and `ReadsList` for the loop, whose
  invariant `SoFar` says that the text is what was read so far, each segment
  behind a `/`, and then the rest). `ParseComposed` puts them together, and from
  what is then known of the pieces follow that the template is well-formed and
  that one of its spellings is the text (`ComposedIsWellFormed`,
  `ComposedIsSpelled`). The assumption is that `NoVerb` is not itself a text.
  `ParseIsCompleteInvariant` goes the other way. `Reads` leaves open where a
  parse function stops; `Writes` says that what was written is read to its end,
  whatever follows, if that is nothing, a `/` or a `}` (`SlotWrites`,
  `VariableWrites`, `SegmentWrites`; `SegmentsWrite` for the loop, whose invariant
  `Written` says that as many segments are read as there are turns; `ParseWrites`
  for the whole). Every spelling is such a text: each lone `=*` may be left out
  (`BareWrites`, `TemplateTexts`). What takes most of the proof is the verb:
  around a variable the braces balance (`Flat`), outside it a spelling has no
  `:` (`Covered`), and both survive concatenation (`DepthCat`, `FlatCat`), so the
  last `:` outside braces is the verb's or there is none (`VerbFound`).
  `SpelledInputs` assumes what templates are made of: they are well-formed, a
  verb is not empty and holds no `/` and no unbraced `:`, and a field name holds
  none of `.`, `=`, `{`, `}`. All of it holds of what `Template::parse` returns
  except that it takes a `{` into a field name; such a template cannot be
  written with a verb (section 4).
- **`RouteTable_proofs`**: all six properties of the run `routes`. The
  invariant says that what `check` and `build` left behind is what the table
  says; `CollisionReported` and `HitsCollide` connect the dynamic and the
  static side through `OverlapExact`. That a nonempty set of positions has a
  first one (`FirstExists`) rests on `NatMin`, least elements of sets of
  naturals, proved from the well-foundedness facts of the library. The two
  theorems that produce a request (`UnreportedReachable`, `ReportsReal`) assume
  that `Request` holds all requests.
- **`RequestBinding_proofs`**: `TypeCorrect` and `WellFormedAlways`. The crux is
  `GetFieldMut`: materializing a chain of fields (downward closed, without
  rivals) keeps a well-formed message well formed. It needs the schema
  assumptions: lineages are closed and acyclic, and hold no two members of a
  oneof.
- **`RequestBinding_proofs`** also has the precedence of body, path and query:
  `QueryFills`, `VerdictIsOwn`, `BodyOwns`, `PathVariableWins`. Each has an
  invariant about the bindings made so far (those before `next`): none was
  faulty; everything present comes from the body or from the lineage of a
  capture; a visible value that nothing later evicts is still there. They are
  `Judged`, `Owned` and `PathKept`, and rest on lemmas about `get_field_mut` and
  `bind_leaf`: what they leave alone, what they keep, what they add.
- **`InProcess_proofs`**: `TypeCorrect`, `EndFinal`, `NobodyStranded`,
  `NobodyOvertakes`. The
  inductive invariant adds that no pipe exists before its dial is polled;
  without it a second queueing of a dial could not be excluded.
- **`CoHosting_proofs`**: `Composition` shows that every step of the co-hosted
  system is a step of `InProcess` or leaves the transport alone. With it the
  theorems of `InProcess_proofs` hold here, and `NobodyStranded` and the
  transport's part of `TypeCorrect` are proved by instantiating that module
  rather than again. `NobodyFailed` (`ShutdownFailsNobody`) needs the
  order of the shutdown as an invariant, `InOrder`: the backend leaves `serving`
  only after the front is done, the front is done only after its clients are
  gone, and a request under way has its client.

**Only model-checked**: liveness (`gateway_live`, `EveryDialSettles`,
`StreamEnds`, `EveryRequestSettles`, `ShutdownCompletes`), which TLAPS does not
reach. Every invariant and every action property of a passing run is a theorem.

## 6. What is not modelled

- Whole messages as JSON (`decode_request_body`, `encode_response_json`),
  `BytesCodec` and descriptor decoding: conversions done by prost-reflect and
  tonic. Their outcomes (invalid body, reply that cannot be rendered, rule
  without pattern, custom kind) are inputs of the models.
- The text of error messages, and of floats other than integers.
- In `RouteTable` a raw segment carries its decoded text and, apart, what its
  last unescaped `:` splits off; `RequestTarget` shows how that comes about. A
  `**` capture joins its segments with `/` after decoding, so an escaped slash
  cannot be told from a separator; nothing here depends on it.
- Headers other than `grpc-timeout`.
- Server streaming beyond its 501, which is all there is.
- In `CoHosting`, native gRPC calls, which the front serves itself, and a front
  that shares its own socket with the backend; the bytes in the pipes.
- `run_routes`, which prints; the parsing of arguments.
- OpenAPI generation: a design document without code.

## 7. Plan

Done, in this order: `Gateway` with its contract and proofs, `PathTemplate` and
`TemplateWalk`, `RouteTable`, `RequestBinding`, `InProcess`; then the parser,
`RequestTarget` and `ScalarText`, `CoHosting` with the proof that it implements
`InProcess`, the accept loop in `Gateway`, the proofs of the precedence of
body, path and query and of the order of accepted connections, those of the
matcher's, the overlap test's and the parser's recursion, and that the parser
reads every spelling.

What is left: the reading of descriptor sets (nested additional bindings, sets
without the annotation's extension) in front of `RouteTable`.
