# A TLA+ development of finemcp

finemcp is a Go library for MCP (Model Context Protocol) servers and clients.
This directory models the parts of it where goroutines meet or where state
outlives a call: the server's dispatch, background work, registries, resource
reads, streaming tools, middlewares and transports; the client with its
reconnection, streaming, transports and wrappers; the load balancer and the
aggregator. TLC checks each model on a small instance; TLAPS proves the safety
properties for every size.

## 1. Inventory

| Part (source) | State | Operations | Talks to | What is hard | What must hold |
|---|---|---|---|---|---|
| Server-to-client requests (`pending.go`) | pending map, id counter, closed flag, one one-slot channel per request | Send, Deliver, CloseAll | sampling, elicitation, roots call Send; transports call Deliver and CloseAll | the channel is used outside the lock; context end, response and close race | own response, no leaked entry, every Send returns |
| Tasks (`task.go`, `dispatch.go`) | tasks with status, result, owner, cancel function | Submit, Complete, Fail, Cancel, GetResult, Delete; one goroutine per call | `tools/call` with a task, `tasks/*` methods | goroutine outlives the request; cancel and delete race it | decided once, owner only, limit, no task stays working |
| Senders, subscriptions, session tools (`server.go`, `session_tools.go`) | maps per session, ring of closed sessions | Add/Remove per session, removeAll | transports, handlers, application | late handlers after a session is closed; ring eviction | nothing comes back, limits, ring and set agree |
| Streamable HTTP (`transport/streamable.go`) | session map, idle timer, done channel, GET streams | POST, GET, DELETE, timer | all of the above | timer, DELETE and requests race | one takedown, complete; streams end; sessions are reclaimed |
| Dispatch (`dispatch.go`, `server.go`, `serve.go`) | handshake flag and version, request table, WaitGroup | HandleMessage, handleInitialize, cancel notification, Shutdown | every transport | check-then-act, shared keys, arrivals during Shutdown | handshake first, table exact, drain complete |
| Tool streams (`stream.go`) | bounded buffer, counter, quit and done channels | Send, drain, close | `tools/call`, notification sender | two goroutines dispatch; buffer full; cancellation | order, flush before the response, termination |
| Jobs (`async.go`, `middleware/async.go`) | jobs with status | Submit, MarkRunning, Complete, Fail, Cancel, Delete | Async middleware | cancel before start, deletion while running | as tasks: decided once, no job stays running |
| Tool, resource, prompt and root registries (`server.go`, `session_tools.go`, `roots.go`, `uritemplate.go`) | maps, sorted snapshots, templates | Register, Remove, list, read | list methods, iterators, `list_changed` | snapshots rebuilt under a second lock; offset cursors; template matching | a list asked for after a notification is fresh; iteration is complete; a read finds the resource |
| Middleware (`middleware/`) | breaker counters, LRU, buckets | per call | tool handlers | late results of abandoned calls, stale fills, panics | no slot leaks, no stale entry, every call returns |
| SSE, WebSocket, stdio (`transport/`) | sessions, bounded queues | read loop, write loop, POST | dispatch, pending | full queues; the loop that reads is the one that handles | no accepted answer lost unnoticed; sampling returns |
| Host router (`transport/hostrouter.go`) | rules | Handle, Remove, ServeHTTP | transports | exact, wildcard and parent rules | the most specific rule decides |
| Client core (`client/client.go`) | pending calls, reconnection | call, read loop, reconnect, Close | servers | loss, retries and Close race | correlation, no call forgotten |
| Client streaming and server requests (`client/`) | two channels per stream, handler slots | CallToolStream, read loop, handlers | read loop | slow consumer, full channels, cancel | streams end, requests are answered |
| Client transports (`client/transport/`) | inbox, event stream, subprocess | Start, Send, Receive, Close | client | Close against a blocked Send or Receive | all of it ends |
| Client wrappers (`client/coalescing.go`, `cache.go`, `circuitbreaker.go`) | flights, LRU, breaker | Send / Receive or call | client, transports | late fills, last waiter cancels, half-open slots | flights end, no fill lost, tests bounded |
| Load balancer, aggregator (`client/loadbalancer.go`, `aggregator.go`) | back-ends with health, clients, lists | add, remove, call, fan-out, health checks | clients | removal and Close while adding | tried once, no client leaked, recovery |
| Data types, URI templates, schemas, CLI, test helpers | none shared | pure or I/O | - | - | - |

`PROJECT.json` lists every part with its status, and the hazards with the line
where each bites.

## 2. Modules

| Module | Models | Role |
|---|---|---|
| `PendingRequests`, `PendingRequestsProofs`, `MCPending` | `pending.go` | component, proofs, instance |
| `WorkLifecycle` | - | abstract: background work starts once, is decided once, is forgotten for good |
| `TaskCalls`, `TaskCallsProofs`, `MCTasks` | `task.go`, task part of `dispatch.go` | implements `WorkLifecycle` |
| `RecentlyClosed` | - | abstract: a memory of the last N closed sessions |
| `SessionRegistry` (in `MCServer`) | registries of `server.go`, `session_tools.go` | implements `RecentlyClosed`; used by `StreamableHTTP` |
| `StreamableHTTP`, `MCStreamable` | `transport/streamable.go` over `SessionRegistry` | composition of transport and server |
| `StreamableHTTPProofs` | - | proofs of `StreamableHTTP`, `SessionRegistry`, `HostRouter` |
| `ToolStream`, `ToolStreamProofs`, `MCStream` | `stream.go`, `handleToolsCall` | component, proofs, instance |
| `Dispatch`, `MCDispatch` | `HandleMessage`, request table, handshake, `Shutdown` | component, instance |
| `ServerProofs` | - | proofs of `Dispatch`, `Listing`, `ResourceReads`, `SSETransport`, `LoopTransport` |
| `Client`, `ClientProofs`, `MCClient` | `client/client.go` over a transport like `client/transport/ws` | component, proofs, instance |
| `CircuitBreaker` | `middleware/circuitbreaker.go` | the breaker's transitions, used by `ToolChain` |
| `ToolChain` | `middleware/` recovery, rate limit, retry, circuit breaker, sandbox | composition: one chain around a handler |
| `ToolCache` | `middleware/cache.go` | component |
| `AsyncJobs` | `async.go`, `middleware/async.go` | second implementation of `WorkLifecycle` |
| `MCMiddleware`, `MiddlewareProofs` | - | instance and proofs of the three above |
| `Ordering` | the order of the server's sorted slices | definitions shared by the two below |
| `Listing` | registries, snapshots, pages and the client's iterators | server and client composed |
| `ResourceReads` | URI templates and `resources/read` | algorithm against a reference definition |
| `SSETransport`, `LoopTransport` | `transport/sse.go`; `transport/stdio.go`, `transport/websocket.go` | components |
| `HostRouter` | `transport/hostrouter.go` | component |
| `MCServer` | - | instance of `Listing` to `HostRouter` above and of `SessionRegistry` |
| `Coalescer`, `ClientStreaming`, `ClientTransports`, `MCClientParts` | `client/coalescing.go`; streams and server requests of `client/client.go`; `client/transport/` | components, instance |
| `ClientCalls`, `ClientCache`, `ClientBreaker`, `LoadBalancer`, `Aggregator`, `MCPool` | call path with retries, `client/cache.go`, `client/circuitbreaker.go`, `client/loadbalancer.go`, `client/aggregator.go` | components, instance |
| `PoolProofs` | - | proofs of the five components of `MCPool`, of `Coalescer` and `ClientTransports` |

`MCMiddleware`, `MCServer`, `MCClientParts` and `MCPool` hold several components
that share no state. Their `Init` chooses which one a behaviour is about (`part`)
and the others stand still, so a run explores the sum of the components and not
their product. Nothing is lost by that: no action reads another part's
variables.

### How the state corresponds

A step of a model is one critical section of a mutex, one atomic or channel
operation, or the code between two of them that no other goroutine can observe.
A `select` with several ready cases takes any of them. Operators whose names
carry a suffix after an underscore (`Complete_Unchecked`) are mutated forms of
the definition below them: plausible mistakes, used to confirm that a property
notices them. Nothing else refers to them.

* **PendingRequests.** `pending` maps ids to the Send that made the channel;
  `buf` and `chClosed` are the channel. Send is split at the unlock, the write
  and the select; Deliver at the unlock, which is where CloseAll can come in.
  A response is named by the Deliver call that carries it, and may name any id,
  so duplicated, late and unsolicited responses are included.
* **TaskCalls.** `status`, `result`, `owner`, `cancelFn` are the entries of the
  store, `worker` is the goroutine of each call. `tasks/cancel` and
  `tasks/result` are two steps, the ownership check and the operation. The
  random 128-bit ids never repeat. The five-minute limit may pass at any time.
* **SessionRegistry.** `sessionTools[s]` is empty where the map has no entry;
  `add` makes an entry only for a first tool and `remove` deletes an empty one.
  `closed`, `closedRng`, `closedIdx` are the code's fields.
* **StreamableHTTP.** `initPost` and `stage` are the places of the handlers,
  `teardown` that of the goroutine whose `LoadAndDelete` found the session, which
  stops the timer, closes `done`, walks the streams and drops the sender, each in
  a step of its own. An armed timer may fire at any moment. The tool handlers that
  matter here are those that add and remove tools of their own session.
* **ToolStream.** `ch` is the buffer, `inHand` the chunk that drain or close has
  numbered and not yet passed on, `delivered` what the sender was given.
* **Dispatch.** Each message is one invocation on its own goroutine. The key of
  an id is its type prefix with its text, as `normalizeRequestID` builds it.
  The routed methods are one stage, `running`; handlers registered for
  notifications are not modelled.
* **Client.** `at` is the place of each call in callDirect, `loopAt` that of
  `reconnectLoop`, `closeAt` that of Close; `ch` are the one-slot channels, by
  id. `toFail` is the list `failPendingRequests` walks through with blocking
  sends. The transport's `Close` and `Start` are those of the WebSocket
  transport: Start dials, and stores the connection in a later step, outside any
  lock. Its flag is never reset, as in all transports of the repository, so that
  no reconnection can succeed (`StartReopens`, section 3), or Start resets it, as
  the transport of the reconnection tests does: `restartable` says which, and a
  behaviour may have either, in the runs and in the proofs. A lost
  connection may swallow messages before it is noticed. `reinitializeSession`
  takes whatever message comes next, as the code does. A server that answers
  one request twice is left out, and so is a second Initialize.

* **ToolChain, CircuitBreaker.** `at` is the place of each call between the five
  middlewares. A handler under a sandbox deadline is a goroutine of its own: it
  may hang, fail, panic or answer after the wait for it has ended. `Tick` ages
  the breaker and fills the bucket.
* **ToolCache.** `order` is the LRU list, `flight` the singleflight groups; a
  value is the version of the data it was computed from, so that a stale answer
  can be told. `floor` records what an invalidation found under way.
* **AsyncJobs.** `jobStatus` is the store, `jobWorker` the goroutine of each job.
  `Cancel` and `Delete` come from the application at any time.
* **Listing.** A snapshot carries the version of the registry it was made from.
  The double-checked rebuild, the merge of global and session tools, the page
  and the iterator are separate steps; `announcing` are `list_changed`
  broadcasts not yet delivered.
* **ResourceReads.** The matcher is the code's backtracking search with its step
  budget; the reference definition says which URIs a template stands for without
  searching. Templates that the parser must refuse are among the candidates. The
  budget is 20 steps on the instance, 10000 in the code; neither the matches of
  the instance nor the proofs get to the branch where it is exhausted.
* **SSETransport, LoopTransport.** One connection each. The SSE queue never makes
  its producers wait; the loop of stdio and WebSocket reads, handles and delivers
  in one goroutine, which is what `SamplingReturns` is about. Handlers are those
  that run in HandleMessage; the goroutine of a task-augmented call, which may
  sample after HandleMessage has returned and then does not hold up the loop, is
  left out.
* **Coalescer.** A flight is a shared request with its count of waiters; the
  context of the waiter that started it, the cancellation by the last one and
  late joiners are separate steps.
* **ClientStreaming.** Channels are counters of blocks. The worker, the RPC
  goroutine and the read loop are three processes; server requests take slots of
  `serverReqSem`. The refusal that the read loop sends itself when no slot is free
  (`sendServerError`) is left out: it changes no state of the client.
* **ClientTransports.** `carrier` picks one of the three transports at the start.
  `posts`, `bodies` and `closer` are the places of Send, of the event streams
  and of Close. A Send of stdio always finds room in the pipe: in the code it can
  block there with the lock that Close takes (`stdio.go:84`), and Close with it.
* **ClientCalls, ClientCache, ClientBreaker.** The server in `ClientCalls`
  remembers idempotency keys and may execute a request long after its attempt
  has failed; responses in `ClientCache` arrive in any order. The sets of method
  names (`ToolHelpers` and the like) stand for the typed helpers, which differ in
  the method and the types only: their control is that of the call they make.
* **LoadBalancer, Aggregator.** A back-end's client is new, ready or closed; all
  of AddBackend / AddServer, removal, Close, requests and health checks
  interleave at their locks; a tick that is pending when Close begins may still
  be taken. `HealthMethod` is "ping" on the instance; with "passive" every check
  passes, and the theorems are about both. The sets of proxied methods
  (`ToolProxies` and the like) say which methods fail over and which fan out;
  what a proxy does is in `Begin`, with the attempts, and in `FanOut`.

## 3. Runs

| Run | Instance | Shows |
|---|---|---|
| `pending` | 2 Sends, 3 responses, ids 1..2 | `OwnResponse`, `AcceptedSurvivesClose`, `SendReturns` |
| `tasks` | 2 calls, 2 sessions and the caller without one, limit 1 | `CancelledOrDelivered`, `OwnerOnly`, refinement of `WorkLifecycle`, `Settles` |
| `http` | 2 sessions, 1 request of any method, ring of 1 | `NothingComesBack`, `GetReturns`, `Reclaimed` |
| `stream` | 2 senders, 3 chunks each, buffer of 2 | `InSequence`, `FlushedBeforeResponse`, `StreamEnds` |
| `dispatch` | 2 handshakes, a request, its cancel; a null id and ids that differ in type only | `Cancellable`, `ShutdownDrains`, `CancelledRequestEnds` |
| `client` | Initialize, 1 call, 1 loss of the connection, 1 attempt to reconnect, Close | `Attended`, `OwnChannel`, `CloseEnds`, for either kind of transport |
| `client_close_hangs` | same | violation of `CloseAlwaysEnds`: failPendingRequests blocks on a channel nobody reads |
| `middleware` | chain: 2 callers, 2 attempts, burst 1, thresholds 1 and 2, 1 half-open probe; cache: 2 keys, capacity 1, TTL 1, 2 changes of the data; 2 jobs | `NoSlotLeak`, `EveryCallReturns`; `NoStaleUnlessRaced`; `NoJobLeftRunning`, refinement of `WorkLifecycle` |
| `server_parts` | 4 sessions, ring of 3; 3 names of which 2 are hidden, pages of 1, 3 changes; 9 templates, 2 registered, URIs of up to 3 characters; 2 SSE posts, queue of 1; inbox of 2; hosts of up to 3 labels | `RemembersLatest` (refinement); `NotifiedListIsFresh`, `IteratesAll`; `ReadIsRight`; `NothingLostSilently`; `RouteByParent` |
| `server_sampling` | the loop transport of the above | violation of `SamplingReturns`: the loop that would deliver the response is the one that waits |
| `client_parts` | 2 waiters, 2 keys, 2 flights; internalCh 2, contentCh 1; 2 server requests, 1 slot; 2 posters, inbox of 1 | `AbandonedFlightsEnd`; `StreamCloses`, `RequestsAnswered`; `ClosedTransportEnds` |
| `client_pool` | 2 callers, 2 retries; 3 requests of 2 cache keys, size 1; 3 requesters, 2 failures, 1 half-open test; 2 back-ends, 1 request, 1 Initialize; 3 AddServer for 2 ids, 1 user | `EffectOnce`; `NoFillForgotten`; `TestsWithinLimit`; `TriedOnce`, `BackendRecovers`; `NoClientLeaked` |

Properties not checked by a run of their own are under "Stated, not run" below.

**Why the bounds are enough.** Two Sends and three responses allow an id to be
answered twice while another answer is on its way. Two calls with a limit of one
put the store at its limit and let a deleted task's goroutine run beside a new
task. A ring of three with four sessions wraps and evicts, and a ring of one
evicts at every closing. Three chunks per sender and a buffer of two fill the
buffer with chunks of both senders. The dispatch races are between two
invocations; a third and fourth put a cancel and a second handshake beside them.
In the client, Initialize and a low-level call are two requests in flight, which
is what the order of `toFail` and the sharing of channels need; a second attempt
to reconnect repeats the first. `MaxIds` is more than the ids these can use.

In the chain a second caller is what can hold the only half-open slot while the
other retries, and two attempts let a late result meet a later state of the
breaker. A cache of capacity one evicts on every second key; two versions tell a
stale value. Pages of one with hidden names make filtered lists end inside a
page, and both a limit of pages and one of items can be reached. The URIs hold
the separator at every place that a two-part template distinguishes. A queue or
inbox of one or two is full with the messages of the instance. One flight more
than can be shared lets a waiter join a flight that its last waiter abandons.
Two back-ends with two retries let the failover run out of back-ends; two
AddServer for one id collide. What these bounds do not reach: three sessions of
one SSE server, or more than two back-ends failing in turn.
The safety properties are also proved for all sizes (section 4), `ReadIsRight`
from `MatcherAgrees`, which TLC evaluates on the instance of `MCServer`.

**Deadlock** is not checked: each instance has finitely many requests, and the
system is idle when they are done. That nobody waits for ever is what the
liveness properties say.

**Fairness.** Goroutines that can run do run: weak fairness per goroutine. A
handler or tool is only assumed to return once its context has ended, which is
the contract of a Go context; a tool with a live context may run on. Timers
fire: the idle timer is reset by requests, of which an instance has finitely
many. Clients, contexts that end, `CloseAll`, `Shutdown` and the application are
never forced to act. In `ToolStream` the transport's sender returns and the
handler returns unless it is blocked in Send. In `Client` no server has to
answer and no context has to end; the 30 s limit of a reconnection's handshake
does pass.

In `ToolChain` handlers may hang: only timers and the code around the handler
are fair. In `Coalescer` and `ClientStreaming` goroutines run, a call whose
context is done returns and a handler's own answer is sent (strong fairness,
since it competes for a lock); the server may never answer and the caller need
not read its stream. In `ClientTransports` a subprocess ends when its input is
closed and a cancelled stream fails; that Receive is cancelled is not assumed.
In `LoadBalancer` the ticker fires and pings end by their timeout. In
`LoopTransport` goroutines run and handlers return.

**Findings.** The two violations are disagreements between the code and what
its own comments say; each is described in `PROJECT.json` under `findings`.

**Stated, not run.** Some formulas are kept in the modules, each with a comment
that quotes the line it takes after.

* Known not to hold on these instances, each because of one narrow race or one
  line: `DeliverReturns` (`pending.go`, Deliver on a channel CloseAll has
  closed), `CancelAborts` (`dispatch.go`, a cancel before the cancel function is
  stored), `EveryClientInitializes` (the handshake flag is the server's),
  `CancelStaysInSession` (request ids of two connections share a table),
  `HalfOpenCountStands` and `PanicsAreCaught` (`ToolChain`),
  `HalfOpenTriesAgain` (`ClientBreaker`), `OthersUnaffected` (`Coalescer`),
  `OnlyConsecutiveFailures` and `UnionIsComplete` (`LoadBalancer`),
  `NeverSendsOnClosed` (`ClientStreaming`), `SessionCleanedUp`
  (`SSETransport`), `ReceiveFailsOnceClosed` and `CloseReleases`
  (`ClientTransports`).
* Known not to hold for the repository's transports: `StartReopens` and
  `NothingLeftOpen` (`Client`). `reconnectTransport` calls Close and then Start,
  `ws.Close` sets a flag that `ws.Start` does not reset, and every Send on the new
  connection is refused; `client.go:120` names WebSocket as a transport that
  supports reconnection. The new connection is open all the same, and the client's
  Close does not close it: the flag makes `ws.Close` a no-op. `NothingLeftOpen`
  fails for a transport that can be started again too, when Close falls between
  the dial and the store of the connection (`ws.go:65`).
* Proved (section 4): the modules' type invariants, `NoLeakedEntry`,
  `MappedHasSender`, `EntriesAreRunning`, `HandshakeBeforeUse`, `WithinLimit`,
  `WithinLimits`, `LRUSound`, `NoStampede`, `OneFlightPerKey`,
  `AnswersMatch`, `ReplyAccountedFor`, `LoopLeavesNothing`.

## 4. Proofs

Every safety property that a run checks is proved for all values of the
constants; that of `ResourceReads` under a hypothesis on the matcher, stated at
its place below. The proof modules define abbreviations at most: an inductive
invariant is in the component's module, a conjunction of named parts, and was
checked by TLC on that component's instance before it was proved. A proof has one step per action, and lemmas for what
several actions share.

* `PendingRequestsProofs`: any number of Sends and responses. `IdsUnique` (ids
  come from a counter, so two Sends never share one) and `MapMatches` (an entry
  belongs to the Send with that id while it is in flight) carry `OwnResponse`
  and `NoLeakedEntry`; `LookupMatches` says that a channel Deliver has looked up
  is still the one its response names. `AcceptedTracked` and `ClosedReported`
  give `AcceptedSurvivesClose`.
* `TaskCallsProofs`: any calls, sessions and limit. The replies already sent
  (`RepliesStand`) and the check already made (`CheckStands`) stay good or the
  task is gone for good; from it follow `CancelledOrDelivered` and `OwnerOnly`.
  `Counted` adds to `WithinLimit` that the store is finite, which the counting
  needs.
  `Refinement` shows that every step is a step of `WorkLifecycle` or none.
* `ToolStreamProofs`: any senders, chunks and buffer size. `Conserved` says that
  an accepted chunk is in the buffer, in a goroutine's hand or delivered;
  `HandNumber` that only one of drain and close holds a chunk, with the next
  number, which `Turns` (who may act when) makes inductive; `Ordered` that what
  is ahead on the way was sent earlier. They give `InSequence` and
  `FlushedBeforeResponse`.
* `StreamableHTTPProofs`, sessions: any sessions, requests and limits.
  `Ownership` says who holds a session between `createSession` and the end of
  its takedown; `RingExact` says that the ring and the lookup set have the same
  members, each once, which is what keeps an eviction from forgetting a session
  that was closed later, and with `ClosedHasNoTools` gives `NothingComesBack`.
  The registry alone: with `RingFills` (slots are used in order, and none is
  given back) the ring read backwards from `closedIdx` is the abstract memory,
  and every step of the registry is one of `RecentlyClosed` or none
  (`RegistryRemembersLatest`); `WithinLimits` by counting.
* `StreamableHTTPProofs`, routing: any depth of hosts and any rules. No
  strengthening beyond the types is needed; the argument is that the first
  wildcard found, in the order of registration, is the only one that can match
  a host, since a wildcard matches exactly one label.
* `ServerProofs`, dispatch: any messages with any ids. `TableInv` states that an
  entry belongs to a running request whose id has that key; that untracking by
  key never removes the entry of a request with a different id rests on the
  lemma `NormalizeInjective`. `HandshakeInv` orders version, flag and handlers;
  `ShutdownInv` says the WaitGroup counts exactly the invocations under way.
* `ServerProofs`, lists: any names and changes. A snapshot is absent or that of
  the registry as it is (`SnapshotsCurrent`), a client is told of the past only
  (`ToldThePast`), and so what a request has read is no older than what the
  client knew when it asked (`ReadsAboveFloor`).
* `ServerProofs`, iterators: any names, filters, page sizes and limits. `WalkInv`
  follows one walk: a sorted slice, and what a request has read of a registry that
  did not change, holds that registry in order (`SlicesHold`); a fetch reads
  nothing older than the iterator (`FetchServed`); while nothing changes the items
  returned so far are those the cursor has passed (`CursorPassed`). With these
  `IteratesAll` is inductive. The lemmas say what the code's steps do to ordered
  lists: filtering keeps the order, a page and the rest make up the list, and the
  merge of two lists is the order of their union, by the invariant of its loop
  (`MergeRoundInv`). A finite set has one order only (`OrdersUnique`), so that
  two requests that find the same registry see the same list. Where such a lemma
  needs an induction it is done by a least counterexample (`LeastNumber`, from
  the well-foundedness of the strict subsets of a finite set).
* `ServerProofs`, reads: any templates, resources and filters. What was registered
  when a read began is still there (`ReadSees`), and a sorted slice that is not nil
  holds all the templates (`TemplatesSorted`), so that the first one of it that
  matches is the least one (`LeastIsFirst`). The theorem is `MatcherAgrees /\ ReadsSpec =>
  []ReadIsRight`: `MatcherAgrees`, a formula about constants, says that the
  backtracking matcher finds a match for exactly the URIs a template stands for.
  It is false for a URI on which the matcher exhausts its budget, which is why it
  is a hypothesis and not an assumption of the module; `MCServer` has TLC evaluate
  it for its templates and URIs.
* `ServerProofs`, SSE: any number of POSTs, notifications and places in the
  queue. `NoneMissing` names the events where the property counts them.
* `ServerProofs`, loops: the loop leaves only between two messages, so no handler
  of the session runs during the cleanup (`LoopInv`), and one pass of it is
  enough for `LoopLeavesNothing`.
* `MiddlewareProofs`: `WorkerKnows`, what the goroutine of a job may find in the
  store by where it is, gives `NoJobLeftRunning` and the second refinement of
  `WorkLifecycle`. `NoSlotLeak` is inductive with the types and the finiteness
  of the probes. In the cache, `LeaderLeads` (one call leads a flight) and
  `ComputedFresh` (what is computed and not yet stored is new enough) carry
  `NoStaleUnlessRaced`, `LRUSound` and `NoStampede`.
* `PoolProofs`: any callers, requests, back-ends, servers and limits.
  `WireCarriesKey` and `EffectSeen` (the effect of a call came with its key) for
  `EffectOnce`; `TestsHoldSlots` for `TestsWithinLimit`; `ResultsPastTable` (a
  result behind the table belongs to an id that has left it for good) for
  `NoFillForgotten`; `MatchInv` (an entry is under the key of the request it came
  with) for `AnswersMatch`; `MapHoldsFlights` (the map holds flights made for that
  key and not yet gone) for `OneFlightPerKey`; `TransportsInv` (the flag is the
  first thing Close sets) for `ReplyAccountedFor`; `TriedKnowsSent` for
  `TriedOnce`, with the fan-out, which removes back-ends from `tried`, as a case of its own; `StoredUnderOwnId` for
  `NoClientLeaked`.
* `ClientProofs`: any calls, losses, attempts and ids. `LoopHolds` says what
  `reconnectLoop` holds by where it is, `IdsDrawn` that an id is one call's
  although handshakes draw from the same counter. `AttendedInFlight` extends
  `Attended` to the time between the entry and Send, without which a Close in
  between could not be accounted for; `NothingEarly`, that an id not yet sent is
  nowhere on the wire, gives `OwnChannel`. All of these are proved, and checked,
  for both kinds of transport.

The assumptions are the named `ASSUME`s of the component modules: limits are
positive numbers, the values that stand for "none" are outside the sets they
extend, ids and kinds of messages have their types, and the preferred version is
a supported one.

**Model-checked only.** Liveness (outside TLAPS's reach here), which is every
remaining temporal property of the runs. `MatcherAgrees`: what the matcher
computes for every template and URI is said by a recursion over both, and holds
only within its budget.

## 5. Plan

All the components of the plan are modelled, and the safety properties of the
runs are proved. What is left:

1. A bound on templates and URIs within which the matcher's budget is enough,
   and a proof of `MatcherAgrees` below it.
2. The parts that section 6 names, where one of them comes to share state.

## 6. Not modelled

Middlewares that decide from one call alone or only record it (authentication,
RBAC, tenants, validation, audit, cost, telemetry, simulation), `transport/http.go`
(one stateless call per POST), CORS, the composition of servers, user
notification handlers, the aggregator's prompts and resources, the task
iterator, completion and `prompts/get`, wire formats, HTTP headers, schema
generation and validation, content types, the values of delays, telemetry
exporters, the command line, test helpers and examples: data or I/O without
shared state, or a repetition of a path that is modelled. Time is the order of
events and, where a component compares ages, ticks.

Behaviours met on the way that are in the models, or next to them, and that no
property forbids because no document promises otherwise:

* Shutdown does not wait for the goroutines of task-augmented calls
  (`serve.go:60`).
* A subscription made by a handler that runs past `UnsubscribeAll` stays
  (`server.go:1165`).
* A chunk accepted after drain's last flush of a cancelled call stays in the
  buffer (`stream.go:258`).
* The exponential delay wraps to zero for attempts beyond 54
  (`client/reconnect.go:70`); delays have no values here.
* `reinitializeSession` takes whatever message comes next
  (`client/client.go:1730`).
* A template matcher that runs out of its step budget reports "not found", as
  does a first matching template that the tenant's filter hides.
* Offset cursors skip or repeat items when a registry changes between two pages;
  an iterator that ends with exactly its limit of items reports the limit.
* A full inbox of the streamable client transport drops replies.
* The `resultCh` of a streaming call is left open on an error, where
  `client/client.go:636` says that it is closed; only `contentCh` and `errCh` are
  in `StreamCloses`.
* An AddBackend that appends after Close has walked the pool leaves its client
  open (`client/loadbalancer.go:759` and 842).
* Closing a ws transport before its first connection faults (`client/transport/ws/ws.go:122`);
  the model takes it for closing.
* An initialize POST whose handler fails outright drops its session on the spot
  (`transport/streamable.go:372`); in the model such a session goes by its timer
  or DELETE.
* A second Initialize of the balancer marks ready back-ends unhealthy; a list
  that an invalidation overtakes is stored by the aggregator, and an AddServer
  after its Close is accepted.
