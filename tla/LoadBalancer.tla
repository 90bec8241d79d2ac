---------------------------- MODULE LoadBalancer ----------------------------
(***************************************************************************)
(* The client's load balancer (client/loadbalancer.go): the pool of        *)
(* back-ends, selection and failover of a request, the health checks, and  *)
(* Initialize, AddBackend, RemoveBackend and Close beside them.  A         *)
(* back-end's Client is "new", "ready" after its handshake, or "closed";   *)
(* whether its server answers a request is the environment's choice.       *)
(***************************************************************************)
EXTENDS Integers, FiniteSets, Sequences, SequencesExt

CONSTANTS
  BackendIds,
  InitialPool,          \* the back-ends given to NewLoadBalancer, in order
  Balanced,             \* goroutines that make one request each
  Initializers,         \* goroutines that call Initialize
  Strategy,
  MaxRetries, MaxRetriesLimit,
  HealthMethod,         \* HealthCheck.Method
  UnhealthyThreshold, HealthyThreshold

ASSUME LoadBalancerAssumption ==
  /\ InitialPool \in Seq(BackendIds) /\ InitialPool # <<>>
  /\ Strategy \in {"RoundRobin", "Random", "LeastConnections"}
  /\ HealthMethod \in {"ping", "passive"}
  /\ MaxRetries \in Int /\ MaxRetries >= -1 /\ MaxRetriesLimit \in Nat
  /\ UnhealthyThreshold \in Nat \ {0} /\ HealthyThreshold \in Nat \ {0}

VARIABLES
  pool,        \* backends
  healthy,
  failures,    \* consecutiveFailures, which matters up to its threshold only
  successes,   \* consecutiveSuccesses, likewise
  activeConns,
  counter,     \* of RoundRobinStrategy, modulo every length of the pool
  clients,     \* the state of each back-end's Client
  checks,      \* the health check of each back-end
  balancer,    \* initialized, and the phase of Close
  failover,    \* the requests
  starting,    \* the calls of Initialize: the results collected so far
  adding       \* where AddBackend is with each back-end

poolVars == <<pool, clients, adding>>
healthVars == <<healthy, failures, successes>>
loadVars == <<activeConns, counter>>
lbVars == <<poolVars, healthVars, loadVars, checks, balancer, failover, starting>>

-----------------------------------------------------------------------------
(***************************************************************************)
(* Helpers                                                                 *)
(***************************************************************************)
\* A multiple of the length of every pool of up to four back-ends.
CounterModulus == IF Cardinality(BackendIds) <= 2 THEN 2 ELSE 12

\* What is left of a request when it has returned.
Returned(c, how) ==
  [failover EXCEPT ![c].pc = how, ![c].attempt = 0, ![c].snapshot = <<>>,
                   ![c].tried = {}, ![c].sent = <<>>]

InPool(b) == \E i \in DOMAIN pool : pool[i] = b

GetHealthyBackends == SelectSeq(pool, LAMBDA b : healthy[b])

\* MaxRetries = 0 is replaced in NewLoadBalancer, and so is MaxRetriesLimit = 0
\* where it counts.
AttemptLimit ==
  CASE MaxRetries = -1 -> IF MaxRetriesLimit = 0 THEN 1000 ELSE MaxRetriesLimit
    [] MaxRetries = 0  -> Len(InitialPool)
    [] MaxRetries > 0  -> MaxRetries

MayAttempt(n) == n < AttemptLimit

\* strategy.Next: the indices it may return for a snapshot.
NextIndex(backends) ==
  CASE Strategy = "RoundRobin" -> {(counter % Len(backends)) + 1}
    [] Strategy = "Random" -> DOMAIN backends
    [] Strategy = "LeastConnections" ->
         {CHOOSE i \in DOMAIN backends :
            /\ \A j \in DOMAIN backends : activeConns[backends[i]] <= activeConns[backends[j]]
            /\ \A j \in 1..(i-1) : activeConns[backends[j]] > activeConns[backends[i]]}

UpTo(n, limit) == IF n < limit THEN n + 1 ELSE n

\* A failure of b, of a health check or of a request: counted under healthMu,
\* and at the threshold the back-end is marked and the strategy reset.
RecordFailure(b) ==
  /\ failures' = [failures EXCEPT ![b] = UpTo(@, UnhealthyThreshold)]
  /\ successes' = [successes EXCEPT ![b] = 0]
  /\ LET trips == healthy[b] /\ failures'[b] >= UnhealthyThreshold
     IN  /\ healthy' = [healthy EXCEPT ![b] = @ /\ ~trips]
         /\ counter' = IF trips THEN 0 ELSE counter

-----------------------------------------------------------------------------
\* NewLoadBalancer and createBackend: every back-end starts healthy.
LoadBalancerInit ==
  /\ pool = InitialPool
  /\ healthy = [b \in BackendIds |-> TRUE]
  /\ failures = [b \in BackendIds |-> 0]
  /\ successes = [b \in BackendIds |-> 0]
  /\ activeConns = [b \in BackendIds |-> 0]
  /\ counter = 0
  /\ clients = [b \in BackendIds |-> "new"]
  /\ checks = [b \in BackendIds |-> "idle"]
  /\ balancer = [initialized |-> FALSE, phase |-> "open"]
  /\ failover = [c \in Balanced |->
       [pc |-> "idle", attempt |-> 0, tried |-> {}, snapshot |-> <<>>, sent |-> <<>>]]
  /\ adding = [b \in BackendIds |-> IF InPool(b) THEN "added" ELSE "not"]
  /\ starting = [i \in Initializers |-> [pc |-> "idle", waiting |-> {}, ok |-> FALSE]]

(***************************************************************************)
(* Initialize                                                              *)
(***************************************************************************)
InitializeBegin(i) ==
  /\ starting[i].pc = "idle"
  /\ starting' = [starting EXCEPT ![i].pc = IF balancer.initialized THEN "refused" ELSE "waiting",
                                  ![i].waiting = ToSet(pool)]
  /\ UNCHANGED <<poolVars, healthVars, loadVars, checks, balancer, failover>>

\* One back-end's result: a Client that is ready already answers ErrAlreadyInit,
\* which counts like any other error.
InitializeBackend(i, b) ==
  /\ starting[i].pc = "waiting" /\ b \in starting[i].waiting
  /\ \E ok \in IF clients[b] = "new" THEN BOOLEAN ELSE {FALSE} :
       /\ clients' = [clients EXCEPT ![b] = IF ok THEN "ready" ELSE @]
       /\ healthy' = [healthy EXCEPT ![b] = @ /\ ok]
       /\ starting' = [starting EXCEPT ![i].waiting = @ \ {b}, ![i].ok = @ \/ ok]
  /\ UNCHANGED <<pool, failures, successes, loadVars, checks, balancer, failover, adding>>

InitializeEnd(i) ==
  /\ starting[i].pc = "waiting" /\ starting[i].waiting = {}
  /\ balancer' = [balancer EXCEPT !.initialized = @ \/ starting[i].ok]
  /\ starting' = [starting EXCEPT ![i].pc = "done"]
  /\ UNCHANGED <<poolVars, healthVars, loadVars, checks, failover>>

(***************************************************************************)
(* AddBackend, RemoveBackend and Close                                     *)
(***************************************************************************)
\* AddBackend tests closed before it takes the lock.
AddBackendBegin(b) ==
  /\ adding[b] = "not" /\ balancer.phase = "open"
  /\ adding' = [adding EXCEPT ![b] = "checked"]
  /\ UNCHANGED <<pool, healthVars, loadVars, clients, checks, balancer, failover, starting>>

AddBackendAppend(b) ==
  /\ adding[b] = "checked"
  /\ pool' = Append(pool, b)
  /\ adding' = [adding EXCEPT ![b] = "appended"]
  /\ UNCHANGED <<healthVars, loadVars, clients, checks, balancer, failover, starting>>

\* After Initialize the new back-end has its handshake at once.
AddBackendEnd(b) ==
  /\ adding[b] = "appended"
  /\ \E ok \in IF balancer.initialized /\ clients[b] = "new" THEN BOOLEAN ELSE {FALSE} :
       /\ clients' = [clients EXCEPT ![b] = IF ok THEN "ready" ELSE @]
       /\ healthy' = [healthy EXCEPT ![b] = @ /\ (ok \/ ~balancer.initialized)]
  /\ adding' = [adding EXCEPT ![b] = "added"]
  /\ counter' = 0
  /\ UNCHANGED <<pool, failures, successes, activeConns, checks, balancer, failover, starting>>

RemoveBackend(b) ==
  /\ InPool(b)
  /\ clients' = [clients EXCEPT ![b] = "closed"]
  /\ pool' = SelectSeq(pool, LAMBDA x : x # b)
  /\ counter' = 0
  /\ UNCHANGED <<healthVars, activeConns, checks, balancer, failover, starting, adding>>

CloseBegins ==
  /\ balancer.phase = "open"
  /\ balancer' = [balancer EXCEPT !.phase = "closing"]
  /\ UNCHANGED <<poolVars, healthVars, loadVars, checks, failover, starting>>

\* healthWg.Wait, then the Clients of the pool.
CloseFinishes ==
  /\ balancer.phase = "closing"
  /\ \A b \in BackendIds : checks[b] = "idle"
  /\ balancer' = [balancer EXCEPT !.phase = "closed"]
  /\ clients' = [b \in BackendIds |-> IF InPool(b) THEN "closed" ELSE clients[b]]
  /\ UNCHANGED <<pool, healthVars, loadVars, checks, failover, starting, adding>>

(***************************************************************************)
(* Health checks: performHealthChecks waits for all of one round before    *)
(* the ticker is looked at again.  A tick that was already there may be    *)
(* taken while Close waits for the loop to end.                            *)
(***************************************************************************)
HealthTick ==
  /\ balancer.phase # "closed"
  /\ \A b \in BackendIds : checks[b] = "idle"
  /\ pool # <<>>
  /\ checks' = [b \in BackendIds |-> IF InPool(b) THEN "pinging" ELSE "idle"]
  /\ UNCHANGED <<poolVars, healthVars, loadVars, balancer, failover, starting>>

\* Ping fails if the Client is not ready, or if it gets no answer in time; a passive
\* check asks nothing and passes.
CheckFailed(b) ==
  /\ checks[b] = "pinging" /\ HealthMethod = "ping"
  /\ checks' = [checks EXCEPT ![b] = "idle"]
  /\ RecordFailure(b)
  /\ UNCHANGED <<poolVars, activeConns, balancer, failover, starting>>

\* Mutated form: a back-end has to be without failures to recover, but only
\* recovery clears them.
CheckPassed_NoFailures(b) ==
  /\ checks[b] = "pinging" /\ (HealthMethod = "ping" => clients[b] = "ready")
  /\ checks' = [checks EXCEPT ![b] = "idle"]
  /\ successes' = [successes EXCEPT ![b] = UpTo(@, HealthyThreshold)]
  /\ LET recovers == ~healthy[b] /\ successes'[b] >= HealthyThreshold /\ failures[b] = 0
     IN  /\ healthy' = [healthy EXCEPT ![b] = @ \/ recovers]
         /\ failures' = [failures EXCEPT ![b] = IF recovers THEN 0 ELSE @]
         /\ counter' = IF recovers THEN 0 ELSE counter
  /\ UNCHANGED <<poolVars, activeConns, balancer, failover, starting>>

\* A success clears the failures only when it makes the back-end healthy.
CheckPassed(b) ==
  /\ checks[b] = "pinging" /\ (HealthMethod = "ping" => clients[b] = "ready")
  /\ checks' = [checks EXCEPT ![b] = "idle"]
  /\ successes' = [successes EXCEPT ![b] = UpTo(@, HealthyThreshold)]
  /\ LET recovers == ~healthy[b] /\ successes'[b] >= HealthyThreshold
     IN  /\ healthy' = [healthy EXCEPT ![b] = @ \/ recovers]
         /\ failures' = [failures EXCEPT ![b] = IF recovers THEN 0 ELSE @]
         /\ counter' = IF recovers THEN 0 ELSE counter
  /\ UNCHANGED <<poolVars, activeConns, balancer, failover, starting>>

(***************************************************************************)
(* The proxied methods, each with where its requests go: to one back-end   *)
(* with failover, to all with the results united, or to all.               *)
(***************************************************************************)
ToolProxies == {<<"ping", "one">>, <<"tools/call", "one">>, <<"tools/list", "union">>}
ResourceProxies ==
  {<<"resources/list", "union">>, <<"resources/read", "one">>,
   <<"resources/templates/list", "union">>, <<"resources/subscribe", "one">>,
   <<"resources/unsubscribe", "one">>}
PromptProxies == {<<"prompts/list", "union">>, <<"prompts/get", "one">>, <<"roots/list", "union">>}
TaskProxies ==
  {<<"completion/complete", "one">>, <<"logging/setLevel", "all">>, <<"tasks/get", "one">>,
   <<"tasks/result", "one">>, <<"tasks/cancel", "one">>, <<"tasks/list", "union">>}

Proxies == ToolProxies \cup ResourceProxies \cup PromptProxies \cup TaskProxies

\* A method that asks every healthy back-end; it does not look at closed.
FanOut(c, p) ==
  /\ p[2] # "one"
  /\ failover[c].pc = "idle" /\ balancer.initialized
  /\ failover' = IF GetHealthyBackends = <<>> THEN Returned(c, "failed")
                 ELSE [failover EXCEPT ![c].pc = p[2], ![c].snapshot = GetHealthyBackends,
                                       ![c].tried = ToSet(GetHealthyBackends)]
  /\ UNCHANGED <<poolVars, healthVars, loadVars, checks, balancer, starting>>

\* Here tried holds the back-ends that have not answered, sent those that did well.
FanOutAnswer(c) ==
  /\ failover[c].pc \in {"union", "all"}
  /\ \E b \in failover[c].tried :
       \E ok \in IF clients[b] = "ready" THEN BOOLEAN ELSE {FALSE} :
         failover' = [failover EXCEPT ![c].tried = @ \ {b},
                                      ![c].sent = IF ok THEN Append(@, b) ELSE @]
  /\ UNCHANGED <<poolVars, healthVars, loadVars, checks, balancer, starting>>

\* A union leaves out the back-ends that failed, all of them if need be; SetLogLevel
\* returns an error.
FanOutEnds(c) ==
  /\ failover[c].pc \in {"union", "all"} /\ failover[c].tried = {}
  /\ failover' = Returned(c, IF failover[c].pc = "all"
                                /\ Len(failover[c].sent) < Len(failover[c].snapshot)
                               THEN "failed" ELSE "done")
  /\ UNCHANGED <<poolVars, healthVars, loadVars, checks, balancer, starting>>

(***************************************************************************)
(* executeWithFailover                                                     *)
(***************************************************************************)
Begin(c, p) ==
  /\ p[2] = "one"
  /\ failover[c].pc = "idle" /\ balancer.initialized
  /\ failover' = [failover EXCEPT ![c].pc =
                    IF balancer.phase = "open" THEN "attempt" ELSE "refused"]
  /\ UNCHANGED <<poolVars, healthVars, loadVars, checks, balancer, starting>>

\* The head of the loop: the attempts are used or the snapshot is taken.
Attempt(c) ==
  /\ failover[c].pc = "attempt"
  /\ failover' =
       IF MayAttempt(failover[c].attempt) /\ GetHealthyBackends # <<>>
         THEN [failover EXCEPT ![c].pc = "select", ![c].attempt = @ + 1,
                               ![c].snapshot = GetHealthyBackends]
         ELSE Returned(c, "failed")
  /\ UNCHANGED <<poolVars, healthVars, loadVars, checks, balancer, starting>>

ContextIsDone(c) ==
  /\ failover[c].pc = "attempt"
  /\ failover' = Returned(c, "cancelled")
  /\ UNCHANGED <<poolVars, healthVars, loadVars, checks, balancer, starting>>

\* Mutated form: back-ends that were tried are tried again.
Select_Again(c) ==
  /\ failover[c].pc = "select"
  /\ \E i \in NextIndex(failover[c].snapshot) :
       LET b == failover[c].snapshot[i]
       IN  /\ activeConns' = [activeConns EXCEPT ![b] = @ + 1]
           /\ failover' = [failover EXCEPT ![c].pc = "sent", ![c].sent = Append(@, b)]
  /\ counter' = IF Strategy = "RoundRobin" THEN (counter + 1) % CounterModulus ELSE counter
  /\ UNCHANGED <<poolVars, healthVars, checks, balancer, starting>>

\* The strategy chooses; a back-end that was tried uses an attempt up.
Select(c) ==
  /\ failover[c].pc = "select"
  /\ \E i \in NextIndex(failover[c].snapshot) :
       LET b == failover[c].snapshot[i]
       IN  IF b \in failover[c].tried
             THEN /\ failover' = [failover EXCEPT ![c].pc = "attempt"]
                  /\ UNCHANGED activeConns
             ELSE /\ activeConns' = [activeConns EXCEPT ![b] = @ + 1]
                  /\ failover' = [failover EXCEPT ![c].pc = "sent", ![c].tried = @ \cup {b},
                                                  ![c].sent = Append(@, b)]
  /\ counter' = IF Strategy = "RoundRobin" THEN (counter + 1) % CounterModulus ELSE counter
  /\ UNCHANGED <<poolVars, healthVars, checks, balancer, starting>>

RequestSucceeds(c) ==
  /\ failover[c].pc = "sent" /\ clients[Last(failover[c].sent)] = "ready"
  /\ activeConns' = [activeConns EXCEPT ![Last(failover[c].sent)] = @ - 1]
  /\ failover' = [failover EXCEPT ![c].pc = "succeeded"]
  /\ UNCHANGED <<poolVars, healthVars, counter, checks, balancer, starting>>

\* recordRequestSuccess, on the way out.
RecordSuccess(c) ==
  /\ failover[c].pc = "succeeded"
  /\ LET b == Last(failover[c].sent)
     IN  /\ failures' = [failures EXCEPT ![b] = 0]
         /\ successes' = [successes EXCEPT ![b] = UpTo(@, HealthyThreshold)]
  /\ failover' = Returned(c, "done")
  /\ UNCHANGED <<poolVars, healthy, loadVars, checks, balancer, starting>>

\* An error that RetryableErrors lets pass on to the next back-end.
RequestFails(c) ==
  /\ failover[c].pc = "sent"
  /\ activeConns' = [activeConns EXCEPT ![Last(failover[c].sent)] = @ - 1]
  /\ failover' = [failover EXCEPT ![c].pc = "erred"]
  /\ UNCHANGED <<poolVars, healthVars, counter, checks, balancer, starting>>

RecordError(c) ==
  /\ failover[c].pc = "erred"
  /\ RecordFailure(Last(failover[c].sent))
  /\ failover' = [failover EXCEPT ![c].pc = "attempt"]
  /\ UNCHANGED <<poolVars, activeConns, checks, balancer, starting>>

\* A context error, a missing handshake or a response error below 500.
FinalError(c) ==
  /\ failover[c].pc = "sent"
  /\ activeConns' = [activeConns EXCEPT ![Last(failover[c].sent)] = @ - 1]
  /\ failover' = Returned(c, "cancelled")
  /\ UNCHANGED <<poolVars, healthVars, counter, checks, balancer, starting>>

LoadBalancerNext ==
  \/ \E b \in BackendIds :
       \/ AddBackendBegin(b) \/ AddBackendAppend(b) \/ AddBackendEnd(b) \/ RemoveBackend(b)
       \/ CheckFailed(b) \/ CheckPassed(b)
  \/ \E i \in Initializers :
       \/ InitializeBegin(i) \/ InitializeEnd(i)
       \/ \E b \in BackendIds : InitializeBackend(i, b)
  \/ CloseBegins \/ CloseFinishes \/ HealthTick
  \/ \E c \in Balanced :
       \/ \E p \in Proxies : Begin(c, p) \/ FanOut(c, p)
       \/ FanOutAnswer(c) \/ FanOutEnds(c) \/ Attempt(c) \/ ContextIsDone(c) \/ Select(c)
       \/ RequestSucceeds(c) \/ RecordSuccess(c) \/ RequestFails(c) \/ RecordError(c)
       \/ FinalError(c)

LoadBalancerSpec == LoadBalancerInit /\ [][LoadBalancerNext]_lbVars

\* The ticker fires, a ping ends by its timeout, and code that holds no lock goes on.
LoadBalancerFairness ==
  /\ WF_lbVars(HealthTick)
  /\ \A b \in BackendIds : WF_lbVars(CheckFailed(b) \/ CheckPassed(b))

-----------------------------------------------------------------------------
\* A request goes to a back-end at most once, whatever happens to the pool and to
\* the round-robin counter between its attempts: a call that is not idempotent is
\* not repeated on a server that may have run it.
TriedOnce == \A c \in Balanced : IsInjective(failover[c].sent)

\* A back-end of the pool whose Client is ready and whose checks fail no more is
\* healthy in the end, however it was marked: by a second Initialize, by health
\* checks, or by requests that fail.
BackendRecovers ==
  \A b \in BackendIds :
    <>[](clients[b] = "ready" /\ InPool(b) /\ balancer.phase = "open")
      /\ <>[][~CheckFailed(b)]_lbVars
      => []<>healthy[b]

\* "ListTools returns the union of tools from all healthy backends" (ListTools and
\* the other lists): a list that is returned has what each of them said.  It does
\* not hold: the ones that fail are left out, without an error.
UnionIsComplete ==
  [][\A c \in Balanced :
       failover[c].pc = "union" /\ failover'[c].pc = "done"
         => ToSet(failover[c].sent) = ToSet(failover[c].snapshot)]_lbVars

\* "UnhealthyThreshold is the number of consecutive failures before marking a
\* backend unhealthy" (HealthCheckConfig): a success since the last failure means
\* that the next failure alone does not mark the back-end, unless one is enough.
\* It does not hold, because a passed check leaves the failures counted.
OnlyConsecutiveFailures ==
  [][\A b \in BackendIds :
       CheckFailed(b) /\ healthy[b] /\ successes[b] > 0 /\ UnhealthyThreshold > 1
         => healthy'[b]]_lbVars

-----------------------------------------------------------------------------
\* failover holds one record for each request.
FailoverShape ==
  /\ failover = [c \in Balanced |-> failover[c]]
  /\ \A c \in Balanced :
       /\ DOMAIN failover[c] = {"pc", "attempt", "tried", "snapshot", "sent"}
       /\ failover[c].sent \in Seq(ToSet(failover[c].sent))

FansOut(c) == failover[c].pc \in {"union", "all"}

\* What tried knows of sent: with failover, all of it; in a fan-out, the others.
TriedKnowsSent ==
  \A c \in Balanced :
    /\ failover[c].pc = "idle" => failover[c].sent = <<>>
    /\ ~FansOut(c) => ToSet(failover[c].sent) \subseteq failover[c].tried
    /\ FansOut(c) => ToSet(failover[c].sent) \cap failover[c].tried = {}

LoadBalancerInv == FailoverShape /\ TriedKnowsSent /\ TriedOnce
=============================================================================
