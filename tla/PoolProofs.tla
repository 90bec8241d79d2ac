------------------------------ MODULE PoolProofs ------------------------------
(***************************************************************************)
(* Proofs about what surrounds a client's transport: its circuit breaker,  *)
(* the calls, the cache and the coalescer of a client, the load balancer   *)
(* and the aggregator, for any callers, servers and limits; and about the  *)
(* transports themselves.                                                  *)
(***************************************************************************)
EXTENDS ClientCalls, ClientCache, ClientBreaker, LoadBalancer, Aggregator,
        Coalescer, ClientTransports, FiniteSetTheorems, TLAPS

(***************************************************************************)
(* ClientBreaker                                                           *)
(***************************************************************************)

\* A request that is admitted, or ends in any way, leaves the test requests in
\* their slots.
LEMMA ClientBreakerStep ==
  ASSUME ClientBreakerInv, ClientBreakerNext
  PROVE  ClientBreakerInv'
<1> USE ClientBreakerAssumption DEF ClientBreakerInv, ClientBreakerTypeOK, TestsHoldSlots
<1>1. CASE BreakerTick
  BY <1>1 DEF BreakerTick
<1>2. ASSUME NEW r \in Requesters, AdmitClosed(r) PROVE ClientBreakerInv'
  BY <1>2 DEF AdmitClosed
<1>3. ASSUME NEW r \in Requesters, AdmitFirstTest(r) PROVE ClientBreakerInv'
  <2>1. IsFiniteSet(tests') /\ Cardinality(tests') = 1
    BY <1>3, FS_Singleton DEF AdmitFirstTest
  <2> QED
    BY <1>3, <2>1 DEF AdmitFirstTest
<1>4. ASSUME NEW r \in Requesters, AdmitTest(r) PROVE ClientBreakerInv'
  <2>1. r \notin tests
    BY <1>4 DEF AdmitTest
  <2>2. IsFiniteSet(tests') /\ Cardinality(tests') = Cardinality(tests) + 1
    BY <1>4, <2>1, FS_AddElement DEF AdmitTest
  <2>3. Cardinality(tests) \in Nat
    BY FS_CardinalityType
  <2> QED
    BY <1>4, <2>2, <2>3 DEF AdmitTest
<1>5. ASSUME NEW r \in Requesters, Succeeds(r) \/ EndsUncounted(r) \/ Fails(r)
      PROVE  ClientBreakerInv'
  <2>1. tests' = {} \/ tests' = tests \ {r}
    BY <1>5 DEF Succeeds, EndsUncounted, Fails
  <2>2. /\ IsFiniteSet(tests \ {r})
        /\ Cardinality(tests \ {r}) <= Cardinality(tests)
        /\ Cardinality(tests \ {r}) \in Nat /\ Cardinality(tests) \in Nat
    <3>1. IsFiniteSet(tests \ {r}) /\ Cardinality(tests) \in Nat
      BY FS_RemoveElement, FS_CardinalityType
    <3>2. Cardinality(tests \ {r}) <= Cardinality(tests)
      BY FS_Subset
    <3>3. Cardinality(tests \ {r}) \in Nat
      BY <3>1, FS_CardinalityType
    <3> QED
      BY <3>1, <3>2, <3>3
  <2>3. IsFiniteSet({}) /\ Cardinality({}) = 0
    BY FS_EmptySet
  <2> QED
    BY <1>5, <2>1, <2>2, <2>3 DEF Succeeds, EndsUncounted, Fails
<1> QED
  BY <1>1, <1>2, <1>3, <1>4, <1>5 DEF ClientBreakerNext

\* The breaker's state, counters and test requests always fit together.
THEOREM ClientBreakerInvariance == ClientBreakerSpec => []ClientBreakerInv
<1>1. ClientBreakerInit => ClientBreakerInv
  BY ClientBreakerAssumption, FS_EmptySet
  DEF ClientBreakerInit, ClientBreakerInv, ClientBreakerTypeOK, TestsHoldSlots
<1>2. ClientBreakerInv /\ [ClientBreakerNext]_breakerVars => ClientBreakerInv'
  <2>1. ClientBreakerInv /\ UNCHANGED breakerVars => ClientBreakerInv'
    BY DEF breakerVars, ClientBreakerInv, ClientBreakerTypeOK, TestsHoldSlots
  <2> QED
    BY <2>1, ClientBreakerStep
<1> QED
  BY <1>1, <1>2, PTL DEF ClientBreakerSpec

\* A half-open period never has more test requests in flight than
\* HalfOpenMaxRequests, whatever requests end during it.
THEOREM ClientBreakerLimit == ClientBreakerSpec => []TestsWithinLimit
<1>1. ClientBreakerInv => TestsWithinLimit
  <2> SUFFICES ASSUME ClientBreakerInv PROVE TestsWithinLimit
    OBVIOUS
  <2>1. Cardinality(tests) \in Nat /\ Cardinality({}) = 0
    BY FS_CardinalityType, FS_EmptySet DEF ClientBreakerInv, TestsHoldSlots
  <2> QED
    BY <2>1, ClientBreakerAssumption
    DEF ClientBreakerInv, ClientBreakerTypeOK, TestsHoldSlots, TestsWithinLimit
<1> QED
  BY <1>1, ClientBreakerInvariance, PTL

(***************************************************************************)
(* Aggregator                                                              *)
(***************************************************************************)

\* No step of AddServer, RemoveServer, Close or a health check drops an open
\* Client, and no operation of a user touches one.
LEMMA AggregatorStep ==
  ASSUME AggregatorInv, AggregatorNext
  PROVE  AggregatorInv'
<1> USE AggregatorAssumption
    DEF AggregatorInv, AggregatorTypeOK, StoredUnderOwnId, NoClientLeaked, Registered
<1>1. ASSUME NEW a \in Adders, AddServer(a) PROVE AggregatorInv'
  BY <1>1 DEF AddServer
<1>2. ASSUME NEW a \in Adders, AddServerStores(a) PROVE AggregatorInv'
  <2>1. CASE servers[IdOf[a]] = NoServer
    <3>1. Registered' = Registered \cup {a}
      BY <1>2, <2>1 DEF AddServerStores
    <3>2. AggregatorTypeOK' /\ StoredUnderOwnId'
      BY <1>2, <2>1 DEF AddServerStores
    <3>3. NoClientLeaked'
      BY <1>2, <2>1, <3>1 DEF AddServerStores
    <3> QED
      BY <3>2, <3>3
  <2>2. CASE servers[IdOf[a]] # NoServer
    BY <1>2, <2>2 DEF AddServerStores
  <2> QED
    BY <2>1, <2>2
<1>3. ASSUME NEW a \in Adders, CloseClient(a) PROVE AggregatorInv'
  BY <1>3 DEF CloseClient
<1>4. ASSUME NEW id \in ServerIds, RemoveServer(id) PROVE AggregatorInv'
  BY <1>4 DEF RemoveServer
<1>5. CASE CloseAggregator
  BY <1>5 DEF CloseAggregator
<1>6. ASSUME UNCHANGED <<servers, aggClient, adds, closing>> PROVE AggregatorInv'
  BY <1>6
<1>7. ASSUME NEW a \in Adders,
             \/ HealthCheck(a) \/ InvalidateTools(a)
             \/ \E u \in Users : GetToolsCached(u, a) \/ GetToolsFetches(u, a)
      PROVE  UNCHANGED <<servers, aggClient, adds, closing>>
  BY <1>7 DEF HealthCheck, InvalidateTools, GetToolsCached, GetToolsFetches
<1>8. ASSUME NEW u \in Users,
             \/ GetToolsStores(u) \/ GetToolsFails(u) \/ ListAllTools(u) \/ CallBareName(u)
             \/ Consulted(u) \/ RouteCall(u) \/ CallReturns(u)
             \/ \E id \in ServerIds : CallQualifiedName(u, id)
      PROVE  UNCHANGED <<servers, aggClient, adds, closing>>
  BY <1>8 DEF GetToolsStores, GetToolsFails, ListAllTools, CallBareName, Consulted, RouteCall,
              CallReturns, CallQualifiedName
<1> HIDE DEF AggregatorInv
<1> QED
  BY <1>1, <1>2, <1>3, <1>4, <1>5, <1>6, <1>7, <1>8 DEF AggregatorNext

\* The map holds what AddServer stored, and every open Client is accounted for.
THEOREM AggregatorInvariance == AggregatorSpec => []AggregatorInv
<1>1. AggregatorInit => AggregatorInv
  BY AggregatorAssumption
  DEF AggregatorInit, AggregatorInv, AggregatorTypeOK, StoredUnderOwnId, NoClientLeaked, Registered
<1>2. AggregatorInv /\ [AggregatorNext]_aggVars => AggregatorInv'
  <2>1. AggregatorInv /\ UNCHANGED aggVars => AggregatorInv'
    BY DEF aggVars, AggregatorInv, AggregatorTypeOK, StoredUnderOwnId, NoClientLeaked, Registered
  <2> QED
    BY <2>1, AggregatorStep
<1> QED
  BY <1>1, <1>2, PTL DEF AggregatorSpec

\* An open Client is in the map, with the AddServer that made it, or with the
\* call that took it out and will close it, however the calls interleave.
THEOREM AggregatorLeaksNoClient == AggregatorSpec => []NoClientLeaked
<1>1. AggregatorInv => NoClientLeaked
  BY DEF AggregatorInv
<1> QED
  BY <1>1, AggregatorInvariance, PTL

(***************************************************************************)
(* ClientCalls                                                             *)
(***************************************************************************)

\* A step that only moves a call, without giving it a key, disturbs nothing.
LEMMA CallMoves ==
  ASSUME CallsInv, NEW c \in Callers, NEW call \in Call,
         call.pc # "idle", call.key = calls[c].key,
         calls' = [calls EXCEPT ![c] = call],
         UNCHANGED <<nextKey, callWire, seenKeys, effects>>
  PROVE  CallsInv'
<1> USE DEF CallsInv, CallsTypeOK
<1>1. calls' \in [Callers -> Call]
  OBVIOUS
<1>2. \A d \in Callers : /\ calls'[d].key = calls[d].key
                         /\ calls'[d].pc = "idle" => calls[d].pc = "idle"
                         /\ calls[d].pc # "idle" => calls'[d].pc # "idle"
  OBVIOUS
<1>3. CallsTypeOK'
  BY <1>1
<1>4. KeysFresh'
  BY <1>2 DEF KeysFresh
<1>5. WireCarriesKey'
  BY <1>2 DEF WireCarriesKey
<1>6. IdleUntouched' /\ EffectSeen'
  BY <1>2 DEF IdleUntouched, EffectSeen
<1> QED
  BY <1>3, <1>4, <1>5, <1>6

\* Every step of a caller and of the server keeps keys, requests and effects
\* together.
LEMMA CallsStep ==
  ASSUME CallsInv, CallsNext
  PROVE  CallsInv'
<1> USE ClientCallsAssumption DEF CallsInv, CallsTypeOK
<1>1. CASE Initialize \/ \E c \in Callers : CallCtxEnds(c)
  <2>1. UNCHANGED <<calls, nextKey, callWire, seenKeys, effects>>
    BY <1>1 DEF Initialize, CallCtxEnds
  <2> QED
    BY <2>1 DEF KeysFresh, WireCarriesKey, IdleUntouched, EffectSeen
<1>2. ASSUME NEW c \in Callers,
             NEW pc \in {"coalesced", "attempt", "sent", "waiting", "returned", "failed"},
             Goes(c, pc), UNCHANGED <<nextKey, callWire, seenKeys, effects>>
      PROVE  CallsInv'
  <2> DEFINE call == [calls[c] EXCEPT !.pc = pc]
  <2>1. call \in Call /\ call.pc # "idle" /\ call.key = calls[c].key
    BY DEF Call
  <2>2. calls' = [calls EXCEPT ![c] = call]
    BY <1>2 DEF Goes
  <2> HIDE DEF call
  <2> QED
    BY <1>2, <2>1, <2>2, CallMoves
<1>3. ASSUME NEW c \in Callers, NEW m \in Helpers, CallHelper(c, m) PROVE CallsInv'
  <2>1. CASE UNCHANGED nextKey /\ \E pc \in {"failed", "coalesced", "attempt"} : Goes(c, pc)
    BY <1>2, <1>3, <2>1 DEF CallHelper
  <2>2. CASE /\ calls' = [calls EXCEPT ![c] = [pc |-> "attempt", attempt |-> 0, key |-> nextKey]]
             /\ nextKey' = nextKey + 1
    <3>1. UNCHANGED <<callWire, seenKeys, effects>> /\ calls[c].pc = "idle"
      BY <1>3 DEF CallHelper
    <3>2. CallsTypeOK'
      BY <2>2, <3>1 DEF Call, NoKey
    <3>3. \A d \in Callers : d # c => calls'[d] = calls[d]
      BY <2>2
    <3>4. calls'[c].key = nextKey /\ calls'[c].pc = "attempt"
      BY <2>2
    <3>5. KeysFresh'
      BY <2>2, <3>1, <3>3, <3>4 DEF KeysFresh, Call, NoKey
    <3>6. WireCarriesKey'
      BY <3>1, <3>3 DEF WireCarriesKey
    <3>7. IdleUntouched' /\ EffectSeen'
      BY <3>1, <3>3, <3>4 DEF IdleUntouched, EffectSeen
    <3> QED
      BY <3>2, <3>5, <3>6, <3>7
  <2> QED
    BY <1>3, <2>1, <2>2 DEF CallHelper
<1>4. ASSUME NEW c \in Callers,
             \/ CallWithoutKey(c) \/ AttemptSucceeds(c) \/ AttemptFails(c)
             \/ CallFailsForGood(c) \/ BackoffCancelled(c)
      PROVE  CallsInv'
  BY <1>2, <1>4
  DEF CallWithoutKey, AttemptSucceeds, AttemptFails, CallFailsForGood, BackoffCancelled
<1>5. ASSUME NEW c \in Callers, BackoffEnds(c) PROVE CallsInv'
  <2> DEFINE call == [calls[c] EXCEPT !.pc = "attempt", !.attempt = @ + 1]
  <2>1. call \in Call /\ call.pc # "idle" /\ call.key = calls[c].key
    <3>1. calls[c] \in Call /\ calls[c].attempt + 1 \in Nat
      BY DEF Call
    <3>2. call.pc = "attempt" /\ call.key = calls[c].key
      BY <3>1 DEF Call
    <3>3. call \in Call
      BY <3>1 DEF Call
    <3> QED
      BY <3>2, <3>3
  <2>2. calls' = [calls EXCEPT ![c] = call] /\ UNCHANGED <<nextKey, callWire, seenKeys, effects>>
    BY <1>5 DEF BackoffEnds
  <2> HIDE DEF call
  <2> QED
    BY <2>1, <2>2, CallMoves
<1>6. ASSUME NEW c \in Callers, CallDirect(c) PROVE CallsInv'
  <2> DEFINE request == [caller |-> c, attempt |-> calls[c].attempt, key |-> calls[c].key]
  <2>1. /\ calls' = [calls EXCEPT ![c].pc = "sent"]
        /\ callWire' = callWire \cup {request}
        /\ UNCHANGED <<nextKey, seenKeys, effects>>
    BY <1>6 DEF CallDirect, Goes
  <2>2. \A d \in Callers : /\ calls'[d].key = calls[d].key
                           /\ calls'[d].pc = "idle" => calls[d].pc = "idle"
                           /\ calls[d].pc # "idle" => calls'[d].pc # "idle"
    BY <2>1
  <2>3. CallsTypeOK'
    BY <2>1 DEF Call
  <2>4. KeysFresh'
    BY <2>1, <2>2 DEF KeysFresh
  <2>5. calls'[c].pc = "sent"
    BY <2>1
  <2>6. WireCarriesKey'
    BY <2>1, <2>2, <2>5 DEF WireCarriesKey
  <2>7. IdleUntouched' /\ EffectSeen'
    BY <2>1, <2>2 DEF IdleUntouched, EffectSeen
  <2> QED
    BY <2>3, <2>4, <2>6, <2>7
<1>7. ASSUME NEW r \in callWire, Executes(r) PROVE CallsInv'
  <2>1. r.caller \in Callers /\ r.key \in Nat /\ r.key = calls[r.caller].key
        /\ calls[r.caller].pc # "idle"
    BY DEF WireCarriesKey
  <2>2. CallsTypeOK'
    <3>1. effects' \in [Callers -> Nat]
      BY <1>7, <2>1 DEF Executes
    <3>2. seenKeys' \subseteq Nat \ {NoKey} /\ callWire' \subseteq callWire
      BY <1>7, <2>1 DEF Executes
    <3> QED
      BY <1>7, <3>1, <3>2 DEF Executes
  <2>3. KeysFresh'
    BY <1>7, <2>1 DEF Executes, KeysFresh
  <2>4. IdleUntouched' /\ WireCarriesKey'
    BY <1>7, <2>1 DEF Executes, IdleUntouched, WireCarriesKey
  <2>5. EffectSeen'
    BY <1>7, <2>1 DEF Executes, EffectSeen, KeysFresh, NoKey
  <2> QED
    BY <2>2, <2>3, <2>4, <2>5
<1> HIDE DEF CallsInv
<1> QED
  BY <1>1, <1>3, <1>4, <1>5, <1>6, <1>7 DEF CallsNext

\* Calls, their keys, the requests on the wire and the effects always fit
\* together.
THEOREM CallsInvariance == CallsSpec => []CallsInv
<1> USE DEF CallsInv, CallsTypeOK, KeysFresh, WireCarriesKey, IdleUntouched, EffectSeen
<1>1. CallsInit => CallsInv
  BY DEF CallsInit, Call, NoKey
<1>2. CallsInv /\ [CallsNext]_callPathVars => CallsInv'
  <2>1. CallsInv /\ UNCHANGED callPathVars => CallsInv'
    BY DEF callPathVars
  <2> QED
    BY <2>1, CallsStep
<1> QED
  BY <1>1, <1>2, PTL DEF CallsSpec

\* What a call with a key asks for is done at most once, for any number of
\* attempts and however late the server executes them.
THEOREM CallsEffectOnce == CallsSpec => []EffectOnce
<1>1. CallsInv => EffectOnce
  BY DEF CallsInv, CallsTypeOK, EffectSeen, EffectOnce
<1> QED
  BY <1>1, CallsInvariance, PTL

(***************************************************************************)
(* LoadBalancer                                                            *)
(***************************************************************************)

\* What Append does to a sequence that lacks the new element.
LEMMA AppendFresh ==
  ASSUME NEW s, s \in Seq(ToSet(s)), NEW b
  PROVE  /\ ToSet(Append(s, b)) = ToSet(s) \cup {b}
         /\ Append(s, b) \in Seq(ToSet(Append(s, b)))
         /\ IsInjective(s) /\ b \notin ToSet(s) => IsInjective(Append(s, b))
<1> DEFINE S == ToSet(s) \cup {b}
<1>1. s \in Seq(S)
  OBVIOUS
<1>2. Append(s, b) \in Seq(S) /\ Len(Append(s, b)) = Len(s) + 1
  BY <1>1
<1>3. /\ \A i \in 1..Len(s) : Append(s, b)[i] = s[i]
      /\ Append(s, b)[Len(s) + 1] = b
  BY <1>1
<1>4. DOMAIN Append(s, b) = 1..(Len(s) + 1) /\ DOMAIN s = 1..Len(s) /\ Len(s) \in Nat
  BY <1>1, <1>2
<1> HIDE DEF S
<1>5. ToSet(Append(s, b)) = ToSet(s) \cup {b}
  BY <1>3, <1>4 DEF ToSet
<1>6. ASSUME IsInjective(s), b \notin ToSet(s) PROVE IsInjective(Append(s, b))
  BY <1>3, <1>4, <1>6 DEF IsInjective, ToSet
<1> QED
  BY <1>2, <1>5, <1>6 DEF S

\* A step of one request that leaves its own record in order.
LEMMA RequestMoves ==
  ASSUME LoadBalancerInv, NEW c \in Balanced, NEW r,
         failover' = [failover EXCEPT ![c] = r],
         DOMAIN r = {"pc", "attempt", "tried", "snapshot", "sent"},
         r.sent \in Seq(ToSet(r.sent)), IsInjective(r.sent), r.pc # "idle",
         r.pc \notin {"union", "all"} => ToSet(r.sent) \subseteq r.tried,
         r.pc \in {"union", "all"} => ToSet(r.sent) \cap r.tried = {}
  PROVE  LoadBalancerInv'
<1> USE DEF LoadBalancerInv
<1>1. /\ failover'[c] = r /\ \A d \in Balanced : d # c => failover'[d] = failover[d]
      /\ failover' = [d \in Balanced |-> failover'[d]]
  BY DEF FailoverShape
<1>2. FailoverShape'
  BY <1>1 DEF FailoverShape
<1>3. TriedKnowsSent'
  BY <1>1 DEF TriedKnowsSent, FansOut
<1>4. TriedOnce'
  BY <1>1 DEF TriedOnce
<1> QED
  BY <1>2, <1>3, <1>4

\* A request that returns has nothing tried and nothing sent.
LEMMA RequestReturns ==
  ASSUME LoadBalancerInv, NEW c \in Balanced, NEW how \in {"failed", "done", "cancelled"},
         failover' = Returned(c, how)
  PROVE  LoadBalancerInv'
<1> DEFINE r == [failover[c] EXCEPT !.pc = how, !.attempt = 0, !.snapshot = <<>>,
                                    !.tried = {}, !.sent = <<>>]
<1>1. failover' = [failover EXCEPT ![c] = r]
  BY DEF Returned, LoadBalancerInv, FailoverShape
<1>2. /\ DOMAIN r = {"pc", "attempt", "tried", "snapshot", "sent"}
      /\ r.pc = how /\ r.sent = <<>> /\ r.tried = {}
  BY DEF LoadBalancerInv, FailoverShape
<1> HIDE DEF r
<1>3. ToSet(<<>>) = {} /\ IsInjective(<<>>) /\ <<>> \in Seq(ToSet(<<>>))
  BY DEF ToSet, IsInjective
<1>4. /\ r.pc # "idle" /\ r.pc \notin {"union", "all"}
      /\ ToSet(r.sent) \subseteq r.tried
      /\ r.sent \in Seq(ToSet(r.sent)) /\ IsInjective(r.sent)
  BY <1>2, <1>3
<1> QED
  BY <1>1, <1>2, <1>4, RequestMoves

\* A request whose record changes in pc, attempt and snapshot only, outside a
\* fan-out.
LEMMA RequestGoesOn ==
  ASSUME LoadBalancerInv, NEW c \in Balanced, NEW r, ~FansOut(c),
         failover' = [failover EXCEPT ![c] = r],
         DOMAIN r = DOMAIN failover[c],
         r.pc \in {"attempt", "refused", "select", "succeeded", "erred"},
         r.tried = failover[c].tried, r.sent = failover[c].sent
  PROVE  LoadBalancerInv'
<1>1. /\ DOMAIN r = {"pc", "attempt", "tried", "snapshot", "sent"}
      /\ r.sent \in Seq(ToSet(r.sent)) /\ IsInjective(r.sent)
  BY DEF LoadBalancerInv, FailoverShape, TriedOnce
<1>2. ToSet(r.sent) \subseteq r.tried
  BY DEF LoadBalancerInv, TriedKnowsSent
<1>3. r.pc # "idle" /\ r.pc \notin {"union", "all"}
  OBVIOUS
<1> QED
  BY <1>1, <1>2, <1>3, RequestMoves, Zenon

\* Whatever happens to the pool, a request is sent to no back-end twice.
LEMMA LoadBalancerStep ==
  ASSUME LoadBalancerInv, LoadBalancerNext
  PROVE  LoadBalancerInv'
<1>1. ASSUME UNCHANGED failover PROVE LoadBalancerInv'
  BY <1>1 DEF LoadBalancerInv, FailoverShape, TriedKnowsSent, FansOut, TriedOnce
<1>2. ASSUME NEW b \in BackendIds,
             \/ AddBackendBegin(b) \/ AddBackendAppend(b) \/ AddBackendEnd(b) \/ RemoveBackend(b)
             \/ CheckFailed(b) \/ CheckPassed(b)
      PROVE  UNCHANGED failover
  BY <1>2 DEF AddBackendBegin, AddBackendAppend, AddBackendEnd, RemoveBackend, CheckFailed,
              CheckPassed
<1>3. ASSUME NEW i \in Initializers,
             \/ InitializeBegin(i) \/ InitializeEnd(i)
             \/ \E b \in BackendIds : InitializeBackend(i, b)
      PROVE  UNCHANGED failover
  BY <1>3 DEF InitializeBegin, InitializeEnd, InitializeBackend
<1>4. ASSUME CloseBegins \/ CloseFinishes \/ HealthTick PROVE UNCHANGED failover
  BY <1>4 DEF CloseBegins, CloseFinishes, HealthTick
<1>5. ASSUME NEW c \in Balanced, NEW p \in Proxies, Begin(c, p) PROVE LoadBalancerInv'
  <2> DEFINE r == [failover[c] EXCEPT !.pc = IF balancer.phase = "open" THEN "attempt"
                                                                       ELSE "refused"]
  <2>1. failover' = [failover EXCEPT ![c] = r] /\ ~FansOut(c)
    BY <1>5 DEF Begin, FansOut
  <2>2. /\ DOMAIN r = DOMAIN failover[c] /\ r.pc \in {"attempt", "refused"}
        /\ r.tried = failover[c].tried /\ r.sent = failover[c].sent
    BY DEF LoadBalancerInv, FailoverShape
  <2> HIDE DEF r
  <2> QED
    BY <2>1, <2>2, RequestGoesOn
<1>6. ASSUME NEW c \in Balanced, NEW p \in Proxies, FanOut(c, p) PROVE LoadBalancerInv'
  <2> DEFINE r == [failover[c] EXCEPT !.pc = p[2], !.snapshot = GetHealthyBackends,
                                      !.tried = ToSet(GetHealthyBackends)]
  <2>1. p[2] \in {"union", "all"}
    BY <1>6 DEF FanOut, Proxies, ToolProxies, ResourceProxies, PromptProxies, TaskProxies
  <2>2. CASE failover' = Returned(c, "failed")
    BY <2>2, RequestReturns
  <2>3. CASE failover' = [failover EXCEPT ![c].pc = p[2], ![c].snapshot = GetHealthyBackends,
                                          ![c].tried = ToSet(GetHealthyBackends)]
    <3>1. failover' = [failover EXCEPT ![c] = r]
      BY <2>3 DEF LoadBalancerInv, FailoverShape
    <3>2. /\ DOMAIN r = {"pc", "attempt", "tried", "snapshot", "sent"}
          /\ r.pc = p[2] /\ r.sent = failover[c].sent
      BY DEF LoadBalancerInv, FailoverShape
    <3>3. failover[c].sent = <<>>
      BY <1>6 DEF FanOut, LoadBalancerInv, TriedKnowsSent
    <3> HIDE DEF r
    <3>4. ToSet(<<>>) = {} /\ IsInjective(<<>>) /\ <<>> \in Seq(ToSet(<<>>))
      BY DEF ToSet, IsInjective
    <3>5. /\ r.sent \in Seq(ToSet(r.sent)) /\ IsInjective(r.sent)
          /\ ToSet(r.sent) \cap r.tried = {} /\ r.pc \in {"union", "all"} /\ r.pc # "idle"
      BY <2>1, <3>2, <3>3, <3>4
    <3> QED
      BY <3>1, <3>2, <3>5, RequestMoves
  <2>4. \/ failover' = Returned(c, "failed")
        \/ failover' = [failover EXCEPT ![c].pc = p[2], ![c].snapshot = GetHealthyBackends,
                                        ![c].tried = ToSet(GetHealthyBackends)]
    BY <1>6 DEF FanOut
  <2> QED
    BY <2>2, <2>3, <2>4
<1>7. ASSUME NEW c \in Balanced, FanOutAnswer(c) PROVE LoadBalancerInv'
  <2>1. PICK b \in failover[c].tried, ok \in BOOLEAN :
          failover' = [failover EXCEPT ![c].tried = @ \ {b},
                                       ![c].sent = IF ok THEN Append(@, b) ELSE @]
    BY <1>7 DEF FanOutAnswer
  <2> DEFINE r == [failover[c] EXCEPT !.tried = @ \ {b}, !.sent = IF ok THEN Append(@, b) ELSE @]
  <2>2. failover' = [failover EXCEPT ![c] = r]
    BY <2>1 DEF LoadBalancerInv, FailoverShape
  <2>3. /\ DOMAIN r = {"pc", "attempt", "tried", "snapshot", "sent"}
        /\ r.pc = failover[c].pc /\ r.tried = failover[c].tried \ {b}
        /\ r.sent = failover[c].sent \/ r.sent = Append(failover[c].sent, b)
    BY DEF LoadBalancerInv, FailoverShape
  <2>4. /\ failover[c].pc \in {"union", "all"}
        /\ failover[c].sent \in Seq(ToSet(failover[c].sent)) /\ IsInjective(failover[c].sent)
        /\ ToSet(failover[c].sent) \cap failover[c].tried = {}
    BY <1>7 DEF FanOutAnswer, LoadBalancerInv, FailoverShape, TriedOnce, TriedKnowsSent, FansOut
  <2> HIDE DEF r
  <2>5. /\ r.sent \in Seq(ToSet(r.sent)) /\ IsInjective(r.sent)
        /\ ToSet(r.sent) \cap r.tried = {}
    <3>1. CASE r.sent = failover[c].sent
      BY <2>3, <2>4, <3>1
    <3>2. CASE r.sent = Append(failover[c].sent, b)
      <4>1. b \notin ToSet(failover[c].sent)
        BY <2>4
      <4>2. ToSet(r.sent) = ToSet(failover[c].sent) \cup {b}
        BY <2>4, <3>2, AppendFresh
      <4>3. r.sent \in Seq(ToSet(r.sent)) /\ IsInjective(r.sent)
        BY <2>4, <3>2, <4>1, AppendFresh
      <4> QED
        BY <2>3, <2>4, <4>2, <4>3
    <3> QED
      BY <2>3, <3>1, <3>2
  <2> QED
    BY <2>2, <2>3, <2>4, <2>5, RequestMoves
<1>8. ASSUME NEW c \in Balanced,
             FanOutEnds(c) \/ ContextIsDone(c) \/ RecordSuccess(c) \/ FinalError(c)
      PROVE  LoadBalancerInv'
  <2>1. \E how \in {"failed", "done", "cancelled"} : failover' = Returned(c, how)
    BY <1>8 DEF FanOutEnds, ContextIsDone, RecordSuccess, FinalError
  <2> QED
    BY <2>1, RequestReturns
<1>9. ASSUME NEW c \in Balanced, Attempt(c) PROVE LoadBalancerInv'
  <2> DEFINE r == [failover[c] EXCEPT !.pc = "select", !.attempt = @ + 1,
                                      !.snapshot = GetHealthyBackends]
  <2>1. CASE failover' = Returned(c, "failed")
    BY <2>1, RequestReturns
  <2>2. CASE failover' = [failover EXCEPT ![c].pc = "select", ![c].attempt = @ + 1,
                                          ![c].snapshot = GetHealthyBackends]
    <3>1. failover' = [failover EXCEPT ![c] = r] /\ ~FansOut(c)
      BY <1>9, <2>2 DEF Attempt, FansOut, LoadBalancerInv, FailoverShape
    <3>2. /\ DOMAIN r = DOMAIN failover[c] /\ r.pc = "select"
          /\ r.tried = failover[c].tried /\ r.sent = failover[c].sent
      BY DEF LoadBalancerInv, FailoverShape
    <3> HIDE DEF r
    <3> QED
      BY <3>1, <3>2, RequestGoesOn
  <2> QED
    BY <1>9, <2>1, <2>2 DEF Attempt
<1>10. ASSUME NEW c \in Balanced, Select(c) PROVE LoadBalancerInv'
  <2>1. PICK b :
          \/ failover' = [failover EXCEPT ![c].pc = "attempt"]
          \/ /\ b \notin failover[c].tried
             /\ failover' = [failover EXCEPT ![c].pc = "sent", ![c].tried = @ \cup {b},
                                             ![c].sent = Append(@, b)]
    BY <1>10 DEF Select
  <2>2. /\ failover[c].pc = "select" /\ ~FansOut(c)
        /\ failover[c].sent \in Seq(ToSet(failover[c].sent)) /\ IsInjective(failover[c].sent)
        /\ ToSet(failover[c].sent) \subseteq failover[c].tried
    BY <1>10 DEF Select, LoadBalancerInv, FailoverShape, TriedOnce, TriedKnowsSent, FansOut
  <2>3. CASE failover' = [failover EXCEPT ![c].pc = "attempt"]
    <3> DEFINE r == [failover[c] EXCEPT !.pc = "attempt"]
    <3>1. failover' = [failover EXCEPT ![c] = r]
      BY <2>3
    <3>2. /\ DOMAIN r = DOMAIN failover[c] /\ r.pc = "attempt"
          /\ r.tried = failover[c].tried /\ r.sent = failover[c].sent
      BY DEF LoadBalancerInv, FailoverShape
    <3> HIDE DEF r
    <3> QED
      BY <2>2, <3>1, <3>2, RequestGoesOn
  <2>4. CASE /\ b \notin failover[c].tried
             /\ failover' = [failover EXCEPT ![c].pc = "sent", ![c].tried = @ \cup {b},
                                             ![c].sent = Append(@, b)]
    <3> DEFINE r == [failover[c] EXCEPT !.pc = "sent", !.tried = @ \cup {b},
                                        !.sent = Append(@, b)]
    <3>1. failover' = [failover EXCEPT ![c] = r]
      BY <2>4 DEF LoadBalancerInv, FailoverShape
    <3>2. /\ DOMAIN r = {"pc", "attempt", "tried", "snapshot", "sent"} /\ r.pc = "sent"
          /\ r.tried = failover[c].tried \cup {b} /\ r.sent = Append(failover[c].sent, b)
      BY DEF LoadBalancerInv, FailoverShape
    <3> HIDE DEF r
    <3>3. /\ r.sent \in Seq(ToSet(r.sent)) /\ IsInjective(r.sent)
          /\ ToSet(r.sent) \subseteq r.tried
      BY <2>2, <2>4, <3>2, AppendFresh
    <3> QED
      BY <3>1, <3>2, <3>3, RequestMoves
  <2> QED
    BY <2>1, <2>3, <2>4
<1>11. ASSUME NEW c \in Balanced, RequestSucceeds(c) \/ RequestFails(c) \/ RecordError(c)
       PROVE  LoadBalancerInv'
  <2>1. PICK pc \in {"succeeded", "erred", "attempt"} :
          failover' = [failover EXCEPT ![c].pc = pc] /\ ~FansOut(c)
    BY <1>11 DEF RequestSucceeds, RequestFails, RecordError, FansOut
  <2> DEFINE r == [failover[c] EXCEPT !.pc = pc]
  <2>2. failover' = [failover EXCEPT ![c] = r]
    BY <2>1
  <2>3. /\ DOMAIN r = DOMAIN failover[c] /\ r.pc = pc
        /\ r.tried = failover[c].tried /\ r.sent = failover[c].sent
    BY DEF LoadBalancerInv, FailoverShape
  <2> HIDE DEF r
  <2> QED
    BY <2>1, <2>2, <2>3, RequestGoesOn
<1> QED
  BY <1>1, <1>2, <1>3, <1>4, <1>5, <1>6, <1>7, <1>8, <1>9, <1>10, <1>11 DEF LoadBalancerNext

\* Each request's record stays in order, with what it tried and what it sent.
THEOREM LoadBalancerInvariance == LoadBalancerSpec => []LoadBalancerInv
<1>1. LoadBalancerInit => LoadBalancerInv
  <2> SUFFICES ASSUME LoadBalancerInit PROVE LoadBalancerInv
    OBVIOUS
  <2>1. ToSet(<<>>) = {} /\ IsInjective(<<>>) /\ <<>> \in Seq(ToSet(<<>>))
    BY DEF ToSet, IsInjective
  <2> QED
    BY <2>1 DEF LoadBalancerInit, LoadBalancerInv, FailoverShape, TriedKnowsSent, FansOut, TriedOnce
<1>2. LoadBalancerInv /\ [LoadBalancerNext]_lbVars => LoadBalancerInv'
  <2>1. LoadBalancerInv /\ UNCHANGED lbVars => LoadBalancerInv'
    BY DEF lbVars, LoadBalancerInv, FailoverShape, TriedKnowsSent, FansOut, TriedOnce
  <2> QED
    BY <2>1, LoadBalancerStep
<1> QED
  BY <1>1, <1>2, PTL DEF LoadBalancerSpec

\* A request goes to a back-end at most once, for any pool, strategy and number
\* of retries, while back-ends come, go and change their health.
THEOREM LoadBalancerTriesOnce == LoadBalancerSpec => []TriedOnce
<1>1. LoadBalancerInv => TriedOnce
  BY DEF LoadBalancerInv
<1> QED
  BY <1>1, LoadBalancerInvariance, PTL

(***************************************************************************)
(* ClientCache                                                             *)
(***************************************************************************)

\* A step of Send.
LEMMA SendStep ==
  ASSUME ClientCacheInv, NEW r \in Requests,
         SendLooksUp(r) \/ SendRegisters(r) \/ InnerSend(r) \/ InnerSendFails(r)
  PROVE  ClientCacheInv'
<1> USE DEF ClientCacheInv, ClientCacheTypeOK
<1>1. CASE SendLooksUp(r)
  <2>1. ClientCacheTypeOK'
    BY <1>1 DEF SendLooksUp
  <2>2. IdsInOrder'
    BY <1>1 DEF SendLooksUp, IdsInOrder
  <2>3. ResultsPastTable'
    BY <1>1, SMTT(30) DEF SendLooksUp, ResultsPastTable, PastTable, IdsInOrder
  <2> QED
    BY <2>1, <2>2, <2>3
<1>2. CASE SendRegisters(r)
  <2>1. ClientCacheTypeOK' /\ IdsInOrder'
    BY <1>2 DEF SendRegisters, IdsInOrder
  <2>2. ResultsPastTable'
    BY <1>2 DEF SendRegisters, ResultsPastTable, PastTable
  <2> QED
    BY <2>1, <2>2
<1>3. CASE InnerSend(r)
  <2>1. ClientCacheTypeOK' /\ IdsInOrder'
    BY <1>3 DEF InnerSend, IdsInOrder
  <2>2. ResultsPastTable'
    BY <1>3 DEF InnerSend, ResultsPastTable, PastTable
  <2> QED
    BY <2>1, <2>2
<1>4. CASE InnerSendFails(r)
  <2>1. ClientCacheTypeOK' /\ IdsInOrder'
    BY <1>4 DEF InnerSendFails, IdsInOrder
  <2>2. ResultsPastTable'
    BY <1>4 DEF InnerSendFails, ResultsPastTable, PastTable
  <2> QED
    BY <2>1, <2>2
<1> QED
  BY <1>1, <1>2, <1>3, <1>4

\* A step of the server or of receiveLoop.
LEMMA LoopStep ==
  ASSUME ClientCacheInv,
         \/ \E m \in wire : ServerAnswers(m) \/ LoopReceives(m) \/ LoopReceivesError(m)
         \/ ListsChange \/ LoopStores \/ LoopForwards \/ LoopStops \/ LoopFails
  PROVE  ClientCacheInv'
<1> USE DEF ClientCacheInv, ClientCacheTypeOK
<1>1. ASSUME NEW m \in wire, ServerAnswers(m) PROVE ClientCacheInv'
  BY <1>1 DEF ServerAnswers, IdsInOrder, ResultsPastTable, PastTable
<1>2. ASSUME NEW m \in wire, LoopReceives(m) PROVE ClientCacheInv'
  BY <1>2 DEF LoopReceives, IdsInOrder, ResultsPastTable, PastTable
<1>3. ASSUME NEW m \in wire, LoopReceivesError(m) PROVE ClientCacheInv'
  BY <1>3 DEF LoopReceivesError, IdsInOrder, ResultsPastTable, PastTable
<1>4. CASE ListsChange \/ LoopStops \/ LoopStores
  <2>1. ClientCacheTypeOK'
    <3>1. CASE ListsChange
      BY <3>1 DEF ListsChange
    <3>2. CASE LoopStops
      <4>1. looping' = [id |-> "nobody", value |-> 0, stage |-> "stopped"]
        BY <3>2 DEF LoopStops, Idle
      <4>2. UNCHANGED <<pendingFill, sent, wire, innerCh, answers, lists>>
        BY <3>2 DEF LoopStops
      <4> QED
        BY <4>1, <4>2
    <3>3. CASE LoopStores
      <4>1. looping' = [looping EXCEPT !.stage = "forwarding"]
        BY <3>3 DEF LoopStores
      <4> QED
        BY <3>3, <4>1 DEF LoopStores
    <3> QED
      BY <1>4, <3>1, <3>2, <3>3
  <2>2. IdsInOrder'
    BY <1>4 DEF ListsChange, LoopStops, LoopStores, IdsInOrder
  <2>3. ResultsPastTable'
    <3>1. /\ UNCHANGED <<sent, pendingFill, innerCh, answers>>
          /\ looping'.stage \in {"storing", "forwarding"} =>
               /\ looping.stage \in {"storing", "forwarding"}
               /\ looping'.value = looping.value /\ looping'.id = looping.id
      BY <1>4 DEF ListsChange, LoopStops, LoopStores, Idle
    <3> QED
      BY <3>1 DEF ResultsPastTable, PastTable
  <2> QED
    BY <2>1, <2>2, <2>3
<1>5. CASE LoopForwards \/ LoopFails
  <2>2. IdsInOrder'
    BY <1>5 DEF LoopForwards, LoopFails, IdsInOrder
  <2>3. PICK m \in [id : Requests \cup {"nobody"}, value : Nat] :
          /\ innerCh' = Append(innerCh, m)
          /\ m.value # 0 => PastTable(m.id)
    BY <1>5 DEF LoopForwards, LoopFails, ResultsPastTable
  <2>1. ClientCacheTypeOK'
    <3>1. innerCh' \in Seq([id : Requests \cup {"nobody"}, value : Nat])
      BY <2>3
    <3>2. \E stage \in {"waiting", "stopped"} :
            looping' = [id |-> "nobody", value |-> 0, stage |-> stage]
      BY <1>5 DEF LoopForwards, LoopFails, Idle
    <3>3. UNCHANGED <<pendingFill, sent, wire, answers, lists>>
      BY <1>5 DEF LoopForwards, LoopFails
    <3> QED
      BY <3>1, <3>2, <3>3
  <2>4. \A i \in 1..Len(innerCh') : innerCh'[i].value # 0 => PastTable(innerCh'[i].id)
    BY <2>3 DEF ResultsPastTable
  <2>5. /\ UNCHANGED <<sent, pendingFill, answers>>
        /\ looping'.stage \in {"waiting", "stopped"}
    BY <1>5 DEF LoopForwards, LoopFails, Idle
  <2>6. ResultsPastTable'
    BY <2>4, <2>5 DEF ResultsPastTable, PastTable
  <2> QED
    BY <2>1, <2>2, <2>6
<1> HIDE DEF ClientCacheInv
<1> QED
  BY <1>1, <1>2, <1>3, <1>4, <1>5

\* A step of Receive, or an entry that ages.
LEMMA ReceiveStep ==
  ASSUME ClientCacheInv,
         \/ \E m \in synthCh : ReceiveSynthetic(m)
         \/ ReceiveForwarded \/ ListEntriesAge
  PROVE  ClientCacheInv'
<1> USE DEF ClientCacheInv, ClientCacheTypeOK
<1>1. ASSUME NEW m \in synthCh, ReceiveSynthetic(m) PROVE ClientCacheInv'
  BY <1>1 DEF ReceiveSynthetic, IdsInOrder, ResultsPastTable, PastTable
<1>2. CASE ReceiveForwarded
  <2>1. innerCh \in Seq([id : Requests \cup {"nobody"}, value : Nat]) /\ innerCh # <<>>
    BY <1>2 DEF ReceiveForwarded
  <2>2. /\ Len(innerCh) \in Nat \ {0} /\ innerCh[1] = Head(innerCh)
        /\ innerCh' \in Seq([id : Requests \cup {"nobody"}, value : Nat])
        /\ Len(innerCh') = Len(innerCh) - 1
        /\ \A i \in 1..Len(innerCh') : innerCh'[i] = innerCh[i + 1]
    BY <1>2, <2>1 DEF ReceiveForwarded
  <2>3. Head(innerCh).value # 0 => PastTable(Head(innerCh).id)
    <3>1. 1 \in 1..Len(innerCh)
      BY <2>2
    <3> QED
      BY <2>2, <3>1 DEF ResultsPastTable
  <2>4. \A i \in 1..Len(innerCh') : innerCh'[i].value # 0 => PastTable(innerCh'[i].id)
    <3> SUFFICES ASSUME NEW i \in 1..Len(innerCh'), innerCh'[i].value # 0
                 PROVE  PastTable(innerCh'[i].id)
      OBVIOUS
    <3> HIDE DEF ClientCacheInv, ClientCacheTypeOK
    <3>1. i + 1 \in 1..Len(innerCh) /\ innerCh'[i] = innerCh[i + 1]
      BY <2>2
    <3>2. innerCh[i + 1].value # 0
      BY <3>1
    <3>3. PastTable(innerCh[i + 1].id)
      BY <3>1, <3>2 DEF ClientCacheInv, ResultsPastTable
    <3> QED
      BY <3>1, <3>3
  <2>5. /\ UNCHANGED <<sent, pendingFill, looping, wire, synthCh, lists>>
        /\ answers' = [r \in Requests |->
                         IF r = Head(innerCh).id
                           THEN [value |-> Head(innerCh).value, from |-> "server"]
                           ELSE answers[r]]
    BY <1>2 DEF ReceiveForwarded
  <2>6. ClientCacheTypeOK' /\ IdsInOrder'
    BY <2>2, <2>5 DEF IdsInOrder
  <2>7. ResultsPastTable'
    BY <2>3, <2>4, <2>5 DEF ResultsPastTable, PastTable
  <2> QED
    BY <2>6, <2>7
<1>3. CASE ListEntriesAge
  BY <1>3 DEF ListEntriesAge, IdsInOrder, ResultsPastTable, PastTable
<1> QED
  BY <1>1, <1>2, <1>3

\* The table of registered ids, the channels and the answers always fit together.
THEOREM ClientCacheInvariance == ClientCacheSpec => []ClientCacheInv
<1> USE DEF ClientCacheInv, ClientCacheTypeOK, IdsInOrder, ResultsPastTable, PastTable
<1>1. ClientCacheInit => ClientCacheInv
  BY DEF ClientCacheInit, Idle, NoAnswer
<1>2. ClientCacheInv /\ [ClientCacheNext]_clientCacheVars => ClientCacheInv'
  <2>1. ClientCacheInv /\ UNCHANGED clientCacheVars => ClientCacheInv'
    BY DEF clientCacheVars
  <2> HIDE DEF ClientCacheInv
  <2>2. ClientCacheInv /\ ClientCacheNext => ClientCacheInv'
    BY SendStep, LoopStep, ReceiveStep DEF ClientCacheNext
  <2> QED
    BY <2>1, <2>2
<1> QED
  BY <1>1, <1>2, PTL DEF ClientCacheSpec

\* No id stays registered once a result for it has gone through, however Send,
\* the server, receiveLoop and Receive interleave.
THEOREM ClientCacheForgetsNoFill == ClientCacheSpec => []NoFillForgotten
<1>1. ClientCacheInv => NoFillForgotten
  BY DEF ClientCacheInv, ClientCacheTypeOK, IdsInOrder, ResultsPastTable, PastTable, NoFillForgotten
<1> QED
  BY <1>1, ClientCacheInvariance, PTL

\* What a step leaves in the cache, in synthCh and with the client's answers stays
\* under the key it was stored with.
LEMMA MatchStep ==
  ASSUME ClientCacheInv, MatchInv, ClientCacheNext
  PROVE  MatchInv'
<1> USE DEF MatchInv
<1>1. ASSUME NEW r \in Requests, SendLooksUp(r) PROVE MatchInv'
  <2>1. CASE Cacheable(r) /\ Hit(CacheKey(r)) # {}
    <3>1. Cached(r) \in Hit(CacheKey(r))
      BY <2>1 DEF Cached
    <3>2. Cached(r) \in OwnEntries /\ Cached(r).key = CacheKey(r)
      BY <3>1 DEF Hit, Entry, ToSet
    <3>3. Cached(r).origin \in Requests /\ CacheKey(Cached(r).origin) = CacheKey(r)
      BY <3>2 DEF OwnEntries
    <3>4. synthCh' = synthCh \cup
            {[id |-> r, value |-> Cached(r).value, from |-> Cached(r).origin]}
      BY <1>1, <2>1 DEF SendLooksUp
    <3>5. \A m \in synthCh' : m.from \in Requests /\ CacheKey(m.from) = CacheKey(m.id)
      BY <3>3, <3>4
    <3> QED
      BY <1>1, <3>5 DEF SendLooksUp, AnswersMatch
  <2>2. CASE ~(Cacheable(r) /\ Hit(CacheKey(r)) # {})
    BY <1>1, <2>2 DEF SendLooksUp, AnswersMatch
  <2> QED
    BY <2>1, <2>2
<1>2. ASSUME NEW r \in Requests, SendRegisters(r) \/ InnerSend(r) \/ InnerSendFails(r)
      PROVE  MatchInv'
  BY <1>2 DEF SendRegisters, InnerSend, InnerSendFails, AnswersMatch
<1>3. ASSUME NEW m \in wire, ServerAnswers(m) \/ LoopReceives(m) \/ LoopReceivesError(m)
      PROVE  MatchInv'
  <2>1. m.id \in Requests
    BY DEF ClientCacheInv, ClientCacheTypeOK
  <2> QED
    BY <1>3, <2>1 DEF ServerAnswers, LoopReceives, LoopReceivesError, AnswersMatch
<1>4. CASE ListsChange \/ LoopForwards \/ LoopStops \/ LoopFails
  BY <1>4 DEF ListsChange, LoopForwards, LoopStops, LoopFails, Idle, AnswersMatch
<1>5. CASE LoopStores
  <2> DEFINE k    == CacheKey(looping.id)
             old  == {i \in DOMAIN entries : entries[i].key = k}
             new  == [key |-> k, value |-> looping.value, origin |-> looping.id, age |-> 0]
             kept == IF old # {} THEN RemoveAt(entries, CHOOSE i \in old : TRUE)
                     ELSE IF Len(entries) >= Size THEN Front(entries) ELSE entries
  <2>1. new \in OwnEntries
    BY <1>5 DEF LoopStores, OwnEntries, ClientCacheInv, ClientCacheTypeOK
  <2>2. \A i \in DOMAIN entries : RemoveAt(entries, i) \in Seq(OwnEntries)
    BY DEF RemoveAt
  <2>3. Front(entries) \in Seq(OwnEntries) \/ entries = <<>>
    BY DEF Front
  <2>4. Len(entries) >= Size => entries # <<>>
    BY ClientCacheAssumption
  <2>5. kept \in Seq(OwnEntries)
    BY <2>2, <2>3, <2>4
  <2>6. entries' = <<new>> \o kept
    BY <1>5 DEF LoopStores
  <2>7. looping'.stage = "forwarding"
    BY <1>5 DEF LoopStores, ClientCacheInv, ClientCacheTypeOK
  <2> HIDE DEF new, kept
  <2>8. entries' \in Seq(OwnEntries)
    BY <2>1, <2>5, <2>6
  <2> QED
    BY <1>5, <2>7, <2>8 DEF LoopStores, AnswersMatch
<1>6. ASSUME NEW m \in synthCh, ReceiveSynthetic(m) PROVE MatchInv'
  BY <1>6 DEF ReceiveSynthetic, AnswersMatch, CacheKey, ClientCacheInv, ClientCacheTypeOK
<1>7. CASE ReceiveForwarded
  BY <1>7, ClientCacheAssumption DEF ReceiveForwarded, AnswersMatch
<1>8. CASE ListEntriesAge
  <2>1. \A i \in DOMAIN entries :
          [entries[i] EXCEPT !.age = IF @ <= EntryTTL THEN @ + 1 ELSE @] \in OwnEntries
    <3> SUFFICES ASSUME NEW i \in DOMAIN entries
                 PROVE  [entries[i] EXCEPT !.age = IF @ <= EntryTTL THEN @ + 1 ELSE @] \in OwnEntries
      OBVIOUS
    <3>1. entries[i] \in OwnEntries
      OBVIOUS
    <3>2. PICK e \in OwnEntries : e = entries[i]
      BY <3>1
    <3>3. PICK n \in Nat : n = IF e.age <= EntryTTL THEN e.age + 1 ELSE e.age
      BY ClientCacheAssumption DEF OwnEntries
    <3>4. [e EXCEPT !.age = n] \in OwnEntries
      BY DEF OwnEntries
    <3> QED
      BY <3>2, <3>3, <3>4
  <2>2. entries' \in Seq(OwnEntries)
    BY <1>8, <2>1 DEF ListEntriesAge
  <2> QED
    BY <1>8, <2>2 DEF ListEntriesAge, AnswersMatch
<1> HIDE DEF MatchInv
<1> QED
  BY <1>1, <1>2, <1>3, <1>4, <1>5, <1>6, <1>7, <1>8 DEF ClientCacheNext

\* What the caching transport answers without asking the server is what the server
\* gave to a request with the same method and params, for any size, lifetime and
\* interleaving of Send, receiveLoop and Receive.
THEOREM ClientCacheAnswersMatch == ClientCacheSpec => []AnswersMatch
<1>1. ClientCacheInit => MatchInv
  BY ClientCacheAssumption
  DEF ClientCacheInit, MatchInv, AnswersMatch, Idle, NoAnswer
<1>2. ClientCacheInv /\ MatchInv /\ [ClientCacheNext]_clientCacheVars => MatchInv'
  <2>1. MatchInv /\ UNCHANGED clientCacheVars => MatchInv'
    BY DEF clientCacheVars, MatchInv, AnswersMatch
  <2> QED
    BY <2>1, MatchStep
<1>3. MatchInv => AnswersMatch
  BY DEF MatchInv
<1> QED
  BY <1>1, <1>2, <1>3, ClientCacheInvariance, PTL DEF ClientCacheSpec

(***************************************************************************)
(* Coalescer                                                               *)
(***************************************************************************)

\* A step of Do, of execute or of a waiter keeps the map and the flights together.
LEMMA CoalescerStep ==
  ASSUME CoalescerInv, CoalescerNext
  PROVE  CoalescerInv'
<1> USE DEF CoalescerInv, FlightsTypeOK, MapHoldsFlights, OneFlightPerKey
<1>1. 0 \notin Flights
  BY CoalescerAssumption DEF Flights
<1>2. ASSUME NEW w \in Waiters, TakeResult(w) \/ GiveUp(w) \/ CancelParent(w)
      PROVE  CoalescerInv'
  <2>1. UNCHANGED <<inflight, flightKey, phase>>
    BY <1>2 DEF TakeResult, GiveUp, CancelParent, LeaveCount
  <2> QED
    BY <2>1
<1>3. ASSUME NEW w \in Waiters, NEW k \in RequestKeys, JoinFlight(w, k)
      PROVE  CoalescerInv'
  BY <1>3 DEF JoinFlight
<1>4. ASSUME NEW w \in Waiters, NEW k \in RequestKeys, NEW f \in Flights, CreateFlight(w, k, f)
      PROVE  CoalescerInv'
  <2>1. /\ inflight[k] = 0 /\ phase[f] = "unused"
        /\ inflight' = [inflight EXCEPT ![k] = f]
        /\ flightKey' = [flightKey EXCEPT ![f] = k]
        /\ phase' = [phase EXCEPT ![f] = "window"]
    BY <1>4 DEF CreateFlight
  <2>2. FlightsTypeOK'
    BY <2>1
  <2>3. MapHoldsFlights'
    BY <2>1, <1>1
  <2>4. OneFlightPerKey'
    BY <2>1, <1>1
  <2> QED
    BY <2>2, <2>3, <2>4
<1>5. ASSUME NEW f \in Flights, WindowExpires(f) PROVE CoalescerInv'
  BY <1>5, <1>1 DEF WindowExpires
<1>6. ASSUME NEW f \in Flights, NEW how, phase[f] \in {"window", "running"}, Finish(f, how)
      PROVE  CoalescerInv'
  BY <1>6, <1>1 DEF Finish
<1>7. ASSUME NEW f \in Flights, LeaveMap(f) PROVE CoalescerInv'
  <2>1. /\ phase[f] = "done" /\ flightKey[f] \in RequestKeys /\ inflight[flightKey[f]] = f
        /\ phase' = [phase EXCEPT ![f] = "gone"]
        /\ inflight' = [inflight EXCEPT ![flightKey[f]] = 0]
        /\ UNCHANGED flightKey
    BY <1>7 DEF LeaveMap
  <2>2. FlightsTypeOK'
    BY <2>1
  <2>3. MapHoldsFlights'
    BY <2>1, <1>1
  <2>4. OneFlightPerKey'
    BY <2>1, <1>1
  <2> QED
    BY <2>2, <2>3, <2>4
<1> HIDE DEF CoalescerInv
<1> QED
  BY <1>2, <1>3, <1>4, <1>5, <1>6, <1>7
  DEF CoalescerNext, ExecuteStep, AbortInWindow, RequestCancelled, RequestAnswered

\* Two requests with the same key are never under way at the same time, and the
\* flight of a key is the one its callers join, for any callers, keys and limit:
\* the cleanup of one flight never removes another one.
THEOREM CoalescerOneFlight == CoalescerSpec => []OneFlightPerKey
<1>1. CoalescerInit => CoalescerInv
  BY DEF CoalescerInit, CoalescerInv, FlightsTypeOK, MapHoldsFlights, OneFlightPerKey
<1>2. CoalescerInv /\ [CoalescerNext]_coalescerVars => CoalescerInv'
  <2>1. CoalescerInv /\ UNCHANGED coalescerVars => CoalescerInv'
    BY DEF coalescerVars, CoalescerInv, FlightsTypeOK, MapHoldsFlights, OneFlightPerKey
  <2> QED
    BY <2>1, CoalescerStep
<1>3. CoalescerInv => OneFlightPerKey
  BY DEF CoalescerInv
<1> QED
  BY <1>1, <1>2, <1>3, PTL DEF CoalescerSpec

(***************************************************************************)
(* ClientTransports                                                        *)
(***************************************************************************)

\* A reply put into the inbox is there, and hides none that was.
LEMMA AppendedIsIn ==
  ASSUME TransportsTypeOK, NEW f \in Feeders
  PROVE  /\ Append(inboxQueue, f) \in Seq(Feeders)
         /\ \E i \in DOMAIN Append(inboxQueue, f) : Append(inboxQueue, f)[i] = f
         /\ \A i \in DOMAIN inboxQueue :
              i \in DOMAIN Append(inboxQueue, f) /\ Append(inboxQueue, f)[i] = inboxQueue[i]
<1>1. inboxQueue \in Seq(Feeders) /\ Len(inboxQueue) \in Nat
  BY DEF TransportsTypeOK
<1>2. Append(inboxQueue, f)[Len(inboxQueue) + 1] = f
  BY <1>1
<1>3. Len(inboxQueue) + 1 \in DOMAIN Append(inboxQueue, f)
  BY <1>1
<1> QED
  BY <1>1, <1>2, <1>3

\* Each step of Send, enqueue, the streams, Close and Receive keeps account of the
\* replies.
LEMMA TransportsStep ==
  ASSUME TransportsInv, TransportsNext
  PROVE  TransportsInv'
<1> USE DEF TransportsInv
<1>1. TransportsTypeOK
  OBVIOUS
<1>2. Posters \subseteq Feeders /\ "sse" \in Feeders /\ "sse" \notin Posters
  BY TransportsAssumption DEF Feeders
<1>3. ASSUME NEW p \in Posters,
             SendBegins(p) \/ PostFails(p) \/ NoReply(p) \/ ReplyInBody(p) \/ ReplyInStream(p)
      PROVE  TransportsInv'
  <2>1. /\ UNCHANGED <<carrier, inboxQueue, taken, overflow, isClosed, inboxClosed, closer>>
        /\ \/ UNCHANGED feeding
           \/ feeding' = [feeding EXCEPT ![p] = "holding"]
    BY <1>3 DEF SendBegins, PostFails, NoReply, ReplyInBody, ReplyInStream, closeVars, readerVars
  <2>2. \/ /\ UNCHANGED bodies
           /\ \E to \in {"posting", "enqueuing", "accepted", "failed"} :
                posts' = [posts EXCEPT ![p] = to]
        \/ posts' = [posts EXCEPT ![p] = "sent"] /\ bodies' = [bodies EXCEPT ![p] = "open"]
    BY <1>3 DEF SendBegins, PostFails, NoReply, ReplyInBody, ReplyInStream
  <2>3. TransportsTypeOK'
    BY <1>1, <1>2, <2>1, <2>2 DEF TransportsTypeOK
  <2>4. ReplyAccountedFor'
    BY <1>1, <1>2, <2>1, <2>2 DEF TransportsTypeOK, ReplyAccountedFor
  <2> QED
    BY <1>1, <1>2, <2>1, <2>3, <2>4 DEF TransportsTypeOK
<1>4. ASSUME NEW p \in Posters, StdioSend(p) \/ HttpEnqueue(p) PROVE TransportsInv'
  <2>1. /\ UNCHANGED <<carrier, bodies, taken, overflow, isClosed, inboxClosed, closer>>
        /\ UNCHANGED feeding \/ feeding' = [feeding EXCEPT ![p] = "none"]
    BY <1>4 DEF StdioSend, HttpEnqueue, closeVars, readerVars
  <2>2. \/ posts' = [posts EXCEPT ![p] = "failed"] /\ UNCHANGED inboxQueue
        \/ posts' = [posts EXCEPT ![p] = "sent"] /\ isClosed /\ UNCHANGED inboxQueue
        \/ posts' = [posts EXCEPT ![p] = "sent"] /\ inboxQueue' = Append(inboxQueue, p)
    BY <1>4 DEF StdioSend, HttpEnqueue
  <2>0. /\ Append(inboxQueue, p) \in Seq(Feeders)
        /\ \E i \in DOMAIN Append(inboxQueue, p) : Append(inboxQueue, p)[i] = p
        /\ \A i \in DOMAIN inboxQueue :
             i \in DOMAIN Append(inboxQueue, p) /\ Append(inboxQueue, p)[i] = inboxQueue[i]
    BY <1>1, <1>2, AppendedIsIn
  <2>3. TransportsTypeOK'
    <3>1. inboxQueue' \in Seq(Feeders)
      BY <1>1, <2>2, <2>0 DEF TransportsTypeOK
    <3>2. \E to \in {"failed", "sent"} : posts' = [posts EXCEPT ![p] = to]
      BY <2>2
    <3> HIDE DEF TransportsInv
    <3>3. posts' \in [Posters ->
                        {"none", "posting", "enqueuing", "sent", "accepted", "failed"}]
      BY <1>1, <3>2 DEF TransportsTypeOK
    <3>4. feeding' \in [Feeders -> {"none", "holding", "sending"}]
      BY <1>1, <1>2, <2>1 DEF TransportsTypeOK
    <3> QED
      BY <1>1, <2>1, <3>1, <3>3, <3>4 DEF TransportsTypeOK
  <2>4. ReplyAccountedFor'
    <3> SUFFICES ASSUME NEW q \in Posters, posts'[q] = "sent", bodies[q] = "none",
                        ~isClosed, q \notin taken, ~(carrier = "streamable" /\ q \in overflow)
                 PROVE  \E i \in DOMAIN inboxQueue' : inboxQueue'[i] = q
      BY <2>1 DEF ReplyAccountedFor
    <3>1. CASE q = p
      BY <1>1, <2>2, <2>0, <3>1 DEF TransportsTypeOK
    <3>2. CASE q # p
      <4>1. posts[q] = "sent"
        BY <1>1, <2>2, <3>2 DEF TransportsTypeOK
      <4>2. PICK i \in DOMAIN inboxQueue : inboxQueue[i] = q
        BY <4>1 DEF ReplyAccountedFor
      <4> QED
        BY <2>2, <2>0, <4>2
    <3> QED
      BY <3>1, <3>2
  <2> QED
    BY <1>1, <1>2, <2>1, <2>3, <2>4 DEF TransportsTypeOK
<1>5. ASSUME NEW f \in Feeders, EnqueueChecks(f) PROVE TransportsInv'
  <2>1. /\ carrier = "streamable"
        /\ UNCHANGED <<carrier, inboxQueue, bodies, taken, overflow, isClosed, inboxClosed, closer>>
        /\ \E to \in {"none", "sending"} : feeding' = [feeding EXCEPT ![f] = to]
    BY <1>5 DEF EnqueueChecks, Fed, closeVars, readerVars
  <2>2. \/ UNCHANGED posts
        \/ isClosed /\ f \in Posters /\ posts' = [posts EXCEPT ![f] = "sent"]
    BY <1>5 DEF EnqueueChecks, Fed
  <2>3. TransportsTypeOK'
    BY <1>1, <2>1, <2>2 DEF TransportsTypeOK
  <2>4. ReplyAccountedFor'
    BY <1>1, <1>2, <2>1, <2>2 DEF TransportsTypeOK, ReplyAccountedFor
  <2> QED
    BY <1>1, <2>1, <2>3, <2>4 DEF TransportsTypeOK
<1>6. ASSUME NEW f \in Feeders, EnqueueSends(f) PROVE TransportsInv'
  <2>1. /\ UNCHANGED <<carrier, bodies, taken, isClosed, inboxClosed, closer>>
        /\ feeding' = [feeding EXCEPT ![f] = "none"]
        /\ carrier = "streamable"
    BY <1>6 DEF EnqueueSends, Fed, closeVars, readerVars
  <2>2. \/ UNCHANGED posts
        \/ f \in Posters /\ posts' = [posts EXCEPT ![f] = "sent"]
    BY <1>6 DEF EnqueueSends, Fed
  <2>3. \/ inboxClosed /\ UNCHANGED <<inboxQueue, overflow>>
        \/ inboxQueue' = Append(inboxQueue, f) /\ UNCHANGED overflow
        \/ UNCHANGED inboxQueue /\ overflow' = overflow \cup {f}
    BY <1>6 DEF EnqueueSends
  <2>0. /\ Append(inboxQueue, f) \in Seq(Feeders)
        /\ \E i \in DOMAIN Append(inboxQueue, f) : Append(inboxQueue, f)[i] = f
        /\ \A i \in DOMAIN inboxQueue :
             i \in DOMAIN Append(inboxQueue, f) /\ Append(inboxQueue, f)[i] = inboxQueue[i]
    BY <1>1, <1>2, AppendedIsIn
  <2>4. TransportsTypeOK'
    <3>1. inboxQueue' \in Seq(Feeders)
      BY <1>1, <2>3, <2>0 DEF TransportsTypeOK
    <3> HIDE DEF TransportsInv
    <3> QED
      BY <1>1, <2>1, <2>2, <3>1 DEF TransportsTypeOK
  <2>5. ReplyAccountedFor'
    <3> SUFFICES ASSUME NEW q \in Posters, posts'[q] = "sent", bodies[q] = "none",
                        ~isClosed, q \notin taken, q \notin overflow'
                 PROVE  \E i \in DOMAIN inboxQueue' : inboxQueue'[i] = q
      BY <2>1 DEF ReplyAccountedFor
    <3>1. ~inboxClosed /\ q \notin overflow
      BY <2>3
    <3>2. CASE posts[q] = "sent"
      <4>1. PICK i \in DOMAIN inboxQueue : inboxQueue[i] = q
        BY <3>1, <3>2 DEF ReplyAccountedFor
      <4> QED
        BY <2>3, <2>0, <4>1
    <3>3. CASE posts[q] # "sent"
      <4>1. q = f
        BY <1>1, <2>2, <3>3 DEF TransportsTypeOK
      <4> QED
        BY <2>3, <2>0, <3>1, <4>1
    <3> QED
      BY <3>2, <3>3
  <2> QED
    BY <1>1, <2>1, <2>4, <2>5 DEF TransportsTypeOK
<1>7. CASE \/ \E f \in Feeders : StreamBrings(f) \/ BodyEnds(f)
           \/ StartSSE \/ SetsSSECancel \/ SSEConnectFails \/ SSEConnects
  <2>1. /\ UNCHANGED <<carrier, inboxQueue, posts, taken, overflow, isClosed, inboxClosed, closer>>
        /\ \/ UNCHANGED <<bodies, feeding>>
           \/ /\ UNCHANGED bodies
              /\ \E f \in Feeders : feeding' = [feeding EXCEPT ![f] = "holding"]
           \/ /\ UNCHANGED feeding
              /\ \E f \in Feeders, to \in {"open", "ended"} : bodies' = [bodies EXCEPT ![f] = to]
    BY <1>7, <1>2 DEF StreamBrings, BodyEnds, StartSSE, SetsSSECancel, SSEConnectFails, SSEConnects,
       closeVars, readerVars
  <2>2. TransportsTypeOK'
    BY <1>1, <2>1 DEF TransportsTypeOK
  <2>3. ReplyAccountedFor'
    BY <1>1, <1>2, <2>1 DEF TransportsTypeOK, ReplyAccountedFor
  <2> QED
    BY <1>1, <2>1, <2>2, <2>3 DEF TransportsTypeOK
<1>8. CASE CloseFlags \/ CloseCancelsSSE \/ CloseEndsInbox
  <2>1. /\ UNCHANGED <<carrier, posts, bodies, feeding, taken, overflow>>
        /\ isClosed' /\ (UNCHANGED inboxQueue \/ inboxQueue' = <<>>)
    BY <1>8 DEF CloseFlags, CloseCancelsSSE, CloseEndsInbox, readerVars
  <2>2. <<>> \in Seq(Feeders)
    OBVIOUS
  <2>3. TransportsTypeOK'
    BY <1>1, <2>1, <2>2 DEF TransportsTypeOK
  <2> QED
    BY <1>1, <2>1, <2>3 DEF TransportsTypeOK, ReplyAccountedFor
<1>9. CASE ReceiveTakes
  <2>1. /\ UNCHANGED <<carrier, posts, bodies, feeding, overflow, isClosed, inboxClosed, closer>>
        /\ inboxQueue # <<>>
        /\ inboxQueue' = Tail(inboxQueue) /\ taken' = taken \cup {Head(inboxQueue)}
    BY <1>9 DEF ReceiveTakes, closeVars
  <2>2. TransportsTypeOK'
    BY <1>1, <2>1 DEF TransportsTypeOK
  <2>3. \A i \in DOMAIN inboxQueue :
          \/ inboxQueue[i] \in taken'
          \/ i - 1 \in DOMAIN inboxQueue' /\ inboxQueue'[i - 1] = inboxQueue[i]
    BY <1>1, <2>1 DEF TransportsTypeOK
  <2>4. ReplyAccountedFor'
    BY <2>1, <2>3 DEF ReplyAccountedFor
  <2> QED
    BY <2>1, <2>2, <2>4
<1>10. CASE ReceiveEnds \/ ReceiveCancelled
  BY <1>10 DEF ReceiveEnds, ReceiveCancelled, TransportsTypeOK, ReplyAccountedFor, closeVars
<1> HIDE DEF TransportsInv
<1> QED
  BY <1>3, <1>4, <1>5, <1>6, <1>7, <1>8, <1>9, <1>10 DEF TransportsNext

\* When Send has returned nil for a reply in the body, the reply is in the inbox or
\* with the read loop, unless the transport was closed or, with streamable, the inbox
\* was full: for any number of Sends and streams and any size of the inbox, and although
\* enqueue lets go of the lock between its check and its send.
THEOREM TransportsAccountForReplies == TransportsSpec => []ReplyAccountedFor
<1>1. TransportsInit => TransportsInv
  BY DEF TransportsInit, TransportsInv, TransportsTypeOK, ReplyAccountedFor
<1>2. TransportsInv /\ [TransportsNext]_transportVars => TransportsInv'
  <2>1. TransportsInv /\ UNCHANGED transportVars => TransportsInv'
    BY DEF transportVars, TransportsInv, TransportsTypeOK, ReplyAccountedFor
  <2> QED
    BY <2>1, TransportsStep
<1>3. TransportsInv => ReplyAccountedFor
  BY DEF TransportsInv
<1> QED
  BY <1>1, <1>2, <1>3, PTL DEF TransportsSpec
=============================================================================
