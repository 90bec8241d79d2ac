------------------------------- MODULE MCPool -------------------------------
(***************************************************************************)
(* The path of a client's call under model checking: its retries, the      *)
(* caching and circuit-breaking transports, the load balancer and the      *)
(* aggregator.  They share no state here, so a behaviour exercises one of  *)
(* them, chosen in the initial state, and leaves the others alone.         *)
(***************************************************************************)
EXTENDS ClientCalls, ClientCache, ClientBreaker, LoadBalancer, Aggregator

\* Two requests for one page of a list, and one for the next page.
TwoPages == [r \in Requests |-> IF r = "r3" THEN <<"list", "page2">> ELSE <<"list", "page1">>]

OneBackend == <<"b1">>

\* Two calls of AddServer ask for one id, a third for another.
TwoForOneId == [a \in Adders |-> IF a = "z" THEN "t" ELSE "s"]

VARIABLE part

vars == <<part, callPathVars, clientCacheVars, breakerVars, lbVars, aggVars>>

Init ==
  /\ part \in {"calls", "cache", "breaker", "balancer", "aggregator"}
  /\ CallsInit /\ ClientCacheInit /\ ClientBreakerInit /\ LoadBalancerInit /\ AggregatorInit

Next ==
  \/ /\ part = "calls" /\ CallsNext
     /\ UNCHANGED <<part, clientCacheVars, breakerVars, lbVars, aggVars>>
  \/ /\ part = "cache" /\ ClientCacheNext
     /\ UNCHANGED <<part, callPathVars, breakerVars, lbVars, aggVars>>
  \/ /\ part = "breaker" /\ ClientBreakerNext
     /\ UNCHANGED <<part, callPathVars, clientCacheVars, lbVars, aggVars>>
  \/ /\ part = "balancer" /\ LoadBalancerNext
     /\ UNCHANGED <<part, callPathVars, clientCacheVars, breakerVars, aggVars>>
  \/ /\ part = "aggregator" /\ AggregatorNext
     /\ UNCHANGED <<part, callPathVars, clientCacheVars, breakerVars, lbVars>>

Spec == Init /\ [][Next]_vars /\ LoadBalancerFairness
=============================================================================
