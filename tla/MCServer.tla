------------------------------ MODULE MCServer ------------------------------
(***************************************************************************)
(* Parts of the server under model checking: what it keeps per session,    *)
(* its registries and lists, reads of resources, the SSE, stdio and        *)
(* WebSocket transports and the host router.  They share no state here, so *)
(* a behaviour exercises one of them, chosen in the initial state, and     *)
(* leaves the others alone.                                                *)
(***************************************************************************)
EXTENDS SessionRegistry, Listing, ResourceReads, SSETransport, LoopTransport, HostRouter

\* Overlapping templates, in lexicographic order, and some that are malformed.
SomeTemplates ==
  << <<"a", "/", "{", "v", "}">>, <<"a", "{", "+", "v", "}", "a">>, <<"a", "}">>,
     <<"{", "+", "}">>, <<"{", "v", "}">>, <<"{", "v", "}", "/", "{", "v", "}", "a">>,
     <<"{", "v", "}", "a", "a">>, <<"{", "v", "}", "{", "v", ".", "v", "}">>, <<"{", "{", "v">> >>

SomeUris == {<<"b", "a">>} \cup UNION {[1..n -> {"a", "/"}] : n \in 0..3}

SomeHidden == {<<"a", "a", "a">>}

\* The matcher decides all of these templates and URIs within its budget, which is what the
\* theorem about reads asks of it.
ASSUME MatcherDecides == MatcherAgrees

VARIABLE part

vars == <<part, registryVars, listingVars, readVars, sseVars, loopVars, routerVars>>

Init ==
  /\ part \in {"registry", "listing", "reads", "sse", "loop", "router"}
  /\ RegistryInit /\ ReadsInit /\ SSEInit /\ RouterInit
  /\ ListingInit /\ (part # "listing" => kind = "tools")
  /\ LoopInit /\ (part # "loop" => loopKind = "stdio")

Next ==
  \/ /\ part = "registry" /\ RegistryNext
     /\ UNCHANGED <<part, listingVars, readVars, sseVars, loopVars, routerVars>>
  \/ /\ part = "listing" /\ ListingNext
     /\ UNCHANGED <<part, registryVars, readVars, sseVars, loopVars, routerVars>>
  \/ /\ part = "reads" /\ ReadsNext
     /\ UNCHANGED <<part, registryVars, listingVars, sseVars, loopVars, routerVars>>
  \/ /\ part = "sse" /\ SSENext
     /\ UNCHANGED <<part, registryVars, listingVars, readVars, loopVars, routerVars>>
  \/ /\ part = "loop" /\ LoopNext
     /\ UNCHANGED <<part, registryVars, listingVars, readVars, sseVars, routerVars>>
  \/ /\ part = "router" /\ RouterNext
     /\ UNCHANGED <<part, registryVars, listingVars, readVars, sseVars, loopVars>>

Spec == Init /\ [][Next]_vars

\* The stdio and WebSocket loops alone, with the fairness of their goroutines.
LoopSpec == Init /\ part = "loop" /\ [][Next]_vars /\ LoopFairness
=============================================================================
