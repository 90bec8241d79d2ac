---------------------------- MODULE MCClientParts ----------------------------
(***************************************************************************)
(* Parts of the client under model checking that wait for one another:     *)
(* coalescing, streaming calls with the requests of the server, and the    *)
(* http, streamable and stdio transports.  They share no state here, so a  *)
(* behaviour exercises one of them, chosen in the initial state, and       *)
(* leaves the others alone.                                                *)
(***************************************************************************)
EXTENDS Coalescer, ClientStreaming, ClientTransports

VARIABLE part

vars == <<part, coalescerVars, streamingVars, transportVars>>

Init ==
  /\ part \in {"coalescer", "streaming", "transports"}
  /\ CoalescerInit /\ StreamingInit
  /\ TransportsInit /\ (part # "transports" => carrier = "http")

Next ==
  \/ part = "coalescer" /\ CoalescerNext /\ UNCHANGED <<part, streamingVars, transportVars>>
  \/ part = "streaming" /\ StreamingNext /\ UNCHANGED <<part, coalescerVars, transportVars>>
  \/ part = "transports" /\ TransportsNext /\ UNCHANGED <<part, coalescerVars, streamingVars>>

Spec == Init /\ [][Next]_vars /\ CoalescerFairness /\ StreamingFairness /\ TransportsFairness
=============================================================================
