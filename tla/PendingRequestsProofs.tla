----------------------- MODULE PendingRequestsProofs -----------------------
(***************************************************************************)
(* For any number of Sends and Deliver calls: the types, the correlation   *)
(* of responses with requests, the exactness of the pending map and the    *)
(* fate of an accepted response when the transport closes.                 *)
(***************************************************************************)
EXTENDS PendingRequests, TLAPS

\* A fresh PendingRequests satisfies the inductive invariant.
LEMMA InitIndInv == Init => IndInv
<1> SUFFICES ASSUME Init PROVE IndInv
  OBVIOUS
<1>1. TypeOK
  BY DEF Init, TypeOK
<1>2. IdsUnique /\ MapMatches
  BY DEF Init, IdsUnique, MapMatches, InFlight
<1>3. LookupMatches /\ AcceptedTracked
  BY NoneAssumption DEF Init, LookupMatches, AcceptedTracked
<1>4. ClosedReported /\ AcceptedSurvivesClose
  BY DEF Init, ClosedReported, AcceptedSurvivesClose
<1> QED
  BY <1>1, <1>2, <1>3, <1>4 DEF IndInv

\* Every step of Send, Deliver, CloseAll and the contexts preserves it.
LEMMA NextIndInv == IndInv /\ [Next]_vars => IndInv'
<1> SUFFICES ASSUME IndInv, [Next]_vars PROVE IndInv'
  OBVIOUS
<1>1. ASSUME NEW s \in Senders, SendWrite(s) PROVE IndInv'
  <2> USE <1>1 DEF IndInv, SendWrite, deliverVars
  <2>1. TypeOK'
    BY DEF TypeOK
  <2>2. IdsUnique' /\ LookupMatches'
    BY DEF TypeOK, IdsUnique, LookupMatches, InFlight
  <2>3. MapMatches'
    <3>1. \A t \in Senders : InFlight(t)' <=> InFlight(t)
      BY DEF TypeOK, InFlight
    <3> QED
      BY <3>1 DEF TypeOK, MapMatches
  <2>4. (AcceptedTracked /\ ClosedReported /\ AcceptedSurvivesClose)'
    BY DEF TypeOK, AcceptedTracked, ClosedReported, AcceptedSurvivesClose
  <2> QED
    BY <2>1, <2>2, <2>3, <2>4
<1>2. ASSUME NEW d \in Deliveries, NEW k \in Keys, DeliverLookup(d, k) PROVE IndInv'
  <2> USE <1>2, KeysAssumption, NoneAssumption DEF IndInv, DeliverLookup, sendVars
  <2>1. TypeOK'
    BY DEF TypeOK
  <2>2. IdsUnique' /\ MapMatches' /\ ClosedReported'
    BY DEF IdsUnique, MapMatches, ClosedReported, InFlight
  <2>3. LookupMatches'
    BY DEF TypeOK, IdsUnique, MapMatches, LookupMatches, InFlight
  <2>4. AcceptedTracked' /\ AcceptedSurvivesClose'
    BY DEF TypeOK, LookupMatches, AcceptedTracked, AcceptedSurvivesClose
  <2> QED
    BY <2>1, <2>2, <2>3, <2>4
<1>3. ASSUME NEW s \in Senders, SendRegister(s) PROVE IndInv'
  <2> USE <1>3 DEF IndInv, SendRegister, deliverVars
  <2>1. idSeq + 1 \notin DOMAIN pending
    BY DEF TypeOK, IdsUnique, MapMatches
  <2>2. /\ DOMAIN pending' = DOMAIN pending \cup {idSeq + 1}
        /\ \A k \in DOMAIN pending' : pending'[k] = IF k = idSeq + 1 THEN s ELSE pending[k]
    BY DEF Bind
  <2>3. TypeOK'
    <3>1. /\ DOMAIN pending' \subseteq Nat
          /\ \A k \in DOMAIN pending' : pending'[k] \in Senders
      BY <2>2 DEF TypeOK
    <3> QED
      BY <3>1 DEF TypeOK
  <2>4. IdsUnique'
    BY DEF TypeOK, IdsUnique, InFlight
  <2>5. MapMatches'
    BY <2>1, <2>2 DEF TypeOK, IdsUnique, MapMatches, InFlight
  <2>6. (LookupMatches /\ AcceptedTracked /\ ClosedReported /\ AcceptedSurvivesClose)'
    BY DEF TypeOK, IdsUnique, LookupMatches, AcceptedTracked, ClosedReported,
           AcceptedSurvivesClose
  <2> QED
    BY <2>3, <2>4, <2>5, <2>6
<1> USE NoneAssumption
    DEF IndInv, TypeOK, IdsUnique, MapMatches, LookupMatches, AcceptedTracked,
        ClosedReported, AcceptedSurvivesClose, InFlight, sendVars, deliverVars
<1>4. ASSUME NEW s \in Senders, SendRefused(s) PROVE IndInv'
  BY <1>4 DEF SendRefused
<1>5. ASSUME NEW s \in Senders, SendReceive(s) PROVE IndInv'
  BY <1>5 DEF SendReceive
<1>6. ASSUME NEW s \in Senders, SendCtxDone(s) PROVE IndInv'
  BY <1>6 DEF SendCtxDone
<1>7. ASSUME NEW s \in Senders, SendCleanup(s) PROVE IndInv'
  <2> USE <1>7 DEF SendCleanup
  <2>1. /\ DOMAIN pending' = DOMAIN pending \ {id[s]}
        /\ \A k \in DOMAIN pending' : pending'[k] = pending[k]
    BY DEF Unbind
  <2>2. TypeOK' /\ IdsUnique'
    BY <2>1
  <2>3. MapMatches'
    BY <2>1
  <2>4. (LookupMatches /\ AcceptedTracked /\ ClosedReported /\ AcceptedSurvivesClose)'
    OBVIOUS
  <2> QED
    BY <2>2, <2>3, <2>4
<1>8. ASSUME NEW s \in Senders, EndContext(s) PROVE IndInv'
  BY <1>8 DEF EndContext
<1>9. ASSUME NEW d \in Deliveries, DeliverPush(d) PROVE IndInv'
  BY <1>9 DEF DeliverPush
<1>10. CASE CloseAll
  BY <1>10 DEF CloseAll
<1>11. CASE UNCHANGED vars
  BY <1>11 DEF vars
<1>12. QED
  BY <1>1, <1>2, <1>3, <1>4, <1>5, <1>6, <1>7, <1>8, <1>9, <1>10, <1>11 DEF Next, SendStep

\* The inductive invariant holds in every state of every run.
THEOREM Invariance == Spec => []IndInv
  BY InitIndInv, NextIndInv, PTL DEF Spec

\* Types: in particular a Send that returns a response returns one, never the
\* nil that a closed channel yields.
THEOREM TypeCorrect == Spec => []TypeOK
<1>1. IndInv => TypeOK
  BY DEF IndInv
<1> QED
  BY Invariance, <1>1, PTL

\* Correlation: a Send returns only the response to its own request, however
\* late, duplicated or unsolicited responses are.
THEOREM Correlation == Spec => []OwnResponse
<1>1. IndInv => OwnResponse
  BY NoneAssumption DEF IndInv, OwnResponse, TypeOK, AcceptedTracked, LookupMatches, IdsUnique
<1> QED
  BY Invariance, <1>1, PTL

\* No entry of the pending map outlives its Send or CloseAll.
THEOREM NoLeak == Spec => []NoLeakedEntry
<1>1. ASSUME IndInv PROVE NoLeakedEntry
  <2> USE <1>1 DEF IndInv, TypeOK, MapMatches
  <2>1. CASE closed
    BY <2>1 DEF NoLeakedEntry
  <2>2. CASE ~closed
    <3>1. \A k \in DOMAIN pending : \E s \in Senders : InFlight(s) /\ k = id[s]
      OBVIOUS
    <3>2. \A s \in Senders : InFlight(s) => id[s] \in DOMAIN pending
      BY <2>2
    <3> DEFINE ids == {id[s] : s \in {t \in Senders : InFlight(t)}}
    <3>3. \A k : k \in ids <=> \E s \in Senders : InFlight(s) /\ k = id[s]
      OBVIOUS
    <3>4. \A k : k \in ids <=> k \in DOMAIN pending
      BY <3>1, <3>2, <3>3
    <3> HIDE DEF ids
    <3>5. DOMAIN pending = ids
      BY <3>4
    <3> QED
      BY <2>2, <3>5 DEF NoLeakedEntry, ids
  <2> QED
    BY <2>1, <2>2
<1> QED
  BY Invariance, <1>1, PTL

\* A response that Deliver accepted is never reported as a closed transport.
THEOREM CloseKeepsAccepted == Spec => []AcceptedSurvivesClose
<1>1. IndInv => AcceptedSurvivesClose
  BY DEF IndInv
<1> QED
  BY Invariance, <1>1, PTL
=============================================================================
