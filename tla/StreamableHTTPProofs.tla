------------------------ MODULE StreamableHTTPProofs ------------------------
(***************************************************************************)
(* Proofs about the sessions of the Streamable HTTP transport, for any     *)
(* sets of sessions, requests, URIs and tools and any limits, and about    *)
(* the host router that may stand before the transport.                    *)
(***************************************************************************)
EXTENDS StreamableHTTP, HostRouter, FiniteSetTheorems, TLAPS

\* The write position stays inside the ring.
LEMMA NextSlot ==
  ASSUME NEW i \in Slots
  PROVE  (i + 1) % MaxClosed \in Slots
BY LimitsAssumption DEF Slots

\* Closing a session keeps the ring and the lookup set in agreement: the
\* session that loses its slot is in no other.
LEMMA RemoveSessionToolsInv ==
  ASSUME RegistryInv, NEW s \in Sessions, RemoveSessionTools(s)
  PROVE  RegistryInv'
<1> USE DEF RegistryInv, RegistryTypeOK, ClosedHasNoTools, RingExact, RemoveSessionTools
<1>1. CASE s \in closed
  BY <1>1
<1>2. CASE s \notin closed
  <2>1. closedRng' \in [Slots -> Sessions \cup {NoSession}]
    BY <1>2
  <2>2. \A i \in Slots : closedRng[i] # s
    BY <1>2, NoSessionAssumption
  <2>3. \A i \in Slots : i # closedIdx => closedRng'[i] = closedRng[i]
    BY <1>2
  <2>4. closedRng'[closedIdx] = s
    BY <1>2
  <2>5. \A i, j \in Slots : closedRng'[i] = closedRng'[j] /\ closedRng'[i] # NoSession => i = j
    BY <2>2, <2>3, <2>4
  <2>6. closed' = {closedRng'[i] : i \in Slots} \ {NoSession}
    <3>1. ASSUME NEW x \in closed' PROVE x \in {closedRng'[i] : i \in Slots} \ {NoSession}
      <4>1. CASE x = s
        BY <4>1, <2>4, NoSessionAssumption
      <4>2. CASE x # s
        <5>1. x \in closed /\ x # closedRng[closedIdx]
          BY <3>1, <4>2, <1>2
        <5>2. PICK i \in Slots : x = closedRng[i]
          BY <5>1
        <5> QED
          BY <5>1, <5>2, <2>3
      <4> QED
        BY <4>1, <4>2
    <3>2. ASSUME NEW i \in Slots, closedRng'[i] # NoSession PROVE closedRng'[i] \in closed'
      <4>1. CASE i = closedIdx
        BY <4>1, <2>4, <1>2
      <4>2. CASE i # closedIdx
        BY <3>2, <4>2, <2>3, <1>2
      <4> QED
        BY <4>1, <4>2
    <3> QED
      BY <3>1, <3>2
  <2>7. closedIdx' \in Slots
    BY <1>2, NextSlot
  <2>8. closed' \subseteq Sessions /\ sessionTools' \in [Sessions -> SUBSET Tools]
    BY <1>2
  <2>9. ClosedHasNoTools'
    BY <1>2
  <2> QED
    BY <2>1, <2>5, <2>6, <2>7, <2>8, <2>9
<1> QED
  BY <1>1, <1>2

\* The operations that leave the closed sessions alone.
LEMMA RegistryStepInv ==
  ASSUME RegistryInv, NEW s \in Sessions,
         \/ UNCHANGED registryVars
         \/ AddSender(s) \/ RemoveSender(s) \/ UnsubscribeAll(s)
         \/ \E uri \in Uris : Subscribe(s, uri) \/ Unsubscribe(s, uri)
         \/ \E tool \in Tools : AddTool(s, tool) \/ RemoveTool(s, tool)
         \/ RemoveSessionTools(s)
  PROVE  RegistryInv'
<1>1. CASE UNCHANGED registryVars
  BY <1>1 DEF RegistryInv, RegistryTypeOK, ClosedHasNoTools, RingExact, registryVars, toolVars
<1>2. CASE AddSender(s) \/ RemoveSender(s)
  BY <1>2 DEF RegistryInv, RegistryTypeOK, ClosedHasNoTools, RingExact, toolVars,
              AddSender, RemoveSender
<1>3. CASE UnsubscribeAll(s) \/ \E uri \in Uris : Subscribe(s, uri) \/ Unsubscribe(s, uri)
  BY <1>3 DEF RegistryInv, RegistryTypeOK, ClosedHasNoTools, RingExact, toolVars,
              UnsubscribeAll, Subscribe, Unsubscribe
<1>4. ASSUME NEW tool \in Tools, AddTool(s, tool) PROVE RegistryInv'
  <2>1. /\ sessionTools' \in [Sessions -> SUBSET Tools]
        /\ \A x \in closed : sessionTools'[x] = sessionTools[x]
    BY <1>4 DEF RegistryInv, RegistryTypeOK, AddTool
  <2> QED
    BY <1>4, <2>1 DEF RegistryInv, RegistryTypeOK, ClosedHasNoTools, RingExact, AddTool
<1>5. CASE \E tool \in Tools : RemoveTool(s, tool)
  BY <1>5 DEF RegistryInv, RegistryTypeOK, ClosedHasNoTools, RingExact, RemoveTool
<1>6. CASE RemoveSessionTools(s)
  BY <1>6, RemoveSessionToolsInv
<1> QED
  BY <1>1, <1>2, <1>3, <1>4, <1>5, <1>6

-----------------------------------------------------------------------------
\* Every step of the transport makes at most one registry operation, for one
\* session.
LEMMA RegistryPreserved ==
  ASSUME IndInv, Next
  PROVE  RegistryInv'
<1> USE DEF IndInv, TypeOK, Targeted, sessionVars, requestVars
<1>1. RegistryInv
  BY DEF RegistryInv
<1>2. ASSUME NEW s \in Sessions, InitializeStep(s) PROVE RegistryInv'
  BY <1>1, <1>2, RegistryStepInv
     DEF InitializeStep, CreateSession, InitCheckDone, HandleInitialize, AnswerInitialize
<1>3. ASSUME NEW s \in Sessions,
             TimerFires(s) \/ HandleDelete(s) \/ TeardownStep(s) \/ AppRemovesSessionTools(s)
      PROVE  RegistryInv'
  BY <1>1, <1>3, RegistryStepInv
     DEF TimerFires, HandleDelete, TeardownStep, Close, Cleanup, AppRemovesSessionTools
<1>4. ASSUME NEW r \in Requests, NEW s \in Sessions, NEW m \in Methods, Load(r, s, m)
      PROVE  RegistryInv'
  BY <1>1, <1>4, RegistryStepInv DEF Load
<1>5. ASSUME NEW r \in Requests, RequestStep(r) \/ ClientDisconnects(r)
      PROVE  RegistryInv'
  <2>1. CASE UNCHANGED registryVars
    BY <1>1, <2>1 DEF RegistryInv, RegistryTypeOK, ClosedHasNoTools, RingExact,
                      registryVars, toolVars
  <2>2. CASE target[r] \in Sessions
    BY <1>1, <1>5, <2>1, <2>2, RegistryStepInv
       DEF RequestStep, CheckDone, NotInitialized, HandleSubscribe, AddSessionTool,
           RemoveSessionTool, OpenGetStream, SessionDoneEndsStream, ClientDisconnects,
           LeaveGetStream
  <2>3. target[r] \in Sessions \/ UNCHANGED registryVars
    BY <1>5
       DEF RequestStep, CheckDone, NotInitialized, HandleSubscribe, AddSessionTool,
           RemoveSessionTool, OpenGetStream, SessionDoneEndsStream, ClientDisconnects,
           LeaveGetStream
  <2> QED
    BY <2>1, <2>2, <2>3
<1> QED
  BY <1>2, <1>3, <1>4, <1>5 DEF Next

\* The transport's own variables keep their types, and a running request its
\* session.
LEMMA TypePreserved ==
  ASSUME IndInv, Next
  PROVE  TypeOK' /\ Targeted'
<1>1. RegistryTypeOK'
  BY RegistryPreserved DEF RegistryInv
<1> USE <1>1 DEF IndInv, TypeOK, Targeted, sessionVars, requestVars, InitStages, Replies,
             TeardownStages, RequestStages
<1>2. ASSUME NEW s \in Sessions, CreateSession(s) PROVE TypeOK' /\ Targeted'
  BY <1>2 DEF CreateSession
<1>3. ASSUME NEW s \in Sessions, InitCheckDone(s) PROVE TypeOK' /\ Targeted'
  BY <1>3 DEF InitCheckDone
<1>4. ASSUME NEW s \in Sessions, HandleInitialize(s) PROVE TypeOK' /\ Targeted'
  BY <1>4 DEF HandleInitialize
<1>5. ASSUME NEW s \in Sessions, AnswerInitialize(s) PROVE TypeOK' /\ Targeted'
  BY <1>5 DEF AnswerInitialize
<1>6. ASSUME NEW s \in Sessions, TimerFires(s) PROVE TypeOK' /\ Targeted'
  BY <1>6 DEF TimerFires
<1>7. ASSUME NEW s \in Sessions, HandleDelete(s) PROVE TypeOK' /\ Targeted'
  BY <1>7 DEF HandleDelete
<1>8. ASSUME NEW s \in Sessions, Close(s) PROVE TypeOK' /\ Targeted'
  BY <1>8 DEF Close
<1>9. ASSUME NEW s \in Sessions, Cleanup(s) PROVE TypeOK' /\ Targeted'
  BY <1>9 DEF Cleanup
<1>10. ASSUME NEW s \in Sessions, AppRemovesSessionTools(s) PROVE TypeOK' /\ Targeted'
  BY <1>10 DEF AppRemovesSessionTools
<1>11. ASSUME NEW r \in Requests, NEW s \in Sessions, NEW m \in Methods, Load(r, s, m)
       PROVE  TypeOK' /\ Targeted'
  BY <1>11 DEF Load
<1>12. ASSUME NEW r \in Requests, CheckDone(r) PROVE TypeOK' /\ Targeted'
  BY <1>12 DEF CheckDone, Return, Proceed
<1>13. ASSUME NEW r \in Requests, NotInitialized(r) PROVE TypeOK' /\ Targeted'
  BY <1>13 DEF NotInitialized, Return
<1>14. ASSUME NEW r \in Requests, NEW uri \in Uris, HandleSubscribe(r, uri)
       PROVE  TypeOK' /\ Targeted'
  BY <1>14 DEF HandleSubscribe, Return
<1>15. ASSUME NEW r \in Requests, NEW tool \in Tools, AddSessionTool(r, tool)
       PROVE  TypeOK' /\ Targeted'
  BY <1>15 DEF AddSessionTool, Return, Proceed
<1>16. ASSUME NEW r \in Requests, NEW tool \in Tools, RemoveSessionTool(r, tool)
       PROVE  TypeOK' /\ Targeted'
  BY <1>16 DEF RemoveSessionTool, Return
<1>17. ASSUME NEW r \in Requests, OpenGetStream(r) PROVE TypeOK' /\ Targeted'
  BY <1>17 DEF OpenGetStream, Proceed
<1>18. ASSUME NEW r \in Requests, SessionDoneEndsStream(r) \/ ClientDisconnects(r)
       PROVE  TypeOK' /\ Targeted'
  BY <1>18 DEF SessionDoneEndsStream, ClientDisconnects, LeaveGetStream, Return
<1> QED
  BY <1>2, <1>3, <1>4, <1>5, <1>6, <1>7, <1>8, <1>9, <1>10, <1>11, <1>12, <1>13, <1>14,
     <1>15, <1>16, <1>17, <1>18
     DEF Next, InitializeStep, TeardownStep, RequestStep

\* A session is in the map only between its Store and the LoadAndDelete that
\* its winner's teardown starts with, and all that time has its sender.
LEMMA OwnershipPreserved ==
  ASSUME IndInv, Next
  PROVE  Ownership'
<1> USE DEF IndInv, TypeOK, Ownership, RegistryTypeOK, sessionVars, requestVars, InitStages,
            TeardownStages
<1>1. ASSUME NEW s \in Sessions, CreateSession(s) PROVE Ownership'
  BY <1>1 DEF CreateSession, AddSender, registryVars
<1>2. ASSUME NEW s \in Sessions, InitCheckDone(s) PROVE Ownership'
  BY <1>2 DEF InitCheckDone, registryVars
<1>3. ASSUME NEW s \in Sessions, HandleInitialize(s) PROVE Ownership'
  BY <1>3 DEF HandleInitialize, registryVars
<1>4. ASSUME NEW s \in Sessions, AnswerInitialize(s) PROVE Ownership'
  BY <1>4 DEF AnswerInitialize, registryVars
<1>5. ASSUME NEW s \in Sessions, TimerFires(s) \/ HandleDelete(s) PROVE Ownership'
  BY <1>5 DEF TimerFires, HandleDelete, registryVars
<1>6. ASSUME NEW s \in Sessions, Close(s) PROVE Ownership'
  BY <1>6 DEF Close, registryVars
<1>7. ASSUME NEW s \in Sessions, Cleanup(s) PROVE Ownership'
  BY <1>7 DEF Cleanup, RemoveSender, UnsubscribeAll, RemoveSessionTools
<1>8. ASSUME NEW s \in Sessions, AppRemovesSessionTools(s) PROVE Ownership'
  BY <1>8 DEF AppRemovesSessionTools, RemoveSessionTools
<1>9. ASSUME NEW r \in Requests, NEW s \in Sessions, NEW m \in Methods, Load(r, s, m)
      PROVE  Ownership'
  BY <1>9 DEF Load, registryVars
<1>10. ASSUME NEW r \in Requests, RequestStep(r) \/ ClientDisconnects(r) PROVE Ownership'
  <2>1. UNCHANGED <<initPost, mapped, teardown, senders>>
    BY <1>10 DEF RequestStep, CheckDone, NotInitialized, HandleSubscribe, AddSessionTool,
           RemoveSessionTool, OpenGetStream, SessionDoneEndsStream, ClientDisconnects,
           LeaveGetStream, Subscribe, Unsubscribe, AddTool, RemoveTool, registryVars
  <2> QED
    BY <2>1
<1> QED
  BY <1>1, <1>2, <1>3, <1>4, <1>5, <1>6, <1>7, <1>8, <1>9, <1>10
     DEF Next, InitializeStep, TeardownStep

-----------------------------------------------------------------------------
\* The invariant holds in every reachable state of the transport.
THEOREM Invariance == Spec => []IndInv
<1>1. Init => IndInv
  <2> SUFFICES ASSUME Init PROVE IndInv
    OBVIOUS
  <2>1. RegistryInv
    BY LimitsAssumption
       DEF Init, RegistryInit, RegistryInv, RegistryTypeOK, ClosedHasNoTools, RingExact, Slots
  <2>2. TypeOK /\ Ownership /\ Targeted
    BY <2>1 DEF Init, RegistryInit, RegistryInv, TypeOK, Ownership, Targeted, InitStages,
                Replies, TeardownStages, RequestStages
  <2> QED
    BY <2>1, <2>2 DEF IndInv, RegistryInv
<1>2. IndInv /\ [Next]_vars => IndInv'
  <2>1. CASE Next
    BY <2>1, RegistryPreserved, TypePreserved, OwnershipPreserved DEF IndInv, RegistryInv
  <2>2. CASE UNCHANGED vars
    BY <2>2 DEF vars, registryVars, toolVars, sessionVars, requestVars, IndInv, TypeOK,
                RegistryTypeOK, Ownership, Targeted, ClosedHasNoTools, RingExact
  <2> QED
    BY <2>1, <2>2
<1> QED
  BY <1>1, <1>2, PTL DEF Spec

\* The variables of the transport and of the registries keep their types; the
\* write position of the ring of closed sessions stays inside it.
THEOREM TypeCorrect == Spec => []TypeOK
<1>1. IndInv => TypeOK
  BY DEF IndInv
<1> QED
  BY <1>1, Invariance, PTL

\* No broadcast misses a session a client can be served under.
THEOREM Reachable == Spec => []MappedHasSender
<1>1. IndInv => MappedHasSender
  BY DEF IndInv, TypeOK, Ownership, MappedHasSender
<1> QED
  BY <1>1, Invariance, PTL

\* A session taken apart stays so: its sender never returns, nor do tools
\* added by a handler that raced with the teardown.
THEOREM CleanedUp == Spec => []NothingComesBack
<1>1. IndInv => NothingComesBack
  BY DEF IndInv, Ownership, ClosedHasNoTools, NothingComesBack
<1> QED
  BY <1>1, Invariance, PTL

-----------------------------------------------------------------------------
\* A set of numbers has a least element (matchWildcard stops at the first match).
LEMMA LeastIndex ==
  ASSUME NEW S \in SUBSET Nat, S # {}
  PROVE  \E i \in S : \A j \in S : i <= j
<1> DEFINE R == OpToRel(<, Nat)
<1>1. IsWellFoundedOn(R, Nat)
  BY NatLessThanWellFounded
<1>2. PICK i \in S : \A j \in S : ~ (<<j, i>> \in R)
  <2> HIDE DEF R
  <2> QED BY <1>1, WFMin
<1>3. \A j \in S : ~ (j < i)
  BY <1>2 DEF OpToRel
<1> QED BY <1>3

\* The variables of the router keep their types.
THEOREM RouterTypes == RouterSpec => []RouterTypeOK
<1> DEFINE Rules == {host \in LabelSeqs(Labels, Depth) : Len(host) >= 2}
<1>1. RouterInit => RouterTypeOK
  BY DEF RouterInit, RouterTypeOK
<1>2. RouterTypeOK /\ [RouterNext]_routerVars => RouterTypeOK'
  <2> SUFFICES ASSUME RouterTypeOK, [RouterNext]_routerVars PROVE RouterTypeOK'
    OBVIOUS
  <2>0. exact \subseteq LabelSeqs(Labels, Depth) /\ wildcards \in Seq(Rules)
    BY DEF RouterTypeOK
  <2> SUFFICES exact' \subseteq LabelSeqs(Labels, Depth) /\ wildcards' \in Seq(Rules)
    BY DEF RouterTypeOK
  <2>1. ASSUME NEW host \in LabelSeqs(Labels, Depth), HandleExact(host) \/ RemoveExact(host)
        PROVE  exact' \subseteq LabelSeqs(Labels, Depth) /\ wildcards' \in Seq(Rules)
    BY <2>0, <2>1 DEF HandleExact, RemoveExact
  <2>2. ASSUME NEW host \in LabelSeqs(Labels, Depth), HandleWildcard(host)
        PROVE  exact' \subseteq LabelSeqs(Labels, Depth) /\ wildcards' \in Seq(Rules)
    <3>1. host \in Rules
      BY <2>2 DEF HandleWildcard
    <3> HIDE DEF Rules
    <3> QED BY <2>0, <2>2, <3>1 DEF HandleWildcard
  <2>3. ASSUME NEW host \in LabelSeqs(Labels, Depth), RemoveWildcard(host)
        PROVE  exact' \subseteq LabelSeqs(Labels, Depth) /\ wildcards' \in Seq(Rules)
    <3> HIDE DEF Rules
    <3>1. PICK i \in DOMAIN wildcards :
            wildcards' = SubSeq(wildcards, 1, i - 1) \o SubSeq(wildcards, i + 1, Len(wildcards))
      BY <2>3 DEF RemoveWildcard
    <3>2. i \in 1..Len(wildcards) /\ Len(wildcards) \in Nat
      BY <2>0
    <3>3. SubSeq(wildcards, 1, i - 1) \in Seq(Rules)
      BY <2>0, <3>2
    <3>4. SubSeq(wildcards, i + 1, Len(wildcards)) \in Seq(Rules)
      BY <2>0, <3>2
    <3>5. wildcards' \in Seq(Rules)
      <4>1. ASSUME NEW u \in Seq(Rules), NEW v \in Seq(Rules) PROVE u \o v \in Seq(Rules)
        BY <4>1
      <4> QED BY <3>1, <3>3, <3>4, <4>1, Zenon
    <3> QED BY <2>0, <2>3, <3>5 DEF RemoveWildcard
  <2>4. CASE UNCHANGED routerVars
    BY <2>0, <2>4 DEF routerVars
  <2> QED BY <2>1, <2>2, <2>3, <2>4 DEF RouterNext
<1> QED BY <1>1, <1>2, PTL DEF RouterSpec

\* A host with one label more than a rule has a first one.
LEMMA OneMore ==
  ASSUME NEW m \in Nat, NEW n \in Nat, m - n = 1, n >= 1
  PROVE  m # 0 /\ (m - n) + 1 = 2 /\ m - n > 0
OBVIOUS

\* A wildcard matches the hosts it is the parent domain of, and no others.
LEMMA MatchesChildren ==
  ASSUME NEW S, NEW w \in Seq(S), NEW T, NEW host \in Seq(T), Len(w) >= 1
  PROVE  MatchesWildcard(w, host) <=> host # <<>> /\ Tail(host) = w /\ host[1] # ""
<1>0. Len(w) \in Nat /\ Len(host) \in Nat
  OBVIOUS
<1>1. host # <<>> => Tail(host) = SubSeq(host, 2, Len(host)) /\ Len(Tail(host)) = Len(host) - 1
  OBVIOUS
<1>2. ASSUME MatchesWildcard(w, host) PROVE host # <<>> /\ Tail(host) = w /\ host[1] # ""
  <2>1. Len(host) - Len(w) = 1 /\ host[1] # ""
    BY <1>0, <1>2 DEF MatchesWildcard
  <2>2. (Len(host) - Len(w)) + 1 = 2
    BY <1>0, <2>1, OneMore, Zenon
  <2>3. SubSeq(host, 2, Len(host)) = w
    BY <1>2, <2>2, Zenon DEF MatchesWildcard
  <2>4. Len(host) # 0
    BY <1>0, <2>1, OneMore, Zenon
  <2>5. host # <<>>
    <3>1. Len(<<>>) = 0
      OBVIOUS
    <3> QED BY <2>4, <3>1, Zenon
  <2> QED BY <1>1, <2>1, <2>3, <2>5
<1>3. ASSUME host # <<>>, Tail(host) = w, host[1] # "" PROVE MatchesWildcard(w, host)
  <2>1. Len(w) = Len(host) - 1 /\ SubSeq(host, 2, Len(host)) = w
    BY <1>1, <1>3, Zenon
  <2>2. Len(host) - Len(w) = 1
    BY <1>0, <2>1
  <2> HIDE <2>1
  <2>3. Len(host) - Len(w) > 0 /\ (Len(host) - Len(w)) + 1 = 2
    BY <2>2
  <2> QED BY <1>3, <2>1, <2>2, <2>3, Zenon DEF MatchesWildcard
<1> QED BY <1>2, <1>3

\* A host is routed by its own rule or by that of its parent domain,
\* in whatever order rules were registered and removed (Handle, Remove, matchWildcard).
THEOREM RoutedByParent == RouterSpec => []RouteByParent
<1>1. RouterTypeOK => RouteByParent
  <2> SUFFICES ASSUME RouterTypeOK, NEW host \in RequestHosts
               PROVE  ServeHTTP(host) =
        IF host \in exact THEN [wild |-> FALSE, labels |-> host]
        ELSE IF Tail(host) \in Wildcards /\ host[1] # "" THEN [wild |-> TRUE, labels |-> Tail(host)]
        ELSE <<>>
    BY DEF RouteByParent
  <2> DEFINE matching == {i \in DOMAIN wildcards : MatchesWildcard(wildcards[i], host)}
             first == CHOOSE i \in matching : \A j \in matching : i <= j
  <2>1. host \in Seq(Labels \cup {""}) /\ host # <<>>
    <3>1. PICK n \in 1..(Depth + 1) : host \in [1..n -> Labels \cup {""}]
      BY DEF RequestHosts, LabelSeqs
    <3>2. n \in Nat /\ n # 0
      BY RouterAssumption
    <3>3. ASSUME NEW S, host \in [1..n -> S] PROVE host \in Seq(S) /\ Len(host) = n
      BY <3>2, <3>3
    <3>4. Len(host) # 0 /\ Len(<<>>) = 0
      BY <3>1, <3>2, <3>3
    <3>5. host # <<>>
      BY <3>4, Zenon
    <3> QED BY <3>1, <3>3, <3>5, Zenon
  <2>2. ASSUME NEW i \in DOMAIN wildcards
        PROVE  wildcards[i] \in Seq(Labels) /\ Len(wildcards[i]) >= 1
    BY <2>2, RouterAssumption DEF RouterTypeOK, LabelSeqs
  <2>3. \A i \in DOMAIN wildcards :
          i \in matching <=> Tail(host) = wildcards[i] /\ host[1] # ""
    BY <2>1, <2>2, MatchesChildren
  <2>4. matching # {} <=> Tail(host) \in Wildcards /\ host[1] # ""
    BY <2>3 DEF Wildcards
  <2>5. matching # {} => first \in matching
    <3>1. matching \in SUBSET Nat
      BY DEF RouterTypeOK
    <3> HIDE DEF matching
    <3> QED BY <3>1, LeastIndex
  <2>6. matching # {} => wildcards[first] = Tail(host)
    BY <2>3, <2>5
  <2>7. ServeHTTP(host) =
          IF host \in exact THEN [wild |-> FALSE, labels |-> host]
          ELSE IF matching # {} THEN [wild |-> TRUE, labels |-> wildcards[first]] ELSE <<>>
    BY DEF ServeHTTP
  <2> HIDE DEF matching, first
  <2> QED BY <2>4, <2>6, <2>7
<1> QED BY <1>1, RouterTypes, PTL

-----------------------------------------------------------------------------
\* The position after a slot: the next one, or the first after the last.
LEMMA StepOrWrap ==
  ASSUME NEW i \in Slots
  PROVE  (i + 1) % MaxClosed = IF i + 1 < MaxClosed THEN i + 1 ELSE 0
<1>1. i \in Nat /\ MaxClosed \in Nat /\ MaxClosed > 0 /\ i + 1 <= MaxClosed
  BY LimitsAssumption DEF Slots
<1>2. CASE i + 1 < MaxClosed
  BY <1>1, <1>2
<1>3. CASE i + 1 = MaxClosed
  BY <1>1, <1>3
<1> QED BY <1>1, <1>2, <1>3

\* What the ring holds, read as a sequence.
LEMMA RecentHolds ==
  ASSUME NEW ring \in [Slots -> Sessions \cup {NoSession}], NEW idx \in Slots, FilledTo(ring, idx)
  PROVE  /\ RecentIn(ring, idx) \in Seq(Sessions)
         /\ Len(RecentIn(ring, idx)) = IF ring[idx] = NoSession THEN idx ELSE MaxClosed
         /\ Memory!Members(RecentIn(ring, idx)) = {ring[i] : i \in Slots} \ {NoSession}
<1>0. idx \in Nat /\ MaxClosed \in Nat /\ idx < MaxClosed
  BY LimitsAssumption DEF Slots
<1>1. CASE ring[idx] = NoSession
  <2> DEFINE r == [i \in 1 .. idx |-> ring[i - 1]]
  <2>1. RecentIn(ring, idx) = r
    BY <1>1 DEF RecentIn
  <2>2. \A i \in Slots : ring[i] = NoSession <=> i >= idx
    BY <1>1 DEF FilledTo
  <2>3. \A i \in 1 .. idx : i - 1 \in Slots /\ r[i] = ring[i - 1] /\ ring[i - 1] \in Sessions
    BY <1>0, <2>2 DEF Slots
  <2>4. r \in Seq(Sessions) /\ Len(r) = idx
    BY <1>0, <2>3
  <2>5. \A i \in Slots : ring[i] # NoSession => i + 1 \in 1 .. idx /\ r[i + 1] = ring[i]
    BY <1>0, <2>2 DEF Slots
  <2> HIDE DEF r
  <2>6. {r[i] : i \in 1 .. Len(r)} = {ring[i] : i \in Slots} \ {NoSession}
    BY <2>3, <2>4, <2>5, NoSessionAssumption
  <2> QED BY <1>1, <2>1, <2>4, <2>6 DEF Memory!Members
<1>2. CASE ring[idx] # NoSession
  <2> DEFINE w(i) == IF idx + i - 1 < MaxClosed THEN idx + i - 1 ELSE idx + i - 1 - MaxClosed
             r == [i \in 1 .. MaxClosed |-> ring[w(i)]]
  <2>1. RecentIn(ring, idx) = r
    BY <1>2 DEF RecentIn
  <2>2. \A i \in Slots : ring[i] # NoSession
    BY <1>0, <1>2 DEF FilledTo
  <2>3. \A i \in 1 .. MaxClosed : w(i) \in Slots
    BY <1>0 DEF Slots
  <2>4. \A i \in Slots : \E k \in 1 .. MaxClosed : w(k) = i
    <3>1. ASSUME NEW i \in Slots, i >= idx PROVE i - idx + 1 \in 1 .. MaxClosed /\ w(i - idx + 1) = i
      BY <1>0, <3>1 DEF Slots
    <3>2. ASSUME NEW i \in Slots, i < idx
          PROVE  i - idx + MaxClosed + 1 \in 1 .. MaxClosed /\ w(i - idx + MaxClosed + 1) = i
      BY <1>0, <3>2 DEF Slots
    <3>3. \A i \in Slots : i >= idx \/ i < idx
      BY <1>0 DEF Slots
    <3> QED BY <3>1, <3>2, <3>3
  <2> HIDE DEF w
  <2>5. \A i \in 1 .. MaxClosed : r[i] = ring[w(i)] /\ r[i] \in Sessions
    BY <2>2, <2>3
  <2>6. r \in Seq(Sessions) /\ Len(r) = MaxClosed
    BY <1>0, <2>5
  <2> HIDE DEF r
  <2>7. {r[i] : i \in 1 .. Len(r)} = {ring[i] : i \in Slots} \ {NoSession}
    <3>1. ASSUME NEW i \in 1 .. MaxClosed PROVE r[i] \in {ring[j] : j \in Slots} \ {NoSession}
      BY <2>3, <2>5, NoSessionAssumption
    <3>2. ASSUME NEW j \in Slots PROVE ring[j] \in {r[i] : i \in 1 .. MaxClosed}
      <4>1. PICK k \in 1 .. MaxClosed : w(k) = j
        BY <2>4
      <4>2. ring[j] = r[k]
        BY <2>5, <4>1
      <4> QED BY <4>2
    <3> QED BY <2>6, <3>1, <3>2
  <2> QED BY <1>2, <2>1, <2>6, <2>7 DEF Memory!Members
<1> QED BY <1>1, <1>2

\* What Append gives, as a function.
LEMMA AppendIs ==
  ASSUME NEW S, NEW q \in Seq(S), NEW e \in S
  PROVE  Append(q, e) = [i \in 1 .. Len(q) + 1 |-> IF i = Len(q) + 1 THEN e ELSE q[i]]
<1> DEFINE a == Append(q, e)
<1>1. /\ Len(q) \in Nat /\ a \in [1 .. Len(q) + 1 -> S]
      /\ \A i \in 1 .. Len(q) : a[i] = q[i]
      /\ a[Len(q) + 1] = e
  <2>1. Len(q) \in Nat /\ a \in Seq(S) /\ Len(a) = Len(q) + 1
    OBVIOUS
  <2>2. (\A i \in 1 .. Len(q) : a[i] = q[i]) /\ a[Len(q) + 1] = e
    BY <2>1
  <2>3. a \in [1 .. Len(a) -> S]
    <3> HIDE DEF a
    <3> QED BY <2>1
  <2> QED BY <2>1, <2>2, <2>3, Zenon
<1> HIDE DEF a
<1>2. \A i \in 1 .. Len(q) + 1 : i \in 1 .. Len(q) \/ i = Len(q) + 1
  BY <1>1
<1>3. \A i \in 1 .. Len(q) + 1 : a[i] = IF i = Len(q) + 1 THEN e ELSE q[i]
  BY <1>1, <1>2
<1>4. a = [i \in 1 .. Len(q) + 1 |-> a[i]]
  BY <1>1
<1>5. a = [i \in 1 .. Len(q) + 1 |-> IF i = Len(q) + 1 THEN e ELSE q[i]]
  BY <1>3, <1>4
<1> QED BY <1>5, Zenon DEF a

\* The memory after a further closing.
Pushed(recent, s) ==
  IF Len(recent) < MaxClosed THEN Append(recent, s) ELSE Append(Tail(recent), s)

\* Writing a slot appends to the sequence, which gives up its head when it is full.
LEMMA RecentAppends ==
  ASSUME NEW ring \in [Slots -> Sessions \cup {NoSession}], NEW idx \in Slots, FilledTo(ring, idx),
         NEW s \in Sessions
  PROVE  /\ FilledTo([ring EXCEPT ![idx] = s], (idx + 1) % MaxClosed)
         /\ RecentIn([ring EXCEPT ![idx] = s], (idx + 1) % MaxClosed) = Pushed(RecentIn(ring, idx), s)
<1> DEFINE ring2 == [ring EXCEPT ![idx] = s]
           idx2 == (idx + 1) % MaxClosed
           old == RecentIn(ring, idx)
           new == RecentIn(ring2, idx2)
<1>0. /\ idx \in Nat /\ MaxClosed \in Nat /\ idx < MaxClosed
      /\ idx2 = IF idx + 1 < MaxClosed THEN idx + 1 ELSE 0
      /\ idx2 \in Slots /\ 0 \in Slots
  BY LimitsAssumption, StepOrWrap DEF Slots
<1>1. /\ ring2[idx] = s /\ ring2 \in [Slots -> Sessions \cup {NoSession}] /\ s # NoSession
      /\ \A i \in Slots : i # idx => ring2[i] = ring[i]
  BY NoSessionAssumption
<1> SUFFICES FilledTo(ring2, idx2) /\ new = Pushed(old, s)
  OBVIOUS
<1> HIDE DEF ring2, idx2
<1>2. FilledTo(ring2, idx2)
  <2>1. CASE \A i \in Slots : ring[i] # NoSession
    BY <1>1, <2>1 DEF FilledTo
  <2>2. CASE \A i \in Slots : ring[i] = NoSession <=> i >= idx
    <3>1. CASE idx + 1 < MaxClosed
      <4>1. \A i \in Slots : i >= idx2 <=> i >= idx /\ i # idx
        BY <1>0, <3>1 DEF Slots
      <4> QED BY <1>1, <2>2, <4>1 DEF FilledTo
    <3>2. CASE ~(idx + 1 < MaxClosed)
      <4>1. \A i \in Slots : i >= idx <=> i = idx
        BY <1>0, <3>2 DEF Slots
      <4> QED BY <1>1, <2>2, <4>1 DEF FilledTo
    <3> QED BY <3>1, <3>2
  <2> QED BY <2>1, <2>2 DEF FilledTo
<1>3. /\ old \in Seq(Sessions) /\ Len(old) = (IF ring[idx] = NoSession THEN idx ELSE MaxClosed)
  BY RecentHolds
<1>4. CASE ring[idx] = NoSession
  <2>1. /\ \A i \in Slots : ring[i] = NoSession <=> i >= idx
        /\ old = [i \in 1 .. idx |-> ring[i - 1]]
    BY <1>4 DEF FilledTo, RecentIn
  <2>2. new = [i \in 1 .. idx + 1 |-> ring2[i - 1]]
    <3>1. CASE idx + 1 < MaxClosed
      <4>1. idx2 = idx + 1 /\ idx2 # idx /\ idx2 \in Slots /\ idx2 >= idx
        BY <1>0, <3>1
      <4>2. ring2[idx2] = NoSession
        BY <1>1, <2>1, <4>1
      <4> QED BY <4>1, <4>2 DEF RecentIn
    <3>2. CASE idx + 1 = MaxClosed
      <4>1. idx2 = 0
        BY <1>0, <3>2
      <4>2. ring2[idx2] # NoSession
        BY <1>0, <1>1, <2>1, <4>1
      <4> DEFINE w(i) == IF idx2 + i - 1 < MaxClosed THEN idx2 + i - 1 ELSE idx2 + i - 1 - MaxClosed
      <4>3. new = [i \in 1 .. MaxClosed |-> ring2[w(i)]]
        BY <4>2 DEF RecentIn
      <4>4. \A i \in 1 .. MaxClosed : w(i) = i - 1
        BY <1>0, <4>1
      <4> HIDE DEF w, new
      <4>5. new = [i \in 1 .. MaxClosed |-> ring2[i - 1]]
        BY <4>3, <4>4
      <4> QED BY <3>2, <4>5, Zenon
    <3> QED BY <1>0, <3>1, <3>2
  <2>3. new = Append(old, s)
    <3>1. \A i \in 1 .. idx : i - 1 \in Slots /\ i - 1 # idx
      BY <1>0 DEF Slots
    <3>2. Append(old, s) = [i \in 1 .. idx + 1 |-> IF i = idx + 1 THEN s ELSE old[i]]
      <4> HIDE DEF old
      <4> QED BY <1>0, <1>3, <1>4
    <3>3. ASSUME NEW i \in 1 .. idx + 1
          PROVE  ring2[i - 1] = IF i = idx + 1 THEN s ELSE old[i]
      <4>1. CASE i = idx + 1
        BY <1>0, <1>1, <4>1
      <4>2. CASE i # idx + 1
        <5>1. i \in 1 .. idx
          BY <1>0, <4>2
        <5>2. old[i] = ring[i - 1]
          BY <2>1, <5>1
        <5> QED BY <1>1, <3>1, <4>2, <5>1, <5>2
      <4> QED BY <4>1, <4>2
    <3> HIDE DEF old, new
    <3> QED BY <2>2, <3>2, <3>3
  <2>4. Len(old) < MaxClosed
    BY <1>0, <1>3, <1>4
  <2> QED BY <1>2, <2>3, <2>4, Zenon DEF Pushed
<1>5. CASE ring[idx] # NoSession
  <2> DEFINE w(i) == IF idx + i - 1 < MaxClosed THEN idx + i - 1 ELSE idx + i - 1 - MaxClosed
             w2(i) == IF idx2 + i - 1 < MaxClosed THEN idx2 + i - 1 ELSE idx2 + i - 1 - MaxClosed
  <2>1. \A i \in Slots : ring[i] # NoSession
    BY <1>0, <1>5 DEF FilledTo
  <2>2. old = [i \in 1 .. MaxClosed |-> ring[w(i)]]
    BY <1>5 DEF RecentIn
  <2>3. ring2[idx2] # NoSession
    BY <1>0, <1>1, <2>1
  <2>4. new = [i \in 1 .. MaxClosed |-> ring2[w2(i)]]
    BY <2>3 DEF RecentIn
  <2>5. w2(MaxClosed) = idx
    BY <1>0
  <2>6. \A i \in 1 .. MaxClosed - 1 : w2(i) = w(i + 1) /\ w2(i) \in Slots /\ w2(i) # idx
    BY <1>0 DEF Slots
  <2> HIDE DEF w, w2
  <2>7. Len(old) = MaxClosed /\ MaxClosed # 0
    BY <1>0, <1>3, <1>5
  <2>8. Append(Tail(old), s) = [i \in 1 .. MaxClosed |-> IF i = MaxClosed THEN s ELSE old[i + 1]]
    <3> HIDE DEF old
    <3>1. old # <<>>
      <4>1. Len(<<>>) = 0
        OBVIOUS
      <4> QED BY <2>7, <4>1, Zenon
    <3>2. /\ Tail(old) \in Seq(Sessions) /\ Len(Tail(old)) = MaxClosed - 1
          /\ \A i \in 1 .. MaxClosed - 1 : Tail(old)[i] = old[i + 1]
      BY <1>0, <1>3, <2>7, <3>1
    <3> DEFINE t == Tail(old)
    <3> HIDE DEF t
    <3>3. t \in Seq(Sessions) /\ Len(t) = MaxClosed - 1 /\ \A i \in 1 .. MaxClosed - 1 : t[i] = old[i + 1]
      BY <3>2, Zenon DEF t
    <3>4. Append(t, s) = [i \in 1 .. MaxClosed |-> IF i = MaxClosed THEN s ELSE t[i]]
      <4>1. MaxClosed \in Nat /\ MaxClosed >= 1
        BY <1>0, <2>7
      <4>2. 1 .. Len(t) + 1 = 1 .. MaxClosed /\ Len(t) + 1 = MaxClosed
        BY <3>3, <4>1
      <4>3. Append(t, s) = [i \in 1 .. Len(t) + 1 |-> IF i = Len(t) + 1 THEN s ELSE t[i]]
        BY <3>3, AppendIs
      <4> QED BY <4>2, <4>3, Zenon
    <3>5. \A i \in 1 .. MaxClosed : i # MaxClosed => t[i] = old[i + 1]
      BY <1>0, <3>3
    <3>6. Append(t, s) = [i \in 1 .. MaxClosed |-> IF i = MaxClosed THEN s ELSE old[i + 1]]
      BY <3>4, <3>5
    <3> QED BY <3>6, Zenon DEF t
  <2>9. ASSUME NEW i \in 1 .. MaxClosed
        PROVE  ring2[w2(i)] = IF i = MaxClosed THEN s ELSE old[i + 1]
    <3>1. CASE i = MaxClosed
      BY <1>1, <2>5, <3>1
    <3>2. CASE i # MaxClosed
      <4>1. i \in 1 .. MaxClosed - 1 /\ i + 1 \in 1 .. MaxClosed
        BY <1>0, <3>2
      <4>2. old[i + 1] = ring[w(i + 1)]
        BY <2>2, <4>1
      <4> QED BY <1>1, <2>6, <3>2, <4>1, <4>2
    <3> QED BY <3>1, <3>2
  <2> HIDE DEF old, new
  <2>10. new = Append(Tail(old), s)
    <3>1. new = [i \in 1 .. MaxClosed |-> IF i = MaxClosed THEN s ELSE old[i + 1]]
      BY <2>4, <2>9
    <3> QED BY <2>8, <3>1, Zenon
  <2>11. ~(Len(old) < MaxClosed)
    BY <1>0, <2>7
  <2> QED BY <1>2, <2>10, <2>11, Zenon DEF old, new, Pushed
<1> QED BY <1>4, <1>5

\* The registries on their own keep their invariant and fill the ring in order.
THEOREM RegistryInvariance == RegistrySpec => [](RegistryInv /\ RingFills)
<1>1. RegistryInit => RegistryInv /\ RingFills
  <2> SUFFICES ASSUME RegistryInit PROVE RegistryInv /\ RingFills
    OBVIOUS
  <2>1. RegistryInv
    BY LimitsAssumption
       DEF RegistryInit, RegistryInv, RegistryTypeOK, ClosedHasNoTools, RingExact, Slots
  <2>2. RingFills
    BY DEF RegistryInit, RingFills, FilledTo, Slots
  <2> QED BY <2>1, <2>2
<1>2. RegistryInv /\ RingFills /\ [RegistryNext]_registryVars => (RegistryInv /\ RingFills)'
  <2> SUFFICES ASSUME RegistryInv, RingFills, [RegistryNext]_registryVars
               PROVE  RegistryInv' /\ RingFills'
    OBVIOUS
  <2>1. CASE UNCHANGED registryVars
    BY <2>1 DEF RegistryInv, RegistryTypeOK, ClosedHasNoTools, RingExact, RingFills, registryVars, toolVars
  <2>2. ASSUME NEW s \in Sessions,
               \/ AddSender(s) \/ RemoveSender(s) \/ UnsubscribeAll(s)
               \/ \E uri \in Uris : Subscribe(s, uri) \/ Unsubscribe(s, uri)
               \/ \E tool \in Tools : AddTool(s, tool) \/ RemoveTool(s, tool)
        PROVE  RegistryInv' /\ RingFills'
    <3>1. RegistryInv'
      BY <2>2, RegistryStepInv
    <3>2. UNCHANGED <<closedRng, closedIdx>>
      BY <2>2 DEF AddSender, RemoveSender, UnsubscribeAll, Subscribe, Unsubscribe, AddTool, RemoveTool,
                  toolVars
    <3> QED BY <3>1, <3>2 DEF RingFills
  <2>3. ASSUME NEW s \in Sessions, RemoveSessionTools(s) PROVE RegistryInv' /\ RingFills'
    <3>1. RegistryInv'
      BY <2>3, RemoveSessionToolsInv
    <3>2. CASE s \in closed
      BY <2>3, <3>1, <3>2 DEF RemoveSessionTools, RingFills
    <3>3. CASE s \notin closed
      <4>1. /\ closedRng' = [closedRng EXCEPT ![closedIdx] = s]
            /\ closedIdx' = (closedIdx + 1) % MaxClosed
        BY <2>3, <3>3 DEF RemoveSessionTools
      <4>2. FilledTo(closedRng', closedIdx')
        BY <4>1, RecentAppends DEF RegistryInv, RegistryTypeOK, RingFills
      <4> QED BY <3>1, <4>2 DEF RingFills
    <3> QED BY <3>2, <3>3
  <2> QED BY <2>1, <2>2, <2>3 DEF RegistryNext
<1> QED BY <1>1, <1>2, PTL DEF RegistrySpec

\* A closing is a closing of the memory it implements, or a repetition that changes nothing.
LEMMA ClosingRefines ==
  ASSUME RegistryInv, RingFills, RegistryInv', RingFills', NEW s \in Sessions, RemoveSessionTools(s)
  PROVE  [Memory!Next]_<<RecentOf, closed>>
<1>1. CASE s \in closed
  BY <1>1 DEF RemoveSessionTools, RecentOf
<1>2. CASE s \notin closed
  <2>1. /\ closedRng' = [closedRng EXCEPT ![closedIdx] = s]
        /\ closedIdx' = (closedIdx + 1) % MaxClosed
    BY <1>2 DEF RemoveSessionTools
  <2>2. /\ closedRng \in [Slots -> Sessions \cup {NoSession}] /\ closedIdx \in Slots
        /\ FilledTo(closedRng, closedIdx)
    BY DEF RegistryInv, RegistryTypeOK, RingFills
  <2>3. /\ closedRng' \in [Slots -> Sessions \cup {NoSession}] /\ closedIdx' \in Slots
        /\ FilledTo(closedRng', closedIdx')
    BY DEF RegistryInv, RegistryTypeOK, RingFills
  <2>4. RecentOf' = IF Len(RecentOf) < MaxClosed THEN Append(RecentOf, s) ELSE Append(Tail(RecentOf), s)
    <3>1. RecentIn(closedRng', closedIdx') = Pushed(RecentIn(closedRng, closedIdx), s)
      <4>1. RecentIn([closedRng EXCEPT ![closedIdx] = s], (closedIdx + 1) % MaxClosed)
              = Pushed(RecentIn(closedRng, closedIdx), s)
        BY <2>2, RecentAppends
      <4> QED BY <2>1, <4>1, Zenon
    <3> QED BY <3>1, Zenon DEF RecentOf, Pushed
  <2>5. Memory!Members(RecentOf) = {closedRng[i] : i \in Slots} \ {NoSession}
    BY <2>2, RecentHolds DEF RecentOf
  <2>6. Memory!Members(RecentIn(closedRng', closedIdx')) = {closedRng'[i] : i \in Slots} \ {NoSession}
    BY <2>3, RecentHolds
  <2>7. Memory!Members(RecentOf') = Memory!Members(RecentIn(closedRng', closedIdx'))
    BY DEF RecentOf
  <2>8. s \notin Memory!Members(RecentOf)
    BY <1>2, <2>5 DEF RegistryInv, RingExact
  <2>9. closed' = Memory!Members(RecentOf')
    BY <2>6, <2>7 DEF RegistryInv, RingExact
  <2>10. Memory!Close(s)
    BY <2>4, <2>8, <2>9, Zenon DEF Memory!Close
  <2> QED BY <2>10 DEF Memory!Next
<1> QED BY <1>1, <1>2

\* The ring buffer and the lookup set of the closed sessions implement a bounded memory
\* that forgets a session only when MaxClosed others were closed after it.
THEOREM RegistryRemembersLatest == RegistrySpec => RemembersLatest
<1>1. RegistryInit => Memory!Init
  <2> SUFFICES ASSUME RegistryInit PROVE RecentOf = <<>> /\ closed = {}
    BY DEF Memory!Init
  <2>1. 0 \in Slots
    BY LimitsAssumption DEF Slots
  <2>2. RecentOf = [i \in 1 .. 0 |-> closedRng[i - 1]]
    BY <2>1 DEF RegistryInit, RecentOf, RecentIn
  <2> QED BY <2>2 DEF RegistryInit
<1>2. RegistryInv /\ RingFills /\ (RegistryInv /\ RingFills)' /\ [RegistryNext]_registryVars
        => [Memory!Next]_<<RecentOf, closed>>
  <2> SUFFICES ASSUME RegistryInv, RingFills, RegistryInv', RingFills', [RegistryNext]_registryVars
               PROVE  [Memory!Next]_<<RecentOf, closed>>
    OBVIOUS
  <2>1. ASSUME NEW s \in Sessions, RemoveSessionTools(s)
        PROVE  [Memory!Next]_<<RecentOf, closed>>
    BY <2>1, ClosingRefines
  <2>2. ASSUME NEW s \in Sessions,
               \/ AddSender(s) \/ RemoveSender(s) \/ UnsubscribeAll(s)
               \/ \E uri \in Uris : Subscribe(s, uri) \/ Unsubscribe(s, uri)
               \/ \E tool \in Tools : AddTool(s, tool) \/ RemoveTool(s, tool)
        PROVE  [Memory!Next]_<<RecentOf, closed>>
    <3>1. UNCHANGED <<closed, closedRng, closedIdx>>
      BY <2>2 DEF AddSender, RemoveSender, UnsubscribeAll, Subscribe, Unsubscribe, AddTool, RemoveTool,
                  toolVars
    <3> QED BY <3>1 DEF RecentOf
  <2>3. CASE UNCHANGED registryVars
    BY <2>3 DEF registryVars, toolVars, RecentOf
  <2> QED BY <2>1, <2>2, <2>3 DEF RegistryNext
<1> QED
  BY <1>1, <1>2, RegistryInvariance, PTL DEF RegistrySpec, RemembersLatest, Memory!Spec

\* Sets of tools that lose members stay within the limits.
LEMMA FewerTools ==
  ASSUME RegistryTypeOK, WithinLimits, Countable, NEW s \in Sessions,
         NEW fewer \in SUBSET sessionTools[s],
         sessionTools' = [sessionTools EXCEPT ![s] = fewer]
  PROVE  WithinLimits' /\ Countable'
<1>1. /\ sessionTools \in [Sessions -> SUBSET Tools] /\ sessionTools'[s] = fewer
      /\ \A x \in Sessions : x # s => sessionTools'[x] = sessionTools[x]
  BY DEF RegistryTypeOK
<1>2. WithTools' \in SUBSET WithTools
  BY <1>1 DEF WithTools
<1>3. /\ IsFiniteSet(WithTools') /\ Cardinality(WithTools') <= Cardinality(WithTools)
      /\ Cardinality(WithTools) \in Nat /\ Cardinality(WithTools') \in Nat
  BY <1>2, FS_Subset, FS_CardinalityType DEF Countable
<1>4. /\ IsFiniteSet(fewer) /\ Cardinality(fewer) <= Cardinality(sessionTools[s])
      /\ Cardinality(fewer) \in Nat /\ Cardinality(sessionTools[s]) \in Nat
  BY FS_Subset, FS_CardinalityType DEF Countable
<1>5. Cardinality(WithTools') <= MaxSessions /\ Cardinality(fewer) <= MaxTools
  BY <1>3, <1>4, LimitsAssumption DEF WithinLimits
<1> QED BY <1>1, <1>3, <1>4, <1>5 DEF WithinLimits, Countable

\* A tool is added only below both limits.
LEMMA AddToolLimits ==
  ASSUME RegistryTypeOK, WithinLimits, Countable, NEW s \in Sessions, NEW tool \in Tools,
         AddTool(s, tool)
  PROVE  WithinLimits' /\ Countable'
<1>1. CASE UNCHANGED sessionTools
  BY <1>1 DEF WithinLimits, Countable, WithTools
<1>2. CASE /\ s \in WithTools \/ Cardinality(WithTools) < MaxSessions
           /\ Cardinality(sessionTools[s]) < MaxTools
           /\ sessionTools' = [sessionTools EXCEPT ![s] = @ \cup {tool}]
  <2>1. /\ sessionTools'[s] = sessionTools[s] \cup {tool}
        /\ \A x \in Sessions : x # s => sessionTools'[x] = sessionTools[x]
    BY <1>2 DEF RegistryTypeOK
  <2>2. WithTools' = WithTools \cup {s}
    BY <2>1 DEF WithTools
  <2>3. /\ IsFiniteSet(WithTools')
        /\ Cardinality(WithTools')
             = IF s \in WithTools THEN Cardinality(WithTools) ELSE Cardinality(WithTools) + 1
    BY <2>2, FS_AddElement DEF Countable
  <2>4. /\ IsFiniteSet(sessionTools'[s])
        /\ Cardinality(sessionTools'[s])
             = IF tool \in sessionTools[s] THEN Cardinality(sessionTools[s])
                                           ELSE Cardinality(sessionTools[s]) + 1
    <3> DEFINE T == sessionTools[s]
    <3>1. IsFiniteSet(T)
      BY DEF Countable
    <3> HIDE DEF T
    <3>2. /\ IsFiniteSet(T \cup {tool})
          /\ Cardinality(T \cup {tool})
               = IF tool \in T THEN Cardinality(T) ELSE Cardinality(T) + 1
      BY <3>1, FS_AddElement
    <3> QED BY <2>1, <3>2 DEF T
  <2>5. Cardinality(WithTools) \in Nat /\ Cardinality(sessionTools[s]) \in Nat
    BY FS_CardinalityType DEF Countable
  <2>6. Cardinality(WithTools') <= MaxSessions /\ Cardinality(sessionTools'[s]) <= MaxTools
    BY <1>2, <2>3, <2>4, <2>5, LimitsAssumption DEF WithinLimits
  <2> QED BY <2>1, <2>3, <2>4, <2>6 DEF WithinLimits, Countable
<1> QED BY <1>1, <1>2 DEF AddTool

\* The tool registry stays within maxSessions and maxToolsPerSess, whatever calls come in
\* whatever order (sessionToolRegistry.add, remove and removeAll).
THEOREM RegistryWithinLimits == RegistrySpec => []WithinLimits
<1>1. RegistryInit => WithinLimits /\ Countable
  <2> SUFFICES ASSUME RegistryInit PROVE WithinLimits /\ Countable
    OBVIOUS
  <2>1. WithTools = {} /\ \A s \in Sessions : sessionTools[s] = {}
    BY DEF RegistryInit, WithTools
  <2>2. IsFiniteSet({}) /\ Cardinality({}) = 0
    BY FS_EmptySet
  <2>3. 0 <= MaxSessions /\ 0 <= MaxTools
    BY LimitsAssumption
  <2> QED BY <2>1, <2>2, <2>3, Zenon DEF WithinLimits, Countable
<1>2. RegistryTypeOK /\ WithinLimits /\ Countable /\ [RegistryNext]_registryVars
        => (WithinLimits /\ Countable)'
  <2> SUFFICES ASSUME RegistryTypeOK, WithinLimits, Countable, [RegistryNext]_registryVars
               PROVE  WithinLimits' /\ Countable'
    OBVIOUS
  <2>1. CASE UNCHANGED sessionTools
    BY <2>1 DEF WithinLimits, Countable, WithTools
  <2>2. ASSUME NEW s \in Sessions, NEW tool \in Tools, AddTool(s, tool)
        PROVE  WithinLimits' /\ Countable'
    BY <2>2, AddToolLimits
  <2>3. ASSUME NEW s \in Sessions, NEW tool \in Tools, RemoveTool(s, tool)
        PROVE  WithinLimits' /\ Countable'
    BY <2>3, FewerTools DEF RemoveTool
  <2>4. ASSUME NEW s \in Sessions, RemoveSessionTools(s) PROVE WithinLimits' /\ Countable'
    BY <2>4, FewerTools DEF RemoveSessionTools
  <2>5. ASSUME NEW s \in Sessions,
               \/ AddSender(s) \/ RemoveSender(s) \/ UnsubscribeAll(s)
               \/ \E uri \in Uris : Subscribe(s, uri) \/ Unsubscribe(s, uri)
        PROVE  UNCHANGED sessionTools
    BY <2>5 DEF AddSender, RemoveSender, UnsubscribeAll, Subscribe, Unsubscribe, toolVars
  <2> QED BY <2>1, <2>2, <2>3, <2>4, <2>5 DEF RegistryNext, registryVars, toolVars
<1>3. RegistryInv => RegistryTypeOK
  BY DEF RegistryInv
<1> QED BY <1>1, <1>2, <1>3, RegistryInvariance, PTL DEF RegistrySpec
=============================================================================
