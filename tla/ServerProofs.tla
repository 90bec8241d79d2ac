---------------------------- MODULE ServerProofs ----------------------------
(***************************************************************************)
(* Proofs about parts of the server.  Dispatch is correct for any number   *)
(* of messages, whatever ids they have and however their handlers, cancels *)
(* and Shutdown interleave; a list is as new as the client's knowledge and *)
(* an iterator returns all of it; a read finds what is registered; an SSE  *)
(* session loses nothing silently and a loop transport leaves nothing      *)
(* behind.                                                                 *)
(***************************************************************************)
EXTENDS Dispatch, Listing, ResourceReads, SSETransport, LoopTransport,
        FiniteSetTheorems, FunctionTheorems, TLAPS

\* normalizeRequestID is injective on the ids that have a key.
LEMMA NormalizeInjective ==
  ASSUME NEW i \in [type : IdTypes, text : IdTexts],
         NEW j \in [type : IdTypes, text : IdTexts],
         HasKey(i), HasKey(j), NormalizeRequestID(i) = NormalizeRequestID(j)
  PROVE  i = j
<1>1. i.type = j.type /\ i.text = j.text
  BY DEF HasKey, NormalizeRequestID
<1>2. i = [type |-> i.type, text |-> i.text] /\ j = [type |-> j.type, text |-> j.text]
  OBVIOUS
<1> QED BY <1>1, <1>2

\* The key of an id is a key of the table.
LEMMA NormalizeType ==
  ASSUME NEW m \in Messages
  PROVE  /\ Id[m] \in [type : IdTypes, text : IdTexts]
         /\ NormalizeRequestID(Id[m]) \in {"s", "n"} \X IdTexts
  BY MessagesAssumption DEF NormalizeRequestID

\* The variables keep their types.
LEMMA TypePreserved ==
  ASSUME TypeOK, Next
  PROVE  TypeOK'
<1> USE DEF Go
<1>1. ASSUME NEW m \in Messages, Receive(m) PROVE TypeOK'
  BY <1>1 DEF TypeOK, Receive, Stages, handshakeVars, shutdownVars
<1>2. ASSUME NEW m \in Messages, RejectMalformed(m) PROVE TypeOK'
  BY <1>2 DEF TypeOK, RejectMalformed, Stages, handshakeVars, shutdownVars
<1>3. ASSUME NEW m \in Messages, TrackRequest(m) PROVE TypeOK'
  BY <1>3, NormalizeType DEF TypeOK, TrackRequest, SetEntry, Stages, handshakeVars, shutdownVars
<1>4. ASSUME NEW m \in Messages, Route(m) PROVE TypeOK'
  BY <1>4 DEF TypeOK, Route, Stages, handshakeVars, shutdownVars
<1>5. ASSUME NEW m \in Messages, UntrackRequest(m) PROVE TypeOK'
  BY <1>5, NormalizeType DEF TypeOK, UntrackRequest, SetEntry, Stages, handshakeVars, shutdownVars
<1>6. ASSUME NEW m \in Messages, Return(m) PROVE TypeOK'
  BY <1>6 DEF TypeOK, Return, Stages, handshakeVars, shutdownVars
<1>7. ASSUME NEW m \in Messages, CancelRequest(m) PROVE TypeOK'
  <2>1. CASE at[m] = "received"
    BY <1>7, <2>1, NormalizeType
       DEF TypeOK, CancelRequest, SetEntry, Stages, handshakeVars, shutdownVars
  <2>2. CASE at[m] = "cancelling"
    BY <1>7, <2>2 DEF TypeOK, CancelRequest, Stages, handshakeVars, shutdownVars
  <2> QED BY <1>7, <2>1, <2>2 DEF CancelRequest
<1>8. ASSUME NEW m \in Messages, NEW wanted \in Supported \cup {Unsupported, NoVersion},
             HandleInitialize(m, wanted)
      PROVE  TypeOK'
  BY <1>8, VersionsAssumption
     DEF TypeOK, HandleInitialize, NegotiateVersion, Stages, handshakeVars, shutdownVars
<1>9. ASSUME NEW m \in Messages, HandlerReturns(m) PROVE TypeOK'
  BY <1>9 DEF TypeOK, HandlerReturns, Stages, handshakeVars, shutdownVars
<1>10. CASE Shutdown
  BY <1>10 DEF TypeOK, Shutdown, handshakeVars
<1>11. CASE WaitReturns
  BY <1>11 DEF TypeOK, WaitReturns, handshakeVars
<1>12. CASE ShutdownReturns
  BY <1>12 DEF TypeOK, ShutdownReturns, handshakeVars
<1> QED
  BY <1>1, <1>2, <1>3, <1>4, <1>5, <1>6, <1>7, <1>8, <1>9, <1>10, <1>11, <1>12 DEF Next, Handle

\* A step that only moves one invocation, not out of the tracked stages and
\* not back to where a notification starts, keeps the table right.
LEMMA MovePreservesTable ==
  ASSUME TypeOK, TableInv, NEW m \in Messages, NEW to,
         at' = [at EXCEPT ![m] = to], UNCHANGED <<requests, hit>>,
         at[m] \in Tracked <=> to \in Tracked,
         to \in {"none", "received"} => at[m] \in {"none", "received"}
  PROVE  TableInv'
  BY DEF TypeOK, TableInv, EntriesAreRunning, Cancellable

\* The table stays right.
LEMMA TablePreserved ==
  ASSUME TypeOK, TableInv, Next
  PROVE  TableInv'
<1> USE DEF Go
<1>1. ASSUME NEW m \in Messages, Receive(m) PROVE TableInv'
  BY <1>1, MovePreservesTable DEF Receive, Tracked
<1>2. ASSUME NEW m \in Messages, RejectMalformed(m) PROVE TableInv'
  BY <1>2, MovePreservesTable DEF RejectMalformed, Tracked
<1>3. ASSUME NEW m \in Messages, TrackRequest(m) PROVE TableInv'
  <2> DEFINE key == NormalizeRequestID(Id[m])
  <2>1. m \in Requests /\ at[m] = "received" /\ at' = [at EXCEPT ![m] = "tracked"]
        /\ requests' = SetEntry(Id[m], m) /\ hit' = hit
    BY <1>3 DEF TrackRequest
  <2>2. \A k \in DOMAIN requests : requests[k] # m
    BY <2>1, MessagesAssumption DEF TableInv, EntriesAreRunning, Tracked
  <2>3. \A k \in DOMAIN requests : requests'[k] = IF HasKey(Id[m]) /\ k = key THEN m ELSE requests[k]
    BY <2>1, NormalizeType DEF SetEntry, TypeOK
  <2>4. DOMAIN requests' = DOMAIN requests /\ key \in DOMAIN requests
    BY <2>1, NormalizeType DEF SetEntry, TypeOK
  <2>5. EntriesAreRunning'
    BY <2>1, <2>2, <2>3, <2>4 DEF TableInv, EntriesAreRunning, Tracked, TypeOK
  <2>6. \A k \in DOMAIN requests' : requests'[k] # Nobody => HasKey(Id[requests'[k]])
    BY <2>3, <2>4 DEF TableInv
  <2>7. \A n \in Messages : at'[n] \in Tracked => n \in Requests
    BY <2>1 DEF TableInv, TypeOK
  <2>8. \A c \in Messages : at'[c] \in {"none", "received"} => hit'[c] = Nobody
    BY <2>1 DEF TableInv, TypeOK
  <2>9. Cancellable'
    <3> SUFFICES ASSUME NEW n \in Requests, at'[n] \in Tracked, HasKey(Id[n]),
                        \A other \in Requests \ {n} : Id[other] # Id[n]
                 PROVE  \/ requests'[NormalizeRequestID(Id[n])] = n
                        \/ \E c \in Messages : hit'[c] = n
      BY DEF Cancellable
    <3>1. n \in Messages /\ NormalizeRequestID(Id[n]) \in DOMAIN requests
      BY NormalizeType DEF Requests, TypeOK
    <3>2. CASE n = m
      BY <3>1, <3>2, <2>3
    <3>3. CASE n # m
      <4>1. ~(HasKey(Id[m]) /\ NormalizeRequestID(Id[n]) = key)
        BY <3>1, <3>3, <2>1, NormalizeInjective, NormalizeType
      <4>2. at[n] \in Tracked
        BY <3>1, <3>3, <2>1 DEF TypeOK
      <4> QED BY <4>1, <4>2, <3>1, <2>1, <2>3 DEF TableInv, Cancellable
    <3> QED BY <3>2, <3>3
  <2> QED BY <2>5, <2>6, <2>7, <2>8, <2>9 DEF TableInv
<1>4. ASSUME NEW m \in Messages, Route(m) PROVE TableInv'
  BY <1>4, MovePreservesTable DEF Route, Tracked
<1>5. ASSUME NEW m \in Messages, UntrackRequest(m) PROVE TableInv'
  <2> DEFINE key == NormalizeRequestID(Id[m])
  <2>1. at[m] = "answered" /\ at' = [at EXCEPT ![m] = "untracked"]
        /\ requests' = SetEntry(Id[m], Nobody) /\ hit' = hit
    BY <1>5 DEF UntrackRequest
  <2>3. \A k \in DOMAIN requests : requests'[k] = IF HasKey(Id[m]) /\ k = key THEN Nobody ELSE requests[k]
    BY <2>1, NormalizeType DEF SetEntry, TypeOK
  <2>4. DOMAIN requests' = DOMAIN requests /\ key \in DOMAIN requests
    BY <2>1, NormalizeType DEF SetEntry, TypeOK
  <2>2. \A k \in DOMAIN requests' : requests'[k] # m
    BY <2>3, <2>4, MessagesAssumption DEF TableInv, EntriesAreRunning
  <2>5. EntriesAreRunning'
    BY <2>1, <2>2, <2>3, <2>4 DEF TableInv, EntriesAreRunning, TypeOK
  <2>6. \A k \in DOMAIN requests' : requests'[k] # Nobody => HasKey(Id[requests'[k]])
    BY <2>3, <2>4 DEF TableInv
  <2>7. \A n \in Messages : at'[n] \in Tracked => n \in Requests
    BY <2>1 DEF TableInv, TypeOK, Tracked
  <2>8. \A c \in Messages : at'[c] \in {"none", "received"} => hit'[c] = Nobody
    BY <2>1 DEF TableInv, TypeOK
  <2>9. Cancellable'
    <3> SUFFICES ASSUME NEW n \in Requests, at'[n] \in Tracked, HasKey(Id[n]),
                        \A other \in Requests \ {n} : Id[other] # Id[n]
                 PROVE  \/ requests'[NormalizeRequestID(Id[n])] = n
                        \/ \E c \in Messages : hit'[c] = n
      BY DEF Cancellable
    <3>1. n \in Messages /\ NormalizeRequestID(Id[n]) \in DOMAIN requests
      BY NormalizeType DEF Requests, TypeOK
    <3>2. n # m /\ at[n] \in Tracked
      BY <3>1, <2>1 DEF TypeOK, Tracked
    <3>3. m \in Requests
      BY <2>1 DEF TableInv, Tracked
    <3>4. ~(HasKey(Id[m]) /\ NormalizeRequestID(Id[n]) = key)
      BY <3>1, <3>2, <3>3, NormalizeInjective, NormalizeType
    <3> QED BY <3>1, <3>2, <3>4, <2>1, <2>3 DEF TableInv, Cancellable
  <2> QED BY <2>5, <2>6, <2>7, <2>8, <2>9 DEF TableInv
<1>6. ASSUME NEW m \in Messages, Return(m) PROVE TableInv'
  BY <1>6, MovePreservesTable DEF Return, Tracked
<1>7. ASSUME NEW c \in Messages, CancelRequest(c) PROVE TableInv'
  <2>1. CASE at[c] = "cancelling"
    BY <1>7, <2>1, MovePreservesTable DEF CancelRequest, Tracked
  <2>2. CASE at[c] # "cancelling"
    <3> DEFINE key == NormalizeRequestID(Id[c])
    <3>1. /\ at[c] = "received" /\ at' = [at EXCEPT ![c] = "cancelling"]
          /\ hit' = [hit EXCEPT ![c] = IF HasKey(Id[c]) THEN requests[key] ELSE Nobody]
          /\ requests' = SetEntry(Id[c], Nobody)
      BY <1>7, <2>2 DEF CancelRequest
    <3>3. \A k \in DOMAIN requests : requests'[k] = IF HasKey(Id[c]) /\ k = key THEN Nobody ELSE requests[k]
      BY <3>1, NormalizeType DEF SetEntry, TypeOK
    <3>4. DOMAIN requests' = DOMAIN requests /\ key \in DOMAIN requests
      BY <3>1, NormalizeType DEF SetEntry, TypeOK
    <3>5. EntriesAreRunning'
      BY <3>1, <3>3, <3>4 DEF TableInv, EntriesAreRunning, TypeOK, Tracked
    <3>6. \A k \in DOMAIN requests' : requests'[k] # Nobody => HasKey(Id[requests'[k]])
      BY <3>3, <3>4 DEF TableInv
    <3>7. \A n \in Messages : at'[n] \in Tracked => n \in Requests
      BY <3>1 DEF TableInv, TypeOK, Tracked
    <3>8. \A n \in Messages : at'[n] \in {"none", "received"} => hit'[n] = Nobody
      BY <3>1 DEF TableInv, TypeOK
    <3>9. Cancellable'
      <4> SUFFICES ASSUME NEW n \in Requests, at'[n] \in Tracked, HasKey(Id[n]),
                          \A other \in Requests \ {n} : Id[other] # Id[n]
                   PROVE  \/ requests'[NormalizeRequestID(Id[n])] = n
                          \/ \E d \in Messages : hit'[d] = n
        BY DEF Cancellable
      <4>1. n \in Messages /\ NormalizeRequestID(Id[n]) \in DOMAIN requests
        BY NormalizeType DEF Requests, TypeOK
      <4>2. n # c /\ at[n] \in Tracked
        BY <4>1, <3>1 DEF TypeOK, Tracked
      <4>3. CASE requests[NormalizeRequestID(Id[n])] = n
        BY <4>1, <4>3, <3>1, <3>3 DEF TypeOK
      <4>4. CASE \E d \in Messages : hit[d] = n
        <5> PICK d \in Messages : hit[d] = n
          BY <4>4
        <5>1. d # c
          BY <3>1, <4>1, MessagesAssumption DEF TableInv
        <5> QED BY <5>1, <3>1 DEF TypeOK
      <4> QED BY <4>2, <4>3, <4>4 DEF TableInv, Cancellable
    <3> QED BY <3>5, <3>6, <3>7, <3>8, <3>9 DEF TableInv
  <2> QED BY <2>1, <2>2
<1>8. ASSUME NEW m \in Messages, NEW wanted \in Supported \cup {Unsupported, NoVersion},
             HandleInitialize(m, wanted)
      PROVE  TableInv'
  BY <1>8, MovePreservesTable DEF HandleInitialize, Tracked
<1>9. ASSUME NEW m \in Messages, HandlerReturns(m) PROVE TableInv'
  BY <1>9, MovePreservesTable DEF HandlerReturns, Tracked
<1>10. CASE Shutdown \/ WaitReturns \/ ShutdownReturns
  BY <1>10 DEF Shutdown, WaitReturns, ShutdownReturns, TableInv, EntriesAreRunning, Cancellable
<1> QED
  BY <1>1, <1>2, <1>3, <1>4, <1>5, <1>6, <1>7, <1>8, <1>9, <1>10 DEF Next, Handle

\* The version stays ahead of the flag, and the flag ahead of every handler.
LEMMA HandshakePreserved ==
  ASSUME TypeOK, TableInv, HandshakeInv, Next
  PROVE  HandshakeInv'
<1> USE DEF Go, HandshakeInv, TypeOK
<1>1. ASSUME NEW m \in Messages, Receive(m) \/ RejectMalformed(m) \/ TrackRequest(m) PROVE HandshakeInv'
  BY <1>1 DEF Receive, RejectMalformed, TrackRequest, handshakeVars
<1>2. ASSUME NEW m \in Messages, Route(m) PROVE HandshakeInv'
  BY <1>2 DEF Route, handshakeVars
<1>3. ASSUME NEW m \in Messages, UntrackRequest(m) \/ Return(m) \/ CancelRequest(m) \/ HandlerReturns(m)
      PROVE HandshakeInv'
  BY <1>3 DEF UntrackRequest, Return, CancelRequest, HandlerReturns, handshakeVars
<1>4. ASSUME NEW m \in Messages, NEW wanted \in Supported \cup {Unsupported, NoVersion},
             HandleInitialize(m, wanted)
      PROVE  HandshakeInv'
  <2>1. NegotiateVersion(wanted) # NoVersion
    BY VersionsAssumption DEF NegotiateVersion
  <2> QED BY <1>4, <2>1 DEF HandleInitialize, handshakeVars
<1>5. CASE Shutdown \/ WaitReturns \/ ShutdownReturns
  BY <1>5 DEF Shutdown, WaitReturns, ShutdownReturns, handshakeVars
<1> QED BY <1>1, <1>2, <1>3, <1>4, <1>5 DEF Next, Handle

\* The count stays exact, and what Shutdown waits for never comes back.
LEMMA ShutdownPreserved ==
  ASSUME TypeOK, ShutdownInv, Next
  PROVE  ShutdownInv'
<1> USE DEF Go, ShutdownInv, TypeOK
<1>1. ASSUME NEW m \in Messages, Receive(m) PROVE ShutdownInv'
  BY <1>1 DEF Receive, shutdownVars
<1>2. ASSUME NEW m \in Messages, RejectMalformed(m) \/ Return(m) PROVE ShutdownInv'
  BY <1>2 DEF RejectMalformed, Return, shutdownVars
<1>3. ASSUME NEW m \in Messages, TrackRequest(m) \/ Route(m) \/ UntrackRequest(m) \/ HandlerReturns(m)
      PROVE  ShutdownInv'
  BY <1>3 DEF TrackRequest, Route, UntrackRequest, HandlerReturns, shutdownVars
<1>4. ASSUME NEW m \in Messages, CancelRequest(m) PROVE ShutdownInv'
  BY <1>4 DEF CancelRequest, shutdownVars
<1>5. ASSUME NEW m \in Messages, NEW wanted \in Supported \cup {Unsupported, NoVersion},
             HandleInitialize(m, wanted)
      PROVE  ShutdownInv'
  BY <1>5 DEF HandleInitialize, shutdownVars
<1>6. CASE Shutdown
  BY <1>6 DEF Shutdown
<1>7. CASE WaitReturns
  BY <1>7 DEF WaitReturns
<1>8. CASE ShutdownReturns
  BY <1>8 DEF ShutdownReturns
<1> QED BY <1>1, <1>2, <1>3, <1>4, <1>5, <1>6, <1>7, <1>8 DEF Next, Handle

\* IndInv holds in every reachable state.
THEOREM Invariance == Spec => []IndInv
<1>1. Init => IndInv
  BY MessagesAssumption
     DEF Init, IndInv, TypeOK, TableInv, HandshakeInv, ShutdownInv, EntriesAreRunning,
         Cancellable, Stages, Tracked, Requests
<1>2. IndInv /\ [Next]_vars => IndInv'
  <2> SUFFICES ASSUME IndInv, [Next]_vars PROVE IndInv'
    OBVIOUS
  <2>1. CASE Next
    BY <2>1, TypePreserved, TablePreserved, HandshakePreserved, ShutdownPreserved DEF IndInv
  <2>2. CASE UNCHANGED vars
    BY <2>2 DEF vars, IndInv, TypeOK, TableInv, HandshakeInv, ShutdownInv, EntriesAreRunning, Cancellable
  <2> QED BY <2>1, <2>2
<1> QED BY <1>1, <1>2, PTL DEF Spec

\* Server.requests holds running requests only (trackRequest, untrackRequest
\* and cancelRequest, in any order and with any ids).
THEOREM NoStaleEntry == Spec => []EntriesAreRunning
<1>1. IndInv => EntriesAreRunning
  BY DEF IndInv, TableInv
<1> QED BY <1>1, Invariance, PTL

\* A running request whose id is its own can be cancelled.
THEOREM StaysCancellable == Spec => []Cancellable
<1>1. IndInv => Cancellable
  BY DEF IndInv, TableInv
<1> QED BY <1>1, Invariance, PTL

\* No handler runs before the version was negotiated (handleInitialize).
THEOREM HandshakeFirst == Spec => []HandshakeBeforeUse
<1>1. IndInv => HandshakeBeforeUse
  BY DEF IndInv, TypeOK, HandshakeInv, HandshakeBeforeUse
<1> QED BY <1>1, Invariance, PTL

\* A Shutdown that returns nil has waited for all that was in flight.
THEOREM DrainedShutdown == Spec => []ShutdownDrains
<1>1. IndInv => ShutdownDrains
  BY DEF IndInv, ShutdownInv, ShutdownDrains
<1> QED BY <1>1, Invariance, PTL

-----------------------------------------------------------------------------
\* The registry a request reads next is one of those it still misses.
LEMMA NextMissing ==
  ASSUME ListingTypeOK, Missing # {}
  PROVE  NextOf \in Missing /\ NextOf \in Registries /\ NextOf \in Needs
BY DEF NextOf, Missing, Needs, ListingTypeOK, Registries

\* A change makes every broadcast and every told version older, and takes the sorted slice
\* of its registry away.
LEMMA ChangePreserves ==
  ASSUME ListingInv, NEW r \in Registries, NEW items, Changed(r, items),
         snapshots' = [snapshots EXCEPT ![r] = Nil]
  PROVE  ListingInv'
<1> USE DEF ListingInv
<1>1. /\ version' = [version EXCEPT ![r] = @ + 1]
      /\ version[r] + 1 \in Nat \ {0}
      /\ \A q \in Registries : version'[q] >= version[q] /\ (q # r => version'[q] = version[q])
      /\ version'[r] = version[r] + 1
  <2>1. version' = [version EXCEPT ![r] = version[r] + 1] /\ version \in [Registries -> Nat \ {0}]
    BY DEF Changed, ListingTypeOK
  <2>2. \A q \in Registries : version[q] \in Nat
    BY <2>1
  <2> QED BY <2>1, <2>2
<1>2. \A a \in announcing' : a \in announcing \/ a = <<r, version[r] + 1>>
  BY DEF Changed
<1>3. ListingTypeOK'
  <2>1. version' \in [Registries -> Nat \ {0}]
    BY <1>1 DEF ListingTypeOK
  <2>2. announcing' \subseteq Registries \X Nat
    BY <1>1, <1>2 DEF ListingTypeOK
  <2>3. snapshots' = [q \in Registries |-> snapshots'[q]]
    BY DEF ListingTypeOK
  <2> QED BY <2>1, <2>2, <2>3 DEF ListingTypeOK, Changed
<1>4. ToldThePast'
  <2>1. \A q \in Registries : told'[q] <= version'[q] /\ request'.floor[q] <= version'[q]
    <3>1. /\ UNCHANGED <<told, request>>
          /\ \A q \in Registries : /\ told[q] \in Nat /\ request.floor[q] \in Nat
                                   /\ version[q] \in Nat /\ version'[q] \in Nat
      BY <1>1, <1>3 DEF ListingTypeOK, Changed
    <3> QED BY <1>1, <3>1 DEF ToldThePast
  <2>2. \A a \in announcing' : a[2] <= version'[a[1]]
    BY <1>1, <1>2 DEF ToldThePast, ListingTypeOK
  <2> QED BY <2>1, <2>2 DEF ToldThePast
<1>5. SnapshotsCurrent'
  BY <1>1 DEF SnapshotsCurrent, ListingTypeOK, Nil
<1>6. ReadsAboveFloor'
  BY DEF ReadsAboveFloor, Changed, Missing, Needs
<1> QED BY <1>3, <1>4, <1>5, <1>6

\* Reading a snapshot that is not older than its registry.
LEMMA ReadPreserves ==
  ASSUME ListingInv, request.pc \in {"serving", "building"}, NEW r \in Registries, NEW s,
         s.at = version[r],
         request' = [request EXCEPT !.pc = "serving", !.used[r] = s],
         snapshots' = [snapshots EXCEPT ![r] = s] \/ UNCHANGED snapshots,
         UNCHANGED <<kind, registry, version, announcing, told, iter>>
  PROVE  ListingInv'
<1> USE DEF ListingInv
<1>1. /\ request'.pc = "serving" /\ request'.floor = request.floor
      /\ request'.used = [request.used EXCEPT ![r] = s]
      /\ request' = [pc |-> request'.pc, floor |-> request'.floor, used |-> request'.used]
  BY DEF ListingTypeOK
<1>2. /\ \A q \in Registries : request'.used[q] = IF q = r THEN s ELSE request.used[q]
      /\ request'.used = [q \in Registries |-> request'.used[q]]
  BY <1>1 DEF ListingTypeOK
<1>3. /\ snapshots' = [q \in Registries |-> snapshots'[q]]
      /\ \A q \in Registries : snapshots'[q] = snapshots[q] \/ (q = r /\ snapshots'[q] = s)
  BY DEF ListingTypeOK
<1>4. ListingTypeOK'
  BY <1>1, <1>2, <1>3 DEF ListingTypeOK
<1>5. ToldThePast'
  BY <1>1 DEF ToldThePast
<1>6. SnapshotsCurrent'
  BY <1>3 DEF SnapshotsCurrent
<1>7. ReadsAboveFloor'
  <2>1. version[r] \in Nat /\ version[r] >= request.floor[r]
    BY DEF ListingTypeOK, ToldThePast
  <2> QED BY <1>1, <1>2, <2>1 DEF ReadsAboveFloor
<1> QED BY <1>4, <1>5, <1>6, <1>7

\* Every step keeps the invariant.
LEMMA ListingStep ==
  ASSUME ListingInv, ListingNext
  PROVE  ListingInv'
<1> USE DEF ListingInv
<1>0. Needs \subseteq Registries
  BY DEF ListingTypeOK, Needs, Registries
<1>1. ASSUME NEW r \in Registries, NEW new, Register(r, new) PROVE ListingInv'
  BY <1>1, ChangePreserves DEF Register
<1>2. ASSUME NEW r \in Registries, NEW n, RemoveItem(r, n) PROVE ListingInv'
  BY <1>2, ChangePreserves DEF RemoveItem
<1>3. ASSUME NEW r \in Registries, OtherLists(r) PROVE ListingInv'
  <2>1. /\ snapshots' = [q \in Registries |-> snapshots'[q]]
        /\ \A q \in Registries : snapshots'[q] = snapshots[q] \/ snapshots'[q].at = version[q]
    BY <1>3 DEF OtherLists, ListingTypeOK
  <2>2. UNCHANGED <<kind, version, announcing, told, request>>
    BY <1>3 DEF OtherLists
  <2> QED BY <2>1, <2>2 DEF ListingTypeOK, ToldThePast, SnapshotsCurrent, ReadsAboveFloor, Missing, Needs
<1>4. ASSUME NEW a \in announcing, Announce(a) PROVE ListingInv'
  <2>1. a[1] \in Registries /\ a[2] \in Nat /\ a[2] <= version[a[1]]
    BY DEF ListingTypeOK, ToldThePast
  <2>2. /\ told' \in [Registries -> Nat]
        /\ \A q \in Registries : told'[q] = told[q] \/ (q = a[1] /\ told'[q] = a[2])
    BY <1>4, <2>1 DEF Announce, ListingTypeOK
  <2>3. announcing' \subseteq announcing /\ UNCHANGED <<kind, version, snapshots, request>>
    BY <1>4 DEF Announce
  <2>4. ListingTypeOK'
    BY <2>2, <2>3 DEF ListingTypeOK
  <2>5. ToldThePast'
    BY <2>1, <2>2, <2>3 DEF ToldThePast
  <2> QED BY <2>3, <2>4, <2>5 DEF SnapshotsCurrent, ReadsAboveFloor, Missing, Needs
<1>5. ASSUME NEW limit, Iterate(limit) PROVE ListingInv'
  BY <1>5 DEF Iterate, ListingTypeOK, ToldThePast, SnapshotsCurrent, ReadsAboveFloor, Missing, Needs
<1>6. CASE FetchPage
  <2>1. CASE UNCHANGED request
    BY <1>6, <2>1 DEF FetchPage, ListingTypeOK, ToldThePast, SnapshotsCurrent, ReadsAboveFloor,
                      Missing, Needs
  <2>2. CASE request' = [NoRequest EXCEPT !.pc = "serving", !.floor = told]
    <3>1. /\ request' = [pc |-> "serving", floor |-> told, used |-> [r \in Registries |-> Nil]]
          /\ request'.pc = "serving" /\ request'.floor = told
          /\ request'.used = [r \in Registries |-> Nil]
          /\ UNCHANGED <<kind, version, announcing, told, snapshots>>
      BY <1>6, <2>2 DEF FetchPage, NoRequest
    <3>2. ListingTypeOK'
      BY <3>1 DEF ListingTypeOK
    <3>3. ToldThePast' /\ SnapshotsCurrent'
      BY <3>1 DEF ToldThePast, SnapshotsCurrent
    <3>4. ReadsAboveFloor'
      BY <3>1 DEF ReadsAboveFloor, Nil
    <3> QED BY <3>2, <3>3, <3>4
  <2> QED BY <1>6, <2>1, <2>2 DEF FetchPage
<1>7. CASE ReadSnapshot
  <2> DEFINE r == NextOf
  <2>1. r \in Registries
    BY <1>7, NextMissing DEF ReadSnapshot
  <2>2. CASE request' = [request EXCEPT !.pc = "building"]
    <3>1. /\ request' = [pc |-> "building", floor |-> request.floor, used |-> request.used]
          /\ request'.pc = "building" /\ request'.floor = request.floor
          /\ request'.used = request.used
          /\ UNCHANGED <<kind, version, announcing, told, snapshots>>
      BY <1>7, <2>2 DEF ReadSnapshot, ListingTypeOK
    <3>2. Missing' = Missing /\ Missing # {}
      BY <1>7, <3>1 DEF ReadSnapshot, Missing, Needs
    <3>3. ListingTypeOK'
      BY <3>1 DEF ListingTypeOK
    <3>4. ToldThePast' /\ SnapshotsCurrent'
      BY <3>1 DEF ToldThePast, SnapshotsCurrent
    <3>5. ReadsAboveFloor'
      BY <3>1, <3>2 DEF ReadsAboveFloor
    <3> QED BY <3>3, <3>4, <3>5
  <2>3. ASSUME NEW s, s.at = version[r], request' = [request EXCEPT !.used[r] = s]
        PROVE  ListingInv'
    <3>1. request.pc = "serving" /\ UNCHANGED <<kind, registry, version, snapshots, announcing, told, iter>>
      BY <1>7 DEF ReadSnapshot
    <3>2. request' = [request EXCEPT !.pc = "serving", !.used[r] = s]
      <4> HIDE DEF r
      <4> QED BY <2>3, <3>1 DEF ListingTypeOK
    <3> HIDE DEF r
    <3> QED BY <2>1, <2>3, <3>1, <3>2, ReadPreserves
  <2>4. snapshots[r].at > 0 => snapshots[r].at = version[r]
    BY <2>1 DEF SnapshotsCurrent
  <2>5. \/ request' = [request EXCEPT !.pc = "building"]
        \/ request' = [request EXCEPT !.used[r] = [items |-> SortedItems(r), at |-> version[r]]]
        \/ snapshots[r].at > 0 /\ request' = [request EXCEPT !.used[r] = snapshots[r]]
    BY <1>7, Zenon DEF ReadSnapshot
  <2>6. [items |-> SortedItems(r), at |-> version[r]].at = version[r]
    OBVIOUS
  <2> HIDE DEF r
  <2> QED BY <2>2, <2>3, <2>4, <2>5, <2>6
<1>8. CASE BuildSnapshot
  <2> DEFINE r == NextOf
             built == IF snapshots[r].at > 0 THEN snapshots[r]
                                             ELSE [items |-> SortedItems(r), at |-> version[r]]
  <2>1. r \in Registries
    BY <1>8, NextMissing DEF BuildSnapshot, ReadsAboveFloor
  <2>2. built.at = version[r]
    BY <2>1 DEF SnapshotsCurrent
  <2>3. /\ request.pc = "building" /\ snapshots' = [snapshots EXCEPT ![r] = built]
        /\ request' = [request EXCEPT !.pc = "serving", !.used[r] = built]
        /\ UNCHANGED <<kind, registry, version, announcing, told, iter>>
    BY <1>8, Zenon DEF BuildSnapshot
  <2> HIDE DEF r, built
  <2> QED BY <2>1, <2>2, <2>3, ReadPreserves
<1>9. CASE Respond
  <2> DEFINE u == [r \in Registries |-> [items |-> <<>>, at |-> request.used[r].at]]
  <2>1. /\ request' = [pc |-> "answered", floor |-> request.floor, used |-> u]
        /\ UNCHANGED <<kind, version, announcing, told, snapshots>>
        /\ Missing = {}
    BY <1>9 DEF Respond, ListingTypeOK
  <2>2. /\ request'.pc = "answered" /\ request'.floor = request.floor /\ request'.used = u
        /\ \A r \in Registries : u[r].at = request.used[r].at
        /\ u = [r \in Registries |-> u[r]]
    BY <2>1
  <2> HIDE DEF u
  <2>3. ListingTypeOK'
    BY <2>1, <2>2 DEF ListingTypeOK
  <2>4. ToldThePast' /\ SnapshotsCurrent'
    BY <2>1, <2>2 DEF ToldThePast, SnapshotsCurrent
  <2>5. Missing' = Missing
    BY <1>0, <2>1, <2>2 DEF Missing, Needs
  <2>6. ReadsAboveFloor'
    BY <2>1, <2>2, <2>5 DEF ReadsAboveFloor
  <2> QED BY <2>3, <2>4, <2>6
<1>10. {"tools", "session", "resources", "prompts", "roots"} \subseteq Registries
  BY DEF Registries, Lists
<1> QED
  BY <1>0, <1>1, <1>2, <1>3, <1>4, <1>5, <1>6, <1>7, <1>8, <1>9, <1>10
     DEF ListingNext, RegisterTools, AddSessionTool, RegisterResource, RegisterPrompt, RegisterRoot,
         IterateTools, IterateResources, IteratePrompts, IterateRoots

\* The invariant holds in every reachable state of the registries and their lists.
THEOREM ListingInvariance == ListingSpec => []ListingInv
<1>1. ListingInit => ListingInv
  BY DEF ListingInit, ListingInv, ListingTypeOK, ToldThePast, SnapshotsCurrent, ReadsAboveFloor,
         NoRequest, Nil
<1>2. ListingInv /\ [ListingNext]_listingVars => ListingInv'
  <2>1. CASE UNCHANGED listingVars
    BY <2>1 DEF listingVars, ListingInv, ListingTypeOK, ToldThePast, SnapshotsCurrent,
                ReadsAboveFloor, Missing, Needs
  <2> QED BY <2>1, ListingStep
<1> QED BY <1>1, <1>2, PTL DEF ListingSpec

\* A client that asks after a list_changed notification gets a list from after that change:
\* no sorted slice survives a change, though it is read and built under different locks.
THEOREM ListsAreFresh == ListingSpec => []NotifiedListIsFresh
<1>1. ListingInv => NotifiedListIsFresh
  <2> SUFFICES ASSUME ListingInv, request.pc = "answered", NEW r \in Needs
               PROVE  request.used[r].at >= request.floor[r]
    BY DEF NotifiedListIsFresh
  <2>1. r \in Registries
    BY DEF ListingInv, ListingTypeOK, Needs, Registries
  <2>2. request.used[r].at # 0
    BY DEF ListingInv, ReadsAboveFloor, Missing
  <2> QED BY <2>1, <2>2 DEF ListingInv, ReadsAboveFloor
<1> QED BY <1>1, ListingInvariance, PTL

-----------------------------------------------------------------------------
(***************************************************************************)
(* What an iterator returns.  The first lemmas are about ordered lists of  *)
(* items: a set has one order, and appending, joining, filtering and       *)
(* merging keep it.  An order is built, and two are shown to be one, by    *)
(* taking a least counterexample.                                          *)
(***************************************************************************)
\* Every set of numbers that is not empty has a least member.
LEMMA LeastNumber ==
  ASSUME NEW T \in SUBSET Nat, T # {}
  PROVE  \E n \in T : \A m \in T : n <= m
<1> DEFINE F == {0..n : n \in T}
<1>1. \A n \in Nat : 0..n \in FiniteSubsetsOf(Nat)
  BY FS_Interval DEF FiniteSubsetsOf
<1>2. F \subseteq FiniteSubsetsOf(Nat) /\ F # {}
  BY <1>1
<1>3. \E x \in F : \A y \in F : ~ (<<y, x>> \in StrictSubsetOrdering(Nat))
  <2> HIDE DEF F
  <2> QED
    BY <1>2, FS_StrictSubsetOrderingWellFounded, WFMin
<1>4. PICK n \in T : \A y \in F : ~ (<<y, 0..n>> \in StrictSubsetOrdering(Nat))
  BY <1>3
<1>5. ASSUME NEW m \in T, m < n PROVE FALSE
  <2>1. ~ (<<0..m, 0..n>> \in StrictSubsetOrdering(Nat))
    BY <1>4
  <2>2. 0..m \in SUBSET Nat /\ 0..n \in SUBSET Nat
    OBVIOUS
  <2>3. 0..m \subseteq 0..n /\ 0..m # 0..n
    BY <1>5
  <2> QED
    BY <2>1, <2>2, <2>3 DEF StrictSubsetOrdering
<1> QED
  BY <1>5

\* The members of a finite set of numbers can be put in ascending order: a smallest set
\* for which they cannot would have a least member, and the others could.
LEMMA AscendingExists ==
  ASSUME NEW S \in SUBSET Nat, IsFiniteSet(S)
  PROVE  \E s : IsAscending(s, S)
<1> DEFINE Bad(n) == \E U \in SUBSET Nat : /\ IsFiniteSet(U) /\ Cardinality(U) = n
                                          /\ ~ \E s : IsAscending(s, U)
           T == {n \in Nat : Bad(n)}
<1> SUFFICES ASSUME T # {} PROVE FALSE
  BY FS_CardinalityType
<1>1. PICK n \in T : \A m \in T : n <= m
  <2> HIDE DEF T
  <2>1. T \in SUBSET Nat
    BY DEF T
  <2> QED
    BY <2>1, LeastNumber
<1>2. PICK U \in SUBSET Nat : IsFiniteSet(U) /\ Cardinality(U) = n /\ ~ \E s : IsAscending(s, U)
  BY <1>1
<1>3. CASE U = {}
  <2>1. Cardinality(U) = 0
    BY <1>3, FS_EmptySet
  <2>2. IsAscending([i \in 1..0 |-> 0], U)
    BY <2>1 DEF IsAscending
  <2> QED
    BY <2>2, <1>2
<1>4. CASE U # {}
  <2>1. PICK u \in U : \A v \in U : u <= v
    BY <1>2, <1>4, LeastNumber
  <2>2. IsFiniteSet(U \ {u}) /\ Cardinality(U \ {u}) = Cardinality(U) - 1
    BY <1>2, <2>1, FS_RemoveElement
  <2>3. Cardinality(U) \in Nat /\ Cardinality(U \ {u}) \in Nat
    BY <1>2, <2>2, FS_CardinalityType
  <2>4. U \ {u} \in SUBSET Nat
    OBVIOUS
  <2>5. ~ Bad(n - 1)
    <3>1. n - 1 \in Nat
      BY <1>2, <2>2, <2>3
    <3>2. n - 1 \notin T
      BY <1>1, <3>1
    <3> QED
      BY <3>1, <3>2
  <2>6. PICK s : IsAscending(s, U \ {u})
    BY <1>2, <2>2, <2>4, <2>5
  <2> DEFINE c == Cardinality(U \ {u})
  <2>a. c \in Nat /\ Cardinality(U) = c + 1
    BY <2>2, <2>3
  <2>b. s \in [1..c -> U \ {u}] /\ \A i, j \in 1..c : i < j => s[i] < s[j]
    BY <2>6 DEF IsAscending
  <2> HIDE DEF c
  <2>7. \A i \in 2..(c + 1) : i - 1 \in 1..c /\ s[i - 1] \in U \ {u}
    BY <2>a, <2>b
  <2> DEFINE t == [i \in 1..(c + 1) |-> IF i = 1 THEN u ELSE s[i - 1]]
  <2>8. t \in [1..(c + 1) -> U]
    BY <2>1, <2>7, <2>a
  <2>9. \A i, j \in 1..(c + 1) : i < j => t[i] < t[j]
    <3> SUFFICES ASSUME NEW i \in 1..(c + 1), NEW j \in 1..(c + 1), i < j
                 PROVE  t[i] < t[j]
      OBVIOUS
    <3>1. j \in 2..(c + 1)
      BY <2>a
    <3>2. t[j] = s[j - 1] /\ s[j - 1] \in U \ {u} /\ j - 1 \in 1..c
      BY <2>a, <2>7, <3>1
    <3>3. CASE i = 1
      <4>1. t[i] = u
        BY <3>3, <2>a
      <4>2. s[j - 1] \in Nat /\ u \in Nat /\ u <= s[j - 1] /\ s[j - 1] # u
        BY <3>2, <2>1
      <4> QED
        BY <4>1, <4>2, <3>2
    <3>4. CASE i # 1
      <4>1. i \in 2..(c + 1)
        BY <3>4, <2>a
      <4>2. t[i] = s[i - 1] /\ i - 1 \in 1..c
        BY <4>1, <2>7, <2>a
      <4>3. i - 1 < j - 1
        BY <2>a
      <4> QED
        BY <4>2, <4>3, <3>2, <2>b
    <3> QED
      BY <3>3, <3>4
  <2>10. IsAscending(t, U)
    BY <2>8, <2>9, <2>a DEF IsAscending
  <2> QED
    BY <2>10, <1>2
<1> QED
  BY <1>3, <1>4

\* Ascending(S) counts S through, each number once.
LEMMA AscendingCounts ==
  ASSUME NEW S \in SUBSET Nat, IsFiniteSet(S)
  PROVE  /\ Ascending(S) \in Seq(S)
         /\ \A i, j \in 1..Len(Ascending(S)) : i < j => Ascending(S)[i] < Ascending(S)[j]
         /\ \A x \in S : \E i \in 1..Len(Ascending(S)) : Ascending(S)[i] = x
<1> DEFINE n == Cardinality(S)
           a == Ascending(S)
<1>0. n \in Nat
  BY FS_CardinalityType
<1>1. IsAscending(a, S)
  <2>1. PICK s : IsAscending(s, S)
    BY AscendingExists
  <2> QED
    BY <2>1 DEF Ascending, IsAscending
<1>2. a \in [1..n -> S] /\ \A i, j \in 1..n : i < j => a[i] < a[j]
  BY <1>1 DEF IsAscending
<1> HIDE DEF a
<1>3. a \in Injection(1..n, S)
  <2>1. \A i, j \in 1..n : a[i] = a[j] => i = j
    <3> SUFFICES ASSUME NEW i \in 1..n, NEW j \in 1..n, a[i] = a[j], i # j PROVE FALSE
      OBVIOUS
    <3>1. a[i] \in Nat /\ a[j] \in Nat
      BY <1>2
    <3>2. i < j \/ j < i
      BY <1>0
    <3> QED
      BY <1>2, <3>1, <3>2
  <2> QED
    BY <1>2, <2>1, Fun_IsInj
<1>4. Cardinality(1..n) = n
  BY <1>0, FS_Interval
<1>5. a \in Surjection(1..n, S)
  BY <1>3, <1>4, FS_Injection
<1>6. \A x \in S : \E i \in 1..n : a[i] = x
  BY <1>5 DEF Surjection
<1>7. a \in Seq(S) /\ Len(a) = n
  BY <1>0, <1>2
<1> QED
  BY <1>2, <1>6, <1>7 DEF a

\* What an ordered list of items holds, spelled out.
LEMMA OrdersTypes ==
  ASSUME NEW S, NEW s, Orders(s, S)
  PROVE  /\ s \in Seq(ListItem) /\ Len(s) \in Nat
         /\ \A i \in 1..Len(s) : s[i] \in ListItem /\ s[i].name \in Nat
<1>1. s \in Seq(ListItem) /\ Len(s) \in Nat
  BY DEF Orders
<1>2. \A i \in 1..Len(s) : s[i] \in ListItem
  BY <1>1
<1> QED
  BY <1>1, <1>2 DEF ListItem

\* A set of items has one order: two sequences that hold it are the same.
LEMMA OrdersUnique ==
  ASSUME NEW S, NEW s, NEW t, Orders(s, S), Orders(t, S)
  PROVE  s = t
<1> DEFINE Agree(a, b) == \A i \in 1..Len(a) : i \in 1..Len(b) /\ a[i] = b[i]
<1>1. \A a, b : Orders(a, S) /\ Orders(b, S) => Agree(a, b)
  <2> SUFFICES ASSUME NEW a, NEW b, Orders(a, S), Orders(b, S), ~ Agree(a, b) PROVE FALSE
    OBVIOUS
  <2> DEFINE T == {i \in 1..Len(a) : ~ (i \in 1..Len(b) /\ a[i] = b[i])}
  <2>1. /\ a \in Seq(ListItem) /\ Len(a) \in Nat
        /\ \A i \in 1..Len(a) : a[i] \in S /\ a[i].name \in Nat
        /\ \A x \in S : \E i \in 1..Len(a) : a[i] = x
        /\ \A i, j \in 1..Len(a) : i < j => a[i].name < a[j].name
    BY OrdersTypes DEF Orders
  <2>2. /\ b \in Seq(ListItem) /\ Len(b) \in Nat
        /\ \A i \in 1..Len(b) : b[i] \in S /\ b[i].name \in Nat
        /\ \A x \in S : \E i \in 1..Len(b) : b[i] = x
        /\ \A i, j \in 1..Len(b) : i < j => b[i].name < b[j].name
    BY OrdersTypes DEF Orders
  <2>3. PICK n \in T : \A m \in T : n <= m
    <3>1. T \in SUBSET Nat
      BY <2>1
    <3>2. T # {}
      OBVIOUS
    <3> HIDE DEF T
    <3> QED
      BY <3>1, <3>2, LeastNumber
  <2>4. n \in 1..Len(a) /\ ~ (n \in 1..Len(b) /\ a[n] = b[n])
    OBVIOUS
  <2>5. \A k \in 1..Len(a) : k < n => k \in 1..Len(b) /\ a[k] = b[k]
    BY <2>1, <2>3, <2>4
  <2>6. PICK k \in 1..Len(b) : b[k] = a[n]
    BY <2>1, <2>2, <2>4
  <2>7. k >= n
    <3> SUFFICES ASSUME k < n PROVE FALSE
      BY <2>1, <2>2, <2>4
    <3>1. k \in 1..Len(a) /\ a[k] = b[k]
      BY <2>1, <2>2, <2>4, <2>5
    <3>2. a[k].name < a[n].name
      BY <3>1, <2>1, <2>4
    <3> QED
      BY <3>1, <3>2, <2>6, <2>1
  <2>8. n \in 1..Len(b)
    BY <2>1, <2>2, <2>4, <2>7
  <2>9. PICK l \in 1..Len(a) : a[l] = b[n]
    BY <2>1, <2>2, <2>8
  <2>10. l >= n
    <3> SUFFICES ASSUME l < n PROVE FALSE
      BY <2>1, <2>2, <2>4
    <3>1. l \in 1..Len(b) /\ a[l] = b[l]
      BY <2>1, <2>2, <2>4, <2>5
    <3>2. b[l].name < b[n].name
      BY <3>1, <2>2, <2>8
    <3> QED
      BY <3>1, <3>2, <2>9, <2>2, <2>8
  <2> HIDE DEF T, Agree
  <2>11. k = n \/ b[n].name < a[n].name
    <3>1. k = n \/ n < k
      BY <2>2, <2>6, <2>7, <2>8
    <3>2. n < k => b[n].name < b[k].name
      BY <2>2, <2>6, <2>8, Zenon
    <3> QED
      BY <3>1, <3>2, <2>6
  <2>12. l = n \/ a[n].name < b[n].name
    <3>1. l = n \/ n < l
      BY <2>1, <2>4, <2>9, <2>10
    <3>2. n < l => a[n].name < a[l].name
      BY <2>1, <2>4, <2>9, Zenon
    <3> QED
      BY <3>1, <3>2, <2>9
  <2> QED
    BY <2>1, <2>2, <2>4, <2>6, <2>8, <2>9, <2>11, <2>12
<1>2. Agree(s, t) /\ Agree(t, s)
  BY <1>1
<1>3. s \in Seq(ListItem) /\ t \in Seq(ListItem) /\ Len(s) \in Nat /\ Len(t) \in Nat
  BY DEF Orders
<1>4. Len(s) = Len(t)
  <2>1. Len(s) <= Len(t)
    BY <1>2, <1>3
  <2>2. Len(t) <= Len(s)
    BY <1>2, <1>3
  <2> QED
    BY <2>1, <2>2, <1>3
<1> QED
  BY <1>2, <1>3, <1>4

\* Adding an item with a greater name at the end.
LEMMA AppendOrders ==
  ASSUME NEW S, NEW s, Orders(s, S), NEW x \in ListItem, \A y \in S : y.name < x.name
  PROVE  Orders(Append(s, x), S \cup {x})
<1> DEFINE t == Append(s, x)
<1>1. s \in Seq(ListItem) /\ Len(s) \in Nat
  BY DEF Orders
<1>2. /\ t \in Seq(ListItem) /\ Len(t) = Len(s) + 1 /\ t[Len(s) + 1] = x
      /\ \A i \in 1..Len(s) : t[i] = s[i]
  BY <1>1
<1> HIDE DEF t
<1>3. \A i \in 1..Len(t) : i \in 1..Len(s) \/ i = Len(s) + 1
  BY <1>1, <1>2
<1>4. \A i \in 1..Len(t) : t[i] \in S \cup {x}
  BY <1>2, <1>3 DEF Orders
<1>5. \A y \in S \cup {x} : \E i \in 1..Len(t) : t[i] = y
  <2>1. 1..Len(s) \subseteq 1..Len(t) /\ Len(s) + 1 \in 1..Len(t)
    BY <1>1, <1>2
  <2>2. \A y \in S : \E i \in 1..Len(s) : s[i] = y
    BY DEF Orders
  <2> QED
    BY <2>1, <2>2, <1>2
<1>6. ASSUME NEW i \in 1..Len(t), NEW j \in 1..Len(t), i < j PROVE t[i].name < t[j].name
  <2>1. i \in 1..Len(s)
    BY <1>1, <1>2, <1>6
  <2>2. CASE j \in 1..Len(s)
    BY <2>1, <2>2, <1>2, <1>6 DEF Orders
  <2>3. CASE j = Len(s) + 1
    BY <2>1, <2>3, <1>2 DEF Orders
  <2> QED
    BY <2>2, <2>3, <1>3
<1> QED
  BY <1>2, <1>4, <1>5, <1>6 DEF Orders, t

\* One list after another whose names are all greater.
LEMMA ConcatOrders ==
  ASSUME NEW S, NEW T, NEW s, NEW t, Orders(s, S), Orders(t, T),
         \A x \in S, y \in T : x.name < y.name
  PROVE  Orders(s \o t, S \cup T)
<1> DEFINE u == s \o t
<1>1. s \in Seq(ListItem) /\ t \in Seq(ListItem) /\ Len(s) \in Nat /\ Len(t) \in Nat
  BY DEF Orders
<1>2. /\ u \in Seq(ListItem) /\ Len(u) = Len(s) + Len(t)
      /\ \A i \in 1..Len(s) : u[i] = s[i]
      /\ \A i \in 1..Len(t) : u[Len(s) + i] = t[i]
  BY <1>1
<1> HIDE DEF u
<1>3. \A i \in 1..Len(u) : i \in 1..Len(s) \/ (i - Len(s) \in 1..Len(t) /\ u[i] = t[i - Len(s)])
  <2> SUFFICES ASSUME NEW i \in 1..Len(u), i \notin 1..Len(s)
               PROVE  i - Len(s) \in 1..Len(t) /\ u[i] = t[i - Len(s)]
    OBVIOUS
  <2>1. i - Len(s) \in 1..Len(t) /\ Len(s) + (i - Len(s)) = i
    BY <1>1, <1>2
  <2> QED
    BY <2>1, <1>2
<1>4. \A i \in 1..Len(u) : u[i] \in S \cup T
  BY <1>2, <1>3 DEF Orders
<1>5. \A y \in S \cup T : \E i \in 1..Len(u) : u[i] = y
  <2>1. 1..Len(s) \subseteq 1..Len(u) /\ \A i \in 1..Len(t) : Len(s) + i \in 1..Len(u)
    BY <1>1, <1>2
  <2>2. (\A y \in S : \E i \in 1..Len(s) : s[i] = y) /\ (\A y \in T : \E i \in 1..Len(t) : t[i] = y)
    BY DEF Orders
  <2>3. ASSUME NEW y \in S PROVE \E i \in 1..Len(u) : u[i] = y
    <3>1. PICK i \in 1..Len(s) : s[i] = y
      BY <2>2
    <3> QED
      BY <3>1, <2>1, <1>2
  <2>4. ASSUME NEW y \in T PROVE \E i \in 1..Len(u) : u[i] = y
    <3>1. PICK i \in 1..Len(t) : t[i] = y
      BY <2>2
    <3> QED
      BY <3>1, <2>1, <1>2
  <2> QED
    BY <2>3, <2>4
<1>6. ASSUME NEW i \in 1..Len(u), NEW j \in 1..Len(u), i < j PROVE u[i].name < u[j].name
  <2>1. CASE j \in 1..Len(s)
    <3>1. i \in 1..Len(s)
      BY <1>1, <1>2, <1>6, <2>1
    <3> QED
      BY <3>1, <2>1, <1>2, <1>6 DEF Orders
  <2>2. CASE j \notin 1..Len(s)
    <3>1. j - Len(s) \in 1..Len(t) /\ u[j] = t[j - Len(s)] /\ t[j - Len(s)] \in T
      BY <2>2, <1>3 DEF Orders
    <3>2. CASE i \in 1..Len(s)
      BY <3>1, <3>2, <1>2 DEF Orders
    <3>3. CASE i \notin 1..Len(s)
      <4>1. i - Len(s) \in 1..Len(t) /\ u[i] = t[i - Len(s)]
        BY <3>3, <1>3
      <4>2. i - Len(s) < j - Len(s)
        BY <1>1, <1>2, <1>6
      <4> QED
        BY <3>1, <4>1, <4>2 DEF Orders
    <3> QED
      BY <3>2, <3>3
  <2> QED
    BY <2>1, <2>2
<1> QED
  BY <1>2, <1>4, <1>5, <1>6 DEF Orders, u

\* What is left of a list from some place on.
LEMMA RestOrders ==
  ASSUME NEW S, NEW s, Orders(s, S), NEW n \in 1..(Len(s) + 1)
  PROVE  Orders(SubSeq(s, n, Len(s)), {s[i] : i \in n..Len(s)})
<1> DEFINE t == SubSeq(s, n, Len(s))
           R == {s[i] : i \in n..Len(s)}
<1>1. s \in Seq(ListItem) /\ Len(s) \in Nat
  BY DEF Orders
<1>2. /\ t \in Seq(ListItem) /\ Len(t) = Len(s) - n + 1
      /\ \A i \in 1..Len(t) : t[i] = s[i + n - 1] /\ i + n - 1 \in n..Len(s)
  BY <1>1
<1> HIDE DEF t
<1>3. \A i \in 1..Len(t) : t[i] \in R
  BY <1>2
<1>4. ASSUME NEW x \in R PROVE \E i \in 1..Len(t) : t[i] = x
  <2>1. PICK k \in n..Len(s) : x = s[k]
    OBVIOUS
  <2>2. k - n + 1 \in 1..Len(t) /\ (k - n + 1) + n - 1 = k
    BY <1>1, <1>2
  <2> QED
    BY <2>1, <2>2, <1>2
<1>5. ASSUME NEW i \in 1..Len(t), NEW j \in 1..Len(t), i < j PROVE t[i].name < t[j].name
  <2>1. i + n - 1 \in 1..Len(s) /\ j + n - 1 \in 1..Len(s) /\ i + n - 1 < j + n - 1
    BY <1>1, <1>2, <1>5
  <2> QED
    BY <2>1, <1>2 DEF Orders
<1> QED
  BY <1>2, <1>3, <1>4, <1>5 DEF Orders, t

\* A list built from names in ascending order, each with its registry.
LEMMA NamedOrders ==
  ASSUME NEW N \in SUBSET Nat, IsFiniteSet(N), NEW home \in [N -> Registries]
  PROVE  Orders([i \in 1..Len(Ascending(N)) |->
                   [name |-> Ascending(N)[i], from |-> home[Ascending(N)[i]]]],
                {[name |-> n, from |-> home[n]] : n \in N})
<1> DEFINE a == Ascending(N)
           s == [i \in 1..Len(a) |-> [name |-> a[i], from |-> home[a[i]]]]
           S == {[name |-> n, from |-> home[n]] : n \in N}
<1>1. /\ a \in Seq(N) /\ Len(a) \in Nat
      /\ \A i, j \in 1..Len(a) : i < j => a[i] < a[j]
      /\ \A x \in N : \E i \in 1..Len(a) : a[i] = x
  BY AscendingCounts
<1> HIDE DEF a
<1>2. \A i \in 1..Len(a) : a[i] \in N
  BY <1>1
<1>3. \A i \in 1..Len(a) : s[i] = [name |-> a[i], from |-> home[a[i]]] /\ s[i] \in ListItem
  BY <1>2 DEF ListItem
<1>4. s \in Seq(ListItem) /\ Len(s) = Len(a)
  BY <1>1, <1>3
<1>5. \A i \in 1..Len(s) : s[i] \in S
  BY <1>2, <1>3, <1>4
<1>6. ASSUME NEW x \in S PROVE \E i \in 1..Len(s) : s[i] = x
  <2>1. PICK n \in N : x = [name |-> n, from |-> home[n]]
    OBVIOUS
  <2>2. PICK i \in 1..Len(a) : a[i] = n
    BY <1>1
  <2> QED
    BY <2>1, <2>2, <1>3, <1>4
<1>7. \A i, j \in 1..Len(s) : i < j => s[i].name < s[j].name
  BY <1>1, <1>3, <1>4
<1> QED
  BY <1>4, <1>5, <1>6, <1>7 DEF Orders, a

\* The sorted slice of a registry holds its names in order.
LEMMA SortedItemsOrder ==
  ASSUME NEW r \in Registries, registry[r] \in SUBSET Nat, IsFiniteSet(registry[r])
  PROVE  Orders(SortedItems(r), {[name |-> n, from |-> r] : n \in registry[r]})
<1> DEFINE N == registry[r]
           home == [n \in N |-> r]
           a == Ascending(N)
<1>1. Orders([i \in 1..Len(a) |-> [name |-> a[i], from |-> home[a[i]]]],
             {[name |-> n, from |-> home[n]] : n \in N})
  <2>1. home \in [N -> Registries]
    OBVIOUS
  <2> HIDE DEF home
  <2> QED
    BY <2>1, NamedOrders
<1>2. a \in Seq(N) /\ Len(a) \in Nat
  BY AscendingCounts
<1> HIDE DEF a
<1>3. [i \in 1..Len(a) |-> [name |-> a[i], from |-> home[a[i]]]] =
        [i \in 1..Len(a) |-> [name |-> a[i], from |-> r]]
  <2>1. \A i \in 1..Len(a) : home[a[i]] = r
    BY <1>2
  <2> HIDE DEF home
  <2> QED
    BY <2>1
<1>4. {[name |-> n, from |-> home[n]] : n \in N} = {[name |-> n, from |-> r] : n \in N}
  OBVIOUS
<1>5. SortedItems(r) = [i \in 1..Len(a) |-> [name |-> a[i], from |-> r]]
  BY Zenon DEF SortedItems, a
<1> HIDE DEF home
<1> QED
  BY <1>1, <1>3, <1>4, <1>5

\* The filter keeps the order.
LEMMA FilteredOrders ==
  ASSUME NEW S, NEW s, Orders(s, S)
  PROVE  Orders(Filtered(s), {x \in S : Allowed(x)})
<1> DEFINE K == {i \in 1..Len(s) : Allowed(s[i])}
           a == Ascending(K)
           t == [k \in 1..Len(a) |-> s[a[k]]]
<1>1. /\ s \in Seq(ListItem) /\ Len(s) \in Nat
      /\ \A i \in 1..Len(s) : s[i] \in ListItem /\ s[i] \in S
      /\ \A i, j \in 1..Len(s) : i < j => s[i].name < s[j].name
      /\ \A x \in S : \E i \in 1..Len(s) : s[i] = x
  BY OrdersTypes DEF Orders
<1>2. K \in SUBSET Nat /\ IsFiniteSet(K)
  <2>1. K \in SUBSET (1..Len(s)) /\ IsFiniteSet(1..Len(s))
    BY <1>1, FS_Interval
  <2> QED
    BY <2>1, FS_Subset
<1>3. /\ a \in Seq(K) /\ Len(a) \in Nat
      /\ \A i, j \in 1..Len(a) : i < j => a[i] < a[j]
      /\ \A x \in K : \E i \in 1..Len(a) : a[i] = x
  <2> HIDE DEF K
  <2> QED
    BY <1>2, AscendingCounts
<1> HIDE DEF a
<1>4. \A k \in 1..Len(a) : a[k] \in 1..Len(s) /\ Allowed(s[a[k]])
  BY <1>3
<1>5. t \in Seq(ListItem) /\ Len(t) = Len(a) /\ \A k \in 1..Len(a) : t[k] = s[a[k]]
  BY <1>1, <1>3, <1>4
<1>6. \A k \in 1..Len(t) : t[k] \in {x \in S : Allowed(x)}
  BY <1>1, <1>4, <1>5
<1>7. ASSUME NEW x \in S, Allowed(x) PROVE \E k \in 1..Len(t) : t[k] = x
  <2>1. PICK i \in 1..Len(s) : s[i] = x
    BY <1>1
  <2>2. PICK k \in 1..Len(a) : a[k] = i
    BY <2>1, <1>3, <1>7
  <2> QED
    BY <2>1, <2>2, <1>5
<1>8. \A i, j \in 1..Len(t) : i < j => t[i].name < t[j].name
  BY <1>1, <1>3, <1>4, <1>5
<1>9. Filtered(s) = t
  BY Zenon DEF Filtered, a
<1> HIDE DEF t, K
<1> QED
  BY <1>5, <1>6, <1>7, <1>8, <1>9 DEF Orders

\* The merge loop starts with nothing merged and both slices left.
LEMMA MergeStartInv ==
  ASSUME NEW G, NEW S, NEW global, NEW session, Orders(global, G), Orders(session, S)
  PROVE  MergeInv(global, session, MergeStart)
<1>1. Len(global) \in Nat /\ Len(session) \in Nat
  BY DEF Orders
<1>2. MergedUpTo(global, session, 1, 1) = {}
  BY DEF MergedUpTo
<1>3. Orders(<<>>, {})
  BY DEF Orders
<1> QED
  BY <1>1, <1>2, <1>3 DEF MergeInv, MergeStart

\* A round of the merge loop keeps its invariant, whichever tool it takes.
LEMMA MergeRoundInv ==
  ASSUME NEW G, NEW S, NEW global, NEW session, Orders(global, G), Orders(session, S),
         NEW round, MergeInv(global, session, round)
  PROVE  /\ MergeInv(global, session, MergeRound(global, session, round))
         /\ round.gi <= Len(global) /\ round.si <= Len(session) =>
              MergeRound(global, session, round).gi + MergeRound(global, session, round).si
                > round.gi + round.si
<1> DEFINE gi == round.gi
           si == round.si
           M == MergedUpTo(global, session, gi, si)
           g == global[gi]
           s == session[si]
           next == MergeRound(global, session, round)
<1>1. /\ Len(global) \in Nat /\ Len(session) \in Nat
      /\ \A i \in 1..Len(global) : global[i] \in ListItem /\ global[i].name \in Nat
      /\ \A i, j \in 1..Len(global) : i < j => global[i].name < global[j].name
  BY OrdersTypes DEF Orders
<1>2. /\ \A i \in 1..Len(session) : session[i] \in ListItem /\ session[i].name \in Nat
      /\ \A i, j \in 1..Len(session) : i < j => session[i].name < session[j].name
  BY OrdersTypes DEF Orders
<1>3. /\ gi \in 1..(Len(global) + 1) /\ si \in 1..(Len(session) + 1)
      /\ Orders(round.merged, M)
      /\ \A x \in M : /\ \A k \in gi..Len(global) : x.name < global[k].name
                      /\ \A k \in si..Len(session) : x.name < session[k].name
  BY DEF MergeInv
<1>4. CASE gi > Len(global) \/ si > Len(session)
  <2>1. next = round
    BY <1>4 DEF MergeRound
  <2> QED
    BY <2>1, <1>1, <1>3, <1>4
<1>5. CASE gi <= Len(global) /\ si <= Len(session)
  <2>1. gi \in 1..Len(global) /\ si \in 1..Len(session)
    BY <1>1, <1>3, <1>5
  <2>2. g \in ListItem /\ s \in ListItem /\ g.name \in Nat /\ s.name \in Nat
    BY <1>1, <1>2, <2>1
  <2>3. \A j \in 1..(si - 1) : session[j] \in M
    BY DEF MergedUpTo
  <2>4. \A i \in 1..gi : i \in 1..(gi - 1) \/ i = gi
    BY <1>1, <2>1
  <2>5. \A j \in 1..si : j \in 1..(si - 1) \/ j = si
    BY <1>1, <2>1
  <2>6. ~ (gi > Len(global) \/ si > Len(session))
    BY <1>1, <2>1
  <2> HIDE DEF M
  <2>7. CASE g.name < s.name
    <3>1. next = [gi |-> gi + 1, si |-> si, merged |-> Append(round.merged, g)]
      BY <2>6, <2>7 DEF MergeRound
    <3>2. Unshadowed(session, g)
      <4> SUFFICES ASSUME NEW j \in 1..Len(session) PROVE session[j].name # g.name
        BY DEF Unshadowed
      <4>1. CASE j < si
        <5>1. session[j] \in M
          BY <4>1, <2>1, <2>3, <1>1
        <5>2. gi \in gi..Len(global)
          BY <2>1, <1>1
        <5>3. session[j].name < g.name
          BY <5>1, <5>2, <1>3
        <5> QED
          BY <5>3, <1>2, <2>2
      <4>2. CASE j = si
        BY <4>2, <2>7, <2>2
      <4>3. CASE j > si
        <5>1. session[j].name > s.name
          BY <4>3, <1>2, <2>1
        <5> QED
          BY <5>1, <2>7, <2>2, <1>2
      <4> QED
        BY <4>1, <4>2, <4>3, <2>1
    <3>3. MergedUpTo(global, session, gi + 1, si) = M \cup {g}
      <4>1. (gi + 1) - 1 = gi
        BY <2>1
      <4>2. {i \in 1..gi : Unshadowed(session, global[i])} =
              {i \in 1..(gi - 1) : Unshadowed(session, global[i])} \cup {gi}
        BY <3>2, <2>1, <2>4
      <4> QED
        BY <4>1, <4>2 DEF MergedUpTo, M
    <3>4. Orders(Append(round.merged, g), M \cup {g})
      BY <1>3, <2>1, <2>2, AppendOrders
    <3>5. ASSUME NEW x \in M \cup {g}
          PROVE  /\ \A k \in (gi + 1)..Len(global) : x.name < global[k].name
                 /\ \A k \in si..Len(session) : x.name < session[k].name
      <4>1. CASE x \in M
        BY <4>1, <1>3, <2>1
      <4>2. CASE x = g
        <5>1. \A k \in (gi + 1)..Len(global) : x.name < global[k].name
          BY <4>2, <1>1, <2>1
        <5>2. ASSUME NEW k \in si..Len(session) PROVE x.name < session[k].name
          <6>1. k \in 1..Len(session) /\ (k = si \/ si < k)
            BY <2>1
          <6>2. s.name <= session[k].name
            BY <6>1, <1>2, <2>1, <2>2
          <6> QED
            BY <6>1, <6>2, <4>2, <2>7, <2>2, <1>2
        <5> QED
          BY <5>1, <5>2
      <4> QED
        BY <4>1, <4>2
    <3>6. gi + 1 \in 1..(Len(global) + 1)
      BY <2>1, <1>1
    <3>7. MergeInv(global, session, next)
      <4>1. next.gi = gi + 1 /\ next.si = si /\ next.merged = Append(round.merged, g)
        BY <3>1
      <4>2. next = [gi |-> next.gi, si |-> next.si, merged |-> next.merged]
        BY <3>1, <4>1
      <4> HIDE DEF next
      <4> QED
        BY <4>1, <4>2, <3>3, <3>4, <3>5, <3>6, <1>3 DEF MergeInv
    <3> QED
      BY <3>1, <3>7, <1>3
  <2>8. ASSUME g.name >= s.name, NEW n \in {gi, gi + 1},
               n = gi + 1 => g.name = s.name, n = gi => g.name > s.name,
               next = [gi |-> n, si |-> si + 1, merged |-> Append(round.merged, s)]
        PROVE  MergeInv(global, session, next) /\ next.gi + next.si > gi + si
    <3>1. MergedUpTo(global, session, n, si + 1) = M \cup {s}
      <4>1. (si + 1) - 1 = si /\ (gi + 1) - 1 = gi
        BY <2>1
      <4>2. {session[k] : k \in 1..si} = {session[k] : k \in 1..(si - 1)} \cup {s}
        BY <2>1, <2>5
      <4>3. {i \in 1..(n - 1) : Unshadowed(session, global[i])} =
              {i \in 1..(gi - 1) : Unshadowed(session, global[i])}
        <5>1. CASE n = gi
          BY <5>1
        <5>2. CASE n = gi + 1
          <6>1. ~ Unshadowed(session, global[gi])
            BY <2>8, <5>2, <2>1 DEF Unshadowed
          <6>2. \A i : i \in 1..(n - 1) /\ i # gi <=> i \in 1..(gi - 1)
            BY <2>1, <5>2
          <6> QED
            BY <6>1, <6>2
        <5> QED
          BY <5>1, <5>2, <2>8
      <4> QED
        BY <4>1, <4>2, <4>3 DEF MergedUpTo, M
    <3>2. Orders(Append(round.merged, s), M \cup {s})
      BY <1>3, <2>1, <2>2, AppendOrders
    <3>3. ASSUME NEW x \in M \cup {s}
          PROVE  /\ \A k \in n..Len(global) : x.name < global[k].name
                 /\ \A k \in (si + 1)..Len(session) : x.name < session[k].name
      <4>1. CASE x \in M
        BY <4>1, <1>3, <2>1
      <4>2. CASE x = s
        <5>1. \A k \in (si + 1)..Len(session) : x.name < session[k].name
          BY <4>2, <1>2, <2>1
        <5>2. ASSUME NEW k \in n..Len(global) PROVE x.name < global[k].name
          <6>1. k \in 1..Len(global) /\ (k = gi \/ gi < k)
            BY <2>1
          <6>2. k = gi => n = gi
            BY <2>1
          <6>3. g.name <= global[k].name /\ global[k].name \in Nat
            BY <6>1, <1>1, <2>1, <2>2
          <6>4. gi < k => g.name < global[k].name
            BY <6>1, <1>1, <2>1
          <6> QED
            BY <6>1, <6>2, <6>3, <6>4, <4>2, <2>8, <2>2
        <5> QED
          BY <5>1, <5>2
      <4> QED
        BY <4>1, <4>2
    <3>4. n \in 1..(Len(global) + 1) /\ si + 1 \in 1..(Len(session) + 1)
      BY <2>1, <1>1
    <3>5. MergeInv(global, session, next)
      <4>1. next.gi = n /\ next.si = si + 1 /\ next.merged = Append(round.merged, s)
        BY <2>8
      <4>2. next = [gi |-> next.gi, si |-> next.si, merged |-> next.merged]
        BY <2>8, <4>1
      <4> HIDE DEF next
      <4> QED
        BY <4>1, <4>2, <3>1, <3>2, <3>3, <3>4 DEF MergeInv
    <3>6. n + (si + 1) > gi + si
      BY <2>1
    <3> QED
      BY <2>8, <3>5, <3>6
  <2>9. CASE g.name > s.name
    <3>1. next = [gi |-> gi, si |-> si + 1, merged |-> Append(round.merged, s)]
      BY <2>2, <2>6, <2>9 DEF MergeRound
    <3>2. gi # gi + 1
      BY <2>1
    <3> QED
      BY <2>2, <2>8, <2>9, <3>1, <3>2
  <2>10. CASE g.name = s.name
    <3>1. next = [gi |-> gi + 1, si |-> si + 1, merged |-> Append(round.merged, s)]
      BY <2>2, <2>6, <2>10 DEF MergeRound
    <3>2. gi # gi + 1
      BY <2>1
    <3> QED
      BY <2>2, <2>8, <2>10, <3>1, <3>2
  <2> QED
    BY <2>2, <2>7, <2>9, <2>10
<1> QED
  BY <1>1, <1>3, <1>4, <1>5

\* The rounds of the loop exist.
LEMMA MergeRounds ==
  ASSUME NEW global, NEW session, NEW N \in Nat
  PROVE  \E f : IsMergeRun(global, session, N, f)
<1> USE DEF IsMergeRun
<1> DEFINE Good(n, f) == IsMergeRun(global, session, n, f)
           T == {n \in Nat : ~ \E f : Good(n, f)}
<1> SUFFICES ASSUME T # {} PROVE FALSE
  OBVIOUS
<1>1. PICK n \in T : \A m \in T : n <= m
  <2>1. T \in SUBSET Nat
    OBVIOUS
  <2> HIDE DEF T
  <2> QED
    BY <2>1, LeastNumber
<1>2. n # 0
  <2> SUFFICES ASSUME n = 0 PROVE FALSE
    OBVIOUS
  <2>1. Good(0, [k \in 0..0 |-> MergeStart])
    OBVIOUS
  <2> QED
    BY <2>1
<1>3. n - 1 \in Nat /\ n - 1 \notin T
  <2>1. T \subseteq Nat
    OBVIOUS
  <2> HIDE DEF T
  <2> QED
    BY <2>1, <1>1, <1>2
<1>4. PICK f : Good(n - 1, f)
  BY <1>3
<1> DEFINE h == [k \in 0..n |-> IF k = n THEN MergeRound(global, session, f[n - 1]) ELSE f[k]]
<1>5. Good(n, h)
  <2>1. \A k \in 0..n : h[k] = IF k = n THEN MergeRound(global, session, f[n - 1]) ELSE f[k]
    OBVIOUS
  <2>2. \A k \in 0..(n - 1) :
          f[k] = IF k = 0 THEN MergeStart ELSE MergeRound(global, session, f[k - 1])
    BY <1>4, Zenon
  <2>3. ASSUME NEW k \in 0..n
        PROVE  h[k] = IF k = 0 THEN MergeStart ELSE MergeRound(global, session, h[k - 1])
    <3>1. k # 0 => k - 1 \in 0..n /\ k - 1 # n
      BY <1>3
    <3>2. CASE k = n
      BY <2>1, <3>1, <3>2, <1>2
    <3>3. CASE k # n
      <4>1. k \in 0..(n - 1)
        BY <1>3, <3>3
      <4> QED
        BY <4>1, <2>1, <2>2, <3>1, <3>3
    <3> QED
      BY <3>2, <3>3
  <2> QED
    BY <2>3
<1> QED
  BY <1>5

\* The merge of two lists: both sets, without what the session shadows.
LEMMA MergeOrders ==
  ASSUME NEW G, NEW S, NEW global, NEW session, Orders(global, G), Orders(session, S)
  PROVE  Orders(MergeSessionTools(global, session),
                {x \in G : \A y \in S : y.name # x.name} \cup S)
<1> DEFINE N == Len(global) + Len(session)
           after == CHOOSE f : IsMergeRun(global, session, N, f)
           end == after[N]
           M == MergedUpTo(global, session, end.gi, end.si)
           RG == {global[k] : k \in end.gi..Len(global)}
           RS == {session[k] : k \in end.si..Len(session)}
           left == SubSeq(global, end.gi, Len(global))
           right == SubSeq(session, end.si, Len(session))
<1>0. Len(global) \in Nat /\ Len(session) \in Nat /\ N \in Nat
  BY DEF Orders
<1>1. IsMergeRun(global, session, N, after)
  BY <1>0, MergeRounds
<1> HIDE DEF after
<1>2. after[0] = MergeStart /\ \A k \in 1..N : after[k] = MergeRound(global, session, after[k - 1])
  <2>1. \A k \in 0..N : after[k] = IF k = 0 THEN MergeStart
                                    ELSE MergeRound(global, session, after[k - 1])
    BY <1>1, Zenon DEF IsMergeRun
  <2> QED
    BY <2>1, <1>0
<1>3. \A k \in 0..N : /\ MergeInv(global, session, after[k])
                       /\ \/ after[k].gi > Len(global) \/ after[k].si > Len(session)
                          \/ after[k].gi + after[k].si >= k + 2
  <2> DEFINE Holds(k) == /\ MergeInv(global, session, after[k])
                         /\ \/ after[k].gi > Len(global) \/ after[k].si > Len(session)
                            \/ after[k].gi + after[k].si >= k + 2
             T == {k \in 0..N : ~ Holds(k)}
  <2> SUFFICES ASSUME T # {} PROVE FALSE
    OBVIOUS
  <2>1. PICK n \in T : \A m \in T : n <= m
    <3>1. T \in SUBSET Nat
      BY <1>0
    <3> HIDE DEF T
    <3> QED
      BY <3>1, LeastNumber
  <2>2. n # 0
    <3>1. Holds(0)
      BY <1>2, MergeStartInv DEF MergeStart
    <3> QED
      BY <3>1
  <2>3. n - 1 \in 0..N /\ n \in 1..N /\ n - 1 \notin T
    <3>1. n \in 0..N
      BY <2>1
    <3>2. n \in 1..N /\ n - 1 \in 0..N /\ ~ (n <= n - 1)
      BY <3>1, <2>2, <1>0
    <3> HIDE DEF T
    <3> QED
      BY <3>2, <2>1
  <2> DEFINE w == after[n - 1]
  <2>4. Holds(n - 1)
    BY <2>3
  <2>5. after[n] = MergeRound(global, session, w)
    BY <2>3, <1>2
  <2>6. /\ MergeInv(global, session, after[n])
        /\ w.gi <= Len(global) /\ w.si <= Len(session) => after[n].gi + after[n].si > w.gi + w.si
    BY <2>4, <2>5, MergeRoundInv
  <2>7. w.gi \in Nat /\ w.si \in Nat /\ after[n].gi \in Nat /\ after[n].si \in Nat
    <3>1. \A x : MergeInv(global, session, x) => x.gi \in Nat /\ x.si \in Nat
      BY <1>0 DEF MergeInv
    <3>2. MergeInv(global, session, w)
      BY <2>4
    <3> HIDE DEF w
    <3> QED
      BY <3>1, <3>2, <2>6, Zenon
  <2>8. w.gi > Len(global) \/ w.si > Len(session) => after[n] = w
    BY <2>5 DEF MergeRound
  <2>9. Holds(n)
    <3>1. CASE w.gi > Len(global) \/ w.si > Len(session)
      BY <3>1, <2>6, <2>8
    <3>2. CASE ~ (w.gi > Len(global) \/ w.si > Len(session))
      <4>1. w.gi + w.si >= (n - 1) + 2
        BY <3>2, <2>4
      <4>2. after[n].gi + after[n].si > w.gi + w.si
        <5> HIDE DEF w, T, Holds
        <5>1. w.gi <= Len(global) /\ w.si <= Len(session)
          BY <3>2, <2>7, <1>0
        <5> QED
          BY <5>1, <2>6
      <4>3. after[n].gi + after[n].si >= n + 2
        <5>1. n \in Nat
          BY <2>3, <1>0
        <5>2. \A a, b \in Nat : a >= (n - 1) + 2 /\ b > a => b >= n + 2
          BY <5>1
        <5> HIDE DEF w, T, Holds
        <5>3. w.gi + w.si \in Nat /\ after[n].gi + after[n].si \in Nat
          BY <2>7
        <5> QED
          BY <4>1, <4>2, <5>2, <5>3
      <4> QED
        BY <4>3, <2>6
    <3> QED
      BY <3>1, <3>2
  <2> QED
    BY <2>9
<1>4. MergeInv(global, session, end) /\ (end.gi > Len(global) \/ end.si > Len(session))
  <2>1. N \in 0..N
    BY <1>0
  <2>2. /\ MergeInv(global, session, end)
        /\ \/ end.gi > Len(global) \/ end.si > Len(session)
           \/ end.gi + end.si >= N + 2
    BY <1>3, <2>1
  <2>3. end.gi \in 1..(Len(global) + 1) /\ end.si \in 1..(Len(session) + 1)
    BY <2>2 DEF MergeInv
  <2>4. \A g, t, i, j \in Nat : i <= g + 1 /\ j <= t + 1 /\ i + j >= (g + t) + 2 => i > g
    OBVIOUS
  <2> HIDE DEF end
  <2>5. end.gi \in Nat /\ end.si \in Nat
    BY <2>3, <1>0
  <2>6. end.gi + end.si >= N + 2 => end.gi > Len(global)
    BY <2>3, <2>4, <2>5, <1>0
  <2> QED
    BY <2>2, <2>6
<1> HIDE DEF end
<1>5. /\ end.gi \in 1..(Len(global) + 1) /\ end.si \in 1..(Len(session) + 1)
      /\ Orders(end.merged, M)
      /\ \A x \in M : (\A y \in RG : x.name < y.name) /\ (\A y \in RS : x.name < y.name)
  BY <1>4 DEF MergeInv
<1>6. Orders(left, RG) /\ Orders(right, RS)
  BY <1>5, RestOrders
<1>7. RG = {} \/ RS = {}
  BY <1>0, <1>4, <1>5
<1>8. Orders((end.merged \o left) \o right, (M \cup RG) \cup RS)
  <2> HIDE DEF M, RG, RS, left, right
  <2>1. Orders(end.merged \o left, M \cup RG)
    BY <1>5, <1>6, ConcatOrders
  <2>2. \A x \in M \cup RG, y \in RS : x.name < y.name
    BY <1>5, <1>7
  <2> QED
    BY <2>1, <2>2, <1>6, ConcatOrders
<1>9. (M \cup RG) \cup RS = {x \in G : \A y \in S : y.name # x.name} \cup S
  <2>1. S = {session[k] : k \in 1..(end.si - 1)} \cup RS
    <3>1. \A k \in 1..Len(session) : k \in 1..(end.si - 1) \/ k \in end.si..Len(session)
      BY <1>0, <1>5
    <3>2. \A k : k \in 1..(end.si - 1) \/ k \in end.si..Len(session) => k \in 1..Len(session)
      BY <1>0, <1>5
    <3>3. \A x \in S : \E k \in 1..Len(session) : session[k] = x
      BY DEF Orders
    <3>4. \A k \in 1..Len(session) : session[k] \in S
      BY DEF Orders
    <3> QED
      BY <3>1, <3>2, <3>3, <3>4
  <2>2. \A x : Unshadowed(session, x) <=> \A y \in S : y.name # x.name
    BY DEF Unshadowed, Orders
  <2>3. \A k \in end.gi..Len(global) : Unshadowed(session, global[k])
    <3> SUFFICES ASSUME NEW k \in end.gi..Len(global), NEW j \in 1..Len(session)
                 PROVE  session[j].name # global[k].name
      BY DEF Unshadowed
    <3>1. j \in 1..(end.si - 1)
      BY <1>0, <1>4, <1>5
    <3>2. session[j] \in M /\ global[k] \in RG
      BY <3>1 DEF MergedUpTo
    <3>3. session[j].name < global[k].name
      BY <3>2, <1>5
    <3>4. session[j].name \in Nat /\ global[k].name \in Nat
      <4>1. k \in 1..Len(global)
        BY <1>0, <1>5
      <4> QED
        BY <4>1, OrdersTypes
    <3> QED
      BY <3>3, <3>4
  <2>4. {x \in G : Unshadowed(session, x)} =
          {global[k] : k \in {i \in 1..(end.gi - 1) : Unshadowed(session, global[i])}} \cup RG
    <3>1. \A k \in 1..Len(global) : k \in 1..(end.gi - 1) \/ k \in end.gi..Len(global)
      BY <1>0, <1>5
    <3>2. \A k : k \in 1..(end.gi - 1) \/ k \in end.gi..Len(global) => k \in 1..Len(global)
      BY <1>0, <1>5
    <3>3. \A x \in G : \E k \in 1..Len(global) : global[k] = x
      BY DEF Orders
    <3>4. \A k \in 1..Len(global) : global[k] \in G
      BY DEF Orders
    <3> QED
      BY <3>1, <3>2, <3>3, <3>4, <2>3
  <2>5. {x \in G : \A y \in S : y.name # x.name} = {x \in G : Unshadowed(session, x)}
    BY <2>2
  <2> QED
    BY <2>1, <2>4, <2>5 DEF MergedUpTo
<1>10. MergeSessionTools(global, session) = (end.merged \o left) \o right
  BY Zenon DEF MergeSessionTools, IsMergeRun, end, after
<1> QED
  BY <1>8, <1>9, <1>10

\* What is needed of the registries.
LEMMA RegistryTypes ==
  ASSUME registry \in [Registries -> SUBSET Names]
  PROVE  \A r \in Registries : registry[r] \in SUBSET Nat /\ IsFiniteSet(registry[r])
  BY ListingAssumption, FS_Subset

\* The reference definition of the list holds the visible items in the order of their names.
LEMMA VisibleOrders ==
  ASSUME registry \in [Registries -> SUBSET Names], kind \in Lists
  PROVE  Orders(VisibleItems, {[name |-> n, from |-> HomeOf(n)] : n \in VisibleNames})
<1> DEFINE N == VisibleNames
           home == [n \in N |-> HomeOf(n)]
           a == Ascending(N)
<1>1. N \in SUBSET Nat /\ IsFiniteSet(N)
  <2>1. Needs \subseteq Registries
    BY DEF Needs, Registries, Lists
  <2>2. N \subseteq Names
    BY <2>1 DEF VisibleNames
  <2> QED
    BY <2>2, ListingAssumption, FS_Subset
<1>2. home \in [N -> Registries]
  BY DEF HomeOf, Registries
<1>3. a \in Seq(N) /\ Len(a) \in Nat
  BY <1>1, AscendingCounts
<1>4. Orders([i \in 1..Len(a) |-> [name |-> a[i], from |-> home[a[i]]]],
             {[name |-> n, from |-> home[n]] : n \in N})
  <2> HIDE DEF home, N
  <2> QED
    BY <1>1, <1>2, NamedOrders
<1> HIDE DEF a, N
<1>5. [i \in 1..Len(a) |-> [name |-> a[i], from |-> home[a[i]]]] =
        [i \in 1..Len(a) |-> [name |-> a[i], from |-> HomeOf(a[i])]]
  <2>1. \A i \in 1..Len(a) : home[a[i]] = HomeOf(a[i])
    BY <1>3
  <2> HIDE DEF home
  <2> QED
    BY <2>1
<1>6. {[name |-> n, from |-> home[n]] : n \in N} = {[name |-> n, from |-> HomeOf(n)] : n \in N}
  OBVIOUS
<1>7. VisibleItems = [i \in 1..Len(a) |-> [name |-> a[i], from |-> HomeOf(a[i])]]
  BY Zenon DEF VisibleItems, a, N
<1> HIDE DEF home
<1> QED
  BY <1>4, <1>5, <1>6, <1>7 DEF N

\* A request that has read the registries as they are lists what the client may see.
LEMMA ListedIsVisible ==
  ASSUME registry \in [Registries -> SUBSET Names], kind \in Lists,
         \A r \in Needs : request.used[r].items = SortedItems(r)
  PROVE  Listed = VisibleItems
<1> DEFINE Named(r) == {[name |-> n, from |-> r] : n \in registry[r]}
           Visible == {[name |-> n, from |-> HomeOf(n)] : n \in VisibleNames}
<1>1. \A r \in Registries : Orders(SortedItems(r), Named(r))
  BY RegistryTypes, SortedItemsOrder
<1>2. Orders(VisibleItems, Visible)
  BY VisibleOrders
<1>3. CASE kind = "tools"
  <2> DEFINE G == Named("tools")
             S == Named("session")
             all == {x \in G : \A y \in S : y.name # x.name} \cup S
             merged == MergeSessionTools(SortedItems("tools"), SortedItems("session"))
  <2>1. Orders(SortedItems("tools"), G) /\ Orders(SortedItems("session"), S)
    BY <1>1 DEF Registries, Lists
  <2>2. Listed = Filtered(merged)
    BY <1>3 DEF Listed, HandleToolsList, Needs
  <2>3. Orders(merged, all)
    <3> HIDE DEF G, S
    <3> QED
      BY <2>1, MergeOrders
  <2>4. Orders(Filtered(merged), {x \in all : Allowed(x)})
    <3> HIDE DEF merged, all
    <3> QED
      BY <2>3, FilteredOrders
  <2>5. {x \in all : Allowed(x)} = Visible
    <3>1. VisibleNames = (registry["tools"] \cup registry["session"]) \ Hidden
      BY <1>3 DEF VisibleNames, Needs
    <3>2. \A x : x \in G <=> x \in {[name |-> n, from |-> "tools"] : n \in registry["tools"]}
      OBVIOUS
    <3>3. {x \in G : \A y \in S : y.name # x.name} =
            {[name |-> n, from |-> "tools"] : n \in registry["tools"] \ registry["session"]}
      <4>1. \A n \in registry["session"] : \E y \in S : y.name = n
        <5> SUFFICES ASSUME NEW n \in registry["session"] PROVE \E y \in S : y.name = n
          OBVIOUS
        <5>1. [name |-> n, from |-> "session"] \in S
          OBVIOUS
        <5> QED
          BY <5>1
      <4>2. \A y \in S : y.name \in registry["session"]
        OBVIOUS
      <4> HIDE DEF S
      <4>3. ASSUME NEW n \in registry["tools"]
            PROVE  n \notin registry["session"] <=> \A y \in S : y.name # n
        BY <4>1, <4>2
      <4>4. \A x \in G : \E n \in registry["tools"] :
              x = [name |-> n, from |-> "tools"] /\ x.name = n
        OBVIOUS
      <4> QED
        BY <4>3, <4>4
    <3>4. \A n : HomeOf(n) = IF n \in registry["session"] THEN "session" ELSE "tools"
      BY <1>3 DEF HomeOf
    <3>5. Visible \subseteq {x \in all : Allowed(x)}
      BY <3>1, <3>3, <3>4 DEF Allowed
    <3>6. {x \in all : Allowed(x)} \subseteq Visible
      <4> SUFFICES ASSUME NEW x \in all, Allowed(x) PROVE x \in Visible
        OBVIOUS
      <4>1. CASE x \in S
        BY <4>1, <3>1, <3>4 DEF Allowed
      <4>2. CASE x \in {[name |-> n, from |-> "tools"] :
                          n \in registry["tools"] \ registry["session"]}
        BY <4>2, <3>1, <3>4 DEF Allowed
      <4> QED
        BY <4>1, <4>2, <3>3
    <3> QED
      BY <3>5, <3>6
  <2> HIDE DEF merged, all, Visible
  <2> QED
    BY <1>2, <2>2, <2>4, <2>5, OrdersUnique
<1>4. ASSUME kind # "tools" PROVE \A n : HomeOf(n) = kind
  BY <1>4 DEF HomeOf
<1>5. ASSUME kind # "tools"
      PROVE  /\ VisibleNames = IF kind = "roots" THEN registry[kind] ELSE registry[kind] \ Hidden
             /\ Orders(SortedItems(kind), Named(kind))
             /\ request.used[kind].items = SortedItems(kind)
  BY <1>1, <1>5 DEF VisibleNames, Needs, Registries
<1>6. CASE kind \in {"resources", "prompts"}
  <2>1. Listed = Filtered(SortedItems(kind))
    BY <1>5, <1>6 DEF Listed, HandleResourcesList, HandlePromptsList
  <2>2. Orders(Listed, {x \in Named(kind) : Allowed(x)})
    <3> HIDE DEF Named
    <3> QED
      BY <1>5, <1>6, <2>1, FilteredOrders
  <2>3. {x \in Named(kind) : Allowed(x)} = Visible
    BY <1>4, <1>5, <1>6 DEF Allowed
  <2> HIDE DEF Visible
  <2> QED
    BY <1>2, <2>2, <2>3, OrdersUnique
<1>7. CASE kind = "roots"
  <2>1. Listed = SortedItems(kind)
    BY <1>5, <1>7 DEF Listed, HandleRootsList
  <2>2. Named(kind) = Visible
    BY <1>4, <1>5, <1>7
  <2> HIDE DEF Visible, Named
  <2> QED
    BY <1>2, <1>5, <1>7, <2>1, <2>2, OrdersUnique
<1> QED
  BY <1>3, <1>6, <1>7 DEF Lists

-----------------------------------------------------------------------------
(***************************************************************************)
(* The walk: what an iterator has of the list while nothing changes.       *)
(***************************************************************************)
\* A page is the part of the list from the cursor on, and not empty unless the list ends there.
LEMMA PageOfList ==
  ASSUME NEW X, NEW V \in Seq(X), NEW cursor \in 0..Len(V), NEW limit \in Int
  PROVE  \E end \in cursor..Len(V) :
           /\ ListPage(V, cursor, limit).page = SubSeq(V, cursor + 1, end)
           /\ ListPage(V, cursor, limit).next = IF end = Len(V) THEN 0 ELSE end
           /\ end > cursor \/ end = Len(V)
<1> DEFINE L == Len(V)
<1>1. L \in Nat /\ cursor \in Nat
  OBVIOUS
<1>2. CASE cursor = 0 /\ limit = 0
  <2>1. SubSeq(V, cursor + 1, L) = V
    BY <1>2
  <2>2. L \in cursor..L /\ L = Len(V)
    BY <1>1
  <2>3. ListPage(V, cursor, limit) = [page |-> V, next |-> 0]
    BY <1>2, Zenon DEF ListPage
  <2>4. ListPage(V, cursor, limit).page = V /\ ListPage(V, cursor, limit).next = 0
    BY <2>3
  <2> HIDE DEF L
  <2> QED
    BY <2>1, <2>2, <2>4, Zenon
<1>3. CASE ~ (cursor = 0 /\ limit = 0)
  <2> DEFINE size == IF limit <= 0 THEN DefaultPageSize ELSE Smaller(limit, MaxPageSize)
             end == Smaller(cursor + size, L)
  <2>1. size \in Nat \ {0}
    BY ListingAssumption DEF Smaller
  <2> HIDE DEF size
  <2>2. end \in cursor..L /\ (end > cursor \/ end = L)
    BY <1>1, <2>1 DEF Smaller
  <2>3. ListPage(V, cursor, limit) =
          [page |-> SubSeq(V, cursor + 1, end), next |-> IF end = L THEN 0 ELSE end]
    BY <1>3, Zenon DEF ListPage, PaginateSlice, size
  <2> HIDE DEF end
  <2> QED
    BY <2>2, <2>3
<1> QED
  BY <1>2, <1>3

\* Unless the limit of items is reached, the iterator takes the page.
LEMMA TakesPage ==
  ASSUME NEW page \in Seq(ListItem), NEW out \in Seq(ListItem), NEW room, NEW took,
         (MaxItems = 0 => room = Len(page)) /\ (MaxItems # 0 => room = MaxItems - Len(out)),
         took = SubSeq(page, 1, Smaller(room, Len(page))),
         MaxItems > 0 => ~ (Len(out) + Len(took) >= MaxItems)
  PROVE  took = page
<1>1. MaxItems \in Nat /\ Len(page) \in Nat /\ Len(out) \in Nat
  BY ListingAssumption
<1>2. CASE Smaller(room, Len(page)) = Len(page)
  BY <1>1, <1>2
<1>3. CASE MaxItems > 0 /\ room < Len(page)
  <2>1. room \in Int /\ Smaller(room, Len(page)) = room
    BY <1>1, <1>3 DEF Smaller
  <2>2. took = SubSeq(page, 1, room)
    BY <2>1
  <2>3. CASE room >= 0
    <3>1. Len(took) = room
      BY <1>1, <1>3, <2>1, <2>2, <2>3
    <3> QED
      BY <1>1, <1>3, <2>1, <3>1
  <2>4. CASE room < 0
    <3>1. Len(took) \in Nat
      BY <1>1, <1>3, <2>1, <2>2, <2>4
    <3> QED
      BY <1>1, <1>3, <2>1, <2>4, <3>1
  <2> QED
    BY <2>1, <2>3, <2>4
<1> QED
  BY <1>1, <1>2, <1>3 DEF Smaller

\* What lists hold depends on the registries and on the list that is walked, and on nothing else.
LEMMA SameLists ==
  ASSUME kind' = kind, registry' = registry
  PROVE  VisibleItems' = VisibleItems /\ \A r \in Registries : SortedItems(r)' = SortedItems(r)
  BY DEF VisibleItems, VisibleNames, HomeOf, SortedItems, Needs

\* A change of a registry disturbs no walk: what was read of it is older than the change.
LEMMA ChangeKeepsWalk ==
  ASSUME ListingInv, WalkInv, NEW r \in Needs, NEW items \in SUBSET Names,
         Changed(r, items), snapshots' = [snapshots EXCEPT ![r] = Nil]
  PROVE  WalkInv'
<1> USE DEF WalkInv
<1>1. Needs \subseteq Registries
  BY DEF ListingInv, ListingTypeOK, Needs, Registries
<1>2. /\ registry' = [registry EXCEPT ![r] = items]
      /\ version' = [version EXCEPT ![r] = @ + 1]
      /\ UNCHANGED <<kind, request, iter>>
  BY DEF Changed
<1>3. /\ \A q \in Registries : version[q] \in Nat
      /\ \A q \in Registries : version'[q] = IF q = r THEN version[q] + 1 ELSE version[q]
      /\ \A q \in Registries : q # r => snapshots'[q] = snapshots[q] /\ registry'[q] = registry[q]
      /\ snapshots'[r].at = 0
  BY <1>1, <1>2 DEF ListingInv, ListingTypeOK, WalkTypeOK, Nil
<1>4. \A q \in Registries : q # r => SortedItems(q)' = SortedItems(q)
  BY <1>3 DEF SortedItems
<1>5. WalkTypeOK'
  BY <1>1, <1>2 DEF WalkTypeOK
<1>6. \A q \in Registries : request.used[q].at <= version[q] /\ iter.since[q] \in Nat
  BY DEF SlicesHold, WalkTypeOK
<1>7. \A q \in Registries : request.used[q].at \in Nat
  BY DEF ListingInv, ReadsAboveFloor
<1>8. SlicesHold'
  BY <1>2, <1>3, <1>4, <1>6, <1>7 DEF SlicesHold
<1>9. FetchServed'
  BY <1>2, <1>3, <1>6 DEF FetchServed
<1>10. ~ Unchanged'
  <2>1. iter.since[r] <= version[r] /\ iter'.since[r] = iter.since[r] /\ r \in Needs'
    BY <1>1, <1>2 DEF FetchServed, Needs
  <2> QED
    BY <1>1, <1>3, <1>6, <2>1 DEF Unchanged
<1> QED
  BY <1>5, <1>8, <1>9, <1>10 DEF CursorPassed, IteratesAll, Unchanged

\* What changes neither the registries nor the request or the iterator keeps the walk, if the
\* slices it leaves are those of the registries.
LEMMA OthersKeepWalk ==
  ASSUME ListingInv, WalkInv, UNCHANGED <<kind, registry, version, request, iter>>,
         \A q \in Registries : snapshots'[q] = snapshots[q] \/ snapshots'[q].items = SortedItems(q)
  PROVE  WalkInv'
<1> USE DEF WalkInv
<1>1. VisibleItems' = VisibleItems /\ \A q \in Registries : SortedItems(q)' = SortedItems(q)
  BY SameLists
<1>2. WalkTypeOK'
  BY DEF WalkTypeOK
<1>3. SlicesHold'
  BY <1>1 DEF SlicesHold
<1>4. FetchServed'
  BY DEF FetchServed
<1>5. Unchanged' <=> Unchanged
  BY DEF Unchanged, Needs
<1>6. CursorPassed'
  BY <1>1, <1>5 DEF CursorPassed
<1>7. IteratesAll'
  BY <1>1, <1>5 DEF IteratesAll, Unchanged
<1> QED
  BY <1>2, <1>3, <1>4, <1>6, <1>7

\* Reading the slice of a registry as it is keeps the walk, whether the slice was built or found.
LEMMA ReadKeepsWalk ==
  ASSUME ListingInv, WalkInv, NEW r \in Registries, NEW s,
         s.at = version[r], s.items = SortedItems(r),
         request.pc \in {"serving", "building"},
         request' = [request EXCEPT !.pc = "serving", !.used[r] = s],
         UNCHANGED <<kind, registry, version, iter>>,
         \/ UNCHANGED snapshots
         \/ snapshots' = [snapshots EXCEPT ![r] = s]
  PROVE  WalkInv'
<1> USE DEF WalkInv
<1>1. VisibleItems' = VisibleItems /\ \A q \in Registries : SortedItems(q)' = SortedItems(q)
  BY SameLists
<1>2. /\ request'.pc = "serving"
      /\ \A q \in Registries : request'.used[q] = IF q = r THEN s ELSE request.used[q]
  BY DEF ListingInv, ListingTypeOK
<1>3. \A q \in Registries : snapshots'[q] = snapshots[q] \/ (q = r /\ snapshots'[q] = s)
  BY DEF ListingInv, ListingTypeOK
<1>4. \A q \in Registries : version[q] \in Nat /\ iter.since[q] \in Nat
  BY DEF ListingInv, ListingTypeOK, WalkTypeOK
<1>5. WalkTypeOK'
  BY <1>2 DEF WalkTypeOK
<1>6. SlicesHold'
  BY <1>1, <1>2, <1>3, <1>4 DEF SlicesHold
<1>7. FetchServed'
  <2>1. iter.pc = "fetching"
    BY DEF FetchServed
  <2> QED
    BY <1>2, <1>4, <2>1 DEF FetchServed
<1>8. Unchanged' <=> Unchanged
  BY DEF Unchanged, Needs
<1>9. CursorPassed'
  BY <1>1, <1>8 DEF CursorPassed
<1>10. IteratesAll'
  BY <1>1, <1>8 DEF IteratesAll, Unchanged
<1> QED
  BY <1>5, <1>6, <1>7, <1>9, <1>10

\* What the cursor has passed and what follows it are one part of the list.
LEMMA SlicesJoin ==
  ASSUME NEW X, NEW V \in Seq(X), NEW m \in 0..Len(V), NEW n \in m..Len(V)
  PROVE  SubSeq(V, 1, m) \o SubSeq(V, m + 1, n) = SubSeq(V, 1, n)
  OBVIOUS

\* The answer brings the iterator the part of the list from its cursor on.
LEMMA RespondKeepsWalk ==
  ASSUME ListingInv, WalkInv, Respond
  PROVE  WalkInv'
<1> USE DEF WalkInv
<1> DEFINE V == VisibleItems
           list == ListPage(Listed, iter.cursor, iter.limit)
           room == IF MaxItems = 0 THEN Len(list.page) ELSE MaxItems - Len(iter.out)
           took == SubSeq(list.page, 1, Smaller(room, Len(list.page)))
           full == MaxItems > 0 /\ Len(iter.out) + Len(took) >= MaxItems
           after == IF full THEN "error"
                    ELSE IF list.next = 0 \/ list.page = <<>> THEN "done" ELSE "next"
<1>1. /\ request.pc = "serving" /\ Missing = {}
      /\ UNCHANGED <<kind, registry, version, snapshots>>
      /\ request' = [request EXCEPT !.pc = "answered",
                       !.used = [r \in Registries |-> [items |-> <<>>, at |-> @[r].at]]]
  BY DEF Respond
<1>2. \/ iter.cursor > Len(Listed) /\ iter' = [iter EXCEPT !.pc = "error"]
      \/ ~ (iter.cursor > Len(Listed))
         /\ iter' = [iter EXCEPT !.out = @ \o took, !.cursor = list.next, !.pages = @ + 1,
                       !.pc = after]
  BY Zenon DEF Respond
<1>3. VisibleItems' = VisibleItems /\ \A q \in Registries : SortedItems(q)' = SortedItems(q)
  BY <1>1, SameLists
<1>4. /\ request'.pc = "answered"
      /\ \A q \in Registries : request'.used[q].at = request.used[q].at
  BY <1>1 DEF ListingInv, ListingTypeOK
<1>5. after \in {"error", "done", "next"}
  OBVIOUS
<1>6. Needs \subseteq Registries /\ kind \in Lists
  BY DEF ListingInv, ListingTypeOK, Needs, Registries
<1>7. ASSUME Unchanged, iter'.pc # "error"
      PROVE  \E end \in 0..Len(V) :
               /\ iter'.out = SubSeq(V, 1, end)
               /\ iter'.pc = "done" => end = Len(V)
               /\ iter'.pc = "next" => iter'.cursor = end
  <2>1. iter.pc = "fetching"
    BY <1>1 DEF FetchServed
  <2>2. iter.cursor \in 0..Len(V) /\ iter.out = SubSeq(V, 1, iter.cursor)
    BY <1>7, <2>1 DEF CursorPassed
  <2>3. V \in Seq(ListItem)
    <3>1. registry \in [Registries -> SUBSET Names]
      BY DEF WalkTypeOK
    <3> QED
      BY <1>6, <3>1, VisibleOrders DEF Orders
  <2>4. \A r \in Needs : request.used[r].items = SortedItems(r)
    <3> SUFFICES ASSUME NEW r \in Needs PROVE request.used[r].items = SortedItems(r)
      OBVIOUS
    <3>1. request.used[r].at # 0
      BY <1>1 DEF Missing
    <3>2. request.used[r].at >= iter.since[r] /\ request.used[r].at <= version[r]
      BY <1>6, <2>1, <3>1 DEF FetchServed, SlicesHold
    <3>3. iter.since[r] = version[r] /\ version[r] \in Nat /\ request.used[r].at \in Nat
      BY <1>6, <1>7 DEF Unchanged, ListingInv, ListingTypeOK, ReadsAboveFloor
    <3> QED
      BY <1>1, <1>6, <3>2, <3>3 DEF SlicesHold
  <2>5. Listed = V
    BY <1>6, <2>4, ListedIsVisible DEF WalkTypeOK
  <2> HIDE DEF V
  <2>6. PICK end \in iter.cursor..Len(V) :
          /\ list.page = SubSeq(V, iter.cursor + 1, end)
          /\ list.next = IF end = Len(V) THEN 0 ELSE end
          /\ end > iter.cursor \/ end = Len(V)
    <3>1. iter.limit \in Int
      BY DEF WalkTypeOK
    <3> QED
      BY <2>2, <2>3, <2>5, <3>1, PageOfList
  <2>7. Len(V) \in Nat /\ iter.cursor \in Nat /\ end \in Nat /\ end \in 0..Len(V)
    BY <2>2, <2>3
  <2>8. /\ iter'.out = iter.out \o took /\ iter'.cursor = list.next
        /\ iter'.pc = after /\ iter.pc = "fetching"
    <3>1. ~ (iter.cursor > Len(Listed))
      BY <2>2, <2>5, <2>7
    <3> HIDE DEF list, took, after
    <3> QED
      BY <1>2, <2>1, <3>1 DEF WalkTypeOK
  <2>9. took = list.page
    <3>1. ~ full
      BY <1>7, <2>8
    <3>2. list.page \in Seq(ListItem) /\ iter.out \in Seq(ListItem)
      BY <2>2, <2>3, <2>6, <2>7
    <3>3. room = IF MaxItems = 0 THEN Len(list.page) ELSE MaxItems - Len(iter.out)
      OBVIOUS
    <3>4. took = SubSeq(list.page, 1, Smaller(room, Len(list.page)))
      OBVIOUS
    <3>5. ~ (MaxItems > 0 /\ Len(iter.out) + Len(took) >= MaxItems)
      BY <3>1
    <3> HIDE DEF list, room, took
    <3>6. PICK page \in Seq(ListItem) : page = list.page
      BY <3>2
    <3>7. PICK out \in Seq(ListItem) : out = iter.out
      BY <3>2
    <3>8. PICK n, t : n = room /\ t = took
      OBVIOUS
    <3>9. /\ (MaxItems = 0 => n = Len(page)) /\ (MaxItems # 0 => n = MaxItems - Len(out))
          /\ t = SubSeq(page, 1, Smaller(n, Len(page)))
          /\ MaxItems > 0 => ~ (Len(out) + Len(t) >= MaxItems)
      BY <3>3, <3>4, <3>5, <3>6, <3>7, <3>8
    <3>10. t = page
      BY <3>6, <3>7, <3>9, TakesPage
    <3> QED
      BY <3>6, <3>8, <3>10
  <2>10. iter'.out = SubSeq(V, 1, end)
    <3>1. iter'.out = SubSeq(V, 1, iter.cursor) \o SubSeq(V, iter.cursor + 1, end)
      BY <2>2, <2>6, <2>8, <2>9, Zenon
    <3> QED
      BY <2>2, <2>3, <2>6, <2>7, <3>1, SlicesJoin
  <2>11. iter'.pc = "done" => end = Len(V)
    <3>1. iter'.pc = "done" => list.next = 0 \/ list.page = <<>>
      BY <2>8
    <3>2. list.page = <<>> => ~ (end > iter.cursor)
      BY <2>3, <2>6, <2>7
    <3> QED
      BY <2>6, <2>7, <3>1, <3>2
  <2>12. iter'.pc = "next" => iter'.cursor = end
    <3>1. iter'.pc = "next" => list.next # 0
      BY <2>8
    <3> QED
      BY <2>6, <2>8, <3>1
  <2> QED
    BY <2>7, <2>10, <2>11, <2>12
<1> HIDE DEF list, took, full, after, V
<1>8. /\ iter'.pc \in {"error", "done", "next"}
      /\ iter'.since = iter.since /\ iter'.limit = iter.limit
      /\ iter' = [pc |-> iter'.pc, limit |-> iter'.limit, cursor |-> iter'.cursor,
                   pages |-> iter'.pages, out |-> iter'.out, since |-> iter'.since]
  BY <1>2, <1>5 DEF WalkTypeOK
<1>9. WalkTypeOK'
  BY <1>1, <1>4, <1>8 DEF WalkTypeOK
<1>10. SlicesHold'
  BY <1>1, <1>3, <1>4 DEF SlicesHold
<1>11. FetchServed'
  BY <1>1, <1>4, <1>8 DEF FetchServed
<1>12. Unchanged' <=> Unchanged
  BY <1>1, <1>8 DEF Unchanged, Needs
<1>13. CursorPassed'
  BY <1>3, <1>7, <1>8, <1>12 DEF CursorPassed, V
<1>14. IteratesAll'
  <2>1. V \in Seq(ListItem)
    BY <1>6, VisibleOrders DEF Orders, WalkTypeOK, V
  <2>2. ASSUME Unchanged, iter'.pc = "done" PROVE iter'.out = V
    BY <1>7, <2>1, <2>2
  <2> QED
    BY <1>3, <1>12, <2>2 DEF IteratesAll, Unchanged, V
<1> QED
  BY <1>9, <1>10, <1>11, <1>13, <1>14

\* Every step keeps the walk.
LEMMA WalkStep ==
  ASSUME ListingInv, WalkInv, ListingNext
  PROVE  WalkInv'
<1> USE DEF WalkInv
<1>0. Needs \subseteq Registries
  BY DEF ListingInv, ListingTypeOK, Needs, Registries
<1>1. ASSUME NEW r \in Registries, NEW new \in SUBSET Names, Register(r, new) PROVE WalkInv'
  <2>1. r \in Needs /\ registry[r] \cup new \in SUBSET Names
    BY <1>1 DEF Register, WalkTypeOK
  <2> QED
    BY <1>1, <2>1, ChangeKeepsWalk DEF Register
<1>2. ASSUME NEW r \in Needs, NEW n, RemoveItem(r, n) PROVE WalkInv'
  <2>1. registry[r] \ {n} \in SUBSET Names
    BY <1>0 DEF WalkTypeOK
  <2> QED
    BY <1>2, <2>1, ChangeKeepsWalk DEF RemoveItem
<1>3. ASSUME NEW r \in Needs, OtherLists(r) PROVE WalkInv'
  <2>1. snapshots' = [snapshots EXCEPT ![r] = [items |-> SortedItems(r), at |-> version[r]]]
    BY <1>3 DEF OtherLists
  <2>2. \A q \in Registries : snapshots'[q] = snapshots[q] \/ snapshots'[q].items = SortedItems(q)
    BY <2>1 DEF ListingInv, ListingTypeOK
  <2> QED
    BY <1>3, <2>2, OthersKeepWalk DEF OtherLists
<1>4. ASSUME NEW a, Announce(a) PROVE WalkInv'
  BY <1>4, OthersKeepWalk DEF Announce
<1>5. ASSUME NEW limit \in Limits, Iterate(limit) PROVE WalkInv'
  <2>1. /\ iter.pc = "none" /\ request.pc = "none"
        /\ UNCHANGED <<kind, registry, version, snapshots, request>>
        /\ iter' = [pc |-> "next", limit |-> limit, cursor |-> 0, pages |-> 0, out |-> <<>>,
                    since |-> version]
    BY <1>5 DEF Iterate, NoIterator, FetchServed
  <2>2. VisibleItems' = VisibleItems /\ \A q \in Registries : SortedItems(q)' = SortedItems(q)
    BY <2>1, SameLists
  <2>3. \A q \in Registries : version[q] \in Nat
    BY DEF ListingInv, ListingTypeOK
  <2>4. WalkTypeOK'
    BY <2>1, <2>3, ListingAssumption DEF WalkTypeOK, ListingInv, ListingTypeOK
  <2>5. SlicesHold'
    BY <2>1, <2>2 DEF SlicesHold
  <2>6. FetchServed'
    BY <2>1, <2>3 DEF FetchServed
  <2>7. VisibleItems \in Seq(ListItem)
    BY VisibleOrders DEF Orders, WalkTypeOK, ListingInv, ListingTypeOK
  <2>8. CursorPassed'
    BY <2>1, <2>2, <2>7 DEF CursorPassed
  <2>9. IteratesAll'
    BY <2>1 DEF IteratesAll
  <2> QED
    BY <2>4, <2>5, <2>6, <2>8, <2>9
<1>6. CASE FetchPage
  <2>1. /\ iter.pc = "next" /\ UNCHANGED <<kind, registry, version, snapshots>>
        /\ \/ iter' = [iter EXCEPT !.pc = "error"] /\ UNCHANGED request
           \/ /\ iter' = [iter EXCEPT !.pc = "fetching"]
              /\ request' = [NoRequest EXCEPT !.pc = "serving", !.floor = told]
    BY <1>6 DEF FetchPage
  <2>2. VisibleItems' = VisibleItems /\ \A q \in Registries : SortedItems(q)' = SortedItems(q)
    BY <2>1, SameLists
  <2>3. \A q \in Registries : version[q] \in Nat \ {0} /\ iter.since[q] \in Nat
    BY DEF ListingInv, ListingTypeOK, WalkTypeOK
  <2>4. /\ iter'.limit = iter.limit /\ iter'.since = iter.since /\ iter'.out = iter.out
        /\ iter'.cursor = iter.cursor
        /\ iter' = [pc |-> iter'.pc, limit |-> iter'.limit, cursor |-> iter'.cursor,
                     pages |-> iter'.pages, out |-> iter'.out, since |-> iter'.since]
    BY <2>1 DEF WalkTypeOK
  <2>5. \/ iter'.pc = "error" /\ UNCHANGED request
        \/ iter'.pc = "fetching" /\ request'.pc = "serving"
           /\ \A q \in Registries : request'.used[q].at = 0
    <3>1. CASE iter' = [iter EXCEPT !.pc = "error"] /\ UNCHANGED request
      BY <3>1 DEF WalkTypeOK
    <3>2. CASE /\ iter' = [iter EXCEPT !.pc = "fetching"]
               /\ request' = [NoRequest EXCEPT !.pc = "serving", !.floor = told]
      <4>1. request' = [pc |-> "serving", floor |-> told, used |-> [q \in Registries |-> Nil]]
        BY <3>2 DEF NoRequest
      <4>2. iter'.pc = "fetching"
        BY <3>2 DEF WalkTypeOK
      <4> QED
        BY <4>1, <4>2 DEF Nil
    <3> QED
      BY <2>1, <3>1, <3>2
  <2>6. WalkTypeOK'
    BY <2>1, <2>4, <2>5 DEF WalkTypeOK
  <2>7. SlicesHold'
    BY <2>1, <2>2, <2>3, <2>5 DEF SlicesHold
  <2>8. FetchServed'
    BY <2>1, <2>3, <2>4, <2>5 DEF FetchServed
  <2>9. Unchanged' <=> Unchanged
    BY <2>1, <2>4 DEF Unchanged, Needs
  <2>10. CursorPassed'
    BY <2>1, <2>2, <2>4, <2>5, <2>9 DEF CursorPassed
  <2>11. IteratesAll'
    BY <2>5 DEF IteratesAll
  <2> QED
    BY <2>6, <2>7, <2>8, <2>10, <2>11
<1>7. CASE ReadSnapshot
  <2> DEFINE r == NextOf
             fresh == [items |-> SortedItems(r), at |-> version[r]]
  <2>1. /\ r \in Registries /\ request.pc = "serving"
        /\ UNCHANGED <<kind, registry, version, snapshots, iter>>
    <3>1. Missing # {}
      BY <1>7 DEF ReadSnapshot
    <3>2. r \in Registries
      BY <3>1, NextMissing DEF ListingInv
    <3> HIDE DEF r
    <3> QED
      BY <1>7, <3>2 DEF ReadSnapshot
  <2>2. CASE request' = [request EXCEPT !.pc = "building"]
    <3>1. request'.pc = "building" /\ request'.used = request.used
      BY <2>2 DEF ListingInv, ListingTypeOK
    <3>2. VisibleItems' = VisibleItems /\ \A q \in Registries : SortedItems(q)' = SortedItems(q)
      BY <2>1, SameLists
    <3>3. WalkTypeOK'
      BY <2>1, <3>1 DEF WalkTypeOK
    <3>4. SlicesHold'
      BY <2>1, <3>1, <3>2 DEF SlicesHold
    <3>5. FetchServed'
      BY <2>1, <3>1 DEF FetchServed
    <3>6. CursorPassed' /\ IteratesAll'
      BY <2>1, <3>2 DEF CursorPassed, IteratesAll, Unchanged, Needs
    <3> QED
      BY <3>3, <3>4, <3>5, <3>6
  <2>3. ASSUME NEW s, s.at = version[r], s.items = SortedItems(r),
               request' = [request EXCEPT !.used[r] = s]
        PROVE  WalkInv'
    <3> HIDE DEF r
    <3>1. request' = [request EXCEPT !.pc = "serving", !.used[r] = s]
      BY <2>1, <2>3 DEF ListingInv, ListingTypeOK
    <3> QED
      BY <2>1, <2>3, <3>1, ReadKeepsWalk
  <2>4. snapshots[r].at > 0 => snapshots[r].at = version[r] /\ snapshots[r].items = SortedItems(r)
    BY <2>1 DEF ListingInv, SnapshotsCurrent, SlicesHold
  <2>5. \/ request' = [request EXCEPT !.pc = "building"]
        \/ request' = [request EXCEPT !.used[r] = fresh]
        \/ snapshots[r].at > 0 /\ request' = [request EXCEPT !.used[r] = snapshots[r]]
    BY <1>7, Zenon DEF ReadSnapshot
  <2>6. fresh.at = version[r] /\ fresh.items = SortedItems(r)
    OBVIOUS
  <2> HIDE DEF r, fresh
  <2> QED
    BY <2>2, <2>3, <2>4, <2>5, <2>6
<1>8. CASE BuildSnapshot
  <2> DEFINE r == NextOf
             built == IF snapshots[r].at > 0 THEN snapshots[r]
                                             ELSE [items |-> SortedItems(r), at |-> version[r]]
  <2>1. r \in Registries
    BY <1>8, NextMissing DEF BuildSnapshot, ListingInv, ReadsAboveFloor
  <2>2. built.at = version[r] /\ built.items = SortedItems(r)
    BY <2>1 DEF ListingInv, SnapshotsCurrent, SlicesHold
  <2>3. /\ request.pc = "building" /\ snapshots' = [snapshots EXCEPT ![r] = built]
        /\ request' = [request EXCEPT !.pc = "serving", !.used[r] = built]
        /\ UNCHANGED <<kind, registry, version, iter>>
    BY <1>8, Zenon DEF BuildSnapshot
  <2> HIDE DEF r, built
  <2> QED
    BY <2>1, <2>2, <2>3, ReadKeepsWalk
<1>9. CASE Respond
  BY <1>9, RespondKeepsWalk
<1>10. {"tools", "session", "resources", "prompts", "roots"} \subseteq Registries
  BY DEF Registries, Lists
<1> QED
  BY <1>0, <1>1, <1>2, <1>3, <1>4, <1>5, <1>6, <1>7, <1>8, <1>9, <1>10
     DEF ListingNext, RegisterTools, AddSessionTool, RegisterResource, RegisterPrompt, RegisterRoot,
         IterateTools, IterateResources, IteratePrompts, IterateRoots

\* No walk has begun.
LEMMA WalkInit ==
  ASSUME ListingInit
  PROVE  WalkInv
<1>1. /\ request.pc = "none" /\ iter.pc = "none"
      /\ iter.since = [r \in Registries |-> 0] /\ iter.limit = 0
      /\ iter = [pc |-> "none", limit |-> 0, cursor |-> 0, pages |-> 0, out |-> <<>>,
                 since |-> [r \in Registries |-> 0]]
      /\ \A r \in Registries :
           snapshots[r].at = 0 /\ request.used[r].at = 0 /\ version[r] = 1 /\ registry[r] = {}
  BY DEF ListingInit, NoRequest, NoIterator, Nil
<1>2. WalkTypeOK
  BY <1>1 DEF WalkTypeOK, ListingInit
<1> QED
  BY <1>1, <1>2 DEF WalkInv, SlicesHold, FetchServed, CursorPassed, IteratesAll

\* The walk holds in every reachable state.
THEOREM WalkInvariance == ListingSpec => []WalkInv
<1>1. ListingInit => WalkInv
  BY WalkInit
<1>2. ListingInv /\ WalkInv /\ [ListingNext]_listingVars => WalkInv'
  <2>1. CASE UNCHANGED listingVars
    BY <2>1, OthersKeepWalk DEF listingVars
  <2> QED
    BY <2>1, WalkStep
<1> QED
  BY <1>1, <1>2, ListingInvariance, PTL DEF ListingSpec

\* An iterator that ends without an error while nothing changes has returned every visible item
\* once, in order, the session's tools in the place of those they shadow: for any names, filter
\* and page sizes, however snapshots are built and shared between requests.
THEOREM IteratorReturnsAll == ListingSpec => []IteratesAll
<1>1. WalkInv => IteratesAll
  BY DEF WalkInv
<1> QED
  BY <1>1, WalkInvariance, PTL

-----------------------------------------------------------------------------
(***************************************************************************)
(* Reads of resources                                                      *)
(***************************************************************************)
\* The least member of a set of numbers is one of its lower bounds.
LEMMA LeastIsFirst ==
  ASSUME NEW T \in SUBSET Nat, T # {}
  PROVE  /\ Least(T) \in T /\ \A m \in T : Least(T) <= m
         /\ \A n \in T : (\A m \in T : n <= m) => n = Least(T)
<1>1. Least(T) \in T /\ \A m \in T : Least(T) <= m
  BY LeastNumber DEF Least
<1>2. ASSUME NEW n \in T, \A m \in T : n <= m PROVE n = Least(T)
  <2>1. n <= Least(T) /\ Least(T) <= n
    BY <1>1, <1>2
  <2>2. n \in Nat /\ Least(T) \in Nat
    BY <1>1
  <2> QED
    BY <2>1, <2>2
<1> QED
  BY <1>1, <1>2

\* The first match in the sorted slice is the first template the URI expands.
LEMMA FindsFirst ==
  ASSUME ReadsInv, NEW uri \in ReadUris
  PROVE  FindTemplateForURI(Ascending(templates), uri) = TemplateAnswer(uri, templates)
<1> DEFINE s == Ascending(templates)
           Hit(i) == MatchesParsedTemplate(ParseTemplate(Templates[i]), uri)
           K == {k \in DOMAIN s : Hit(s[k])}
           H == {i \in templates : Expands(Templates[i], uri)}
<1>1. templates \in SUBSET Nat /\ IsFiniteSet(templates) /\ templates \subseteq DOMAIN Templates
  BY ResourceReadsAssumption DEF ReadsInv, ReadsTypeOK
<1>2. /\ s \in Seq(templates)
      /\ \A i, j \in 1..Len(s) : i < j => s[i] < s[j]
      /\ \A x \in templates : \E i \in 1..Len(s) : s[i] = x
  BY <1>1, AscendingCounts
<1>3. \A i \in templates : Hit(i) <=> Expands(Templates[i], uri)
  BY <1>1 DEF ReadsInv, MatcherAgrees, TemplatesSorted
<1>4. /\ FindTemplateForURI(s, uri) =
           IF K = {} \/ s[Least(K)] \in HiddenTemplates
             THEN NotFound ELSE <<"template", s[Least(K)]>>
      /\ TemplateAnswer(uri, templates) =
           IF H = {} \/ Least(H) \in HiddenTemplates THEN NotFound ELSE <<"template", Least(H)>>
  BY Zenon DEF FindTemplateForURI, TemplateAnswer
<1> HIDE DEF s, Hit
<1>5. Len(s) \in Nat /\ DOMAIN s = 1..Len(s) /\ \A k \in DOMAIN s : s[k] \in templates
  BY <1>2
<1>6. H \in SUBSET Nat /\ K \in SUBSET Nat
  <2>1. H \subseteq templates /\ K \subseteq 1..Len(s)
    BY <1>5
  <2> HIDE DEF H, K
  <2> QED
    BY <1>1, <1>5, <2>1
<1>7. \A k \in K : s[k] \in H
  BY <1>3, <1>5
<1>8. \A x \in H : \E k \in K : s[k] = x
  BY <1>2, <1>3, <1>5
<1>9. K = {} <=> H = {}
  BY <1>7, <1>8
<1>10. ASSUME K # {} PROVE s[Least(K)] = Least(H)
  <2> DEFINE l == Least(K)
  <2>1. l \in K /\ \A k \in K : l <= k
    BY <1>6, <1>10, LeastIsFirst
  <2> HIDE DEF l, K, H
  <2>2. s[l] \in H
    BY <1>7, <2>1
  <2>3. ASSUME NEW x \in H PROVE s[l] <= x
    <3>1. PICK k \in K : s[k] = x
      BY <1>8, <2>3
    <3>2. k \in 1..Len(s) /\ l \in 1..Len(s)
      BY <1>5, <2>1 DEF K
    <3>3. k = l \/ l < k
      BY <1>5, <2>1, <3>2
    <3>4. s[l] \in Nat /\ s[k] \in Nat
      BY <1>6, <1>7, <2>1
    <3>5. l < k => s[l] < s[k]
      BY <1>2, <3>2, Zenon
    <3> QED
      BY <3>1, <3>3, <3>4, <3>5
  <2> QED
    BY <1>6, <2>2, <2>3, LeastIsFirst DEF l
<1> HIDE DEF K, H
<1> QED
  BY <1>4, <1>9, <1>10 DEF s

\* An answer from the sorted slice is right.
LEMMA AnswerIsRight ==
  ASSUME ReadsInv, read.pc \in {"template", "sort"}, templates' = templates,
         read' = [read EXCEPT !.pc = "done",
                              !.answer = FindTemplateForURI(Ascending(templates), read.uri)]
  PROVE  ReadIsRight'
<1>1. read.uri \in ReadUris /\ read.uri \notin read.resources /\ read.templates \subseteq templates
  BY DEF ReadsInv, ReadsTypeOK, ReadSees
<1>2. /\ read'.uri = read.uri /\ read'.resources = read.resources
      /\ read'.templates = read.templates
      /\ read'.answer = FindTemplateForURI(Ascending(templates), read.uri)
  BY DEF ReadsInv, ReadsTypeOK
<1>3. read'.answer = TemplateAnswer(read.uri, templates)
  BY <1>1, <1>2, FindsFirst
<1> QED
  BY <1>1, <1>2, <1>3 DEF ReadIsRight

\* Registering keeps an answer right: what it was made of is still there.
LEMMA StaysRight ==
  ASSUME ReadIsRight, UNCHANGED read, resources \subseteq resources', templates \subseteq templates'
  PROVE  ReadIsRight'
  BY DEF ReadIsRight

\* Every step keeps the invariant of the reads.
LEMMA ReadsStep ==
  ASSUME ReadsInv, ReadsNext
  PROVE  ReadsInv'
<1> USE DEF ReadsInv
<1>0. MatcherAgrees'
  BY DEF MatcherAgrees
<1>1. ASSUME NEW uri \in ReadUris, AddResource(uri) PROVE ReadsInv'
  <2>1. resources \subseteq resources' /\ UNCHANGED <<templates, sortedTemplates, read>>
    BY <1>1 DEF AddResource
  <2>2. ReadIsRight'
    BY <2>1, StaysRight
  <2> QED
    BY <1>0, <2>1, <2>2 DEF ReadsTypeOK, TemplatesSorted, ReadSees
<1>2. ASSUME NEW uri \in ReadUris, ReadBegins(uri) PROVE ReadsInv'
  BY <1>0, <1>2 DEF ReadBegins, ReadsTypeOK, TemplatesSorted, ReadSees, ReadIsRight
<1>3. ASSUME NEW i \in DOMAIN Templates, AddTemplate(i) PROVE ReadsInv'
  <2>1. /\ templates' = templates \cup {i} /\ sortedTemplates' = <<>>
        /\ IsValidURITemplate(Templates[i]) /\ UNCHANGED <<resources, read>>
    BY <1>3 DEF AddTemplate
  <2>2. IsFiniteSet(templates')
    BY <2>1, FS_AddElement DEF ReadsTypeOK
  <2>3. ReadIsRight'
    BY <2>1, StaysRight
  <2> QED
    BY <1>0, <2>1, <2>2, <2>3 DEF ReadsTypeOK, TemplatesSorted, ReadSees
<1>4. CASE ReadExact
  <2>1. read.pc = "exact" /\ UNCHANGED <<resources, templates, sortedTemplates>>
    BY <1>4 DEF ReadExact
  <2>2. CASE read.uri \in resources
    <3>1. read' = [read EXCEPT !.pc = "done", !.answer = ExactAnswer(read.uri)]
      BY <1>4, <2>2 DEF ReadExact
    <3>2. ReadIsRight'
      BY <2>1, <2>2, <3>1 DEF ReadIsRight, ReadsTypeOK
    <3> QED
      BY <1>0, <2>1, <3>1, <3>2 DEF ReadsTypeOK, TemplatesSorted, ReadSees
  <2>3. CASE read.uri \notin resources
    <3>1. read' = [read EXCEPT !.pc = "template"]
      BY <1>4, <2>3 DEF ReadExact
    <3> QED
      BY <1>0, <2>1, <2>3, <3>1 DEF ReadsTypeOK, TemplatesSorted, ReadSees, ReadIsRight
  <2> QED
    BY <2>2, <2>3
<1>5. CASE ReadTemplate
  <2>1. read.pc = "template" /\ UNCHANGED <<resources, templates, sortedTemplates>>
    BY <1>5 DEF ReadTemplate
  <2>2. CASE sortedTemplates # <<>>
    <3>1. read' = [read EXCEPT !.pc = "done",
                               !.answer = FindTemplateForURI(Ascending(templates), read.uri)]
      BY <1>5, <2>2 DEF ReadTemplate, TemplatesSorted
    <3>2. ReadIsRight'
      BY <2>1, <3>1, AnswerIsRight
    <3> QED
      BY <1>0, <2>1, <3>1, <3>2 DEF ReadsTypeOK, TemplatesSorted, ReadSees
  <2>3. CASE sortedTemplates = <<>>
    <3>1. read' = [read EXCEPT !.pc = "sort"]
      BY <1>5, <2>3 DEF ReadTemplate
    <3> QED
      BY <1>0, <2>1, <3>1 DEF ReadsTypeOK, TemplatesSorted, ReadSees, ReadIsRight
  <2> QED
    BY <2>2, <2>3
<1>6. CASE SortTemplates
  <2>1. read.pc = "sort" /\ UNCHANGED <<resources, templates>>
    BY <1>6 DEF SortTemplates
  <2>2. /\ sortedTemplates' = Ascending(templates)
        /\ read' = [read EXCEPT !.pc = "done",
                                !.answer = FindTemplateForURI(Ascending(templates), read.uri)]
    BY <1>6 DEF SortTemplates, TemplatesSorted
  <2>3. ReadIsRight'
    BY <2>1, <2>2, AnswerIsRight
  <2>4. TemplatesSorted'
    BY <2>1, <2>2 DEF TemplatesSorted
  <2> QED
    BY <1>0, <2>1, <2>2, <2>3, <2>4 DEF ReadsTypeOK, ReadSees
<1>7. CASE ReadReturns
  BY <1>0, <1>7 DEF ReadReturns, NoRead, ReadsTypeOK, TemplatesSorted, ReadSees, ReadIsRight
<1> QED
  BY <1>1, <1>2, <1>3, <1>4, <1>5, <1>6, <1>7 DEF ReadsNext

\* The invariant of the reads holds, if the matcher is right about what there is to match.
THEOREM ReadsInvariance == MatcherAgrees /\ ReadsSpec => []ReadsInv
<1>1. MatcherAgrees /\ ReadsInit => ReadsInv
  BY FS_EmptySet DEF ReadsInit, NoRead, ReadsInv, ReadsTypeOK, TemplatesSorted, ReadSees,
                     ReadIsRight
<1>2. ReadsInv /\ [ReadsNext]_readVars => ReadsInv'
  <2>1. CASE UNCHANGED readVars
    BY <2>1 DEF readVars, ReadsInv, MatcherAgrees, ReadsTypeOK, TemplatesSorted, ReadSees,
                ReadIsRight
  <2> QED
    BY <2>1, ReadsStep
<1> QED
  BY <1>1, <1>2, PTL DEF ReadsSpec

\* Given a matcher that is right about the templates and URIs at hand, every read answers with
\* the resource of that URI or with the first template the URI expands, however registrations
\* and the building of the sorted slice come between its steps.
THEOREM ReadsAreRight == MatcherAgrees /\ ReadsSpec => []ReadIsRight
<1>1. ReadsInv => ReadIsRight
  BY DEF ReadsInv
<1> QED
  BY <1>1, ReadsInvariance, PTL

-----------------------------------------------------------------------------
\* An event that is put is added to those put or streamed.
LEMMA PutAdds ==
  ASSUME SSETypeOK, NEW e \in SsePosts \cup (1..MaxEvents), Put(e), UNCHANGED streamed
  PROVE  /\ sseEvents' \in Seq(SsePosts \cup (1..MaxEvents))
         /\ PutOrStreamed' = PutOrStreamed \cup {e}
<1> DEFINE E == SsePosts \cup (1..MaxEvents)
<1>1. sseEvents \in Seq(E) /\ sseEvents' = Append(sseEvents, e) /\ e \in E
  BY DEF SSETypeOK, Put
<1> HIDE DEF E
<1>2. Len(sseEvents) \in Nat /\ DOMAIN sseEvents = 1..Len(sseEvents)
  BY <1>1
<1>3. /\ sseEvents' \in Seq(E) /\ DOMAIN sseEvents' = 1..(Len(sseEvents) + 1)
      /\ \A i \in 1..Len(sseEvents) : sseEvents'[i] = sseEvents[i]
      /\ sseEvents'[Len(sseEvents) + 1] = e
  BY <1>1, <1>2
<1>4. {sseEvents'[i] : i \in DOMAIN sseEvents'} = {sseEvents[i] : i \in DOMAIN sseEvents} \cup {e}
  <2>1. ASSUME NEW i \in DOMAIN sseEvents' PROVE i \in DOMAIN sseEvents \/ i = Len(sseEvents) + 1
    BY <1>2, <1>3
  <2>2. Len(sseEvents) + 1 \in DOMAIN sseEvents' /\ DOMAIN sseEvents \subseteq DOMAIN sseEvents'
    BY <1>2, <1>3
  <2> QED BY <1>2, <1>3, <2>1, <2>2, Zenon
<1> QED BY <1>3, <1>4 DEF PutOrStreamed, E

\* An event that is streamed moves from the queue to the stream.
LEMMA StreamMoves ==
  ASSUME SSETypeOK, StreamEvent
  PROVE  /\ sseEvents' \in Seq(SsePosts \cup (1..MaxEvents))
         /\ streamed' \subseteq SsePosts \cup (1..MaxEvents)
         /\ PutOrStreamed' = PutOrStreamed
<1> DEFINE E == SsePosts \cup (1..MaxEvents)
<1>1. /\ sseEvents \in Seq(E) /\ sseEvents # <<>> /\ sseEvents' = Tail(sseEvents)
      /\ streamed' = streamed \cup {Head(sseEvents)} /\ streamed \subseteq E
  BY DEF SSETypeOK, StreamEvent
<1> HIDE DEF E
<1>2. /\ Len(sseEvents) \in Nat /\ Len(sseEvents) # 0
      /\ DOMAIN sseEvents = 1..Len(sseEvents) /\ Head(sseEvents) = sseEvents[1]
  BY <1>1
<1>3. /\ sseEvents' \in Seq(E) /\ DOMAIN sseEvents' = 1..(Len(sseEvents) - 1)
      /\ \A i \in 1..(Len(sseEvents) - 1) : sseEvents'[i] = sseEvents[i + 1]
  BY <1>1, <1>2
<1>4. streamed' \subseteq E
  <2>1. sseEvents[1] \in E
    BY <1>1, <1>2
  <2> QED BY <1>1, <1>2, <2>1
<1>5. ASSUME NEW i \in DOMAIN sseEvents' PROVE sseEvents'[i] \in {sseEvents[j] : j \in DOMAIN sseEvents}
  <2>1. i + 1 \in DOMAIN sseEvents /\ sseEvents'[i] = sseEvents[i + 1]
    BY <1>2, <1>3
  <2> QED BY <2>1, Zenon
<1>6. ASSUME NEW i \in DOMAIN sseEvents
      PROVE  sseEvents[i] = sseEvents[1] \/ sseEvents[i] \in {sseEvents'[j] : j \in DOMAIN sseEvents'}
  <2>1. i = 1 \/ (i - 1 \in DOMAIN sseEvents' /\ sseEvents'[i - 1] = sseEvents[(i - 1) + 1] /\ (i - 1) + 1 = i)
    BY <1>2, <1>3
  <2> QED BY <2>1, Zenon
<1>7. 1 \in DOMAIN sseEvents
  BY <1>2
<1>8. PutOrStreamed' = PutOrStreamed
  <2>1. streamed' = streamed \cup {sseEvents[1]}
    BY <1>1, <1>2, Zenon
  <2> QED BY <1>5, <1>6, <1>7, <2>1, Zenon DEF PutOrStreamed
<1> QED BY <1>3, <1>4, <1>8 DEF E

\* A step that moves no event, promises none and opens nothing again.
LEMMA QuietStep ==
  ASSUME SSEInv, sseDone => sseDone', sseDone' \in BOOLEAN,
         UNCHANGED <<sseEvents, streamed, sent>>,
         ssePosts' \in [SsePosts -> PostRecords],
         StatusOnReturn', Accepted' = Accepted
  PROVE  SSEInv'
<1>1. PutOrStreamed' = PutOrStreamed
  BY DEF PutOrStreamed
<1> QED BY <1>1 DEF SSEInv, SSETypeOK, NoneMissing

\* What the two updates of a POST's record give.
LEMMA PostUpdate ==
  ASSUME NEW r \in PostRecords, NEW x, NEW y
  PROVE  /\ [r EXCEPT !.pc = x, !.status = y] = [pc |-> x, status |-> y, ev |-> r.ev]
         /\ [r EXCEPT !.pc = x, !.ev = y] = [pc |-> x, status |-> r.status, ev |-> y]
<1>1. [r EXCEPT !.pc = x] = [pc |-> x, status |-> r.status, ev |-> r.ev]
  BY DEF PostRecords
<1> DEFINE one == [pc |-> x, status |-> r.status, ev |-> r.ev]
<1>2. /\ [one EXCEPT !.status = y] = [pc |-> x, status |-> y, ev |-> r.ev]
      /\ [one EXCEPT !.ev = y] = [pc |-> x, status |-> r.status, ev |-> y]
  OBVIOUS
<1>3. /\ [r EXCEPT !.pc = x, !.status = y] = [[r EXCEPT !.pc = x] EXCEPT !.status = y]
      /\ [r EXCEPT !.pc = x, !.ev = y] = [[r EXCEPT !.pc = x] EXCEPT !.ev = y]
  OBVIOUS
<1> QED BY <1>1, <1>2, <1>3

\* The record of a POST after its handler has moved on.
LEMMA PostMoves ==
  ASSUME SSEInv, NEW p \in SsePosts, NEW where \in PostStages,
         NEW status \in Statuses,
         ssePosts' = PostAs(p, where, status),
         status # 0 => where = "returned", ssePosts[p].pc # "returned"
  PROVE  /\ ssePosts' \in [SsePosts -> PostRecords]
         /\ StatusOnReturn'
         /\ Accepted' = IF status = 202 THEN Accepted \cup {p} ELSE Accepted
<1>1. /\ \A q \in SsePosts : q # p => ssePosts'[q] = ssePosts[q]
      /\ ssePosts'[p] = [pc |-> where, status |-> status, ev |-> ssePosts[p].ev]
      /\ ssePosts' \in [SsePosts -> PostRecords]
  <2> DEFINE new == [pc |-> where, status |-> status, ev |-> ssePosts[p].ev]
  <2>1. ssePosts \in [SsePosts -> PostRecords] /\ ssePosts[p] \in PostRecords
    BY DEF SSEInv, SSETypeOK
  <2>2. new \in PostRecords
    BY <2>1 DEF PostRecords
  <2>3. ssePosts' = [ssePosts EXCEPT ![p] = new]
    <3>1. [ssePosts[p] EXCEPT !.pc = where, !.status = status] = new
      <4>1. ssePosts[p] \in PostRecords
        BY <2>1
      <4>2. /\ [ssePosts[p] EXCEPT !.pc = where, !.status = status]
                 = [pc |-> where, status |-> status, ev |-> ssePosts[p].ev]
            /\ [ssePosts[p] EXCEPT !.pc = where, !.ev = status]
                 = [pc |-> where, status |-> ssePosts[p].status, ev |-> status]
        BY <4>1, PostUpdate
      <4> QED BY <4>2, Zenon
    <3> QED BY <3>1, Zenon DEF PostAs
  <2> HIDE DEF new
  <2>4. ssePosts' \in [SsePosts -> PostRecords] /\ ssePosts'[p] = new
    BY <2>1, <2>2, <2>3
  <2> QED BY <2>1, <2>3, <2>4 DEF new
<1>2. StatusOnReturn'
  BY <1>1 DEF SSEInv, StatusOnReturn
<1>3. ssePosts[p].status = 0
  BY DEF SSEInv, StatusOnReturn, SSETypeOK, PostRecords
<1> QED BY <1>1, <1>2, <1>3 DEF Accepted

\* Every step keeps the invariant.
LEMMA SSEStep ==
  ASSUME SSEInv, SSENext
  PROVE  SSEInv'
<1>0. ssePosts \in [SsePosts -> PostRecords] /\ sseDone \in BOOLEAN /\ sent \in 0..MaxEvents /\ SSETypeOK
  BY DEF SSEInv, SSETypeOK
<1>1. CASE HandleSSE \/ AddSseSender \/ SseSenderRefused \/ DeleteSseSession \/ RemoveSseSender
           \/ SseUnsubscribes \/ \E p \in SsePosts : HandleSubscribe(p)
  <2>1. /\ (sseDone => sseDone') /\ UNCHANGED <<sseEvents, streamed, sent, ssePosts>>
        /\ sseDone' \in BOOLEAN
    BY <1>0, <1>1
       DEF HandleSSE, AddSseSender, SseSenderRefused, DeleteSseSession, RemoveSseSender,
           SseUnsubscribes, HandleSubscribe
  <2>2. StatusOnReturn' /\ Accepted' = Accepted
    BY <2>1 DEF SSEInv, StatusOnReturn, Accepted
  <2> QED BY <1>0, <2>1, <2>2, QuietStep
<1>2. CASE StreamEvent
  <2>1. /\ UNCHANGED <<sseDone, ssePosts, sent>>
        /\ StatusOnReturn' /\ Accepted' = Accepted
    BY <1>2 DEF StreamEvent, SSEInv, StatusOnReturn, Accepted
  <2> QED BY <1>0, <1>2, <2>1, StreamMoves DEF SSEInv, SSETypeOK, NoneMissing
<1>3. CASE StreamLeaves
  <2>1. /\ UNCHANGED <<sseEvents, streamed, sent>> /\ sseDone' = TRUE
        /\ ssePosts' = [p \in SsePosts |-> IF ssePosts[p].pc = "waiting"
                          THEN [ssePosts[p] EXCEPT !.pc = "handling"] ELSE ssePosts[p]]
    BY <1>3 DEF StreamLeaves
  <2>2. /\ ssePosts' \in [SsePosts -> PostRecords]
        /\ \A p \in SsePosts : /\ ssePosts'[p].status = ssePosts[p].status
                               /\ ssePosts'[p].pc = "returned" <=> ssePosts[p].pc = "returned"
    BY <1>0, <2>1 DEF PostRecords, PostStages
  <2>3. StatusOnReturn' /\ Accepted' = Accepted
    BY <2>2 DEF SSEInv, StatusOnReturn, Accepted
  <2> QED BY <2>1, <2>2, <2>3, QuietStep
<1>4. CASE Notify
  <2>1. /\ sent' = sent + 1 /\ sent' \in 1..MaxEvents /\ UNCHANGED <<streamed, ssePosts>>
        /\ \/ Put(sent') /\ UNCHANGED sseDone
           \/ sseDone' = TRUE /\ UNCHANGED sseEvents
    BY <1>0, <1>4, SSEAssumption DEF Notify
  <2>2. StatusOnReturn' /\ Accepted' = Accepted
    BY <2>1 DEF SSEInv, StatusOnReturn, Accepted
  <2>3. CASE Put(sent') /\ UNCHANGED sseDone
    <3>1. /\ sseEvents' \in Seq(SsePosts \cup (1..MaxEvents))
          /\ PutOrStreamed' = PutOrStreamed \cup {sent'}
      BY <1>0, <2>1, <2>3, PutAdds
    <3>2. IsFiniteSet(PutOrStreamed')
      BY <3>1, FS_AddElement DEF SSEInv
    <3>3. 1..sent' = (1..sent) \cup {sent'}
      BY <1>0, <2>1
    <3>4. NoneMissing'
      BY <2>2, <2>3, <3>1, <3>3, Zenon DEF SSEInv, NoneMissing
    <3>5. SSETypeOK'
      BY <1>0, <2>1, <2>3, <3>1, SSEAssumption DEF SSETypeOK
    <3> QED BY <2>2, <3>2, <3>4, <3>5 DEF SSEInv
  <2>4. CASE sseDone' = TRUE /\ UNCHANGED sseEvents
    <3>1. PutOrStreamed' = PutOrStreamed
      BY <2>1, <2>4 DEF PutOrStreamed
    <3>2. SSETypeOK'
      BY <1>0, <2>1, <2>4, SSEAssumption DEF SSETypeOK
    <3> QED BY <2>2, <2>4, <3>1, <3>2 DEF SSEInv, NoneMissing
  <2> QED BY <2>1, <2>3, <2>4
<1>5. ASSUME NEW p \in SsePosts, LoadSession(p) PROVE SSEInv'
  <2>1. /\ ssePosts[p].pc = "none" /\ UNCHANGED <<sseEvents, streamed, sent, sseDone>>
        /\ ssePosts' = PostAs(p, "handling", 0) \/ ssePosts' = PostAs(p, "returned", 404)
    BY <1>5 DEF LoadSession
  <2>2. ssePosts' \in [SsePosts -> PostRecords] /\ StatusOnReturn' /\ Accepted' = Accepted
    <3>1. CASE ssePosts' = PostAs(p, "handling", 0)
      BY <2>1, <3>1, PostMoves DEF PostStages, Statuses
    <3>2. CASE ssePosts' = PostAs(p, "returned", 404)
      BY <2>1, <3>2, PostMoves DEF PostStages, Statuses
    <3> QED BY <2>1, <3>1, <3>2
  <2> QED BY <1>0, <2>1, <2>2, QuietStep
<1>6. ASSUME NEW p \in SsePosts, RequestClient(p) PROVE SSEInv'
  <2>1. /\ sent' = sent + 1 /\ sent' \in 1..MaxEvents /\ UNCHANGED <<streamed, sseDone>>
        /\ Put(sent') /\ ssePosts[p].pc = "handling"
        /\ ssePosts' = [ssePosts EXCEPT ![p] = [@ EXCEPT !.pc = "waiting", !.ev = sent']]
    BY <1>0, <1>6, SSEAssumption DEF RequestClient
  <2>2. /\ ssePosts' \in [SsePosts -> PostRecords]
        /\ \A q \in SsePosts : /\ ssePosts'[q].status = ssePosts[q].status
                               /\ ssePosts'[q].pc = "returned" <=> ssePosts[q].pc = "returned"
    <3> DEFINE new == [pc |-> "waiting", status |-> ssePosts[p].status, ev |-> sent']
    <3>1. ssePosts[p] \in PostRecords
      BY <1>0
    <3>2. new \in PostRecords /\ ssePosts' = [ssePosts EXCEPT ![p] = new]
      <4>1. [ssePosts[p] EXCEPT !.pc = "waiting", !.ev = sent'] = new
        BY <3>1, PostUpdate, Zenon
      <4>2. new \in PostRecords
        BY <2>1, <3>1, SSEAssumption DEF PostRecords, PostStages
      <4> QED BY <2>1, <4>1, <4>2, Zenon
    <3>3. new.status = ssePosts[p].status /\ new.pc = "waiting"
      OBVIOUS
    <3> HIDE DEF new
    <3> QED BY <1>0, <2>1, <3>2, <3>3
  <2>3. StatusOnReturn' /\ Accepted' = Accepted
    BY <2>2 DEF SSEInv, StatusOnReturn, Accepted
  <2>4. /\ sseEvents' \in Seq(SsePosts \cup (1..MaxEvents))
        /\ PutOrStreamed' = PutOrStreamed \cup {sent'}
    BY <1>0, <2>1, PutAdds
  <2>5. IsFiniteSet(PutOrStreamed')
    BY <2>4, FS_AddElement DEF SSEInv
  <2>6. 1..sent' = (1..sent) \cup {sent'}
    BY <1>0, <2>1
  <2>7. NoneMissing'
    BY <2>1, <2>3, <2>4, <2>6, Zenon DEF SSEInv, NoneMissing
  <2>8. SSETypeOK'
    BY <1>0, <2>1, <2>2, <2>4, SSEAssumption DEF SSETypeOK
  <2> QED BY <2>3, <2>5, <2>7, <2>8 DEF SSEInv
<1>7. ASSUME NEW p \in SsePosts, NEW q \in SsePosts, DeliverResponse(p, q) PROVE SSEInv'
  <2>1. /\ UNCHANGED <<sseEvents, streamed, sent, sseDone>>
        /\ ssePosts[p].pc = "handling" /\ ssePosts[q].pc = "waiting"
        /\ ssePosts' = [ssePosts EXCEPT ![p].pc = "returned", ![q].pc = "handling"]
    BY <1>7 DEF DeliverResponse
  <2>2. /\ ssePosts' \in [SsePosts -> PostRecords]
        /\ \A x \in SsePosts : /\ ssePosts'[x].status = ssePosts[x].status
                               /\ ssePosts[x].pc = "returned" => ssePosts'[x].pc = "returned"
    <3> DEFINE first == [pc |-> "returned", status |-> ssePosts[p].status, ev |-> ssePosts[p].ev]
               second == [pc |-> "handling", status |-> ssePosts[q].status, ev |-> ssePosts[q].ev]
    <3>1. p # q /\ ssePosts[p] \in PostRecords /\ ssePosts[q] \in PostRecords
      BY <1>0, <2>1
    <3>2. /\ first \in PostRecords /\ second \in PostRecords
          /\ ssePosts' = [ssePosts EXCEPT ![p] = first, ![q] = second]
      <4>1. first \in PostRecords /\ second \in PostRecords
        BY <3>1 DEF PostRecords, PostStages
      <4>2. /\ [ssePosts[p] EXCEPT !.pc = "returned"] = first
            /\ [ssePosts[q] EXCEPT !.pc = "handling"] = second
        BY <3>1 DEF PostRecords
      <4>3. ssePosts' = [ssePosts EXCEPT ![p] = [ssePosts[p] EXCEPT !.pc = "returned"],
                                         ![q] = [ssePosts[q] EXCEPT !.pc = "handling"]]
        BY <1>0, <2>1, <3>1
      <4> QED BY <4>1, <4>2, <4>3, Zenon
    <3>3. /\ first.status = ssePosts[p].status /\ first.pc = "returned"
          /\ second.status = ssePosts[q].status
      OBVIOUS
    <3> HIDE DEF first, second
    <3> QED BY <1>0, <2>1, <3>1, <3>2, <3>3
  <2>3. StatusOnReturn' /\ Accepted' = Accepted
    BY <2>2 DEF SSEInv, StatusOnReturn, Accepted
  <2> QED BY <1>0, <2>1, <2>2, <2>3, QuietStep
<1>8. ASSUME NEW p \in SsePosts, Answer(p) PROVE SSEInv'
  <2>1. /\ UNCHANGED <<streamed, sent, sseDone>> /\ ssePosts[p].pc = "handling"
        /\ \/ Put(p) /\ ssePosts' = PostAs(p, "returned", 202)
           \/ /\ \E status \in {408, 410, 503} : ssePosts' = PostAs(p, "returned", status)
              /\ UNCHANGED sseEvents
    BY <1>8 DEF Answer
  <2>2. CASE Put(p) /\ ssePosts' = PostAs(p, "returned", 202)
    <3>1. ssePosts' \in [SsePosts -> PostRecords] /\ StatusOnReturn' /\ Accepted' = Accepted \cup {p}
      BY <2>1, <2>2, PostMoves DEF PostStages, Statuses
    <3>2. /\ sseEvents' \in Seq(SsePosts \cup (1..MaxEvents))
          /\ PutOrStreamed' = PutOrStreamed \cup {p}
      BY <1>0, <2>1, <2>2, PutAdds
    <3>3. IsFiniteSet(PutOrStreamed') /\ IsFiniteSet(Accepted')
      BY <3>1, <3>2, FS_AddElement DEF SSEInv
    <3>4. NoneMissing'
      <4>1. (1..sent)' = 1..sent
        BY <2>1
      <4>2. sseDone \/ (1..sent) \cup Accepted \subseteq PutOrStreamed
        BY DEF SSEInv, NoneMissing
      <4>3. (1..sent)' \cup Accepted' \subseteq PutOrStreamed' \/ sseDone
        BY <3>1, <3>2, <4>1, <4>2, Zenon
      <4> QED BY <2>1, <4>3 DEF NoneMissing
    <3>5. SSETypeOK'
      BY <1>0, <2>1, <3>1, <3>2 DEF SSETypeOK
    <3> QED BY <3>1, <3>3, <3>4, <3>5 DEF SSEInv
  <2>3. ASSUME NEW status \in {408, 410, 503}, ssePosts' = PostAs(p, "returned", status),
               UNCHANGED sseEvents
        PROVE  SSEInv'
    <3>1. ssePosts' \in [SsePosts -> PostRecords] /\ StatusOnReturn' /\ Accepted' = Accepted
      BY <2>1, <2>3, PostMoves DEF PostStages, Statuses
    <3> QED BY <1>0, <2>1, <2>3, <3>1, QuietStep
  <2> QED BY <2>1, <2>2, <2>3
<1> QED BY <1>1, <1>2, <1>3, <1>4, <1>5, <1>6, <1>7, <1>8 DEF SSENext

\* The invariant holds in every reachable state of an SSE session.
THEOREM SSEInvariance == SSESpec => []SSEInv
<1>1. SSEInit => SSEInv
  <2> SUFFICES ASSUME SSEInit PROVE SSEInv
    OBVIOUS
  <2>1. SSETypeOK /\ StatusOnReturn
    <3>1. 0 \in 0..MaxEvents
      BY SSEAssumption
    <3>2. [pc |-> "none", status |-> 0, ev |-> 0] \in PostRecords
      BY <3>1 DEF PostRecords, PostStages, Statuses
    <3>3. ssePosts \in [SsePosts -> PostRecords]
      BY <3>2, Zenon DEF SSEInit
    <3>4. sseEvents \in Seq(SsePosts \cup (1..MaxEvents))
      BY DEF SSEInit
    <3>5. StatusOnReturn
      BY DEF SSEInit, StatusOnReturn
    <3> QED BY <3>1, <3>3, <3>4, <3>5 DEF SSEInit, SSETypeOK
  <2>2. Accepted = {} /\ PutOrStreamed = {} /\ 1..sent = {}
    BY DEF SSEInit, Accepted, PutOrStreamed
  <2> QED BY <2>1, <2>2, FS_EmptySet DEF SSEInv, NoneMissing
<1>2. SSEInv /\ [SSENext]_sseVars => SSEInv'
  <2>1. CASE UNCHANGED sseVars
    BY <2>1 DEF sseVars, SSEInv, SSETypeOK, StatusOnReturn, NoneMissing, Accepted, PutOrStreamed
  <2> QED BY <2>1, SSEStep
<1> QED BY <1>1, <1>2, PTL DEF SSESpec

\* A client that is answered 202, or a server that sends a notification, loses the event
\* only together with the stream, whatever the limit of the queue.
THEOREM SSELosesNothing == SSESpec => []NothingLostSilently
<1>1. SSEInv => NothingLostSilently
  <2> SUFFICES ASSUME SSEInv, ~sseDone PROVE NothingLostSilently
    BY DEF NothingLostSilently
  <2>1. (1..sent) \cup Accepted \subseteq PutOrStreamed
    BY DEF SSEInv, NoneMissing
  <2>2. sent \in Nat /\ (1..sent) \cap Accepted = {}
    BY SSEAssumption DEF SSEInv, SSETypeOK, Accepted
  <2>3. IsFiniteSet(1..sent) /\ Cardinality(1..sent) = sent
    BY <2>2, FS_Interval
  <2>4. Cardinality((1..sent) \cap Accepted) = 0
    BY <2>2, FS_EmptySet
  <2>5. /\ IsFiniteSet((1..sent) \cup Accepted)
        /\ Cardinality((1..sent) \cup Accepted)
             = Cardinality(1..sent) + Cardinality(Accepted) - Cardinality((1..sent) \cap Accepted)
    BY <2>3, FS_Union DEF SSEInv
  <2>6. Cardinality((1..sent) \cup Accepted) <= Cardinality(PutOrStreamed)
    BY <2>1, FS_Subset DEF SSEInv
  <2>7. Cardinality(Accepted) \in Nat /\ Cardinality(PutOrStreamed) \in Nat
    BY FS_CardinalityType DEF SSEInv
  <2>8. Cardinality(PutOrStreamed) >= sent + Cardinality(Accepted)
    BY <2>2, <2>3, <2>4, <2>5, <2>6, <2>7
  <2>9. \A p \in SsePosts :
          ssePosts[p].status = 202 => p \in streamed \/ \E i \in DOMAIN sseEvents : sseEvents[i] = p
    BY <2>1 DEF Accepted, PutOrStreamed
  <2> QED BY <2>8, <2>9, Zenon DEF NothingLostSilently, Accepted, PutOrStreamed
<1> QED BY <1>1, SSEInvariance, PTL

(***************************************************************************)
(* LoopTransport                                                           *)
(***************************************************************************)

\* When the loop of stdio or WebSocket has ended, one pass of cleanup was enough: the
\* server has no sender, subscription or tool of the session, whatever was in the inbox
\* and whenever the connection, the context or a handler ended.
THEOREM LoopEndsClean == LoopTransportSpec => []LoopLeavesNothing
<1>1. LoopInit => LoopInv
  BY DEF LoopInit, LoopInv
<1>2. LoopInv /\ [LoopNext]_loopVars => LoopInv'
  <2> SUFFICES ASSUME LoopInv, [LoopNext]_loopVars PROVE LoopInv'
    OBVIOUS
  <2> USE DEF LoopInv, loopState
  <2>1. CASE \/ \E m \in ClientRequests : ClientSends(m)
             \/ ClientResponds \/ ClientCloses \/ LoopCtxEnds
             \/ ReaderReads \/ ReaderPasses
             \/ UNCHANGED loopVars
    BY <2>1 DEF ClientSends, ClientResponds, ClientCloses, LoopCtxEnds, ReaderReads, ReaderPasses,
       loopVars
  <2>2. CASE AppAddsTool
    BY <2>2 DEF AppAddsTool
  <2>3. ASSUME NEW m \in ClientRequests, LoopHandles(m) PROVE LoopInv'
    BY <2>3 DEF LoopHandles, LoopFree
  <2>4. CASE LoopDelivers
    BY <2>4 DEF LoopDelivers
  <2>5. CASE LoopLeaves
    BY <2>5 DEF LoopLeaves, LoopFree
  <2>6. CASE RemoveLoopSender \/ LoopUnsubscribes \/ LoopForgetsTools
    BY <2>6 DEF RemoveLoopSender, LoopUnsubscribes, LoopForgetsTools
  <2>7. CASE HandlerSubscribes \/ HandlerSamples \/ SamplingEnds
    BY <2>7 DEF HandlerSubscribes, HandlerSamples, SamplingEnds
  <2>8. CASE HandlerIsDone
    BY <2>8 DEF HandlerIsDone
  <2> HIDE DEF LoopInv
  <2> QED
    BY <2>1, <2>2, <2>3, <2>4, <2>5, <2>6, <2>7, <2>8 DEF LoopNext
<1>3. LoopInv => LoopLeavesNothing
  BY DEF LoopInv, LoopLeavesNothing
<1> QED
  BY <1>1, <1>2, <1>3, PTL DEF LoopTransportSpec
=============================================================================
