--------------------------- MODULE SessionRegistry ---------------------------
(***************************************************************************)
(* What the Server keeps for each connection: the notification senders and *)
(* the resource subscriptions (server.go), and the session tools with the  *)
(* memory of closed sessions (session_tools.go).  Every operation is one   *)
(* critical section of Server.mu or of the tool registry's own mutex.      *)
(*                                                                         *)
(* A notification sender is named by its session, a subscription by the    *)
(* pair of session and URI, a tool by its name.                            *)
(***************************************************************************)
EXTENDS Naturals, FiniteSets, Sequences

CONSTANTS
  Sessions,       \* the session ids, each drawn once
  NoSession,      \* "", the unused slots of the ring buffer
  Uris, Tools,
  MaxTools,       \* maxToolsPerSess
  MaxSessions,    \* maxSessions
  MaxClosed       \* maxClosedSessions

ASSUME LimitsAssumption ==
  MaxTools \in Nat \ {0} /\ MaxSessions \in Nat \ {0} /\ MaxClosed \in Nat \ {0}
ASSUME NoSessionAssumption == NoSession \notin Sessions

VARIABLES
  senders,        \* Server.senders
  subscriptions,  \* Server.subscriptions
  sessionTools,   \* sessionToolRegistry.sessions
  closed,         \* sessionToolRegistry.closed
  closedRng, closedIdx

toolVars == <<sessionTools, closed, closedRng, closedIdx>>
registryVars == <<senders, subscriptions, toolVars>>

Slots == 0 .. MaxClosed - 1

RegistryTypeOK ==
  /\ senders \subseteq Sessions
  /\ subscriptions \subseteq Sessions \X Uris
  /\ sessionTools \in [Sessions -> SUBSET Tools]
  /\ closed \subseteq Sessions
  /\ closedRng \in [Slots -> Sessions \cup {NoSession}]
  /\ closedIdx \in Slots

RegistryInit ==
  /\ senders = {}
  /\ subscriptions = {}
  /\ sessionTools = [s \in Sessions |-> {}]
  /\ closed = {}
  /\ closedRng = [i \in Slots |-> NoSession]
  /\ closedIdx = 0

-----------------------------------------------------------------------------
AddSender(s) ==
  /\ s \notin senders
  /\ senders' = senders \cup {s}
  /\ UNCHANGED <<subscriptions, toolVars>>

RemoveSender(s) ==
  /\ senders' = senders \ {s}
  /\ UNCHANGED <<subscriptions, toolVars>>

Subscribe(s, uri) ==
  /\ subscriptions' = subscriptions \cup {<<s, uri>>}
  /\ UNCHANGED <<senders, toolVars>>

Unsubscribe(s, uri) ==
  /\ subscriptions' = subscriptions \ {<<s, uri>>}
  /\ UNCHANGED <<senders, toolVars>>

UnsubscribeAll(s) ==
  /\ subscriptions' = subscriptions \ ({s} \X Uris)
  /\ UNCHANGED <<senders, toolVars>>

-----------------------------------------------------------------------------
WithTools == {s \in Sessions : sessionTools[s] # {}}

\* Mutated form: the session is not looked up again under the lock.
AddTool_ClosedUnchecked(s, tool) ==
  /\ sessionTools' =
       IF /\ s \in WithTools \/ Cardinality(WithTools) < MaxSessions
          /\ Cardinality(sessionTools[s]) < MaxTools
         THEN [sessionTools EXCEPT ![s] = @ \cup {tool}] ELSE sessionTools
  /\ UNCHANGED <<senders, subscriptions, closed, closedRng, closedIdx>>

\* sessionToolRegistry.add: a closed session, a session or a tool over its
\* limit and a known name are refused, and nothing changes.  An entry is made
\* only for its first tool, so the entries are the sessions with tools.
AddTool(s, tool) ==
  /\ sessionTools' =
       IF /\ s \notin closed
          /\ s \in WithTools \/ Cardinality(WithTools) < MaxSessions
          /\ Cardinality(sessionTools[s]) < MaxTools
         THEN [sessionTools EXCEPT ![s] = @ \cup {tool}] ELSE sessionTools
  /\ UNCHANGED <<senders, subscriptions, closed, closedRng, closedIdx>>

RemoveTool(s, tool) ==
  /\ sessionTools' = [sessionTools EXCEPT ![s] = @ \ {tool}]
  /\ UNCHANGED <<senders, subscriptions, closed, closedRng, closedIdx>>

\* Mutated form: a session that is already remembered takes a second slot.
RemoveSessionTools_NoDoubleCallGuard(s) ==
  /\ sessionTools' = [sessionTools EXCEPT ![s] = {}]
  /\ closed' = (closed \ {closedRng[closedIdx]}) \cup {s}
  /\ closedRng' = [closedRng EXCEPT ![closedIdx] = s]
  /\ closedIdx' = (closedIdx + 1) % MaxClosed
  /\ UNCHANGED <<senders, subscriptions>>

\* removeAll: the tools go; the session takes the slot at closedIdx, from
\* which the session that was closed MaxClosed closings ago is evicted.
RemoveSessionTools(s) ==
  /\ sessionTools' = [sessionTools EXCEPT ![s] = {}]
  /\ IF s \in closed
       THEN UNCHANGED <<closed, closedRng, closedIdx>>
       ELSE /\ closed' = (closed \ {closedRng[closedIdx]}) \cup {s}
            /\ closedRng' = [closedRng EXCEPT ![closedIdx] = s]
            /\ closedIdx' = (closedIdx + 1) % MaxClosed
  /\ UNCHANGED <<senders, subscriptions>>

-----------------------------------------------------------------------------
\* The registries on their own, under any sequence of calls by the transports,
\* the request handlers and the application.
RegistryNext ==
  \E s \in Sessions :
    \/ AddSender(s) \/ RemoveSender(s)
    \/ \E uri \in Uris : Subscribe(s, uri) \/ Unsubscribe(s, uri)
    \/ UnsubscribeAll(s)
    \/ \E tool \in Tools : AddTool(s, tool) \/ RemoveTool(s, tool)
    \/ RemoveSessionTools(s)

RegistrySpec == RegistryInit /\ [][RegistryNext]_registryVars

-----------------------------------------------------------------------------
(***************************************************************************)
(* The ring buffer implements the bounded memory of closed sessions.       *)
(***************************************************************************)

\* The ring read from the oldest entry: the slot that is written next, once all are used.
RecentIn(ring, idx) ==
  IF ring[idx] = NoSession
    THEN [i \in 1 .. idx |-> ring[i - 1]]
    ELSE [i \in 1 .. MaxClosed |->
            ring[IF idx + i - 1 < MaxClosed THEN idx + i - 1 ELSE idx + i - 1 - MaxClosed]]

RecentOf == RecentIn(closedRng, closedIdx)

Memory == INSTANCE RecentlyClosed
            WITH Ids <- Sessions, Capacity <- MaxClosed,
                 recent <- RecentOf, remembered <- closed

\* After any sequence of closings, repeated ones included, the lookup set and
\* the ring of removeAll agree, and a session is forgotten only when MaxClosed
\* others were closed after it.
RemembersLatest == Memory!Spec

\* No interleaving of adds and closings takes the tool registry over
\* maxSessions sessions or maxToolsPerSess tools of one session.
WithinLimits ==
  /\ Cardinality(WithTools) <= MaxSessions
  /\ \A s \in Sessions : Cardinality(sessionTools[s]) <= MaxTools

-----------------------------------------------------------------------------
(***************************************************************************)
(* The inductive invariant of the registries.                              *)
(***************************************************************************)

\* A closed session has no tools.
ClosedHasNoTools == \A s \in closed : sessionTools[s] = {}

\* The ring's entries are the members of the lookup set, each in one slot.
RingExact ==
  /\ closed = {closedRng[i] : i \in Slots} \ {NoSession}
  /\ \A i, j \in Slots : closedRng[i] = closedRng[j] /\ closedRng[i] # NoSession => i = j

\* The slots are used in order, and none is given back.
FilledTo(ring, idx) ==
  \/ \A i \in Slots : ring[i] = NoSession <=> i >= idx
  \/ \A i \in Slots : ring[i] # NoSession

RingFills == FilledTo(closedRng, closedIdx)

RegistryInv == RegistryTypeOK /\ ClosedHasNoTools /\ RingExact

\* Only finitely many sessions and tools are ever counted.
Countable ==
  IsFiniteSet(WithTools) /\ \A s \in Sessions : IsFiniteSet(sessionTools[s])
=============================================================================
