--------------------------- MODULE TaskCallsProofs ---------------------------
(***************************************************************************)
(* For any number of calls and sessions and any limit: the types, the      *)
(* exclusion of "cancelled" and "delivered", ownership across the check    *)
(* and the operation, the limit of the store, and the implementation of    *)
(* WorkLifecycle.                                                          *)
(***************************************************************************)
EXTENDS TaskCalls, FiniteSetTheorems, TLAPS

\* An empty store satisfies the inductive invariant.
LEMMA InitIndInv == Init => IndInv
  BY DEF Init, IndInv, TypeOK, StoreConsistent, RepliesStand, CheckStands,
         CancelledOrDelivered, OwnerOnly, Callers, WorkerStates, Terminal

\* Every step of a handler, a goroutine or the application preserves it.
LEMMA NextIndInv == IndInv /\ [Next]_vars => IndInv'
<1> SUFFICES ASSUME IndInv, [Next]_vars PROVE IndInv'
  OBVIOUS
<1> USE NoSessionAssumption
    DEF IndInv, TypeOK, StoreConsistent, RepliesStand, CheckStands, CancelledOrDelivered,
        OwnerOnly, Callers, Methods, WorkerStates, Terminal, Stored, Allowed, storeVars
<1>1. ASSUME NEW t \in Calls, NEW caller \in Callers, Submit(t, caller) PROVE IndInv'
  BY <1>1 DEF Submit
<1>2. ASSUME NEW t \in Calls, StartWorker(t) PROVE IndInv'
  BY <1>2 DEF StartWorker
<1>3. ASSUME NEW t \in Calls, StoreCancelFunc(t) PROVE IndInv'
  BY <1>3 DEF StoreCancelFunc
<1>4. ASSUME NEW t \in Calls, Timeout(t) PROVE IndInv'
  BY <1>4 DEF Timeout
<1>5. ASSUME NEW t \in Calls, NEW how \in {"succeeded", "errored", "panicked"}, CallTool(t, how)
      PROVE IndInv'
  BY <1>5 DEF CallTool
<1>6. ASSUME NEW t \in Calls, Complete(t) PROVE IndInv'
  BY <1>6 DEF Complete
<1>7. ASSUME NEW t \in Calls, Fail(t) PROVE IndInv'
  BY <1>7 DEF Fail
<1>8. ASSUME NEW t \in Calls, NEW method \in Methods, NEW caller \in Callers,
             CheckOwnership(method, t, caller)
      PROVE IndInv'
  BY <1>8 DEF CheckOwnership
<1>9. ASSUME NEW t \in Calls, Cancel(t) PROVE IndInv'
  <2>1. PICK caller \in Callers : request = <<"cancel", t, caller>>
    BY <1>9 DEF Cancel
  <2>2. CASE status[t] # "working"
    BY <1>9, <2>2 DEF Cancel
  <2>3. CASE status[t] = "working"
    <3> USE <1>9, <2>1, <2>3 DEF Cancel
    <3>1. replied' = replied \cup {<<"cancel", t, caller>>}
      OBVIOUS
    <3>2. TypeOK' /\ StoreConsistent' /\ CheckStands'
      OBVIOUS
    <3>3. RepliesStand' /\ CancelledOrDelivered'
      BY <3>1
    <3>4. OwnerOnly'
      BY <3>1
    <3> QED
      BY <3>2, <3>3, <3>4
  <2> QED
    BY <2>2, <2>3
<1>10. ASSUME NEW t \in Calls, GetResult(t) PROVE IndInv'
  <2>1. PICK caller \in Callers : request = <<"result", t, caller>>
    BY <1>10 DEF GetResult
  <2>2. CASE replied' = replied
    BY <1>10, <2>2 DEF GetResult
  <2>3. CASE status[t] = "completed" /\ replied' = replied \cup {<<"result", t, caller>>}
    <3> USE <1>10, <2>1, <2>3 DEF GetResult
    <3>1. TypeOK' /\ StoreConsistent' /\ CheckStands'
      OBVIOUS
    <3>2. RepliesStand' /\ CancelledOrDelivered'
      OBVIOUS
    <3>3. OwnerOnly'
      OBVIOUS
    <3> QED
      BY <3>1, <3>2, <3>3
  <2> QED
    BY <1>10, <2>1, <2>2, <2>3 DEF GetResult
<1>11. ASSUME NEW t \in Calls, Delete(t) PROVE IndInv'
  BY <1>11 DEF Delete
<1>12. CASE UNCHANGED vars
  BY <1>12 DEF vars
<1> HIDE NoSessionAssumption
    DEF IndInv, TypeOK, StoreConsistent, RepliesStand, CheckStands, CancelledOrDelivered,
        OwnerOnly, Callers, Methods, WorkerStates, Terminal, Stored, Allowed, storeVars
<1>13. QED
  BY <1>1, <1>2, <1>3, <1>4, <1>5, <1>6, <1>7, <1>8, <1>9, <1>10, <1>11, <1>12
     DEF Next, WorkerStep, ToolReturns

\* The inductive invariant holds in every state of every run.
THEOREM Invariance == Spec => []IndInv
  BY InitIndInv, NextIndInv, PTL DEF Spec

\* Types.
THEOREM TypeCorrect == Spec => []TypeOK
<1>1. IndInv => TypeOK
  BY DEF IndInv
<1> QED
  BY Invariance, <1>1, PTL

\* No task is both reported cancelled and delivered.
THEOREM CancelExcludesDelivery == Spec => []CancelledOrDelivered
<1>1. IndInv => CancelledOrDelivered
  BY DEF IndInv
<1> QED
  BY Invariance, <1>1, PTL

\* Ownership survives the gap between its check and the operation.
THEOREM Ownership == Spec => []OwnerOnly
<1>1. IndInv => OwnerOnly
  BY DEF IndInv
<1> QED
  BY Invariance, <1>1, PTL

-----------------------------------------------------------------------------
(***************************************************************************)
(* The limit of the store                                                  *)
(***************************************************************************)

\* Only a Submit that the limit admits adds a task: the goroutine of a task that
\* was deleted finds nothing to write to.
LEMMA NextCounted == IndInv /\ Counted /\ [Next]_vars => Counted'
<1> SUFFICES ASSUME IndInv, Counted, [Next]_vars PROVE Counted'
  OBVIOUS
<1>0. TypeOK
  BY DEF IndInv
<1>1. ASSUME NEW t \in Calls, NEW caller \in Callers, Submit(t, caller) PROVE Counted'
  <2>1. Stored' = Stored \cup {t}
    BY <1>0, <1>1 DEF Submit, Stored, TypeOK
  <2>2. Cardinality(Stored) \in Nat
    BY FS_CardinalityType DEF Counted
  <2>3. /\ IsFiniteSet(Stored \cup {t})
        /\ Cardinality(Stored \cup {t}) <= Cardinality(Stored) + 1
    <3>1. /\ IsFiniteSet(Stored \cup {t})
          /\ Cardinality(Stored \cup {t}) =
               IF t \in Stored THEN Cardinality(Stored) ELSE Cardinality(Stored) + 1
      BY FS_AddElement, Zenon DEF Counted
    <3> QED
      BY <2>2, <3>1
  <2>4. MaxTasks > 0 => Cardinality(Stored) + 1 <= MaxTasks
    BY <1>1, <2>2, MaxTasksAssumption DEF Submit
  <2>5. Cardinality(Stored \cup {t}) \in Nat
    BY <2>3, FS_CardinalityType
  <2> QED
    BY <2>1, <2>2, <2>3, <2>4, <2>5, MaxTasksAssumption DEF Counted, WithinLimit
<1>2. ASSUME Stored' \subseteq Stored PROVE Counted'
  <2>1. IsFiniteSet(Stored') /\ Cardinality(Stored') <= Cardinality(Stored)
    BY <1>2, FS_Subset DEF Counted
  <2>2. Cardinality(Stored) \in Nat /\ Cardinality(Stored') \in Nat
    BY <2>1, FS_CardinalityType DEF Counted
  <2> QED
    BY <2>1, <2>2, MaxTasksAssumption DEF Counted, WithinLimit
<1>3. ASSUME NEW t \in Calls, Complete(t) \/ Fail(t) \/ Cancel(t) \/ Delete(t)
      PROVE Stored' \subseteq Stored
  BY <1>0, <1>3 DEF Complete, Fail, Cancel, Delete, Stored, TypeOK
<1>4. ASSUME NEW t \in Calls,
             \/ StartWorker(t) \/ StoreCancelFunc(t) \/ Timeout(t) \/ ToolReturns(t) \/ GetResult(t)
             \/ \E method \in Methods, caller \in Callers : CheckOwnership(method, t, caller)
      PROVE Stored' \subseteq Stored
  BY <1>4 DEF StartWorker, StoreCancelFunc, Timeout, ToolReturns, CallTool, GetResult,
              CheckOwnership, storeVars, Stored
<1>5. CASE UNCHANGED vars
  <2>1. Stored' \subseteq Stored
    BY <1>5 DEF vars, storeVars, Stored
  <2> QED
    BY <2>1, <1>2
<1>6. QED
  BY <1>1, <1>2, <1>3, <1>4, <1>5 DEF Next, WorkerStep

\* The store keeps WithMaxTasks, whatever the goroutines of deleted tasks do.
THEOREM StoreWithinLimit == Spec => []WithinLimit
<1>1. Init => Counted
  <2> SUFFICES ASSUME Init PROVE Counted
    OBVIOUS
  <2>1. Stored = {}
    BY DEF Init, Stored
  <2> QED
    BY <2>1, FS_EmptySet, MaxTasksAssumption DEF Counted, WithinLimit
<1>2. Counted => WithinLimit
  BY DEF Counted
<1> QED
  BY <1>1, <1>2, NextCounted, Invariance, PTL DEF Spec

-----------------------------------------------------------------------------
(***************************************************************************)
(* Refinement                                                              *)
(***************************************************************************)

\* A step that leaves every task's status, and whether it was ever submitted,
\* alone leaves the abstract phase alone.
LEMMA SamePhase ==
  ASSUME TypeOK, status' = status,
         \A t \in Calls : worker'[t] = "none" <=> worker[t] = "none"
  PROVE  [t \in Calls |-> PhaseOf(t)]' = [t \in Calls |-> PhaseOf(t)]
  BY DEF PhaseOf

\* A step that changes the status of one submitted task changes its phase alone.
LEMMA OnePhase ==
  ASSUME TypeOK, NEW t \in Calls, NEW to,
         status' = [status EXCEPT ![t] = to],
         \A u \in Calls \ {t} : worker'[u] = worker[u]
  PROVE  [u \in Calls |-> PhaseOf(u)]' = [[u \in Calls |-> PhaseOf(u)] EXCEPT ![t] = PhaseOf(t)']
  BY DEF TypeOK, PhaseOf

LEMMA InitLifecycle == Init => Lifecycle!Init
  BY DEF Init, Lifecycle!Init, PhaseOf

\* Every step is a step of WorkLifecycle or leaves the phases alone.
LEMMA StepLifecycle ==
  IndInv /\ [Next]_vars => [Lifecycle!Next]_([t \in Calls |-> PhaseOf(t)])
<1> DEFINE phases == [t \in Calls |-> PhaseOf(t)]
<1> SUFFICES ASSUME IndInv, [Next]_vars PROVE Lifecycle!Next \/ UNCHANGED phases
  OBVIOUS
<1>0. TypeOK
  BY DEF IndInv
<1>1. ASSUME NEW t \in Calls, NEW caller \in Callers, Submit(t, caller)
      PROVE Lifecycle!Start(t)
  <2>1. phases' = [phases EXCEPT ![t] = PhaseOf(t)']
    BY <1>0, <1>1, OnePhase DEF Submit, TypeOK
  <2>2. PhaseOf(t) = "new" /\ PhaseOf(t)' = "active"
    BY <1>1 DEF Submit, PhaseOf, IndInv, TypeOK, StoreConsistent
  <2> QED
    BY <2>1, <2>2 DEF Lifecycle!Start
<1>2. ASSUME NEW t \in Calls, Complete(t), status[t] = "working"
      PROVE Lifecycle!Decide(t, "succeeded")
  <2>1. phases' = [phases EXCEPT ![t] = PhaseOf(t)']
    BY <1>0, <1>2, OnePhase DEF Complete, TypeOK
  <2>2. PhaseOf(t) = "active" /\ PhaseOf(t)' = "succeeded"
    BY <1>2 DEF Complete, PhaseOf, IndInv, TypeOK
  <2> QED
    BY <2>1, <2>2 DEF Lifecycle!Decide
<1>3. ASSUME NEW t \in Calls, Fail(t), status[t] = "working"
      PROVE Lifecycle!Decide(t, "failed")
  <2>1. phases' = [phases EXCEPT ![t] = PhaseOf(t)']
    BY <1>0, <1>3, OnePhase DEF Fail, TypeOK
  <2>2. PhaseOf(t) = "active" /\ PhaseOf(t)' = "failed"
    BY <1>3 DEF Fail, PhaseOf, IndInv, TypeOK
  <2> QED
    BY <2>1, <2>2 DEF Lifecycle!Decide
<1>4. ASSUME NEW t \in Calls, Cancel(t), status[t] = "working"
      PROVE Lifecycle!Decide(t, "cancelled")
  <2>1. phases' = [phases EXCEPT ![t] = PhaseOf(t)']
    BY <1>0, <1>4, OnePhase DEF Cancel, TypeOK
  <2>2. PhaseOf(t) = "active" /\ PhaseOf(t)' = "cancelled"
    BY <1>4 DEF Cancel, PhaseOf, IndInv, TypeOK
  <2> QED
    BY <2>1, <2>2 DEF Lifecycle!Decide
<1>5. ASSUME NEW t \in Calls, Delete(t) PROVE Lifecycle!Forget(t)
  <2>1. phases' = [phases EXCEPT ![t] = PhaseOf(t)']
    BY <1>0, <1>5, OnePhase DEF Delete, TypeOK
  <2>2. PhaseOf(t)' = "forgotten"
    BY <1>5 DEF Delete, Stored, PhaseOf, IndInv, TypeOK, StoreConsistent
  <2>3. PhaseOf(t) \in {"active"} \cup Lifecycle!Fates
    BY <1>5 DEF Delete, Stored, PhaseOf, IndInv, TypeOK, Terminal, Lifecycle!Fates
  <2> QED
    BY <2>1, <2>2, <2>3 DEF Lifecycle!Forget
<1>6. ASSUME NEW t \in Calls,
             \/ StartWorker(t) \/ StoreCancelFunc(t) \/ Timeout(t) \/ ToolReturns(t) \/ GetResult(t)
             \/ \E method \in Methods, caller \in Callers : CheckOwnership(method, t, caller)
      PROVE UNCHANGED phases
  BY <1>0, <1>6, SamePhase
     DEF StartWorker, StoreCancelFunc, Timeout, ToolReturns, CallTool, GetResult, CheckOwnership,
         storeVars, TypeOK
<1>7. ASSUME NEW t \in Calls, Complete(t) \/ Fail(t) \/ Cancel(t), status[t] # "working"
      PROVE UNCHANGED phases
  <2>1. status' = status
    BY <1>0, <1>7 DEF Complete, Fail, Cancel, TypeOK
  <2> QED
    BY <1>0, <1>7, <2>1, SamePhase DEF Complete, Fail, Cancel, TypeOK
<1>8. CASE UNCHANGED vars
  BY <1>0, <1>8, SamePhase DEF vars, storeVars
<1>9. {"succeeded", "failed", "cancelled"} \subseteq Lifecycle!Fates
  BY DEF Lifecycle!Fates
<1>10. QED
  BY <1>1, <1>2, <1>3, <1>4, <1>5, <1>6, <1>7, <1>8, <1>9
     DEF Next, WorkerStep, Lifecycle!Next

\* TaskCalls implements WorkLifecycle.
THEOREM Refinement == Spec => ImplementsLifecycle
  BY InitLifecycle, StepLifecycle, Invariance, PTL DEF Spec, ImplementsLifecycle, Lifecycle!Spec
=============================================================================
