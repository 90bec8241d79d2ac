----------------------------- MODULE TaskCalls -----------------------------
(***************************************************************************)
(* Task-augmented tools/call and the tasks/* methods (dispatch.go) over    *)
(* the TaskStore (task.go).                                                *)
(*                                                                         *)
(* Every member of Calls is one task-augmented call; it stands also for    *)
(* the id GenerateID draws for it, 128 random bits: never drawn twice, and *)
(* unknown to a client before the draw.  Three kinds of actor interleave:  *)
(* the request handlers, the background goroutine of each call, and the    *)
(* application, which may Delete a task at any time.  A step is one        *)
(* critical section of the store's mutex, or what a goroutine does between *)
(* two of them.                                                            *)
(***************************************************************************)
EXTENDS Naturals, FiniteSets

CONSTANTS
  Calls,      \* the task-augmented calls
  Sessions,   \* subscriber ids
  NoSession,  \* the empty subscriber id (stdio)
  NoRequest,  \* no tasks/* request is being handled
  MaxTasks    \* WithMaxTasks; 0 means unlimited

ASSUME MaxTasksAssumption == MaxTasks \in Nat
ASSUME NoSessionAssumption == NoSession \notin Sessions

VARIABLES
  status,     \* task.Status of each stored task, "absent" when not stored
  result,     \* the tasks whose result is set
  owner,      \* ownerID
  cancelFn,   \* the stored tasks whose cancelFn is set
  worker,     \* where each background goroutine is
  bgCtxDone,  \* the calls whose background context has ended
  request,    \* the tasks/* request past its ownership check
  replied     \* the successful replies so far: <<method, call, session>>

storeVars == <<status, result, owner, cancelFn>>
vars == <<storeVars, worker, bgCtxDone, request, replied>>

Callers == Sessions \cup {NoSession}
Terminal == {"completed", "failed", "cancelled"}
Methods == {"cancel", "result"}

\* submitted: stored, goroutine not started; the others are the goroutine's
\* steps, the last three by how CallTool came back.
WorkerStates ==
  {"none", "submitted", "started", "running", "succeeded", "errored", "panicked", "exited"}

TypeOK ==
  /\ status \in [Calls -> {"absent", "working"} \cup Terminal]
  /\ result \subseteq Calls
  /\ owner \in [Calls -> Callers]
  /\ cancelFn \subseteq Calls
  /\ worker \in [Calls -> WorkerStates]
  /\ bgCtxDone \subseteq Calls
  /\ request \in (Methods \X Calls \X Callers) \cup {NoRequest}
  /\ replied \subseteq Methods \X Calls \X Callers

Init ==
  /\ status = [t \in Calls |-> "absent"]
  /\ result = {}
  /\ owner = [t \in Calls |-> NoSession]
  /\ cancelFn = {}
  /\ worker = [t \in Calls |-> "none"]
  /\ bgCtxDone = {}
  /\ request = NoRequest
  /\ replied = {}

Stored == {t \in Calls : status[t] # "absent"}

(***************************************************************************)
(* handleTaskAugmentedCall: SubmitWithOptions, then the go statement.  At  *)
(* the limit the call is answered with an error and nothing changes.       *)
(***************************************************************************)
Submit(t, caller) ==
  /\ worker[t] = "none"
  /\ MaxTasks > 0 => Cardinality(Stored) < MaxTasks
  /\ status' = [status EXCEPT ![t] = "working"]
  /\ owner' = [owner EXCEPT ![t] = caller]
  /\ worker' = [worker EXCEPT ![t] = "submitted"]
  /\ UNCHANGED <<result, cancelFn, bgCtxDone, request, replied>>

StartWorker(t) ==
  /\ worker[t] = "submitted"
  /\ worker' = [worker EXCEPT ![t] = "started"]
  /\ UNCHANGED <<storeVars, bgCtxDone, request, replied>>

(***************************************************************************)
(* The background goroutine                                                *)
(***************************************************************************)

\* Mutated form: the entry is made anew when the task is gone.
StoreCancelFunc_Recreates(t) ==
  /\ worker[t] = "started"
  /\ cancelFn' = cancelFn \cup {t}
  /\ status' = [status EXCEPT ![t] = IF @ = "absent" THEN "working" ELSE @]
  /\ worker' = [worker EXCEPT ![t] = "running"]
  /\ UNCHANGED <<result, owner, bgCtxDone, request, replied>>

\* The context is made and its cancel function stored, if the task still is.
StoreCancelFunc(t) ==
  /\ worker[t] = "started"
  /\ cancelFn' = IF t \in Stored THEN cancelFn \cup {t} ELSE cancelFn
  /\ worker' = [worker EXCEPT ![t] = "running"]
  /\ UNCHANGED <<status, result, owner, bgCtxDone, request, replied>>

\* The five-minute limit of the background context.
Timeout(t) ==
  /\ worker[t] = "running"
  /\ t \notin bgCtxDone
  /\ bgCtxDone' = bgCtxDone \cup {t}
  /\ UNCHANGED <<storeVars, worker, request, replied>>

\* CallTool returns a result, an error (or an error result), or panics.
CallTool(t, how) ==
  /\ worker[t] = "running"
  /\ worker' = [worker EXCEPT ![t] = how]
  /\ UNCHANGED <<storeVars, bgCtxDone, request, replied>>

\* Mutated form: Complete does not look at the status.
Complete_Unchecked(t) ==
  /\ worker[t] = "succeeded"
  /\ IF status[t] # "absent"
       THEN /\ status' = [status EXCEPT ![t] = "completed"]
            /\ result' = result \cup {t}
       ELSE UNCHANGED <<status, result>>
  /\ worker' = [worker EXCEPT ![t] = "exited"]
  /\ bgCtxDone' = bgCtxDone \cup {t}
  /\ UNCHANGED <<owner, cancelFn, request, replied>>

\* taskStore.Complete, a no-op unless the task is working; then the deferred
\* bgCancel.
Complete(t) ==
  /\ worker[t] = "succeeded"
  /\ IF status[t] = "working"
       THEN /\ status' = [status EXCEPT ![t] = "completed"]
            /\ result' = result \cup {t}
       ELSE UNCHANGED <<status, result>>
  /\ worker' = [worker EXCEPT ![t] = "exited"]
  /\ bgCtxDone' = bgCtxDone \cup {t}
  /\ UNCHANGED <<owner, cancelFn, request, replied>>

\* Mutated form: the recovered panic is not recorded.
Fail_PanicLost(t) ==
  /\ worker[t] \in {"errored", "panicked"}
  /\ status' = [status EXCEPT ![t] =
                  IF @ = "working" /\ worker[t] = "errored" THEN "failed" ELSE @]
  /\ worker' = [worker EXCEPT ![t] = "exited"]
  /\ bgCtxDone' = bgCtxDone \cup {t}
  /\ UNCHANGED <<result, owner, cancelFn, request, replied>>

\* taskStore.Fail, from the error paths or from the recover.
Fail(t) ==
  /\ worker[t] \in {"errored", "panicked"}
  /\ status' = [status EXCEPT ![t] = IF @ = "working" THEN "failed" ELSE @]
  /\ worker' = [worker EXCEPT ![t] = "exited"]
  /\ bgCtxDone' = bgCtxDone \cup {t}
  /\ UNCHANGED <<result, owner, cancelFn, request, replied>>

(***************************************************************************)
(* tasks/cancel and tasks/result: the ownership check reads the store,     *)
(* the operation takes the lock again.                                     *)
(***************************************************************************)
\* Mutated form: a caller with an id is trusted.
Allowed_KnownCaller(t, caller) ==
  t \in Stored /\ owner[t] # NoSession => caller \in Callers

\* checkTaskOwnership: the ids must match when both are known.
Allowed(t, caller) ==
  t \in Stored /\ owner[t] # NoSession /\ caller # NoSession => owner[t] = caller

CheckOwnership(method, t, caller) ==
  /\ request = NoRequest
  /\ worker[t] # "none"
  /\ Allowed(t, caller)
  /\ request' = <<method, t, caller>>
  /\ UNCHANGED <<storeVars, worker, bgCtxDone, replied>>

\* TaskStore.Cancel: not found and invalid transition are error replies.
Cancel(t) ==
  /\ request # NoRequest /\ request[1] = "cancel" /\ request[2] = t
  /\ request' = NoRequest
  /\ IF status[t] = "working"
       THEN /\ bgCtxDone' = IF t \in cancelFn THEN bgCtxDone \cup {t} ELSE bgCtxDone
            /\ status' = [status EXCEPT ![t] = "cancelled"]
            /\ replied' = replied \cup {request}
       ELSE UNCHANGED <<status, bgCtxDone, replied>>
  /\ UNCHANGED <<result, owner, cancelFn, worker>>

\* TaskStore.GetResult.
GetResult(t) ==
  /\ request # NoRequest /\ request[1] = "result" /\ request[2] = t
  /\ request' = NoRequest
  /\ replied' = IF status[t] = "completed" /\ t \in result
                  THEN replied \cup {request} ELSE replied
  /\ UNCHANGED <<storeVars, worker, bgCtxDone>>

(***************************************************************************)
(* TaskStore.Delete, by the application: the entry goes, its result and    *)
(* its cancel function with it; the goroutine is not told.                 *)
(***************************************************************************)
Delete(t) ==
  /\ t \in Stored
  /\ status' = [status EXCEPT ![t] = "absent"]
  /\ result' = result \ {t}
  /\ cancelFn' = cancelFn \ {t}
  /\ UNCHANGED <<owner, worker, bgCtxDone, request, replied>>

WorkerStep(t) ==
  \/ StartWorker(t) \/ StoreCancelFunc(t) \/ Complete(t) \/ Fail(t)

ToolReturns(t) == \E how \in {"succeeded", "errored", "panicked"} : CallTool(t, how)

Next ==
  \E t \in Calls :
    \/ \E caller \in Callers : Submit(t, caller)
    \/ WorkerStep(t) \/ ToolReturns(t) \/ Timeout(t)
    \/ \E method \in Methods, caller \in Callers : CheckOwnership(method, t, caller)
    \/ Cancel(t) \/ GetResult(t) \/ Delete(t)

\* The goroutine runs, the five minutes pass, and a tool whose context has
\* ended returns; a tool with a live context may run on.
Fairness ==
  \A t \in Calls :
    /\ WF_vars(WorkerStep(t))
    /\ WF_vars(Timeout(t))
    /\ WF_vars(t \in bgCtxDone /\ ToolReturns(t))

Spec == Init /\ [][Next]_vars
FairSpec == Spec /\ Fairness

-----------------------------------------------------------------------------
(***************************************************************************)
(* Properties                                                              *)
(***************************************************************************)

\* A client that was told its task is cancelled, and a client that was handed
\* the task's result, are never clients of the same task (Cancel, Complete and
\* GetResult race on the status).
CancelledOrDelivered ==
  \A t \in Calls, a, b \in Callers :
    ~(<<"cancel", t, a>> \in replied /\ <<"result", t, b>> \in replied)

\* A tasks/cancel or tasks/result succeeds only for the session that made the
\* call, or when either side has no session id, although the owner is read
\* in one critical section and the operation done in another.
OwnerOnly ==
  \A t \in Calls, m \in Methods, a \in Sessions :
    <<m, t, a>> \in replied => owner[t] \in {a, NoSession}

\* The store never holds more tasks than WithMaxTasks allows, whatever the
\* goroutines of deleted tasks still do to it.
WithinLimit == MaxTasks > 0 => Cardinality(Stored) <= MaxTasks

\* Every goroutine exits, and no task stays "working" after it: the error,
\* panic and timeout paths each settle the task.
Settles ==
  \A t \in Calls :
    (worker[t] = "submitted") ~> (worker[t] = "exited" /\ status[t] # "working")

\* "If a cancel function was registered (e.g., from a background goroutine),
\* it is called to abort the in-flight work" (Cancel in task.go); the dispatch
\* layer stores it "so tasks/cancel can abort this goroutine": a cancelled
\* task's tool does not run on with a live context.
CancelAborts ==
  \A t \in Calls :
    status[t] = "cancelled" /\ worker[t] = "running" => t \in bgCtxDone

-----------------------------------------------------------------------------
(***************************************************************************)
(* The store implements the abstract life cycle.                           *)
(***************************************************************************)
PhaseOf(t) ==
  CASE status[t] = "absent"    -> IF worker[t] = "none" THEN "new" ELSE "forgotten"
    [] status[t] = "working"   -> "active"
    [] status[t] = "completed" -> "succeeded"
    [] OTHER                   -> status[t]

Lifecycle == INSTANCE WorkLifecycle WITH Work <- Calls, phase <- [t \in Calls |-> PhaseOf(t)]

\* Every task starts once, is decided once and never returns once deleted,
\* however its goroutine, tasks/cancel and Delete interleave.
ImplementsLifecycle == Lifecycle!Spec

-----------------------------------------------------------------------------
(***************************************************************************)
(* The inductive invariant behind the safety properties.                   *)
(***************************************************************************)

\* A stored task has had its goroutine created; a result belongs to a
\* completed task.
StoreConsistent ==
  \A t \in Calls :
    /\ worker[t] = "none" => status[t] = "absent"
    /\ t \in result => status[t] = "completed"

\* What a client was told still holds, or the task was deleted.
RepliesStand ==
  \A t \in Calls, a \in Callers :
    /\ <<"cancel", t, a>> \in replied => worker[t] # "none" /\ status[t] \in {"cancelled", "absent"}
    /\ <<"result", t, a>> \in replied => worker[t] # "none" /\ status[t] \in {"completed", "absent"}

\* The request under way passed a check that is still good, or its task is
\* gone for good.
CheckStands ==
  request # NoRequest =>
    /\ worker[request[2]] # "none"
    /\ Allowed(request[2], request[3])

IndInv ==
  /\ TypeOK /\ StoreConsistent /\ RepliesStand /\ CheckStands
  /\ CancelledOrDelivered /\ OwnerOnly

\* What carries the limit: only finitely many tasks are ever stored.
Counted == IsFiniteSet(Stored) /\ WithinLimit
=============================================================================
