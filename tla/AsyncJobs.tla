------------------------------ MODULE AsyncJobs ------------------------------
(***************************************************************************)
(* The Async middleware (middleware/async.go) and its JobStore (async.go). *)
(*                                                                         *)
(* A job stands also for the id the generator draws for it: the generator  *)
(* of one Async middleware counts, so no id is drawn twice.  (Two Async    *)
(* middlewares that share a store count separately and do draw the same    *)
(* ids; the second Submit is refused while the first job is stored.)       *)
(* The application may Cancel and Delete at any time.  A step is one       *)
(* critical section of the store.                                          *)
(***************************************************************************)
EXTENDS Naturals, FiniteSets

CONSTANT Jobs

VARIABLES
  jobStatus,   \* Job.Status, "absent" when the store has no such job
  jobWorker,   \* the background goroutine of each job
  wg,          \* the WaitGroup of the AsyncWaiter
  drained      \* AsyncWaiter.Wait has returned

jobVars == <<jobStatus, jobWorker, wg, drained>>

JobFates == {"complete", "failed", "cancelled"}

JobsTypeOK ==
  /\ jobStatus \in [Jobs -> {"absent", "pending", "running"} \cup JobFates]
  /\ jobWorker \in [Jobs -> {"none", "submitted", "started", "handling", "ok", "error",
                              "panicked", "leaving", "exited"}]
  /\ wg \in Nat /\ drained \in BOOLEAN

JobsInit ==
  /\ jobStatus = [j \in Jobs |-> "absent"]
  /\ jobWorker = [j \in Jobs |-> "none"]
  /\ wg = 0
  /\ drained = FALSE

WorkerAt(j, place) == jobWorker' = [jobWorker EXCEPT ![j] = place]

SubmitJob(j) ==
  /\ jobWorker[j] = "none"
  /\ jobStatus' = [jobStatus EXCEPT ![j] = "pending"]
  /\ WorkerAt(j, "submitted")
  /\ UNCHANGED <<wg, drained>>

\* wg.Add(1) and the go statement; the caller is answered with the id.
LaunchJob(j) ==
  /\ jobWorker[j] = "submitted"
  /\ wg' = wg + 1
  /\ WorkerAt(j, "started")
  /\ UNCHANGED <<jobStatus, drained>>

\* Mutated form: a job that is not pending runs all the same.
MarkRunning_Unchecked(j) ==
  /\ jobWorker[j] = "started"
  /\ IF jobStatus[j] # "absent"
       THEN jobStatus' = [jobStatus EXCEPT ![j] = "running"] /\ WorkerAt(j, "handling")
       ELSE UNCHANGED jobStatus /\ WorkerAt(j, "leaving")
  /\ UNCHANGED <<wg, drained>>

\* A job cancelled or deleted meanwhile never runs.
MarkRunning(j) ==
  /\ jobWorker[j] = "started"
  /\ IF jobStatus[j] = "pending"
       THEN jobStatus' = [jobStatus EXCEPT ![j] = "running"] /\ WorkerAt(j, "handling")
       ELSE UNCHANGED jobStatus /\ WorkerAt(j, "leaving")
  /\ UNCHANGED <<wg, drained>>

\* The handler, on a context the request's end does not cancel.
JobHandled(j, how) ==
  /\ jobWorker[j] = "handling"
  /\ WorkerAt(j, how)
  /\ UNCHANGED <<jobStatus, wg, drained>>

\* Complete, refused unless the job is running.
CompleteJob(j) ==
  /\ jobWorker[j] = "ok"
  /\ jobStatus' = [jobStatus EXCEPT ![j] = IF @ = "running" THEN "complete" ELSE @]
  /\ WorkerAt(j, "leaving")
  /\ UNCHANGED <<wg, drained>>

\* Mutated form: a panic of the handler is swallowed.
FailJob_PanicLost(j) ==
  /\ jobWorker[j] \in {"error", "panicked"}
  /\ jobStatus' = [jobStatus EXCEPT ![j] =
                     IF @ = "running" /\ jobWorker[j] = "error" THEN "failed" ELSE @]
  /\ WorkerAt(j, "leaving")
  /\ UNCHANGED <<wg, drained>>

\* Fail, from the error path or from the recover.
FailJob(j) ==
  /\ jobWorker[j] \in {"error", "panicked"}
  /\ jobStatus' = [jobStatus EXCEPT ![j] = IF @ = "running" THEN "failed" ELSE @]
  /\ WorkerAt(j, "leaving")
  /\ UNCHANGED <<wg, drained>>

\* The deferred wg.Done.
WorkerDone(j) ==
  /\ jobWorker[j] = "leaving"
  /\ wg' = wg - 1
  /\ WorkerAt(j, "exited")
  /\ UNCHANGED <<jobStatus, drained>>

CancelJob(j) ==
  /\ jobStatus[j] \in {"pending", "running"}
  /\ jobStatus' = [jobStatus EXCEPT ![j] = "cancelled"]
  /\ UNCHANGED <<jobWorker, wg, drained>>

DeleteJob(j) ==
  /\ jobStatus[j] # "absent"
  /\ jobStatus' = [jobStatus EXCEPT ![j] = "absent"]
  /\ UNCHANGED <<jobWorker, wg, drained>>

\* AsyncWaiter.Wait comes back.
WaitReturns ==
  /\ wg = 0 /\ ~drained
  /\ drained' = TRUE
  /\ UNCHANGED <<jobStatus, jobWorker, wg>>

JobsNext ==
  \/ \E j \in Jobs :
       \/ SubmitJob(j) \/ LaunchJob(j) \/ MarkRunning(j) \/ CompleteJob(j) \/ FailJob(j)
       \/ WorkerDone(j) \/ CancelJob(j) \/ DeleteJob(j)
       \/ \E how \in {"ok", "error", "panicked"} : JobHandled(j, how)
  \/ WaitReturns

JobsSpec == JobsInit /\ [][JobsNext]_jobVars

-----------------------------------------------------------------------------
JobPhase(j) ==
  CASE jobStatus[j] = "absent" -> IF jobWorker[j] = "none" THEN "new" ELSE "forgotten"
    [] jobStatus[j] \in {"pending", "running"} -> "active"
    [] jobStatus[j] = "complete" -> "succeeded"
    [] OTHER -> jobStatus[j]

JobLifecycle ==
  INSTANCE WorkLifecycle WITH Work <- Jobs, phase <- [j \in Jobs |-> JobPhase(j)]

\* Jobs keep the promise task-augmented calls keep: each starts once, is decided
\* once and does not come back once deleted, however the goroutine, Cancel and
\* Delete interleave.
JobsImplementLifecycle == JobLifecycle!Spec

\* When the goroutine of a job has left the WaitGroup, the job is decided or
\* deleted: AsyncWaiter.Wait ends with no job half done that it waited for.
NoJobLeftRunning ==
  \A j \in Jobs : jobWorker[j] = "exited" => jobStatus[j] \in JobFates \cup {"absent"}

-----------------------------------------------------------------------------
(***************************************************************************)
(* The inductive invariant behind the two.                                 *)
(***************************************************************************)

\* What a goroutine may find in the store, by where it is.
WorkerKnows ==
  \A j \in Jobs :
    /\ jobWorker[j] = "none" => jobStatus[j] = "absent"
    /\ jobWorker[j] \in {"submitted", "started"} =>
         jobStatus[j] \in {"pending", "cancelled", "absent"}
    /\ jobWorker[j] \in {"handling", "ok", "error", "panicked"} =>
         jobStatus[j] \in {"running", "cancelled", "absent"}
    /\ jobWorker[j] \in {"leaving", "exited"} => jobStatus[j] \in JobFates \cup {"absent"}

Counted == {j \in Jobs : jobWorker[j] \notin {"none", "submitted", "exited"}}

\* The WaitGroup counts the goroutines between wg.Add and wg.Done.
WaitGroupExact == IsFiniteSet(Counted) /\ wg = Cardinality(Counted)

JobsInv == JobsTypeOK /\ WorkerKnows /\ WaitGroupExact
=============================================================================
