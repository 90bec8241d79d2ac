-------------------------- MODULE MiddlewareProofs --------------------------
(***************************************************************************)
(* Proofs about the middlewares: the background jobs, the chain around a   *)
(* tool call and the cache, for any callers, jobs, keys and limits.        *)
(***************************************************************************)
EXTENDS ToolChain, ToolCache, AsyncJobs, FiniteSetTheorems, TLAPS

(***************************************************************************)
(* AsyncJobs                                                               *)
(***************************************************************************)

\* A goroutine that starts counts one up in the WaitGroup, one that leaves
\* counts one down, and no other step touches it.
LEMMA WaitGroupStep ==
  ASSUME JobsInv, JobsNext
  PROVE  WaitGroupExact' /\ wg' \in Nat
<1> USE DEF JobsInv, JobsTypeOK, WaitGroupExact, WorkerAt
<1>1. ASSUME NEW j \in Jobs, LaunchJob(j) PROVE WaitGroupExact' /\ wg' \in Nat
  <2>1. Counted' = Counted \cup {j} /\ j \notin Counted
    BY <1>1 DEF LaunchJob, Counted
  <2> QED
    BY <1>1, <2>1, FS_AddElement DEF LaunchJob
<1>2. ASSUME NEW j \in Jobs, WorkerDone(j) PROVE WaitGroupExact' /\ wg' \in Nat
  <2>1. Counted' = Counted \ {j} /\ j \in Counted
    BY <1>2 DEF WorkerDone, Counted
  <2>2. Cardinality(Counted') = Cardinality(Counted) - 1 /\ IsFiniteSet(Counted')
    BY <2>1, FS_RemoveElement
  <2>3. Cardinality(Counted') \in Nat
    BY <2>2, FS_CardinalityType
  <2> QED
    BY <1>2, <2>2, <2>3 DEF WorkerDone
<1>3. ASSUME Counted' = Counted, wg' = wg PROVE WaitGroupExact' /\ wg' \in Nat
  BY <1>3
<1>4. ASSUME NEW j \in Jobs,
             \/ SubmitJob(j) \/ MarkRunning(j) \/ CompleteJob(j) \/ FailJob(j)
             \/ \E how \in {"ok", "error", "panicked"} : JobHandled(j, how)
      PROVE  Counted' = Counted /\ wg' = wg
  <2>1. \A i \in Jobs : i \in Counted' <=> i \in Counted
    BY <1>4 DEF SubmitJob, MarkRunning, CompleteJob, FailJob, JobHandled, Counted
  <2> QED
    BY <1>4, <2>1 DEF SubmitJob, MarkRunning, CompleteJob, FailJob, JobHandled, Counted
<1>5. ASSUME \/ \E j \in Jobs : CancelJob(j) \/ DeleteJob(j)
             \/ WaitReturns
      PROVE  Counted' = Counted /\ wg' = wg
  BY <1>5 DEF CancelJob, DeleteJob, WaitReturns, Counted
<1> QED
  BY <1>1, <1>2, <1>3, <1>4, <1>5 DEF JobsNext

\* Every step of a goroutine, of a caller of Cancel or Delete and of Wait keeps
\* what the goroutines know of the store.
LEMMA JobsStep ==
  ASSUME JobsInv, JobsNext
  PROVE  JobsInv'
<1>1. WaitGroupExact' /\ wg' \in Nat
  BY WaitGroupStep
<1> USE DEF JobsInv, JobsTypeOK, WorkerKnows, JobFates, WorkerAt
<1>2. ASSUME NEW j \in Jobs, SubmitJob(j) \/ LaunchJob(j) \/ MarkRunning(j) PROVE JobsInv'
  BY <1>1, <1>2 DEF SubmitJob, LaunchJob, MarkRunning
<1>3. ASSUME NEW j \in Jobs, NEW how \in {"ok", "error", "panicked"}, JobHandled(j, how)
      PROVE  JobsInv'
  BY <1>1, <1>3 DEF JobHandled
<1>4. ASSUME NEW j \in Jobs, CompleteJob(j) \/ FailJob(j) \/ WorkerDone(j) PROVE JobsInv'
  BY <1>1, <1>4 DEF CompleteJob, FailJob, WorkerDone
<1>5. ASSUME NEW j \in Jobs, CancelJob(j) \/ DeleteJob(j) PROVE JobsInv'
  BY <1>1, <1>5 DEF CancelJob, DeleteJob
<1>6. ASSUME WaitReturns PROVE JobsInv'
  BY <1>1, <1>6 DEF WaitReturns
<1> QED
  BY <1>2, <1>3, <1>4, <1>5, <1>6 DEF JobsNext

\* The status of a job, the place of its goroutine and the WaitGroup always fit
\* together.
THEOREM JobsInvariance == JobsSpec => []JobsInv
<1>1. JobsInit => JobsInv
  <2>1. JobsInit => Counted = {}
    BY DEF JobsInit, Counted
  <2>2. JobsInit => WaitGroupExact
    BY <2>1, FS_EmptySet DEF JobsInit, WaitGroupExact
  <2>3. JobsInit => JobsTypeOK
    <3> SUFFICES ASSUME JobsInit PROVE JobsTypeOK
      OBVIOUS
    <3>1. drained \in BOOLEAN
      BY Zenon DEF JobsInit
    <3> QED
      BY <3>1 DEF JobsInit, JobsTypeOK
  <2>4. JobsInit => WorkerKnows
    BY DEF JobsInit, WorkerKnows
  <2> QED
    BY <2>2, <2>3, <2>4 DEF JobsInv
<1>2. JobsInv /\ [JobsNext]_jobVars => JobsInv'
  <2>1. JobsInv /\ UNCHANGED jobVars => JobsInv'
    BY DEF jobVars, JobsInv, JobsTypeOK, WorkerKnows, WaitGroupExact, Counted
  <2> QED
    BY <2>1, JobsStep
<1> QED
  BY <1>1, <1>2, PTL DEF JobsSpec

\* When Wait returns, no job it waited for is pending or running.
THEOREM JobsAreSettled == JobsSpec => []NoJobLeftRunning
<1>1. JobsInv => NoJobLeftRunning
  BY DEF JobsInv, WorkerKnows, NoJobLeftRunning
<1> QED
  BY <1>1, JobsInvariance, PTL

\* A step of the jobs is a step of the lifecycle or none.
LEMMA JobsStepRefines ==
  ASSUME JobsInv, [JobsNext]_jobVars
  PROVE  [JobLifecycle!Next]_[j \in Jobs |-> JobPhase(j)]
<1> DEFINE phase == [j \in Jobs |-> JobPhase(j)]
<1> USE DEF JobsInv, JobsTypeOK, WorkerKnows, JobFates, WorkerAt
<1>1. ASSUME \A j \in Jobs : JobPhase(j)' = JobPhase(j) PROVE phase' = phase
  BY <1>1
<1>2. ASSUME NEW j \in Jobs, \A i \in Jobs : i # j => JobPhase(i)' = JobPhase(i)
      PROVE  phase' = [phase EXCEPT ![j] = JobPhase(j)']
  BY <1>2
<1>3. CASE UNCHANGED jobVars
  BY <1>1, <1>3 DEF jobVars, JobPhase
<1>4. ASSUME NEW j \in Jobs, SubmitJob(j) PROVE JobLifecycle!Start(j)
  <2>1. phase' = [phase EXCEPT ![j] = "active"] /\ phase[j] = "new"
    BY <1>2, <1>4 DEF SubmitJob, JobPhase
  <2> QED
    BY <2>1 DEF JobLifecycle!Start
<1>5. ASSUME NEW j \in Jobs,
             \/ LaunchJob(j) \/ MarkRunning(j) \/ WorkerDone(j)
             \/ \E how \in {"ok", "error", "panicked"} : JobHandled(j, how)
      PROVE  phase' = phase
  <2>1. \A i \in Jobs : JobPhase(i)' = JobPhase(i)
    BY <1>5 DEF LaunchJob, MarkRunning, WorkerDone, JobHandled, JobPhase
  <2> QED
    BY <1>1, <2>1
<1>6. ASSUME NEW j \in Jobs, CompleteJob(j) \/ FailJob(j) \/ CancelJob(j)
      PROVE  phase' = phase \/ \E fate \in JobLifecycle!Fates : JobLifecycle!Decide(j, fate)
  <2>1. \A i \in Jobs : i # j => JobPhase(i)' = JobPhase(i)
    BY <1>6 DEF CompleteJob, FailJob, CancelJob, JobPhase
  <2>2. \/ JobPhase(j)' = JobPhase(j)
        \/ JobPhase(j) = "active" /\ JobPhase(j)' \in {"succeeded", "failed", "cancelled"}
    BY <1>6 DEF CompleteJob, FailJob, CancelJob, JobPhase
  <2> QED
    BY <1>1, <1>2, <2>1, <2>2 DEF JobLifecycle!Decide, JobLifecycle!Fates
<1>7. ASSUME NEW j \in Jobs, DeleteJob(j) PROVE JobLifecycle!Forget(j)
  <2>1. phase' = [phase EXCEPT ![j] = "forgotten"]
    BY <1>2, <1>7 DEF DeleteJob, JobPhase
  <2>2. phase[j] \in {"active", "succeeded", "failed", "cancelled"}
    BY <1>7 DEF DeleteJob, JobPhase
  <2> QED
    BY <2>1, <2>2 DEF JobLifecycle!Forget, JobLifecycle!Fates
<1>8. ASSUME WaitReturns PROVE phase' = phase
  BY <1>1, <1>8 DEF WaitReturns, JobPhase
<1>9. ASSUME NEW j \in Jobs, DeleteJob(j) \/ SubmitJob(j) PROVE JobLifecycle!Next
  BY <1>4, <1>7, <1>9 DEF JobLifecycle!Next
<1>10. ASSUME NEW j \in Jobs, CompleteJob(j) \/ FailJob(j) \/ CancelJob(j)
       PROVE  phase' = phase \/ JobLifecycle!Next
  BY <1>6, <1>10 DEF JobLifecycle!Next
<1> HIDE DEF phase
<1>11. CASE JobsNext
  <2>1. phase' = phase \/ JobLifecycle!Next
    BY <1>5, <1>8, <1>9, <1>10, <1>11, Zenon DEF JobsNext
  <2> QED
    BY <2>1 DEF phase
<1> QED
  BY <1>3, <1>11 DEF phase

\* Jobs implement the lifecycle that task-augmented calls implement: each is
\* started once, decided once and never back after a delete.
THEOREM JobsRefineLifecycle == JobsSpec => JobsImplementLifecycle
<1>1. JobsInit => JobLifecycle!Init
  BY DEF JobsInit, JobLifecycle!Init, JobPhase
<1>2. JobsInv /\ [JobsNext]_jobVars => [JobLifecycle!Next]_[j \in Jobs |-> JobPhase(j)]
  BY JobsStepRefines
<1> QED
  BY <1>1, <1>2, JobsInvariance, PTL DEF JobsSpec, JobsImplementLifecycle, JobLifecycle!Spec

(***************************************************************************)
(* CircuitBreaker and ToolChain                                            *)
(***************************************************************************)

\* A transition starts a period with no probes.
LEMMA TransitionStarts ==
  ASSUME NEW b \in BreakerType, NEW to \in BreakerStates
  PROVE  /\ TransitionLocked(b, to) \in BreakerType
         /\ TransitionLocked(b, to).state = to /\ TransitionLocked(b, to).halfOpenCount = 0
<1> DEFINE t1 == [b EXCEPT !.state = to]
           t2 == [t1 EXCEPT !.successes = 0]
           t3 == [t2 EXCEPT !.halfOpenCount = 0]
           t4 == [t3 EXCEPT !.failures = IF to = "closed" THEN 0 ELSE @]
<1>1. TransitionLocked(b, to) = t4
  BY DEF TransitionLocked, BreakerType
<1>2. t1 \in BreakerType /\ t1.state = to
  BY DEF BreakerType
<1> HIDE DEF t1
<1>3. t2 \in BreakerType /\ t2.state = to
  BY <1>2, BreakerAssumption DEF BreakerType
<1> HIDE DEF t2
<1>4. t3 \in BreakerType /\ t3.state = to /\ t3.halfOpenCount = 0
  BY <1>3 DEF BreakerType
<1> HIDE DEF t3
<1>5. t4 \in BreakerType /\ t4.state = to /\ t4.halfOpenCount = 0
  BY <1>4, BreakerAssumption DEF BreakerType
<1> QED
  BY <1>1, <1>5

\* Time does not change what a breaker admits.
LEMMA AgedKeeps ==
  ASSUME NEW b \in BreakerType
  PROVE  /\ Aged(b) \in BreakerType
         /\ Aged(b).state = b.state /\ Aged(b).halfOpenCount = b.halfOpenCount
BY BreakerAssumption DEF Aged, BreakerType

\* What beforeCall leaves: an admitted probe is counted, in the period it is
\* admitted to, and a refused call counts nothing.
LEMMA BeforeCallCounts ==
  ASSUME NEW b \in BreakerType
  PROVE  /\ BeforeCall(b) \in BreakerType
         /\ ~Admits(b) /\ BeforeCall(b).state = "half-open" =>
              b.state = "half-open" /\ BeforeCall(b).halfOpenCount = b.halfOpenCount
         /\ Admits(b) /\ BeforeCall(b).state = "half-open" =>
              BeforeCall(b).halfOpenCount =
                (IF b.state = "half-open" THEN b.halfOpenCount ELSE 0) + 1
<1> DEFINE m == MaybeTransitionToHalfOpen(b)
<1>1. /\ m \in BreakerType
      /\ m.state = "half-open" =>
           \/ b.state = "half-open" /\ m.halfOpenCount = b.halfOpenCount
           \/ b.state = "open" /\ m.halfOpenCount = 0
  <2>1. "half-open" \in BreakerStates
    BY DEF BreakerStates
  <2> QED
    BY <2>1, TransitionStarts DEF MaybeTransitionToHalfOpen
<1>2. Admits(b) <=> m.state = "closed" \/ (m.state = "half-open" /\ m.halfOpenCount < MaxHalfOpen)
  BY DEF Admits
<1>3. BeforeCall(b) = IF m.state = "half-open" /\ Admits(b)
                        THEN [m EXCEPT !.halfOpenCount = @ + 1] ELSE m
  BY DEF BeforeCall
<1> HIDE DEF m
<1>4. CASE m.state = "half-open" /\ Admits(b)
  <2>1. /\ BeforeCall(b) \in BreakerType /\ BeforeCall(b).state = "half-open"
        /\ BeforeCall(b).halfOpenCount = m.halfOpenCount + 1
    BY <1>1, <1>3, <1>4 DEF BreakerType
  <2> QED
    BY <1>1, <1>4, <2>1
<1>5. CASE ~(m.state = "half-open" /\ Admits(b))
  BY <1>1, <1>2, <1>3, <1>5, BreakerAssumption
<1> QED
  BY <1>4, <1>5

\* afterCall of a call admitted while closed gives back no probe's slot.
LEMMA AfterClosedCallCounts ==
  ASSUME NEW b \in BreakerType, NEW failed \in BOOLEAN
  PROVE  /\ AfterClosedCall(b, failed) \in BreakerType
         /\ AfterClosedCall(b, failed).state = "half-open" =>
              /\ b.state = "half-open"
              /\ AfterClosedCall(b, failed).halfOpenCount = b.halfOpenCount
<1> DEFINE counted == [b EXCEPT !.failures = IF @ < FailureThreshold THEN @ + 1 ELSE @]
           stamped == [counted EXCEPT !.age = 0]
<1>1. CASE ~failed
  BY <1>1, BreakerAssumption DEF AfterClosedCall, BreakerType
<1>2. CASE failed
  <2>1. /\ counted \in BreakerType /\ counted.state = b.state
        /\ counted.halfOpenCount = b.halfOpenCount
    BY BreakerAssumption DEF BreakerType
  <2> HIDE DEF counted
  <2>2. stamped \in BreakerType
    BY <2>1, BreakerAssumption DEF BreakerType
  <2>3. AfterClosedCall(b, failed) = IF counted.failures >= FailureThreshold
                                       THEN TransitionLocked(stamped, "open") ELSE counted
    BY <1>2 DEF AfterClosedCall, counted
  <2> HIDE DEF stamped
  <2>4. "open" \in BreakerStates
    BY DEF BreakerStates
  <2> QED
    BY <2>1, <2>2, <2>3, <2>4, TransitionStarts
<1> QED
  BY <1>1, <1>2

\* afterCall of a probe gives its slot back, or ends the period.
LEMMA AfterProbeCounts ==
  ASSUME NEW b \in BreakerType, NEW failed \in BOOLEAN
  PROVE  /\ AfterProbe(b, failed) \in BreakerType
         /\ AfterProbe(b, failed).state = "half-open" =>
              /\ b.state = "half-open"
              /\ AfterProbe(b, failed).halfOpenCount = b.halfOpenCount - 1
<1> DEFINE freed  == IF b.state = "half-open" THEN [b EXCEPT !.halfOpenCount = @ - 1] ELSE b
           marked == [freed EXCEPT !.age = 0, !.successes = 0]
           scored == [freed EXCEPT !.successes = IF @ < SuccessThreshold THEN @ + 1 ELSE @]
<1>1. /\ freed \in BreakerType /\ freed.state = b.state
      /\ b.state = "half-open" => freed.halfOpenCount = b.halfOpenCount - 1
  BY DEF BreakerType
<1>2. AfterProbe(b, failed) =
        CASE failed /\ b.state = "half-open" -> TransitionLocked(marked, "open")
          [] failed /\ b.state # "half-open" -> marked
          [] ~failed /\ b.state # "half-open" -> freed
          [] OTHER -> IF scored.successes >= SuccessThreshold /\ scored.halfOpenCount = 0
                        THEN TransitionLocked(scored, "closed") ELSE scored
  BY DEF AfterProbe
<1> HIDE DEF freed
<1>3. marked \in BreakerType /\ marked.state = freed.state
  <2> DEFINE stamped == [freed EXCEPT !.age = 0]
  <2>1. marked = [stamped EXCEPT !.successes = 0]
    BY <1>1 DEF BreakerType
  <2>2. stamped \in BreakerType /\ stamped.state = freed.state
    BY <1>1, BreakerAssumption DEF BreakerType
  <2> HIDE DEF stamped, marked
  <2> QED
    BY <2>1, <2>2, BreakerAssumption DEF BreakerType
<1>4. /\ scored \in BreakerType /\ scored.state = freed.state
      /\ scored.halfOpenCount = freed.halfOpenCount
  BY <1>1, BreakerAssumption DEF BreakerType
<1> HIDE DEF marked, scored
<1>5. "open" \in BreakerStates /\ "closed" \in BreakerStates
  BY DEF BreakerStates
<1> QED
  BY <1>1, <1>2, <1>3, <1>4, <1>5, TransitionStarts

\* A step of the chain that leaves the breaker and the probes alone.
LEMMA ProbesUntouched ==
  ASSUME ChainInv, breaker' = breaker,
         \A c \in Callers :
           (at'[c] = "waiting" /\ admitted'[c] = "half-open")
             <=> (at[c] = "waiting" /\ admitted[c] = "half-open")
  PROVE  IsFiniteSet(Probes)' /\ NoSlotLeak'
<1>1. Probes' = Probes
  BY DEF Probes
<1> QED
  BY <1>1 DEF ChainInv, NoSlotLeak

\* Every step of a call, of time and of a handler keeps the count of probes
\* within the probes in flight.
LEMMA ChainStep ==
  ASSUME ChainInv, ChainNext
  PROVE  ChainInv'
<1> USE BreakerAssumption, ChainAssumption DEF ChainInv, ChainTypeOK
<1>1. CASE Tick
  <2>1. breaker' \in BreakerType /\ breaker'.state = breaker.state
        /\ breaker'.halfOpenCount = breaker.halfOpenCount
    BY <1>1, AgedKeeps DEF Tick
  <2>2. Probes' = Probes
    BY <1>1 DEF Tick, Probes
  <2> QED
    BY <1>1, <2>1, <2>2 DEF Tick, NoSlotLeak
<1>2. ASSUME NEW c \in Callers, CallArrives(c) \/ RetryOrReturn(c) PROVE ChainInv'
  <2>1. ChainTypeOK' /\ breaker' = breaker /\ admitted' = admitted
    BY <1>2 DEF CallArrives, RetryOrReturn
  <2>2. \A d \in Callers : at'[d] = "waiting" <=> at[d] = "waiting"
    BY <1>2 DEF CallArrives, RetryOrReturn
  <2> QED
    BY <2>1, <2>2, ProbesUntouched
<1>3. ASSUME NEW c \in Callers,
             \/ CallerCancels(c) \/ DeadlinePasses(c) \/ HandlerPanics(c)
             \/ \E how \in {"ok", "error"} : HandlerReturns(c, how)
      PROVE  ChainInv'
  <2>1. ChainTypeOK' /\ breaker' = breaker /\ at' = at /\ admitted' = admitted
    BY <1>3 DEF CallerCancels, DeadlinePasses, HandlerPanics, HandlerReturns
  <2> QED
    BY <2>1, ProbesUntouched
<1>4. ASSUME NEW c \in Callers, Rejected(c) PROVE ChainInv'
  <2>1. /\ breaker' \in BreakerType
        /\ breaker'.state = "half-open" =>
             breaker.state = "half-open" /\ breaker'.halfOpenCount = breaker.halfOpenCount
    BY <1>4, BeforeCallCounts DEF Rejected
  <2>2. Probes' = Probes
    BY <1>4 DEF Rejected, Probes
  <2> QED
    BY <1>4, <2>1, <2>2 DEF Rejected, NoSlotLeak
<1>5. ASSUME NEW c \in Callers, Admitted(c) PROVE ChainInv'
  <2>1. /\ breaker' \in BreakerType
        /\ breaker'.state = "half-open" =>
             breaker'.halfOpenCount =
               (IF breaker.state = "half-open" THEN breaker.halfOpenCount ELSE 0) + 1
    BY <1>5, BeforeCallCounts DEF Admitted
  <2>2. breaker'.state \in BreakerStates /\ breaker.halfOpenCount \in Int
    BY <2>1 DEF BreakerType
  <2>3. ChainTypeOK'
    BY <1>5, <2>1, <2>2 DEF Admitted
  <2>4. /\ c \notin Probes
        /\ Probes' = IF breaker'.state = "half-open" THEN Probes \cup {c} ELSE Probes
    BY <1>5, <2>2 DEF Admitted, Probes
  <2>5. /\ IsFiniteSet(Probes \cup {c}) /\ Cardinality(Probes \cup {c}) = Cardinality(Probes) + 1
        /\ Cardinality(Probes) \in Nat
    BY <2>4, FS_AddElement, FS_CardinalityType
  <2> QED
    BY <2>1, <2>2, <2>3, <2>4, <2>5 DEF NoSlotLeak
<1>6. ASSUME NEW c \in Callers, NEW failed \in BOOLEAN, at[c] = "waiting", Leave(c, failed)
      PROVE  ChainInv'
  <2>1. breaker' = AfterCall(breaker, admitted[c], failed)
    BY <1>6 DEF Leave
  <2>2. /\ breaker' \in BreakerType
        /\ breaker'.state = "half-open" =>
             /\ breaker.state = "half-open"
             /\ breaker'.halfOpenCount =
                  breaker.halfOpenCount - (IF admitted[c] = "closed" THEN 0 ELSE 1)
    <3>1. breaker.halfOpenCount \in Int
      BY DEF BreakerType
    <3> QED
      BY <2>1, <3>1, AfterClosedCallCounts, AfterProbeCounts DEF AfterCall
  <2>3. ChainTypeOK'
    BY <1>6, <2>2 DEF Leave
  <2>4. Probes' = Probes \ {c}
    BY <1>6 DEF Leave, Probes
  <2>5. c \in Probes => admitted[c] = "half-open"
    BY DEF Probes
  <2>6. /\ IsFiniteSet(Probes \ {c}) /\ Cardinality(Probes) \in Nat
        /\ Cardinality(Probes \ {c}) =
             IF c \in Probes THEN Cardinality(Probes) - 1 ELSE Cardinality(Probes)
    <3>1. c \notin Probes => Probes \ {c} = Probes
      OBVIOUS
    <3> QED
      BY <3>1, FS_RemoveElement, FS_CardinalityType
  <2>7. breaker.halfOpenCount \in Int /\ breaker'.halfOpenCount \in Int
    BY <2>2 DEF BreakerType
  <2> QED
    BY <2>2, <2>3, <2>4, <2>5, <2>6, <2>7 DEF NoSlotLeak
<1>7. ASSUME NEW c \in Callers, ResultArrives(c) \/ ContextEnds(c) PROVE ChainInv'
  <2>1. (handler[c] = "error" \/ c \in deadline) \in BOOLEAN /\ TRUE \in BOOLEAN
    OBVIOUS
  <2> HIDE DEF ChainInv
  <2> QED
    BY <1>6, <1>7, <2>1 DEF ResultArrives, ContextEnds
<1> HIDE DEF ChainInv
<1> QED
  BY <1>1, <1>2, <1>3, <1>4, <1>5, <1>7 DEF ChainNext, CallProceeds

\* The breaker's record is well formed and its count of probes is within the
\* probes in flight.
THEOREM ChainInvariance == ChainSpec => []ChainInv
<1>1. ChainInit => ChainInv
  <2> SUFFICES ASSUME ChainInit PROVE ChainInv
    OBVIOUS
  <2>1. Probes = {}
    BY DEF ChainInit, Probes
  <2>2. IsFiniteSet(Probes)
    BY <2>1, FS_EmptySet
  <2>3. breaker \in BreakerType /\ breaker.state = "closed"
    BY BreakerAssumption DEF ChainInit, NewBreaker, BreakerType, BreakerStates
  <2> QED
    BY <2>2, <2>3, ChainAssumption DEF ChainInit, ChainInv, ChainTypeOK, NoSlotLeak, BreakerStates
<1>2. ChainInv /\ [ChainNext]_chainVars => ChainInv'
  <2>1. ChainInv /\ UNCHANGED chainVars => ChainInv'
    BY DEF chainVars, ChainInv, ChainTypeOK, NoSlotLeak, Probes
  <2> QED
    BY <2>1, ChainStep
<1> QED
  BY <1>1, <1>2, PTL DEF ChainSpec

\* A half-open breaker never counts more probes than are in flight, for any
\* number of callers, any thresholds and any order of their calls' ends.
THEOREM ChainLeaksNoSlot == ChainSpec => []NoSlotLeak
<1>1. ChainInv => NoSlotLeak
  BY DEF ChainInv
<1> QED
  BY <1>1, ChainInvariance, PTL

(***************************************************************************)
(* ToolCache                                                               *)
(***************************************************************************)

\* What a sequence is after one of its elements is taken out.
LEMMA RemoveAtProperties ==
  ASSUME NEW S, NEW s \in Seq(S), NEW i \in 1..Len(s)
  PROVE  /\ RemoveAt(s, i) \in Seq(S)
         /\ Len(RemoveAt(s, i)) = Len(s) - 1
         /\ \A j \in 1..(Len(s) - 1) : RemoveAt(s, i)[j] = IF j < i THEN s[j] ELSE s[j + 1]
<1> DEFINE front == SubSeq(s, 1, i - 1)
           back  == SubSeq(s, i + 1, Len(s))
<1>1. front \in Seq(S) /\ Len(front) = i - 1 /\ \A j \in 1..(i - 1) : front[j] = s[j]
  OBVIOUS
<1>2. /\ back \in Seq(S) /\ Len(back) = Len(s) - i
      /\ \A j \in 1..(Len(s) - i) : back[j] = s[i + j]
  OBVIOUS
<1>3. RemoveAt(s, i) = front \o back
  BY DEF RemoveAt
<1> HIDE DEF front, back
<1>4. RemoveAt(s, i) \in Seq(S) /\ Len(RemoveAt(s, i)) = Len(s) - 1
  BY <1>1, <1>2, <1>3
<1>5. ASSUME NEW j \in 1..(Len(s) - 1)
      PROVE  RemoveAt(s, i)[j] = IF j < i THEN s[j] ELSE s[j + 1]
  <2>1. CASE j < i
    BY <1>1, <1>2, <1>3, <2>1
  <2>2. CASE j >= i
    <3>1. (front \o back)[j] = back[j - (i - 1)] /\ j - (i - 1) \in 1..(Len(s) - i)
      BY <1>1, <1>2, <2>2
    <3> QED
      BY <1>2, <1>3, <2>2, <3>1
  <2> QED
    BY <2>1, <2>2
<1> QED
  BY <1>4, <1>5

\* What a sequence is without its last element.
LEMMA FrontProperties ==
  ASSUME NEW S, NEW s \in Seq(S), Len(s) >= 1
  PROVE  /\ Front(s) \in Seq(S) /\ Len(Front(s)) = Len(s) - 1
         /\ \A j \in 1..(Len(s) - 1) : Front(s)[j] = s[j]
<1> DEFINE n == Len(s) - 1
<1>1. n \in 0..Len(s)
  OBVIOUS
<1> HIDE DEF n
<1>2. /\ SubSeq(s, 1, n) \in Seq(S) /\ Len(SubSeq(s, 1, n)) = n
      /\ \A j \in 1..n : SubSeq(s, 1, n)[j] = s[j]
  BY <1>1
<1> QED
  BY <1>2 DEF Front, n

\* A list of entries with one for each key.
OneEach(s) == \A i, j \in 1..Len(s) : s[i].key = s[j].key => i = j

\* A list without the entry of k: shorter if there was one, its entries all from
\* the list, of other keys and still one for each.
LEMMA WithoutProperties ==
  ASSUME ToolCacheInv, NEW k \in Keys
  PROVE  /\ Without(k) \in Seq(Entries)
         /\ Len(Without(k)) = IF Has(k) THEN Len(order) - 1 ELSE Len(order)
         /\ \A j \in 1..Len(Without(k)) :
              /\ \E i \in 1..Len(order) : Without(k)[j] = order[i]
              /\ Without(k)[j].key # k
         /\ OneEach(Without(k))
<1> USE DEF ToolCacheInv, ToolCacheTypeOK
<1>1. order \in Seq(Entries) /\ DOMAIN order = 1..Len(order) /\ Len(order) \in Nat
  OBVIOUS
<1>2. \A i, j \in 1..Len(order) : order[i].key = order[j].key => i = j
  BY <1>1 DEF EntriesSound, LRUSound
<1> USE DEF OneEach
<1>3. CASE ~Has(k)
  BY <1>1, <1>2, <1>3 DEF Without, Has
<1>4. CASE Has(k)
  <2>1. Items(k) \in 1..Len(order) /\ order[Items(k)].key = k
    BY <1>1, <1>4 DEF Has, Items
  <2>2. Without(k) = RemoveAt(order, Items(k))
    BY <1>4 DEF Without
  <2> DEFINE n == Items(k)
             w == Without(k)
  <2> HIDE DEF n, w
  <2>4. n \in 1..Len(order) /\ order[n].key = k /\ w = RemoveAt(order, n)
    BY <2>1, <2>2 DEF n, w
  <2>3. /\ w \in Seq(Entries) /\ Len(w) = Len(order) - 1
        /\ \A j \in 1..(Len(order) - 1) : w[j] = IF j < n THEN order[j] ELSE order[j + 1]
    BY <1>1, <2>4, RemoveAtProperties, Zenon
  <2>5. ASSUME NEW j \in 1..Len(w)
        PROVE  (\E i \in 1..Len(order) : w[j] = order[i]) /\ w[j].key # k
    BY <1>1, <1>2, <2>3, <2>4, <2>5
  <2>6. ASSUME NEW h \in 1..Len(w), NEW j \in 1..Len(w), w[h].key = w[j].key
        PROVE  h = j
    BY <1>1, <1>2, <2>3, <2>4, <2>6
  <2> QED
    BY <1>4, <2>3, <2>5, <2>6 DEF w
<1> QED
  BY <1>3, <1>4

\* An entry that is put in front of a list that has none for its key.
LEMMA PutInFront ==
  ASSUME NEW s \in Seq(Entries), OneEach(s), NEW e \in Entries,
         \A i \in 1..Len(s) : s[i].key # e.key
  PROVE  /\ <<e>> \o s \in Seq(Entries) /\ Len(<<e>> \o s) = Len(s) + 1
         /\ OneEach(<<e>> \o s)
         /\ \A i \in 1..Len(<<e>> \o s) :
              (<<e>> \o s)[i] = e \/ \E j \in 1..Len(s) : (<<e>> \o s)[i] = s[j]
<1> DEFINE t == <<e>> \o s
<1>1. /\ t \in Seq(Entries) /\ Len(t) = Len(s) + 1 /\ t[1] = e
      /\ \A i \in 2..Len(t) : t[i] = s[i - 1]
  OBVIOUS
<1> HIDE DEF t
<1>2. ASSUME NEW i \in 1..Len(t)
      PROVE  i = 1 \/ (i - 1 \in 1..Len(s) /\ t[i] = s[i - 1])
  <2>1. Len(s) \in Nat
    OBVIOUS
  <2> QED
    BY <1>1, <2>1
<1>3. OneEach(t)
  <2> SUFFICES ASSUME NEW i \in 1..Len(t), NEW j \in 1..Len(t), t[i].key = t[j].key
               PROVE  i = j
    BY DEF OneEach
  <2>1. CASE i = 1 /\ j # 1
    BY <1>1, <1>2, <2>1
  <2>2. CASE i # 1 /\ j = 1
    BY <1>1, <1>2, <2>2
  <2>3. CASE i # 1 /\ j # 1
    <3>1. /\ i - 1 \in 1..Len(s) /\ j - 1 \in 1..Len(s)
          /\ s[i - 1].key = s[j - 1].key
      BY <1>2, <2>3
    <3>2. i - 1 = j - 1
      BY <3>1 DEF OneEach
    <3> QED
      BY <3>2
  <2> QED
    BY <2>1, <2>2, <2>3
<1>4. \A i \in 1..Len(t) : t[i] = e \/ \E j \in 1..Len(s) : t[i] = s[j]
  BY <1>1, <1>2
<1> QED
  BY <1>1, <1>3, <1>4 DEF t

\* Get adds nothing to the list and leaves one entry for each key.
LEMMA GetKeeps ==
  ASSUME ToolCacheInv, NEW k \in Keys
  PROVE  /\ AfterGet(k) \in Seq(Entries) /\ Len(AfterGet(k)) <= Len(order)
         /\ OneEach(AfterGet(k))
         /\ \A i \in 1..Len(AfterGet(k)) : \E j \in 1..Len(order) : AfterGet(k)[i] = order[j]
<1>1. order \in Seq(Entries) /\ Len(order) \in Nat /\ DOMAIN order = 1..Len(order)
  BY DEF ToolCacheInv, ToolCacheTypeOK
<1> DEFINE w == Without(k)
<1>2. /\ w \in Seq(Entries) /\ Len(w) = IF Has(k) THEN Len(order) - 1 ELSE Len(order)
      /\ \A j \in 1..Len(w) : (\E i \in 1..Len(order) : w[j] = order[i]) /\ w[j].key # k
      /\ OneEach(w)
  BY WithoutProperties
<1> HIDE DEF w
<1>3. CASE ~Fresh(k)
  <2>1. AfterGet(k) = w
    BY <1>3 DEF AfterGet, w
  <2>2. (Len(w) = Len(order) - 1 \/ Len(w) = Len(order)) /\ Len(w) \in Nat
    BY <1>2
  <2>3. Len(w) <= Len(order)
    <3>1. Len(order) \in Nat
      BY <1>1
    <3> QED
      BY <2>2, <3>1
  <2> QED
    BY <1>2, <2>1, <2>3
<1>4. CASE Fresh(k)
  <2>1. Has(k) /\ Items(k) \in 1..Len(order) /\ order[Items(k)].key = k
    BY <1>1, <1>4 DEF Fresh, Has, Items
  <2> DEFINE e == order[Items(k)]
  <2>2. e \in Entries /\ e.key = k /\ \E j \in 1..Len(order) : e = order[j]
    BY <1>1, <2>1
  <2> HIDE DEF e
  <2>3. /\ <<e>> \o w \in Seq(Entries) /\ Len(<<e>> \o w) = Len(w) + 1
        /\ OneEach(<<e>> \o w)
        /\ \A i \in 1..Len(<<e>> \o w) :
             (<<e>> \o w)[i] = e \/ \E j \in 1..Len(w) : (<<e>> \o w)[i] = w[j]
    BY <1>2, <2>2, PutInFront
  <2>4. AfterGet(k) = <<e>> \o w
    BY <1>4 DEF AfterGet, e, w
  <2> DEFINE t == <<e>> \o w
  <2> HIDE DEF t
  <2>5. Len(t) <= Len(order)
    BY <1>1, <1>2, <2>1, <2>3 DEF t
  <2>6. \A i \in 1..Len(t) : \E j \in 1..Len(order) : t[i] = order[j]
    <3>1. \A j \in 1..Len(w) : \E i \in 1..Len(order) : w[j] = order[i]
      BY <1>2
    <3>2. \A i \in 1..Len(t) : t[i] = e \/ \E j \in 1..Len(w) : t[i] = w[j]
      BY <2>3 DEF t
    <3>3. \E j \in 1..Len(order) : e = order[j]
      BY <2>2
    <3> QED
      BY <3>1, <3>2, <3>3, SMTT(30)
  <2> QED
    BY <2>3, <2>4, <2>5, <2>6 DEF t
<1> QED
  BY <1>3, <1>4

\* Set adds the entry for its key, in place of the one there was, and never
\* grows the list beyond its capacity.
LEMMA SetKeeps ==
  ASSUME ToolCacheInv, NEW k \in Keys, NEW v \in Nat
  PROVE  /\ AfterSet(k, v) \in Seq(Entries) /\ Len(AfterSet(k, v)) <= Capacity
         /\ OneEach(AfterSet(k, v))
         /\ \A i \in 1..Len(AfterSet(k, v)) :
              \/ AfterSet(k, v)[i] = [key |-> k, value |-> v, age |-> 0]
              \/ \E j \in 1..Len(order) : AfterSet(k, v)[i] = order[j]
<1>1. /\ order \in Seq(Entries) /\ Len(order) \in Nat /\ Len(order) <= Capacity
      /\ Capacity \in Nat \ {0}
  BY CacheAssumption DEF ToolCacheInv, ToolCacheTypeOK, EntriesSound, LRUSound
<1> DEFINE w == Without(k)
           kept == IF ~Has(k) /\ Len(w) >= Capacity THEN Front(w) ELSE w
           e == [key |-> k, value |-> v, age |-> 0]
<1>2. /\ w \in Seq(Entries) /\ Len(w) = IF Has(k) THEN Len(order) - 1 ELSE Len(order)
      /\ \A j \in 1..Len(w) : (\E i \in 1..Len(order) : w[j] = order[i]) /\ w[j].key # k
      /\ OneEach(w)
  BY WithoutProperties
<1>3. AfterSet(k, v) = <<e>> \o kept
  BY DEF AfterSet
<1>4. e \in Entries /\ e.key = k
  BY DEF Entries
<1> HIDE DEF w, e
<1>5. /\ kept \in Seq(Entries) /\ Len(kept) <= Capacity - 1 /\ Len(kept) <= Len(w)
      /\ \A j \in 1..Len(kept) : kept[j] = w[j]
  <2>1. CASE ~Has(k) /\ Len(w) >= Capacity
    <3>1. /\ Front(w) \in Seq(Entries) /\ Len(Front(w)) = Len(w) - 1
          /\ \A j \in 1..(Len(w) - 1) : Front(w)[j] = w[j]
      <4>1. Len(w) >= 1
        BY <1>1, <1>2, <2>1
      <4> QED
        BY <1>2, <4>1, FrontProperties
    <3>2. kept = Front(w)
      BY <2>1
    <3>3. Len(w) \in Nat /\ Len(w) <= Capacity
      BY <1>1, <1>2, <2>1
    <3> HIDE DEF kept
    <3>4. Len(kept) = Len(w) - 1 /\ Len(kept) <= Capacity - 1 /\ Len(kept) <= Len(w)
      BY <1>1, <3>1, <3>2, <3>3
    <3> QED
      BY <3>1, <3>2, <3>4
  <2>2. CASE ~(~Has(k) /\ Len(w) >= Capacity)
    BY <1>1, <1>2, <2>2
  <2> QED
    BY <2>1, <2>2
<1> HIDE DEF kept
<1>6. /\ OneEach(kept) /\ \A j \in 1..Len(kept) : kept[j].key # k
      /\ \A j \in 1..Len(kept) : \E i \in 1..Len(order) : kept[j] = order[i]
  <2>1. 1..Len(kept) \subseteq 1..Len(w)
    BY <1>2, <1>5
  <2>2. OneEach(kept)
    BY <1>2, <1>5, <2>1 DEF OneEach
  <2>3. \A j \in 1..Len(kept) : kept[j].key # k /\ \E i \in 1..Len(order) : kept[j] = order[i]
    BY <1>2, <1>5, <2>1
  <2> QED
    BY <2>2, <2>3
<1>7. /\ <<e>> \o kept \in Seq(Entries) /\ Len(<<e>> \o kept) = Len(kept) + 1
      /\ OneEach(<<e>> \o kept)
      /\ \A i \in 1..Len(<<e>> \o kept) :
           (<<e>> \o kept)[i] = e \/ \E j \in 1..Len(kept) : (<<e>> \o kept)[i] = kept[j]
  BY <1>4, <1>5, <1>6, PutInFront
<1> DEFINE t == <<e>> \o kept
<1> HIDE DEF t
<1>8. Len(t) <= Capacity
  BY <1>1, <1>5, <1>7 DEF t
<1>9. \A i \in 1..Len(t) : t[i] = e \/ \E j \in 1..Len(order) : t[i] = order[j]
  BY <1>6, <1>7 DEF t
<1> QED
  BY <1>3, <1>7, <1>8, <1>9 DEF t, e

\* A list that has one entry for each key, within the capacity and none older
\* than the floors.
LEMMA OrderSound ==
  ASSUME ToolCacheTypeOK', OneEach(order'), Len(order') <= Capacity,
         \A i \in 1..Len(order') : order'[i].value >= floor'[order'[i].key]
  PROVE  EntriesSound'
<1>1. order' \in Seq(Entries) /\ DOMAIN order' = 1..Len(order')
  BY DEF ToolCacheTypeOK
<1>2. LRUSound'
  BY <1>1 DEF LRUSound, OneEach
<1>3. NoStaleUnlessRaced'
  BY <1>1 DEF NoStaleUnlessRaced, ToSet
<1> QED
  BY <1>2, <1>3 DEF EntriesSound

\* A list made of entries of the old one is as fresh as that.
LEMMA OrderFromOld ==
  ASSUME ToolCacheInv, ToolCacheTypeOK', floor' = floor, OneEach(order'),
         Len(order') <= Len(order),
         \A i \in 1..Len(order') : \E j \in 1..Len(order) : order'[i] = order[j]
  PROVE  EntriesSound'
<1>1. order \in Seq(Entries) /\ DOMAIN order = 1..Len(order) /\ Len(order) \in Nat
  BY DEF ToolCacheInv, ToolCacheTypeOK
<1>2. /\ Len(order) <= Capacity /\ Capacity \in Nat
      /\ \A j \in 1..Len(order) : order[j].value >= floor[order[j].key]
  BY <1>1, CacheAssumption DEF ToolCacheInv, EntriesSound, LRUSound, NoStaleUnlessRaced, ToSet
<1>3. Len(order') \in Nat
  BY DEF ToolCacheTypeOK
<1>4. Len(order') <= Capacity
  BY <1>1, <1>2, <1>3
<1>5. \A i \in 1..Len(order') : order'[i].value >= floor'[order'[i].key]
  BY <1>2
<1> QED
  BY <1>4, <1>5, OrderSound

\* A step of a call to a tool.
LEMMA CallCacheStep ==
  ASSUME ToolCacheInv, NEW r \in Readers,
         \/ \E k \in Keys : LookUp(r, k)
         \/ JoinOrLead(r) \/ DoubleCheck(r) \/ HandlerComputes(r) \/ HandlerFails(r)
         \/ StoreResult(r) \/ FlightLands(r)
  PROVE  ToolCacheInv'
<1> USE CacheAssumption DEF ToolCacheInv, ToolCacheTypeOK, At
<1>1. ASSUME order' = order, floor' = floor PROVE EntriesSound'
  BY <1>1 DEF EntriesSound, LRUSound, NoStaleUnlessRaced
<1>2. ASSUME NEW k \in Keys, order' = AfterGet(k), floor' = floor, ToolCacheTypeOK'
      PROVE  EntriesSound'
  <2> HIDE DEF ToolCacheInv, ToolCacheTypeOK
  <2>1. /\ OneEach(order') /\ Len(order') <= Len(order)
        /\ \A i \in 1..Len(order') : \E j \in 1..Len(order) : order'[i] = order[j]
    BY <1>2, GetKeeps, Zenon
  <2> QED
    BY <1>2, <2>1, OrderFromOld
<1>3. ASSUME NEW k \in Keys, LookUp(r, k) PROVE ToolCacheInv'
  <2>1. ToolCacheTypeOK'
    <3>1. order' \in Seq(Entries)
      BY <1>3, GetKeeps DEF LookUp
    <3> QED
      BY <1>3, <3>1 DEF LookUp
  <2>2. LeaderLeads' /\ ComputedFresh'
    BY <1>3 DEF LookUp, LeaderLeads, ComputedFresh
  <2> QED
    BY <1>2, <1>3, <2>1, <2>2 DEF LookUp
<1>4. ASSUME JoinOrLead(r) PROVE ToolCacheInv'
  <2>1. ToolCacheTypeOK'
    <3>1. flight' \in [Keys -> Readers \cup {NoLeader}]
      BY <1>4 DEF JoinOrLead
    <3>2. where' = [where EXCEPT ![r] = "leading"] \/ where' = [where EXCEPT ![r] = "following"]
      BY <1>4 DEF JoinOrLead
    <3>3. UNCHANGED <<order, wants, holds, version, floor>>
      BY <1>4 DEF JoinOrLead
    <3> QED
      BY <3>1, <3>2, <3>3
  <2>2. LeaderLeads'
    BY <1>4 DEF JoinOrLead, LeaderLeads
  <2>3. ComputedFresh'
    BY <1>4 DEF JoinOrLead, ComputedFresh
  <2> QED
    BY <1>1, <1>4, <2>1, <2>2, <2>3 DEF JoinOrLead
<1>5. ASSUME DoubleCheck(r) PROVE ToolCacheInv'
  <2>1. ToolCacheTypeOK'
    <3>1. order' \in Seq(Entries)
      BY <1>5, GetKeeps DEF DoubleCheck
    <3>2. Fresh(wants[r]) => ValueOf(wants[r]) \in Nat
      <4> SUFFICES ASSUME Fresh(wants[r]) PROVE ValueOf(wants[r]) \in Nat
        OBVIOUS
      <4>1. Items(wants[r]) \in DOMAIN order
        BY DEF Fresh, Has, Items
      <4>2. order[Items(wants[r])] \in Entries
        BY <4>1
      <4> QED
        BY <4>2 DEF ValueOf, Entries
    <3>3. holds' \in [Readers -> Nat]
      BY <1>5, <3>2 DEF DoubleCheck
    <3>4. /\ where' \in [Readers -> {"idle", "missed", "following", "leading", "executing",
                                     "computed", "landing"}]
          /\ UNCHANGED <<flight, wants, version, floor>>
      BY <1>5 DEF DoubleCheck
    <3> QED
      BY <3>1, <3>3, <3>4
  <2>2. LeaderLeads' /\ ComputedFresh'
    BY <1>5 DEF DoubleCheck, LeaderLeads, ComputedFresh
  <2> QED
    BY <1>2, <1>5, <2>1, <2>2 DEF DoubleCheck
<1>6. ASSUME HandlerComputes(r) \/ HandlerFails(r) PROVE ToolCacheInv'
  <2>1. ToolCacheTypeOK'
    <3>1. holds' \in [Readers -> Nat]
      BY <1>6 DEF HandlerComputes, HandlerFails, NoValue
    <3>2. where' = [where EXCEPT ![r] = "computed"] \/ where' = [where EXCEPT ![r] = "landing"]
      BY <1>6 DEF HandlerComputes, HandlerFails
    <3>3. UNCHANGED <<order, flight, wants, version, floor>>
      BY <1>6 DEF HandlerComputes, HandlerFails
    <3> QED
      BY <3>1, <3>2, <3>3
  <2>2. LeaderLeads'
    BY <1>6 DEF HandlerComputes, HandlerFails, LeaderLeads
  <2>3. ComputedFresh'
    <3>1. CASE HandlerComputes(r)
      BY <3>1 DEF HandlerComputes, ComputedFresh
    <3>2. CASE HandlerFails(r)
      BY <3>2 DEF HandlerFails, ComputedFresh
    <3> QED
      BY <1>6, <3>1, <3>2
  <2> QED
    BY <1>1, <1>6, <2>1, <2>2, <2>3 DEF HandlerComputes, HandlerFails
<1>7. ASSUME StoreResult(r) PROVE ToolCacheInv'
  <2> DEFINE k == wants[r]
             v == holds[r]
             e == [key |-> k, value |-> v, age |-> 0]
  <2>1. k \in Keys /\ v \in Nat /\ floor' = floor /\ order' = AfterSet(k, v)
    BY <1>7 DEF StoreResult
  <2>2. v >= floor[k]
    BY <1>7 DEF StoreResult, ComputedFresh
  <2> HIDE DEF k, v
  <2>3. /\ order' \in Seq(Entries) /\ Len(order') <= Capacity /\ OneEach(order')
        /\ \A i \in 1..Len(order') : order'[i] = e \/ \E j \in 1..Len(order) : order'[i] = order[j]
    <3> USE <2>1
    <3> HIDE DEF ToolCacheInv, ToolCacheTypeOK
    <3> QED
      BY SetKeeps
  <2>4. ToolCacheTypeOK'
    BY <1>7, <2>3 DEF StoreResult
  <2>5. LeaderLeads' /\ ComputedFresh'
    BY <1>7 DEF StoreResult, LeaderLeads, ComputedFresh
  <2>6. \A j \in 1..Len(order) : order[j].value >= floor[order[j].key]
    <3>1. DOMAIN order = 1..Len(order)
      OBVIOUS
    <3> QED
      BY <3>1 DEF EntriesSound, NoStaleUnlessRaced, ToSet
  <2>7. \A i \in 1..Len(order') : order'[i].value >= floor'[order'[i].key]
    <3>1. e.value >= floor[e.key]
      BY <2>2
    <3> HIDE DEF e
    <3> QED
      BY <2>1, <2>3, <2>6, <3>1
  <2> QED
    BY <2>3, <2>4, <2>5, <2>7, OrderSound
<1>8. ASSUME FlightLands(r) PROVE ToolCacheInv'
  <2>1. ToolCacheTypeOK'
    BY <1>8 DEF FlightLands, NoValue
  <2>2. LeaderLeads'
    BY <1>8 DEF FlightLands, LeaderLeads
  <2>3. ComputedFresh'
    BY <1>8 DEF FlightLands, ComputedFresh
  <2> QED
    BY <1>1, <1>8, <2>1, <2>2, <2>3 DEF FlightLands
<1> QED
  BY <1>3, <1>4, <1>5, <1>6, <1>7, <1>8

\* An invalidation, of one key or of a tool, raises the floor of a key it took
\* the entry of, if no call holds a result for it.
LEMMA InvalidationSound ==
  ASSUME ToolCacheInv, NEW gone \in SUBSET Keys,
         order' \in Seq(Entries), OneEach(order'), Len(order') <= Len(order),
         \A i \in 1..Len(order') :
           order'[i].key \notin gone /\ \E j \in 1..Len(order) : order'[i] = order[j],
         floor' = FloorsAfter(gone), UNCHANGED <<flight, where, wants, holds, version>>
  PROVE  ToolCacheInv'
<1> USE DEF ToolCacheInv
<1>1. floor' \in [Keys -> Nat]
  BY DEF FloorsAfter, ToolCacheTypeOK
<1>2. ToolCacheTypeOK'
  BY <1>1 DEF ToolCacheTypeOK
<1>3. LeaderLeads'
  BY DEF LeaderLeads
<1>4. ComputedFresh'
  BY DEF ComputedFresh, FloorsAfter, Raced, ToolCacheTypeOK
<1>5. /\ \A j \in 1..Len(order) : order[j].value >= floor[order[j].key]
      /\ Len(order) \in Nat /\ Len(order) <= Capacity
  <2>1. DOMAIN order = 1..Len(order) /\ Len(order) \in Nat
    BY DEF ToolCacheTypeOK
  <2> QED
    BY <2>1 DEF EntriesSound, LRUSound, NoStaleUnlessRaced, ToSet
<1>6. \A i \in 1..Len(order') : order'[i].value >= floor'[order'[i].key]
  <2> SUFFICES ASSUME NEW i \in 1..Len(order') PROVE order'[i].value >= floor'[order'[i].key]
    OBVIOUS
  <2>1. PICK j \in 1..Len(order) : order'[i] = order[j]
    OBVIOUS
  <2>2. order'[i].key \in Keys /\ order'[i].key \notin gone
    <3>1. order'[i] \in Entries
      OBVIOUS
    <3> QED
      BY <3>1 DEF Entries
  <2>3. floor'[order'[i].key] = floor[order'[i].key]
    BY <2>2 DEF FloorsAfter
  <2> QED
    BY <1>5, <2>1, <2>3
<1>7. Len(order') <= Capacity
  <2>1. Len(order') \in Nat
    OBVIOUS
  <2> QED
    BY <1>5, <2>1, CacheAssumption
<1>8. EntriesSound'
  BY <1>2, <1>6, <1>7, OrderSound
<1> QED
  BY <1>2, <1>3, <1>4, <1>8

\* A step of the world or of the application.
LEMMA WorldCacheStep ==
  ASSUME ToolCacheInv,
         \/ \E k \in Keys : DataChanges(k) \/ InvalidateKey(k)
         \/ \E t \in {ToolOf[k] : k \in Keys} : InvalidateTool(t)
         \/ EntriesAge
  PROVE  ToolCacheInv'
<1>1. ASSUME NEW k \in Keys, DataChanges(k) PROVE ToolCacheInv'
  <2> USE DEF ToolCacheInv
  <2>1. ToolCacheTypeOK' /\ LeaderLeads'
    BY <1>1 DEF DataChanges, ToolCacheTypeOK, LeaderLeads
  <2>2. ComputedFresh'
    BY <1>1 DEF DataChanges, ToolCacheTypeOK, ComputedFresh
  <2>3. EntriesSound'
    BY <1>1 DEF DataChanges, EntriesSound, LRUSound, NoStaleUnlessRaced
  <2> QED
    BY <2>1, <2>2, <2>3
<1>2. ASSUME NEW k \in Keys, InvalidateKey(k) PROVE ToolCacheInv'
  <2>1. /\ order' = Without(k) /\ floor' = FloorsAfter({k})
        /\ UNCHANGED <<flight, where, wants, holds, version>>
    BY <1>2 DEF InvalidateKey
  <2>2. /\ order' \in Seq(Entries) /\ OneEach(order')
        /\ Len(order') = IF Has(k) THEN Len(order) - 1 ELSE Len(order)
        /\ \A j \in 1..Len(order') :
             (\E i \in 1..Len(order) : order'[j] = order[i]) /\ order'[j].key # k
    BY <2>1, WithoutProperties, Zenon
  <2>3. Len(order') <= Len(order)
    <3>1. Len(order) \in Nat /\ Len(order') \in Nat
      BY <2>2 DEF ToolCacheInv, ToolCacheTypeOK
    <3>2. Len(order') = Len(order) - 1 \/ Len(order') = Len(order)
      BY <2>2
    <3> QED
      BY <3>1, <3>2
  <2>4. {k} \in SUBSET Keys /\ \A j \in 1..Len(order') : order'[j].key \notin {k}
    BY <2>2
  <2> QED
    BY <2>1, <2>2, <2>3, <2>4, InvalidationSound
<1>3. ASSUME NEW t, InvalidateTool(t) PROVE ToolCacheInv'
  <2> DEFINE stay == {i \in DOMAIN order : ToolOf[order[i].key] # t}
             gone == {k \in Keys : ToolOf[k] = t}
  <2>1. PICK f \in [1..Cardinality(stay) -> stay] :
          /\ \A i, j \in DOMAIN f : i < j => f[i] < f[j]
          /\ order' = [i \in DOMAIN f |-> order[f[i]]]
    BY <1>3 DEF InvalidateTool
  <2>2. floor' = FloorsAfter(gone) /\ UNCHANGED <<flight, where, wants, holds, version>>
    BY <1>3 DEF InvalidateTool
  <2>3. order \in Seq(Entries) /\ DOMAIN order = 1..Len(order) /\ Len(order) \in Nat
    BY DEF ToolCacheInv, ToolCacheTypeOK
  <2>4. \A i \in stay : i \in 1..Len(order) /\ order[i] \in Entries /\ order[i].key \notin gone
    BY <2>3
  <2>5. Cardinality(stay) \in Nat /\ Cardinality(stay) <= Len(order)
    <3>1. IsFiniteSet(1..Len(order)) /\ Cardinality(1..Len(order)) = Len(order)
      <4>1. 1 \in Int /\ Len(order) \in Int /\ (1 > Len(order) => Len(order) = 0)
        BY <2>3
      <4>2. /\ IsFiniteSet(1..Len(order))
            /\ Cardinality(1..Len(order)) =
                 IF 1 > Len(order) THEN 0 ELSE Len(order) - 1 + 1
        BY <4>1, FS_Interval
      <4> QED
        BY <4>1, <4>2
    <3>2. stay \subseteq 1..Len(order)
      BY <2>4
    <3> QED
      BY <3>1, <3>2, FS_Subset, FS_CardinalityType
  <2>6. stay \subseteq Nat
    BY <2>3
  <2> HIDE DEF stay, gone
  <2> DEFINE n == Cardinality(stay)
  <2>7. n \in Nat /\ n <= Len(order) /\ DOMAIN f = 1..n
    BY <2>1, <2>5
  <2> HIDE DEF n
  <2>8. order' = [i \in 1..n |-> order[f[i]]] /\ \A i \in 1..n : f[i] \in stay
    BY <2>1, <2>7
  <2>9. order' \in Seq(Entries) /\ Len(order') = n /\ \A i \in 1..n : order'[i] = order[f[i]]
    BY <2>4, <2>7, <2>8
  <2>10. OneEach(order')
    <3> SUFFICES ASSUME NEW i \in 1..n, NEW j \in 1..n, order'[i].key = order'[j].key
                 PROVE  i = j
      BY <2>9 DEF OneEach
    <3>1. f[i] \in 1..Len(order) /\ f[j] \in 1..Len(order) /\ order[f[i]].key = order[f[j]].key
      BY <2>4, <2>8, <2>9
    <3>2. f[i] = f[j]
      BY <2>3, <3>1 DEF ToolCacheInv, EntriesSound, LRUSound
    <3>3. f[i] \in Nat /\ (i < j => f[i] < f[j]) /\ (j < i => f[j] < f[i])
      BY <2>1, <2>7, <3>1
    <3> QED
      BY <2>7, <3>2, <3>3
  <2>11. \A i \in 1..Len(order') :
           order'[i].key \notin gone /\ \E j \in 1..Len(order) : order'[i] = order[j]
    BY <2>4, <2>8, <2>9
  <2>12. gone \in SUBSET Keys
    BY DEF gone
  <2> QED
    BY <2>2, <2>7, <2>9, <2>10, <2>11, <2>12, InvalidationSound
<1>4. ASSUME EntriesAge PROVE ToolCacheInv'
  <2>1. order \in Seq(Entries) /\ DOMAIN order = 1..Len(order) /\ Len(order) \in Nat
    BY DEF ToolCacheInv, ToolCacheTypeOK
  <2> DEFINE aged(i) == [order[i] EXCEPT !.age = IF @ <= TTL THEN @ + 1 ELSE @]
  <2>2. \A i \in 1..Len(order) :
          /\ aged(i) \in Entries
          /\ aged(i).key = order[i].key /\ aged(i).value = order[i].value
    <3> SUFFICES ASSUME NEW i \in 1..Len(order)
                 PROVE  /\ aged(i) \in Entries
                        /\ aged(i).key = order[i].key /\ aged(i).value = order[i].value
      OBVIOUS
    <3>1. order[i] \in Entries
      BY <2>1
    <3>2. (IF order[i].age <= TTL THEN order[i].age + 1 ELSE order[i].age) \in Nat
      BY <3>1, CacheAssumption DEF Entries
    <3> QED
      BY <3>1, <3>2 DEF Entries
  <2>3. order' = [i \in 1..Len(order) |-> aged(i)]
        /\ UNCHANGED <<flight, where, wants, holds, version, floor>>
    BY <1>4, <2>1 DEF EntriesAge
  <2> HIDE DEF aged
  <2>4. /\ order' \in Seq(Entries) /\ Len(order') = Len(order)
        /\ \A i \in 1..Len(order) : order'[i] = aged(i)
    BY <2>1, <2>2, <2>3
  <2>5. ToolCacheTypeOK' /\ LeaderLeads' /\ ComputedFresh'
    BY <2>3, <2>4 DEF ToolCacheInv, ToolCacheTypeOK, LeaderLeads, ComputedFresh
  <2>6. /\ \A j \in 1..Len(order) : order[j].value >= floor[order[j].key]
        /\ \A i, j \in 1..Len(order) : order[i].key = order[j].key => i = j
        /\ Len(order) <= Capacity
    BY <2>1 DEF ToolCacheInv, EntriesSound, LRUSound, NoStaleUnlessRaced, ToSet
  <2>7. OneEach(order') /\ Len(order') <= Capacity
    BY <2>2, <2>4, <2>6 DEF OneEach
  <2>8. \A i \in 1..Len(order') : order'[i].value >= floor'[order'[i].key]
    BY <2>2, <2>3, <2>4, <2>6
  <2> QED
    BY <2>5, <2>7, <2>8, OrderSound DEF ToolCacheInv
<1> QED
  BY <1>1, <1>2, <1>3, <1>4

\* The flights, the results in hand, the list and the floors of the cache always
\* fit together.
THEOREM ToolCacheInvariance == ToolCacheSpec => []ToolCacheInv
<1>1. ToolCacheInit => ToolCacheInv
  <2> SUFFICES ASSUME ToolCacheInit PROVE ToolCacheInv
    OBVIOUS
  <2>1. (CHOOSE k \in Keys : TRUE) \in Keys
    BY CacheAssumption
  <2>2. ToolCacheTypeOK
    BY <2>1 DEF ToolCacheInit, ToolCacheTypeOK, NoValue
  <2>3. LeaderLeads /\ ComputedFresh
    BY DEF ToolCacheInit, LeaderLeads, ComputedFresh
  <2>4. EntriesSound
    BY CacheAssumption DEF ToolCacheInit, EntriesSound, LRUSound, NoStaleUnlessRaced, ToSet
  <2> QED
    BY <2>2, <2>3, <2>4 DEF ToolCacheInv
<1>2. ToolCacheInv /\ [ToolCacheNext]_cacheVars => ToolCacheInv'
  <2>1. ToolCacheInv /\ UNCHANGED cacheVars => ToolCacheInv'
    BY DEF cacheVars, ToolCacheInv, ToolCacheTypeOK, LeaderLeads, ComputedFresh, EntriesSound,
           LRUSound, NoStaleUnlessRaced
  <2>2. ToolCacheInv /\ ToolCacheNext => ToolCacheInv'
    BY CallCacheStep, WorldCacheStep DEF ToolCacheNext
  <2> QED
    BY <2>1, <2>2
<1> QED
  BY <1>1, <1>2, PTL DEF ToolCacheSpec

\* After an invalidation the cache holds nothing computed from older data, unless
\* a handler had read that data and not yet stored its result.
THEOREM CacheNotStale == ToolCacheSpec => []NoStaleUnlessRaced
<1>1. ToolCacheInv => NoStaleUnlessRaced
  BY DEF ToolCacheInv, EntriesSound
<1> QED
  BY <1>1, ToolCacheInvariance, PTL

\* The list stays within its capacity, with one entry for a key, and concurrent
\* misses of a key run the handler once.
THEOREM CacheSound == ToolCacheSpec => [](LRUSound /\ NoStampede)
<1>1. ToolCacheInv => LRUSound /\ NoStampede
  BY DEF ToolCacheInv, EntriesSound, LeaderLeads, NoStampede
<1> QED
  BY <1>1, ToolCacheInvariance, PTL
=============================================================================
