--------------------------- MODULE CircuitBreaker ---------------------------
(***************************************************************************)
(* One breaker of the CircuitBreaker middleware                            *)
(* (middleware/circuitbreaker.go): the record a key of the group maps to,  *)
(* and what its critical sections make of it.  Breakers of different keys  *)
(* share nothing, and one that getOrCreate has not made yet is             *)
(* indistinguishable from the zero value, NewBreaker.                      *)
(*                                                                         *)
(* Time is the age of lastFailureTime, which stops growing once it can no  *)
(* longer matter; the two counters stop at the thresholds they are         *)
(* compared with.                                                          *)
(***************************************************************************)
EXTENDS Integers

CONSTANTS
  FailureThreshold,  \* WithFailureThreshold
  SuccessThreshold,  \* WithSuccessThreshold
  MaxHalfOpen,       \* WithMaxHalfOpen
  ResetTimeout       \* WithResetTimeout, in ticks

\* The options ignore values below one; the constructor repairs the rest.
ASSUME BreakerAssumption ==
  /\ FailureThreshold \in Nat \ {0} /\ SuccessThreshold \in Nat \ {0}
  /\ MaxHalfOpen \in Nat \ {0} /\ ResetTimeout \in Nat \ {0}

BreakerStates == {"closed", "open", "half-open"}

\* halfOpenCount can go below zero: see HalfOpenCountStands in ToolChain.
BreakerType ==
  [state : BreakerStates, failures : 0 .. FailureThreshold, successes : 0 .. SuccessThreshold,
   halfOpenCount : Int, age : 0 .. ResetTimeout + 1]

NewBreaker ==
  [state |-> "closed", failures |-> 0, successes |-> 0,
   halfOpenCount |-> 0, age |-> ResetTimeout + 1]

Aged(b) == [b EXCEPT !.age = IF @ <= ResetTimeout THEN @ + 1 ELSE @]

\* Mutated form: the probe count survives a transition.
TransitionLocked_KeepsCount(b, to) ==
  [b EXCEPT !.state = to, !.successes = 0,
            !.failures = IF to = "closed" THEN 0 ELSE @]

TransitionLocked(b, to) ==
  [b EXCEPT !.state = to, !.successes = 0, !.halfOpenCount = 0,
            !.failures = IF to = "closed" THEN 0 ELSE @]

\* now.After(lastFailureTime.Add(timeout)): strictly later.
MaybeTransitionToHalfOpen(b) ==
  IF b.state = "open" /\ b.age > ResetTimeout THEN TransitionLocked(b, "half-open") ELSE b

\* beforeCall lets the call through.
Admits(b) ==
  LET m == MaybeTransitionToHalfOpen(b)
  IN  \/ m.state = "closed"
      \/ m.state = "half-open" /\ m.halfOpenCount < MaxHalfOpen

\* What beforeCall leaves; the transition stands also when it refuses.
BeforeCall(b) ==
  LET m == MaybeTransitionToHalfOpen(b)
  IN  IF m.state = "half-open" /\ Admits(b)
        THEN [m EXCEPT !.halfOpenCount = @ + 1] ELSE m

\* afterCall of a call admitted in the closed state, whatever the state is now.
AfterClosedCall(b, failed) ==
  IF ~failed THEN [b EXCEPT !.failures = 0]
  ELSE LET counted == [b EXCEPT !.failures = IF @ < FailureThreshold THEN @ + 1 ELSE @]
       IN  IF counted.failures >= FailureThreshold
             THEN TransitionLocked([counted EXCEPT !.age = 0], "open") ELSE counted

\* afterCall of a probe; if the breaker has left half-open and come back since,
\* the probe is counted against a period that did not admit it.
AfterProbe(b, failed) ==
  LET freed  == IF b.state = "half-open" THEN [b EXCEPT !.halfOpenCount = @ - 1] ELSE b
      marked == [freed EXCEPT !.age = 0, !.successes = 0]
      scored == [freed EXCEPT !.successes = IF @ < SuccessThreshold THEN @ + 1 ELSE @]
  IN  CASE failed /\ b.state = "half-open" -> TransitionLocked(marked, "open")
        [] failed /\ b.state # "half-open" -> marked
        [] ~failed /\ b.state # "half-open" -> freed
        [] OTHER -> IF scored.successes >= SuccessThreshold /\ scored.halfOpenCount = 0
                      THEN TransitionLocked(scored, "closed") ELSE scored

AfterCall(b, admitted, failed) ==
  IF admitted = "closed" THEN AfterClosedCall(b, failed) ELSE AfterProbe(b, failed)
=============================================================================
