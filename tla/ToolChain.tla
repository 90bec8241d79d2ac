------------------------------ MODULE ToolChain ------------------------------
(***************************************************************************)
(* Tool calls through the stack Recovery, RateLimit, Retry,                *)
(* CircuitBreaker, Sandbox (middleware/), in the order Server.Use nests    *)
(* them, first added outermost (middleware.go).  Every member of Callers   *)
(* makes one call after the other; calls of different callers overlap.     *)
(*                                                                         *)
(* Under a Sandbox timeout the handler has a goroutine of its own.  When   *)
(* the deadline ends the wait, that goroutine runs on and sends to a       *)
(* buffered channel nobody reads: it leaves the model.                     *)
(***************************************************************************)
EXTENDS CircuitBreaker, FiniteSets

CONSTANTS
  Callers,      \* goroutines that call tools
  MaxAttempts,  \* WithMaxAttempts of Retry
  Burst         \* WithBurst of RateLimit

ASSUME ChainAssumption == MaxAttempts \in Nat \ {0} /\ Burst \in Nat \ {0}

VARIABLES
  breaker,   \* the one breaker (no key function)
  tokens,    \* the bucket, in calls; a tick adds one
  at,        \* where each call is
  attempt,   \* the attempt the Retry loop is in, from 0
  admitted,  \* the state the breaker admitted the attempt in
  deadline,  \* the attempts whose Sandbox deadline has passed
  ctxDone,   \* the calls whose own context has ended
  handler,   \* what the handler goroutine of the attempt has done
  crashed    \* the process died of an unrecovered panic

chainVars == <<breaker, tokens, at, attempt, admitted, deadline, ctxDone, handler, crashed>>

ChainInit ==
  /\ breaker = NewBreaker
  /\ tokens = Burst
  /\ at = [c \in Callers |-> "idle"]
  /\ attempt = [c \in Callers |-> 0]
  /\ admitted = [c \in Callers |-> "closed"]
  /\ deadline = {}
  /\ ctxDone = {}
  /\ handler = [c \in Callers |-> "none"]
  /\ crashed = FALSE

\* Time passes: the bucket fills, up to the burst, and the breaker ages.
Tick ==
  /\ ~crashed
  /\ tokens' = IF tokens < Burst THEN tokens + 1 ELSE tokens
  /\ breaker' = Aged(breaker)
  /\ UNCHANGED <<at, attempt, admitted, deadline, ctxDone, handler, crashed>>

\* rateLimiter.allow takes a token or the call is refused at once.
CallArrives(c) ==
  /\ ~crashed /\ at[c] = "idle"
  /\ tokens >= 1
  /\ tokens' = tokens - 1
  /\ at' = [at EXCEPT ![c] = "trying"]
  /\ attempt' = [attempt EXCEPT ![c] = 0]
  /\ ctxDone' = ctxDone \ {c}
  /\ UNCHANGED <<breaker, admitted, deadline, handler, crashed>>

CallerCancels(c) ==
  /\ ~crashed /\ at[c] # "idle" /\ c \notin ctxDone
  /\ ctxDone' = ctxDone \cup {c}
  /\ UNCHANGED <<breaker, tokens, at, attempt, admitted, deadline, handler, crashed>>

\* The breaker refuses: an error like any other to the Retry loop.
Rejected(c) ==
  /\ ~crashed /\ at[c] = "trying"
  /\ ~Admits(breaker)
  /\ breaker' = BeforeCall(breaker)
  /\ at' = [at EXCEPT ![c] = "failed"]
  /\ UNCHANGED <<tokens, attempt, admitted, deadline, ctxDone, handler, crashed>>

\* The breaker admits, and Sandbox starts the handler's goroutine.
Admitted(c) ==
  /\ ~crashed /\ at[c] = "trying"
  /\ Admits(breaker)
  /\ breaker' = BeforeCall(breaker)
  /\ admitted' = [admitted EXCEPT ![c] = breaker'.state]
  /\ at' = [at EXCEPT ![c] = "waiting"]
  /\ handler' = [handler EXCEPT ![c] = "running"]
  /\ deadline' = deadline \ {c}
  /\ UNCHANGED <<tokens, attempt, ctxDone, crashed>>

HandlerReturns(c, how) ==
  /\ ~crashed /\ handler[c] = "running"
  /\ handler' = [handler EXCEPT ![c] = how]
  /\ UNCHANGED <<breaker, tokens, at, attempt, admitted, deadline, ctxDone, crashed>>

\* Sandbox's goroutine has no recover of its own, and Recovery's is on the
\* stack of another goroutine.
HandlerPanics(c) ==
  /\ ~crashed /\ handler[c] = "running"
  /\ crashed' = TRUE
  /\ UNCHANGED <<breaker, tokens, at, attempt, admitted, deadline, ctxDone, handler>>

DeadlinePasses(c) ==
  /\ ~crashed /\ at[c] = "waiting" /\ c \notin deadline \cup ctxDone
  /\ deadline' = deadline \cup {c}
  /\ UNCHANGED <<breaker, tokens, at, attempt, admitted, ctxDone, handler, crashed>>

\* The select of Sandbox's execute and, on the way out, the breaker's deferred
\* afterCall.  A result that comes with a passed deadline is a timeout.
Leave(c, failed) ==
  /\ breaker' = AfterCall(breaker, admitted[c], failed)
  /\ at' = [at EXCEPT ![c] = IF failed THEN "failed" ELSE "idle"]
  /\ handler' = [handler EXCEPT ![c] = "none"]
  /\ UNCHANGED <<tokens, attempt, admitted, deadline, ctxDone, crashed>>

ResultArrives(c) ==
  /\ ~crashed /\ at[c] = "waiting" /\ handler[c] \in {"ok", "error"}
  /\ Leave(c, handler[c] = "error" \/ c \in deadline)

\* Mutated form: the wait watches the caller's context only.
ContextEnds_NoDeadline(c) ==
  /\ ~crashed /\ at[c] = "waiting" /\ c \in ctxDone
  /\ Leave(c, TRUE)

ContextEnds(c) ==
  /\ ~crashed /\ at[c] = "waiting" /\ c \in deadline \cup ctxDone
  /\ Leave(c, TRUE)

\* The end of a turn of the Retry loop.  Every error is retryable by default;
\* the wait ends early with the context, and the context is looked at on
\* both sides of it.
RetryOrReturn(c) ==
  /\ ~crashed /\ at[c] = "failed"
  /\ IF attempt[c] + 1 < MaxAttempts /\ c \notin ctxDone
       THEN /\ attempt' = [attempt EXCEPT ![c] = @ + 1]
            /\ at' = [at EXCEPT ![c] = "trying"]
       ELSE /\ at' = [at EXCEPT ![c] = "idle"]
            /\ UNCHANGED attempt
  /\ UNCHANGED <<breaker, tokens, admitted, deadline, ctxDone, handler, crashed>>

CallProceeds(c) ==
  \/ Rejected(c) \/ Admitted(c) \/ ResultArrives(c) \/ ContextEnds(c) \/ RetryOrReturn(c)

ChainNext ==
  \/ Tick
  \/ \E c \in Callers :
       \/ CallArrives(c) \/ CallerCancels(c) \/ CallProceeds(c) \/ DeadlinePasses(c)
       \/ \E how \in {"ok", "error"} : HandlerReturns(c, how)
       \/ HandlerPanics(c)

ChainSpec == ChainInit /\ [][ChainNext]_chainVars

\* Timers fire and the code on the way runs; a handler may never return.
ChainFairness == \A c \in Callers : WF_chainVars(CallProceeds(c)) /\ WF_chainVars(DeadlinePasses(c))

-----------------------------------------------------------------------------
Probes == {c \in Callers : at[c] = "waiting" /\ admitted[c] = "half-open"}

\* A half-open breaker never counts more probes than are in flight, so it never
\* refuses calls on account of a probe that has ended (halfOpenCount is reset by
\* transitions while probes of an earlier period are still out).
NoSlotLeak ==
  breaker.state = "half-open" => breaker.halfOpenCount <= Cardinality(Probes)

\* Whatever the handlers do, hang included, every call comes back: the Sandbox
\* deadline, the bounded Retry loop and the breaker between them leave no wait
\* without an end.
EveryCallReturns == \A c \in Callers : (at[c] # "idle") ~> (at[c] = "idle" \/ crashed)

\* "Only decrement if the breaker is still in half-open [...] decrementing would
\* go negative" (afterCall in circuitbreaker.go): the count never is.
HalfOpenCountStands == breaker.halfOpenCount >= 0

\* Recovery "catches panics in downstream handlers and converts them to error
\* results instead of crashing the server" (recovery.go).
PanicsAreCaught == ~crashed

-----------------------------------------------------------------------------
ChainTypeOK ==
  /\ breaker \in BreakerType
  /\ tokens \in 0..Burst
  /\ at \in [Callers -> {"idle", "trying", "waiting", "failed"}]
  /\ attempt \in [Callers -> 0..(MaxAttempts - 1)]
  /\ admitted \in [Callers -> BreakerStates]
  /\ handler \in [Callers -> {"none", "running", "ok", "error"}]

\* NoSlotLeak, with what a count of probes needs.
ChainInv == ChainTypeOK /\ IsFiniteSet(Probes) /\ NoSlotLeak
=============================================================================
