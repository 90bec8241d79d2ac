---------------------------- MODULE ClientBreaker ----------------------------
(***************************************************************************)
(* The circuit breaker around a client transport                           *)
(* (client/circuitbreaker.go).  Unlike the middleware's, it judges a       *)
(* request by the state the breaker is in when the request ends, not by    *)
(* the one it was admitted in.  A request is a Send or a Receive; a Start  *)
(* and a Close pass through untouched.                                     *)
(***************************************************************************)
EXTENDS Naturals, FiniteSets

CONSTANTS
  Requesters,           \* goroutines that Send or Receive
  MaxFailures,
  OpenTimeout,          \* in ticks
  HalfOpenMaxRequests

ASSUME ClientBreakerAssumption ==
  MaxFailures \in Nat \ {0} /\ OpenTimeout \in Nat \ {0} /\ HalfOpenMaxRequests \in Nat \ {0}

VARIABLES
  circuit,              \* state
  consecutiveFailures,
  sinceFailure,         \* the age of lastFailureTime, until it no longer matters
  halfOpenRequests,
  requesting,           \* the requests between beforeRequest and afterRequest
  tests                 \* history: those admitted in this half-open period

breakerVars ==
  <<circuit, consecutiveFailures, sinceFailure, halfOpenRequests, requesting, tests>>

ClientBreakerInit ==
  /\ circuit = "closed"
  /\ consecutiveFailures = 0
  /\ sinceFailure = OpenTimeout
  /\ halfOpenRequests = 0
  /\ requesting = {}
  /\ tests = {}

BreakerTick ==
  /\ sinceFailure < OpenTimeout
  /\ sinceFailure' = sinceFailure + 1
  /\ UNCHANGED <<circuit, consecutiveFailures, halfOpenRequests, requesting, tests>>

\* beforeRequest, where it admits; otherwise it changes nothing and the request
\* comes back with ErrCircuitOpen.
AdmitClosed(r) ==
  /\ circuit = "closed" /\ r \notin requesting
  /\ requesting' = requesting \cup {r}
  /\ UNCHANGED <<circuit, consecutiveFailures, sinceFailure, halfOpenRequests, tests>>

\* Mutated form: the request that ends the open period is not counted.
AdmitFirstTest_Uncounted(r) ==
  /\ circuit = "open" /\ sinceFailure >= OpenTimeout /\ r \notin requesting
  /\ circuit' = "half-open"
  /\ halfOpenRequests' = 0
  /\ requesting' = requesting \cup {r}
  /\ tests' = {r}
  /\ UNCHANGED <<consecutiveFailures, sinceFailure>>

AdmitFirstTest(r) ==
  /\ circuit = "open" /\ sinceFailure >= OpenTimeout /\ r \notin requesting
  /\ circuit' = "half-open"
  /\ halfOpenRequests' = 1
  /\ requesting' = requesting \cup {r}
  /\ tests' = {r}
  /\ UNCHANGED <<consecutiveFailures, sinceFailure>>

AdmitTest(r) ==
  /\ circuit = "half-open" /\ halfOpenRequests < HalfOpenMaxRequests /\ r \notin requesting
  /\ halfOpenRequests' = halfOpenRequests + 1
  /\ requesting' = requesting \cup {r}
  /\ tests' = tests \cup {r}
  /\ UNCHANGED <<circuit, consecutiveFailures, sinceFailure>>

\* afterRequest of a success.
Succeeds(r) ==
  /\ r \in requesting
  /\ requesting' = requesting \ {r}
  /\ consecutiveFailures' = IF circuit = "open" THEN consecutiveFailures ELSE 0
  /\ circuit' = IF circuit = "half-open" THEN "closed" ELSE circuit
  /\ halfOpenRequests' = IF circuit = "half-open" THEN 0 ELSE halfOpenRequests
  /\ tests' = IF circuit = "half-open" THEN {} ELSE tests \ {r}
  /\ UNCHANGED sinceFailure

\* Of an error ShouldTrip passes over, such as a cancelled context: nothing
\* changes, the slot of a test request included.
EndsUncounted(r) ==
  /\ r \in requesting
  /\ requesting' = requesting \ {r}
  /\ tests' = tests \ {r}
  /\ UNCHANGED <<circuit, consecutiveFailures, sinceFailure, halfOpenRequests>>

\* Of a failure that counts.
Fails(r) ==
  /\ r \in requesting
  /\ requesting' = requesting \ {r}
  /\ sinceFailure' = 0
  /\ consecutiveFailures' =
       IF circuit = "closed" THEN consecutiveFailures + 1 ELSE consecutiveFailures
  /\ circuit' = CASE circuit = "closed" -> IF consecutiveFailures + 1 >= MaxFailures
                                             THEN "open" ELSE "closed"
                  [] OTHER -> "open"
  /\ halfOpenRequests' = IF circuit = "half-open" THEN 0 ELSE halfOpenRequests
  /\ tests' = IF circuit = "half-open" THEN {} ELSE tests \ {r}

ClientBreakerNext ==
  \/ BreakerTick
  \/ \E r \in Requesters :
       \/ AdmitClosed(r) \/ AdmitFirstTest(r) \/ AdmitTest(r)
       \/ Succeeds(r) \/ EndsUncounted(r) \/ Fails(r)

ClientBreakerSpec == ClientBreakerInit /\ [][ClientBreakerNext]_breakerVars

-----------------------------------------------------------------------------
\* A half-open period has at most HalfOpenMaxRequests test requests in flight,
\* also when requests admitted before it end during it.
TestsWithinLimit ==
  /\ Cardinality(tests) <= HalfOpenMaxRequests
  /\ circuit = "half-open" => Cardinality(tests) <= halfOpenRequests

\* After a non-tripping error in half-open the "circuit will eventually timeout
\* and try again, or another test request will complete with success or failure"
\* (afterRequest): with no test request in flight, one is admitted.
HalfOpenTriesAgain ==
  circuit = "half-open" /\ tests = {} => halfOpenRequests < HalfOpenMaxRequests

-----------------------------------------------------------------------------
ClientBreakerTypeOK ==
  /\ circuit \in {"closed", "open", "half-open"}
  /\ consecutiveFailures \in Nat
  /\ sinceFailure \in 0..OpenTimeout
  /\ halfOpenRequests \in 0..HalfOpenMaxRequests
  /\ requesting \subseteq Requesters
  /\ tests \subseteq requesting

\* Test requests are there in a half-open period only, and each holds a slot of
\* its own; a slot need not have its request any more (EndsUncounted).
TestsHoldSlots ==
  /\ IsFiniteSet(tests)
  /\ circuit = "half-open" => Cardinality(tests) <= halfOpenRequests
  /\ circuit # "half-open" => tests = {}

ClientBreakerInv == ClientBreakerTypeOK /\ TestsHoldSlots
=============================================================================
