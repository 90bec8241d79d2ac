------------------------------ MODULE Coalescer ------------------------------
(***************************************************************************)
(* Request coalescing in the client (client/coalescing.go, callCoalesced   *)
(* and executeRequest in client/client.go).  A flight is the shared        *)
(* request of the callers with one key; its goroutine is execute.  A step  *)
(* is one critical section of the coalescer or of a flight, or the end of  *)
(* a wait.                                                                 *)
(***************************************************************************)
EXTENDS Naturals, FiniteSets

CONSTANTS
  Waiters,              \* goroutines that call Do
  RequestKeys,          \* method and canonical params
  MaxInflightRequests,
  MaxFlights            \* bound: flights in a behaviour

ASSUME CoalescerAssumption == MaxInflightRequests \in Nat /\ MaxFlights \in Nat

VARIABLES
  inflight,    \* key |-> flight, 0 when there is none
  flightKey,   \* the key each flight was made for
  callers,     \* f.callers
  phase,       \* of execute: unused, window, running, done (f.done closed), gone
  parentDone,  \* the flights whose parentCtx has ended
  outcome,     \* f.result and f.err
  waitsFor,    \* the flight of each waiter, 0 when idle
  step,        \* idle, waiting, last (left as the last caller)
  got          \* what the waiter's latest Do returned

coalescerVars ==
  <<inflight, flightKey, callers, phase, parentDone, outcome, waitsFor, step, got>>

Flights == 1 .. MaxFlights

CoalescerInit ==
  /\ inflight = [k \in RequestKeys |-> 0]
  /\ flightKey = [f \in Flights |-> CHOOSE k \in RequestKeys : TRUE]
  /\ callers = [f \in Flights |-> 0]
  /\ phase = [f \in Flights |-> "unused"]
  /\ parentDone = {}
  /\ outcome = [f \in Flights |-> "none"]
  /\ waitsFor = [w \in Waiters |-> 0]
  /\ step = [w \in Waiters |-> "idle"]
  /\ got = [w \in Waiters |-> "none"]

Live == {k \in RequestKeys : inflight[k] # 0}

\* Do finds no flight and makes one, below the limit; at the limit it returns
\* an error and leaves everything as it is.
CreateFlight(w, k, f) ==
  /\ step[w] = "idle" /\ inflight[k] = 0
  /\ MaxInflightRequests > 0 => Cardinality(Live) < MaxInflightRequests
  /\ phase[f] = "unused" /\ \A g \in Flights : g < f => phase[g] # "unused"
  /\ inflight' = [inflight EXCEPT ![k] = f]
  /\ flightKey' = [flightKey EXCEPT ![f] = k]
  /\ callers' = [callers EXCEPT ![f] = 1]
  /\ phase' = [phase EXCEPT ![f] = "window"]
  /\ waitsFor' = [waitsFor EXCEPT ![w] = f]
  /\ step' = [step EXCEPT ![w] = "waiting"]
  /\ UNCHANGED <<parentDone, outcome, got>>

JoinFlight(w, k) ==
  /\ step[w] = "idle" /\ inflight[k] # 0
  /\ callers' = [callers EXCEPT ![inflight[k]] = @ + 1]
  /\ waitsFor' = [waitsFor EXCEPT ![w] = inflight[k]]
  /\ step' = [step EXCEPT ![w] = "waiting"]
  /\ UNCHANGED <<inflight, flightKey, phase, parentDone, outcome, got>>

(***************************************************************************)
(* execute                                                                 *)
(***************************************************************************)
WindowExpires(f) ==
  /\ phase[f] = "window"
  /\ phase' = [phase EXCEPT ![f] = "running"]
  /\ UNCHANGED <<inflight, flightKey, callers, parentDone, outcome, waitsFor, step, got>>

Finish(f, how) ==
  /\ phase' = [phase EXCEPT ![f] = "done"]
  /\ outcome' = [outcome EXCEPT ![f] = how]
  /\ UNCHANGED <<inflight, flightKey, callers, parentDone, waitsFor, step, got>>

AbortInWindow(f) == phase[f] = "window" /\ f \in parentDone /\ Finish(f, "cancelled")

\* executeRequest: a response, an error (a recovered panic too), or the end of
\* the flight's context.
RequestAnswered(f, how) == phase[f] = "running" /\ Finish(f, how)
RequestCancelled(f) == phase[f] = "running" /\ f \in parentDone /\ Finish(f, "cancelled")

\* The deferred cleanup, after done is closed.
LeaveMap(f) ==
  /\ phase[f] = "done"
  /\ phase' = [phase EXCEPT ![f] = "gone"]
  /\ inflight' = [inflight EXCEPT ![flightKey[f]] = 0]
  /\ parentDone' = parentDone \cup {f}
  /\ UNCHANGED <<flightKey, callers, outcome, waitsFor, step, got>>

(***************************************************************************)
(* waitForFlight                                                           *)
(***************************************************************************)
\* The caller leaves the count; the last one goes on to look at done.
LeaveCount(w, what) ==
  LET f == waitsFor[w]
  IN  /\ callers' = [callers EXCEPT ![f] = @ - 1]
      /\ got' = [got EXCEPT ![w] = what]
      /\ IF callers[f] = 1
           THEN step' = [step EXCEPT ![w] = "last"] /\ UNCHANGED waitsFor
           ELSE /\ step' = [step EXCEPT ![w] = "idle"]
                /\ waitsFor' = [waitsFor EXCEPT ![w] = 0]
      /\ UNCHANGED <<inflight, flightKey, phase, parentDone, outcome>>

TakeResult(w) ==
  /\ step[w] = "waiting" /\ phase[waitsFor[w]] \in {"done", "gone"}
  /\ LeaveCount(w, outcome[waitsFor[w]])

GiveUp(w) == step[w] = "waiting" /\ LeaveCount(w, "own context")

\* Mutated form: nobody cancels the shared request.
CancelParent_Never(w) ==
  /\ step[w] = "last"
  /\ step' = [step EXCEPT ![w] = "idle"]
  /\ waitsFor' = [waitsFor EXCEPT ![w] = 0]
  /\ UNCHANGED <<inflight, flightKey, callers, phase, parentDone, outcome, got>>

\* The last caller cancels the shared request unless it is done.
CancelParent(w) ==
  LET f == waitsFor[w]
  IN  /\ step[w] = "last"
      /\ parentDone' = IF phase[f] \in {"done", "gone"} THEN parentDone ELSE parentDone \cup {f}
      /\ step' = [step EXCEPT ![w] = "idle"]
      /\ waitsFor' = [waitsFor EXCEPT ![w] = 0]
      /\ UNCHANGED <<inflight, flightKey, callers, phase, outcome, got>>

ExecuteStep(f) == WindowExpires(f) \/ AbortInWindow(f) \/ RequestCancelled(f) \/ LeaveMap(f)

CoalescerNext ==
  \/ \E w \in Waiters :
       \/ TakeResult(w) \/ GiveUp(w) \/ CancelParent(w)
       \/ \E k \in RequestKeys : JoinFlight(w, k) \/ \E f \in Flights : CreateFlight(w, k, f)
  \/ \E f \in Flights : ExecuteStep(f) \/ \E how \in {"ok", "error"} : RequestAnswered(f, how)

CoalescerSpec == CoalescerInit /\ [][CoalescerNext]_coalescerVars

\* Goroutines run; the server may never answer.
CoalescerFairness ==
  /\ \A f \in Flights : WF_coalescerVars(ExecuteStep(f))
  /\ \A w \in Waiters : WF_coalescerVars(TakeResult(w)) /\ WF_coalescerVars(CancelParent(w))

-----------------------------------------------------------------------------
\* At no time are two requests with the same key under way, and every flight
\* that is, is the one callers with its key would join.
OneFlightPerKey ==
  \A f \in Flights : phase[f] \in {"window", "running", "done"} => inflight[flightKey[f]] = f

\* A request that every caller has given up is ended even if the server never
\* answers, unless a new caller joins it first.
AbandonedFlightsEnd ==
  \A f \in Flights :
    (phase[f] \in {"window", "running"} /\ callers[f] = 0) ~> (phase[f] = "gone" \/ callers[f] > 0)

\* If a caller's context is cancelled it "returns immediately [...] but the
\* shared request continues for other waiters" (Do): nobody is handed another
\* caller's cancellation.
OthersUnaffected == \A w \in Waiters : got[w] # "cancelled"

-----------------------------------------------------------------------------
FlightsTypeOK ==
  /\ inflight \in [RequestKeys -> Flights \cup {0}]
  /\ phase \in [Flights -> {"unused", "window", "running", "done", "gone"}]
  /\ flightKey = [f \in Flights |-> flightKey[f]]
  /\ \A f \in Flights : phase[f] # "unused" => flightKey[f] \in RequestKeys

\* What the map holds is a flight made for that key, which has not left it.
MapHoldsFlights ==
  \A k \in RequestKeys :
    inflight[k] # 0 =>
      flightKey[inflight[k]] = k /\ phase[inflight[k]] \in {"window", "running", "done"}

CoalescerInv == FlightsTypeOK /\ MapHoldsFlights /\ OneFlightPerKey
=============================================================================
