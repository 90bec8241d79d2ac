---------------------------- MODULE ClientCalls ----------------------------
(***************************************************************************)
(* From a typed helper of the client down to the wire: requireInit, the    *)
(* choice between the coalescer and the retry loop (client.go), and the    *)
(* retry loop with its idempotency keys (client/retry.go).  A request may  *)
(* be executed long after the attempt that sent it has failed; a server    *)
(* that keeps the keys it has seen does what a key asks for once.          *)
(***************************************************************************)
EXTENDS Naturals

CONSTANTS
  Callers,
  MaxCallRetries,     \* Options.MaxRetries; 0 turns the retry loop off
  RequestCoalescing,  \* Options.RequestCoalescing
  EnableIdempotency   \* Options.EnableIdempotency

ASSUME ClientCallsAssumption ==
  /\ MaxCallRetries \in Nat
  /\ RequestCoalescing \in BOOLEAN /\ EnableIdempotency \in BOOLEAN

VARIABLES
  initialized,  \* Client.initialized
  calls,        \* [pc, attempt, key] of each caller
  callDone,     \* callers whose context is done
  nextKey,      \* keys drawn so far; a key is fresh random bytes
  callWire,     \* requests the server has not executed: [caller, attempt, key]
  executed,     \* <<caller, attempt>> of the ones it has
  seenKeys,     \* the keys the server has seen
  effects       \* how often the server did what the caller asked for

callPathVars == <<initialized, calls, callDone, nextKey, callWire, executed, seenKeys, effects>>

NoKey == 0

CallsInit ==
  /\ initialized = FALSE
  /\ calls = [c \in Callers |-> [pc |-> "idle", attempt |-> 0, key |-> NoKey]]
  /\ callDone = {}
  /\ nextKey = 1
  /\ callWire = {} /\ executed = {} /\ seenKeys = {}
  /\ effects = [c \in Callers |-> 0]

(***************************************************************************)
(* The typed helpers, by the method each sends                             *)
(***************************************************************************)
ToolHelpers == {"ping", "tools/list", "tools/call"}

ResourceHelpers ==
  {"resources/list", "resources/read", "resources/templates/list",
   "resources/subscribe", "resources/unsubscribe"}

PromptHelpers ==
  {"prompts/list", "prompts/get", "roots/list", "completion/complete", "logging/setLevel"}

TaskHelpers == {"tasks/get", "tasks/result", "tasks/cancel", "tasks/list"}

Helpers == ToolHelpers \cup ResourceHelpers \cup PromptHelpers \cup TaskHelpers

CanCoalesceMethod(m) ==
  m \in {"ping", "tools/list", "resources/list", "resources/read", "resources/templates/list",
         "prompts/list", "prompts/get", "roots/list", "tasks/get", "tasks/result", "tasks/list"}

\* The handshake, or a caller whose context ends.
Initialize ==
  /\ ~initialized /\ initialized' = TRUE
  /\ UNCHANGED <<calls, callDone, nextKey, callWire, executed, seenKeys, effects>>

CallCtxEnds(c) ==
  /\ c \notin callDone /\ callDone' = callDone \cup {c}
  /\ UNCHANGED <<initialized, calls, nextKey, callWire, executed, seenKeys, effects>>

Goes(c, where) == calls' = [calls EXCEPT ![c].pc = where]

\* requireInit, then call: eligible methods are shared by the coalescer, the others go to
\* the retry loop, which draws one key for all attempts.  Parameters that are not an
\* object, which only Client.Call can pass, get no key.
CallHelper(c, m) ==
  /\ calls[c].pc = "idle"
  /\ IF ~initialized
       THEN Goes(c, "failed") /\ UNCHANGED nextKey
     ELSE IF RequestCoalescing /\ CanCoalesceMethod(m)
       THEN Goes(c, "coalesced") /\ UNCHANGED nextKey
     ELSE IF MaxCallRetries > 0 /\ EnableIdempotency
       THEN /\ calls' = [calls EXCEPT ![c] = [pc |-> "attempt", attempt |-> 0, key |-> nextKey]]
            /\ nextKey' = nextKey + 1
     ELSE Goes(c, "attempt") /\ UNCHANGED nextKey
  /\ UNCHANGED <<initialized, callDone, callWire, executed, seenKeys, effects>>

CallWithoutKey(c) ==
  /\ calls[c].pc = "idle"
  /\ Goes(c, "attempt")
  /\ UNCHANGED <<initialized, callDone, nextKey, callWire, executed, seenKeys, effects>>

(***************************************************************************)
(* callWithRetry                                                           *)
(***************************************************************************)
\* Mutated form: every attempt draws a key.
CallDirect_FreshKey(c) ==
  /\ calls[c].pc = "attempt"
  /\ callWire' = callWire \cup {[caller |-> c, attempt |-> calls[c].attempt, key |-> nextKey]}
  /\ calls' = [calls EXCEPT ![c].pc = "sent", ![c].key = nextKey]
  /\ nextKey' = nextKey + 1
  /\ UNCHANGED <<initialized, callDone, executed, seenKeys, effects>>

\* callDirect sends the request.
CallDirect(c) ==
  /\ calls[c].pc = "attempt"
  /\ callWire' = callWire \cup {[caller |-> c, attempt |-> calls[c].attempt, key |-> calls[c].key]}
  /\ Goes(c, "sent")
  /\ UNCHANGED <<initialized, callDone, nextKey, executed, seenKeys, effects>>

\* The server executes a request, or answers from what it remembers of the key.
Executes(r) ==
  /\ r \in callWire
  /\ callWire' = callWire \ {r}
  /\ executed' = executed \cup {<<r.caller, r.attempt>>}
  /\ seenKeys' = IF r.key = NoKey THEN seenKeys ELSE seenKeys \cup {r.key}
  /\ effects' = IF r.key \in seenKeys THEN effects ELSE [effects EXCEPT ![r.caller] = @ + 1]
  /\ UNCHANGED <<initialized, calls, callDone, nextKey>>

AttemptSucceeds(c) ==
  /\ calls[c].pc = "sent" /\ <<c, calls[c].attempt>> \in executed
  /\ Goes(c, "returned")
  /\ UNCHANGED <<initialized, callDone, nextKey, callWire, executed, seenKeys, effects>>

\* A retryable code or ErrClosed, whether the request was executed or not; after the
\* last attempt the error is ErrMaxRetriesExceeded.
AttemptFails(c) ==
  /\ calls[c].pc = "sent"
  /\ Goes(c, IF calls[c].attempt < MaxCallRetries THEN "waiting" ELSE "failed")
  /\ UNCHANGED <<initialized, callDone, nextKey, callWire, executed, seenKeys, effects>>

CallFailsForGood(c) ==
  /\ calls[c].pc = "sent"
  /\ Goes(c, "failed")
  /\ UNCHANGED <<initialized, callDone, nextKey, callWire, executed, seenKeys, effects>>

\* The backoff timer and ctx race; ctx also ends an attempt (CallFailsForGood).
BackoffEnds(c) ==
  /\ calls[c].pc = "waiting"
  /\ calls' = [calls EXCEPT ![c].pc = "attempt", ![c].attempt = @ + 1]
  /\ UNCHANGED <<initialized, callDone, nextKey, callWire, executed, seenKeys, effects>>

BackoffCancelled(c) ==
  /\ calls[c].pc = "waiting" /\ c \in callDone
  /\ Goes(c, "failed")
  /\ UNCHANGED <<initialized, callDone, nextKey, callWire, executed, seenKeys, effects>>

CallsNext ==
  \/ Initialize
  \/ \E c \in Callers :
       \/ CallCtxEnds(c) \/ CallWithoutKey(c)
       \/ \E m \in Helpers : CallHelper(c, m)
       \/ CallDirect(c) \/ AttemptSucceeds(c) \/ AttemptFails(c) \/ CallFailsForGood(c)
       \/ BackoffEnds(c) \/ BackoffCancelled(c)
  \/ \E r \in callWire : Executes(r)

CallsSpec == CallsInit /\ [][CallsNext]_callPathVars

-----------------------------------------------------------------------------
\* What a call with a key asks for is done at most once, however many attempts are made
\* and however late the server executes the earlier ones: callWithRetry draws the key
\* before the loop and every attempt carries it.
EffectOnce ==
  \A c \in Callers : calls[c].key # NoKey => effects[c] <= 1

-----------------------------------------------------------------------------
Call ==
  [pc : {"idle", "coalesced", "attempt", "sent", "waiting", "returned", "failed"},
   attempt : Nat, key : Nat]

CallsTypeOK ==
  /\ calls \in [Callers -> Call]
  /\ nextKey \in Nat \ {NoKey}
  /\ callWire \subseteq [caller : Callers, attempt : Nat, key : Nat]
  /\ seenKeys \subseteq Nat \ {NoKey}
  /\ effects \in [Callers -> Nat]

\* Keys are drawn in order, no two calls have the same one, and the server has
\* seen none that was not drawn.
KeysFresh ==
  /\ \A c \in Callers : calls[c].key < nextKey
  /\ \A c, d \in Callers : c # d /\ calls[c].key = calls[d].key => calls[c].key = NoKey
  /\ \A k \in seenKeys : k < nextKey

\* A request on the wire, of whatever attempt, carries the key of its call.
WireCarriesKey ==
  \A r \in callWire : calls[r.caller].pc # "idle" /\ r.key = calls[r.caller].key

\* A call that has not begun has no key and no effect.
IdleUntouched ==
  \A c \in Callers : calls[c].pc = "idle" => calls[c].key = NoKey /\ effects[c] = 0

\* The effect of a call with a key came with the key.
EffectSeen ==
  \A c \in Callers :
    calls[c].key # NoKey => effects[c] = 0 \/ (effects[c] = 1 /\ calls[c].key \in seenKeys)

CallsInv == CallsTypeOK /\ KeysFresh /\ WireCarriesKey /\ IdleUntouched /\ EffectSeen
=============================================================================
