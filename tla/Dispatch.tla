------------------------------ MODULE Dispatch ------------------------------
(***************************************************************************)
(* Server.HandleMessage (dispatch.go): the handshake, the table of running *)
(* requests that notifications/cancelled reaches into (server.go), and     *)
(* Shutdown (serve.go).                                                    *)
(*                                                                         *)
(* Every member of Messages is one invocation of HandleMessage, each on    *)
(* its own goroutine, as the HTTP transports run them.  Id[m] is the       *)
(* JSON-RPC id of a request, and for a cancel notification the requestId   *)
(* it names, as its JSON type and its text; From[m] is the connection it   *)
(* came in on.  What the routed method itself does is in other modules.    *)
(***************************************************************************)
EXTENDS Naturals, FiniteSets

CONSTANTS
  Messages,
  Kind,        \* Kind[m]: "initialize", "request" or "cancelled"
  Id, From,
  IdTexts,
  Supported, Preferred,  \* supportedVersions and its first element
  Unsupported,           \* a version outside them
  NoVersion,             \* the empty string
  Nobody                 \* no message

Kinds == {"initialize", "request", "cancelled"}
IdTypes == {"string", "number", "other"}

ASSUME MessagesAssumption ==
  /\ Kind \in [Messages -> Kinds]
  /\ Id \in [Messages -> [type : IdTypes, text : IdTexts]]
  /\ Nobody \notin Messages
ASSUME VersionsAssumption ==
  Preferred \in Supported /\ NoVersion \notin Supported /\ Unsupported \notin Supported

VARIABLES
  at,           \* where each invocation is
  inflight,     \* the invocations the WaitGroup counts
  requests,     \* Server.requests: the request whose cancel function each key has
  ctxDone,      \* the requests whose context was cancelled
  hit,          \* hit[c]: the request whose cancel function notification c found
  initialized, negotiatedVersion,
  shutdown,     \* "none", "waiting", "drained" or "timedOut"
  done,         \* the channel that Shutdown's goroutine closes
  awaited       \* the invocations that were in flight when Shutdown was called

vars == <<at, inflight, requests, ctxDone, hit, initialized, negotiatedVersion,
          shutdown, done, awaited>>
handshakeVars == <<initialized, negotiatedVersion>>
shutdownVars == <<shutdown, done, awaited>>

Requests == {m \in Messages : Kind[m] \in {"initialize", "request"}}

Cancels == {m \in Messages : Kind[m] = "cancelled"}

Stages == {"none", "received", "tracked", "negotiating", "agreed", "running", "answered",
           "untracked", "cancelling", "returned"}

\* Between trackRequest and the deferred untrackRequest.
Tracked == {"tracked", "negotiating", "agreed", "running", "answered"}

Init ==
  /\ at = [m \in Messages |-> "none"]
  /\ inflight = {}
  /\ requests = [k \in {"s", "n"} \X IdTexts |-> Nobody]
  /\ ctxDone = {}
  /\ hit = [m \in Messages |-> Nobody]
  /\ initialized = FALSE
  /\ negotiatedVersion = NoVersion
  /\ shutdown = "none"
  /\ done = FALSE
  /\ awaited = {}

Go(m, from, to) == at[m] = from /\ at' = [at EXCEPT ![m] = to]

-----------------------------------------------------------------------------
(***************************************************************************)
(* The request table                                                       *)
(***************************************************************************)
\* Mutated form: the type prefix is left out of the key.
NormalizeRequestID_Untyped(id) == <<"s", id.text>>

\* The key of an id: its text with a prefix for its type.
NormalizeRequestID(id) == <<IF id.type = "string" THEN "s" ELSE "n", id.text>>

\* Null, booleans, arrays and objects have no key and are never tracked.
HasKey(id) == id.type \in {"string", "number"}

\* The table with the entry of id set to m, Nobody for a deleted entry.
SetEntry(id, m) ==
  IF HasKey(id) THEN [requests EXCEPT ![NormalizeRequestID(id)] = m] ELSE requests

-----------------------------------------------------------------------------
(***************************************************************************)
(* HandleMessage and handleRequest                                         *)
(***************************************************************************)
\* Mutated form: an invocation is counted after the body was parsed, so the
\* count misses those that have just come in.
Receive_NotCounted(m) ==
  /\ Go(m, "none", "received")
  /\ UNCHANGED <<inflight, requests, ctxDone, hit, handshakeVars, shutdownVars>>

Receive(m) ==
  /\ Go(m, "none", "received")
  /\ inflight' = inflight \cup {m}
  /\ UNCHANGED <<requests, ctxDone, hit, handshakeVars, shutdownVars>>

\* Any message may be refused for a parse error, a wrong jsonrpc version or an
\* empty method.
RejectMalformed(m) ==
  /\ Go(m, "received", "returned")
  /\ inflight' = inflight \ {m}
  /\ UNCHANGED <<requests, ctxDone, hit, handshakeVars, shutdownVars>>

\* trackRequest; an entry with the same key is overwritten.
TrackRequest(m) ==
  /\ m \in Requests
  /\ Go(m, "received", "tracked")
  /\ requests' = SetEntry(Id[m], m)
  /\ UNCHANGED <<inflight, ctxDone, hit, handshakeVars, shutdownVars>>

\* One load of the flag: initialize is refused after the handshake, every
\* other method before it.  Past it, ping, the auth check, tenant resolution
\* and an unknown method answer without running a handler.
Route(m) ==
  /\ \/ Kind[m] = "initialize" /\ ~initialized /\ Go(m, "tracked", "negotiating")
     \/ Kind[m] = "initialize" /\ initialized /\ Go(m, "tracked", "answered")
     \/ Kind[m] = "request" /\ initialized /\ Go(m, "tracked", "running")
     \/ Kind[m] = "request" /\ Go(m, "tracked", "answered")
  /\ UNCHANGED <<inflight, requests, ctxDone, hit, handshakeVars, shutdownVars>>

\* The client's version if the server supports it, else the server's first.
NegotiateVersion(asked) == IF asked \in Supported THEN asked ELSE Preferred

\* handleInitialize past its load of the flag: a missing version is invalid
\* parameters; the version is stored under the lock, then the flag is set.
HandleInitialize(m, asked) ==
  /\ \/ /\ asked = NoVersion
        /\ Go(m, "negotiating", "answered")
        /\ UNCHANGED handshakeVars
     \/ /\ asked # NoVersion
        /\ Go(m, "negotiating", "agreed")
        /\ negotiatedVersion' = NegotiateVersion(asked)
        /\ UNCHANGED initialized
     \/ /\ Go(m, "agreed", "answered")
        /\ initialized' = TRUE
        /\ UNCHANGED negotiatedVersion
  /\ UNCHANGED <<inflight, requests, ctxDone, hit, shutdownVars>>

\* The method's handler returns, in its own time or because its context was
\* cancelled.
HandlerReturns(m) ==
  /\ Go(m, "running", "answered")
  /\ UNCHANGED <<inflight, requests, ctxDone, hit, handshakeVars, shutdownVars>>

\* The deferred untrackRequest: by key, whoever's entry is there.
UntrackRequest(m) ==
  /\ Go(m, "answered", "untracked")
  /\ requests' = SetEntry(Id[m], Nobody)
  /\ UNCHANGED <<inflight, ctxDone, hit, handshakeVars, shutdownVars>>

\* The other deferred calls: cancel, then Done of the WaitGroup.
Return(m) ==
  /\ Go(m, "untracked", "returned")
  /\ ctxDone' = ctxDone \cup {m}
  /\ inflight' = inflight \ {m}
  /\ UNCHANGED <<requests, hit, handshakeVars, shutdownVars>>

-----------------------------------------------------------------------------
(***************************************************************************)
(* notifications/cancelled: cancelRequest takes the entry out under the    *)
(* lock and calls the function after it.                                   *)
(***************************************************************************)
\* Mutated form: the entry is deleted and the function never called.
CancelRequest_DeleteOnly(c) ==
  /\ Kind[c] = "cancelled"
  /\ \/ /\ Go(c, "received", "cancelling")
        /\ hit' = [hit EXCEPT ![c] = IF HasKey(Id[c]) THEN requests[NormalizeRequestID(Id[c])] ELSE Nobody]
        /\ requests' = SetEntry(Id[c], Nobody)
        /\ UNCHANGED <<ctxDone, inflight>>
     \/ /\ Go(c, "cancelling", "returned")
        /\ inflight' = inflight \ {c}
        /\ UNCHANGED <<requests, hit, ctxDone>>
  /\ UNCHANGED <<handshakeVars, shutdownVars>>

CancelRequest(c) ==
  /\ Kind[c] = "cancelled"
  /\ \/ /\ Go(c, "received", "cancelling")
        /\ hit' = [hit EXCEPT ![c] = IF HasKey(Id[c]) THEN requests[NormalizeRequestID(Id[c])] ELSE Nobody]
        /\ requests' = SetEntry(Id[c], Nobody)
        /\ UNCHANGED <<ctxDone, inflight>>
     \/ /\ Go(c, "cancelling", "returned")
        /\ ctxDone' = ctxDone \cup ({hit[c]} \ {Nobody})
        /\ inflight' = inflight \ {c}
        /\ UNCHANGED <<requests, hit>>
  /\ UNCHANGED <<handshakeVars, shutdownVars>>

-----------------------------------------------------------------------------
(***************************************************************************)
(* Shutdown: a goroutine waits for the WaitGroup, Shutdown for it or for   *)
(* the caller's context.  Messages may still come in meanwhile.            *)
(***************************************************************************)
Shutdown ==
  /\ shutdown = "none"
  /\ shutdown' = "waiting"
  /\ awaited' = {m \in Messages : at[m] \notin {"none", "returned"}}
  /\ UNCHANGED <<at, inflight, requests, ctxDone, hit, handshakeVars, done>>

WaitReturns ==
  /\ shutdown # "none" /\ ~done
  /\ inflight = {}
  /\ done' = TRUE
  /\ UNCHANGED <<at, inflight, requests, ctxDone, hit, handshakeVars, shutdown, awaited>>

ShutdownReturns ==
  /\ shutdown = "waiting"
  /\ \/ done /\ shutdown' = "drained"
     \/ shutdown' = "timedOut"
  /\ UNCHANGED <<at, inflight, requests, ctxDone, hit, handshakeVars, done, awaited>>

-----------------------------------------------------------------------------
Handle(m) ==
  \/ RejectMalformed(m) \/ TrackRequest(m) \/ Route(m) \/ UntrackRequest(m) \/ Return(m)
  \/ CancelRequest(m)
  \/ \E asked \in Supported \cup {Unsupported, NoVersion} : HandleInitialize(m, asked)

Next ==
  \/ \E m \in Messages : Receive(m) \/ Handle(m) \/ HandlerReturns(m)
  \/ Shutdown \/ WaitReturns \/ ShutdownReturns

\* The goroutines run, and a handler whose context was cancelled returns.
Fairness ==
  \A m \in Messages : WF_vars(Handle(m)) /\ WF_vars(m \in ctxDone /\ HandlerReturns(m))

Spec == Init /\ [][Next]_vars
FairSpec == Spec /\ Fairness

-----------------------------------------------------------------------------
(***************************************************************************)
(* Properties                                                              *)
(***************************************************************************)
\* The variables hold what the fields of Server hold.
TypeOK ==
  /\ at \in [Messages -> Stages]
  /\ inflight \subseteq Messages
  /\ requests \in [{"s", "n"} \X IdTexts -> Messages \cup {Nobody}]
  /\ ctxDone \subseteq Messages
  /\ hit \in [Messages -> Messages \cup {Nobody}]
  /\ initialized \in BOOLEAN
  /\ negotiatedVersion \in Supported \cup {NoVersion}
  /\ shutdown \in {"none", "waiting", "drained", "timedOut"}
  /\ done \in BOOLEAN
  /\ awaited \subseteq Messages

\* Server.requests never keeps an entry for a request that has returned, not
\* even where clients reuse an id, a cancel raced the end of the request or
\* the request was refused.
EntriesAreRunning ==
  \A k \in DOMAIN requests :
    requests[k] # Nobody => /\ at[requests[k]] \in Tracked
                            /\ NormalizeRequestID(Id[requests[k]]) = k

\* A request with an id no other request has can be cancelled for as long as
\* it runs: its entry is there unless a cancel notification has taken it.
Cancellable ==
  \A m \in Requests :
    /\ at[m] \in Tracked /\ HasKey(Id[m])
    /\ \A other \in Requests \ {m} : Id[other] # Id[m]
    => \/ requests[NormalizeRequestID(Id[m])] = m
       \/ \E c \in Messages : hit[c] = m

\* No method other than initialize runs before handleInitialize stored the
\* version both sides speak, however initialize and requests interleave.
HandshakeBeforeUse ==
  \A m \in Messages : Kind[m] = "request" /\ at[m] = "running" => negotiatedVersion \in Supported

\* When Shutdown returns nil, every message that was in flight when it was
\* called has been handled to the end, whatever came in after it.
ShutdownDrains ==
  shutdown = "drained" => \A m \in awaited : at[m] = "returned"

\* A request whose entry a cancel notification found comes to its end.
CancelledRequestEnds ==
  \A c \in Cancels, m \in Requests : hit[c] = m ~> at[m] = "returned"

\* Not true of this code: a cancel notification reaches requests of the
\* connection it came in on only.
CancelStaysInSession ==
  \A c \in Messages : hit[c] # Nobody => From[hit[c]] = From[c]

-----------------------------------------------------------------------------
(***************************************************************************)
(* The inductive invariant of the proofs, by part.                         *)
(***************************************************************************)
\* The table: every entry belongs to a running request that has a key, and a
\* cancel notification has found nothing before it looked.
TableInv ==
  /\ EntriesAreRunning
  /\ \A k \in DOMAIN requests : requests[k] # Nobody => HasKey(Id[requests[k]])
  /\ \A m \in Messages : at[m] \in Tracked => m \in Requests
  /\ \A c \in Messages : at[c] \in {"none", "received"} => hit[c] = Nobody
  /\ Cancellable

\* The handshake: the version is stored before the flag is, and nothing
\* clears either.
HandshakeInv ==
  /\ \A m \in Messages : at[m] = "agreed" => negotiatedVersion # NoVersion
  /\ initialized => negotiatedVersion # NoVersion
  /\ \A m \in Messages : at[m] = "running" => initialized

\* Shutdown: the WaitGroup counts exactly the invocations under way, and once
\* it was zero after the call, those awaited are over.
ShutdownInv ==
  /\ inflight = {m \in Messages : at[m] \notin {"none", "returned"}}
  /\ shutdown = "none" => ~done
  /\ \A m \in awaited : at[m] # "none"
  /\ done => \A m \in awaited : at[m] = "returned"
  /\ shutdown = "drained" => done

IndInv == TypeOK /\ TableInv /\ HandshakeInv /\ ShutdownInv
=============================================================================
