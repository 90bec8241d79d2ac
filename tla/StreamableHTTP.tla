--------------------------- MODULE StreamableHTTP ---------------------------
(***************************************************************************)
(* Sessions of the Streamable HTTP transport (transport/streamable.go)     *)
(* over the server's registries: how a POSTed initialize makes a session,  *)
(* how the idle timer and DELETE take it apart, and the POST and GET       *)
(* handlers that run meanwhile.                                            *)
(*                                                                         *)
(* A session is named by the id createSession draws for it, 128 random     *)
(* bits, so an id is used once and a client knows it only from the reply   *)
(* to its initialize.  Time is not modelled: an armed timer may fire at    *)
(* any moment, and resetting an armed timer changes nothing.               *)
(***************************************************************************)
EXTENDS SessionRegistry

CONSTANTS
  Requests,   \* the POST and GET requests that carry a session id
  NoMethod    \* no request yet

VARIABLES
  initPost,     \* where the initialize POST of each session is
  initReply,    \* what it was answered
  mapped,       \* streamableHandler.sessions
  armed,        \* the sessions whose idle timer is running
  done,         \* the sessions whose done channel is closed
  teardown,     \* where the goroutine that won LoadAndDelete is
  initialized,  \* Server.initialized
  stage,        \* where each request is
  target,       \* the session it loaded
  method,       \* what it asks for
  getStreams,   \* the GET requests registered with their session
  gsDone        \* the GET streams whose own done channel is closed

sessionVars == <<initPost, initReply, mapped, armed, done, teardown, initialized>>
requestVars == <<stage, target, method, getStreams, gsDone>>
vars == <<registryVars, sessionVars, requestVars>>

\* The tools/call handlers stand for the tools that call AddSessionTool and
\* RemoveSessionTool for their own session.
Methods == {"get", "subscribe", "unsubscribe", "addTool", "removeTool"}

ASSUME NoMethodAssumption == NoMethod \notin Methods

InitStages == {"none", "storing", "created", "active", "negotiating",
               "answered", "refused"}
Replies == {"none", "result", "alreadyInitialized", "invalidParams"}
TeardownStages == {"none", "close", "done", "streams", "sender", "subscriptions", "tools", "finished"}
RequestStages == {"idle", "loaded", "handling", "adding", "streaming", "returned"}

TypeOK ==
  /\ RegistryTypeOK
  /\ initPost \in [Sessions -> InitStages]
  /\ initReply \in [Sessions -> Replies]
  /\ mapped \subseteq Sessions
  /\ armed \subseteq Sessions
  /\ done \subseteq Sessions
  /\ teardown \in [Sessions -> TeardownStages]
  /\ initialized \in BOOLEAN
  /\ stage \in [Requests -> RequestStages]
  /\ target \in [Requests -> Sessions \cup {NoSession}]
  /\ method \in [Requests -> Methods \cup {NoMethod}]
  /\ getStreams \subseteq Requests
  /\ gsDone \subseteq Requests

Init ==
  /\ RegistryInit
  /\ initPost = [s \in Sessions |-> "none"]
  /\ initReply = [s \in Sessions |-> "none"]
  /\ mapped = {}
  /\ armed = {}
  /\ done = {}
  /\ teardown = [s \in Sessions |-> "none"]
  /\ initialized = FALSE
  /\ stage = [r \in Requests |-> "idle"]
  /\ target = [r \in Requests |-> NoSession]
  /\ method = [r \in Requests |-> NoMethod]
  /\ getStreams = {}
  /\ gsDone = {}

-----------------------------------------------------------------------------

(***************************************************************************)
(* The initialize POST: createSession, the done check, handleInitialize.   *)
(***************************************************************************)
\* createSession: AddSender, then sessions.Store and time.AfterFunc, between
\* which nobody else knows the id.
CreateSession(s) ==
  /\ \/ /\ initPost[s] = "none"
        /\ AddSender(s)
        /\ initPost' = [initPost EXCEPT ![s] = "storing"]
        /\ UNCHANGED <<mapped, armed>>
     \/ /\ initPost[s] = "storing"
        /\ mapped' = mapped \cup {s}
        /\ armed' = armed \cup {s}
        /\ initPost' = [initPost EXCEPT ![s] = "created"]
        /\ UNCHANGED registryVars
  /\ UNCHANGED <<initReply, done, teardown, initialized, requestVars>>

\* The guard against a session that was closed meanwhile; the timer is reset.
InitCheckDone(s) ==
  /\ initPost[s] = "created"
  /\ IF s \in done
       THEN initPost' = [initPost EXCEPT ![s] = "refused"] /\ UNCHANGED armed
       ELSE initPost' = [initPost EXCEPT ![s] = "active"] /\ armed' = armed \cup {s}
  /\ UNCHANGED <<registryVars, initReply, mapped, done, teardown, initialized, requestVars>>

\* handleInitialize up to its writes: one load of the server-wide flag, then
\* the checks of the parameters.
HandleInitialize(s) ==
  /\ initPost[s] = "active"
  /\ IF initialized
       THEN /\ initPost' = [initPost EXCEPT ![s] = "answered"]
            /\ initReply' = [initReply EXCEPT ![s] = "alreadyInitialized"]
       ELSE \/ /\ initPost' = [initPost EXCEPT ![s] = "answered"]
               /\ initReply' = [initReply EXCEPT ![s] = "invalidParams"]
            \/ /\ initPost' = [initPost EXCEPT ![s] = "negotiating"]
               /\ UNCHANGED initReply
  /\ UNCHANGED <<registryVars, mapped, armed, done, teardown, initialized, requestVars>>

\* The negotiated version is stored, the flag set, the result sent with the
\* session id.
AnswerInitialize(s) ==
  /\ initPost[s] = "negotiating"
  /\ initialized' = TRUE
  /\ initPost' = [initPost EXCEPT ![s] = "answered"]
  /\ initReply' = [initReply EXCEPT ![s] = "result"]
  /\ UNCHANGED <<registryVars, mapped, armed, done, teardown, requestVars>>

-----------------------------------------------------------------------------
(***************************************************************************)
(* Taking a session apart.  The timer callback and DELETE compete for      *)
(* LoadAndDelete; the one that finds the session does the rest.            *)
(***************************************************************************)
TimerFires(s) ==
  /\ s \in armed
  /\ armed' = armed \ {s}
  /\ IF s \in mapped
       THEN mapped' = mapped \ {s} /\ teardown' = [teardown EXCEPT ![s] = "close"]
       ELSE UNCHANGED <<mapped, teardown>>
  /\ UNCHANGED <<registryVars, initPost, initReply, done, initialized, requestVars>>

\* handleDelete; an id that is not in the map is answered 404.
HandleDelete(s) ==
  /\ initPost[s] = "answered"
  /\ s \in mapped
  /\ mapped' = mapped \ {s}
  /\ teardown' = [teardown EXCEPT ![s] = "close"]
  /\ UNCHANGED <<registryVars, initPost, initReply, armed, done, initialized, requestVars>>

\* streamableSession.close: the timer is stopped, done is closed, and then, under
\* the session's lock, the done channel of every stream registered so far.
Close(s) ==
  /\ \/ /\ teardown[s] = "close"
        /\ armed' = armed \ {s} /\ UNCHANGED <<done, gsDone>>
        /\ teardown' = [teardown EXCEPT ![s] = "done"]
     \/ /\ teardown[s] = "done"
        /\ done' = done \cup {s} /\ UNCHANGED <<armed, gsDone>>
        /\ teardown' = [teardown EXCEPT ![s] = "streams"]
     \/ /\ teardown[s] = "streams"
        /\ gsDone' = gsDone \cup {r \in getStreams : target[r] = s} /\ UNCHANGED <<armed, done>>
        /\ teardown' = [teardown EXCEPT ![s] = "sender"]
  /\ UNCHANGED <<registryVars, initPost, initReply, mapped, initialized,
                 stage, target, method, getStreams>>

\* RemoveSender, UnsubscribeAll, RemoveSessionTools.
Cleanup(s) ==
  /\ \/ /\ teardown[s] = "sender" /\ RemoveSender(s)
        /\ teardown' = [teardown EXCEPT ![s] = "subscriptions"]
     \/ /\ teardown[s] = "subscriptions" /\ UnsubscribeAll(s)
        /\ teardown' = [teardown EXCEPT ![s] = "tools"]
     \/ /\ teardown[s] = "tools" /\ RemoveSessionTools(s)
        /\ teardown' = [teardown EXCEPT ![s] = "finished"]
  /\ UNCHANGED <<initPost, initReply, mapped, armed, done, initialized, requestVars>>

\* The application may drop a session's tools itself, by the session's id.
AppRemovesSessionTools(s) ==
  /\ initPost[s] = "answered"
  /\ RemoveSessionTools(s)
  /\ UNCHANGED <<sessionVars, requestVars>>

-----------------------------------------------------------------------------
(***************************************************************************)
(* handlePost and handleGet for a request with a session id.               *)
(***************************************************************************)
\* The handler's locals go with it.
Return(r) ==
  /\ stage' = [stage EXCEPT ![r] = "returned"]
  /\ target' = [target EXCEPT ![r] = NoSession]
  /\ method' = [method EXCEPT ![r] = NoMethod]

Proceed(r, to) ==
  /\ stage' = [stage EXCEPT ![r] = to]
  /\ UNCHANGED <<target, method>>

\* The lookup; an id that is not in the map is answered 404.
Load(r, s, m) ==
  /\ stage[r] = "idle"
  /\ initPost[s] = "answered"
  /\ s \in mapped
  /\ stage' = [stage EXCEPT ![r] = "loaded"]
  /\ target' = [target EXCEPT ![r] = s]
  /\ method' = [method EXCEPT ![r] = m]
  /\ UNCHANGED <<registryVars, sessionVars, getStreams, gsDone>>

\* Mutated form: a request stops the idle timer and nothing starts it again.
CheckDone_StopsTimer(r) ==
  /\ stage[r] = "loaded"
  /\ IF target[r] \in done
       THEN Return(r) /\ UNCHANGED armed
       ELSE /\ Proceed(r, "handling")
            /\ armed' = armed \ {target[r]}
  /\ UNCHANGED <<registryVars, initPost, initReply, mapped, done, teardown, initialized, getStreams, gsDone>>

\* The guard against a session closed since the lookup, and the timer reset;
\* a close between the two leaves a timer whose callback finds nothing.
CheckDone(r) ==
  /\ stage[r] = "loaded"
  /\ IF target[r] \in done
       THEN Return(r) /\ UNCHANGED armed
       ELSE /\ Proceed(r, "handling")
            /\ armed' = armed \cup {target[r]}
  /\ UNCHANGED <<registryVars, initPost, initReply, mapped, done, teardown, initialized, getStreams, gsDone>>

\* A method other than initialize before the handshake is an error.
NotInitialized(r) ==
  /\ stage[r] = "handling" /\ method[r] # "get"
  /\ ~initialized
  /\ Return(r)
  /\ UNCHANGED <<registryVars, sessionVars, getStreams, gsDone>>

HandleSubscribe(r, uri) ==
  /\ stage[r] = "handling" /\ initialized
  /\ \/ method[r] = "subscribe" /\ Subscribe(target[r], uri)
     \/ method[r] = "unsubscribe" /\ Unsubscribe(target[r], uri)
  /\ Return(r)
  /\ UNCHANGED <<sessionVars, getStreams, gsDone>>

\* AddSessionTool first asks isClosed, consults the tenant resolver, and then
\* adds under the lock.
AddSessionTool(r, tool) ==
  /\ method[r] = "addTool"
  /\ \/ /\ stage[r] = "handling" /\ initialized
        /\ IF target[r] \in closed
             THEN Return(r) ELSE Proceed(r, "adding")
        /\ UNCHANGED registryVars
     \/ /\ stage[r] = "adding"
        /\ AddTool(target[r], tool)
        /\ Return(r)
  /\ UNCHANGED <<sessionVars, getStreams, gsDone>>

RemoveSessionTool(r, tool) ==
  /\ stage[r] = "handling" /\ initialized
  /\ method[r] = "removeTool"
  /\ RemoveTool(target[r], tool)
  /\ Return(r)
  /\ UNCHANGED <<sessionVars, getStreams, gsDone>>

\* addGetStream, possibly after the session was closed.
OpenGetStream(r) ==
  /\ stage[r] = "handling" /\ method[r] = "get"
  /\ getStreams' = getStreams \cup {r}
  /\ Proceed(r, "streaming")
  /\ UNCHANGED <<registryVars, sessionVars, gsDone>>

LeaveGetStream(r) ==
  /\ getStreams' = getStreams \ {r}
  /\ gsDone' = gsDone \ {r}
  /\ Return(r)
  /\ UNCHANGED <<registryVars, sessionVars>>

\* Mutated form: the loop waits for the stream's own done channel.
SessionDoneEndsStream_OwnChannel(r) ==
  /\ stage[r] = "streaming" /\ r \in gsDone
  /\ LeaveGetStream(r)

\* The loop ends when the session is done, or when the client disconnects.
SessionDoneEndsStream(r) ==
  /\ stage[r] = "streaming" /\ target[r] \in done
  /\ LeaveGetStream(r)

ClientDisconnects(r) ==
  /\ stage[r] = "streaming"
  /\ LeaveGetStream(r)

-----------------------------------------------------------------------------
InitializeStep(s) == CreateSession(s) \/ InitCheckDone(s) \/ HandleInitialize(s) \/ AnswerInitialize(s)

TeardownStep(s) == Close(s) \/ Cleanup(s)

RequestStep(r) ==
  \/ CheckDone(r) \/ NotInitialized(r)
  \/ \E uri \in Uris : HandleSubscribe(r, uri)
  \/ \E tool \in Tools : AddSessionTool(r, tool) \/ RemoveSessionTool(r, tool)
  \/ OpenGetStream(r) \/ SessionDoneEndsStream(r)

Next ==
  \/ \E s \in Sessions :
       \/ InitializeStep(s)
       \/ TimerFires(s) \/ HandleDelete(s) \/ TeardownStep(s)
       \/ AppRemovesSessionTools(s)
  \/ \E r \in Requests :
       \/ \E s \in Sessions, m \in Methods : Load(r, s, m)
       \/ RequestStep(r) \/ ClientDisconnects(r)

\* The handlers run; the timer fires, for the requests are finitely many and
\* each postpones it once.  Clients need not do anything.
Fairness ==
  /\ \A s \in Sessions :
       /\ WF_vars(initPost[s] # "none" /\ InitializeStep(s))
       /\ WF_vars(TimerFires(s))
       /\ WF_vars(TeardownStep(s))
  /\ \A r \in Requests : WF_vars(RequestStep(r))

Spec == Init /\ [][Next]_vars
FairSpec == Spec /\ Fairness

-----------------------------------------------------------------------------
(***************************************************************************)
(* Properties                                                              *)
(***************************************************************************)

\* Every session a client can be served under has a registered notification
\* sender, so no list-changed broadcast misses it, while createSession, the
\* timer and DELETE interleave.
MappedHasSender == mapped \subseteq senders

\* A session that was taken apart leaves no sender and, as long as it is
\* remembered as closed, no tool, although a tool handler of the session may
\* have passed the isClosed test before and adds the tool after it.
NothingComesBack ==
  \A s \in Sessions : teardown[s] = "finished" =>
    s \notin senders /\ (s \in closed => sessionTools[s] = {})

\* Every GET handler ends, also one that registered its stream after close()
\* went through the registered streams.
GetReturns ==
  \A r \in Requests : (stage[r] = "streaming") ~> (stage[r] = "returned")

\* Every stored session is taken apart in the end, the ones whose client never
\* learned the id or was refused included.
Reclaimed ==
  \A s \in Sessions : (s \in mapped) ~> (teardown[s] = "finished")

\* "Server responds with InitializeResult + Mcp-Session-Id header", for every
\* client whose parameters are valid (the doc of StreamableHandler).
EveryClientInitializes ==
  \A s \in Sessions : initReply[s] # "alreadyInitialized"

-----------------------------------------------------------------------------
(***************************************************************************)
(* The inductive invariant behind the safety properties.                   *)
(***************************************************************************)

\* The initialize POST, the map and the winner of LoadAndDelete agree.
Ownership ==
  \A s \in Sessions :
    /\ s \in mapped => teardown[s] = "none" /\ s \in senders
    /\ initPost[s] \in {"none", "storing"} => teardown[s] = "none" /\ s \notin mapped
    /\ initPost[s] = "none" => s \notin senders
    /\ initPost[s] = "storing" => s \in senders
    /\ teardown[s] \in {"subscriptions", "tools", "finished"} => s \notin senders

\* A running request has its session.
Targeted ==
  \A r \in Requests : stage[r] \notin {"idle", "returned"} => target[r] \in Sessions

IndInv == TypeOK /\ Ownership /\ Targeted /\ ClosedHasNoTools /\ RingExact
=============================================================================
