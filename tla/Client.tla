------------------------------- MODULE Client -------------------------------
(***************************************************************************)
(* The client (client/client.go): the calls and their correlation, the     *)
(* goroutine of reconnectLoop, which reads responses and rebuilds a lost   *)
(* connection, Initialize and Close.                                       *)
(*                                                                         *)
(* The transport is one of client/transport, whose closed flag is never    *)
(* reset, or one that Start makes usable again, like the transport of the  *)
(* reconnection tests: a behaviour is about either (restartable).  Closing *)
(* a ws transport that has no connection yet, which faults, is taken for   *)
(* closing it.  The server answers a request at most once.  Every attempt  *)
(* of callWithRetry is a call of its own that, like Client.Call, does not  *)
(* ask for the handshake.                                                  *)
(***************************************************************************)
EXTENDS Naturals, Sequences, FiniteSets, SequencesExt

CONSTANTS
  Calls,          \* the calls of the application
  Initializer,    \* the call made by Initialize
  Reconnect,      \* Options.Reconnect.Enabled
  MaxAttempts,    \* Options.Reconnect.MaxRetries, where it is not 0
  Losses,         \* bound: how often the connection is lost
  MaxIds          \* bound: the request ids, more than the calls can use

ASSUME CallsAssumption == Initializer \notin Calls
ASSUME OptionsAssumption ==
  /\ Reconnect \in BOOLEAN
  /\ MaxAttempts \in Nat \ {0} /\ Losses \in Nat /\ MaxIds \in Nat

VARIABLES
  pending,        \* the ids in the pending map
  idSeq,
  closed,         \* Client.closed
  initialized,
  readCancelled,  \* readCtx is cancelled
  readStarted,
  ch,             \* the channel made for each id
  at,             \* where each call is
  myId,           \* the id of the call's latest request
  result,         \* what the call returns
  loopAt,         \* where reconnectLoop is
  target,         \* the id whose channel deliverResponse has looked up
  toFail,         \* the channels failPendingRequests has still to notify
  attempt,        \* the counter of attemptReconnection
  closeAt,        \* where Close is
  conn,           \* the connection: "none", "open", "broken", "closed"
  tclosed,        \* the transport's closed flag
  asked, inbox,   \* requests at the server, responses on their way back
  losses,
  restartable     \* Start resets the closed flag; never changes

clientVars == <<pending, idSeq, closed, initialized, readCancelled, readStarted, ch>>
callVars == <<at, myId, result>>
loopVars == <<loopAt, target, toFail, attempt>>
wireVars == <<conn, tclosed, asked, inbox, losses, restartable>>
vars == <<clientVars, callVars, loopVars, closeAt, wireVars>>

AllCalls == Calls \cup {Initializer}
Ids == 1 .. MaxIds
Nil == 0          \* the nil response; a response is represented by its id

TableTypeOK ==
  /\ pending \subseteq Ids /\ idSeq \in 0 .. MaxIds
  /\ closed \in BOOLEAN /\ initialized \in BOOLEAN
  /\ readCancelled \in BOOLEAN /\ readStarted \in BOOLEAN

ChannelTypeOK == ch \in [Ids -> Seq(Ids \cup {Nil})] /\ \A i \in Ids : Len(ch[i]) <= 1

CallTypeOK ==
  /\ at \in [AllCalls -> {"idle", "dialed", "started", "ready", "registered", "waiting",
                          "leaving", "storing", "undoing", "done"}]
  /\ myId \in [AllCalls -> Ids \cup {Nil}]
  /\ result \in [AllCalls -> {"none", "answer", "closed", "sendFailed", "ctx", "uninitialized"}]

LoopTypeOK ==
  /\ loopAt \in {"off", "reading", "delivering", "lost", "collecting", "failing", "backoff",
                 "starting", "dialed", "handshake", "handshakeWait", "exited"}
  /\ target \in Ids \cup {Nil} /\ toFail \in Seq(Ids) /\ attempt \in 0 .. MaxAttempts
  /\ closeAt \in {"none", "cancelling", "closing", "waiting", "returned"}

WireTypeOK ==
  /\ conn \in {"none", "open", "broken", "closed"} /\ tclosed \in BOOLEAN
  /\ restartable \in BOOLEAN
  /\ asked \subseteq Ids /\ inbox \in Seq(Ids) /\ losses \in 0 .. Losses

TypeOK == TableTypeOK /\ ChannelTypeOK /\ CallTypeOK /\ LoopTypeOK /\ WireTypeOK

Init ==
  /\ pending = {} /\ idSeq = 0
  /\ closed = FALSE /\ initialized = FALSE /\ readCancelled = FALSE /\ readStarted = FALSE
  /\ ch = [i \in Ids |-> <<>>]
  /\ at = [c \in AllCalls |-> "idle"]
  /\ myId = [c \in AllCalls |-> Nil]
  /\ result = [c \in AllCalls |-> "none"]
  /\ loopAt = "off" /\ target = Nil /\ toFail = <<>> /\ attempt = 0
  /\ closeAt = "none"
  /\ conn = "none" /\ tclosed = FALSE /\ asked = {} /\ inbox = <<>> /\ losses = 0
  /\ restartable \in BOOLEAN

-----------------------------------------------------------------------------
(***************************************************************************)
(* The transport and the server.                                           *)
(***************************************************************************)

\* The second half of Start, outside any lock: the connection dialed is stored.
Connect ==
  /\ conn' = "open" /\ tclosed' = (tclosed /\ ~restartable)
  /\ asked' = {} /\ inbox' = <<>>
  /\ UNCHANGED <<losses, restartable>>

\* Close, a no-op on a transport that is closed.
Disconnect ==
  /\ tclosed' = TRUE
  /\ conn' = IF tclosed THEN conn ELSE "closed"
  /\ asked' = IF tclosed THEN asked ELSE {}
  /\ inbox' = IF tclosed THEN inbox ELSE <<>>
  /\ UNCHANGED <<losses, restartable>>

\* Send succeeds; on a connection whose loss is not noticed the message is gone.
Transmit(id) ==
  /\ conn \in {"open", "broken"} /\ ~tclosed
  /\ asked' = IF conn = "open" THEN asked \cup {id} ELSE asked
  /\ UNCHANGED <<conn, tclosed, inbox, losses, restartable>>

SendMayFail == conn # "open" \/ tclosed

LoseConnection ==
  /\ conn = "open" /\ losses < Losses
  /\ conn' = "broken" /\ asked' = {} /\ inbox' = <<>> /\ losses' = losses + 1
  /\ UNCHANGED <<clientVars, callVars, loopVars, closeAt, tclosed, restartable>>

Answer(id) ==
  /\ conn = "open" /\ id \in asked
  /\ asked' = asked \ {id} /\ inbox' = Append(inbox, id)
  /\ UNCHANGED <<clientVars, callVars, loopVars, closeAt, conn, tclosed, losses, restartable>>

-----------------------------------------------------------------------------
(***************************************************************************)
(* A call: requireInit, and callDirect.                                    *)
(***************************************************************************)

RequireInit(c) ==
  /\ c \in Calls /\ at[c] = "idle"
  /\ IF initialized /\ ~closed
       THEN at' = [at EXCEPT ![c] = "ready"] /\ UNCHANGED result
       ELSE /\ at' = [at EXCEPT ![c] = "done"]
            /\ result' = [result EXCEPT ![c] = IF initialized THEN "closed" ELSE "uninitialized"]
  /\ UNCHANGED <<clientVars, myId, loopVars, closeAt, wireVars>>

\* Client.Call, the low-level API, does not ask for the handshake.
LowLevelCall(c) ==
  /\ c \in Calls /\ at[c] = "idle" /\ readStarted
  /\ at' = [at EXCEPT ![c] = "ready"]
  /\ UNCHANGED <<clientVars, myId, result, loopVars, closeAt, wireVars>>

\* A new id, its channel and its entry, or ErrClosed.
Register(c) ==
  /\ at[c] = "ready"
  /\ IF closed
       THEN /\ result' = [result EXCEPT ![c] = "closed"]
            /\ at' = [at EXCEPT ![c] = "leaving"]
            /\ UNCHANGED <<pending, idSeq, myId>>
       ELSE /\ idSeq < MaxIds
            /\ idSeq' = idSeq + 1
            /\ pending' = pending \cup {idSeq'}
            /\ myId' = [myId EXCEPT ![c] = idSeq']
            /\ at' = [at EXCEPT ![c] = "registered"]
            /\ UNCHANGED result
  /\ UNCHANGED <<closed, initialized, readCancelled, readStarted, ch, loopVars, closeAt, wireVars>>

SendRequest(c) ==
  /\ at[c] = "registered"
  /\ \/ /\ Transmit(myId[c])
        /\ at' = [at EXCEPT ![c] = "waiting"] /\ UNCHANGED result
     \/ /\ SendMayFail
        /\ at' = [at EXCEPT ![c] = "leaving"]
        /\ result' = [result EXCEPT ![c] = "sendFailed"]
        /\ UNCHANGED wireVars
  /\ UNCHANGED <<clientVars, myId, loopVars, closeAt>>

TakeResponse(c) ==
  /\ at[c] = "waiting" /\ ch[myId[c]] # <<>>
  /\ ch' = [ch EXCEPT ![myId[c]] = <<>>]
  /\ \/ ch[myId[c]] = <<Nil>> /\ result' = [result EXCEPT ![c] = "closed"]
     \/ ch[myId[c]] # <<Nil>> /\ result' = [result EXCEPT ![c] = "answer"]
  /\ at' = [at EXCEPT ![c] = "leaving"]
  /\ UNCHANGED <<pending, idSeq, closed, initialized, readCancelled, readStarted, myId,
                 loopVars, closeAt, wireVars>>

\* The call's context ends.
GiveUp(c) ==
  /\ at[c] = "waiting"
  /\ at' = [at EXCEPT ![c] = "leaving"]
  /\ result' = [result EXCEPT ![c] = "ctx"]
  /\ UNCHANGED <<clientVars, myId, loopVars, closeAt, wireVars>>

Finish(c) ==
  IF c # Initializer THEN "done" ELSE IF result[c] = "answer" THEN "storing" ELSE "undoing"

\* The deferred delete, which leaves the channel to nobody if the entry was
\* still there; then the call returns.
Leave(c) ==
  /\ at[c] = "leaving"
  /\ pending' = pending \ {myId[c]}
  /\ ch' = IF myId[c] \in pending THEN [ch EXCEPT ![myId[c]] = <<>>] ELSE ch
  /\ at' = [at EXCEPT ![c] = Finish(c)]
  /\ UNCHANGED <<idSeq, closed, initialized, readCancelled, readStarted, myId, result,
                 loopVars, closeAt, wireVars>>

-----------------------------------------------------------------------------
(***************************************************************************)
(* Initialize: Start, the goroutine, the call, the flag.                   *)
(***************************************************************************)
InitializeDial ==
  /\ at[Initializer] = "idle" /\ ~initialized
  /\ at' = [at EXCEPT ![Initializer] = "dialed"]
  /\ UNCHANGED <<clientVars, myId, result, loopVars, closeAt, wireVars>>

InitializeStart ==
  /\ at[Initializer] = "dialed"
  /\ Connect
  /\ at' = [at EXCEPT ![Initializer] = "started"]
  /\ UNCHANGED <<clientVars, myId, result, loopVars, closeAt>>

InitializeLaunch ==
  /\ at[Initializer] = "started"
  /\ readStarted' = TRUE /\ loopAt' = "reading"
  /\ at' = [at EXCEPT ![Initializer] = "ready"]
  /\ UNCHANGED <<pending, idSeq, closed, initialized, readCancelled, ch, myId, result,
                 target, toFail, attempt, closeAt, wireVars>>

InitializeEnds ==
  /\ \/ /\ at[Initializer] = "storing" /\ initialized' = TRUE /\ UNCHANGED wireVars
     \/ /\ at[Initializer] = "undoing" /\ Disconnect /\ UNCHANGED initialized
  /\ at' = [at EXCEPT ![Initializer] = "done"]
  /\ UNCHANGED <<pending, idSeq, closed, readCancelled, readStarted, ch, myId, result,
                 loopVars, closeAt>>

-----------------------------------------------------------------------------
(***************************************************************************)
(* readLoopCore and deliverResponse.                                       *)
(***************************************************************************)

\* Receive, and the lookup; a response nobody waits for is dropped.
Read ==
  /\ loopAt = "reading" /\ inbox # <<>>
  /\ inbox' = Tail(inbox)
  /\ IF Head(inbox) \in pending
       THEN target' = Head(inbox) /\ loopAt' = "delivering"
       ELSE UNCHANGED <<target, loopAt>>
  /\ UNCHANGED <<clientVars, callVars, toFail, attempt, closeAt, conn, tclosed, asked, losses,
                 restartable>>

Deliver ==
  /\ loopAt = "delivering"
  /\ ch' = [ch EXCEPT ![target] = IF @ = <<>> THEN <<target>> ELSE @]
  /\ loopAt' = "reading" /\ target' = Nil
  /\ UNCHANGED <<pending, idSeq, closed, initialized, readCancelled, readStarted, callVars, toFail,
                 attempt, closeAt, wireVars>>

\* Receive fails.  EOF counts as lost unless Close was called.
ReadEnds ==
  /\ loopAt = "reading" /\ inbox = <<>>
  /\ conn # "open" \/ readCancelled
  /\ \/ /\ readCancelled \/ closed
        /\ loopAt' = "exited"
     \/ /\ ~readCancelled
        /\ loopAt' = "lost"
  /\ UNCHANGED <<clientVars, callVars, target, toFail, attempt, closeAt, wireVars>>

-----------------------------------------------------------------------------
(***************************************************************************)
(* reconnectLoop, failPendingRequests, attemptReconnection.                *)
(***************************************************************************)
Lost ==
  /\ loopAt = "lost"
  /\ IF Reconnect /\ readCancelled
       THEN loopAt' = "exited" /\ UNCHANGED initialized
       ELSE loopAt' = "collecting" /\ initialized' = (initialized /\ ~Reconnect)
  /\ UNCHANGED <<pending, idSeq, closed, readCancelled, readStarted, ch, callVars, target, toFail,
                 attempt, closeAt, wireVars>>

\* The channels are taken in the map's order, which is any.
CollectPending ==
  /\ loopAt = "collecting"
  /\ toFail' \in SetToSeqs(pending)
  /\ pending' = {}
  /\ loopAt' = "failing"
  /\ UNCHANGED <<idSeq, closed, initialized, readCancelled, readStarted, ch, callVars, target,
                 attempt, closeAt, wireVars>>

\* The send of nil blocks while the channel holds a response.
FailNext ==
  /\ loopAt = "failing" /\ toFail # <<>> /\ ch[Head(toFail)] = <<>>
  /\ ch' = [ch EXCEPT ![Head(toFail)] = <<Nil>>]
  /\ toFail' = Tail(toFail)
  /\ UNCHANGED <<pending, idSeq, closed, initialized, readCancelled, readStarted, callVars, loopAt,
                 target, attempt, closeAt, wireVars>>

AllFailed ==
  /\ loopAt = "failing" /\ toFail = <<>>
  /\ loopAt' = (IF Reconnect THEN "backoff" ELSE "exited")
  /\ UNCHANGED <<clientVars, callVars, target, toFail, attempt, closeAt, wireVars>>

\* The attempts are exhausted, Close interrupts the delay, or it is over and
\* reconnectTransport closes the old connection.
Backoff ==
  /\ loopAt = "backoff"
  /\ \/ /\ attempt >= MaxAttempts \/ readCancelled
        /\ loopAt' = "exited" /\ UNCHANGED wireVars
     \/ /\ attempt < MaxAttempts
        /\ loopAt' = "starting" /\ Disconnect
  /\ UNCHANGED <<clientVars, callVars, target, toFail, attempt, closeAt>>

\* Start fails at will, and always when the context is cancelled ...
Dial ==
  /\ loopAt = "starting"
  /\ \/ ~readCancelled /\ loopAt' = "dialed" /\ UNCHANGED attempt
     \/ loopAt' = "backoff" /\ attempt' = attempt + 1
  /\ UNCHANGED <<clientVars, callVars, target, toFail, closeAt, wireVars>>

\* ... or it stores the connection, whatever has happened since it was dialed.
Restart ==
  /\ loopAt = "dialed"
  /\ Connect
  /\ loopAt' = "handshake"
  /\ UNCHANGED <<clientVars, callVars, target, toFail, attempt, closeAt>>

\* Mutated form: the counter is not advanced.
Handshake_SameId ==
  /\ loopAt = "handshake"
  /\ \/ Transmit(idSeq) /\ loopAt' = "handshakeWait" /\ UNCHANGED attempt
     \/ /\ SendMayFail /\ UNCHANGED wireVars
        /\ loopAt' = "backoff" /\ attempt' = attempt + 1
  /\ UNCHANGED <<clientVars, callVars, target, toFail, closeAt>>

\* reinitializeSession: initialize is sent under an id of its own ...
Handshake ==
  /\ loopAt = "handshake" /\ idSeq < MaxIds
  /\ idSeq' = idSeq + 1
  /\ \/ Transmit(idSeq') /\ loopAt' = "handshakeWait" /\ UNCHANGED attempt
     \/ /\ SendMayFail /\ UNCHANGED wireVars
        /\ loopAt' = "backoff" /\ attempt' = attempt + 1
  /\ UNCHANGED <<pending, closed, initialized, readCancelled, readStarted, ch, callVars, target,
                 toFail, closeAt>>

\* Mutated form: the context has no deadline and is not readCtx's.
HandshakeEnds_NoTimeout ==
  /\ loopAt = "handshakeWait"
  /\ inbox # <<>> /\ inbox' = Tail(inbox)
  /\ initialized' = TRUE
  /\ loopAt' = "reading" /\ attempt' = 0
  /\ UNCHANGED <<conn, tclosed, asked, losses, restartable>>
  /\ UNCHANGED <<pending, idSeq, closed, readCancelled, readStarted, ch, callVars, target, toFail,
                 closeAt>>

\* ... and the next message is taken for its response; Receive may
\* fail or its 30 s be over.
HandshakeEnds ==
  /\ loopAt = "handshakeWait"
  /\ \/ /\ inbox # <<>> /\ inbox' = Tail(inbox)
        /\ initialized' = TRUE
        /\ loopAt' = "reading" /\ attempt' = 0
        /\ UNCHANGED <<conn, tclosed, asked, losses, restartable>>
     \/ /\ loopAt' = "backoff" /\ attempt' = attempt + 1
        /\ UNCHANGED <<initialized, wireVars>>
  /\ UNCHANGED <<pending, idSeq, closed, readCancelled, readStarted, ch, callVars, target, toFail,
                 closeAt>>

-----------------------------------------------------------------------------
(***************************************************************************)
(* Close                                                                   *)
(***************************************************************************)

\* Mutated form: the entries are deleted and the channels forgotten.
CloseBegin_Silent ==
  /\ closeAt = "none"
  /\ closed' = TRUE /\ pending' = {}
  /\ closeAt' = "cancelling"
  /\ UNCHANGED <<idSeq, initialized, readCancelled, readStarted, ch, callVars, loopVars, wireVars>>

\* Each pending call finds nil, or the response it has not read yet, followed
\* by the end of the channel.
CloseBegin ==
  /\ closeAt = "none"
  /\ closed' = TRUE
  /\ ch' = [i \in Ids |-> IF i \in pending /\ ch[i] = <<>> THEN <<Nil>> ELSE ch[i]]
  /\ pending' = {}
  /\ closeAt' = "cancelling"
  /\ UNCHANGED <<idSeq, initialized, readCancelled, readStarted, callVars, loopVars, wireVars>>

\* readCancel, then the transport's Close.
CloseCancels ==
  \/ /\ closeAt = "cancelling" /\ readCancelled' = TRUE
     /\ closeAt' = "closing"
     /\ UNCHANGED <<pending, idSeq, closed, initialized, readStarted, ch, callVars, loopVars, wireVars>>
  \/ /\ closeAt = "closing" /\ Disconnect
     /\ closeAt' = "waiting"
     /\ UNCHANGED <<clientVars, callVars, loopVars>>

\* readDone
CloseReturns ==
  /\ closeAt = "waiting" /\ (readStarted => loopAt = "exited")
  /\ closeAt' = "returned"
  /\ UNCHANGED <<clientVars, callVars, loopVars, wireVars>>

-----------------------------------------------------------------------------
CallStep(c) == Register(c) \/ SendRequest(c) \/ TakeResponse(c) \/ Leave(c)
InitializeStep == InitializeStart \/ InitializeLaunch \/ InitializeEnds
LoopStep ==
  \/ Read \/ Deliver \/ ReadEnds
  \/ Lost \/ CollectPending \/ FailNext \/ AllFailed
  \/ Backoff \/ Dial \/ Restart \/ Handshake \/ HandshakeEnds
CloseStep == CloseCancels \/ CloseReturns

Next ==
  \/ \E c \in Calls : RequireInit(c) \/ LowLevelCall(c)
  \/ \E c \in AllCalls : CallStep(c) \/ GiveUp(c)
  \/ InitializeDial \/ InitializeStep \/ LoopStep
  \/ CloseBegin \/ CloseStep
  \/ LoseConnection \/ \E id \in Ids : Answer(id)

\* Every goroutine that can take a step of its own takes one; nobody has to
\* make or give up a call, to close, to lose the connection or to answer.
Fairness ==
  /\ \A c \in AllCalls : WF_vars(CallStep(c))
  /\ WF_vars(InitializeStep) /\ WF_vars(LoopStep) /\ WF_vars(CloseStep)

Spec == Init /\ [][Next]_vars
FairSpec == Spec /\ Fairness

-----------------------------------------------------------------------------
(***************************************************************************)
(* Properties                                                              *)
(***************************************************************************)

\* The call's id is in the map, its channel holds something, or reconnectLoop
\* is about to send to it.
Minded(c) ==
  \/ myId[c] \in pending \/ ch[myId[c]] # <<>>
  \/ \E i \in 1 .. Len(toFail) : toFail[i] = myId[c]
  \/ target = myId[c]

\* Nobody waits for a goroutine that has forgotten him: while a call waits,
\* somebody minds it (callDirect, failPendingRequests, Close).
Attended == \A c \in AllCalls : at[c] = "waiting" => Minded(c)

\* An id that nobody has sent is nowhere on the way back.
Unanswered(i) ==
  i \notin asked /\ target # i /\ \A k \in 1 .. Len(inbox) : inbox[k] # i

\* Two calls in flight never share a channel, and nothing under a call's id is on
\* its way, or in its channel, before the call has sent its request: what it reads
\* is the answer to it, although the handshakes of reconnections send under ids of
\* the same counter beside the calls (callDirect, reinitializeSession).
OwnChannel ==
  /\ \A c, d \in AllCalls :
       c # d /\ {at[c], at[d]} \subseteq {"registered", "waiting"} => myId[c] # myId[d]
  /\ \A c \in AllCalls :
       at[c] = "registered" => ch[myId[c]] \in {<<>>, <<Nil>>} /\ Unanswered(myId[c])

\* "Only applicable to transports that support reconnection (e.g., WebSocket,
\* Streamable HTTP)" (Options.Reconnect): after a reconnection that Start reports
\* as made, the transport takes messages again (reconnectTransport, ws.Start).
StartReopens == [][loopAt = "dialed" /\ loopAt' = "handshake" => ~tclosed']_vars

\* "Close shuts down the transport and releases all resources" (Transport.Close):
\* when the client's Close has returned and no Initialize is under way, no connection
\* is open, whatever reconnection Close has met (Close, reconnectTransport, ws.Close).
NothingLeftOpen ==
  closeAt = "returned" /\ at[Initializer] \in {"idle", "done"} => conn \in {"none", "closed"}

Quiet == closeAt = "returned" /\ \A c \in AllCalls : at[c] \in {"idle", "done"}

\* failPendingRequests waits for room in a channel its call has left unread.
Abandoned ==
  /\ loopAt = "failing" /\ toFail # <<>> /\ ch[Head(toFail)] # <<>>
  /\ \A c \in AllCalls : myId[c] = Head(toFail) => at[c] # "waiting"

\* After Close is called, it returns and so does every call, unless
\* reconnectLoop meets the channel of a call that gave up with its response
\* unread (Close, failPendingRequests).
CloseEnds == closed ~> Quiet \/ Abandoned

\* "Close shuts down the client: cancels the read loop, closes pending requests,
\* and closes the transport" (Close), whatever the calls do.
CloseAlwaysEnds == closed ~> Quiet

-----------------------------------------------------------------------------
(***************************************************************************)
(* The inductive invariants behind the safety properties.                  *)
(***************************************************************************)
InFlight(c) == at[c] \in {"registered", "waiting"}

\* What reconnectLoop holds, by where it is.
LoopHolds ==
  /\ at[Initializer] \in {"idle", "dialed", "started"} => loopAt = "off"
  /\ loopAt = "delivering" <=> target # Nil
  /\ loopAt # "failing" => toFail = <<>>
  /\ loopAt \in {"starting", "dialed", "handshake", "handshakeWait"} => attempt < MaxAttempts

\* Every id was drawn from idSeq, for one call.
IdsDrawn ==
  /\ \A i \in pending : i <= idSeq
  /\ \A c \in AllCalls : myId[c] <= idSeq /\ (InFlight(c) => myId[c] # Nil)
  /\ \A c, d \in AllCalls : c # d /\ myId[c] # Nil => myId[c] # myId[d]

\* Attended, from the moment the entry is made.
AttendedInFlight == \A c \in AllCalls : InFlight(c) => Minded(c)

\* Nothing of a request is found before it is sent, or before its id is drawn.
NothingEarly ==
  /\ \A c \in AllCalls :
       at[c] = "registered" => ch[myId[c]] \in {<<>>, <<Nil>>} /\ Unanswered(myId[c])
  /\ \A i \in Ids :
       i > idSeq => /\ ch[i] = <<>> /\ Unanswered(i)
                   /\ \A k \in 1 .. Len(toFail) : toFail[k] # i

ClientInv == TypeOK /\ LoopHolds /\ IdsDrawn /\ AttendedInFlight /\ NothingEarly
=============================================================================
