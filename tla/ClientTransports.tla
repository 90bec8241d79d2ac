-------------------------- MODULE ClientTransports --------------------------
(***************************************************************************)
(* The client transports of client/transport: http (one POST, one reply),  *)
(* streamable (replies in the POST or in event streams) and stdio (a       *)
(* subprocess).  http and streamable hand what arrives to the read loop    *)
(* through an inbox of bounded size, which Close closes; http does both    *)
(* under its lock, streamable checks the flag first and sends later.       *)
(***************************************************************************)
EXTENDS Naturals, Sequences

CONSTANTS
  Posters,     \* goroutines that call Send once
  InboxSize,   \* capacity of the inbox
  MaxEvents    \* bound on the events of a stream

ASSUME TransportsAssumption == {InboxSize, MaxEvents} \subseteq Nat \ {0} /\ "sse" \notin Posters

\* What can feed the inbox: the Send calls, and the stream that StartSSE opens.
Feeders == Posters \cup {"sse"}

VARIABLES
  carrier,      \* "http", "streamable" or "stdio"
  isClosed,     \* t.closed
  inboxQueue,   \* the inbox, or the lines in the pipe of the subprocess
  inboxClosed,  \* the channel or the pipe is closed
  posts,        \* Send: "none", "posting", "enqueuing", "sent", "accepted" or "failed"
  bodies,       \* event streams: "none", "open" or "ended"
  feeding,      \* enqueue, for each feeder: "none", "holding" or "sending"
  events,       \* how many events each stream has brought
  startSSE,     \* "none", "flagged", "connecting", "failed" or "opened"
  sseCancelled, \* the context of the SSE stream
  closer,       \* Close: "none", "flagged", "cancelled" or "done"
  taken,        \* messages Receive has returned
  overflow,     \* history: replies dropped because the inbox was full
  readLoop,     \* "reading", "eof" or "cancelled"
  nilReads      \* history: Receive has returned neither a message nor an error

transportVars == <<carrier, isClosed, inboxQueue, inboxClosed, posts, bodies, feeding, events,
                   startSSE, sseCancelled, closer, taken, overflow, readLoop, nilReads>>
closeVars == <<isClosed, inboxClosed, closer, sseCancelled>>
readerVars == <<taken, readLoop, nilReads>>

TransportsInit ==
  /\ carrier \in {"http", "streamable", "stdio"}
  /\ isClosed = FALSE /\ inboxQueue = <<>> /\ inboxClosed = FALSE
  /\ posts = [p \in Posters |-> "none"]
  /\ bodies = [f \in Feeders |-> "none"]
  /\ feeding = [f \in Feeders |-> "none"]
  /\ events = [f \in Feeders |-> 0]
  /\ startSSE = "none" /\ sseCancelled = FALSE /\ closer = "none"
  /\ taken = {} /\ overflow = {} /\ readLoop = "reading" /\ nilReads = FALSE

(***************************************************************************)
(* Send                                                                    *)
(***************************************************************************)
SendBegins(p) ==
  /\ posts[p] = "none"
  /\ posts' = [posts EXCEPT ![p] = IF isClosed THEN "failed" ELSE "posting"]
  /\ UNCHANGED <<carrier, inboxQueue, bodies, feeding, events, startSSE, overflow, closeVars,
                 readerVars>>

\* The request fails, the status is an error, or the body cannot be read; http also takes
\* a 202 or 204 and a body that is not JSON for an error.
PostFails(p) ==
  /\ posts[p] = "posting"
  /\ posts' = [posts EXCEPT ![p] = "failed"]
  /\ UNCHANGED <<carrier, inboxQueue, bodies, feeding, events, startSSE, overflow, closeVars,
                 readerVars>>

\* A 202 or 204, or a body that enqueue finds not to be JSON and drops.
NoReply(p) ==
  /\ posts[p] = "posting" /\ carrier = "streamable"
  /\ posts' = [posts EXCEPT ![p] = "accepted"]
  /\ UNCHANGED <<carrier, inboxQueue, bodies, feeding, events, startSSE, overflow, closeVars,
                 readerVars>>

ReplyInBody(p) ==
  /\ posts[p] = "posting" /\ carrier # "stdio"
  /\ posts' = [posts EXCEPT ![p] = "enqueuing"]
  /\ feeding' = [feeding EXCEPT ![p] = "holding"]
  /\ UNCHANGED <<carrier, inboxQueue, bodies, events, startSSE, overflow, closeVars,
                 readerVars>>

\* Send returns; a goroutine of its own consumes the stream.
ReplyInStream(p) ==
  /\ posts[p] = "posting" /\ carrier = "streamable"
  /\ posts' = [posts EXCEPT ![p] = "sent"]
  /\ bodies' = [bodies EXCEPT ![p] = "open"]
  /\ UNCHANGED <<carrier, inboxQueue, feeding, events, startSSE, overflow, closeVars,
                 readerVars>>

\* stdio writes under the lock that Close takes; the subprocess answers.
StdioSend(p) ==
  /\ posts[p] = "posting" /\ carrier = "stdio"
  /\ IF isClosed THEN posts' = [posts EXCEPT ![p] = "failed"] /\ UNCHANGED inboxQueue
                 ELSE posts' = [posts EXCEPT ![p] = "sent"] /\ inboxQueue' = Append(inboxQueue, p)
  /\ UNCHANGED <<carrier, bodies, feeding, events, startSSE, overflow, closeVars,
                 readerVars>>

(***************************************************************************)
(* The inbox                                                               *)
(***************************************************************************)
\* http: the flag is checked and the reply sent under one lock; a full inbox is an error.
HttpEnqueue(p) ==
  /\ carrier = "http" /\ feeding[p] = "holding"
  /\ feeding' = [feeding EXCEPT ![p] = "none"]
  /\ \/ isClosed /\ posts' = [posts EXCEPT ![p] = "sent"] /\ UNCHANGED inboxQueue
     \/ /\ ~isClosed /\ Len(inboxQueue) < InboxSize
        /\ posts' = [posts EXCEPT ![p] = "sent"] /\ inboxQueue' = Append(inboxQueue, p)
     \/ /\ ~isClosed /\ Len(inboxQueue) >= InboxSize
        /\ posts' = [posts EXCEPT ![p] = "failed"] /\ UNCHANGED inboxQueue
  /\ UNCHANGED <<carrier, bodies, events, startSSE, overflow, closeVars,
                 readerVars>>

\* enqueue has returned: a Send goes on to return, a stream to its next event.
Fed(f) ==
  /\ feeding' = [feeding EXCEPT ![f] = "none"]
  /\ posts' = IF f \in Posters /\ posts[f] = "enqueuing" THEN [posts EXCEPT ![f] = "sent"]
                                                         ELSE posts

EnqueueChecks(f) ==
  /\ carrier = "streamable" /\ feeding[f] = "holding"
  /\ IF isClosed THEN Fed(f) ELSE feeding' = [feeding EXCEPT ![f] = "sending"] /\ UNCHANGED posts
  /\ UNCHANGED <<carrier, inboxQueue, bodies, events, startSSE, overflow, closeVars,
                 readerVars>>

\* Close may have closed the inbox meanwhile: the panic is recovered.
EnqueueSends(f) ==
  /\ feeding[f] = "sending" /\ Fed(f)
  /\ LET room == Len(inboxQueue) < InboxSize
     IN  /\ inboxQueue' = IF ~inboxClosed /\ room THEN Append(inboxQueue, f) ELSE inboxQueue
         /\ overflow' = IF ~inboxClosed /\ ~room THEN overflow \cup {f} ELSE overflow
  /\ UNCHANGED <<carrier, bodies, events, startSSE, closeVars, readerVars>>

(***************************************************************************)
(* Event streams of the streamable transport                               *)
(***************************************************************************)
\* StartSSE a second time returns nil at once, also after a failure.
StartSSE ==
  /\ carrier = "streamable" /\ startSSE = "none"
  /\ startSSE' = "flagged"
  /\ UNCHANGED <<carrier, inboxQueue, posts, bodies, feeding, events, overflow, closeVars,
                 readerVars>>

\* The moment Close can see sseCancel, which no lock protects.
SetsSSECancel ==
  /\ startSSE = "flagged" /\ startSSE' = "connecting"
  /\ UNCHANGED <<carrier, inboxQueue, posts, bodies, feeding, events, overflow, closeVars,
                 readerVars>>

SSEConnectFails ==
  /\ startSSE = "connecting" /\ startSSE' = "failed"
  /\ UNCHANGED <<carrier, inboxQueue, posts, bodies, feeding, events, overflow, closeVars,
                 readerVars>>

\* Nobody looks at t.closed here.
SSEConnects ==
  /\ startSSE = "connecting" /\ ~sseCancelled
  /\ startSSE' = "opened" /\ bodies' = [bodies EXCEPT !["sse"] = "open"]
  /\ UNCHANGED <<carrier, inboxQueue, posts, feeding, events, overflow, closeVars,
                 readerVars>>

StreamBrings(f) ==
  /\ bodies[f] = "open" /\ feeding[f] = "none" /\ events[f] < MaxEvents
  /\ feeding' = [feeding EXCEPT ![f] = "holding"] /\ events' = [events EXCEPT ![f] = @ + 1]
  /\ UNCHANGED <<carrier, inboxQueue, posts, bodies, startSSE, overflow, closeVars,
                 readerVars>>

\* The server ends the stream, or the context or the timeout of the request does.
BodyEnds(f) ==
  /\ bodies[f] = "open" /\ feeding[f] = "none"
  /\ bodies' = [bodies EXCEPT ![f] = "ended"]
  /\ UNCHANGED <<carrier, inboxQueue, posts, feeding, events, startSSE, overflow, closeVars,
                 readerVars>>

\* The read fails once the context of the stream is cancelled.
CancelledBodyEnds == sseCancelled /\ BodyEnds("sse")

(***************************************************************************)
(* Close                                                                   *)
(***************************************************************************)
CloseFlags ==
  /\ closer = "none"
  /\ closer' = "flagged" /\ isClosed' = TRUE
  /\ inboxClosed' = (carrier = "http")
  /\ UNCHANGED <<carrier, inboxQueue, posts, bodies, feeding, events, startSSE, sseCancelled,
                 overflow, readerVars>>

\* Mutated form: the stream of StartSSE is left alone.
CloseCancelsSSE_Never ==
  /\ carrier = "streamable" /\ closer = "flagged"
  /\ closer' = "cancelled"
  /\ UNCHANGED <<carrier, isClosed, inboxQueue, inboxClosed, posts, bodies, feeding, events,
                 startSSE, sseCancelled, overflow, readerVars>>

\* sseCancel, when StartSSE has set it by now.
CloseCancelsSSE ==
  /\ carrier = "streamable" /\ closer = "flagged"
  /\ closer' = "cancelled" /\ sseCancelled' = (startSSE \notin {"none", "flagged"})
  /\ UNCHANGED <<carrier, isClosed, inboxQueue, inboxClosed, posts, bodies, feeding, events,
                 startSSE, overflow, readerVars>>

\* After the DELETE of the session the inbox is closed; stdio has closed stdin and waits
\* until the subprocess is gone, which closes the pipe with what is in it.
CloseEndsInbox ==
  /\ \/ carrier = "http" /\ closer = "flagged" /\ UNCHANGED inboxQueue
     \/ carrier = "streamable" /\ closer = "cancelled" /\ UNCHANGED inboxQueue
     \/ carrier = "stdio" /\ closer = "flagged" /\ inboxQueue' = <<>>
  /\ closer' = "done" /\ inboxClosed' = TRUE
  /\ UNCHANGED <<carrier, isClosed, posts, bodies, feeding, events, startSSE, sseCancelled,
                 overflow, readerVars>>

(***************************************************************************)
(* Receive, in the read loop of the client                                 *)
(***************************************************************************)
ReceiveTakes ==
  /\ readLoop = "reading" /\ inboxQueue # <<>>
  /\ inboxQueue' = Tail(inboxQueue) /\ taken' = taken \cup {Head(inboxQueue)}
  /\ UNCHANGED <<carrier, posts, bodies, feeding, events, startSSE, overflow, closeVars,
                 readLoop, nilReads>>

\* io.EOF; http does not look whether the channel is closed and returns nil for both, so
\* the read loop calls it again.
ReceiveEnds ==
  /\ readLoop = "reading" /\ inboxQueue = <<>> /\ inboxClosed
  /\ IF carrier = "http" THEN nilReads' = TRUE /\ UNCHANGED readLoop
                         ELSE readLoop' = "eof" /\ UNCHANGED nilReads
  /\ UNCHANGED <<carrier, inboxQueue, posts, bodies, feeding, events, startSSE, overflow, closeVars,
                 taken>>

\* readCtx is cancelled; stdio does not look at it.
ReceiveCancelled ==
  /\ readLoop = "reading" /\ carrier # "stdio" /\ readLoop' = "cancelled"
  /\ UNCHANGED <<carrier, inboxQueue, posts, bodies, feeding, events, startSSE, overflow, closeVars,
                 taken, nilReads>>

TransportsNext ==
  \/ \E p \in Posters :
       \/ SendBegins(p) \/ PostFails(p) \/ NoReply(p) \/ ReplyInBody(p) \/ ReplyInStream(p)
       \/ StdioSend(p) \/ HttpEnqueue(p)
  \/ \E f \in Feeders : EnqueueChecks(f) \/ EnqueueSends(f) \/ StreamBrings(f) \/ BodyEnds(f)
  \/ StartSSE \/ SetsSSECancel \/ SSEConnectFails \/ SSEConnects
  \/ CloseFlags \/ CloseCancelsSSE \/ CloseEndsInbox
  \/ ReceiveTakes \/ ReceiveEnds \/ ReceiveCancelled

TransportsSpec == TransportsInit /\ [][TransportsNext]_transportVars

\* Goroutines run, enqueue and Close return; servers and subprocesses do as they please,
\* but a subprocess ends when its stdin is closed and a cancelled stream fails.
TransportsFairness ==
  /\ \A f \in Feeders : WF_transportVars(EnqueueChecks(f) \/ EnqueueSends(f))
  /\ WF_transportVars(CancelledBodyEnds)
  /\ WF_transportVars(SetsSSECancel) /\ WF_transportVars(SSEConnectFails)
  /\ WF_transportVars(CloseCancelsSSE \/ CloseEndsInbox)
  /\ WF_transportVars(ReceiveTakes \/ ReceiveEnds)

-----------------------------------------------------------------------------
\* When Send has returned nil for a reply in the body, the reply is in the inbox or with
\* the read loop, unless the transport was closed or, with streamable, the inbox was full.
\* Nothing else may get lost between the check of t.closed and the send.
ReplyAccountedFor ==
  \A p \in Posters :
    (posts[p] = "sent" /\ bodies[p] = "none") =>
      \/ p \in taken \/ \E i \in DOMAIN inboxQueue : inboxQueue[i] = p
      \/ isClosed \/ (carrier = "streamable" /\ p \in overflow)

\* After Close the read loop ends, though http ends it through readCtx only, and a stream
\* that StartSSE had begun when Close was called ends, even if the two overlap.
ClosedTransportEnds ==
  /\ (closer = "done" /\ carrier # "http") ~> (readLoop # "reading")
  /\ (closer = "flagged" /\ startSSE \in {"connecting", "opened"})
       ~> (startSSE = "failed" \/ bodies["sse"] = "ended")

\* What client/transport.go says: after Close returns, Receive must return errors.
ReceiveFailsOnceClosed == ~nilReads

\* What client/transport.go says: Close releases all resources.
CloseReleases == (closer = "done") ~> (\A f \in Feeders : bodies[f] # "open")

-----------------------------------------------------------------------------
TransportsTypeOK ==
  /\ inboxQueue \in Seq(Feeders)
  /\ posts \in [Posters -> {"none", "posting", "enqueuing", "sent", "accepted", "failed"}]
  /\ bodies \in [Feeders -> {"none", "open", "ended"}]
  /\ feeding \in [Feeders -> {"none", "holding", "sending"}]

\* The flag is set before anything else of Close, and only enqueue of the
\* streamable transport lets go of it between its check and its send.
TransportsInv ==
  /\ TransportsTypeOK
  /\ inboxClosed \/ closer # "none" => isClosed
  /\ \A f \in Feeders : feeding[f] = "sending" => carrier = "streamable"
  /\ ReplyAccountedFor
=============================================================================
