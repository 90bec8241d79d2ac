--------------------------- MODULE LoopTransport ---------------------------
(***************************************************************************)
(* The transports that serve a connection from one loop: stdio             *)
(* (transport/stdio.go), which reads and handles in the same goroutine,    *)
(* and WebSocket (transport/websocket.go), where a reader goroutine hands  *)
(* messages over through msgCh.  HandleMessage runs inside the loop, so a  *)
(* tool that asks the client something waits for a response that the same  *)
(* loop would have to read.                                                *)
(***************************************************************************)
EXTENDS Naturals, Sequences

CONSTANT MaxInbox     \* bound on messages on their way to the server

ASSUME LoopAssumption == MaxInbox \in Nat \ {0}

VARIABLES
  loopKind,     \* "stdio" or "ws"
  connection,   \* "open" or "closed"
  inbox,        \* messages of the client that are not read yet
  wsReader,     \* the reader goroutine's message, "none" or "ended"
  msgCh,        \* channel from the reader to the loop, of capacity 1
  loop,         \* "ready", "closing", "unsubscribing", "forgetting" or "ended"
  loopHandler,  \* the request inside HandleMessage, "none", "sampling" or "sampled"
  asked,        \* the server's request: "none", "asked", "responded" or "delivered"
  loopCtx,      \* "live" or "done"
  loopSender, loopSubscribed, loopTools   \* what the server keeps for the session

loopState == <<loopSender, loopSubscribed, loopTools>>
loopVars ==
  <<loopKind, connection, inbox, wsReader, msgCh, loop, loopHandler, asked, loopCtx, loopState>>

ClientRequests == {"plain", "subscribe", "tool"}

LoopInit ==
  /\ loopKind \in {"stdio", "ws"}
  /\ connection = "open" /\ inbox = <<>> /\ msgCh = <<>>
  /\ wsReader = IF loopKind = "ws" THEN "none" ELSE "ended"
  /\ loop = "ready" /\ loopHandler = "none" /\ asked = "none" /\ loopCtx = "live"
  /\ loopSender = TRUE /\ loopSubscribed = FALSE /\ loopTools = FALSE

(***************************************************************************)
(* The client, the context and the application                             *)
(***************************************************************************)
ClientSends(m) ==
  /\ connection = "open" /\ Len(inbox) < MaxInbox
  /\ inbox' = Append(inbox, m)
  /\ UNCHANGED <<loopKind, connection, wsReader, msgCh, loop, loopHandler, asked, loopCtx,
                 loopState>>

ClientResponds ==
  /\ connection = "open" /\ asked = "asked"
  /\ inbox' = Append(inbox, "response") /\ asked' = "responded"
  /\ UNCHANGED <<loopKind, connection, wsReader, msgCh, loop, loopHandler, loopCtx, loopState>>

ClientCloses ==
  /\ connection = "open" /\ connection' = "closed"
  /\ UNCHANGED <<loopKind, inbox, wsReader, msgCh, loop, loopHandler, asked, loopCtx, loopState>>

LoopCtxEnds ==
  /\ loopCtx = "live" /\ loopCtx' = "done"
  /\ UNCHANGED <<loopKind, connection, inbox, wsReader, msgCh, loop, loopHandler, asked, loopState>>

\* AddSessionTool from the application, refused once the session's tools are removed.
AppAddsTool ==
  /\ loop # "ended" /\ ~loopTools
  /\ loopTools' = TRUE
  /\ UNCHANGED <<loopKind, connection, inbox, wsReader, msgCh, loop, loopHandler, asked, loopCtx,
                 loopSender, loopSubscribed>>

(***************************************************************************)
(* The WebSocket reader                                                    *)
(***************************************************************************)
ReaderReads ==
  /\ loopKind = "ws" /\ wsReader = "none"
  /\ \/ connection = "closed" /\ wsReader' = "error" /\ UNCHANGED inbox
     \/ inbox # <<>> /\ wsReader' = Head(inbox) /\ inbox' = Tail(inbox)
  /\ UNCHANGED <<loopKind, connection, msgCh, loop, loopHandler, asked, loopCtx, loopState>>

ReaderPasses ==
  /\ wsReader \notin {"none", "ended"} /\ msgCh = <<>>
  /\ msgCh' = <<wsReader>>
  /\ wsReader' = IF wsReader = "error" THEN "ended" ELSE "none"
  /\ UNCHANGED <<loopKind, connection, inbox, loop, loopHandler, asked, loopCtx, loopState>>

(***************************************************************************)
(* The loop                                                                *)
(***************************************************************************)
\* HandleMessage has returned, so the loop can go on to the next message.
LoopFree == loop = "ready" /\ loopHandler = "none"

\* A message is read: by the scanner, or from msgCh.
Received(m) ==
  \/ /\ loopKind = "stdio" /\ inbox # <<>>
     /\ m = Head(inbox) /\ inbox' = Tail(inbox) /\ UNCHANGED msgCh
  \/ /\ loopKind = "ws" /\ msgCh # <<>>
     /\ m = Head(msgCh) /\ msgCh' = Tail(msgCh) /\ UNCHANGED inbox

\* stdio looks at ctx after it has read a line; ws when it selects.
LoopHandles(m) ==
  /\ LoopFree /\ (loopKind = "stdio" => loopCtx = "live")
  /\ Received(m)
  /\ loopHandler' = m
  /\ UNCHANGED <<loopKind, connection, wsReader, loop, asked, loopCtx, loopState>>

\* Deliver; without a waiting Send the response is dropped.
LoopDelivers ==
  /\ LoopFree /\ (loopKind = "stdio" => loopCtx = "live")
  /\ Received("response")
  /\ asked' = IF loopHandler = "sampling" THEN "delivered" ELSE "none"
  /\ UNCHANGED <<loopKind, connection, wsReader, loop, loopHandler, loopCtx, loopState>>

\* The loop leaves: EOF, a cancelled ctx or a read error.  CloseAll, before the rest of
\* the cleanup (ws) or after it (stdio), finds no Send: the handler has returned.
LoopLeaves ==
  /\ LoopFree
  /\ \/ loopKind = "stdio" /\ connection = "closed" /\ inbox = <<>> /\ UNCHANGED <<inbox, msgCh>>
     \/ /\ loopKind = "stdio" /\ loopCtx = "done"
        /\ \E m \in ClientRequests \cup {"response"} : Received(m)
     \/ loopKind = "ws" /\ loopCtx = "done" /\ UNCHANGED <<inbox, msgCh>>
     \/ loopKind = "ws" /\ Received("error")
  /\ loop' = "closing"
  /\ UNCHANGED <<loopKind, connection, wsReader, loopHandler, asked, loopCtx, loopState>>

\* The deferred cleanup, each call under the server's lock by itself.  The WebSocket
\* session closes its connection.
RemoveLoopSender ==
  /\ loop = "closing"
  /\ loop' = "unsubscribing" /\ loopSender' = FALSE
  /\ connection' = IF loopKind = "ws" THEN "closed" ELSE connection
  /\ UNCHANGED <<loopKind, inbox, wsReader, msgCh, loopHandler, asked, loopCtx,
                 loopSubscribed, loopTools>>

LoopUnsubscribes ==
  /\ loop = "unsubscribing"
  /\ loop' = "forgetting" /\ loopSubscribed' = FALSE
  /\ UNCHANGED <<loopKind, connection, inbox, wsReader, msgCh, loopHandler, asked, loopCtx,
                 loopSender, loopTools>>

LoopForgetsTools ==
  /\ loop = "forgetting"
  /\ loop' = "ended" /\ loopTools' = FALSE
  /\ UNCHANGED <<loopKind, connection, inbox, wsReader, msgCh, loopHandler, asked, loopCtx,
                 loopSender, loopSubscribed>>

(***************************************************************************)
(* HandleMessage, inside the loop                                          *)
(***************************************************************************)
HandlerSubscribes ==
  /\ loopHandler = "subscribe"
  /\ loopHandler' = "plain" /\ loopSubscribed' = TRUE
  /\ UNCHANGED <<loopKind, connection, inbox, wsReader, msgCh, loop, asked, loopCtx,
                 loopSender, loopTools>>

\* CreateMessage: the request is written, and Send waits.
HandlerSamples ==
  /\ loopHandler = "tool" /\ asked = "none"
  /\ loopHandler' = "sampling" /\ asked' = "asked"
  /\ UNCHANGED <<loopKind, connection, inbox, wsReader, msgCh, loop, loopCtx, loopState>>

SamplingEnds ==
  /\ loopHandler = "sampling" /\ (asked = "delivered" \/ loopCtx = "done")
  /\ loopHandler' = "sampled" /\ asked' = IF asked = "responded" THEN asked ELSE "none"
  /\ UNCHANGED <<loopKind, connection, inbox, wsReader, msgCh, loop, loopCtx, loopState>>

\* The response is written; a write to a closed connection may fail, which ends the loop.
HandlerIsDone ==
  /\ loopHandler \in {"plain", "tool", "sampled"}
  /\ loopHandler' = "none"
  /\ loop' \in IF connection = "closed" /\ loop = "ready" THEN {"ready", "closing"} ELSE {loop}
  /\ UNCHANGED <<loopKind, connection, inbox, wsReader, msgCh, asked, loopCtx, loopState>>

LoopNext ==
  \/ \E m \in ClientRequests : ClientSends(m) \/ LoopHandles(m)
  \/ ClientResponds \/ ClientCloses \/ LoopCtxEnds \/ AppAddsTool
  \/ ReaderReads \/ ReaderPasses
  \/ LoopDelivers \/ LoopLeaves \/ RemoveLoopSender \/ LoopUnsubscribes \/ LoopForgetsTools
  \/ HandlerSubscribes \/ HandlerSamples \/ SamplingEnds \/ HandlerIsDone

LoopTransportSpec == LoopInit /\ [][LoopNext]_loopVars

\* The goroutines run and handlers return; the client and ctx do as they please.
LoopFairness ==
  /\ WF_loopVars(ReaderReads \/ ReaderPasses)
  /\ WF_loopVars((\E m \in ClientRequests : LoopHandles(m)) \/ LoopDelivers)
  /\ WF_loopVars(LoopLeaves \/ RemoveLoopSender \/ LoopUnsubscribes \/ LoopForgetsTools)
  /\ WF_loopVars(HandlerSubscribes \/ SamplingEnds \/ HandlerIsDone)

-----------------------------------------------------------------------------
\* Once the loop has ended the server keeps nothing of the session: no request of it can
\* still be handled, which is what lets one pass of cleanup be enough.
LoopLeavesNothing ==
  loop = "ended" => ~loopSender /\ ~loopSubscribed /\ ~loopTools

\* What RequestSender promises: a transport blocks until the client sends the response
\* with the matching id, and returns it.
SamplingReturns == (asked = "responded") ~> (loopHandler # "sampling")

-----------------------------------------------------------------------------
\* The loop only leaves between two messages, and what a step of the cleanup
\* has removed stays away.
LoopInv ==
  /\ loop \in {"ready", "closing", "unsubscribing", "forgetting", "ended"}
  /\ loop # "ready" => loopHandler = "none"
  /\ loop \in {"unsubscribing", "forgetting", "ended"} => ~loopSender
  /\ loop \in {"forgetting", "ended"} => ~loopSubscribed
  /\ loop = "ended" => ~loopTools
=============================================================================
