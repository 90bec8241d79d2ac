-------------------------- MODULE ClientStreaming --------------------------
(***************************************************************************)
(* What the client's read loop hands to other goroutines (client.go):      *)
(* content blocks of progress notifications to a streaming tools/call, and *)
(* requests of the server to its handlers.  CallToolStreaming runs a       *)
(* worker, which moves blocks from internalCh to the caller's contentCh,   *)
(* and an RPC goroutine, which makes the call, adds the blocks of the      *)
(* final result and closes internalCh.  A block is one unit of a channel.  *)
(***************************************************************************)
EXTENDS Naturals, FiniteSets

CONSTANTS
  InternalSize,      \* buffer of internalCh
  ContentSize,       \* buffer of contentCh
  MaxBlocks,         \* blocks in one notification, or in the final result
  ServerRequests,    \* requests the server makes of the client
  MaxServerRequests  \* capacity of serverReqSem

ASSUME StreamingAssumption ==
  /\ InternalSize \in Nat \ {0} /\ ContentSize \in Nat \ {0}
  /\ MaxBlocks \in Nat \ {0} /\ MaxServerRequests \in Nat \ {0}

VARIABLES
  streamCtx,    \* the caller's context: "live" or "done"
  streamSubs,   \* the call's token is in Client.streamSubs
  internalCh,   \* [len, closed]
  contentCh,    \* [len, closed]
  errCh,        \* [value, closed]; value is "none" or "error"
  resultCh,     \* "open", "value" (and closed) or "closed"
  worker,       \* "none", "select", "holding", "draining" or "ended"
  rpc,          \* [pc, left]: the RPC goroutine and the blocks it has to add
  reader,       \* blocks the read loop holds for the internalCh it looked up
  panicked,     \* a send on a closed channel has ended the program
  serverReqSem, \* slots in use
  serverReqs    \* each request of the server

callVars   == <<streamCtx, streamSubs, internalCh, contentCh, errCh, resultCh, worker, rpc>>
serverVars == <<serverReqSem, serverReqs>>
streamingVars == <<callVars, reader, panicked, serverVars>>

StreamingInit ==
  /\ streamCtx = "live" /\ streamSubs = FALSE
  /\ internalCh = [len |-> 0, closed |-> FALSE]
  /\ contentCh = [len |-> 0, closed |-> FALSE]
  /\ errCh = [value |-> "none", closed |-> FALSE]
  /\ resultCh = "open"
  /\ worker = "none" /\ rpc = [pc |-> "none", left |-> 0]
  /\ reader = 0 /\ panicked = FALSE
  /\ serverReqSem = 0
  /\ serverReqs = [r \in ServerRequests |-> "none"]

\* Mutated form: a request of the server is handled by the read loop itself.
ReaderFree_HandlesInLoop ==
  /\ reader = 0 /\ ~panicked
  /\ \A r \in ServerRequests : serverReqs[r] \notin {"running", "calling", "called"}

\* The read loop takes the next message.
ReaderFree == reader = 0 /\ ~panicked

(***************************************************************************)
(* CallToolStreaming                                                       *)
(***************************************************************************)
StreamBegins ==
  /\ rpc.pc = "none" /\ ~panicked
  /\ streamSubs' = TRUE
  /\ worker' = "select" /\ rpc' = [rpc EXCEPT !.pc = "calling"]
  /\ UNCHANGED <<streamCtx, internalCh, contentCh, errCh, resultCh, reader, panicked, serverVars>>

\* The client is not initialized or closed: every channel comes back closed.
StreamRefused ==
  /\ rpc.pc = "none" /\ ~panicked
  /\ errCh' = [value |-> "error", closed |-> TRUE]
  /\ contentCh' = [contentCh EXCEPT !.closed = TRUE]
  /\ resultCh' = "closed"
  /\ rpc' = [rpc EXCEPT !.pc = "ended"]
  /\ UNCHANGED <<streamCtx, streamSubs, internalCh, worker, reader, panicked, serverVars>>

StreamCtxEnds ==
  /\ streamCtx = "live" /\ streamCtx' = "done"
  /\ UNCHANGED <<streamSubs, internalCh, contentCh, errCh, resultCh, worker, rpc,
                 reader, panicked, serverVars>>

(***************************************************************************)
(* The read loop: handleNotification finds the channel under the lock and  *)
(* sends after it, one block at a time, never waiting.                     *)
(***************************************************************************)
ProgressArrives(n) ==
  /\ ReaderFree /\ streamSubs
  /\ reader' = n
  /\ UNCHANGED <<callVars, panicked, serverVars>>

ReaderSends ==
  /\ reader > 0 /\ ~panicked /\ ~internalCh.closed
  /\ reader' = reader - 1
  /\ internalCh' = [internalCh EXCEPT !.len = IF @ < InternalSize THEN @ + 1 ELSE @]
  /\ UNCHANGED <<streamCtx, streamSubs, contentCh, errCh, resultCh, worker, rpc,
                 panicked, serverVars>>

ReaderPanics ==
  /\ reader > 0 /\ ~panicked /\ internalCh.closed
  /\ panicked' = TRUE
  /\ UNCHANGED <<callVars, reader, serverVars>>

(***************************************************************************)
(* The RPC goroutine                                                       *)
(***************************************************************************)
\* The response, through the read loop, with n blocks.
ResultArrives(n) ==
  /\ rpc.pc = "calling" /\ ReaderFree
  /\ rpc' = [pc |-> "flushing", left |-> n]
  /\ UNCHANGED <<streamCtx, streamSubs, internalCh, contentCh, errCh, resultCh, worker,
                 reader, panicked, serverVars>>

\* The call fails: an error response, a lost connection or the end of ctx.
CallFails ==
  /\ rpc.pc = "calling" /\ ~panicked
  /\ errCh' = [errCh EXCEPT !.value = "error"]
  /\ rpc' = [rpc EXCEPT !.pc = "deferred"]
  /\ UNCHANGED <<streamCtx, streamSubs, internalCh, contentCh, resultCh, worker,
                 reader, panicked, serverVars>>

AddsBlock ==
  /\ rpc.pc = "flushing" /\ rpc.left > 0 /\ ~panicked
  /\ internalCh.len < InternalSize
  /\ internalCh' = [internalCh EXCEPT !.len = @ + 1]
  /\ rpc' = [rpc EXCEPT !.left = @ - 1]
  /\ UNCHANGED <<streamCtx, streamSubs, contentCh, errCh, resultCh, worker,
                 reader, panicked, serverVars>>

AddingCancelled ==
  /\ rpc.pc = "flushing" /\ rpc.left > 0 /\ ~panicked
  /\ streamCtx = "done"
  /\ errCh' = [errCh EXCEPT !.value = "error"]
  /\ rpc' = [pc |-> "deferred", left |-> 0]
  /\ UNCHANGED <<streamCtx, streamSubs, internalCh, contentCh, resultCh, worker,
                 reader, panicked, serverVars>>

HandsOverResult ==
  /\ rpc.pc = "flushing" /\ rpc.left = 0 /\ ~panicked
  /\ resultCh' = "value"
  /\ rpc' = [rpc EXCEPT !.pc = "deferred"]
  /\ UNCHANGED <<streamCtx, streamSubs, internalCh, contentCh, errCh, worker,
                 reader, panicked, serverVars>>

\* The deferred function: the token goes under the lock, the channels after it.
Deregister ==
  /\ rpc.pc = "deferred" /\ ~panicked
  /\ streamSubs' = FALSE
  /\ rpc' = [rpc EXCEPT !.pc = "closing"]
  /\ UNCHANGED <<streamCtx, internalCh, contentCh, errCh, resultCh, worker,
                 reader, panicked, serverVars>>

CloseChannels ==
  /\ rpc.pc = "closing" /\ ~panicked
  /\ internalCh' = [internalCh EXCEPT !.closed = TRUE]
  /\ errCh' = [errCh EXCEPT !.closed = TRUE]
  /\ rpc' = [rpc EXCEPT !.pc = "ended"]
  /\ UNCHANGED <<streamCtx, streamSubs, contentCh, resultCh, worker, reader, panicked, serverVars>>

(***************************************************************************)
(* The worker                                                              *)
(***************************************************************************)
\* A block is received: to be passed on, or dropped once ctx is done.
WorkerTakes ==
  /\ worker \in {"select", "draining"} /\ internalCh.len > 0 /\ ~panicked
  /\ internalCh' = [internalCh EXCEPT !.len = @ - 1]
  /\ worker' = IF worker = "select" THEN "holding" ELSE "draining"
  /\ UNCHANGED <<streamCtx, streamSubs, contentCh, errCh, resultCh, rpc,
                 reader, panicked, serverVars>>

WorkerForwards ==
  /\ worker = "holding" /\ contentCh.len < ContentSize /\ ~panicked
  /\ contentCh' = [contentCh EXCEPT !.len = @ + 1]
  /\ worker' = "select"
  /\ UNCHANGED <<streamCtx, streamSubs, internalCh, errCh, resultCh, rpc,
                 reader, panicked, serverVars>>

\* Mutated form: the send to contentCh does not watch ctx.
WorkerSeesDone_NotInSend ==
  /\ worker = "select" /\ streamCtx = "done" /\ ~panicked
  /\ worker' = "draining"
  /\ UNCHANGED <<streamCtx, streamSubs, internalCh, contentCh, errCh, resultCh, rpc,
                 reader, panicked, serverVars>>

WorkerSeesDone ==
  /\ worker \in {"select", "holding"} /\ streamCtx = "done" /\ ~panicked
  /\ worker' = "draining"
  /\ UNCHANGED <<streamCtx, streamSubs, internalCh, contentCh, errCh, resultCh, rpc,
                 reader, panicked, serverVars>>

WorkerEnds ==
  /\ worker \in {"select", "draining"} /\ ~panicked
  /\ internalCh = [len |-> 0, closed |-> TRUE]
  /\ contentCh' = [contentCh EXCEPT !.closed = TRUE]
  /\ worker' = "ended"
  /\ UNCHANGED <<streamCtx, streamSubs, internalCh, errCh, resultCh, rpc,
                 reader, panicked, serverVars>>

\* The caller reads a block; nothing says that it will.
Consume ==
  /\ contentCh.len > 0 /\ ~panicked
  /\ contentCh' = [contentCh EXCEPT !.len = @ - 1]
  /\ UNCHANGED <<streamCtx, streamSubs, internalCh, errCh, resultCh, worker, rpc,
                 reader, panicked, serverVars>>

(***************************************************************************)
(* Requests of the server: a handler goroutine while there is a slot, an   *)
(* error from the read loop otherwise.  A handler may itself call the      *)
(* server, and then waits for a response the read loop has to deliver.     *)
(***************************************************************************)
RequestArrives(r) ==
  /\ ReaderFree /\ serverReqs[r] = "none"
  /\ IF serverReqSem < MaxServerRequests
       THEN /\ serverReqSem' = serverReqSem + 1
            /\ serverReqs' = [serverReqs EXCEPT ![r] = "running"]
       ELSE /\ serverReqs' = [serverReqs EXCEPT ![r] = "refused"]
            /\ UNCHANGED serverReqSem
  /\ UNCHANGED <<callVars, reader, panicked>>

HandlerCalls(r) ==
  /\ serverReqs[r] = "running" /\ ~panicked
  /\ serverReqs' = [serverReqs EXCEPT ![r] = "calling"]
  /\ UNCHANGED <<callVars, reader, panicked, serverReqSem>>

HandlerIsAnswered(r) ==
  /\ ReaderFree /\ serverReqs[r] = "calling"
  /\ serverReqs' = [serverReqs EXCEPT ![r] = "called"]
  /\ UNCHANGED <<callVars, reader, panicked, serverReqSem>>

\* handleServerRequest sends its response and gives the slot back.
SendServerResponse(r) ==
  /\ serverReqs[r] \in {"running", "called"} /\ ~panicked
  /\ serverReqs' = [serverReqs EXCEPT ![r] = "answered"]
  /\ serverReqSem' = serverReqSem - 1
  /\ UNCHANGED <<callVars, reader, panicked>>

StreamingNext ==
  \/ StreamBegins \/ StreamRefused \/ StreamCtxEnds
  \/ \E n \in 1..MaxBlocks : ProgressArrives(n)
  \/ \E n \in 0..MaxBlocks : ResultArrives(n)
  \/ ReaderSends \/ ReaderPanics
  \/ CallFails \/ AddsBlock \/ AddingCancelled \/ HandsOverResult \/ Deregister \/ CloseChannels
  \/ WorkerTakes \/ WorkerForwards \/ WorkerSeesDone \/ WorkerEnds \/ Consume
  \/ \E r \in ServerRequests :
       RequestArrives(r) \/ HandlerCalls(r) \/ HandlerIsAnswered(r) \/ SendServerResponse(r)

\* The goroutines of the call run; a call whose context is done returns; a server
\* answers; handlers return.  The caller need not read, and ctx need not end.
StreamingFairness ==
  /\ WF_streamingVars(ReaderSends \/ ReaderPanics)
  /\ WF_streamingVars(streamCtx = "done" /\ CallFails)
  /\ WF_streamingVars(AddsBlock \/ AddingCancelled)
  /\ WF_streamingVars(HandsOverResult \/ Deregister \/ CloseChannels)
  /\ SF_streamingVars(WorkerSeesDone)
  /\ WF_streamingVars(WorkerTakes \/ WorkerForwards \/ WorkerEnds)
  /\ \A r \in ServerRequests :
       SF_streamingVars(HandlerIsAnswered(r)) /\ WF_streamingVars(SendServerResponse(r))

-----------------------------------------------------------------------------
\* A caller that cancels its streaming call and reads no further finds both channels
\* closed: the worker drains instead of waiting for the reader, and the RPC goroutine
\* closes.  (A panic of the read loop, which NeverSendsOnClosed is about, ends it all.)
StreamCloses ==
  (rpc.pc # "none" /\ streamCtx = "done")
     ~> ((contentCh.closed /\ errCh.closed) \/ panicked)

\* A handler that calls the server back gets its response: the loop that has to
\* deliver it never runs a handler itself.
RequestsAnswered ==
  \A r \in ServerRequests :
    (serverReqs[r] = "running") ~> (serverReqs[r] = "answered" \/ panicked)

\* Stated by the comment on the deferred function, "so the notification handler never
\* writes to a closed channel".
NeverSendsOnClosed == ~panicked
=============================================================================
