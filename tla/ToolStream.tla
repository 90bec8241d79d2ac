----------------------------- MODULE ToolStream -----------------------------
(***************************************************************************)
(* A ToolStream (stream.go): the goroutines of a tool handler Send chunks  *)
(* into a bounded channel, the drain goroutine numbers them and passes     *)
(* them to the transport's notification sender, and handleToolsCall closes *)
(* the stream when the handler has returned, before the response is sent.  *)
(*                                                                         *)
(* Handler is the goroutine that runs the handler; it sends its chunks     *)
(* before it returns.  The other members of Senders are goroutines it      *)
(* started, which may Send after it.  Each sender sends Sends chunks.  A   *)
(* select with several ready cases takes any of them.                      *)
(***************************************************************************)
EXTENDS Naturals, Sequences, FiniteSets

CONSTANTS
  Senders, Handler,
  Sends,      \* chunks per sender
  BufSize     \* capacity of the channel (WithStreamBufferSize)

ASSUME HandlerAssumption == Handler \in Senders
ASSUME SizesAssumption == Sends \in Nat /\ BufSize \in Nat \ {0}

VARIABLES
  ctxDone,    \* the request's context is cancelled
  closed,     \* the closed flag
  quit, done, \* the channels, TRUE when closed
  ch,         \* the buffered chunks
  seq,        \* the sequence counter
  inHand,     \* the numbered chunk drain or close is passing to the sender
  delivered,  \* the notifications the sender was given, as <<number, chunk>>
  sendAt,     \* where each sender is: "ready" or past the test of closed, "sending"
  sent,       \* the chunks each sender has tried, by number
  accepted,   \* the chunks whose Send returned nil
  drainAt,    \* "select", "flush", "exiting", "exited"
  closeAt     \* "none" while the handler runs; then close()'s place

sendVars == <<sendAt, sent, accepted>>
vars == <<ctxDone, closed, quit, done, ch, seq, inHand, delivered, sendVars, drainAt, closeAt>>

Chunks == Senders \X (1 .. Sends)
Nobody == <<>>

TypeOK ==
  /\ ctxDone \in BOOLEAN /\ closed \in BOOLEAN /\ quit \in BOOLEAN /\ done \in BOOLEAN
  /\ ch \in Seq(Chunks) /\ Len(ch) <= BufSize
  /\ seq \in Nat
  /\ inHand \in [{"drain", "close"} -> Seq(Nat \X Chunks)]
  /\ delivered \in Seq(Nat \X Chunks)
  /\ sendAt \in [Senders -> {"ready", "sending"}]
  /\ sent \in [Senders -> 0 .. Sends]
  /\ accepted \subseteq Chunks
  /\ drainAt \in {"select", "flush", "exiting", "exited"}
  /\ closeAt \in {"none", "closing", "waiting", "flush", "returned"}

Init ==
  /\ ctxDone = FALSE /\ closed = FALSE /\ quit = FALSE /\ done = FALSE
  /\ ch = <<>> /\ seq = 0
  /\ inHand = [who \in {"drain", "close"} |-> Nobody]
  /\ delivered = <<>>
  /\ sendAt = [g \in Senders |-> "ready"]
  /\ sent = [g \in Senders |-> 0]
  /\ accepted = {}
  /\ drainAt = "select"
  /\ closeAt = "none"

\* notifications/cancelled, or the connection is lost.
CancelContext ==
  /\ ~ctxDone
  /\ ctxDone' = TRUE
  /\ UNCHANGED <<closed, quit, done, ch, seq, inHand, delivered, sendVars, drainAt, closeAt>>

-----------------------------------------------------------------------------
(***************************************************************************)
(* Send: the test of closed, then the select.                              *)
(***************************************************************************)
SendBegin(g) ==
  /\ sendAt[g] = "ready" /\ sent[g] < Sends
  /\ g = Handler => closeAt = "none"
  /\ sent' = [sent EXCEPT ![g] = @ + 1]
  /\ sendAt' = [sendAt EXCEPT ![g] = IF closed THEN "ready" ELSE "sending"]
  /\ UNCHANGED <<ctxDone, closed, quit, done, ch, seq, inHand, delivered, accepted, drainAt, closeAt>>

SendChunk(g) ==
  /\ sendAt[g] = "sending"
  /\ Len(ch) < BufSize
  /\ ch' = Append(ch, <<g, sent[g]>>)
  /\ accepted' = accepted \cup {<<g, sent[g]>>}
  /\ sendAt' = [sendAt EXCEPT ![g] = "ready"]
  /\ UNCHANGED <<ctxDone, closed, quit, done, seq, inHand, delivered, sent, drainAt, closeAt>>

\* Mutated form: the select does not listen to the context.
SendRefused_QuitOnly(g) ==
  /\ sendAt[g] = "sending"
  /\ quit
  /\ sendAt' = [sendAt EXCEPT ![g] = "ready"]
  /\ UNCHANGED <<ctxDone, closed, quit, done, ch, seq, inHand, delivered, sent, accepted, drainAt, closeAt>>

\* ErrStreamClosed or the context's error.
SendRefused(g) ==
  /\ sendAt[g] = "sending"
  /\ quit \/ ctxDone
  /\ sendAt' = [sendAt EXCEPT ![g] = "ready"]
  /\ UNCHANGED <<ctxDone, closed, quit, done, ch, seq, inHand, delivered, sent, accepted, drainAt, closeAt>>

-----------------------------------------------------------------------------
(***************************************************************************)
(* sendProgressChunk, by drain or by close: the number is taken, then the  *)
(* sender is called.                                                       *)
(***************************************************************************)
Take(who) ==
  /\ inHand[who] = Nobody
  /\ ch # <<>>
  /\ ch' = Tail(ch)
  /\ seq' = seq + 1
  /\ inHand' = [inHand EXCEPT ![who] = <<<<seq + 1, Head(ch)>>>>]

Pass(who) ==
  /\ inHand[who] # Nobody
  /\ delivered' = Append(delivered, inHand[who][1])
  /\ inHand' = [inHand EXCEPT ![who] = Nobody]
  /\ UNCHANGED <<ctxDone, closed, quit, done, ch, seq, sendVars, drainAt, closeAt>>

\* The select of drain; flushRemaining with its default case; close(done).
Drain ==
  \/ /\ drainAt \in {"select", "flush"} /\ Take("drain")
     /\ UNCHANGED <<ctxDone, closed, quit, done, delivered, sendVars, drainAt, closeAt>>
  \/ /\ inHand["drain"] = Nobody
     /\ \/ drainAt = "select" /\ (quit \/ ctxDone) /\ drainAt' = "flush"
        \/ drainAt = "flush" /\ ch = <<>> /\ drainAt' = "exiting"
     /\ UNCHANGED <<ctxDone, closed, quit, done, ch, seq, inHand, delivered, sendVars, closeAt>>
  \/ /\ drainAt = "exiting"
     /\ done' = TRUE /\ drainAt' = "exited"
     /\ UNCHANGED <<ctxDone, closed, quit, ch, seq, inHand, delivered, sendVars, closeAt>>

-----------------------------------------------------------------------------
(***************************************************************************)
(* close(), deferred by handleToolsCall                                    *)
(***************************************************************************)
HandlerReturns ==
  /\ closeAt = "none" /\ sendAt[Handler] = "ready"
  /\ closeAt' = "closing"
  /\ UNCHANGED <<ctxDone, closed, quit, done, ch, seq, inHand, delivered, sendVars, drainAt>>

CloseSignals ==
  /\ closeAt = "closing"
  /\ closed' = TRUE /\ quit' = TRUE
  /\ closeAt' = "waiting"
  /\ UNCHANGED <<ctxDone, done, ch, seq, inHand, delivered, sendVars, drainAt>>

\* Mutated form: close leaves the rest to drain.
CloseWaits_NotAtAll ==
  /\ closeAt = "waiting"
  /\ closeAt' = "returned"
  /\ UNCHANGED <<ctxDone, closed, quit, done, ch, seq, inHand, delivered, sendVars, drainAt>>

\* Mutated form: close flushes beside a running drain.
CloseWaits_FlushBesideDrain ==
  /\ closeAt = "waiting"
  /\ closeAt' = "flush"
  /\ UNCHANGED <<ctxDone, closed, quit, done, ch, seq, inHand, delivered, sendVars, drainAt>>

\* drain has exited, or the context is done and drain is left to itself.
CloseWaits ==
  /\ closeAt = "waiting"
  /\ \/ done /\ closeAt' = "flush"
     \/ ~done /\ ctxDone /\ closeAt' = "returned"
  /\ UNCHANGED <<ctxDone, closed, quit, done, ch, seq, inHand, delivered, sendVars, drainAt>>

\* flushRemaining of close.
CloseFlushes ==
  /\ closeAt = "flush"
  /\ \/ Take("close") /\ UNCHANGED closeAt
     \/ /\ inHand["close"] = Nobody /\ ch = <<>> /\ closeAt' = "returned"
        /\ UNCHANGED <<ch, seq, inHand>>
  /\ UNCHANGED <<ctxDone, closed, quit, done, delivered, sendVars, drainAt>>

-----------------------------------------------------------------------------
SendStep(g) == SendBegin(g) \/ SendChunk(g) \/ SendRefused(g)
DrainStep == Drain \/ Pass("drain")
CloseStep == CloseSignals \/ CloseWaits \/ CloseFlushes \/ Pass("close")

Next ==
  \/ CancelContext \/ HandlerReturns \/ DrainStep \/ CloseStep
  \/ \E g \in Senders : SendStep(g)

\* The goroutines run, and the transport's sender returns; the handler returns
\* once it is not blocked in Send.
Fairness ==
  /\ WF_vars(DrainStep) /\ WF_vars(CloseStep) /\ WF_vars(HandlerReturns)
  /\ \A g \in Senders : WF_vars(SendChunk(g) \/ SendRefused(g))

Spec == Init /\ [][Next]_vars
FairSpec == Spec /\ Fairness

-----------------------------------------------------------------------------
(***************************************************************************)
(* Properties                                                              *)
(***************************************************************************)

Numbered == \A i \in 1 .. Len(delivered) : delivered[i][1] = i

SenderOrder ==
  \A i, j \in 1 .. Len(delivered) :
    i < j /\ delivered[i][2][1] = delivered[j][2][1] => delivered[i][2][2] < delivered[j][2][2]

\* The client sees the sequence numbers 1, 2, 3, ... in this order, and the
\* chunks of one goroutine in the order it sent them, although drain and close
\* both dispatch chunks (sendProgressChunk).
InSequence == Numbered /\ SenderOrder

HandlerChunks == {c \in accepted : c[1] = Handler}
DeliveredChunks == {delivered[i][2] : i \in 1 .. Len(delivered)}

\* Every chunk the handler's Send accepted is with the transport before the
\* response of the call is made, unless the call was cancelled: "all buffered
\* chunks are flushed before the final JSON-RPC response" (handleToolsCall).
FlushedBeforeResponse ==
  closeAt = "returned" /\ ~ctxDone => HandlerChunks \subseteq DeliveredChunks

\* The call is answered: neither a full buffer, nor a goroutine that goes on
\* sending, nor a cancellation blocks close or drain for ever.
StreamEnds == <>(closeAt = "returned" /\ drainAt = "exited")

-----------------------------------------------------------------------------
(***************************************************************************)
(* The inductive invariant behind the safety properties.                   *)
(***************************************************************************)

Hands == {"drain", "close"}
Buffered == {ch[i] : i \in 1 .. Len(ch)}
Carried == {inHand[who][1][2] : who \in {w \in Hands : inHand[w] # Nobody}}

\* No accepted chunk is lost on its way, and none comes from nowhere.
Conserved == accepted = DeliveredChunks \cup Carried \cup Buffered

\* One goroutine at a time holds a chunk; it has the next number.
HandNumber ==
  /\ \A who \in Hands : inHand[who] # Nobody =>
       Len(inHand[who]) = 1 /\ inHand[who][1][1] = seq /\ seq = Len(delivered) + 1
  /\ inHand["drain"] = Nobody \/ inHand["close"] = Nobody
  /\ inHand["drain"] = Nobody /\ inHand["close"] = Nobody => seq = Len(delivered)

\* Chunks of one sender keep their order.
Before(c, d) == c[1] = d[1] => c[2] < d[2]

\* Along the way, what is ahead was sent before.
Ordered ==
  /\ \A i, j \in 1 .. Len(ch) : i < j => Before(ch[i], ch[j])
  /\ \A i \in 1 .. Len(delivered), j \in 1 .. Len(ch) : Before(delivered[i][2], ch[j])
  /\ \A who \in Hands : inHand[who] # Nobody =>
       /\ \A i \in 1 .. Len(delivered) : Before(delivered[i][2], inHand[who][1][2])
       /\ \A j \in 1 .. Len(ch) : Before(inHand[who][1][2], ch[j])
  /\ \A c \in accepted :
       /\ c[2] <= sent[c[1]]
       /\ sendAt[c[1]] = "sending" => c[2] < sent[c[1]]

\* Who may hold a chunk when; the handler sends nothing after it returned; a
\* Send in progress has its chunk's number.
Turns ==
  /\ inHand["drain"] # Nobody => drainAt \in {"select", "flush"}
  /\ inHand["close"] # Nobody => closeAt = "flush"
  /\ closeAt = "flush" => done
  /\ done => drainAt = "exited"
  /\ closeAt # "none" => sendAt[Handler] = "ready"
  /\ \A g \in Senders : sendAt[g] = "sending" => sent[g] >= 1

InTransit == Conserved /\ HandNumber /\ Ordered /\ Numbered /\ SenderOrder

IndInv == TypeOK /\ InTransit /\ Turns /\ FlushedBeforeResponse
=============================================================================
