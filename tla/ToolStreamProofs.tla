-------------------------- MODULE ToolStreamProofs --------------------------
(***************************************************************************)
(* For any number of sending goroutines and chunks and any buffer size:    *)
(* the types, the order in which the client sees the chunks, and the flush *)
(* before the response.                                                    *)
(***************************************************************************)
EXTENDS ToolStream, TLAPS

\* What Append does to the elements.
LEMMA AppendFacts ==
  ASSUME NEW S, NEW s \in Seq(S), NEW e \in S
  PROVE  /\ Append(s, e) \in Seq(S)
         /\ Len(Append(s, e)) = Len(s) + 1
         /\ \A i \in 1 .. Len(s) : Append(s, e)[i] = s[i]
         /\ Append(s, e)[Len(s) + 1] = e
         /\ Len(s) \in Nat
  OBVIOUS

\* What Tail does to the elements.
LEMMA TailFacts ==
  ASSUME NEW S, NEW s \in Seq(S), s # <<>>
  PROVE  /\ Len(s) \in Nat /\ Len(s) >= 1
         /\ Head(s) = s[1] /\ s[1] \in S
         /\ Tail(s) \in Seq(S)
         /\ Len(Tail(s)) = Len(s) - 1
         /\ \A i \in 1 .. Len(s) - 1 : Tail(s)[i] = s[i + 1]
  OBVIOUS

\* The variables keep their types.
LEMMA TypePreserved ==
  ASSUME TypeOK, HandNumber, Turns, Next
  PROVE  TypeOK'
<1> USE SizesAssumption DEF TypeOK
<1>1. CASE CancelContext
  BY <1>1 DEF CancelContext, sendVars
<1>2. CASE HandlerReturns
  BY <1>2 DEF HandlerReturns, sendVars
<1>3. ASSUME NEW g \in Senders, SendBegin(g) PROVE TypeOK'
  BY <1>3 DEF SendBegin
<1>4. ASSUME NEW g \in Senders, SendChunk(g) PROVE TypeOK'
  <2>1. <<g, sent[g]>> \in Chunks
    BY <1>4 DEF SendChunk, Chunks, Turns
  <2>2. ch' \in Seq(Chunks) /\ Len(ch') <= BufSize
    BY <1>4, <2>1, AppendFacts DEF SendChunk
  <2>3. accepted' \subseteq Chunks
    BY <1>4, <2>1 DEF SendChunk
  <2>4. sendAt' \in [Senders -> {"ready", "sending"}]
    BY <1>4 DEF SendChunk
  <2>5. UNCHANGED <<ctxDone, closed, quit, done, seq, inHand, delivered, sent, drainAt, closeAt>>
    BY <1>4 DEF SendChunk
  <2> QED BY <2>2, <2>3, <2>4, <2>5
<1>5. ASSUME NEW g \in Senders, SendRefused(g) PROVE TypeOK'
  BY <1>5 DEF SendRefused
<1>6. ASSUME NEW who \in Hands, Take(who) PROVE
        /\ ch' \in Seq(Chunks) /\ Len(ch') <= BufSize
        /\ seq' \in Nat
        /\ inHand' \in [{"drain", "close"} -> Seq(Nat \X Chunks)]
  BY <1>6, TailFacts DEF Take, Hands
<1>7. CASE Drain
  BY <1>7, <1>6 DEF Drain, sendVars, Hands
<1>8. ASSUME NEW who \in Hands, Pass(who) PROVE TypeOK'
  <2>1. inHand[who][1] \in Nat \X Chunks
    BY <1>8 DEF Pass, HandNumber, Hands
  <2> QED BY <1>8, <2>1, AppendFacts DEF Pass, sendVars, Hands, Nobody
<1>9. CASE CloseSignals \/ CloseWaits
  BY <1>9 DEF CloseSignals, CloseWaits, sendVars
<1>10. CASE CloseFlushes
  BY <1>10, <1>6 DEF CloseFlushes, sendVars, Hands
<1> HIDE SizesAssumption DEF TypeOK
<1> QED
  BY <1>1, <1>2, <1>3, <1>4, <1>5, <1>7, <1>8, <1>9, <1>10
     DEF Next, SendStep, DrainStep, CloseStep, Hands

\* A step that moves no chunk and starts no Send keeps the chunks in order.
LEMMA StillInTransit ==
  ASSUME InTransit, UNCHANGED <<ch, seq, inHand, delivered, sendVars>>
  PROVE  InTransit'
  BY DEF InTransit, Conserved, DeliveredChunks, Carried, Buffered, HandNumber, Ordered, Numbered,
         SenderOrder, sendVars

\* A Send that begins has a number above those of its sender's chunks; one
\* that is refused leaves it unused.
LEMMA SendInTransit ==
  ASSUME TypeOK, InTransit, NEW g \in Senders, SendBegin(g) \/ SendRefused(g)
  PROVE  InTransit'
<1>1. UNCHANGED <<ch, seq, inHand, delivered, accepted>>
  BY DEF SendBegin, SendRefused
<1>2. Conserved' /\ HandNumber' /\ Numbered' /\ SenderOrder'
  BY <1>1 DEF InTransit, Conserved, DeliveredChunks, Carried, Buffered, HandNumber, Numbered, SenderOrder
<1>3. ASSUME NEW c \in accepted
      PROVE  c[2] <= sent'[c[1]] /\ (sendAt'[c[1]] = "sending" => c[2] < sent'[c[1]])
  <2>1. c[1] \in Senders /\ c[2] \in Nat /\ sent[c[1]] \in Nat /\ sent[g] \in Nat
    BY SizesAssumption DEF TypeOK, Chunks
  <2>2. c[2] <= sent[c[1]] /\ (sendAt[c[1]] = "sending" => c[2] < sent[c[1]])
    BY DEF InTransit, Ordered
  <2>3. CASE SendBegin(g)
    BY <2>1, <2>2, <2>3 DEF SendBegin, TypeOK
  <2>4. CASE SendRefused(g)
    BY <2>1, <2>2, <2>4 DEF SendRefused, TypeOK
  <2> QED BY <2>3, <2>4
<1>4. Ordered'
  BY <1>1, <1>3 DEF InTransit, Ordered, Before
<1> QED BY <1>2, <1>4 DEF InTransit

\* Every chunk on its way was accepted, and only those.
LEMMA OnTheWay ==
  ASSUME Conserved
  PROVE  /\ \A i \in 1 .. Len(ch) : ch[i] \in accepted
         /\ \A i \in 1 .. Len(delivered) : delivered[i][2] \in accepted
         /\ \A who \in Hands : inHand[who] # Nobody => inHand[who][1][2] \in accepted
  BY DEF Conserved, DeliveredChunks, Carried, Buffered

\* A chunk enters behind all others.
LEMMA SendChunkInTransit ==
  ASSUME TypeOK, InTransit, Turns, NEW g \in Senders, SendChunk(g)
  PROVE  InTransit'
<1> DEFINE new == <<g, sent[g]>>
<1>1. new \in Chunks /\ new[1] = g /\ new[2] = sent[g]
  BY SizesAssumption DEF SendChunk, TypeOK, Chunks, Turns
<1>2. /\ ch' = Append(ch, new) /\ accepted' = accepted \cup {new}
      /\ UNCHANGED <<seq, inHand, delivered, sent>>
  BY DEF SendChunk
<1>3. \A c \in accepted : Before(c, new)
  BY <1>1 DEF InTransit, Ordered, SendChunk, Before
<1>4. \A c \in accepted' : /\ c[2] <= sent'[c[1]]
                           /\ sendAt'[c[1]] = "sending" => c[2] < sent'[c[1]]
  BY <1>1, <1>2, SizesAssumption DEF InTransit, Ordered, SendChunk, TypeOK, Chunks
<1> HIDE DEF new
<1>5. /\ Len(ch) \in Nat /\ Len(ch') = Len(ch) + 1
      /\ \A i \in 1 .. Len(ch) : ch'[i] = ch[i]
      /\ ch'[Len(ch) + 1] = new
  BY <1>1, <1>2, AppendFacts DEF TypeOK
<1>6. Buffered' = Buffered \cup {new}
  BY <1>5 DEF Buffered
<1>7. Conserved'
  BY <1>2, <1>6 DEF InTransit, Conserved, DeliveredChunks, Carried
<1>8. HandNumber' /\ Numbered' /\ SenderOrder'
  BY <1>2 DEF InTransit, HandNumber, Numbered, SenderOrder
<1>9. /\ \A i \in 1 .. Len(ch) : Before(ch[i], new)
      /\ \A i \in 1 .. Len(delivered) : Before(delivered[i][2], new)
      /\ \A who \in Hands : inHand[who] # Nobody => Before(inHand[who][1][2], new)
  BY <1>3, OnTheWay DEF InTransit
<1>10. \A i, j \in 1 .. Len(ch') : i < j => Before(ch'[i], ch'[j])
  BY <1>5, <1>9 DEF InTransit, Ordered
<1>11. \A i \in 1 .. Len(delivered), j \in 1 .. Len(ch') : Before(delivered[i][2], ch'[j])
  BY <1>5, <1>9 DEF InTransit, Ordered
<1>12. \A who \in Hands : inHand[who] # Nobody =>
         \A j \in 1 .. Len(ch') : Before(inHand[who][1][2], ch'[j])
  BY <1>5, <1>9 DEF InTransit, Ordered
<1>13. Ordered'
  BY <1>2, <1>4, <1>10, <1>11, <1>12 DEF InTransit, Ordered, Before
<1> QED BY <1>7, <1>8, <1>13 DEF InTransit

\* The first chunk of the channel goes to a goroutine, when the other holds none.
LEMMA TakeInTransit ==
  ASSUME TypeOK, InTransit, NEW who \in Hands, Take(who),
         \A w \in Hands : inHand[w] = Nobody,
         UNCHANGED <<delivered, sendVars>>
  PROVE  InTransit'
<1>1. /\ Len(ch) \in Nat /\ Len(ch) >= 1 /\ Len(ch') = Len(ch) - 1
      /\ \A i \in 1 .. Len(ch) - 1 : ch'[i] = ch[i + 1]
      /\ Head(ch) = ch[1]
  BY TailFacts DEF Take, TypeOK
<1>2. /\ inHand'[who] = <<<<seq + 1, ch[1]>>>>
      /\ \A w \in Hands : w # who => inHand'[w] = Nobody
  BY <1>1 DEF Take, TypeOK, Hands
<1>3. /\ inHand'[who] # Nobody /\ Len(inHand'[who]) = 1
      /\ inHand'[who][1][1] = seq + 1 /\ inHand'[who][1][2] = ch[1]
  BY <1>2 DEF Nobody
<1>4. seq = Len(delivered) /\ seq' = seq + 1
  BY DEF InTransit, HandNumber, Take, Hands
<1>5. Carried = {} /\ Carried' = {ch[1]}
  BY <1>2, <1>3 DEF Carried
<1>6. Buffered = {ch[1]} \cup Buffered'
  <2>1. \A i \in 1 .. Len(ch) : i = 1 \/ (i - 1 \in 1 .. Len(ch') /\ ch'[i - 1] = ch[i])
    BY <1>1
  <2>2. \A i \in 1 .. Len(ch') : i + 1 \in 1 .. Len(ch) /\ ch'[i] = ch[i + 1]
    BY <1>1
  <2> QED BY <1>1, <2>1, <2>2 DEF Buffered
<1>7. Conserved'
  BY <1>5, <1>6 DEF InTransit, Conserved, DeliveredChunks, sendVars
<1>8. HandNumber'
  BY <1>2, <1>3, <1>4 DEF HandNumber, Hands
<1>9. Numbered' /\ SenderOrder'
  BY DEF InTransit, Numbered, SenderOrder
<1>10. \A i, j \in 1 .. Len(ch') : i < j => Before(ch'[i], ch'[j])
  BY <1>1 DEF InTransit, Ordered
<1>11. \A i \in 1 .. Len(delivered), j \in 1 .. Len(ch') : Before(delivered[i][2], ch'[j])
  BY <1>1 DEF InTransit, Ordered
<1>12. /\ \A i \in 1 .. Len(delivered) : Before(delivered[i][2], ch[1])
       /\ \A j \in 1 .. Len(ch') : Before(ch[1], ch'[j])
  BY <1>1 DEF InTransit, Ordered
<1>13. Ordered'
  BY <1>2, <1>3, <1>10, <1>11, <1>12 DEF InTransit, Ordered, Before, sendVars
<1> QED BY <1>7, <1>8, <1>9, <1>13 DEF InTransit

\* The chunk in hand becomes the last notification.
LEMMA PassInTransit ==
  ASSUME TypeOK, InTransit, NEW who \in Hands, Pass(who)
  PROVE  InTransit' /\ DeliveredChunks \subseteq DeliveredChunks'
<1> DEFINE note == inHand[who][1]
<1>1. /\ note \in Nat \X Chunks /\ note[1] = seq /\ seq = Len(delivered) + 1
      /\ \A w \in Hands : w # who => inHand[w] = Nobody
  BY DEF InTransit, HandNumber, Pass, TypeOK, Hands
<1>2. \A w \in Hands : inHand'[w] = Nobody
  BY <1>1 DEF Pass, TypeOK, Hands
<1>3. /\ delivered' = Append(delivered, note)
      /\ UNCHANGED <<ch, seq, sendAt, sent, accepted>>
  BY DEF Pass, sendVars
<1>4. Carried = {note[2]} /\ Carried' = {}
  BY <1>1, <1>2 DEF Carried, Pass
<1>5. /\ \A i \in 1 .. Len(delivered) : Before(delivered[i][2], note[2])
      /\ \A j \in 1 .. Len(ch) : Before(note[2], ch[j])
  BY DEF InTransit, Ordered, Pass
<1> HIDE DEF note
<1>6. /\ Len(delivered) \in Nat /\ Len(delivered') = Len(delivered) + 1
      /\ \A i \in 1 .. Len(delivered) : delivered'[i] = delivered[i]
      /\ delivered'[Len(delivered) + 1] = note
  BY <1>1, <1>3, AppendFacts DEF TypeOK
<1>7. DeliveredChunks' = DeliveredChunks \cup {note[2]}
  BY <1>6 DEF DeliveredChunks
<1>8. Conserved'
  BY <1>3, <1>4, <1>7 DEF InTransit, Conserved, Buffered
<1>9. HandNumber'
  BY <1>1, <1>2, <1>3, <1>6 DEF HandNumber, Hands
<1>10. Numbered'
  BY <1>1, <1>6 DEF InTransit, Numbered
<1>11. SenderOrder'
  BY <1>5, <1>6 DEF InTransit, SenderOrder, Before
<1>12. \A i \in 1 .. Len(delivered'), j \in 1 .. Len(ch) : Before(delivered'[i][2], ch[j])
  BY <1>5, <1>6 DEF InTransit, Ordered
<1>13. Ordered'
  BY <1>2, <1>3, <1>12 DEF InTransit, Ordered, Before
<1> QED BY <1>7, <1>8, <1>9, <1>10, <1>11, <1>13 DEF InTransit

\* The chunks keep their order and their numbers, and none is lost, in every step.
LEMMA InTransitPreserved ==
  ASSUME TypeOK, InTransit, Turns, Next
  PROVE  InTransit'
<1>1. CASE CancelContext \/ HandlerReturns \/ CloseSignals \/ CloseWaits
  BY <1>1, StillInTransit DEF CancelContext, HandlerReturns, CloseSignals, CloseWaits
<1>2. ASSUME NEW g \in Senders, SendStep(g) PROVE InTransit'
  BY <1>2, SendInTransit, SendChunkInTransit DEF SendStep
<1>3. CASE Drain
  <2>1. CASE drainAt \in {"select", "flush"} /\ Take("drain") /\ UNCHANGED <<delivered, sendVars>>
    <3>1. \A w \in Hands : inHand[w] = Nobody
      BY <2>1 DEF Turns, Take, Hands
    <3> QED BY <2>1, <3>1, TakeInTransit DEF Hands
  <2>2. CASE UNCHANGED <<ch, seq, inHand, delivered, sendVars>>
    BY <2>2, StillInTransit
  <2> QED BY <1>3, <2>1, <2>2 DEF Drain
<1>4. CASE CloseFlushes
  <2>1. CASE Take("close")
    <3>1. \A w \in Hands : inHand[w] = Nobody
      BY <1>4, <2>1 DEF CloseFlushes, Turns, Take, Hands
    <3>2. UNCHANGED <<delivered, sendVars>>
      BY <1>4 DEF CloseFlushes
    <3> QED BY <2>1, <3>1, <3>2, TakeInTransit DEF Hands
  <2>2. CASE UNCHANGED <<ch, seq, inHand>>
    BY <1>4, <2>2, StillInTransit DEF CloseFlushes
  <2> QED BY <1>4, <2>1, <2>2 DEF CloseFlushes
<1>5. ASSUME NEW who \in Hands, Pass(who) PROVE InTransit'
  BY <1>5, PassInTransit
<1> QED
  BY <1>1, <1>2, <1>3, <1>4, <1>5 DEF Next, DrainStep, CloseStep, Hands

\* Who may hold a chunk, and when a sender may send.
LEMMA TurnsPreserved ==
  ASSUME TypeOK, InTransit, Turns, Next
  PROVE  Turns'
<1> USE HandlerAssumption, SizesAssumption DEF TypeOK, Turns
<1>1. CASE CancelContext \/ HandlerReturns \/ CloseSignals \/ CloseWaits
  BY <1>1 DEF CancelContext, HandlerReturns, CloseSignals, CloseWaits, sendVars
<1>2. ASSUME NEW g \in Senders, SendBegin(g) PROVE Turns'
  BY <1>2 DEF SendBegin
<1>3. ASSUME NEW g \in Senders, SendChunk(g) PROVE Turns'
  BY <1>3 DEF SendChunk
<1>4. ASSUME NEW g \in Senders, SendRefused(g) PROVE Turns'
  BY <1>4 DEF SendRefused
<1>5. CASE Drain
  BY <1>5 DEF Drain, Take, sendVars
<1>6. CASE CloseFlushes
  BY <1>6 DEF CloseFlushes, Take, sendVars
<1>7. ASSUME NEW who \in Hands, Pass(who) PROVE Turns'
  BY <1>7 DEF Pass, Hands, sendVars
<1> HIDE HandlerAssumption, SizesAssumption DEF TypeOK, Turns
<1> QED
  BY <1>1, <1>2, <1>3, <1>4, <1>5, <1>6, <1>7 DEF Next, SendStep, DrainStep, CloseStep, Hands

\* The handler's chunks are all delivered when close returns, and no Send of
\* the handler follows.
LEMMA FlushPreserved ==
  ASSUME TypeOK, InTransit, Turns, FlushedBeforeResponse, Next
  PROVE  FlushedBeforeResponse'
<1> USE DEF FlushedBeforeResponse, HandlerChunks
<1>1. CASE CancelContext \/ HandlerReturns \/ CloseSignals \/ CloseWaits
  BY <1>1 DEF CancelContext, HandlerReturns, CloseSignals, CloseWaits, sendVars, DeliveredChunks
<1>2. ASSUME NEW g \in Senders, SendBegin(g) \/ SendRefused(g) PROVE FlushedBeforeResponse'
  BY <1>2 DEF SendBegin, SendRefused, DeliveredChunks
<1>3. ASSUME NEW g \in Senders, SendChunk(g) PROVE FlushedBeforeResponse'
  <2>1. closeAt # "none" => g # Handler
    BY <1>3 DEF SendChunk, Turns
  <2>2. closeAt # "none" => HandlerChunks' = HandlerChunks
    BY <1>3, <2>1 DEF SendChunk
  <2>3. UNCHANGED <<closeAt, ctxDone>> /\ DeliveredChunks' = DeliveredChunks
    BY <1>3 DEF SendChunk, DeliveredChunks
  <2> QED BY <2>2, <2>3
<1>4. CASE Drain
  BY <1>4 DEF Drain, sendVars, DeliveredChunks
<1>5. CASE CloseFlushes
  <2>1. UNCHANGED <<delivered, accepted>>
    BY <1>5 DEF CloseFlushes, sendVars
  <2>2. CASE UNCHANGED closeAt
    BY <1>5, <2>2 DEF CloseFlushes
  <2>3. CASE inHand["close"] = Nobody /\ ch = <<>>
    <3>1. inHand["drain"] = Nobody
      BY <1>5 DEF CloseFlushes, Turns
    <3>2. Carried = {} /\ Buffered = {}
      BY <2>3, <3>1 DEF Carried, Buffered, Hands
    <3>3. accepted = DeliveredChunks
      BY <3>2 DEF InTransit, Conserved
    <3> QED BY <2>1, <3>3 DEF DeliveredChunks
  <2> QED BY <1>5, <2>2, <2>3 DEF CloseFlushes
<1>6. ASSUME NEW who \in Hands, Pass(who) PROVE FlushedBeforeResponse'
  <2>1. DeliveredChunks \subseteq DeliveredChunks'
    BY <1>6, PassInTransit
  <2> QED BY <1>6, <2>1 DEF Pass, sendVars
<1> QED
  BY <1>1, <1>2, <1>3, <1>4, <1>5, <1>6 DEF Next, SendStep, DrainStep, CloseStep, Hands

\* IndInv holds in every state.
THEOREM Invariance == Spec => []IndInv
<1>1. Init => IndInv
  <2> SUFFICES ASSUME Init PROVE IndInv
    OBVIOUS
  <2>1. TypeOK
    <3>1. ch \in Seq(Chunks) /\ Len(ch) <= BufSize /\ delivered \in Seq(Nat \X Chunks)
      BY SizesAssumption DEF Init
    <3>2. inHand \in [{"drain", "close"} -> Seq(Nat \X Chunks)]
      BY DEF Init, Nobody
    <3>3. sent \in [Senders -> 0 .. Sends] /\ seq \in Nat
      BY SizesAssumption DEF Init
    <3>4. /\ ctxDone \in BOOLEAN /\ closed \in BOOLEAN /\ quit \in BOOLEAN /\ done \in BOOLEAN
          /\ sendAt \in [Senders -> {"ready", "sending"}]
          /\ accepted \subseteq Chunks
          /\ drainAt \in {"select", "flush", "exiting", "exited"}
          /\ closeAt \in {"none", "closing", "waiting", "flush", "returned"}
      BY DEF Init
    <3> QED BY <3>1, <3>2, <3>3, <3>4 DEF TypeOK
  <2>2. Conserved
    BY DEF Init, Conserved, DeliveredChunks, Carried, Buffered, Hands
  <2>3. HandNumber /\ Ordered /\ Numbered /\ SenderOrder
    BY DEF Init, HandNumber, Ordered, Numbered, SenderOrder, Hands
  <2>4. Turns /\ FlushedBeforeResponse
    BY HandlerAssumption DEF Init, Turns, FlushedBeforeResponse
  <2> QED BY <2>1, <2>2, <2>3, <2>4 DEF IndInv, InTransit
<1>2. IndInv /\ [Next]_vars => IndInv'
  <2> SUFFICES ASSUME IndInv, [Next]_vars PROVE IndInv'
    OBVIOUS
  <2>1. CASE Next
    <3>1. TypeOK /\ HandNumber /\ InTransit /\ Turns /\ FlushedBeforeResponse
      BY DEF IndInv, InTransit
    <3> QED BY <2>1, <3>1, TypePreserved, InTransitPreserved, TurnsPreserved, FlushPreserved DEF IndInv
  <2>2. CASE UNCHANGED vars
    <3>1. InTransit'
      BY <2>2, StillInTransit DEF IndInv, vars
    <3>2. TypeOK' /\ Turns' /\ FlushedBeforeResponse'
      BY <2>2 DEF IndInv, TypeOK, Turns, FlushedBeforeResponse, HandlerChunks, DeliveredChunks,
                  vars, sendVars
    <3> QED BY <3>1, <3>2 DEF IndInv
  <2> QED BY <2>1, <2>2
<1> QED BY <1>1, <1>2, PTL DEF Spec

\* The types, the channel's capacity among them.
THEOREM TypeCorrect == Spec => []TypeOK
  BY Invariance, PTL DEF IndInv

\* The client sees the chunks numbered 1, 2, 3, ... and each goroutine's in the
\* order it sent them (sendProgressChunk, drain and close).
THEOREM Order == Spec => []InSequence
  BY Invariance, PTL DEF IndInv, InTransit, InSequence

\* What the handler's Send accepted is delivered before the response of a call
\* that was not cancelled (close, flushRemaining).
THEOREM Flush == Spec => []FlushedBeforeResponse
  BY Invariance, PTL DEF IndInv
=============================================================================
