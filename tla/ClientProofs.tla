---------------------------- MODULE ClientProofs ----------------------------
(***************************************************************************)
(* The proofs of the client's safety properties, for both kinds of         *)
(* transport.                                                              *)
(***************************************************************************)
EXTENDS Client, FiniteSetTheorems, TLAPS

-----------------------------------------------------------------------------

\* What is taken from a list of ids is an id, and what is left is such a list.
LEMMA TailOfIds ==
  ASSUME NEW q \in Seq(Ids), q # <<>>
  PROVE  /\ Head(q) \in Ids /\ Tail(q) \in Seq(Ids) /\ Len(q) \in Nat /\ Len(q) # 0
         /\ Head(q) = q[1] /\ Len(Tail(q)) = Len(q) - 1
         /\ \A i \in 1 .. Len(Tail(q)) : Tail(q)[i] = q[i + 1]
OBVIOUS

\* The ids are numbers; the next one is an id while they last.
LEMMA IdFacts ==
  ASSUME TableTypeOK
  PROVE  /\ MaxIds \in Nat /\ idSeq \in Nat /\ Nil \notin Ids
         /\ Ids \subseteq Nat /\ \A i \in Ids : i > 0
         /\ idSeq < MaxIds => idSeq + 1 \in Ids /\ idSeq + 1 \in 0 .. MaxIds
BY OptionsAssumption DEF TableTypeOK, Ids, Nil

\* A sequence made of all members of a set holds every one of them.
LEMMA SeqOfSet ==
  ASSUME NEW S, IsFiniteSet(S), NEW q \in SetToSeqs(S)
  PROVE  /\ q \in Seq(S) /\ Len(q) \in Nat
         /\ \A x \in S : \E i \in 1 .. Len(q) : q[i] = x
<1> DEFINE n == Cardinality(S)
           T == {q[i] : i \in 1 .. n}
<1>1. n \in Nat
  BY FS_CardinalityType
<1>2. q \in [1 .. n -> S] /\ \A i, j \in 1 .. n : i # j => q[i] # q[j]
  BY DEF SetToSeqs
<1> HIDE DEF n
<1>3. q \in Seq(S) /\ Len(q) = n
  BY <1>1, <1>2
<1>4. T \in SUBSET S
  BY <1>2
<1>5. IsFiniteSet(1 .. n) /\ Cardinality(1 .. n) = n
  BY <1>1, FS_Interval
<1>6. ExistsBijection(1 .. n, T)
  <2>1. q \in [1 .. n -> T]
    BY <1>2
  <2>2. q \in Bijection(1 .. n, T)
    BY <1>2, <2>1 DEF Bijection, Injection, Surjection, IsInjective
  <2> QED BY <2>2 DEF ExistsBijection
<1>7. Cardinality(T) = n
  <2> HIDE DEF T
  <2> QED BY <1>5, <1>6, FS_Bijection
<1>8. T = S
  <2> HIDE DEF T
  <2> QED BY <1>4, <1>7, FS_Subset DEF n
<1> QED BY <1>1, <1>3, <1>8

\* The pending map is finite.
LEMMA PendingFinite ==
  ASSUME TableTypeOK
  PROVE  IsFiniteSet(pending)
<1>1. 1 \in Int /\ MaxIds \in Int
  BY OptionsAssumption
<1>2. IsFiniteSet(Ids)
  BY <1>1, FS_Interval DEF Ids
<1> QED BY <1>2, FS_Subset DEF TableTypeOK

-----------------------------------------------------------------------------
\* The transport's operations keep its types.
LEMMA WireOps ==
  ASSUME WireTypeOK
  PROVE  /\ Connect => WireTypeOK'
         /\ Disconnect => WireTypeOK'
         /\ \A id \in Ids : Transmit(id) => WireTypeOK'
         /\ UNCHANGED wireVars => WireTypeOK'
<1>1. ASSUME Connect PROVE WireTypeOK'
  BY <1>1, OptionsAssumption DEF WireTypeOK, Connect
<1>2. ASSUME Disconnect PROVE WireTypeOK'
  <2>1. inbox' \in Seq(Ids) /\ asked' \subseteq Ids
    BY <1>2 DEF WireTypeOK, Disconnect
  <2> QED BY <1>2, <2>1 DEF WireTypeOK, Disconnect
<1>3. ASSUME NEW id \in Ids, Transmit(id) PROVE WireTypeOK'
  BY <1>3 DEF WireTypeOK, Transmit
<1>4. ASSUME UNCHANGED wireVars PROVE WireTypeOK'
  BY <1>4 DEF WireTypeOK, wireVars
<1> QED BY <1>1, <1>2, <1>3, <1>4

\* The transport's variables keep their types.
LEMMA WirePreserved ==
  ASSUME TypeOK, IdsDrawn, Next
  PROVE  WireTypeOK'
<1> USE DEF TypeOK
<1>1. ASSUME NEW c \in Calls, RequireInit(c) PROVE WireTypeOK'
  BY <1>1, WireOps DEF RequireInit, wireVars
<1>2. ASSUME NEW c \in Calls, LowLevelCall(c) PROVE WireTypeOK'
  BY <1>2, WireOps DEF LowLevelCall, wireVars
<1>3. ASSUME NEW c \in AllCalls, Register(c) PROVE WireTypeOK'
  BY <1>3, WireOps DEF Register, wireVars
<1>4. ASSUME NEW c \in AllCalls, SendRequest(c) PROVE WireTypeOK'
  <2>1. myId[c] \in Ids
    BY <1>4 DEF CallTypeOK, IdsDrawn, InFlight, SendRequest
  <2> QED BY <1>4, <2>1, WireOps DEF SendRequest
<1>5. ASSUME NEW c \in AllCalls, TakeResponse(c) PROVE WireTypeOK'
  BY <1>5, WireOps DEF TakeResponse, wireVars
<1>6. ASSUME NEW c \in AllCalls, Leave(c) PROVE WireTypeOK'
  BY <1>6, WireOps DEF Leave, wireVars
<1>7. ASSUME NEW c \in AllCalls, GiveUp(c) PROVE WireTypeOK'
  BY <1>7, WireOps DEF GiveUp, wireVars
<1>8. CASE InitializeStart
  BY <1>8, WireOps DEF InitializeStart, wireVars
<1>9. CASE InitializeLaunch
  BY <1>9, WireOps DEF InitializeLaunch, wireVars
<1>10. CASE InitializeEnds
  BY <1>10, WireOps DEF InitializeEnds, wireVars
<1>11. CASE Read
  <2>1. Tail(inbox) \in Seq(Ids)
    BY <1>11, TailOfIds DEF WireTypeOK, Read
  <2> QED BY <1>11, <2>1 DEF WireTypeOK, Read
<1>12. CASE Deliver
  BY <1>12, WireOps DEF Deliver, wireVars
<1>13. CASE ReadEnds
  BY <1>13, WireOps DEF ReadEnds, wireVars
<1>14. CASE Lost
  BY <1>14, WireOps DEF Lost, wireVars
<1>15. CASE CollectPending
  BY <1>15, WireOps DEF CollectPending, wireVars
<1>16. CASE FailNext
  BY <1>16, WireOps DEF FailNext, wireVars
<1>17. CASE AllFailed
  BY <1>17, WireOps DEF AllFailed, wireVars
<1>18. CASE Backoff
  BY <1>18, WireOps DEF Backoff, wireVars
<1>19. CASE Restart
  BY <1>19, WireOps DEF Restart, wireVars
<1>20. CASE Handshake
  <2>1. idSeq' \in Ids
    BY <1>20, IdFacts DEF Handshake
  <2> QED BY <1>20, <2>1, WireOps DEF Handshake
<1>21. CASE HandshakeEnds
  <2>1. inbox # <<>> => Tail(inbox) \in Seq(Ids)
    BY TailOfIds DEF WireTypeOK
  <2>2. inbox' \in Seq(Ids) /\ UNCHANGED <<conn, tclosed, asked, losses, restartable>>
    BY <1>21, <2>1 DEF WireTypeOK, HandshakeEnds, wireVars
  <2> QED BY <2>2 DEF WireTypeOK
<1>22. CASE CloseBegin
  BY <1>22, WireOps DEF CloseBegin, wireVars
<1>23. CASE CloseCancels
  BY <1>23, WireOps DEF CloseCancels, wireVars
<1>24. CASE CloseReturns
  BY <1>24, WireOps DEF CloseReturns, wireVars
<1>25. CASE LoseConnection
  <2>1. losses + 1 \in 0 .. Losses
    BY <1>25, OptionsAssumption DEF WireTypeOK, LoseConnection
  <2> QED BY <1>25, <2>1 DEF WireTypeOK, LoseConnection
<1>26. ASSUME NEW id \in Ids, Answer(id) PROVE WireTypeOK'
  <2>1. Append(inbox, id) \in Seq(Ids)
    BY DEF WireTypeOK
  <2> QED BY <1>26, <2>1 DEF WireTypeOK, Answer
<1>27. CASE InitializeDial
  BY <1>27, WireOps DEF InitializeDial, wireVars
<1>28. CASE Dial
  BY <1>28, WireOps DEF Dial, wireVars
<1> QED
  BY <1>1, <1>2, <1>3, <1>4, <1>5, <1>6, <1>7, <1>8, <1>9, <1>10, <1>11, <1>12, <1>13,
     <1>14, <1>15, <1>16, <1>17, <1>18, <1>19, <1>20, <1>21, <1>22, <1>23, <1>24, <1>25,
     <1>26, <1>27, <1>28
     DEF Next, CallStep, InitializeStep, LoopStep, CloseStep

\* The client's map, counter and flags keep their types.
LEMMA TablePreserved ==
  ASSUME TypeOK, Next
  PROVE  TableTypeOK'
<1> USE DEF TypeOK, TableTypeOK, clientVars
<1>1. ASSUME NEW c \in Calls, RequireInit(c) PROVE TableTypeOK'
  BY <1>1 DEF RequireInit
<1>2. ASSUME NEW c \in Calls, LowLevelCall(c) PROVE TableTypeOK'
  BY <1>2 DEF LowLevelCall
<1>3. ASSUME NEW c \in AllCalls, Register(c) PROVE TableTypeOK'
  BY <1>3, IdFacts DEF Register
<1>4. ASSUME NEW c \in AllCalls, SendRequest(c) PROVE TableTypeOK'
  BY <1>4 DEF SendRequest, Transmit, SendMayFail
<1>5. ASSUME NEW c \in AllCalls, TakeResponse(c) PROVE TableTypeOK'
  BY <1>5 DEF TakeResponse
<1>6. ASSUME NEW c \in AllCalls, Leave(c) PROVE TableTypeOK'
  BY <1>6 DEF Leave, Finish
<1>7. ASSUME NEW c \in AllCalls, GiveUp(c) PROVE TableTypeOK'
  BY <1>7 DEF GiveUp
<1>8. CASE InitializeStart
  BY <1>8 DEF InitializeStart, Connect
<1>9. CASE InitializeLaunch
  BY <1>9 DEF InitializeLaunch
<1>10. CASE InitializeEnds
  BY <1>10 DEF InitializeEnds, Disconnect
<1>11. CASE Read
  BY <1>11 DEF Read
<1>12. CASE Deliver
  BY <1>12 DEF Deliver
<1>13. CASE ReadEnds
  BY <1>13 DEF ReadEnds
<1>14. CASE Lost
  BY <1>14 DEF Lost
<1>15. CASE CollectPending
  BY <1>15 DEF CollectPending
<1>16. CASE FailNext
  BY <1>16 DEF FailNext
<1>17. CASE AllFailed
  BY <1>17 DEF AllFailed
<1>18. CASE Backoff
  BY <1>18 DEF Backoff, Disconnect
<1>19. CASE Restart
  BY <1>19 DEF Restart, Connect
<1>20. CASE Handshake
  BY <1>20, IdFacts DEF Handshake
<1>21. CASE HandshakeEnds
  BY <1>21 DEF HandshakeEnds
<1>22. CASE CloseBegin
  BY <1>22 DEF CloseBegin
<1>23. CASE CloseCancels
  BY <1>23 DEF CloseCancels, Disconnect
<1>24. CASE CloseReturns
  BY <1>24 DEF CloseReturns
<1>25. CASE LoseConnection
  BY <1>25 DEF LoseConnection
<1>26. ASSUME NEW id \in Ids, Answer(id) PROVE TableTypeOK'
  BY <1>26 DEF Answer
<1>27. CASE InitializeDial
  BY <1>27 DEF InitializeDial
<1>28. CASE Dial
  BY <1>28 DEF Dial
<1> QED
  BY <1>1, <1>2, <1>3, <1>4, <1>5, <1>6, <1>7, <1>8, <1>9, <1>10, <1>11, <1>12, <1>13,
     <1>14, <1>15, <1>16, <1>17, <1>18, <1>19, <1>20, <1>21, <1>22, <1>23, <1>24, <1>25,
     <1>26, <1>27, <1>28
     DEF Next, CallStep, InitializeStep, LoopStep, CloseStep

\* The calls' variables keep their types.
LEMMA CallPreserved ==
  ASSUME TypeOK, Next
  PROVE  CallTypeOK'
<1> USE DEF TypeOK, CallTypeOK, AllCalls, callVars
<1>1. ASSUME NEW c \in Calls, RequireInit(c) PROVE CallTypeOK'
  BY <1>1 DEF RequireInit
<1>2. ASSUME NEW c \in Calls, LowLevelCall(c) PROVE CallTypeOK'
  BY <1>2 DEF LowLevelCall
<1>3. ASSUME NEW c \in AllCalls, Register(c) PROVE CallTypeOK'
  <2>1. idSeq < MaxIds => idSeq + 1 \in Ids
    BY IdFacts
  <2> QED BY <1>3, <2>1 DEF Register
<1>4. ASSUME NEW c \in AllCalls, SendRequest(c) PROVE CallTypeOK'
  BY <1>4 DEF SendRequest, Transmit, SendMayFail
<1>5. ASSUME NEW c \in AllCalls, TakeResponse(c) PROVE CallTypeOK'
  BY <1>5 DEF TakeResponse
<1>6. ASSUME NEW c \in AllCalls, Leave(c) PROVE CallTypeOK'
  <2>1. \A x \in AllCalls : Finish(x) \in {"done", "storing", "undoing"}
    BY DEF Finish
  <2> QED BY <1>6, <2>1 DEF Leave
<1>7. ASSUME NEW c \in AllCalls, GiveUp(c) PROVE CallTypeOK'
  BY <1>7 DEF GiveUp
<1>8. CASE InitializeStart
  BY <1>8 DEF InitializeStart, Connect
<1>9. CASE InitializeLaunch
  BY <1>9 DEF InitializeLaunch
<1>10. CASE InitializeEnds
  BY <1>10 DEF InitializeEnds, Disconnect
<1>11. CASE Read
  BY <1>11 DEF Read
<1>12. CASE Deliver
  BY <1>12 DEF Deliver
<1>13. CASE ReadEnds
  BY <1>13 DEF ReadEnds
<1>14. CASE Lost
  BY <1>14 DEF Lost
<1>15. CASE CollectPending
  BY <1>15 DEF CollectPending
<1>16. CASE FailNext
  BY <1>16 DEF FailNext
<1>17. CASE AllFailed
  BY <1>17 DEF AllFailed
<1>18. CASE Backoff
  BY <1>18 DEF Backoff, Disconnect
<1>19. CASE Restart
  BY <1>19 DEF Restart, Connect
<1>20. CASE Handshake
  BY <1>20 DEF Handshake, Transmit, SendMayFail
<1>21. CASE HandshakeEnds
  BY <1>21 DEF HandshakeEnds
<1>22. CASE CloseBegin
  BY <1>22 DEF CloseBegin
<1>23. CASE CloseCancels
  BY <1>23 DEF CloseCancels, Disconnect
<1>24. CASE CloseReturns
  BY <1>24 DEF CloseReturns
<1>25. CASE LoseConnection
  BY <1>25 DEF LoseConnection
<1>26. ASSUME NEW id \in Ids, Answer(id) PROVE CallTypeOK'
  BY <1>26 DEF Answer
<1>27. CASE InitializeDial
  BY <1>27 DEF InitializeDial
<1>28. CASE Dial
  BY <1>28 DEF Dial
<1> QED
  BY <1>1, <1>2, <1>3, <1>4, <1>5, <1>6, <1>7, <1>8, <1>9, <1>10, <1>11, <1>12, <1>13,
     <1>14, <1>15, <1>16, <1>17, <1>18, <1>19, <1>20, <1>21, <1>22, <1>23, <1>24, <1>25,
     <1>26, <1>27, <1>28
     DEF Next, CallStep, InitializeStep, LoopStep, CloseStep

\* The variables of reconnectLoop and of Close keep their types.
LEMMA LoopPreserved ==
  ASSUME TypeOK, LoopHolds, Next
  PROVE  LoopTypeOK'
<1> USE DEF TypeOK, LoopTypeOK, LoopHolds, loopVars
<1>1. ASSUME NEW c \in Calls, RequireInit(c) PROVE LoopTypeOK'
  BY <1>1 DEF RequireInit
<1>2. ASSUME NEW c \in Calls, LowLevelCall(c) PROVE LoopTypeOK'
  BY <1>2 DEF LowLevelCall
<1>3. ASSUME NEW c \in AllCalls, Register(c) PROVE LoopTypeOK'
  BY <1>3 DEF Register
<1>4. ASSUME NEW c \in AllCalls, SendRequest(c) PROVE LoopTypeOK'
  BY <1>4 DEF SendRequest, Transmit, SendMayFail
<1>5. ASSUME NEW c \in AllCalls, TakeResponse(c) PROVE LoopTypeOK'
  BY <1>5 DEF TakeResponse
<1>6. ASSUME NEW c \in AllCalls, Leave(c) PROVE LoopTypeOK'
  BY <1>6 DEF Leave, Finish
<1>7. ASSUME NEW c \in AllCalls, GiveUp(c) PROVE LoopTypeOK'
  BY <1>7 DEF GiveUp
<1>8. CASE InitializeStart
  BY <1>8 DEF InitializeStart, Connect
<1>9. CASE InitializeLaunch
  BY <1>9 DEF InitializeLaunch
<1>10. CASE InitializeEnds
  BY <1>10 DEF InitializeEnds, Disconnect
<1>11. CASE Read
  <2>1. Head(inbox) \in Ids
    BY <1>11, TailOfIds DEF WireTypeOK, Read
  <2> QED BY <1>11, <2>1 DEF Read
<1>12. CASE Deliver
  BY <1>12 DEF Deliver
<1>13. CASE ReadEnds
  BY <1>13 DEF ReadEnds
<1>14. CASE Lost
  BY <1>14 DEF Lost
<1>15. CASE CollectPending
  <2>1. toFail' \in Seq(pending) /\ pending \subseteq Ids
    BY <1>15, PendingFinite, SeqOfSet DEF CollectPending, TableTypeOK
  <2>2. toFail' \in Seq(Ids)
    BY <2>1
  <2> QED BY <1>15, <2>2 DEF CollectPending
<1>16. CASE FailNext
  <2>1. Tail(toFail) \in Seq(Ids)
    BY <1>16, TailOfIds DEF FailNext
  <2> QED BY <1>16, <2>1 DEF FailNext
<1>17. CASE AllFailed
  BY <1>17 DEF AllFailed
<1>18. CASE Backoff
  BY <1>18 DEF Backoff, Disconnect
<1>19. CASE Restart
  <2>1. attempt < MaxAttempts => attempt + 1 \in 0 .. MaxAttempts
    BY OptionsAssumption
  <2>2. 0 \in 0 .. MaxAttempts
    BY OptionsAssumption
  <2> QED BY <1>19, <2>1, <2>2 DEF Restart
<1>20. CASE Handshake
  <2>1. attempt < MaxAttempts => attempt + 1 \in 0 .. MaxAttempts
    BY OptionsAssumption
  <2>2. 0 \in 0 .. MaxAttempts
    BY OptionsAssumption
  <2> QED BY <1>20, <2>1, <2>2 DEF Handshake
<1>21. CASE HandshakeEnds
  <2>1. attempt < MaxAttempts => attempt + 1 \in 0 .. MaxAttempts
    BY OptionsAssumption
  <2>2. 0 \in 0 .. MaxAttempts
    BY OptionsAssumption
  <2> QED BY <1>21, <2>1, <2>2 DEF HandshakeEnds
<1>22. CASE CloseBegin
  BY <1>22 DEF CloseBegin
<1>23. CASE CloseCancels
  BY <1>23 DEF CloseCancels, Disconnect
<1>24. CASE CloseReturns
  BY <1>24 DEF CloseReturns
<1>25. CASE LoseConnection
  BY <1>25 DEF LoseConnection
<1>26. ASSUME NEW id \in Ids, Answer(id) PROVE LoopTypeOK'
  BY <1>26 DEF Answer
<1>27. CASE InitializeDial
  BY <1>27 DEF InitializeDial
<1>28. CASE Dial
  <2>1. attempt < MaxAttempts => attempt + 1 \in 0 .. MaxAttempts
    BY OptionsAssumption
  <2>2. 0 \in 0 .. MaxAttempts
    BY OptionsAssumption
  <2> QED BY <1>28, <2>1, <2>2 DEF Dial
<1> QED
  BY <1>1, <1>2, <1>3, <1>4, <1>5, <1>6, <1>7, <1>8, <1>9, <1>10, <1>11, <1>12, <1>13,
     <1>14, <1>15, <1>16, <1>17, <1>18, <1>19, <1>20, <1>21, <1>22, <1>23, <1>24, <1>25,
     <1>26, <1>27, <1>28
     DEF Next, CallStep, InitializeStep, LoopStep, CloseStep

\* A channel has room for one response.
LEMMA ChannelUpdate ==
  ASSUME ChannelTypeOK, NEW i \in Ids, NEW v \in Ids \cup {Nil}
  PROVE  /\ ch' = [ch EXCEPT ![i] = <<>>] => ChannelTypeOK'
         /\ ch' = [ch EXCEPT ![i] = <<v>>] => ChannelTypeOK'
         /\ UNCHANGED ch => ChannelTypeOK'
<1> DEFINE Q == Seq(Ids \cup {Nil})
<1>1. <<>> \in Q /\ <<v>> \in Q /\ Len(<<>>) = 0 /\ Len(<<v>>) = 1
  OBVIOUS
<1>2. ASSUME NEW q \in Q, Len(q) <= 1, ch' = [ch EXCEPT ![i] = q] PROVE ChannelTypeOK'
  <2>1. ch' \in [Ids -> Q] /\ \A j \in Ids : ch'[j] = IF j = i THEN q ELSE ch[j]
    BY <1>2 DEF ChannelTypeOK
  <2> QED BY <1>2, <2>1 DEF ChannelTypeOK
<1>3. UNCHANGED ch => ChannelTypeOK'
  BY DEF ChannelTypeOK
<1>4. Len(<<>>) <= 1 /\ Len(<<v>>) <= 1
  BY <1>1
<1> HIDE DEF Q
<1> QED BY <1>1, <1>2, <1>3, <1>4, Zenon

\* The channels keep their types.
LEMMA ChannelPreserved ==
  ASSUME TypeOK, LoopHolds, IdsDrawn, Next
  PROVE  ChannelTypeOK'
<1> USE DEF TypeOK
<1>1. ASSUME NEW c \in Calls, RequireInit(c) PROVE ChannelTypeOK'
  BY <1>1 DEF RequireInit, ChannelTypeOK, clientVars
<1>2. ASSUME NEW c \in Calls, LowLevelCall(c) PROVE ChannelTypeOK'
  BY <1>2 DEF LowLevelCall, ChannelTypeOK, clientVars
<1>3. ASSUME NEW c \in AllCalls, Register(c) PROVE ChannelTypeOK'
  BY <1>3 DEF Register, ChannelTypeOK, clientVars
<1>4. ASSUME NEW c \in AllCalls, SendRequest(c) PROVE ChannelTypeOK'
  BY <1>4 DEF SendRequest, ChannelTypeOK, clientVars
<1>5. ASSUME NEW c \in AllCalls, TakeResponse(c) PROVE ChannelTypeOK'
  <2>1. myId[c] \in Ids
    BY <1>5 DEF CallTypeOK, IdsDrawn, InFlight, TakeResponse
  <2> QED BY <1>5, <2>1, ChannelUpdate DEF TakeResponse
<1>6. ASSUME NEW c \in AllCalls, Leave(c) PROVE ChannelTypeOK'
  <2>1. myId[c] \in pending => myId[c] \in Ids
    BY DEF TableTypeOK
  <2>2. CASE myId[c] \in pending
    BY <1>6, <2>1, <2>2, ChannelUpdate DEF Leave
  <2>3. CASE myId[c] \notin pending
    BY <1>6, <2>3 DEF Leave, ChannelTypeOK
  <2> QED BY <2>2, <2>3
<1>7. ASSUME NEW c \in AllCalls, GiveUp(c) PROVE ChannelTypeOK'
  BY <1>7 DEF GiveUp, ChannelTypeOK, clientVars
<1>8. CASE InitializeStart
  BY <1>8 DEF InitializeStart, ChannelTypeOK, clientVars
<1>9. CASE InitializeLaunch
  BY <1>9 DEF InitializeLaunch, ChannelTypeOK, clientVars
<1>10. CASE InitializeEnds
  BY <1>10 DEF InitializeEnds, ChannelTypeOK, clientVars
<1>11. CASE Read
  BY <1>11 DEF Read, ChannelTypeOK, clientVars
<1>12. CASE Deliver
  <2>1. target \in Ids
    BY <1>12 DEF LoopHolds, LoopTypeOK, Deliver
  <2>2. ch' = [ch EXCEPT ![target] = <<target>>] \/ UNCHANGED ch
    BY <1>12, <2>1 DEF Deliver, ChannelTypeOK
  <2> QED BY <2>1, <2>2, ChannelUpdate
<1>13. CASE ReadEnds
  BY <1>13 DEF ReadEnds, ChannelTypeOK, clientVars
<1>14. CASE Lost
  BY <1>14 DEF Lost, ChannelTypeOK, clientVars
<1>15. CASE CollectPending
  BY <1>15 DEF CollectPending, ChannelTypeOK, clientVars
<1>16. CASE FailNext
  <2>1. Head(toFail) \in Ids
    BY <1>16, TailOfIds DEF FailNext, LoopTypeOK
  <2> QED BY <1>16, <2>1, ChannelUpdate DEF FailNext
<1>17. CASE AllFailed
  BY <1>17 DEF AllFailed, ChannelTypeOK, clientVars
<1>18. CASE Backoff
  BY <1>18 DEF Backoff, ChannelTypeOK, clientVars
<1>19. CASE Restart
  BY <1>19 DEF Restart, ChannelTypeOK, clientVars
<1>20. CASE Handshake
  BY <1>20 DEF Handshake, ChannelTypeOK, clientVars
<1>21. CASE HandshakeEnds
  BY <1>21 DEF HandshakeEnds, ChannelTypeOK, clientVars
<1>22. CASE CloseBegin
  <2>1. ch' = [i \in Ids |-> IF i \in pending /\ ch[i] = <<>> THEN <<Nil>> ELSE ch[i]]
    BY <1>22 DEF CloseBegin
  <2>2. <<Nil>> \in Seq(Ids \cup {Nil}) /\ Len(<<Nil>>) <= 1
    OBVIOUS
  <2> QED BY <2>1, <2>2 DEF ChannelTypeOK
<1>23. CASE CloseCancels
  BY <1>23 DEF CloseCancels, ChannelTypeOK, clientVars
<1>24. CASE CloseReturns
  BY <1>24 DEF CloseReturns, ChannelTypeOK, clientVars
<1>25. CASE LoseConnection
  BY <1>25 DEF LoseConnection, ChannelTypeOK, clientVars
<1>26. ASSUME NEW id \in Ids, Answer(id) PROVE ChannelTypeOK'
  BY <1>26 DEF Answer, ChannelTypeOK, clientVars
<1>27. CASE InitializeDial
  BY <1>27 DEF InitializeDial, ChannelTypeOK, clientVars
<1>28. CASE Dial
  BY <1>28 DEF Dial, ChannelTypeOK, clientVars
<1> QED
  BY <1>1, <1>2, <1>3, <1>4, <1>5, <1>6, <1>7, <1>8, <1>9, <1>10, <1>11, <1>12, <1>13,
     <1>14, <1>15, <1>16, <1>17, <1>18, <1>19, <1>20, <1>21, <1>22, <1>23, <1>24, <1>25,
     <1>26, <1>27, <1>28
     DEF Next, CallStep, InitializeStep, LoopStep, CloseStep

-----------------------------------------------------------------------------
\* reconnectLoop holds a channel only where it delivers, and a list only where
\* it fails it.
LEMMA LoopHoldsPreserved ==
  ASSUME TypeOK, LoopHolds, Next
  PROVE  LoopHolds'
<1> USE DEF TypeOK, LoopHolds, CallTypeOK, AllCalls, callVars, loopVars
<1>1. ASSUME NEW c \in Calls, RequireInit(c) PROVE LoopHolds'
  <2>1. c # Initializer
    BY CallsAssumption
  <2> QED BY <1>1, <2>1 DEF RequireInit
<1>2. ASSUME NEW c \in Calls, LowLevelCall(c) PROVE LoopHolds'
  <2>1. c # Initializer
    BY CallsAssumption
  <2> QED BY <1>2, <2>1 DEF LowLevelCall
<1>3. ASSUME NEW c \in AllCalls, Register(c) PROVE LoopHolds'
  BY <1>3 DEF Register
<1>4. ASSUME NEW c \in AllCalls, SendRequest(c) PROVE LoopHolds'
  BY <1>4 DEF SendRequest, Transmit, SendMayFail
<1>5. ASSUME NEW c \in AllCalls, TakeResponse(c) PROVE LoopHolds'
  BY <1>5 DEF TakeResponse
<1>6. ASSUME NEW c \in AllCalls, Leave(c) PROVE LoopHolds'
  <2>1. at'[Initializer] \in {"idle", "dialed", "started"} => at[Initializer] \in {"idle", "dialed", "started"}
    BY <1>6 DEF Leave, Finish
  <2> QED BY <1>6, <2>1 DEF Leave
<1>7. ASSUME NEW c \in AllCalls, GiveUp(c) PROVE LoopHolds'
  BY <1>7 DEF GiveUp
<1>8. CASE InitializeStart
  BY <1>8 DEF InitializeStart, Connect
<1>9. CASE InitializeLaunch
  BY <1>9 DEF InitializeLaunch
<1>10. CASE InitializeEnds
  BY <1>10 DEF InitializeEnds, Disconnect
<1>11. CASE Read
  <2>1. Head(inbox) \in Ids
    BY <1>11, TailOfIds DEF WireTypeOK, Read
  <2>2. Head(inbox) # Nil
    BY <2>1, IdFacts
  <2> QED BY <1>11, <2>2 DEF Read
<1>12. CASE Deliver
  BY <1>12 DEF Deliver
<1>13. CASE ReadEnds
  BY <1>13 DEF ReadEnds
<1>14. CASE Lost
  BY <1>14 DEF Lost
<1>15. CASE CollectPending
  BY <1>15 DEF CollectPending
<1>16. CASE FailNext
  BY <1>16 DEF FailNext
<1>17. CASE AllFailed
  BY <1>17 DEF AllFailed
<1>18. CASE Backoff
  BY <1>18 DEF Backoff
<1>19. CASE Restart
  BY <1>19 DEF Restart
<1>20. CASE Handshake
  BY <1>20 DEF Handshake
<1>21. CASE HandshakeEnds
  BY <1>21, OptionsAssumption DEF HandshakeEnds
<1>22. CASE CloseBegin
  BY <1>22 DEF CloseBegin
<1>23. CASE CloseCancels
  BY <1>23 DEF CloseCancels, Disconnect
<1>24. CASE CloseReturns
  BY <1>24 DEF CloseReturns
<1>25. CASE LoseConnection
  BY <1>25 DEF LoseConnection
<1>26. ASSUME NEW id \in Ids, Answer(id) PROVE LoopHolds'
  BY <1>26 DEF Answer
<1>27. CASE InitializeDial
  BY <1>27 DEF InitializeDial
<1>28. CASE Dial
  BY <1>28 DEF Dial
<1> QED
  BY <1>1, <1>2, <1>3, <1>4, <1>5, <1>6, <1>7, <1>8, <1>9, <1>10, <1>11, <1>12, <1>13,
     <1>14, <1>15, <1>16, <1>17, <1>18, <1>19, <1>20, <1>21, <1>22, <1>23, <1>24, <1>25,
     <1>26, <1>27, <1>28
     DEF Next, CallStep, InitializeStep, LoopStep, CloseStep

\* An id belongs to one call, also when handshakes draw from the same counter.
LEMMA IdsDrawnPreserved ==
  ASSUME TypeOK, IdsDrawn, Next
  PROVE  IdsDrawn'
<1> USE DEF TypeOK
<1>1. ASSUME NEW c \in Calls, RequireInit(c) PROVE IdsDrawn'
  <2>1. UNCHANGED <<idSeq, myId>> /\ pending' \subseteq pending
    BY <1>1 DEF RequireInit, clientVars, callVars
  <2>2. \A d \in AllCalls : InFlight(d)' => InFlight(d)
    BY <1>1 DEF RequireInit, InFlight, CallTypeOK, callVars, AllCalls
  <2> QED BY <2>1, <2>2 DEF IdsDrawn
<1>2. ASSUME NEW c \in Calls, LowLevelCall(c) PROVE IdsDrawn'
  <2>1. UNCHANGED <<idSeq, myId>> /\ pending' \subseteq pending
    BY <1>2 DEF LowLevelCall, clientVars, callVars
  <2>2. \A d \in AllCalls : InFlight(d)' => InFlight(d)
    BY <1>2 DEF LowLevelCall, InFlight, CallTypeOK, callVars, AllCalls
  <2> QED BY <2>1, <2>2 DEF IdsDrawn
<1>3. ASSUME NEW c \in AllCalls, Register(c) PROVE IdsDrawn'
  <2>1. CASE closed
    <3>1. UNCHANGED <<idSeq, myId, pending>>
      BY <1>3, <2>1 DEF Register
    <3>2. \A d \in AllCalls : InFlight(d)' => InFlight(d)
      BY <1>3, <2>1 DEF Register, InFlight, CallTypeOK
    <3> QED BY <3>1, <3>2 DEF IdsDrawn
  <2>2. CASE ~closed
    <3>1. /\ idSeq' = idSeq + 1 /\ pending' = pending \cup {idSeq'} /\ idSeq' # Nil
          /\ myId' = [myId EXCEPT ![c] = idSeq'] /\ at' = [at EXCEPT ![c] = "registered"]
      BY <1>3, <2>2, IdFacts DEF Register, Nil
    <3>2. /\ idSeq \in Nat /\ \A i \in pending : i \in Nat
          /\ \A d \in AllCalls : myId[d] \in Nat
      BY IdFacts DEF TableTypeOK, CallTypeOK, Nil
    <3>3. /\ \A d \in AllCalls : myId'[d] = IF d = c THEN idSeq' ELSE myId[d]
          /\ \A d \in AllCalls : d # c => at'[d] = at[d]
      BY <3>1 DEF CallTypeOK
    <3>4. \A i \in pending' : i <= idSeq'
      BY <3>1, <3>2 DEF IdsDrawn
    <3>5. \A d \in AllCalls : myId'[d] <= idSeq' /\ (InFlight(d)' => myId'[d] # Nil)
      BY <3>1, <3>2, <3>3 DEF IdsDrawn, InFlight
    <3>6. \A d \in AllCalls : d # c => myId[d] # idSeq'
      BY <3>1, <3>2 DEF IdsDrawn
    <3>7. \A d, e \in AllCalls : d # e /\ myId'[d] # Nil => myId'[d] # myId'[e]
      BY <3>3, <3>6 DEF IdsDrawn
    <3> QED BY <3>4, <3>5, <3>7 DEF IdsDrawn
  <2> QED BY <2>1, <2>2
<1>4. ASSUME NEW c \in AllCalls, SendRequest(c) PROVE IdsDrawn'
  <2>1. UNCHANGED <<idSeq, myId, pending>>
    BY <1>4 DEF SendRequest, clientVars
  <2>2. \A d \in AllCalls : InFlight(d)' => InFlight(d)
    BY <1>4 DEF SendRequest, InFlight, CallTypeOK
  <2> QED BY <2>1, <2>2 DEF IdsDrawn
<1>5. ASSUME NEW c \in AllCalls, TakeResponse(c) PROVE IdsDrawn'
  <2>1. UNCHANGED <<idSeq, myId>> /\ pending' \subseteq pending
    BY <1>5 DEF TakeResponse, clientVars, callVars
  <2>2. \A d \in AllCalls : InFlight(d)' => InFlight(d)
    BY <1>5 DEF TakeResponse, InFlight, CallTypeOK, callVars, AllCalls
  <2> QED BY <2>1, <2>2 DEF IdsDrawn
<1>6. ASSUME NEW c \in AllCalls, Leave(c) PROVE IdsDrawn'
  <2>1. UNCHANGED <<idSeq, myId>> /\ pending' \subseteq pending
    BY <1>6 DEF Leave, clientVars, callVars
  <2>2. \A d \in AllCalls : InFlight(d)' => InFlight(d)
    BY <1>6 DEF Leave, InFlight, CallTypeOK, callVars, AllCalls, Finish
  <2> QED BY <2>1, <2>2 DEF IdsDrawn
<1>7. ASSUME NEW c \in AllCalls, GiveUp(c) PROVE IdsDrawn'
  <2>1. UNCHANGED <<idSeq, myId>> /\ pending' \subseteq pending
    BY <1>7 DEF GiveUp, clientVars, callVars
  <2>2. \A d \in AllCalls : InFlight(d)' => InFlight(d)
    BY <1>7 DEF GiveUp, InFlight, CallTypeOK, callVars, AllCalls
  <2> QED BY <2>1, <2>2 DEF IdsDrawn
<1>8. CASE InitializeStart
  <2>1. UNCHANGED <<idSeq, myId>> /\ pending' \subseteq pending
    BY <1>8 DEF InitializeStart, clientVars, callVars
  <2>2. \A d \in AllCalls : InFlight(d)' => InFlight(d)
    BY <1>8 DEF InitializeStart, InFlight, CallTypeOK, callVars, AllCalls
  <2> QED BY <2>1, <2>2 DEF IdsDrawn
<1>9. CASE InitializeLaunch
  <2>1. UNCHANGED <<idSeq, myId>> /\ pending' \subseteq pending
    BY <1>9 DEF InitializeLaunch, clientVars, callVars
  <2>2. \A d \in AllCalls : InFlight(d)' => InFlight(d)
    BY <1>9 DEF InitializeLaunch, InFlight, CallTypeOK, callVars, AllCalls
  <2> QED BY <2>1, <2>2 DEF IdsDrawn
<1>10. CASE InitializeEnds
  <2>1. UNCHANGED <<idSeq, myId>> /\ pending' \subseteq pending
    BY <1>10 DEF InitializeEnds, clientVars, callVars
  <2>2. \A d \in AllCalls : InFlight(d)' => InFlight(d)
    BY <1>10 DEF InitializeEnds, InFlight, CallTypeOK, callVars, AllCalls
  <2> QED BY <2>1, <2>2 DEF IdsDrawn
<1>11. CASE Read
  <2>1. UNCHANGED <<idSeq, myId>> /\ pending' \subseteq pending
    BY <1>11 DEF Read, clientVars, callVars
  <2>2. \A d \in AllCalls : InFlight(d)' => InFlight(d)
    BY <1>11 DEF Read, InFlight, CallTypeOK, callVars, AllCalls
  <2> QED BY <2>1, <2>2 DEF IdsDrawn
<1>12. CASE Deliver
  <2>1. UNCHANGED <<idSeq, myId>> /\ pending' \subseteq pending
    BY <1>12 DEF Deliver, clientVars, callVars
  <2>2. \A d \in AllCalls : InFlight(d)' => InFlight(d)
    BY <1>12 DEF Deliver, InFlight, CallTypeOK, callVars, AllCalls
  <2> QED BY <2>1, <2>2 DEF IdsDrawn
<1>13. CASE ReadEnds
  <2>1. UNCHANGED <<idSeq, myId>> /\ pending' \subseteq pending
    BY <1>13 DEF ReadEnds, clientVars, callVars
  <2>2. \A d \in AllCalls : InFlight(d)' => InFlight(d)
    BY <1>13 DEF ReadEnds, InFlight, CallTypeOK, callVars, AllCalls
  <2> QED BY <2>1, <2>2 DEF IdsDrawn
<1>14. CASE Lost
  <2>1. UNCHANGED <<idSeq, myId>> /\ pending' \subseteq pending
    BY <1>14 DEF Lost, clientVars, callVars
  <2>2. \A d \in AllCalls : InFlight(d)' => InFlight(d)
    BY <1>14 DEF Lost, InFlight, CallTypeOK, callVars, AllCalls
  <2> QED BY <2>1, <2>2 DEF IdsDrawn
<1>15. CASE CollectPending
  <2>1. UNCHANGED <<idSeq, myId>> /\ pending' \subseteq pending
    BY <1>15 DEF CollectPending, clientVars, callVars
  <2>2. \A d \in AllCalls : InFlight(d)' => InFlight(d)
    BY <1>15 DEF CollectPending, InFlight, CallTypeOK, callVars, AllCalls
  <2> QED BY <2>1, <2>2 DEF IdsDrawn
<1>16. CASE FailNext
  <2>1. UNCHANGED <<idSeq, myId>> /\ pending' \subseteq pending
    BY <1>16 DEF FailNext, clientVars, callVars
  <2>2. \A d \in AllCalls : InFlight(d)' => InFlight(d)
    BY <1>16 DEF FailNext, InFlight, CallTypeOK, callVars, AllCalls
  <2> QED BY <2>1, <2>2 DEF IdsDrawn
<1>17. CASE AllFailed
  <2>1. UNCHANGED <<idSeq, myId>> /\ pending' \subseteq pending
    BY <1>17 DEF AllFailed, clientVars, callVars
  <2>2. \A d \in AllCalls : InFlight(d)' => InFlight(d)
    BY <1>17 DEF AllFailed, InFlight, CallTypeOK, callVars, AllCalls
  <2> QED BY <2>1, <2>2 DEF IdsDrawn
<1>18. CASE Backoff
  <2>1. UNCHANGED <<idSeq, myId>> /\ pending' \subseteq pending
    BY <1>18 DEF Backoff, clientVars, callVars
  <2>2. \A d \in AllCalls : InFlight(d)' => InFlight(d)
    BY <1>18 DEF Backoff, InFlight, CallTypeOK, callVars, AllCalls
  <2> QED BY <2>1, <2>2 DEF IdsDrawn
<1>19. CASE Restart
  <2>1. UNCHANGED <<idSeq, myId>> /\ pending' \subseteq pending
    BY <1>19 DEF Restart, clientVars, callVars
  <2>2. \A d \in AllCalls : InFlight(d)' => InFlight(d)
    BY <1>19 DEF Restart, InFlight, CallTypeOK, callVars, AllCalls
  <2> QED BY <2>1, <2>2 DEF IdsDrawn
<1>20. CASE Handshake
  <2>1. idSeq' = idSeq + 1 /\ UNCHANGED <<myId, pending, at>>
    BY <1>20 DEF Handshake, callVars
  <2>2. /\ idSeq \in Nat /\ \A i \in pending : i \in Nat
        /\ \A d \in AllCalls : myId[d] \in Nat
    BY IdFacts DEF TableTypeOK, CallTypeOK, Nil
  <2>3. (\A i \in pending : i <= idSeq') /\ \A d \in AllCalls : myId[d] <= idSeq'
    BY <2>1, <2>2 DEF IdsDrawn
  <2> QED BY <2>1, <2>3 DEF IdsDrawn, InFlight
<1>21. CASE HandshakeEnds
  <2>1. UNCHANGED <<idSeq, myId>> /\ pending' \subseteq pending
    BY <1>21 DEF HandshakeEnds, clientVars, callVars
  <2>2. \A d \in AllCalls : InFlight(d)' => InFlight(d)
    BY <1>21 DEF HandshakeEnds, InFlight, CallTypeOK, callVars, AllCalls
  <2> QED BY <2>1, <2>2 DEF IdsDrawn
<1>22. CASE CloseBegin
  <2>1. UNCHANGED <<idSeq, myId>> /\ pending' \subseteq pending
    BY <1>22 DEF CloseBegin, clientVars, callVars
  <2>2. \A d \in AllCalls : InFlight(d)' => InFlight(d)
    BY <1>22 DEF CloseBegin, InFlight, CallTypeOK, callVars, AllCalls
  <2> QED BY <2>1, <2>2 DEF IdsDrawn
<1>23. CASE CloseCancels
  <2>1. UNCHANGED <<idSeq, myId>> /\ pending' \subseteq pending
    BY <1>23 DEF CloseCancels, clientVars, callVars
  <2>2. \A d \in AllCalls : InFlight(d)' => InFlight(d)
    BY <1>23 DEF CloseCancels, InFlight, CallTypeOK, callVars, AllCalls
  <2> QED BY <2>1, <2>2 DEF IdsDrawn
<1>24. CASE CloseReturns
  <2>1. UNCHANGED <<idSeq, myId>> /\ pending' \subseteq pending
    BY <1>24 DEF CloseReturns, clientVars, callVars
  <2>2. \A d \in AllCalls : InFlight(d)' => InFlight(d)
    BY <1>24 DEF CloseReturns, InFlight, CallTypeOK, callVars, AllCalls
  <2> QED BY <2>1, <2>2 DEF IdsDrawn
<1>25. CASE LoseConnection
  <2>1. UNCHANGED <<idSeq, myId>> /\ pending' \subseteq pending
    BY <1>25 DEF LoseConnection, clientVars, callVars
  <2>2. \A d \in AllCalls : InFlight(d)' => InFlight(d)
    BY <1>25 DEF LoseConnection, InFlight, CallTypeOK, callVars, AllCalls
  <2> QED BY <2>1, <2>2 DEF IdsDrawn
<1>26. ASSUME NEW id \in Ids, Answer(id) PROVE IdsDrawn'
  <2>1. UNCHANGED <<idSeq, myId>> /\ pending' \subseteq pending
    BY <1>26 DEF Answer, clientVars, callVars
  <2>2. \A d \in AllCalls : InFlight(d)' => InFlight(d)
    BY <1>26 DEF Answer, InFlight, CallTypeOK, callVars, AllCalls
  <2> QED BY <2>1, <2>2 DEF IdsDrawn
<1>27. CASE InitializeDial
  <2>1. UNCHANGED <<idSeq, myId>> /\ pending' \subseteq pending
    BY <1>27 DEF InitializeDial, clientVars, callVars
  <2>2. \A d \in AllCalls : InFlight(d)' => InFlight(d)
    BY <1>27 DEF InitializeDial, InFlight, CallTypeOK, callVars, AllCalls
  <2> QED BY <2>1, <2>2 DEF IdsDrawn
<1>28. CASE Dial
  <2>1. UNCHANGED <<idSeq, myId>> /\ pending' \subseteq pending
    BY <1>28 DEF Dial, clientVars, callVars
  <2>2. \A d \in AllCalls : InFlight(d)' => InFlight(d)
    BY <1>28 DEF Dial, InFlight, CallTypeOK, callVars, AllCalls
  <2> QED BY <2>1, <2>2 DEF IdsDrawn
<1> QED
  BY <1>1, <1>2, <1>3, <1>4, <1>5, <1>6, <1>7, <1>8, <1>9, <1>10, <1>11, <1>12, <1>13,
     <1>14, <1>15, <1>16, <1>17, <1>18, <1>19, <1>20, <1>21, <1>22, <1>23, <1>24, <1>25,
     <1>26, <1>27, <1>28
     DEF Next, CallStep, InitializeStep, LoopStep, CloseStep

\* A call stays minded while nothing that minds it changes.
LEMMA StaysMinded ==
  ASSUME AttendedInFlight, UNCHANGED <<myId, pending, ch, toFail, target>>,
         \A d \in AllCalls : InFlight(d)' => InFlight(d)
  PROVE  AttendedInFlight'
BY DEF AttendedInFlight, Minded

\* A call in flight stays minded.
LEMMA AttendedPreserved ==
  ASSUME TypeOK, LoopHolds, IdsDrawn, AttendedInFlight, Next
  PROVE  AttendedInFlight'
<1> USE DEF TypeOK
<1>1. ASSUME NEW c \in Calls, RequireInit(c) PROVE AttendedInFlight'
  <2>1. UNCHANGED <<myId, pending, ch, toFail, target>>
    BY <1>1 DEF RequireInit, clientVars, callVars, loopVars
  <2>2. \A d \in AllCalls : InFlight(d)' => InFlight(d)
    BY <1>1 DEF RequireInit, InFlight, CallTypeOK, callVars, AllCalls
  <2> QED BY <2>1, <2>2, StaysMinded
<1>2. ASSUME NEW c \in Calls, LowLevelCall(c) PROVE AttendedInFlight'
  <2>1. UNCHANGED <<myId, pending, ch, toFail, target>>
    BY <1>2 DEF LowLevelCall, clientVars, callVars, loopVars
  <2>2. \A d \in AllCalls : InFlight(d)' => InFlight(d)
    BY <1>2 DEF LowLevelCall, InFlight, CallTypeOK, callVars, AllCalls
  <2> QED BY <2>1, <2>2, StaysMinded
<1>3. ASSUME NEW c \in AllCalls, Register(c) PROVE AttendedInFlight'
  <2>1. CASE closed
    <3>1. UNCHANGED <<myId, pending, ch, toFail, target>>
      BY <1>3, <2>1 DEF Register, loopVars
    <3>2. \A d \in AllCalls : InFlight(d)' => InFlight(d)
      BY <1>3, <2>1 DEF Register, InFlight, CallTypeOK
    <3> QED BY <3>1, <3>2, StaysMinded
  <2>2. CASE ~closed
    <3>1. /\ pending' = pending \cup {idSeq'} /\ UNCHANGED <<ch, toFail, target>>
          /\ myId' = [myId EXCEPT ![c] = idSeq'] /\ at' = [at EXCEPT ![c] = "registered"]
      BY <1>3, <2>2 DEF Register, loopVars
    <3>2. \A d \in AllCalls : d # c => myId'[d] = myId[d] /\ at'[d] = at[d]
      BY <3>1 DEF CallTypeOK
    <3>3. myId'[c] \in pending'
      BY <3>1 DEF CallTypeOK
    <3> QED BY <3>1, <3>2, <3>3 DEF AttendedInFlight, Minded, InFlight
  <2> QED BY <2>1, <2>2
<1>4. ASSUME NEW c \in AllCalls, SendRequest(c) PROVE AttendedInFlight'
  <2>1. UNCHANGED <<myId, pending, ch, toFail, target>>
    BY <1>4 DEF SendRequest, clientVars, callVars, loopVars
  <2>2. \A d \in AllCalls : InFlight(d)' => InFlight(d)
    BY <1>4 DEF SendRequest, InFlight, CallTypeOK, callVars, AllCalls
  <2> QED BY <2>1, <2>2, StaysMinded
<1>5. ASSUME NEW c \in AllCalls, TakeResponse(c) PROVE AttendedInFlight'
  <2>1. /\ ch' = [ch EXCEPT ![myId[c]] = <<>>] /\ at' = [at EXCEPT ![c] = "leaving"]
        /\ UNCHANGED <<myId, pending, toFail, target>> /\ myId[c] \in Ids
    BY <1>5 DEF TakeResponse, loopVars, CallTypeOK, IdsDrawn, InFlight
  <2>2. \A d \in AllCalls : InFlight(d)' => InFlight(d) /\ d # c /\ myId[d] \in Ids
    BY <2>1 DEF InFlight, CallTypeOK, IdsDrawn
  <2>3. \A d \in AllCalls : InFlight(d)' => ch'[myId[d]] = ch[myId[d]]
    BY <2>1, <2>2 DEF ChannelTypeOK, IdsDrawn
  <2> QED BY <2>1, <2>2, <2>3 DEF AttendedInFlight, Minded
<1>6. ASSUME NEW c \in AllCalls, Leave(c) PROVE AttendedInFlight'
  <2>1. /\ pending' = pending \ {myId[c]} /\ at' = [at EXCEPT ![c] = Finish(c)]
        /\ ch' = [ch EXCEPT ![myId[c]] = <<>>] \/ UNCHANGED ch
        /\ UNCHANGED <<myId, toFail, target>>
    BY <1>6 DEF Leave, loopVars
  <2>2. \A d \in AllCalls : InFlight(d)' => InFlight(d) /\ d # c /\ myId[d] \in Ids
    BY <2>1 DEF InFlight, CallTypeOK, IdsDrawn, Finish
  <2>3. \A d \in AllCalls : InFlight(d)' => myId[d] # myId[c] /\ ch'[myId[d]] = ch[myId[d]]
    BY <2>1, <2>2 DEF ChannelTypeOK, IdsDrawn, InFlight
  <2> QED BY <2>1, <2>2, <2>3 DEF AttendedInFlight, Minded
<1>7. ASSUME NEW c \in AllCalls, GiveUp(c) PROVE AttendedInFlight'
  <2>1. UNCHANGED <<myId, pending, ch, toFail, target>>
    BY <1>7 DEF GiveUp, clientVars, callVars, loopVars
  <2>2. \A d \in AllCalls : InFlight(d)' => InFlight(d)
    BY <1>7 DEF GiveUp, InFlight, CallTypeOK, callVars, AllCalls
  <2> QED BY <2>1, <2>2, StaysMinded
<1>8. CASE InitializeStart
  <2>1. UNCHANGED <<myId, pending, ch, toFail, target>>
    BY <1>8 DEF InitializeStart, clientVars, callVars, loopVars
  <2>2. \A d \in AllCalls : InFlight(d)' => InFlight(d)
    BY <1>8 DEF InitializeStart, InFlight, CallTypeOK, callVars, AllCalls
  <2> QED BY <2>1, <2>2, StaysMinded
<1>9. CASE InitializeLaunch
  <2>1. UNCHANGED <<myId, pending, ch, toFail, target>>
    BY <1>9 DEF InitializeLaunch, clientVars, callVars, loopVars
  <2>2. \A d \in AllCalls : InFlight(d)' => InFlight(d)
    BY <1>9 DEF InitializeLaunch, InFlight, CallTypeOK, callVars, AllCalls
  <2> QED BY <2>1, <2>2, StaysMinded
<1>10. CASE InitializeEnds
  <2>1. UNCHANGED <<myId, pending, ch, toFail, target>>
    BY <1>10 DEF InitializeEnds, clientVars, callVars, loopVars
  <2>2. \A d \in AllCalls : InFlight(d)' => InFlight(d)
    BY <1>10 DEF InitializeEnds, InFlight, CallTypeOK, callVars, AllCalls
  <2> QED BY <2>1, <2>2, StaysMinded
<1>11. CASE Read
  <2>1. target = Nil /\ UNCHANGED <<myId, pending, ch, toFail, at>>
    BY <1>11 DEF Read, LoopHolds, clientVars, callVars
  <2> QED BY <2>1 DEF AttendedInFlight, Minded, InFlight, IdsDrawn
<1>12. CASE Deliver
  <2>1. /\ ch' = [ch EXCEPT ![target] = IF @ = <<>> THEN <<target>> ELSE @]
        /\ UNCHANGED <<myId, pending, toFail, at>> /\ target \in Ids
    BY <1>12 DEF Deliver, LoopHolds, LoopTypeOK, callVars
  <2>2. ch'[target] # <<>> /\ \A i \in Ids : i # target => ch'[i] = ch[i]
    BY <2>1 DEF ChannelTypeOK
  <2>3. \A d \in AllCalls : InFlight(d) => myId[d] \in Ids
    BY DEF IdsDrawn, CallTypeOK
  <2> QED BY <2>1, <2>2, <2>3 DEF AttendedInFlight, Minded, InFlight
<1>13. CASE ReadEnds
  <2>1. UNCHANGED <<myId, pending, ch, toFail, target>>
    BY <1>13 DEF ReadEnds, clientVars, callVars, loopVars
  <2>2. \A d \in AllCalls : InFlight(d)' => InFlight(d)
    BY <1>13 DEF ReadEnds, InFlight, CallTypeOK, callVars, AllCalls
  <2> QED BY <2>1, <2>2, StaysMinded
<1>14. CASE Lost
  <2>1. UNCHANGED <<myId, pending, ch, toFail, target>>
    BY <1>14 DEF Lost, clientVars, callVars, loopVars
  <2>2. \A d \in AllCalls : InFlight(d)' => InFlight(d)
    BY <1>14 DEF Lost, InFlight, CallTypeOK, callVars, AllCalls
  <2> QED BY <2>1, <2>2, StaysMinded
<1>15. CASE CollectPending
  <2>1. /\ toFail = <<>> /\ toFail' \in SetToSeqs(pending)
        /\ UNCHANGED <<myId, ch, target, at>>
    BY <1>15 DEF CollectPending, LoopHolds, callVars
  <2>2. \A i \in pending : \E k \in 1 .. Len(toFail') : toFail'[k] = i
    BY <2>1, PendingFinite, SeqOfSet
  <2>3. ~ \E k \in 1 .. Len(toFail) : toFail[k] \in Ids
    BY <2>1
  <2>4. \A d \in AllCalls : InFlight(d) => myId[d] \in Ids
    BY DEF IdsDrawn, CallTypeOK
  <2> QED BY <2>1, <2>2, <2>3, <2>4, Zenon DEF AttendedInFlight, Minded, InFlight
<1>16. CASE FailNext
  <2>1. /\ ch' = [ch EXCEPT ![Head(toFail)] = <<Nil>>] /\ toFail' = Tail(toFail) /\ toFail # <<>>
        /\ UNCHANGED <<myId, pending, target, at>> /\ toFail \in Seq(Ids)
    BY <1>16 DEF FailNext, LoopTypeOK, callVars
  <2> DEFINE h == Head(toFail)
  <2>2. h \in Ids /\ <<Nil>> # <<>>
    BY <2>1, TailOfIds
  <2>3. ch'[h] # <<>> /\ \A i \in Ids : i # h => ch'[i] = ch[i]
    <3> HIDE DEF h
    <3>1. ch' = [ch EXCEPT ![h] = <<Nil>>]
      BY <2>1 DEF h
    <3> QED BY <2>2, <3>1 DEF ChannelTypeOK
  <2>4. \A i \in 1 .. Len(toFail) : toFail[i] = h \/ \E k \in 1 .. Len(toFail') : toFail'[k] = toFail[i]
    <3> SUFFICES ASSUME NEW i \in 1 .. Len(toFail), i # 1
                 PROVE  \E k \in 1 .. Len(toFail') : toFail'[k] = toFail[i]
      BY <2>1, TailOfIds
    <3>1. /\ Len(toFail) \in Nat /\ Len(toFail') = Len(toFail) - 1
          /\ \A k \in 1 .. Len(toFail') : toFail'[k] = toFail[k + 1]
      BY <2>1, TailOfIds
    <3>2. i - 1 \in 1 .. Len(toFail') /\ (i - 1) + 1 = i
      BY <3>1
    <3> QED BY <3>1, <3>2
  <2>5. \A d \in AllCalls : InFlight(d) => myId[d] \in Ids
    BY DEF IdsDrawn, CallTypeOK
  <2>6. ASSUME NEW d \in AllCalls, InFlight(d)' PROVE Minded(d)'
    <3>1. Minded(d) /\ myId[d] \in Ids /\ UNCHANGED <<myId, pending, target>>
      BY <2>1, <2>5, <2>6 DEF AttendedInFlight, InFlight
    <3>2. CASE myId[d] = h
      BY <2>3, <3>1, <3>2 DEF Minded
    <3>3. CASE myId[d] # h
      <4>1. ch'[myId[d]] = ch[myId[d]]
        BY <2>3, <3>1, <3>3
      <4>2. (\E i \in 1 .. Len(toFail) : toFail[i] = myId[d])
              => \E k \in 1 .. Len(toFail') : toFail'[k] = myId[d]
        BY <2>4, <3>3, Zenon
      <4> HIDE DEF h
      <4> QED BY <3>1, <4>1, <4>2, Zenon DEF Minded
    <3> QED BY <3>2, <3>3
  <2> QED BY <2>6 DEF AttendedInFlight
<1>17. CASE AllFailed
  <2>1. UNCHANGED <<myId, pending, ch, toFail, target>>
    BY <1>17 DEF AllFailed, clientVars, callVars, loopVars
  <2>2. \A d \in AllCalls : InFlight(d)' => InFlight(d)
    BY <1>17 DEF AllFailed, InFlight, CallTypeOK, callVars, AllCalls
  <2> QED BY <2>1, <2>2, StaysMinded
<1>18. CASE Backoff
  <2>1. UNCHANGED <<myId, pending, ch, toFail, target>>
    BY <1>18 DEF Backoff, clientVars, callVars, loopVars
  <2>2. \A d \in AllCalls : InFlight(d)' => InFlight(d)
    BY <1>18 DEF Backoff, InFlight, CallTypeOK, callVars, AllCalls
  <2> QED BY <2>1, <2>2, StaysMinded
<1>19. CASE Restart
  <2>1. UNCHANGED <<myId, pending, ch, toFail, target>>
    BY <1>19 DEF Restart, clientVars, callVars, loopVars
  <2>2. \A d \in AllCalls : InFlight(d)' => InFlight(d)
    BY <1>19 DEF Restart, InFlight, CallTypeOK, callVars, AllCalls
  <2> QED BY <2>1, <2>2, StaysMinded
<1>20. CASE Handshake
  <2>1. UNCHANGED <<myId, pending, ch, toFail, target>>
    BY <1>20 DEF Handshake, clientVars, callVars, loopVars
  <2>2. \A d \in AllCalls : InFlight(d)' => InFlight(d)
    BY <1>20 DEF Handshake, InFlight, CallTypeOK, callVars, AllCalls
  <2> QED BY <2>1, <2>2, StaysMinded
<1>21. CASE HandshakeEnds
  <2>1. UNCHANGED <<myId, pending, ch, toFail, target>>
    BY <1>21 DEF HandshakeEnds, clientVars, callVars, loopVars
  <2>2. \A d \in AllCalls : InFlight(d)' => InFlight(d)
    BY <1>21 DEF HandshakeEnds, InFlight, CallTypeOK, callVars, AllCalls
  <2> QED BY <2>1, <2>2, StaysMinded
<1>22. CASE CloseBegin
  <2>1. /\ ch' = [i \in Ids |-> IF i \in pending /\ ch[i] = <<>> THEN <<Nil>> ELSE ch[i]]
        /\ UNCHANGED <<myId, toFail, target, at>>
    BY <1>22 DEF CloseBegin, callVars, loopVars
  <2>2. <<Nil>> # <<>>
    OBVIOUS
  <2>3. \A i \in Ids : (i \in pending => ch'[i] # <<>>) /\ (ch[i] # <<>> => ch'[i] # <<>>)
    BY <2>1, <2>2
  <2>4. \A d \in AllCalls : InFlight(d) => myId[d] \in Ids
    BY DEF IdsDrawn, CallTypeOK
  <2> QED BY <2>1, <2>3, <2>4 DEF AttendedInFlight, Minded, InFlight
<1>23. CASE CloseCancels
  <2>1. UNCHANGED <<myId, pending, ch, toFail, target>>
    BY <1>23 DEF CloseCancels, clientVars, callVars, loopVars
  <2>2. \A d \in AllCalls : InFlight(d)' => InFlight(d)
    BY <1>23 DEF CloseCancels, InFlight, CallTypeOK, callVars, AllCalls
  <2> QED BY <2>1, <2>2, StaysMinded
<1>24. CASE CloseReturns
  <2>1. UNCHANGED <<myId, pending, ch, toFail, target>>
    BY <1>24 DEF CloseReturns, clientVars, callVars, loopVars
  <2>2. \A d \in AllCalls : InFlight(d)' => InFlight(d)
    BY <1>24 DEF CloseReturns, InFlight, CallTypeOK, callVars, AllCalls
  <2> QED BY <2>1, <2>2, StaysMinded
<1>25. CASE LoseConnection
  <2>1. UNCHANGED <<myId, pending, ch, toFail, target>>
    BY <1>25 DEF LoseConnection, clientVars, callVars, loopVars
  <2>2. \A d \in AllCalls : InFlight(d)' => InFlight(d)
    BY <1>25 DEF LoseConnection, InFlight, CallTypeOK, callVars, AllCalls
  <2> QED BY <2>1, <2>2, StaysMinded
<1>26. ASSUME NEW id \in Ids, Answer(id) PROVE AttendedInFlight'
  <2>1. UNCHANGED <<myId, pending, ch, toFail, target>>
    BY <1>26 DEF Answer, clientVars, callVars, loopVars
  <2>2. \A d \in AllCalls : InFlight(d)' => InFlight(d)
    BY <1>26 DEF Answer, InFlight, CallTypeOK, callVars, AllCalls
  <2> QED BY <2>1, <2>2, StaysMinded
<1>27. CASE InitializeDial
  <2>1. UNCHANGED <<myId, pending, ch, toFail, target>>
    BY <1>27 DEF InitializeDial, clientVars, callVars, loopVars
  <2>2. \A d \in AllCalls : InFlight(d)' => InFlight(d)
    BY <1>27 DEF InitializeDial, InFlight, CallTypeOK, callVars, AllCalls
  <2> QED BY <2>1, <2>2, StaysMinded
<1>28. CASE Dial
  <2>1. UNCHANGED <<myId, pending, ch, toFail, target>>
    BY <1>28 DEF Dial, clientVars, callVars, loopVars
  <2>2. \A d \in AllCalls : InFlight(d)' => InFlight(d)
    BY <1>28 DEF Dial, InFlight, CallTypeOK, callVars, AllCalls
  <2> QED BY <2>1, <2>2, StaysMinded
<1> QED
  BY <1>1, <1>2, <1>3, <1>4, <1>5, <1>6, <1>7, <1>8, <1>9, <1>10, <1>11, <1>12, <1>13,
     <1>14, <1>15, <1>16, <1>17, <1>18, <1>19, <1>20, <1>21, <1>22, <1>23, <1>24, <1>25,
     <1>26, <1>27, <1>28
     DEF Next, CallStep, InitializeStep, LoopStep, CloseStep

-----------------------------------------------------------------------------
\* An id is not found on the way back when only a part of what was there is left.
LEMMA StaysUnanswered ==
  ASSUME TypeOK, asked' \subseteq asked,
         inbox' \in {inbox, <<>>} \/ (inbox # <<>> /\ inbox' = Tail(inbox)),
         target' \in {target, Nil} \/ (inbox # <<>> /\ target' = Head(inbox))
  PROVE  \A i \in Ids : Unanswered(i) => Unanswered(i)'
<1> SUFFICES ASSUME NEW i \in Ids, Unanswered(i)
             PROVE  Unanswered(i)'
  OBVIOUS
<1>1. /\ i \notin asked /\ target # i /\ i # Nil
      /\ \A k \in 1 .. Len(inbox) : inbox[k] # i
  BY IdFacts DEF Unanswered, TypeOK
<1>2. inbox # <<>> => /\ Head(inbox) # i
                      /\ \A k \in 1 .. Len(Tail(inbox)) : Tail(inbox)[k] # i
  <2> SUFFICES ASSUME inbox # <<>>
               PROVE  /\ Head(inbox) # i
                      /\ \A k \in 1 .. Len(Tail(inbox)) : Tail(inbox)[k] # i
    OBVIOUS
  <2>1. /\ Len(inbox) \in Nat /\ Len(inbox) # 0 /\ Head(inbox) = inbox[1]
        /\ Len(Tail(inbox)) = Len(inbox) - 1
        /\ \A k \in 1 .. Len(Tail(inbox)) : Tail(inbox)[k] = inbox[k + 1]
    BY TailOfIds DEF TypeOK, WireTypeOK
  <2>2. 1 \in 1 .. Len(inbox) /\ \A k \in 1 .. Len(Tail(inbox)) : k + 1 \in 1 .. Len(inbox)
    BY <2>1
  <2> QED BY <1>1, <2>1, <2>2
<1>3. \A k \in 1 .. Len(inbox') : inbox'[k] # i
  <2>1. CASE inbox' = <<>>
    BY <2>1
  <2>2. CASE inbox' = inbox
    BY <1>1, <2>2
  <2>3. CASE inbox # <<>> /\ inbox' = Tail(inbox)
    BY <1>2, <2>3
  <2> QED BY <2>1, <2>2, <2>3
<1> QED BY <1>1, <1>2, <1>3 DEF Unanswered

\* Nothing is early after a step that draws no id, if what is not found stays so.
LEMMA StaysEarly ==
  ASSUME TypeOK, IdsDrawn, NothingEarly, UNCHANGED idSeq,
         \A d \in AllCalls : at'[d] = "registered" => at[d] = "registered" /\ myId'[d] = myId[d],
         \A i \in Ids : Unanswered(i) => Unanswered(i)',
         \A i \in Ids : ch'[i] \in {ch[i], <<>>} \/ (ch'[i] = <<Nil>> /\ i <= idSeq) \/ ~ Unanswered(i),
         \A k \in 1 .. Len(toFail') : toFail'[k] <= idSeq
  PROVE  NothingEarly'
<1>1. /\ idSeq \in Nat /\ \A i \in Ids : i \in Nat
      /\ \A d \in AllCalls : at[d] = "registered" => myId[d] \in Ids
  BY IdFacts DEF TypeOK, CallTypeOK, IdsDrawn, InFlight
<1>2. ASSUME NEW d \in AllCalls, at'[d] = "registered"
      PROVE  ch'[myId'[d]] \in {<<>>, <<Nil>>} /\ Unanswered(myId[d])'
  <2>1. at[d] = "registered" /\ myId'[d] = myId[d] /\ myId[d] \in Ids
    BY <1>1, <1>2
  <2>2. ch[myId[d]] \in {<<>>, <<Nil>>} /\ Unanswered(myId[d])
    BY <2>1 DEF NothingEarly
  <2>3. ch'[myId[d]] \in {ch[myId[d]], <<>>, <<Nil>>}
    BY <2>1, <2>2
  <2>4. Unanswered(myId[d])'
    BY <2>1, <2>2 DEF Unanswered
  <2> QED BY <2>1, <2>2, <2>3, <2>4
<1>3. ASSUME NEW i \in Ids, i > idSeq
      PROVE  /\ ch'[i] = <<>> /\ Unanswered(i)'
             /\ \A k \in 1 .. Len(toFail') : toFail'[k] # i
  <2>1. ch[i] = <<>> /\ Unanswered(i) /\ ~ (i <= idSeq)
    BY <1>1, <1>3 DEF NothingEarly
  <2>2. \A k \in 1 .. Len(toFail') : toFail'[k] # i
    BY <2>1
  <2> QED BY <2>1, <2>2
<1> QED BY <1>2, <1>3 DEF NothingEarly

\* What failPendingRequests has collected was drawn.
LEMMA ToFailDrawn ==
  ASSUME TypeOK, NothingEarly
  PROVE  \A k \in 1 .. Len(toFail) : toFail[k] \in Ids /\ toFail[k] <= idSeq
<1> SUFFICES ASSUME NEW k \in 1 .. Len(toFail)
             PROVE  toFail[k] \in Ids /\ toFail[k] <= idSeq
  OBVIOUS
<1>1. toFail[k] \in Ids
  BY DEF TypeOK, LoopTypeOK
<1>2. ~ (toFail[k] > idSeq)
  BY <1>1 DEF NothingEarly
<1> QED BY <1>1, <1>2, IdFacts DEF TypeOK

\* Nothing of a request is found before it is sent: its id is new, and only Send
\* makes it known.
LEMMA NothingEarlyPreserved ==
  ASSUME TypeOK, LoopHolds, IdsDrawn, NothingEarly, Next
  PROVE  NothingEarly'
<1> USE DEF TypeOK
<1>1. ASSUME NEW c \in Calls, RequireInit(c) PROVE NothingEarly'
  <2>1. \A d \in AllCalls : at'[d] = "registered" => at[d] = "registered" /\ myId'[d] = myId[d]
    BY <1>1 DEF RequireInit, CallTypeOK, AllCalls, callVars
  <2>2. /\ UNCHANGED <<idSeq, toFail, ch>> /\ asked' \subseteq asked
        /\ inbox' \in {inbox, <<>>} \/ (inbox # <<>> /\ inbox' = Tail(inbox))
        /\ target' \in {target, Nil} \/ (inbox # <<>> /\ target' = Head(inbox))
    BY <1>1 DEF RequireInit, clientVars, callVars, loopVars, wireVars
  <2> QED BY <2>1, <2>2, StaysEarly, StaysUnanswered, ToFailDrawn
<1>2. ASSUME NEW c \in Calls, LowLevelCall(c) PROVE NothingEarly'
  <2>1. \A d \in AllCalls : at'[d] = "registered" => at[d] = "registered" /\ myId'[d] = myId[d]
    BY <1>2 DEF LowLevelCall, CallTypeOK, AllCalls, callVars
  <2>2. /\ UNCHANGED <<idSeq, toFail, ch>> /\ asked' \subseteq asked
        /\ inbox' \in {inbox, <<>>} \/ (inbox # <<>> /\ inbox' = Tail(inbox))
        /\ target' \in {target, Nil} \/ (inbox # <<>> /\ target' = Head(inbox))
    BY <1>2 DEF LowLevelCall, clientVars, callVars, loopVars, wireVars
  <2> QED BY <2>1, <2>2, StaysEarly, StaysUnanswered, ToFailDrawn
<1>3. ASSUME NEW c \in AllCalls, Register(c) PROVE NothingEarly'
  <2>1. UNCHANGED <<ch, toFail, asked, inbox, target>>
    BY <1>3 DEF Register, loopVars, wireVars
  <2>2. \A i \in Ids : Unanswered(i) => Unanswered(i)'
    BY <2>1 DEF Unanswered
  <2>3. CASE closed
    <3>1. /\ UNCHANGED idSeq
          /\ \A d \in AllCalls : at'[d] = "registered" => at[d] = "registered" /\ myId'[d] = myId[d]
      BY <1>3, <2>3 DEF Register, CallTypeOK
    <3> QED BY <2>1, <2>2, <3>1, StaysEarly, ToFailDrawn
  <2>4. CASE ~closed
    <3>1. /\ idSeq' = idSeq + 1 /\ idSeq' \in Ids
          /\ myId' = [myId EXCEPT ![c] = idSeq'] /\ at' = [at EXCEPT ![c] = "registered"]
      BY <1>3, <2>4, IdFacts DEF Register
    <3>2. idSeq \in Nat /\ \A i \in Ids : i \in Nat
      BY IdFacts
    <3>3. /\ myId'[c] = idSeq'
          /\ \A d \in AllCalls : d # c => at'[d] = at[d] /\ myId'[d] = myId[d]
      BY <3>1 DEF CallTypeOK
    <3>4. ch[idSeq'] = <<>> /\ Unanswered(idSeq')
      <4>1. idSeq' > idSeq
        BY <3>1, <3>2
      <4> HIDE DEF TypeOK
      <4> QED BY <3>1, <4>1 DEF NothingEarly, Unanswered
    <3>5. ASSUME NEW d \in AllCalls, at'[d] = "registered"
          PROVE  ch'[myId'[d]] \in {<<>>, <<Nil>>} /\ Unanswered(myId[d])'
      <4>1. CASE d = c
        BY <2>1, <3>3, <3>4, <4>1 DEF Unanswered
      <4>2. CASE d # c
        <5>1. at[d] = "registered" /\ myId'[d] = myId[d]
          BY <3>3, <3>5, <4>2
        <5>2. ch[myId[d]] \in {<<>>, <<Nil>>} /\ Unanswered(myId[d])
          BY <5>1 DEF NothingEarly
        <5> QED BY <2>1, <5>1, <5>2 DEF Unanswered
      <4> QED BY <4>1, <4>2
    <3>6. \A i \in Ids : i > idSeq' => i > idSeq
      BY <3>1, <3>2
    <3>7. \A i \in Ids : i > idSeq' => /\ ch'[i] = <<>> /\ Unanswered(i)'
                                     /\ \A k \in 1 .. Len(toFail') : toFail'[k] # i
      BY <2>1, <2>2, <3>6 DEF NothingEarly
    <3> QED BY <3>5, <3>7 DEF NothingEarly
  <2> QED BY <2>3, <2>4
<1>4. ASSUME NEW c \in AllCalls, SendRequest(c) PROVE NothingEarly'
  <2>1. /\ UNCHANGED <<ch, toFail, target, idSeq, myId, inbox>> /\ myId[c] \in Ids
        /\ asked' \subseteq asked \cup {myId[c]}
    BY <1>4 DEF SendRequest, Transmit, clientVars, loopVars, wireVars, CallTypeOK, IdsDrawn, InFlight
  <2>2. \A d \in AllCalls : at'[d] = "registered" => at[d] = "registered" /\ d # c
    BY <1>4 DEF SendRequest, CallTypeOK
  <2>3. \A i \in Ids : (Unanswered(i) /\ i # myId[c]) => Unanswered(i)'
    BY <2>1 DEF Unanswered
  <2>4. /\ \A d \in AllCalls : at'[d] = "registered" => myId[d] \in Ids /\ myId[d] # myId[c]
        /\ \A i \in Ids : i > idSeq => i # myId[c]
    <3>1. \A d \in AllCalls : at[d] = "registered" => myId[d] \in Ids
      BY DEF CallTypeOK, IdsDrawn, InFlight
    <3>2. myId[c] <= idSeq /\ idSeq \in Nat /\ myId[c] \in Nat /\ myId[c] # Nil
      BY <2>1, IdFacts DEF IdsDrawn
    <3> QED BY <2>2, <3>1, <3>2 DEF IdsDrawn
  <2>5. ASSUME NEW d \in AllCalls, at'[d] = "registered"
        PROVE  ch'[myId'[d]] \in {<<>>, <<Nil>>} /\ Unanswered(myId[d])'
    <3>1. ch[myId[d]] \in {<<>>, <<Nil>>} /\ Unanswered(myId[d])
      BY <2>2, <2>5 DEF NothingEarly
    <3> QED BY <2>1, <2>4, <2>5, <3>1 DEF Unanswered
  <2>6. \A i \in Ids : i > idSeq => /\ ch'[i] = <<>> /\ Unanswered(i)'
                                  /\ \A k \in 1 .. Len(toFail') : toFail'[k] # i
    BY <2>1, <2>3, <2>4 DEF NothingEarly
  <2> QED BY <2>1, <2>5, <2>6 DEF NothingEarly
<1>5. ASSUME NEW c \in AllCalls, TakeResponse(c) PROVE NothingEarly'
  <2>1. /\ \A d \in AllCalls : at'[d] = "registered" => at[d] = "registered" /\ myId'[d] = myId[d]
        /\ UNCHANGED <<idSeq, asked, inbox>> /\ UNCHANGED toFail /\ UNCHANGED target
    BY <1>5 DEF TakeResponse, CallTypeOK, AllCalls, clientVars, callVars, loopVars, wireVars
  <2>2. \A i \in Ids : Unanswered(i) => Unanswered(i)'
    BY <2>1, StaysUnanswered
  <2>3. \A i \in Ids : ch'[i] \in {ch[i], <<>>}
    BY <1>5 DEF TakeResponse, ChannelTypeOK
  <2> QED BY <2>1, <2>2, <2>3, StaysEarly, ToFailDrawn
<1>6. ASSUME NEW c \in AllCalls, Leave(c) PROVE NothingEarly'
  <2>1. /\ \A d \in AllCalls : at'[d] = "registered" => at[d] = "registered" /\ myId'[d] = myId[d]
        /\ UNCHANGED <<idSeq, asked, inbox>> /\ UNCHANGED toFail /\ UNCHANGED target
    BY <1>6 DEF Leave, CallTypeOK, AllCalls, Finish, clientVars, callVars, loopVars, wireVars
  <2>2. \A i \in Ids : Unanswered(i) => Unanswered(i)'
    BY <2>1, StaysUnanswered
  <2>3. \A i \in Ids : ch'[i] \in {ch[i], <<>>}
    BY <1>6 DEF Leave, ChannelTypeOK
  <2> QED BY <2>1, <2>2, <2>3, StaysEarly, ToFailDrawn
<1>7. ASSUME NEW c \in AllCalls, GiveUp(c) PROVE NothingEarly'
  <2>1. \A d \in AllCalls : at'[d] = "registered" => at[d] = "registered" /\ myId'[d] = myId[d]
    BY <1>7 DEF GiveUp, CallTypeOK, AllCalls, callVars
  <2>2. /\ UNCHANGED <<idSeq, toFail, ch>> /\ asked' \subseteq asked
        /\ inbox' \in {inbox, <<>>} \/ (inbox # <<>> /\ inbox' = Tail(inbox))
        /\ target' \in {target, Nil} \/ (inbox # <<>> /\ target' = Head(inbox))
    BY <1>7 DEF GiveUp, clientVars, callVars, loopVars, wireVars
  <2> QED BY <2>1, <2>2, StaysEarly, StaysUnanswered, ToFailDrawn
<1>8. CASE InitializeStart
  <2>1. \A d \in AllCalls : at'[d] = "registered" => at[d] = "registered" /\ myId'[d] = myId[d]
    BY <1>8 DEF InitializeStart, CallTypeOK, AllCalls, callVars
  <2>2. /\ UNCHANGED <<idSeq, toFail, ch>> /\ asked' \subseteq asked
        /\ inbox' \in {inbox, <<>>} \/ (inbox # <<>> /\ inbox' = Tail(inbox))
        /\ target' \in {target, Nil} \/ (inbox # <<>> /\ target' = Head(inbox))
    BY <1>8 DEF InitializeStart, Connect, clientVars, callVars, loopVars, wireVars
  <2> QED BY <2>1, <2>2, StaysEarly, StaysUnanswered, ToFailDrawn
<1>9. CASE InitializeLaunch
  <2>1. \A d \in AllCalls : at'[d] = "registered" => at[d] = "registered" /\ myId'[d] = myId[d]
    BY <1>9 DEF InitializeLaunch, CallTypeOK, AllCalls, callVars
  <2>2. /\ UNCHANGED <<idSeq, toFail, ch>> /\ asked' \subseteq asked
        /\ inbox' \in {inbox, <<>>} \/ (inbox # <<>> /\ inbox' = Tail(inbox))
        /\ target' \in {target, Nil} \/ (inbox # <<>> /\ target' = Head(inbox))
    BY <1>9 DEF InitializeLaunch, clientVars, callVars, loopVars, wireVars
  <2> QED BY <2>1, <2>2, StaysEarly, StaysUnanswered, ToFailDrawn
<1>10. CASE InitializeEnds
  <2>1. \A d \in AllCalls : at'[d] = "registered" => at[d] = "registered" /\ myId'[d] = myId[d]
    BY <1>10 DEF InitializeEnds, CallTypeOK, AllCalls, callVars
  <2>2. /\ UNCHANGED <<idSeq, toFail, ch>> /\ asked' \subseteq asked
        /\ inbox' \in {inbox, <<>>} \/ (inbox # <<>> /\ inbox' = Tail(inbox))
        /\ target' \in {target, Nil} \/ (inbox # <<>> /\ target' = Head(inbox))
    BY <1>10 DEF InitializeEnds, Disconnect, clientVars, callVars, loopVars, wireVars
  <2> QED BY <2>1, <2>2, StaysEarly, StaysUnanswered, ToFailDrawn
<1>11. CASE Read
  <2>1. \A d \in AllCalls : at'[d] = "registered" => at[d] = "registered" /\ myId'[d] = myId[d]
    BY <1>11 DEF Read, CallTypeOK, AllCalls, callVars
  <2>2. /\ UNCHANGED <<idSeq, toFail, ch>> /\ asked' \subseteq asked
        /\ inbox' \in {inbox, <<>>} \/ (inbox # <<>> /\ inbox' = Tail(inbox))
        /\ target' \in {target, Nil} \/ (inbox # <<>> /\ target' = Head(inbox))
    BY <1>11 DEF Read, clientVars, callVars, loopVars, wireVars
  <2> QED BY <2>1, <2>2, StaysEarly, StaysUnanswered, ToFailDrawn
<1>12. CASE Deliver
  <2>1. /\ \A d \in AllCalls : at'[d] = "registered" => at[d] = "registered" /\ myId'[d] = myId[d]
        /\ UNCHANGED <<idSeq, asked, inbox>> /\ UNCHANGED toFail /\ target' = Nil
    BY <1>12 DEF Deliver, CallTypeOK, AllCalls, clientVars, callVars, loopVars, wireVars
  <2>2. \A i \in Ids : Unanswered(i) => Unanswered(i)'
    BY <2>1, StaysUnanswered
  <2>3. \A i \in Ids : ch'[i] = ch[i] \/ i = target
    BY <1>12 DEF Deliver, ChannelTypeOK
  <2>4. \A i \in Ids : ch'[i] \in {ch[i], <<>>} \/ ~ Unanswered(i)
    BY <2>3 DEF Unanswered
  <2> QED BY <2>1, <2>2, <2>4, StaysEarly, ToFailDrawn
<1>13. CASE ReadEnds
  <2>1. \A d \in AllCalls : at'[d] = "registered" => at[d] = "registered" /\ myId'[d] = myId[d]
    BY <1>13 DEF ReadEnds, CallTypeOK, AllCalls, callVars
  <2>2. /\ UNCHANGED <<idSeq, toFail, ch>> /\ asked' \subseteq asked
        /\ inbox' \in {inbox, <<>>} \/ (inbox # <<>> /\ inbox' = Tail(inbox))
        /\ target' \in {target, Nil} \/ (inbox # <<>> /\ target' = Head(inbox))
    BY <1>13 DEF ReadEnds, clientVars, callVars, loopVars, wireVars
  <2> QED BY <2>1, <2>2, StaysEarly, StaysUnanswered, ToFailDrawn
<1>14. CASE Lost
  <2>1. \A d \in AllCalls : at'[d] = "registered" => at[d] = "registered" /\ myId'[d] = myId[d]
    BY <1>14 DEF Lost, CallTypeOK, AllCalls, callVars
  <2>2. /\ UNCHANGED <<idSeq, toFail, ch>> /\ asked' \subseteq asked
        /\ inbox' \in {inbox, <<>>} \/ (inbox # <<>> /\ inbox' = Tail(inbox))
        /\ target' \in {target, Nil} \/ (inbox # <<>> /\ target' = Head(inbox))
    BY <1>14 DEF Lost, clientVars, callVars, loopVars, wireVars
  <2> QED BY <2>1, <2>2, StaysEarly, StaysUnanswered, ToFailDrawn
<1>15. CASE CollectPending
  <2>1. /\ \A d \in AllCalls : at'[d] = "registered" => at[d] = "registered" /\ myId'[d] = myId[d]
        /\ UNCHANGED <<idSeq, asked, inbox>> /\ toFail' \in SetToSeqs(pending) /\ UNCHANGED target
    BY <1>15 DEF CollectPending, CallTypeOK, AllCalls, clientVars, callVars, loopVars, wireVars
  <2>2. \A i \in Ids : Unanswered(i) => Unanswered(i)'
    BY <2>1, StaysUnanswered
  <2>3. toFail' \in Seq(pending) /\ UNCHANGED ch
    BY <1>15, PendingFinite, SeqOfSet DEF CollectPending
  <2>4. \A k \in 1 .. Len(toFail') : toFail'[k] \in pending
    BY <2>3
  <2>5. \A k \in 1 .. Len(toFail') : toFail'[k] <= idSeq
    BY <2>4 DEF IdsDrawn
  <2> QED BY <2>1, <2>2, <2>3, <2>5, StaysEarly
<1>16. CASE FailNext
  <2>1. /\ \A d \in AllCalls : at'[d] = "registered" => at[d] = "registered" /\ myId'[d] = myId[d]
        /\ UNCHANGED <<idSeq, asked, inbox>> /\ toFail' = Tail(toFail) /\ UNCHANGED target
    BY <1>16 DEF FailNext, CallTypeOK, AllCalls, clientVars, callVars, loopVars, wireVars
  <2>2. \A i \in Ids : Unanswered(i) => Unanswered(i)'
    BY <2>1, StaysUnanswered
  <2> DEFINE h == Head(toFail)
  <2>3. /\ Len(toFail) \in Nat /\ Len(toFail) # 0 /\ h = toFail[1] /\ Len(toFail') = Len(toFail) - 1
        /\ \A k \in 1 .. Len(toFail') : toFail'[k] = toFail[k + 1]
    BY <1>16, TailOfIds DEF FailNext, LoopTypeOK
  <2>4. 1 \in 1 .. Len(toFail) /\ \A k \in 1 .. Len(toFail') : k + 1 \in 1 .. Len(toFail)
    BY <2>3
  <2>5. h \in Ids /\ h <= idSeq /\ \A k \in 1 .. Len(toFail') : toFail'[k] <= idSeq
    BY <2>3, <2>4, ToFailDrawn
  <2>6. ch' = [ch EXCEPT ![h] = <<Nil>>]
    BY <1>16 DEF FailNext
  <2> HIDE DEF h
  <2>7. \A i \in Ids : ch'[i] = ch[i] \/ (ch'[i] = <<Nil>> /\ i <= idSeq)
    BY <2>5, <2>6 DEF ChannelTypeOK
  <2> QED BY <2>1, <2>2, <2>5, <2>7, StaysEarly
<1>17. CASE AllFailed
  <2>1. \A d \in AllCalls : at'[d] = "registered" => at[d] = "registered" /\ myId'[d] = myId[d]
    BY <1>17 DEF AllFailed, CallTypeOK, AllCalls, callVars
  <2>2. /\ UNCHANGED <<idSeq, toFail, ch>> /\ asked' \subseteq asked
        /\ inbox' \in {inbox, <<>>} \/ (inbox # <<>> /\ inbox' = Tail(inbox))
        /\ target' \in {target, Nil} \/ (inbox # <<>> /\ target' = Head(inbox))
    BY <1>17 DEF AllFailed, clientVars, callVars, loopVars, wireVars
  <2> QED BY <2>1, <2>2, StaysEarly, StaysUnanswered, ToFailDrawn
<1>18. CASE Backoff
  <2>1. \A d \in AllCalls : at'[d] = "registered" => at[d] = "registered" /\ myId'[d] = myId[d]
    BY <1>18 DEF Backoff, CallTypeOK, AllCalls, callVars
  <2>2. /\ UNCHANGED <<idSeq, toFail, ch>> /\ asked' \subseteq asked
        /\ inbox' \in {inbox, <<>>} \/ (inbox # <<>> /\ inbox' = Tail(inbox))
        /\ target' \in {target, Nil} \/ (inbox # <<>> /\ target' = Head(inbox))
    BY <1>18 DEF Backoff, Disconnect, clientVars, callVars, loopVars, wireVars
  <2> QED BY <2>1, <2>2, StaysEarly, StaysUnanswered, ToFailDrawn
<1>19. CASE Restart
  <2>1. \A d \in AllCalls : at'[d] = "registered" => at[d] = "registered" /\ myId'[d] = myId[d]
    BY <1>19 DEF Restart, CallTypeOK, AllCalls, callVars
  <2>2. /\ UNCHANGED <<idSeq, toFail, ch>> /\ asked' \subseteq asked
        /\ inbox' \in {inbox, <<>>} \/ (inbox # <<>> /\ inbox' = Tail(inbox))
        /\ target' \in {target, Nil} \/ (inbox # <<>> /\ target' = Head(inbox))
    BY <1>19 DEF Restart, Connect, clientVars, callVars, loopVars, wireVars
  <2> QED BY <2>1, <2>2, StaysEarly, StaysUnanswered, ToFailDrawn
<1>20. CASE Handshake
  <2>1. /\ UNCHANGED <<ch, toFail, target, at, myId, inbox>> /\ idSeq' = idSeq + 1
        /\ asked' \subseteq asked \cup {idSeq'}
    BY <1>20 DEF Handshake, Transmit, callVars, wireVars
  <2>2. idSeq \in Nat /\ \A i \in Ids : i \in Nat
    BY IdFacts
  <2>3. \A i \in Ids : (Unanswered(i) /\ i # idSeq') => Unanswered(i)'
    BY <2>1 DEF Unanswered
  <2>4. /\ \A d \in AllCalls : at[d] = "registered" => myId[d] \in Ids /\ myId[d] # idSeq'
        /\ \A i \in Ids : i > idSeq' => i > idSeq /\ i # idSeq'
    <3>1. \A d \in AllCalls : at[d] = "registered" => myId[d] \in Ids /\ myId[d] <= idSeq
      BY DEF CallTypeOK, IdsDrawn, InFlight
    <3> QED BY <2>1, <2>2, <3>1
  <2>5. ASSUME NEW d \in AllCalls, at'[d] = "registered"
        PROVE  ch'[myId'[d]] \in {<<>>, <<Nil>>} /\ Unanswered(myId[d])'
    <3>1. ch[myId[d]] \in {<<>>, <<Nil>>} /\ Unanswered(myId[d]) /\ at[d] = "registered"
      BY <2>1, <2>5 DEF NothingEarly
    <3> QED BY <2>1, <2>4, <3>1 DEF Unanswered
  <2>6. \A i \in Ids : i > idSeq' => /\ ch'[i] = <<>> /\ Unanswered(i)'
                                   /\ \A k \in 1 .. Len(toFail') : toFail'[k] # i
    BY <2>1, <2>3, <2>4 DEF NothingEarly
  <2> QED BY <2>1, <2>5, <2>6 DEF NothingEarly
<1>21. CASE HandshakeEnds
  <2>1. \A d \in AllCalls : at'[d] = "registered" => at[d] = "registered" /\ myId'[d] = myId[d]
    BY <1>21 DEF HandshakeEnds, CallTypeOK, AllCalls, callVars
  <2>2. /\ UNCHANGED <<idSeq, toFail, ch>> /\ asked' \subseteq asked
        /\ inbox' \in {inbox, <<>>} \/ (inbox # <<>> /\ inbox' = Tail(inbox))
        /\ target' \in {target, Nil} \/ (inbox # <<>> /\ target' = Head(inbox))
    BY <1>21 DEF HandshakeEnds, clientVars, callVars, loopVars, wireVars
  <2> QED BY <2>1, <2>2, StaysEarly, StaysUnanswered, ToFailDrawn
<1>22. CASE CloseBegin
  <2>1. /\ \A d \in AllCalls : at'[d] = "registered" => at[d] = "registered" /\ myId'[d] = myId[d]
        /\ UNCHANGED <<idSeq, asked, inbox>> /\ UNCHANGED toFail /\ UNCHANGED target
    BY <1>22 DEF CloseBegin, CallTypeOK, AllCalls, clientVars, callVars, loopVars, wireVars
  <2>2. \A i \in Ids : Unanswered(i) => Unanswered(i)'
    BY <2>1, StaysUnanswered
  <2>3. \A i \in Ids : ch'[i] = ch[i] \/ (ch'[i] = <<Nil>> /\ i <= idSeq)
    BY <1>22 DEF CloseBegin, IdsDrawn
  <2> QED BY <2>1, <2>2, <2>3, StaysEarly, ToFailDrawn
<1>23. CASE CloseCancels
  <2>1. \A d \in AllCalls : at'[d] = "registered" => at[d] = "registered" /\ myId'[d] = myId[d]
    BY <1>23 DEF CloseCancels, CallTypeOK, AllCalls, callVars
  <2>2. /\ UNCHANGED <<idSeq, toFail, ch>> /\ asked' \subseteq asked
        /\ inbox' \in {inbox, <<>>} \/ (inbox # <<>> /\ inbox' = Tail(inbox))
        /\ target' \in {target, Nil} \/ (inbox # <<>> /\ target' = Head(inbox))
    BY <1>23 DEF CloseCancels, Disconnect, clientVars, callVars, loopVars, wireVars
  <2> QED BY <2>1, <2>2, StaysEarly, StaysUnanswered, ToFailDrawn
<1>24. CASE CloseReturns
  <2>1. \A d \in AllCalls : at'[d] = "registered" => at[d] = "registered" /\ myId'[d] = myId[d]
    BY <1>24 DEF CloseReturns, CallTypeOK, AllCalls, callVars
  <2>2. /\ UNCHANGED <<idSeq, toFail, ch>> /\ asked' \subseteq asked
        /\ inbox' \in {inbox, <<>>} \/ (inbox # <<>> /\ inbox' = Tail(inbox))
        /\ target' \in {target, Nil} \/ (inbox # <<>> /\ target' = Head(inbox))
    BY <1>24 DEF CloseReturns, clientVars, callVars, loopVars, wireVars
  <2> QED BY <2>1, <2>2, StaysEarly, StaysUnanswered, ToFailDrawn
<1>25. CASE LoseConnection
  <2>1. \A d \in AllCalls : at'[d] = "registered" => at[d] = "registered" /\ myId'[d] = myId[d]
    BY <1>25 DEF LoseConnection, CallTypeOK, AllCalls, callVars
  <2>2. /\ UNCHANGED <<idSeq, toFail, ch>> /\ asked' \subseteq asked
        /\ inbox' \in {inbox, <<>>} \/ (inbox # <<>> /\ inbox' = Tail(inbox))
        /\ target' \in {target, Nil} \/ (inbox # <<>> /\ target' = Head(inbox))
    BY <1>25 DEF LoseConnection, clientVars, callVars, loopVars, wireVars
  <2> QED BY <2>1, <2>2, StaysEarly, StaysUnanswered, ToFailDrawn
<1>26. ASSUME NEW id \in Ids, Answer(id) PROVE NothingEarly'
  <2>1. /\ UNCHANGED <<idSeq, ch, toFail, target, at, myId>> /\ id \in asked
        /\ asked' = asked \ {id} /\ inbox' = Append(inbox, id) /\ inbox \in Seq(Ids)
    BY <1>26 DEF Answer, clientVars, callVars, loopVars, WireTypeOK
  <2>2. \A k \in 1 .. Len(inbox') : inbox'[k] = id \/ (k \in 1 .. Len(inbox) /\ inbox'[k] = inbox[k])
    BY <2>1
  <2>3. \A i \in Ids : Unanswered(i) => Unanswered(i)'
    BY <2>1, <2>2 DEF Unanswered
  <2> QED BY <2>1, <2>3, StaysEarly, ToFailDrawn
<1>27. CASE InitializeDial
  <2>1. \A d \in AllCalls : at'[d] = "registered" => at[d] = "registered" /\ myId'[d] = myId[d]
    BY <1>27 DEF InitializeDial, CallTypeOK, AllCalls, callVars
  <2>2. /\ UNCHANGED <<idSeq, toFail, ch>> /\ asked' \subseteq asked
        /\ inbox' \in {inbox, <<>>} \/ (inbox # <<>> /\ inbox' = Tail(inbox))
        /\ target' \in {target, Nil} \/ (inbox # <<>> /\ target' = Head(inbox))
    BY <1>27 DEF InitializeDial, clientVars, callVars, loopVars, wireVars
  <2> QED BY <2>1, <2>2, StaysEarly, StaysUnanswered, ToFailDrawn
<1>28. CASE Dial
  <2>1. \A d \in AllCalls : at'[d] = "registered" => at[d] = "registered" /\ myId'[d] = myId[d]
    BY <1>28 DEF Dial, CallTypeOK, AllCalls, callVars
  <2>2. /\ UNCHANGED <<idSeq, toFail, ch>> /\ asked' \subseteq asked
        /\ inbox' \in {inbox, <<>>} \/ (inbox # <<>> /\ inbox' = Tail(inbox))
        /\ target' \in {target, Nil} \/ (inbox # <<>> /\ target' = Head(inbox))
    BY <1>28 DEF Dial, clientVars, callVars, loopVars, wireVars
  <2> QED BY <2>1, <2>2, StaysEarly, StaysUnanswered, ToFailDrawn
<1> QED
  BY <1>1, <1>2, <1>3, <1>4, <1>5, <1>6, <1>7, <1>8, <1>9, <1>10, <1>11, <1>12, <1>13,
     <1>14, <1>15, <1>16, <1>17, <1>18, <1>19, <1>20, <1>21, <1>22, <1>23, <1>24, <1>25,
     <1>26, <1>27, <1>28
     DEF Next, CallStep, InitializeStep, LoopStep, CloseStep

-----------------------------------------------------------------------------
\* The invariant holds before anything was done.
LEMMA ClientInit ==
  ASSUME Init
  PROVE  ClientInv
<1> USE OptionsAssumption DEF Init
<1>1. TypeOK
  <2>1. ChannelTypeOK
    <3>1. <<>> \in Seq(Ids \cup {Nil}) /\ Len(<<>>) <= 1
      OBVIOUS
    <3> QED BY <3>1 DEF ChannelTypeOK
  <2>2. 0 \in 0 .. MaxIds /\ 0 \in 0 .. MaxAttempts /\ 0 \in 0 .. Losses
    OBVIOUS
  <2>3. TableTypeOK
    BY <2>2, Zenon DEF TableTypeOK
  <2>4. CallTypeOK
    BY DEF CallTypeOK
  <2>5. LoopTypeOK /\ WireTypeOK
    <3>1. <<>> \in Seq(Ids)
      OBVIOUS
    <3> QED BY <2>2, <3>1, Zenon DEF LoopTypeOK, WireTypeOK
  <2> QED BY <2>1, <2>3, <2>4, <2>5 DEF TypeOK
<1>2. LoopHolds
  BY DEF LoopHolds, AllCalls
<1>3. IdsDrawn /\ AttendedInFlight
  BY DEF IdsDrawn, AttendedInFlight, InFlight, Nil
<1>4. NothingEarly
  <2>1. \A i \in Ids : i # Nil
    BY DEF Ids, Nil
  <2> QED BY <2>1 DEF NothingEarly, Unanswered
<1> QED BY <1>1, <1>2, <1>3, <1>4 DEF ClientInv

\* A step that changes nothing keeps everything.
LEMMA ClientStutters ==
  ASSUME UNCHANGED vars
  PROVE  ClientInv => ClientInv'
<1> USE DEF vars, clientVars, callVars, loopVars, wireVars
<1>1. TypeOK => TypeOK'
  BY DEF TypeOK, TableTypeOK, ChannelTypeOK, CallTypeOK, LoopTypeOK, WireTypeOK
<1>2. LoopHolds => LoopHolds'
  BY DEF LoopHolds
<1>3. (IdsDrawn => IdsDrawn') /\ (AttendedInFlight => AttendedInFlight')
  BY DEF IdsDrawn, AttendedInFlight, InFlight, Minded
<1>4. NothingEarly => NothingEarly'
  BY DEF NothingEarly, Unanswered
<1> QED BY <1>1, <1>2, <1>3, <1>4 DEF ClientInv

\* The invariant of the client, for any number of calls, losses and attempts, and
\* both kinds of transport (callDirect, reconnectLoop, Initialize, Close).
THEOREM ClientInvariance == Spec => []ClientInv
<1>1. Init => ClientInv
  BY ClientInit
<1>2. ClientInv /\ [Next]_vars => ClientInv'
  <2>1. ASSUME ClientInv, Next PROVE ClientInv'
    <3>1. TypeOK'
      BY <2>1, TablePreserved, ChannelPreserved, CallPreserved, LoopPreserved, WirePreserved
         DEF ClientInv, TypeOK
    <3>2. LoopHolds' /\ IdsDrawn' /\ AttendedInFlight' /\ NothingEarly'
      BY <2>1, LoopHoldsPreserved, IdsDrawnPreserved, AttendedPreserved, NothingEarlyPreserved
         DEF ClientInv
    <3> QED BY <3>1, <3>2 DEF ClientInv
  <2> QED BY <2>1, ClientStutters
<1> QED BY <1>1, <1>2, PTL DEF Spec

\* The client's variables keep their types.
THEOREM ClientTypes == Spec => []TypeOK
<1>1. ClientInv => TypeOK
  BY DEF ClientInv
<1> QED BY <1>1, ClientInvariance, PTL

\* A call that waits is minded: its entry, its channel, deliverResponse or
\* failPendingRequests still has it, whatever Close and the reconnection do.
THEOREM WaitingIsAttended == Spec => []Attended
<1>1. ClientInv => Attended
  BY DEF ClientInv, AttendedInFlight, Attended, InFlight
<1> QED BY <1>1, ClientInvariance, PTL

\* Two calls in flight have channels of their own, and nothing is found in the
\* channel or at the server before the request is sent (callDirect).
THEOREM ChannelsAreOwn == Spec => []OwnChannel
<1>1. ClientInv => OwnChannel
  BY DEF ClientInv, IdsDrawn, NothingEarly, Unanswered, InFlight, OwnChannel
<1> QED BY <1>1, ClientInvariance, PTL
=============================================================================
