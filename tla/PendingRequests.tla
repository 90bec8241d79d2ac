-------------------------- MODULE PendingRequests --------------------------
(***************************************************************************)
(* Correlation of server-to-client requests with the client's responses    *)
(* (pending.go).  Every member of Senders is one invocation of             *)
(* PendingRequests.Send (a tool handler that samples, elicits or lists     *)
(* roots); every member of Deliveries is one invocation of Deliver, made   *)
(* by the goroutine that received a response (in the HTTP transports each  *)
(* POST has its own); CloseAll is called by the goroutine that tears the   *)
(* transport down.  Steps are the critical sections of mu and the channel  *)
(* operations between them.                                                *)
(*                                                                         *)
(* The channel a Send makes is named by the Send, and a response by the    *)
(* Deliver invocation that carries it.                                     *)
(***************************************************************************)
EXTENDS Naturals, FiniteSets

CONSTANTS
  Senders,     \* invocations of Send
  Deliveries,  \* invocations of Deliver, one response each
  Keys,        \* the ids a response may carry, unsolicited ones included
  None         \* no response, no sender

ASSUME KeysAssumption == Keys \subseteq Nat
ASSUME NoneAssumption == None \notin Senders /\ None \notin Deliveries

VARIABLES
  pending,    \* pr.pending: id -> the Send whose channel is registered
  idSeq,      \* pr.idSeq
  closed,     \* pr.closed
  buf,        \* buf[s]: the content of the one-slot channel made by s
  chClosed,   \* the channels that CloseAll has closed
  sendPc,     \* where each Send is
  id,         \* the id each Send was assigned (0 before)
  ctxDone,    \* the Sends whose context has ended
  outcome,    \* how each Send returned
  answer,     \* the response it returned
  deliverPc,  \* where each Deliver is
  key,        \* the id its response carries
  target,     \* the channel it has looked up
  verdict     \* what Deliver returned, "panic" when it did not

sendVars == <<sendPc, id, ctxDone, outcome, answer>>
deliverVars == <<deliverPc, key, target, verdict>>
vars == <<pending, idSeq, closed, buf, chClosed, sendVars, deliverVars>>

TypeOK ==
  /\ DOMAIN pending \subseteq Nat
  /\ \A k \in DOMAIN pending : pending[k] \in Senders
  /\ idSeq \in Nat
  /\ closed \in BOOLEAN
  /\ buf \in [Senders -> Deliveries \cup {None}]
  /\ chClosed \subseteq Senders
  /\ sendPc \in [Senders -> {"start", "write", "select", "cleanup", "returned"}]
  /\ id \in [Senders -> Nat]
  /\ ctxDone \subseteq Senders
  /\ outcome \in [Senders -> {"none", "response", "transportClosed", "writeError", "ctxError"}]
  /\ answer \in [Senders -> Deliveries \cup {None}]
  /\ \A s \in Senders : outcome[s] = "response" => answer[s] # None
  /\ deliverPc \in [Deliveries -> {"start", "push", "returned"}]
  /\ key \in [Deliveries -> Nat]
  /\ target \in [Deliveries -> Senders \cup {None}]
  /\ verdict \in [Deliveries -> {"none", "true", "false", "panic"}]

(***************************************************************************)
(* NewPendingRequests.                                                     *)
(***************************************************************************)
Init ==
  /\ pending = [k \in {} |-> None]
  /\ idSeq = 0
  /\ closed = FALSE
  /\ buf = [s \in Senders |-> None]
  /\ chClosed = {}
  /\ sendPc = [s \in Senders |-> "start"]
  /\ id = [s \in Senders |-> 0]
  /\ ctxDone = {}
  /\ outcome = [s \in Senders |-> "none"]
  /\ answer = [s \in Senders |-> None]
  /\ deliverPc = [d \in Deliveries |-> "start"]
  /\ key = [d \in Deliveries |-> 0]
  /\ target = [d \in Deliveries |-> None]
  /\ verdict = [d \in Deliveries |-> "none"]

(***************************************************************************)
(* Send                                                                    *)
(***************************************************************************)
SendRefused(s) ==
  /\ sendPc[s] = "start"
  /\ closed
  /\ outcome' = [outcome EXCEPT ![s] = "transportClosed"]
  /\ sendPc' = [sendPc EXCEPT ![s] = "returned"]
  /\ UNCHANGED <<pending, idSeq, closed, buf, chClosed, id, ctxDone, answer, deliverVars>>

Bind(map, k, s) == [j \in DOMAIN map \cup {k} |-> IF j = k THEN s ELSE map[j]]
Unbind(map, k) == [j \in DOMAIN map \ {k} |-> map[j]]

\* Mutated form: the id is taken from the number of pending requests, so an
\* id can be handed out again.
SendRegister_IdFromSize(s) ==
  /\ sendPc[s] = "start"
  /\ ~closed
  /\ idSeq' = Cardinality(DOMAIN pending) + 1
  /\ id' = [id EXCEPT ![s] = idSeq']
  /\ pending' = Bind(pending, idSeq', s)
  /\ sendPc' = [sendPc EXCEPT ![s] = "write"]
  /\ UNCHANGED <<closed, buf, chClosed, ctxDone, outcome, answer, deliverVars>>

SendRegister(s) ==
  /\ sendPc[s] = "start"
  /\ ~closed
  /\ idSeq' = idSeq + 1
  /\ id' = [id EXCEPT ![s] = idSeq']
  /\ pending' = Bind(pending, idSeq', s)
  /\ sendPc' = [sendPc EXCEPT ![s] = "write"]
  /\ UNCHANGED <<closed, buf, chClosed, ctxDone, outcome, answer, deliverVars>>

\* json.Marshal and writeFn, neither under mu; either may fail.
SendWrite(s) ==
  /\ sendPc[s] = "write"
  /\ \/ /\ sendPc' = [sendPc EXCEPT ![s] = "select"]
        /\ UNCHANGED outcome
     \/ /\ outcome' = [outcome EXCEPT ![s] = "writeError"]
        /\ sendPc' = [sendPc EXCEPT ![s] = "cleanup"]
  /\ UNCHANGED <<pending, idSeq, closed, buf, chClosed, id, ctxDone, answer, deliverVars>>

\* Mutated form: the close is looked at before the buffer.
SendReceive_CloseFirst(s) ==
  /\ sendPc[s] = "select"
  /\ buf[s] # None \/ s \in chClosed
  /\ outcome' = [outcome EXCEPT ![s] =
                   IF s \in chClosed THEN "transportClosed" ELSE "response"]
  /\ answer' = [answer EXCEPT ![s] = IF s \in chClosed THEN None ELSE buf[s]]
  /\ buf' = [buf EXCEPT ![s] = None]
  /\ sendPc' = [sendPc EXCEPT ![s] = "cleanup"]
  /\ UNCHANGED <<pending, idSeq, closed, chClosed, id, ctxDone, deliverVars>>

\* A buffered response is received even from a closed channel; a closed
\* channel that is empty yields nil.
SendReceive(s) ==
  /\ sendPc[s] = "select"
  /\ buf[s] # None \/ s \in chClosed
  /\ outcome' = [outcome EXCEPT ![s] =
                   IF buf[s] # None THEN "response" ELSE "transportClosed"]
  /\ answer' = [answer EXCEPT ![s] = buf[s]]
  /\ buf' = [buf EXCEPT ![s] = None]
  /\ sendPc' = [sendPc EXCEPT ![s] = "cleanup"]
  /\ UNCHANGED <<pending, idSeq, closed, chClosed, id, ctxDone, deliverVars>>

\* The select's other case; with both ready Go picks either.
SendCtxDone(s) ==
  /\ sendPc[s] = "select"
  /\ s \in ctxDone
  /\ outcome' = [outcome EXCEPT ![s] = "ctxError"]
  /\ sendPc' = [sendPc EXCEPT ![s] = "cleanup"]
  /\ UNCHANGED <<pending, idSeq, closed, buf, chClosed, id, ctxDone, answer, deliverVars>>

\* The deferred delete.
SendCleanup(s) ==
  /\ sendPc[s] = "cleanup"
  /\ pending' = Unbind(pending, id[s])
  /\ sendPc' = [sendPc EXCEPT ![s] = "returned"]
  /\ UNCHANGED <<idSeq, closed, buf, chClosed, id, ctxDone, outcome, answer, deliverVars>>

\* The caller's context is cancelled or its deadline passes.
EndContext(s) ==
  /\ sendPc[s] # "returned"
  /\ s \notin ctxDone
  /\ ctxDone' = ctxDone \cup {s}
  /\ UNCHANGED <<pending, idSeq, closed, buf, chClosed, sendPc, id, outcome, answer, deliverVars>>

(***************************************************************************)
(* Deliver.  The channel is looked up under mu and used after the unlock.  *)
(***************************************************************************)
DeliverLookup(d, k) ==
  /\ deliverPc[d] = "start"
  /\ key' = [key EXCEPT ![d] = k]
  /\ IF k \in DOMAIN pending
       THEN /\ target' = [target EXCEPT ![d] = pending[k]]
            /\ deliverPc' = [deliverPc EXCEPT ![d] = "push"]
            /\ UNCHANGED verdict
       ELSE /\ verdict' = [verdict EXCEPT ![d] = "false"]
            /\ deliverPc' = [deliverPc EXCEPT ![d] = "returned"]
            /\ UNCHANGED target
  /\ UNCHANGED <<pending, idSeq, closed, buf, chClosed, sendVars>>

\* The non-blocking send; on a closed channel it panics, full or not.
DeliverPush(d) ==
  LET s == target[d]
      accepted == s \notin chClosed /\ buf[s] = None
  IN /\ deliverPc[d] = "push"
     /\ buf' = IF accepted THEN [buf EXCEPT ![s] = d] ELSE buf
     /\ verdict' = [verdict EXCEPT ![d] = IF accepted THEN "true"
                                          ELSE IF s \in chClosed THEN "panic"
                                          ELSE "false"]
     /\ deliverPc' = [deliverPc EXCEPT ![d] = "returned"]
     /\ UNCHANGED <<pending, idSeq, closed, chClosed, sendVars, key, target>>

\* Mutated form: the map is emptied and no channel is closed.
CloseAll_NoClose ==
  /\ ~closed
  /\ closed' = TRUE
  /\ pending' = [k \in {} |-> None]
  /\ UNCHANGED <<idSeq, buf, chClosed, sendVars, deliverVars>>

(***************************************************************************)
(* CloseAll: close every registered channel and forget it.  A second call  *)
(* finds the map empty and changes nothing.                                *)
(***************************************************************************)
CloseAll ==
  /\ ~closed
  /\ closed' = TRUE
  /\ chClosed' = chClosed \cup {pending[k] : k \in DOMAIN pending}
  /\ pending' = [k \in {} |-> None]
  /\ UNCHANGED <<idSeq, buf, sendVars, deliverVars>>

SendStep(s) ==
  \/ SendRefused(s) \/ SendRegister(s) \/ SendWrite(s)
  \/ SendReceive(s) \/ SendCtxDone(s) \/ SendCleanup(s)

Next ==
  \/ \E s \in Senders : SendStep(s) \/ EndContext(s)
  \/ \E d \in Deliveries : DeliverPush(d) \/ \E k \in Keys : DeliverLookup(d, k)
  \/ CloseAll

\* A goroutine in Send that can step does so, and a Deliver that has looked
\* its channel up finishes.  Nothing makes the client answer, the context
\* end or the transport close.
Fairness ==
  /\ \A s \in Senders : WF_vars(SendStep(s))
  /\ \A d \in Deliveries : WF_vars(DeliverPush(d))

Spec == Init /\ [][Next]_vars
FairSpec == Spec /\ Fairness

-----------------------------------------------------------------------------
(***************************************************************************)
(* Properties                                                              *)
(***************************************************************************)

\* A Send whose entry is in the map: registered and not yet cleaned up.
InFlight(s) == sendPc[s] \in {"write", "select", "cleanup"}

\* Correlation: the response a Send returns carries the id of that Send, an
\* id no other Send was given, and no other Send returned the same response
\* (Send and Deliver match by id through the shared map).
OwnResponse ==
  \A s \in Senders, d \in Deliveries :
    answer[s] = d =>
      /\ key[d] = id[s]
      /\ \A t \in Senders \ {s} : id[t] # key[d] /\ answer[t] # d

\* The map holds exactly the requests in flight, on every return path of
\* Send, and nothing once CloseAll has run (the deferred delete and
\* CloseAll's loop leave no entry behind).
NoLeakedEntry ==
  DOMAIN pending = IF closed THEN {} ELSE {id[s] : s \in {t \in Senders : InFlight(t)}}

\* A response that Deliver accepted is not lost to a later CloseAll: the Send
\* it was accepted for does not report "transportClosed".
AcceptedSurvivesClose ==
  \A s \in Senders, d \in Deliveries :
    verdict[d] = "true" /\ target[d] = s => outcome[s] # "transportClosed"

\* No Send blocks forever once its context has ended or the transport has
\* been closed, wherever in Send that found it.
SendReturns ==
  \A s \in Senders :
    (sendPc[s] # "start" /\ (closed \/ s \in ctxDone)) ~> (sendPc[s] = "returned")

\* Deliver "Returns true if the response was delivered, false if no pending
\* request matches" (pending.go): it returns, whatever CloseAll does meanwhile.
DeliverReturns == \A d \in Deliveries : verdict[d] # "panic"
-----------------------------------------------------------------------------
(***************************************************************************)
(* The inductive invariant behind the safety properties.                   *)
(***************************************************************************)

\* Ids are issued in order, to one Send each; 0 stands for none issued.
IdsUnique ==
  /\ \A s \in Senders : id[s] <= idSeq /\ (InFlight(s) => id[s] > 0)
  /\ \A s \in Senders : sendPc[s] = "start" => id[s] = 0
  /\ \A s, t \in Senders : s # t /\ id[s] = id[t] => id[s] = 0

\* An entry leads to the channel of the Send in flight with that id; until
\* CloseAll every Send in flight has its entry.
MapMatches ==
  /\ \A k \in DOMAIN pending : InFlight(pending[k]) /\ id[pending[k]] = k
  /\ closed => DOMAIN pending = {}
  /\ ~closed => \A s \in Senders : InFlight(s) => id[s] \in DOMAIN pending

\* A Deliver past its lookup holds the channel of the Send its response names.
LookupMatches ==
  \A d \in Deliveries :
    /\ deliverPc[d] # "returned" => verdict[d] = "none"
    /\ deliverPc[d] = "push" \/ verdict[d] = "true" =>
         target[d] \in Senders /\ key[d] = id[target[d]] /\ key[d] > 0

\* What a channel holds, and what a Send returned, was accepted by Deliver for
\* that Send, and until the Send takes it an accepted response stays put.
AcceptedTracked ==
  \A s \in Senders :
    /\ sendPc[s] \in {"start", "write", "select"} => outcome[s] = "none" /\ answer[s] = None
    /\ \A d \in Deliveries :
         /\ buf[s] = d \/ answer[s] = d => verdict[d] = "true" /\ target[d] = s
         /\ verdict[d] = "true" /\ target[d] = s /\ sendPc[s] \in {"write", "select"}
              => buf[s] = d

\* A Send that reports the close was refused, or its channel is closed.
ClosedReported ==
  \A s \in Senders :
    outcome[s] = "transportClosed" => id[s] = 0 \/ s \in chClosed

IndInv ==
  /\ TypeOK /\ IdsUnique /\ MapMatches /\ LookupMatches
  /\ AcceptedTracked /\ ClosedReported /\ AcceptedSurvivesClose
=============================================================================
