---------------------------- MODULE SSETransport ----------------------------
(***************************************************************************)
(* One session of the SSE transport (transport/sse.go).  The GET handler   *)
(* streams the session's events and cleans up when it returns; POST        *)
(* handlers run beside it and put responses into the same bounded queue,   *)
(* as do notifications of the server and requests to the client.  Nothing  *)
(* that puts an event waits for room.                                      *)
(***************************************************************************)
EXTENDS Naturals, Sequences, FiniteSets

CONSTANTS
  SsePosts,       \* POST requests of the client
  QueueSize,      \* capacity of session.events
  MaxEvents       \* bound on notifications and server requests

ASSUME SSEAssumption ==
  QueueSize \in Nat \ {0} /\ MaxEvents \in Nat /\ SsePosts \cap (1..MaxEvents) = {}

VARIABLES
  stream,        \* the GET handler: "none", "streaming", its cleanup steps, "ended" or "refused"
  sseDone,       \* session.done is closed
  sseMapped,     \* the session is in h.sessions
  sseSender,     \* Server.AddSender knows it
  sseSubscribed, \* a subscription of it is with the server
  sseEvents,     \* session.events
  streamed,      \* events written to the stream
  ssePosts,      \* each POST: [pc, status, ev]; ev is the request its Send waits for
  sent           \* notifications and requests the server has tried to put

sseVars == <<stream, sseDone, sseMapped, sseSender, sseSubscribed, sseEvents, streamed,
             ssePosts, sent>>

SSEInit ==
  /\ stream = "none" /\ sseDone = FALSE
  /\ sseMapped = FALSE /\ sseSender = FALSE /\ sseSubscribed = FALSE
  /\ sseEvents = <<>> /\ streamed = {}
  /\ ssePosts = [p \in SsePosts |-> [pc |-> "none", status |-> 0, ev |-> 0]]
  /\ sent = 0

Room == Len(sseEvents) < QueueSize
Put(e) == sseEvents' = Append(sseEvents, e)

(***************************************************************************)
(* The GET handler                                                         *)
(***************************************************************************)
\* The session is stored, then the sender registered; at the sender limit the session
\* is taken back.
HandleSSE ==
  /\ stream = "none"
  /\ sseMapped' = TRUE /\ stream' = "opening"
  /\ UNCHANGED <<sseDone, sseSender, sseSubscribed, sseEvents, streamed, ssePosts, sent>>

AddSseSender ==
  /\ stream = "opening"
  /\ sseSender' = TRUE /\ stream' = "streaming"
  /\ UNCHANGED <<sseDone, sseMapped, sseSubscribed, sseEvents, streamed, ssePosts, sent>>

SseSenderRefused ==
  /\ stream = "opening"
  /\ sseDone' = TRUE /\ sseMapped' = FALSE /\ stream' = "refused"
  /\ UNCHANGED <<sseSender, sseSubscribed, sseEvents, streamed, ssePosts, sent>>

StreamEvent ==
  /\ stream = "streaming" /\ sseEvents # <<>>
  /\ streamed' = streamed \cup {Head(sseEvents)} /\ sseEvents' = Tail(sseEvents)
  /\ UNCHANGED <<stream, sseDone, sseMapped, sseSender, sseSubscribed, ssePosts, sent>>

\* The client disconnects, or done is closed: select may choose it over waiting events.
\* The deferred function closes done and fails the waiting Sends.
StreamLeaves ==
  /\ stream = "streaming"
  /\ stream' = "deleting" /\ sseDone' = TRUE
  /\ ssePosts' = [p \in SsePosts |-> IF ssePosts[p].pc = "waiting"
                      THEN [ssePosts[p] EXCEPT !.pc = "handling"] ELSE ssePosts[p]]
  /\ UNCHANGED <<sseMapped, sseSender, sseSubscribed, sseEvents, streamed, sent>>

DeleteSseSession ==
  /\ stream = "deleting"
  /\ sseMapped' = FALSE /\ stream' = "removing"
  /\ UNCHANGED <<sseDone, sseSender, sseSubscribed, sseEvents, streamed, ssePosts, sent>>

RemoveSseSender ==
  /\ stream = "removing"
  /\ sseSender' = FALSE /\ stream' = "unsubscribing"
  /\ UNCHANGED <<sseDone, sseMapped, sseSubscribed, sseEvents, streamed, ssePosts, sent>>

\* UnsubscribeAll and RemoveSessionTools.
SseUnsubscribes ==
  /\ stream = "unsubscribing"
  /\ sseSubscribed' = FALSE /\ stream' = "ended"
  /\ UNCHANGED <<sseDone, sseMapped, sseSender, sseEvents, streamed, ssePosts, sent>>

(***************************************************************************)
(* Events of the server                                                    *)
(***************************************************************************)
\* The sender of the session, a broadcast's or the one a handler finds in its context:
\* a full queue ends the session.  With done closed the select may still find room.
Notify ==
  /\ sent < MaxEvents /\ (sseSender \/ \E p \in SsePosts : ssePosts[p].pc = "handling")
  /\ sent' = sent + 1
  /\ \/ Room /\ Put(sent') /\ UNCHANGED sseDone
     \/ ~Room /\ sseDone' = TRUE /\ UNCHANGED sseEvents
     \/ sseDone /\ UNCHANGED <<sseDone, sseEvents>>
  /\ UNCHANGED <<stream, sseMapped, sseSender, sseSubscribed, streamed, ssePosts>>

\* PendingRequests.Send of a handler: it waits only for what it could put, and a request
\* that finds no room, or the session closed, is an error of Send.
RequestClient(p) ==
  /\ ssePosts[p].pc = "handling" /\ stream \in {"opening", "streaming"}
  /\ sent < MaxEvents /\ Room
  /\ sent' = sent + 1 /\ Put(sent')
  /\ ssePosts' = [ssePosts EXCEPT ![p] = [@ EXCEPT !.pc = "waiting", !.ev = sent']]
  /\ UNCHANGED <<stream, sseDone, sseMapped, sseSender, sseSubscribed, streamed>>

(***************************************************************************)
(* The POST handlers                                                       *)
(***************************************************************************)
PostAs(p, where, status) == [ssePosts EXCEPT ![p] = [@ EXCEPT !.pc = where, !.status = status]]

LoadSession(p) ==
  /\ ssePosts[p].pc = "none" /\ stream # "none"
  /\ ssePosts' = IF sseMapped THEN PostAs(p, "handling", 0) ELSE PostAs(p, "returned", 404)
  /\ UNCHANGED <<stream, sseDone, sseMapped, sseSender, sseSubscribed, sseEvents, streamed, sent>>

\* A POST that brings the client's response to a request it has read.
DeliverResponse(p, q) ==
  /\ ssePosts[p].pc = "handling" /\ ssePosts[q].pc = "waiting" /\ ssePosts[q].ev \in streamed
  /\ ssePosts' = [ssePosts EXCEPT ![p].pc = "returned", ![q].pc = "handling"]
  /\ UNCHANGED <<stream, sseDone, sseMapped, sseSender, sseSubscribed, sseEvents, streamed, sent>>

\* resources/subscribe, whatever has become of the session meanwhile.
HandleSubscribe(p) ==
  /\ ssePosts[p].pc = "handling" /\ ~sseSubscribed
  /\ sseSubscribed' = TRUE
  /\ UNCHANGED <<stream, sseDone, sseMapped, sseSender, sseEvents, streamed, ssePosts, sent>>

\* Mutated form: a full queue is answered like a queue with room.
Answer_AcceptsAnyway(p) ==
  /\ ssePosts[p].pc = "handling"
  /\ IF Room THEN Put(p) ELSE UNCHANGED sseEvents
  /\ ssePosts' = PostAs(p, "returned", 202)
  /\ UNCHANGED <<stream, sseDone, sseMapped, sseSender, sseSubscribed, streamed, sent>>

\* HandleMessage has returned: the response is put and accepted, or the POST says why not
\* (closed, cancelled or not ready).
Answer(p) ==
  /\ ssePosts[p].pc = "handling"
  /\ \/ /\ Room /\ Put(p)
        /\ ssePosts' = PostAs(p, "returned", 202)
     \/ /\ \E status \in {408} \cup {s \in {410} : sseDone} \cup {s \in {503} : ~Room} :
             ssePosts' = PostAs(p, "returned", status)
        /\ UNCHANGED sseEvents
  /\ UNCHANGED <<stream, sseDone, sseMapped, sseSender, sseSubscribed, streamed, sent>>

SSENext ==
  \/ HandleSSE \/ AddSseSender \/ SseSenderRefused \/ StreamEvent \/ StreamLeaves
  \/ DeleteSseSession \/ RemoveSseSender \/ SseUnsubscribes \/ Notify
  \/ \E p \in SsePosts :
       \/ LoadSession(p) \/ RequestClient(p) \/ HandleSubscribe(p) \/ Answer(p)
       \/ \E q \in SsePosts : DeliverResponse(p, q)

SSESpec == SSEInit /\ [][SSENext]_sseVars

-----------------------------------------------------------------------------
\* No event gets lost behind the client's back: a response it was promised by a 202, and
\* a notification the server sent, is in the queue or on the stream, or the session has
\* ended and the client's stream with it.
NothingLostSilently ==
  \/ sseDone
  \/ /\ \A p \in SsePosts :
          ssePosts[p].status = 202 => p \in streamed \/ \E i \in DOMAIN sseEvents : sseEvents[i] = p
     /\ Cardinality(streamed \cup {sseEvents[i] : i \in DOMAIN sseEvents})
          >= sent + Cardinality({p \in SsePosts : ssePosts[p].status = 202})

\* Stated by the documentation of SSEHandler: "When the client disconnects, the session
\* is cleaned up."
SessionCleanedUp == stream = "ended" => ~sseSubscribed

-----------------------------------------------------------------------------
(***************************************************************************)
(* The inductive invariant behind NothingLostSilently: events are known by *)
(* what they carry, so that none can stand for another.                    *)
(***************************************************************************)
PostStages == {"none", "handling", "waiting", "returned"}
Statuses == {0, 202, 404, 408, 410, 503}
PostRecords == [pc : PostStages, status : Statuses, ev : 0..MaxEvents]

SSETypeOK ==
  /\ sseDone \in BOOLEAN /\ sent \in 0..MaxEvents
  /\ sseEvents \in Seq(SsePosts \cup (1..MaxEvents))
  /\ streamed \subseteq SsePosts \cup (1..MaxEvents)
  /\ ssePosts \in [SsePosts -> PostRecords]

Accepted == {p \in SsePosts : ssePosts[p].status = 202}
PutOrStreamed == streamed \cup {sseEvents[i] : i \in DOMAIN sseEvents}

\* A status is written once, by the step that returns.
StatusOnReturn == \A p \in SsePosts : ssePosts[p].status # 0 => ssePosts[p].pc = "returned"

\* Unless the session has ended, all that was promised is somewhere.
NoneMissing == sseDone \/ (1..sent) \cup Accepted \subseteq PutOrStreamed

SSEInv ==
  /\ SSETypeOK /\ StatusOnReturn /\ NoneMissing
  /\ IsFiniteSet(Accepted) /\ IsFiniteSet(PutOrStreamed)
=============================================================================
