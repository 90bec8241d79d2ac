----------------------------- MODULE ClientCache -----------------------------
(***************************************************************************)
(* The caching wrapper around a client transport (client/cache.go).  A     *)
(* request is sent once and stands for its id; RequestKey gives its        *)
(* method and its params.  Senders run beside the goroutine of             *)
(* receiveLoop and with the client's Receive.  A result is the version of  *)
(* the list the server answered from.                                      *)
(***************************************************************************)
EXTENDS Naturals, FiniteSets, Sequences, SequencesExt

CONSTANTS
  Requests,      \* JSON-RPC request ids
  Methods,       \* CacheConfig.Methods
  RequestKey,    \* the method and params of each request
  Size,          \* CacheConfig.Size
  EntryTTL,      \* CacheConfig.TTL, in ticks; 0 disables the cache
  ChannelSize,   \* of innerCh; synthCh holds every request of the model
  MaxLists       \* bound: versions of the server's lists

ASSUME ClientCacheAssumption ==
  /\ Size \in Nat \ {0} /\ EntryTTL \in Nat /\ ChannelSize \in Nat \ {0} /\ MaxLists \in Nat
  /\ Requests \cap {"server", "nowhere"} = {}

VARIABLES
  entries,     \* the cache, newest first; origin is the request that brought the value
  pendingFill, \* inFlight: the ids whose response will be stored
  sent,        \* where each request is
  wire,        \* responses of the server on their way, in any order
  looping,     \* receiveLoop: waiting, the response it holds, or stopped
  synthCh,     \* synthetic responses
  innerCh,     \* forwarded responses, in order
  answers,     \* what the client received, per id
  lists        \* the version of the server's lists

clientCacheVars ==
  <<entries, pendingFill, sent, wire, looping, synthCh, innerCh, answers, lists>>

NoAnswer == [value |-> 0, from |-> "nowhere"]
Idle == [id |-> "nobody", value |-> 0, stage |-> "waiting"]

ClientCacheInit ==
  /\ entries = <<>>
  /\ pendingFill = {}
  /\ sent = [r \in Requests |-> "new"]
  /\ wire = {}
  /\ looping = Idle
  /\ synthCh = {}
  /\ innerCh = <<>>
  /\ answers = [r \in Requests |-> NoAnswer]
  /\ lists = 1

\* makeCacheKey.
CacheKey(r) == RequestKey[r]

Entry(k) == {e \in ToSet(entries) : e.key = k}
Hit(k) == {e \in Entry(k) : e.age <= EntryTTL}
Cacheable(r) == EntryTTL > 0 /\ RequestKey[r][1] \in Methods
Cached(r) == CHOOSE e \in Hit(CacheKey(r)) : TRUE

(***************************************************************************)
(* Send                                                                    *)
(***************************************************************************)
\* The look-up under the read lock.  A hit goes to synthCh as a response; a miss
\* goes on to register its id.
SendLooksUp(r) ==
  /\ sent[r] = "new"
  /\ IF Cacheable(r) /\ Hit(CacheKey(r)) # {}
       THEN /\ synthCh' = synthCh \cup
                 {[id |-> r, value |-> Cached(r).value, from |-> Cached(r).origin]}
            /\ sent' = [sent EXCEPT ![r] = "queued"]
       ELSE /\ sent' = [sent EXCEPT ![r] = IF Cacheable(r) THEN "missed" ELSE "registered"]
            /\ UNCHANGED synthCh
  /\ UNCHANGED <<entries, pendingFill, wire, looping, innerCh, answers, lists>>

SendRegisters(r) ==
  /\ sent[r] = "missed"
  /\ pendingFill' = pendingFill \cup {r}
  /\ sent' = [sent EXCEPT ![r] = "registered"]
  /\ UNCHANGED <<entries, wire, looping, synthCh, innerCh, answers, lists>>

\* The inner transport takes the request; its response is not made yet (0).
InnerSend(r) ==
  /\ sent[r] = "registered"
  /\ sent' = [sent EXCEPT ![r] = "sent"]
  /\ wire' = wire \cup {[id |-> r, value |-> 0]}
  /\ UNCHANGED <<entries, pendingFill, looping, synthCh, innerCh, answers, lists>>

InnerSendFails(r) ==
  /\ sent[r] = "registered"
  /\ sent' = [sent EXCEPT ![r] = "failed"]
  /\ pendingFill' = pendingFill \ {r}
  /\ UNCHANGED <<entries, wire, looping, synthCh, innerCh, answers, lists>>

(***************************************************************************)
(* The server (outside), and receiveLoop                                   *)
(***************************************************************************)
ServerAnswers(m) ==
  /\ m.value = 0
  /\ wire' = (wire \ {m}) \cup {[m EXCEPT !.value = lists]}
  /\ UNCHANGED <<entries, pendingFill, sent, looping, synthCh, innerCh, answers, lists>>

ListsChange ==
  /\ lists < MaxLists
  /\ lists' = lists + 1
  /\ UNCHANGED <<entries, pendingFill, sent, wire, looping, synthCh, innerCh, answers>>

\* Mutated form: the id stays registered.
LoopReceives_Keeps(m) ==
  /\ looping.stage = "waiting" /\ m.value > 0
  /\ wire' = wire \ {m}
  /\ looping' = [id |-> m.id, value |-> m.value,
                 stage |-> IF m.id \in pendingFill THEN "storing" ELSE "forwarding"]
  /\ UNCHANGED <<entries, pendingFill, sent, synthCh, innerCh, answers, lists>>

\* Receive from the inner transport, then maybeCacheResponse's first section.
LoopReceives(m) ==
  /\ looping.stage = "waiting" /\ m.value > 0
  /\ wire' = wire \ {m}
  /\ looping' = [id |-> m.id, value |-> m.value,
                 stage |-> IF m.id \in pendingFill THEN "storing" ELSE "forwarding"]
  /\ pendingFill' = pendingFill \ {m.id}
  /\ UNCHANGED <<entries, sent, synthCh, innerCh, answers, lists>>

\* An error response is forwarded and not stored; its id stays registered.
LoopReceivesError(m) ==
  /\ looping.stage = "waiting" /\ m.value > 0
  /\ wire' = wire \ {m}
  /\ looping' = [id |-> m.id, value |-> 0, stage |-> "forwarding"]
  /\ UNCHANGED <<entries, pendingFill, sent, synthCh, innerCh, answers, lists>>

\* storeEntry, evicting the entry that expires first when the cache is full.
LoopStores ==
  /\ looping.stage = "storing"
  /\ LET k    == CacheKey(looping.id)
         old  == {i \in DOMAIN entries : entries[i].key = k}
         kept == IF old # {} THEN RemoveAt(entries, CHOOSE i \in old : TRUE)
                 ELSE IF Len(entries) >= Size THEN Front(entries) ELSE entries
     IN  entries' =
           <<[key |-> k, value |-> looping.value, origin |-> looping.id, age |-> 0]>> \o kept
  /\ looping' = [looping EXCEPT !.stage = "forwarding"]
  /\ UNCHANGED <<pendingFill, sent, wire, synthCh, innerCh, answers, lists>>

LoopForwards ==
  /\ looping.stage = "forwarding" /\ Len(innerCh) < ChannelSize
  /\ innerCh' = Append(innerCh, [id |-> looping.id, value |-> looping.value])
  /\ looping' = Idle
  /\ UNCHANGED <<entries, pendingFill, sent, wire, synthCh, answers, lists>>

\* The inner transport fails: the loop passes the error on and ends, and the
\* sync.Once of Start keeps it from running again.
LoopFails ==
  /\ looping.stage = "waiting" /\ Len(innerCh) < ChannelSize
  /\ innerCh' = Append(innerCh, [id |-> "nobody", value |-> 0])
  /\ looping' = [Idle EXCEPT !.stage = "stopped"]
  /\ UNCHANGED <<entries, pendingFill, sent, wire, synthCh, answers, lists>>

\* Close, seen by the loop in its select; what it holds is dropped.
LoopStops ==
  /\ looping.stage = "forwarding"
  /\ looping' = [Idle EXCEPT !.stage = "stopped"]
  /\ UNCHANGED <<entries, pendingFill, sent, wire, synthCh, innerCh, answers, lists>>

(***************************************************************************)
(* Receive takes from either channel.                                      *)
(***************************************************************************)
ReceiveSynthetic(m) ==
  /\ synthCh' = synthCh \ {m}
  /\ answers' = [answers EXCEPT ![m.id] = [value |-> m.value, from |-> m.from]]
  /\ UNCHANGED <<entries, pendingFill, sent, wire, looping, innerCh, lists>>

ReceiveForwarded ==
  /\ innerCh # <<>>
  /\ answers' = [r \in Requests |->
                   IF r = Head(innerCh).id
                     THEN [value |-> Head(innerCh).value, from |-> "server"] ELSE answers[r]]
  /\ innerCh' = Tail(innerCh)
  /\ UNCHANGED <<entries, pendingFill, sent, wire, looping, synthCh, lists>>

ListEntriesAge ==
  /\ \E e \in ToSet(entries) : e.age <= EntryTTL
  /\ entries' = [i \in DOMAIN entries |->
                   [entries[i] EXCEPT !.age = IF @ <= EntryTTL THEN @ + 1 ELSE @]]
  /\ UNCHANGED <<pendingFill, sent, wire, looping, synthCh, innerCh, answers, lists>>

ClientCacheNext ==
  \/ \E r \in Requests : SendLooksUp(r) \/ SendRegisters(r) \/ InnerSend(r) \/ InnerSendFails(r)
  \/ \E m \in wire : ServerAnswers(m) \/ LoopReceives(m) \/ LoopReceivesError(m)
  \/ \E m \in synthCh : ReceiveSynthetic(m)
  \/ ListsChange \/ LoopStores \/ LoopForwards \/ LoopStops \/ LoopFails
  \/ ReceiveForwarded \/ ListEntriesAge

ClientCacheSpec == ClientCacheInit /\ [][ClientCacheNext]_clientCacheVars

-----------------------------------------------------------------------------
\* No id stays registered once a result for it has gone through: registering
\* before sending leaves the response no way past the table.
NoFillForgotten ==
  \A r \in pendingFill : answers[r].from = "server" => answers[r].value = 0

\* A response made from the cache repeats one the server gave to a request with
\* the same method and the same params, whatever was in flight when it was
\* stored.
AnswersMatch ==
  \A r \in Requests :
    answers[r].from \in Requests => RequestKey[answers[r].from] = RequestKey[r]

-----------------------------------------------------------------------------
ClientCacheTypeOK ==
  /\ pendingFill \subseteq Requests
  /\ sent \in [Requests -> {"new", "queued", "missed", "registered", "sent", "failed"}]
  /\ wire \subseteq [id : Requests, value : Nat]
  /\ looping \in [id : Requests \cup {"nobody"}, value : Nat,
                   stage : {"waiting", "storing", "forwarding", "stopped"}]
  /\ innerCh \in Seq([id : Requests \cup {"nobody"}, value : Nat])
  /\ answers = [r \in Requests |-> answers[r]]
  /\ lists \in Nat

\* An id that has gone past the table: its request was sent and it is not, and
\* will not be, registered any more.
PastTable(id) == id \in Requests /\ sent[id] = "sent" /\ id \notin pendingFill

\* Where each id may be, by how far its request has come.
IdsInOrder ==
  /\ \A r \in pendingFill : sent[r] \in {"registered", "sent"}
  /\ \A m \in wire : sent[m.id] = "sent"
  /\ \A m \in synthCh : m.id \in Requests /\ sent[m.id] = "queued"

\* A result behind the table belongs to an id that has gone past it.
ResultsPastTable ==
  /\ looping.stage \in {"storing", "forwarding"} /\ looping.value # 0 => PastTable(looping.id)
  /\ \A i \in 1..Len(innerCh) : innerCh[i].value # 0 => PastTable(innerCh[i].id)
  /\ \A r \in Requests :
       answers[r].from = "server" /\ answers[r].value # 0 =>
         sent[r] = "queued" \/ PastTable(r)

ClientCacheInv == ClientCacheTypeOK /\ IdsInOrder /\ ResultsPastTable

\* An entry as storeEntry makes it: under the key of the request it came with.
OwnEntries ==
  {e \in [key : {CacheKey(r) : r \in Requests}, value : Nat, origin : Requests, age : Nat] :
     e.key = CacheKey(e.origin)}

\* Every response made from the cache is on its way to a request with the key it
\* was stored under.
MatchInv ==
  /\ entries \in Seq(OwnEntries)
  /\ \A m \in synthCh : m.from \in Requests /\ CacheKey(m.from) = CacheKey(m.id)
  /\ looping.stage = "storing" => looping.id \in Requests
  /\ AnswersMatch
=============================================================================
