------------------------------ MODULE ToolCache ------------------------------
(***************************************************************************)
(* The Cache middleware over its in-memory LRU backend                     *)
(* (middleware/cache.go), with singleflight in front of the handler.       *)
(*                                                                         *)
(* A key stands for toolName:extra:sha256(input), which tells calls apart: *)
(* tool names hold no colon and the hash has a fixed length.  What a tool  *)
(* computes from is the version of its data, so that a value in the cache  *)
(* says how old it is.  A step is one critical section of the backend or   *)
(* of singleflight, or the handler's read of the data.                     *)
(***************************************************************************)
EXTENDS Naturals, FiniteSets, Sequences, SequencesExt

CONSTANTS
  Readers,     \* goroutines that call tools, one call at a time
  Keys,        \* cache keys
  ToolOf,      \* the tool whose name starts each key
  SkipTools,   \* WithCacheSkipTools
  Capacity,    \* of the LRU
  TTL,         \* in ticks
  MaxVersion   \* bound: how often a tool's data changes

NoLeader == "nobody"

ASSUME CacheAssumption ==
  /\ Capacity \in Nat \ {0} /\ TTL \in Nat \ {0} /\ MaxVersion \in Nat
  /\ Keys # {} /\ NoLeader \notin Readers

VARIABLES
  order,     \* the LRU list, front first: [key, value, age]
  flight,    \* the singleflight groups: the leader of each key
  where,     \* where each call is
  wants,     \* its key
  holds,     \* the value it has read or computed
  version,   \* the tool's data, per key (the world outside)
  floor      \* history: no value below this was being computed at the last invalidation

cacheVars == <<order, flight, where, wants, holds, version, floor>>

NoValue == 0  \* versions start at 1

ToolCacheInit ==
  /\ order = <<>>
  /\ flight = [k \in Keys |-> NoLeader]
  /\ where = [r \in Readers |-> "idle"]
  /\ wants = [r \in Readers |-> CHOOSE k \in Keys : TRUE]
  /\ holds = [r \in Readers |-> NoValue]
  /\ version = [k \in Keys |-> 1]
  /\ floor = [k \in Keys |-> 0]

(***************************************************************************)
(* lruCache                                                                *)
(***************************************************************************)
\* items, the map from a key to its element of the list.
Has(k) == \E i \in DOMAIN order : order[i].key = k
Items(k) == CHOOSE i \in DOMAIN order : order[i].key = k

Fresh(k) == Has(k) /\ order[Items(k)].age <= TTL
ValueOf(k) == order[Items(k)].value

\* removeLocked, where there is something to remove.
Without(k) == IF Has(k) THEN RemoveAt(order, Items(k)) ELSE order

\* Get moves a fresh entry to the front and drops an expired one.
AfterGet(k) == IF Fresh(k) THEN <<order[Items(k)]>> \o Without(k) ELSE Without(k)

\* Set puts the entry in front, and evicts from the back when it is a new one
\* and the list is full.
AfterSet(k, v) ==
  LET rest == Without(k)
      kept == IF ~Has(k) /\ Len(rest) >= Capacity THEN Front(rest) ELSE rest
  IN  <<[key |-> k, value |-> v, age |-> 0]>> \o kept

(***************************************************************************)
(* The middleware                                                          *)
(***************************************************************************)
ShouldCache(k) == ToolOf[k] \notin SkipTools

At(r, place) == where' = [where EXCEPT ![r] = place]

\* The first Get, outside any flight; a call to a tool that is not cached goes
\* past all this.
LookUp(r, k) ==
  /\ where[r] = "idle" /\ ShouldCache(k)
  /\ wants' = [wants EXCEPT ![r] = k]
  /\ order' = AfterGet(k)
  /\ IF Fresh(k) THEN UNCHANGED where ELSE At(r, "missed")
  /\ UNCHANGED <<flight, holds, version, floor>>

\* singleflight.Do: one leader per key, the others wait for it.
JoinOrLead(r) ==
  /\ where[r] = "missed"
  /\ IF flight[wants[r]] = NoLeader
       THEN flight' = [flight EXCEPT ![wants[r]] = r] /\ At(r, "leading")
       ELSE UNCHANGED flight /\ At(r, "following")
  /\ UNCHANGED <<order, wants, holds, version, floor>>

\* The leader looks again before it calls the handler.
DoubleCheck(r) ==
  /\ where[r] = "leading"
  /\ order' = AfterGet(wants[r])
  /\ IF Fresh(wants[r])
       THEN holds' = [holds EXCEPT ![r] = ValueOf(wants[r])] /\ At(r, "landing")
       ELSE UNCHANGED holds /\ At(r, "executing")
  /\ UNCHANGED <<flight, wants, version, floor>>

\* The handler reads its data, or fails.
HandlerComputes(r) ==
  /\ where[r] = "executing"
  /\ holds' = [holds EXCEPT ![r] = version[wants[r]]]
  /\ At(r, "computed")
  /\ UNCHANGED <<order, flight, wants, version, floor>>

HandlerFails(r) ==
  /\ where[r] \in {"executing", "computed"}
  /\ holds' = [holds EXCEPT ![r] = NoValue]
  /\ At(r, "landing")
  /\ UNCHANGED <<order, flight, wants, version, floor>>

StoreResult(r) ==
  /\ where[r] = "computed"
  /\ order' = AfterSet(wants[r], holds[r])
  /\ At(r, "landing")
  /\ UNCHANGED <<flight, wants, holds, version, floor>>

\* The flight ends: the leader and its followers return what it brought, a
\* value or an error.
FlightLands(r) ==
  /\ where[r] = "landing"
  /\ flight' = [flight EXCEPT ![wants[r]] = NoLeader]
  /\ where' = [q \in Readers |->
                 IF q = r \/ (where[q] = "following" /\ wants[q] = wants[r])
                   THEN "idle" ELSE where[q]]
  /\ holds' = [holds EXCEPT ![r] = NoValue]
  /\ UNCHANGED <<order, wants, version, floor>>

(***************************************************************************)
(* The world, and the application's CacheInvalidator                       *)
(***************************************************************************)
Raced(k) == \E r \in Readers : where[r] = "computed" /\ wants[r] = k

FloorsAfter(gone) ==
  [k \in Keys |-> IF k \in gone /\ ~Raced(k) THEN version[k] ELSE floor[k]]

DataChanges(k) ==
  /\ version[k] < MaxVersion
  /\ version' = [version EXCEPT ![k] = @ + 1]
  /\ UNCHANGED <<order, flight, where, wants, holds, floor>>

\* Mutated form: the loop starts at the second entry.
InvalidateTool_SparesFirst(t) ==
  /\ order' = IF order = <<>> THEN order
              ELSE <<Head(order)>> \o SelectSeq(Tail(order), LAMBDA e : ToolOf[e.key] # t)
  /\ floor' = FloorsAfter({k \in Keys : ToolOf[k] = t})
  /\ UNCHANGED <<flight, where, wants, holds, version>>

\* DeleteByPrefix(toolName + ":"): the entries of other tools stay, in their order.
InvalidateTool(t) ==
  /\ LET stay == {i \in DOMAIN order : ToolOf[order[i].key] # t}
     IN  \E f \in [1..Cardinality(stay) -> stay] :
           /\ \A i, j \in DOMAIN f : i < j => f[i] < f[j]
           /\ order' = [i \in DOMAIN f |-> order[f[i]]]
  /\ floor' = FloorsAfter({k \in Keys : ToolOf[k] = t})
  /\ UNCHANGED <<flight, where, wants, holds, version>>

InvalidateKey(k) ==
  /\ order' = Without(k)
  /\ floor' = FloorsAfter({k})
  /\ UNCHANGED <<flight, where, wants, holds, version>>

EntriesAge ==
  /\ \E e \in ToSet(order) : e.age <= TTL
  /\ order' = [i \in DOMAIN order |->
                 [order[i] EXCEPT !.age = IF @ <= TTL THEN @ + 1 ELSE @]]
  /\ UNCHANGED <<flight, where, wants, holds, version, floor>>

ToolCacheNext ==
  \/ \E r \in Readers :
       \/ \E k \in Keys : LookUp(r, k)
       \/ JoinOrLead(r) \/ DoubleCheck(r) \/ HandlerComputes(r) \/ HandlerFails(r)
       \/ StoreResult(r) \/ FlightLands(r)
  \/ \E k \in Keys : DataChanges(k) \/ InvalidateKey(k)
  \/ \E t \in {ToolOf[k] : k \in Keys} : InvalidateTool(t)
  \/ EntriesAge

ToolCacheSpec == ToolCacheInit /\ [][ToolCacheNext]_cacheVars

-----------------------------------------------------------------------------
\* Concurrent misses of one key run the handler once: no two executions for a
\* key overlap, although the miss, the joining of the flight and the second
\* look are three critical sections.
NoStampede ==
  \A r, q \in Readers :
    /\ r # q /\ wants[r] = wants[q]
    /\ where[r] \in {"leading", "executing", "computed"}
    => where[q] \notin {"leading", "executing", "computed"}

\* After an invalidation the cache holds nothing computed from older data,
\* unless the handler had already read that data and not yet stored its result
\* when the invalidation came.
NoStaleUnlessRaced == \A e \in ToSet(order) : e.value >= floor[e.key]

\* The list never holds more entries than its capacity, nor two for one key.
LRUSound ==
  /\ Len(order) <= Capacity
  /\ \A i, j \in DOMAIN order : order[i].key = order[j].key => i = j

-----------------------------------------------------------------------------
Entries == [key : Keys, value : Nat, age : Nat]

ToolCacheTypeOK ==
  /\ order \in Seq(Entries)
  /\ flight \in [Keys -> Readers \cup {NoLeader}]
  /\ where \in [Readers -> {"idle", "missed", "following", "leading", "executing", "computed",
                             "landing"}]
  /\ wants \in [Readers -> Keys]
  /\ holds \in [Readers -> Nat]
  /\ version \in [Keys -> Nat]
  /\ floor \in [Keys -> Nat]

\* The flight of a key is that of the one call that leads it.
LeaderLeads ==
  \A r \in Readers :
    where[r] \in {"leading", "executing", "computed", "landing"} => flight[wants[r]] = r

\* What is computed and not yet stored is as new as an invalidation asks for.
ComputedFresh ==
  /\ \A k \in Keys : floor[k] <= version[k]
  /\ \A r \in Readers : where[r] = "computed" => holds[r] >= floor[wants[r]]

\* The list holds one entry for a key, and none that an invalidation outdated.
EntriesSound == LRUSound /\ NoStaleUnlessRaced

ToolCacheInv == ToolCacheTypeOK /\ LeaderLeads /\ ComputedFresh /\ EntriesSound
=============================================================================
