------------------------------ MODULE Listing ------------------------------
(***************************************************************************)
(* The server's registries, their sorted snapshots and the paginated lists *)
(* made of them (server.go, session_tools.go, roots.go, dispatch.go), and  *)
(* the iterator of the client that walks the pages (client/pagination.go). *)
(* "tools" are the global tools and "session" those of the client's own    *)
(* session, which shadow them.  Tools can be removed, and their changes    *)
(* are announced; roots have neither a sorted snapshot nor a filter.       *)
(***************************************************************************)
EXTENDS Integers, Sequences, FiniteSets, Ordering
LOCAL SetsExt == INSTANCE FiniteSetsExt

CONSTANTS
  Names,            \* numbers, in the order of the names
  Hidden,           \* names the tenant's ItemFilter denies
  DefaultPageSize, MaxPageSize,
  Limits,           \* the limits a client may ask for; 0 asks for none
  MaxPages, MaxItems,   \* IteratorOptions
  MaxChanges        \* bound on the changes of the registries

Lists == {"tools", "resources", "prompts", "roots"}
Registries == Lists \cup {"session"}

ASSUME ListingAssumption ==
  /\ IsFiniteSet(Names) /\ Names \subseteq Nat /\ Limits \subseteq Int
  /\ {DefaultPageSize, MaxPageSize} \subseteq Nat \ {0}
  /\ {MaxPages, MaxItems, MaxChanges} \subseteq Nat

VARIABLES
  kind,        \* the list the client walks
  registry,    \* the names in each registry
  version,     \* how often each has changed
  snapshots,   \* the sorted slice of each: [items, at], at = 0 for nil
  announcing,  \* list_changed broadcasts that are still to be delivered
  told,        \* the last change of each registry the client was told of
  request,     \* the list request that is being served
  iter         \* the client's iterator

listingVars == <<kind, registry, version, snapshots, announcing, told, request, iter>>

\* The registries the list is made of; changes of the others touch nothing here.
Needs == IF kind = "tools" THEN {"tools", "session"} ELSE {kind}

\* The registries with a sorted slice; ListRoots sorts anew each time.
Snapshotted == Registries \ {"roots"}

Nil == [items |-> <<>>, at |-> 0]
NoRequest ==
  [pc |-> "none", floor |-> [r \in Registries |-> 0], used |-> [r \in Registries |-> Nil]]
NoIterator ==
  [pc |-> "none", limit |-> 0, cursor |-> 0, pages |-> 0, out |-> <<>>,
   since |-> [r \in Registries |-> 0]]

ListingInit ==
  /\ kind \in Lists
  /\ registry = [r \in Registries |-> {}]
  /\ version = [r \in Registries |-> 1]
  /\ snapshots = [r \in Registries |-> Nil]
  /\ announcing = {}
  /\ told = [r \in Registries |-> 0]
  /\ request = NoRequest
  /\ iter = NoIterator

(***************************************************************************)
(* Changes of the registries: the map and the snapshot under one lock, the *)
(* notification after it.  Only changes of tools are broadcast by the code *)
(* itself.                                                                 *)
(***************************************************************************)
Changed(r, items) ==
  /\ SetsExt!MapThenSumSet(LAMBDA q : version[q] - 1, Registries) < MaxChanges
  /\ registry' = [registry EXCEPT ![r] = items]
  /\ version' = [version EXCEPT ![r] = @ + 1]
  /\ announcing' = IF r \in {"tools", "session"} THEN announcing \cup {<<r, version[r] + 1>>}
                                                ELSE announcing
  /\ UNCHANGED <<kind, told, request, iter>>

Register(r, new) ==
  /\ r \in Needs /\ new # {} /\ new \cap registry[r] = {}
  /\ Changed(r, registry[r] \cup new)
  /\ snapshots' = [snapshots EXCEPT ![r] = Nil]

\* RegisterTool with one tool; RegisterTools takes all or none.
RegisterTools(new) == Register("tools", new)
AddSessionTool(n) == Register("session", {n})
RegisterResource(n) == Register("resources", {n})
RegisterPrompt(n) == Register("prompts", {n})
RegisterRoot(n) == Register("roots", {n})

\* Mutated form: the removal leaves the sorted slice as it was.
RemoveItem_KeepsSorted(r, n) ==
  /\ r \in {"tools", "session"} /\ n \in registry[r]
  /\ Changed(r, registry[r] \ {n})
  /\ UNCHANGED snapshots

\* RemoveTool and RemoveSessionTool; nothing else is ever removed.
RemoveItem(r, n) ==
  /\ r \in {"tools", "session"} /\ n \in registry[r]
  /\ Changed(r, registry[r] \ {n})
  /\ snapshots' = [snapshots EXCEPT ![r] = Nil]

\* broadcastListChanged or notifySessionToolsChanged reaches the client's sender;
\* broadcasts of different changes overtake one another.
Announce(a) ==
  /\ a \in announcing
  /\ announcing' = announcing \ {a}
  /\ told' = [told EXCEPT ![a[1]] = IF a[2] > @ THEN a[2] ELSE @]
  /\ UNCHANGED <<kind, registry, version, snapshots, request, iter>>

(***************************************************************************)
(* The pure parts of a list                                                *)
(***************************************************************************)
SortedItems(r) ==
  LET order == Ascending(registry[r])
  IN  [i \in 1..Len(order) |-> [name |-> order[i], from |-> r]]

\* One round of the merge loop, which is over when either slice is.
MergeRound(global, session, at) ==
  LET g == global[at.gi]
      s == session[at.si]
  IN  IF at.gi > Len(global) \/ at.si > Len(session) THEN at
      ELSE IF g.name < s.name
        THEN [gi |-> at.gi + 1, si |-> at.si, merged |-> Append(at.merged, g)]
      ELSE IF g.name > s.name
        THEN [gi |-> at.gi, si |-> at.si + 1, merged |-> Append(at.merged, s)]
        ELSE [gi |-> at.gi + 1, si |-> at.si + 1, merged |-> Append(at.merged, s)]

MergeStart == [gi |-> 1, si |-> 1, merged |-> <<>>]

\* mergeSessionTools: two sorted slices, one pass, the session's tool on a tie; then what
\* is left of either.
MergeSessionTools(global, session) ==
  LET after[k \in 0..(Len(global) + Len(session))] ==
        IF k = 0 THEN MergeStart ELSE MergeRound(global, session, after[k - 1])
      end == after[Len(global) + Len(session)]
  IN  end.merged \o SubSeq(global, end.gi, Len(global)) \o SubSeq(session, end.si, Len(session))

Allowed(item) == item.name \notin Hidden

\* The items the filter admits, in the order they have.
Filtered(items) ==
  LET kept == Ascending({i \in 1..Len(items) : Allowed(items[i])})
  IN  [k \in 1..Len(kept) |-> items[kept[k]]]

Smaller(a, b) == IF a <= b THEN a ELSE b

\* Mutated form: the cursor of the next page points one past the end of this one.
PaginateSlice_SkipsOne(items, cursor, limit) ==
  LET size == IF limit <= 0 THEN DefaultPageSize ELSE Smaller(limit, MaxPageSize)
      end  == Smaller(cursor + size, Len(items))
  IN  [page |-> SubSeq(items, cursor + 1, end), next |-> IF end = Len(items) THEN 0 ELSE end + 1]

\* A page from the offset the cursor holds, and the next cursor; 0 is the empty cursor.
PaginateSlice(items, cursor, limit) ==
  LET size == IF limit <= 0 THEN DefaultPageSize ELSE Smaller(limit, MaxPageSize)
      end  == Smaller(cursor + size, Len(items))
  IN  [page |-> SubSeq(items, cursor + 1, end), next |-> IF end = Len(items) THEN 0 ELSE end]

\* handlePaginatedList: without cursor and limit, everything.
ListPage(items, cursor, limit) ==
  IF cursor = 0 /\ limit = 0
    THEN [page |-> items, next |-> 0]
    ELSE PaginateSlice(items, cursor, limit)

(***************************************************************************)
(* The list handlers: each snapshot is read under the read lock, or built  *)
(* under the write lock when it was nil.                                   *)
(***************************************************************************)
Missing == {r \in Needs : request.used[r].at = 0}
NextOf == IF "tools" \in Missing THEN "tools" ELSE CHOOSE r \in Missing : TRUE

ReadSnapshot ==
  /\ request.pc = "serving" /\ Missing # {}
  /\ LET r == NextOf
         fresh == [items |-> SortedItems(r), at |-> version[r]]
     IN  request' = IF r \notin Snapshotted
                      THEN [request EXCEPT !.used[r] = fresh]
                    ELSE IF snapshots[r].at > 0
                      THEN [request EXCEPT !.used[r] = snapshots[r]]
                    ELSE [request EXCEPT !.pc = "building"]
  /\ UNCHANGED <<kind, registry, version, snapshots, announcing, told, iter>>

\* Another request may have built it meanwhile, and a change may have come between.
BuildSnapshot ==
  /\ request.pc = "building"
  /\ LET r     == NextOf
         built == IF snapshots[r].at > 0 THEN snapshots[r]
                                         ELSE [items |-> SortedItems(r), at |-> version[r]]
     IN  /\ snapshots' = [snapshots EXCEPT ![r] = built]
         /\ request' = [request EXCEPT !.pc = "serving", !.used[r] = built]
  /\ UNCHANGED <<kind, registry, version, announcing, told, iter>>

\* ListTools, ListResources or ListPrompts of some other caller fills the cache.
OtherLists(r) ==
  /\ r \in Snapshotted /\ snapshots[r].at = 0
  /\ snapshots' = [snapshots EXCEPT ![r] = [items |-> SortedItems(r), at |-> version[r]]]
  /\ UNCHANGED <<kind, registry, version, announcing, told, request, iter>>

\* The items of a list: merged with the session's tools, then filtered.
HandleToolsList ==
  Filtered(MergeSessionTools(request.used["tools"].items, request.used["session"].items))
HandleResourcesList == Filtered(request.used["resources"].items)
HandlePromptsList == Filtered(request.used["prompts"].items)
HandleRootsList == request.used["roots"].items

Listed ==
  CASE kind = "tools" -> HandleToolsList
    [] kind = "resources" -> HandleResourcesList
    [] kind = "prompts" -> HandlePromptsList
    [] kind = "roots" -> HandleRootsList

\* The page goes to the iterator, which takes no more than MaxItems in all; a cursor
\* beyond the end of the list is an error.
Respond ==
  /\ request.pc = "serving" /\ Missing = {}
  /\ request' = [request EXCEPT !.pc = "answered",
                   !.used = [r \in Registries |-> [items |-> <<>>, at |-> @[r].at]]]
  /\ IF iter.cursor > Len(Listed)
       THEN iter' = [iter EXCEPT !.pc = "error"]
       ELSE LET list == ListPage(Listed, iter.cursor, iter.limit)
                room == IF MaxItems = 0 THEN Len(list.page) ELSE MaxItems - Len(iter.out)
                took == SubSeq(list.page, 1, Smaller(room, Len(list.page)))
            IN  iter' = [iter EXCEPT !.out = @ \o took, !.cursor = list.next, !.pages = @ + 1,
                           !.pc = IF MaxItems > 0 /\ Len(iter.out) + Len(took) >= MaxItems
                                    THEN "error"
                                  ELSE IF list.next = 0 \/ list.page = <<>> THEN "done"
                                  ELSE "next"]
  /\ UNCHANGED <<kind, registry, version, snapshots, announcing, told>>

(***************************************************************************)
(* The iterators: All, one Next after the other.                           *)
(***************************************************************************)
Iterate(limit) ==
  /\ iter.pc = "none"
  /\ iter' = [NoIterator EXCEPT !.pc = "next", !.limit = limit, !.since = version]
  /\ UNCHANGED <<kind, registry, version, snapshots, announcing, told, request>>

IterateTools(limit) == kind = "tools" /\ Iterate(limit)
IterateResources(limit) == kind = "resources" /\ Iterate(limit)
IteratePrompts(limit) == kind = "prompts" /\ Iterate(limit)
IterateRoots(limit) == kind = "roots" /\ Iterate(limit)

FetchPage ==
  /\ iter.pc = "next"
  /\ IF MaxPages > 0 /\ iter.pages >= MaxPages
       THEN iter' = [iter EXCEPT !.pc = "error"] /\ UNCHANGED request
       ELSE /\ iter' = [iter EXCEPT !.pc = "fetching"]
            /\ request' = [NoRequest EXCEPT !.pc = "serving", !.floor = told]
  /\ UNCHANGED <<kind, registry, version, snapshots, announcing, told>>

ListingNext ==
  \/ \E new \in SUBSET Names : RegisterTools(new)
  \/ \E n \in Names :
       AddSessionTool(n) \/ RegisterResource(n) \/ RegisterPrompt(n) \/ RegisterRoot(n)
  \/ \E r \in Needs : OtherLists(r) \/ \E n \in Names : RemoveItem(r, n)
  \/ \E a \in announcing : Announce(a)
  \/ \E limit \in Limits :
       \/ IterateTools(limit) \/ IterateResources(limit)
       \/ IteratePrompts(limit) \/ IterateRoots(limit)
  \/ FetchPage \/ ReadSnapshot \/ BuildSnapshot \/ Respond

ListingSpec == ListingInit /\ [][ListingNext]_listingVars

-----------------------------------------------------------------------------
\* A client that lists after it was told of a change sees a list made after that change,
\* though the sorted snapshots outlive requests and are built under a second lock.
NotifiedListIsFresh ==
  request.pc = "answered" => \A r \in Needs : request.used[r].at >= request.floor[r]

\* What the client may see of the registries now, by a definition that knows neither
\* snapshots nor merging nor pages.
VisibleNames ==
  LET all == UNION {registry[r] : r \in Needs} IN IF kind = "roots" THEN all ELSE all \ Hidden

HomeOf(n) == IF kind = "tools" /\ n \in registry["session"] THEN "session" ELSE kind

VisibleItems ==
  LET order == Ascending(VisibleNames)
  IN  [i \in 1..Len(order) |-> [name |-> order[i], from |-> HomeOf(order[i])]]

\* An iterator that ends without an error while nothing changes has returned every
\* visible item once, in order, the session's tools in the place of those they shadow.
IteratesAll ==
  (iter.pc = "done" /\ \A r \in Needs : iter.since[r] = version[r]) => iter.out = VisibleItems

-----------------------------------------------------------------------------
(***************************************************************************)
(* The inductive invariant behind NotifiedListIsFresh.  What the items of  *)
(* a snapshot are does not matter to it.                                   *)
(***************************************************************************)
ListingTypeOK ==
  /\ kind \in Lists
  /\ version \in [Registries -> Nat \ {0}] /\ told \in [Registries -> Nat]
  /\ announcing \subseteq Registries \X Nat
  /\ snapshots = [r \in Registries |-> snapshots[r]]
  /\ request = [pc |-> request.pc, floor |-> request.floor, used |-> request.used]
  /\ request.floor \in [Registries -> Nat]
  /\ request.used = [r \in Registries |-> request.used[r]]

\* The client was told of nothing that has not happened.
ToldThePast ==
  /\ \A r \in Registries : told[r] <= version[r] /\ request.floor[r] <= version[r]
  /\ \A a \in announcing : a[2] <= version[a[1]]

\* A sorted slice that is not nil is that of the registry as it is.
SnapshotsCurrent == \A r \in Registries : snapshots[r].at \in {0, version[r]}

\* What the request has read is no older than what the client knew when it asked, and
\* no more is missing when it is answered.
ReadsAboveFloor ==
  /\ \A r \in Registries :
       request.used[r].at # 0 =>
         request.used[r].at \in Nat /\ request.used[r].at >= request.floor[r]
  /\ request.pc = "building" => Missing # {}
  /\ request.pc = "answered" => Missing = {}

ListingInv == ListingTypeOK /\ ToldThePast /\ SnapshotsCurrent /\ ReadsAboveFloor

-----------------------------------------------------------------------------
(***************************************************************************)
(* The inductive invariant behind IteratesAll: what lists hold, and what   *)
(* an iterator has of them while nothing changes.                          *)
(***************************************************************************)
ListItem == [name : Nat, from : Registries]

\* s counts S through in ascending order.
IsAscending(s, S) ==
  /\ s \in [1..Cardinality(S) -> S]
  /\ \A i, j \in 1..Cardinality(S) : i < j => s[i] < s[j]

\* s holds the items of S, in the order of their names.
Orders(s, S) ==
  /\ s \in Seq(ListItem)
  /\ \A i \in 1..Len(s) : s[i] \in S
  /\ \A x \in S : \E i \in 1..Len(s) : s[i] = x
  /\ \A i, j \in 1..Len(s) : i < j => s[i].name < s[j].name

\* The state of the merge loop: what is merged comes before what is left of either slice,
\* and holds what was passed but for the global tools the session shadows.
Unshadowed(session, x) == \A j \in 1..Len(session) : session[j].name # x.name

MergedUpTo(global, session, gi, si) ==
  {global[k] : k \in {i \in 1..(gi - 1) : Unshadowed(session, global[i])}}
    \cup {session[k] : k \in 1..(si - 1)}

MergeInv(global, session, at) ==
  /\ at = [gi |-> at.gi, si |-> at.si, merged |-> at.merged]
  /\ at.gi \in 1..(Len(global) + 1) /\ at.si \in 1..(Len(session) + 1)
  /\ Orders(at.merged, MergedUpTo(global, session, at.gi, at.si))
  /\ \A x \in MergedUpTo(global, session, at.gi, at.si) :
       /\ \A k \in at.gi..Len(global) : x.name < global[k].name
       /\ \A k \in at.si..Len(session) : x.name < session[k].name

IsMergeRun(global, session, N, f) ==
  f = [k \in 0..N |-> IF k = 0 THEN MergeStart ELSE MergeRound(global, session, f[k - 1])]

Unchanged == \A r \in Needs : iter.since[r] = version[r]

WalkTypeOK ==
  /\ registry \in [Registries -> SUBSET Names]
  /\ request.pc \in {"none", "serving", "building", "answered"}
  /\ iter = [pc |-> iter.pc, limit |-> iter.limit, cursor |-> iter.cursor, pages |-> iter.pages,
              out |-> iter.out, since |-> iter.since]
  /\ iter.pc \in {"none", "next", "fetching", "done", "error"}
  /\ iter.limit \in Int /\ iter.since \in [Registries -> Nat]

\* A sorted slice that is not nil holds the registry as it is, and so does what a request
\* has read of a registry that did not change.
SlicesHold ==
  \A r \in Registries :
    /\ snapshots[r].at # 0 => snapshots[r].items = SortedItems(r)
    /\ request.used[r].at <= version[r]
    /\ request.pc \in {"serving", "building"} /\ request.used[r].at = version[r] =>
         request.used[r].items = SortedItems(r)

\* A request is under way while the iterator fetches, and reads nothing that is older than
\* the iterator.
FetchServed ==
  /\ iter.pc = "fetching" <=> request.pc \in {"serving", "building"}
  /\ iter.pc = "none" => request.pc = "none"
  /\ \A r \in Registries :
       /\ iter.since[r] <= version[r]
       /\ iter.pc = "fetching" /\ request.used[r].at # 0 => request.used[r].at >= iter.since[r]

\* While nothing changes the iterator has what the cursor has passed.
CursorPassed ==
  Unchanged /\ iter.pc \in {"next", "fetching"} =>
    /\ iter.cursor \in 0..Len(VisibleItems)
    /\ iter.out = SubSeq(VisibleItems, 1, iter.cursor)

WalkInv ==
  WalkTypeOK /\ SlicesHold /\ FetchServed /\ CursorPassed /\ IteratesAll
=============================================================================
