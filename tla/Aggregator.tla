----------------------------- MODULE Aggregator -----------------------------
(***************************************************************************)
(* The multi-server aggregator of the client (client/aggregator.go).  Each *)
(* AddServer makes a Client of its own, so a server's record is named      *)
(* after the goroutine that added it, and two of them may ask for the same *)
(* id.  Users list tools, or call the one tool of the model by its bare    *)
(* name or by its qualified name; resources and prompts work the same way. *)
(***************************************************************************)
EXTENDS Naturals, FiniteSets

CONSTANTS
  ServerIds,
  Adders,       \* goroutines of AddServer, and the aggServer each one makes
  IdOf,         \* the id each of them asks for
  Users,        \* goroutines that list or call
  NoServer

ASSUME AggregatorAssumption ==
  IdOf \in [Adders -> ServerIds] /\ NoServer \notin Adders

VARIABLES
  servers,      \* Aggregator.servers
  aggClient,    \* the Client of each aggServer: "none", "open" or "closed"
  adds,         \* where each AddServer is
  closing,      \* servers taken out of the map whose Client is still to be closed
  serverHealthy,
  cachedTools,  \* "nil", or what the list said of the tool: "has" or "lacks"
  users         \* the operations of Users

aggVars == <<servers, aggClient, adds, closing, serverHealthy, cachedTools, users>>

NoUse == [pc |-> "idle", kind |-> "none", left |-> {}, asked |-> NoServer, found |-> {}]

AggregatorInit ==
  /\ servers = [id \in ServerIds |-> NoServer]
  /\ aggClient = [a \in Adders |-> "none"]
  /\ adds = [a \in Adders |-> "idle"]
  /\ closing = {}
  /\ serverHealthy = [a \in Adders |-> FALSE]
  /\ cachedTools = [a \in Adders |-> "nil"]
  /\ users = [u \in Users |-> NoUse]

Registered == {servers[id] : id \in ServerIds} \ {NoServer}
HealthyServers == {a \in Registered : serverHealthy[a]}

(***************************************************************************)
(* AddServer                                                               *)
(***************************************************************************)
\* The check under the read lock, New and Initialize; a handshake that fails
\* closes the Client.
AddServer(a) ==
  /\ adds[a] = "idle"
  /\ IF servers[IdOf[a]] # NoServer
       THEN adds' = [adds EXCEPT ![a] = "refused"] /\ UNCHANGED aggClient
       ELSE \/ /\ adds' = [adds EXCEPT ![a] = "initialized"]
               /\ aggClient' = [aggClient EXCEPT ![a] = "open"]
            \/ /\ adds' = [adds EXCEPT ![a] = "refused"]
               /\ aggClient' = [aggClient EXCEPT ![a] = "closed"]
  /\ UNCHANGED <<servers, closing, serverHealthy, cachedTools, users>>

\* Mutated form: the id is not tested again under the write lock.
AddServerStores_Unchecked(a) ==
  /\ adds[a] = "initialized"
  /\ servers' = [servers EXCEPT ![IdOf[a]] = a]
  /\ serverHealthy' = [serverHealthy EXCEPT ![a] = TRUE]
  /\ adds' = [adds EXCEPT ![a] = "added"]
  /\ UNCHANGED <<aggClient, closing, cachedTools, users>>

\* The check again, under the write lock; who comes second closes its Client.
AddServerStores(a) ==
  /\ adds[a] = "initialized"
  /\ IF servers[IdOf[a]] = NoServer
       THEN /\ servers' = [servers EXCEPT ![IdOf[a]] = a]
            /\ serverHealthy' = [serverHealthy EXCEPT ![a] = TRUE]
            /\ adds' = [adds EXCEPT ![a] = "added"]
            /\ UNCHANGED closing
       ELSE /\ adds' = [adds EXCEPT ![a] = "refused"]
            /\ closing' = closing \cup {a}
            /\ UNCHANGED <<servers, serverHealthy>>
  /\ UNCHANGED <<aggClient, cachedTools, users>>

(***************************************************************************)
(* RemoveServer, Close and HealthCheck                                     *)
(***************************************************************************)
RemoveServer(id) ==
  /\ servers[id] # NoServer
  /\ closing' = closing \cup {servers[id]}
  /\ servers' = [servers EXCEPT ![id] = NoServer]
  /\ UNCHANGED <<aggClient, adds, serverHealthy, cachedTools, users>>

\* Close empties the map; servers that are added later are served again.
CloseAggregator ==
  /\ Registered # {}
  /\ closing' = closing \cup Registered
  /\ servers' = [id \in ServerIds |-> NoServer]
  /\ UNCHANGED <<aggClient, adds, serverHealthy, cachedTools, users>>

\* client.Close, after the unlock.
CloseClient(a) ==
  /\ a \in closing
  /\ aggClient' = [aggClient EXCEPT ![a] = "closed"]
  /\ closing' = closing \ {a}
  /\ UNCHANGED <<servers, adds, serverHealthy, cachedTools, users>>

\* The ping of one server of HealthCheck's snapshot.
HealthCheck(a) ==
  /\ adds[a] = "added"
  /\ \E ok \in IF aggClient[a] = "open" THEN BOOLEAN ELSE {FALSE} :
       serverHealthy' = [serverHealthy EXCEPT ![a] = ok]
  /\ UNCHANGED <<servers, aggClient, adds, closing, cachedTools, users>>

(***************************************************************************)
(* getTools: the cache, or the server.                                     *)
(***************************************************************************)
\* InvalidateToolCache, or the list outlives its TTL.
InvalidateTools(a) ==
  /\ cachedTools[a] # "nil"
  /\ cachedTools' = [cachedTools EXCEPT ![a] = "nil"]
  /\ UNCHANGED <<servers, aggClient, adds, closing, serverHealthy, users>>

Learns(u, a, list) ==
  [users EXCEPT ![u].left = @ \ {a}, ![u].asked = NoServer,
                ![u].found = IF list = "has" THEN @ \cup {a} ELSE @]

GetToolsCached(u, a) ==
  /\ users[u].pc = "consulting" /\ users[u].asked = NoServer /\ a \in users[u].left
  /\ cachedTools[a] # "nil"
  /\ users' = Learns(u, a, cachedTools[a])
  /\ UNCHANGED <<servers, aggClient, adds, closing, serverHealthy, cachedTools>>

GetToolsFetches(u, a) ==
  /\ users[u].pc = "consulting" /\ users[u].asked = NoServer /\ a \in users[u].left
  /\ cachedTools[a] = "nil"
  /\ users' = [users EXCEPT ![u].asked = a]
  /\ UNCHANGED <<servers, aggClient, adds, closing, serverHealthy, cachedTools>>

\* The server answers what it offers at that moment.
GetToolsStores(u) ==
  LET a == users[u].asked
  IN  /\ users[u].pc = "consulting" /\ a # NoServer
      /\ aggClient[a] = "open"
      /\ \E list \in {"has", "lacks"} :
           /\ cachedTools' = [cachedTools EXCEPT ![a] = list]
           /\ users' = Learns(u, a, list)
      /\ UNCHANGED <<servers, aggClient, adds, closing, serverHealthy>>

\* A list that cannot be fetched marks the server, whatever the reason.
GetToolsFails(u) ==
  LET a == users[u].asked
  IN  /\ users[u].pc = "consulting" /\ a # NoServer
      /\ serverHealthy' = [serverHealthy EXCEPT ![a] = FALSE]
      /\ users' = Learns(u, a, "nil")
      /\ UNCHANGED <<servers, aggClient, adds, closing, cachedTools>>

(***************************************************************************)
(* ListTools and CallTool                                                  *)
(***************************************************************************)
ListAllTools(u) ==
  /\ users[u].pc = "idle" /\ HealthyServers # {}
  /\ users' = [users EXCEPT ![u].pc = "consulting", ![u].kind = "list", ![u].left = HealthyServers]
  /\ UNCHANGED <<servers, aggClient, adds, closing, serverHealthy, cachedTools>>

\* resolveToolPath of a bare name asks the healthy servers one by one.
CallBareName(u) ==
  /\ users[u].pc = "idle"
  /\ users' = [users EXCEPT ![u].pc = "consulting", ![u].kind = "call", ![u].left = HealthyServers]
  /\ UNCHANGED <<servers, aggClient, adds, closing, serverHealthy, cachedTools>>

CallQualifiedName(u, id) ==
  /\ users[u].pc = "idle"
  /\ users' = [users EXCEPT ![u].pc = "resolved", ![u].kind = id]
  /\ UNCHANGED <<servers, aggClient, adds, closing, serverHealthy, cachedTools>>

\* A list is merged; a name found on one server is resolved to its id, and one
\* found on none or on several is an error.
Consulted(u) ==
  /\ users[u].pc = "consulting" /\ users[u].left = {}
  /\ users' = IF users[u].kind = "call" /\ Cardinality(users[u].found) = 1
                THEN [users EXCEPT ![u] = [NoUse EXCEPT !.pc = "resolved",
                        !.kind = IdOf[CHOOSE a \in users[u].found : TRUE]]]
                ELSE [users EXCEPT ![u] = NoUse]
  /\ UNCHANGED <<servers, aggClient, adds, closing, serverHealthy, cachedTools>>

\* The id is looked up again: by now it may stand for nothing or for a new server.
RouteCall(u) ==
  /\ users[u].pc = "resolved"
  /\ LET a == servers[users[u].kind]
     IN  users' = IF a \in HealthyServers
                    THEN [users EXCEPT ![u].pc = "calling", ![u].asked = a]
                    ELSE [users EXCEPT ![u] = NoUse]
  /\ UNCHANGED <<servers, aggClient, adds, closing, serverHealthy, cachedTools>>

\* An error marks the server, also one of the caller's making.
CallReturns(u) ==
  /\ users[u].pc = "calling"
  /\ \E ok \in IF aggClient[users[u].asked] = "open" THEN BOOLEAN ELSE {FALSE} :
       serverHealthy' = [serverHealthy EXCEPT ![users[u].asked] = @ /\ ok]
  /\ users' = [users EXCEPT ![u] = NoUse]
  /\ UNCHANGED <<servers, aggClient, adds, closing, cachedTools>>

AggregatorNext ==
  \/ \E a \in Adders :
       \/ AddServer(a) \/ AddServerStores(a) \/ CloseClient(a) \/ HealthCheck(a)
       \/ InvalidateTools(a)
       \/ \E u \in Users : GetToolsCached(u, a) \/ GetToolsFetches(u, a)
  \/ \E id \in ServerIds : RemoveServer(id) \/ \E u \in Users : CallQualifiedName(u, id)
  \/ CloseAggregator
  \/ \E u \in Users :
       \/ GetToolsStores(u) \/ GetToolsFails(u) \/ ListAllTools(u) \/ CallBareName(u)
       \/ Consulted(u) \/ RouteCall(u) \/ CallReturns(u)

AggregatorSpec == AggregatorInit /\ [][AggregatorNext]_aggVars

-----------------------------------------------------------------------------
\* An open Client can be reached: through the map, by the AddServer that made it,
\* or by the call that took it out and will close it.  AddServer tests the id
\* before the handshake and stores after it, with other calls between.
NoClientLeaked ==
  \A a \in Adders :
    aggClient[a] = "open" => a \in Registered \/ adds[a] = "initialized" \/ a \in closing

-----------------------------------------------------------------------------
AggregatorTypeOK ==
  /\ servers \in [ServerIds -> Adders \cup {NoServer}]
  /\ aggClient \in [Adders -> {"none", "open", "closed"}]
  /\ adds \in [Adders -> {"idle", "initialized", "added", "refused"}]
  /\ closing \subseteq Adders

\* A server in the map is one that AddServer stored, under the id it asked for.
StoredUnderOwnId ==
  \A id \in ServerIds :
    servers[id] # NoServer => adds[servers[id]] = "added" /\ IdOf[servers[id]] = id

AggregatorInv == AggregatorTypeOK /\ StoredUnderOwnId /\ NoClientLeaked
=============================================================================
