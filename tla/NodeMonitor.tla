----------------------------- MODULE NodeMonitor -----------------------------
(***************************************************************************)
(* The node monitor task (services/NodeMonitor.ts) and the collections it  *)
(* replaces (services/DataBase.ts).  One action is what the task does      *)
(* between two awaits; the clock, the hosts, database failures and process *)
(* crashes step in between.                                                *)
(*                                                                         *)
(* A round walks through the phases                                        *)
(*   netinfo   ask the config nodes for the network      (fetchAndSet...)  *)
(*   dblist    read the Node collection                  (getNodeList)     *)
(*   confpeers ask each config node for its peers                          *)
(*   crawl     ask the listed API nodes for theirs, in chunks              *)
(*   info      probe every listed node, in chunks        (getNodeListInfo) *)
(*   update    hand the counts to the time series, or give up if empty     *)
(*   prev      read the collection again, drop stale nodes                 *)
(*   nodes, stats, restore   one DataBase.updateCollection each, whose     *)
(*             awaits are the stages find, delete, insert, verify          *)
(*   cache     refresh the memory cache                                    *)
(*   sleep     wait for the timer                                          *)
(* or ends in                                                              *)
(*   hung      waiting for a probe whose WebSocket is silent               *)
(***************************************************************************)
EXTENDS NodeRules

CONSTANTS
    Seeds,        \* bitxor.NODES, the nodes named in the configuration
    PeersChunk,   \* NODE_PEERS_REQUEST_CHUNK_SIZE
    InfoChunk,    \* NUMBER_OF_NODE_REQUEST_CHUNK
    NoNetwork,    \* networkIdentifier 0 and hash seed '', the initial values
    HomeNetworks, \* the networks the config nodes report
    Mortals,      \* the nodes that may leave the network for good
    MaxFaults     \* bound on database failures and process crashes

ASSUME ChunkAssumption == PeersChunk \in Nat \ {0} /\ InfoChunk \in Nat \ {0}
ASSUME NetworkAssumption == HomeNetworks \subseteq Networks /\ NoNetwork \notin Networks
ASSUME MortalAssumption == Mortals \subseteq Keys
ASSUME FaultAssumption == MaxFaults \in Nat

VARIABLES
    nodes,        \* the Node collection
    stats,        \* the NodesStats collection, at most one document
    network,      \* networkIdentifier and generationHashSeed
    nodeList,     \* this.nodeList
    nodeInfoList, \* this.nodeInfoList
    nodesStats,   \* this.nodesStats, per role
    prevNodes,    \* prevNodeList of the update under way
    phase, stage, \* where the round stands
    todo,         \* config nodes or listed nodes the current loop has left
    before,       \* history: the collection as this round first read it
    dropped,      \* history: nodes that answered as somebody else this round
    asked,        \* history: nodes asked for their peers in this crawl
    gone,         \* nodes that neither answer nor are announced any more
    faults        \* failures and crashes so far

vars == <<nodes, stats, network, nodeList, nodeInfoList, nodesStats, prevNodes,
          phase, stage, todo, before, dropped, asked, gone, faults>>

database == <<nodes, stats>>
lists == <<nodeList, nodeInfoList, nodesStats>>
history == <<before, dropped, asked>>
world == <<gone, faults>>

Calls == {"nodes", "stats", "restore"}
Phases == {"netinfo", "dblist", "confpeers", "crawl", "info", "update", "prev",
           "cache", "sleep", "hung"} \cup Calls
Stages == {"idle", "find", "delete", "insert", "verify"}

\* The variables have their types, and a database call is under way exactly in the
\* phases that make one.
TypeOK ==
    /\ nodes \in Lists /\ nodeList \in Lists /\ nodeInfoList \in Lists
    /\ prevNodes \in Lists /\ before \in Lists
    /\ stats \in SUBSET [Roles -> Nat] /\ nodesStats \in [Roles -> Nat]
    /\ network \in Networks \cup {NoNetwork}
    /\ phase \in Phases /\ stage \in Stages
    /\ phase \in Calls <=> stage # "idle"
    /\ todo \subseteq Seeds \cup Keys
    /\ dropped \subseteq Keys /\ asked \subseteq Keys /\ gone \subseteq Mortals
    /\ faults \in 0 .. MaxFaults

Init ==
    /\ nodes = EmptyList /\ stats = {}
    /\ network = NoNetwork
    /\ nodeList = EmptyList /\ nodeInfoList = EmptyList /\ nodesStats = NoCounts
    /\ prevNodes = EmptyList
    /\ phase = "netinfo" /\ stage = "idle" /\ todo = {}
    /\ before = EmptyList /\ dropped = {} /\ asked = {}
    /\ gone = {} /\ faults = 0

\* Mutation: clear() forgets the counts.
BeginRound_KeepsCounts ==
    /\ nodeList' = EmptyList /\ nodeInfoList' = EmptyList /\ UNCHANGED nodesStats
    /\ prevNodes' = EmptyList
    /\ phase' = "netinfo" /\ stage' = "idle" /\ todo' = {}
    /\ before' = EmptyList /\ dropped' = {} /\ asked' = {}

\* clear(), and the locals of the round go out of scope.
BeginRound ==
    /\ nodeList' = EmptyList /\ nodeInfoList' = EmptyList /\ nodesStats' = NoCounts
    /\ prevNodes' = EmptyList
    /\ phase' = "netinfo" /\ stage' = "idle" /\ todo' = {}
    /\ before' = EmptyList /\ dropped' = {} /\ asked' = {}

-----------------------------------------------------------------------------
\* fetchAndSetNetworkInfo: the first config node that answers decides; if none
\* does, the values of an earlier round, or the initial ones, stay.

NetworkFound ==
    /\ phase = "netinfo"
    /\ network' \in HomeNetworks
    /\ phase' = "dblist"
    /\ UNCHANGED <<database, lists, prevNodes, stage, todo, history, world>>

NetworkNotFound ==
    /\ phase = "netinfo"
    /\ phase' = "dblist"
    /\ UNCHANGED <<database, network, lists, prevNodes, stage, todo, history, world>>

-----------------------------------------------------------------------------
\* getNodeList

ReadNodeList ==
    /\ phase = "dblist"
    /\ nodeList' = addNodesToList(nodeList, nodes, network)
    /\ before' = nodes
    /\ phase' = "confpeers" /\ todo' = Seeds
    /\ UNCHANGED <<database, network, nodeInfoList, nodesStats, prevNodes, stage,
                   dropped, asked, world>>

\* One config node's /node/peers, empty if the request fails.
FetchConfigPeers ==
    /\ phase = "confpeers"
    /\ \E seed \in todo :
        /\ \E S \in SUBSET (Keys \ gone) : \E peers \in Announcements(S) :
               nodeList' = addNodesToList(nodeList, peers, network)
        /\ todo' = todo \ {seed}
    /\ UNCHANGED <<database, network, nodeInfoList, nodesStats, prevNodes, phase,
                   stage, history, world>>

\* fetchAndAddNodeListPeers takes the API nodes of the list as it is now.
BeginCrawl ==
    /\ phase = "confpeers" /\ todo = {}
    /\ phase' = "crawl"
    /\ todo' = {k \in Listed(nodeList) : isAPIRole(nodeList[k].roles)}
    /\ UNCHANGED <<database, network, lists, prevNodes, stage, history, world>>

\* A chunk's requests run concurrently; their answers are merged together, the
\* last one about a node wins.  A chunk of nodes that are gone answers nothing.
CrawlChunk ==
    /\ phase = "crawl"
    /\ \E C \in Chunks(todo, PeersChunk) :
        /\ C # {}
        /\ \E S \in SUBSET (IF C \subseteq gone THEN {} ELSE Keys \ gone) :
               \E peers \in Announcements(S) :
                   nodeList' = addNodesToList(nodeList, peers, network)
        /\ todo' = todo \ C
        /\ asked' = asked \cup C
    /\ UNCHANGED <<database, network, nodeInfoList, nodesStats, prevNodes, phase,
                   stage, before, dropped, world>>

BeginInfo ==
    /\ phase = "crawl" /\ todo = {}
    /\ phase' = "info" /\ todo' = Listed(nodeList)
    /\ asked' = {}
    /\ UNCHANGED <<database, network, lists, prevNodes, stage, before, dropped, world>>

-----------------------------------------------------------------------------
\* getNodeListInfo

\* The probes of a chunk run concurrently; the nodes that answered as somebody
\* else come back undefined and are left out.
InfoChunkDone ==
    /\ phase = "info"
    /\ \E C \in Chunks(todo, InfoChunk) :
        /\ C # {}
        /\ \E results \in [C -> UNION {getNodeInfo(nodeList[k], k \notin gone) : k \in C}] :
            /\ \A k \in C : results[k] \in getNodeInfo(nodeList[k], k \notin gone)
            /\ nodeInfoList' =
                   [k \in Keys |-> IF k \in C THEN results[k] ELSE nodeInfoList[k]]
            /\ dropped' = dropped \cup {k \in C : results[k] = NoNode}
        /\ todo' = todo \ C
    /\ UNCHANGED <<database, network, nodeList, nodesStats, prevNodes, phase, stage,
                   before, asked, world>>

\* checkWebSocketHealth settles when the connection opens or fails, and has no timer:
\* an API node that accepts the connection and then says nothing keeps its probe, the
\* chunk and the round waiting.  Nothing but a restart of the process ends that.
WebSocketHangs ==
    /\ phase = "info"
    /\ \E C \in Chunks(todo, InfoChunk) : \E k \in C \ gone :
           isAPIRole(nodeList[k].roles) /\ ~ProbeThrows(nodeList[k])
    /\ phase' = "hung"
    /\ UNCHANGED <<database, network, lists, prevNodes, stage, todo, history, world>>

CountNodes ==
    /\ phase = "info" /\ todo = {}
    /\ nodesStats' = addToStats(nodesStats, nodeInfoList)
    /\ phase' = "update"
    /\ UNCHANGED <<database, network, nodeList, nodeInfoList, prevNodes, stage, todo,
                   history, world>>

-----------------------------------------------------------------------------
\* updateCollection.  The call of TimeSeriesService.setData at its start is not
\* awaited and touches none of these variables: see module TimeSeries.

\* Mutation: an empty result is stored as well.
BeginUpdate_Unguarded ==
    /\ phase = "update"
    /\ phase' = "prev"
    /\ UNCHANGED <<database, network, lists, prevNodes, stage, todo, history, world>>

BeginUpdate ==
    /\ phase = "update"
    /\ phase' = IF Listed(nodeInfoList) # {} THEN "prev" ELSE "cache"
    /\ UNCHANGED <<database, network, lists, prevNodes, stage, todo, history, world>>

ReadPrevNodeList ==
    /\ phase = "prev"
    /\ prevNodes' = nodes
    /\ nodeInfoList' = removeStaleNodesAndUpdateLastAvailable(nodeInfoList)
    /\ phase' = "nodes" /\ stage' = "find"
    /\ UNCHANGED <<database, network, nodeList, nodesStats, todo, history, world>>

\* The documents of the updateCollection of nodes under way, and what an insert
\* of docs makes of a collection.
Documents == IF phase = "nodes" THEN nodeInfoList ELSE prevNodes
Inserted(coll, docs) == [k \in Keys |-> IF docs[k] # NoNode THEN docs[k] ELSE coll[k]]

\* Mutation: the old documents are not deleted first.
StoreFind_NoDelete ==
    /\ stage = "find"
    /\ stage' = "insert"
    /\ UNCHANGED <<database, network, lists, prevNodes, phase, todo, history, world>>

StoreFind ==
    /\ stage = "find"
    /\ stage' = "delete"
    /\ UNCHANGED <<database, network, lists, prevNodes, phase, todo, history, world>>

StoreDelete ==
    /\ stage = "delete"
    /\ IF phase = "stats" THEN stats' = {} /\ UNCHANGED nodes
       ELSE nodes' = EmptyList /\ UNCHANGED stats
    /\ stage' = "insert"
    /\ UNCHANGED <<network, lists, prevNodes, phase, todo, history, world>>

StoreInsert ==
    /\ stage = "insert"
    /\ IF phase = "stats" THEN stats' = stats \cup {nodesStats} /\ UNCHANGED nodes
       ELSE nodes' = Inserted(nodes, Documents) /\ UNCHANGED stats
    /\ stage' = "verify"
    /\ UNCHANGED <<network, lists, prevNodes, phase, todo, history, world>>

\* Mutation: the comparison of the lengths is inverted.
StoreVerify_Inverted ==
    /\ stage = "verify"
    /\ IF phase = "restore" THEN BeginRound
       ELSE /\ phase' = "restore" /\ stage' = "find"
            /\ UNCHANGED <<lists, prevNodes, todo, history>>
    /\ UNCHANGED <<database, network, world>>

\* The lengths are compared; that they agree is LengthCheckPasses below, so the
\* branch that reinserts the previous documents is not taken by this task.
StoreVerify ==
    /\ stage = "verify"
    /\ IF phase = "nodes" THEN phase' = "stats" /\ stage' = "find"
       ELSE phase' = "cache" /\ stage' = "idle"
    /\ UNCHANGED <<database, network, lists, prevNodes, todo, history, world>>

\* cacheCollection swallows a failed read, and nothing reads the entry it sets.
CacheCollection ==
    /\ phase = "cache"
    /\ phase' = "sleep"
    /\ UNCHANGED <<database, network, lists, prevNodes, stage, todo, history, world>>

\* setTimeout(() => this.start(), this.interval)
Timer ==
    /\ phase = "sleep"
    /\ BeginRound
    /\ UNCHANGED <<database, network, world>>

-----------------------------------------------------------------------------
\* Failures: a database call rejects, or the process dies

Fault == faults < MaxFaults /\ faults' = faults + 1

\* A failed read outside the try of updateCollection reaches the catch of
\* start(), which stops and starts over without waiting.
ReadFails ==
    /\ phase \in {"dblist", "prev"}
    /\ Fault
    /\ BeginRound
    /\ UNCHANGED <<database, network, gone>>

\* A failed deleteMany or insertMany may have taken effect for some documents.
Leftover ==
    \E S \in SUBSET Keys :
        CASE stage = "delete" -> nodes' = Only(nodes, S)
          [] stage = "insert" -> nodes' = Inserted(nodes, Only(Documents, S))
          [] OTHER -> nodes' = nodes

LeftoverStats ==
    CASE stage = "delete" -> stats' \in {stats, {}}
      [] stage = "insert" -> stats' \in {stats \cup {nodesStats}, stats}
      [] OTHER -> stats' = stats

\* Mutation: the failure is logged only.
StoreFails_NoRestore ==
    /\ phase \in {"nodes", "stats"}
    /\ Fault
    /\ IF phase = "stats" THEN LeftoverStats /\ UNCHANGED nodes
       ELSE Leftover /\ UNCHANGED stats
    /\ phase' = "cache" /\ stage' = "idle"
    /\ UNCHANGED <<network, lists, prevNodes, todo, history, gone>>

\* The catch of updateCollection stores the previous nodes again ...
StoreFails ==
    /\ phase \in {"nodes", "stats"}
    /\ Fault
    /\ IF phase = "stats" THEN LeftoverStats /\ UNCHANGED nodes
       ELSE Leftover /\ UNCHANGED stats
    /\ phase' = "restore" /\ stage' = "find"
    /\ UNCHANGED <<network, lists, prevNodes, todo, history, gone>>

\* ... and if that fails as well, start() begins a new round.
RestoreFails ==
    /\ phase = "restore"
    /\ Fault
    /\ Leftover
    /\ BeginRound
    /\ UNCHANGED <<stats, network, gone>>

\* The process dies and the process manager starts it again.
Crash ==
    /\ Fault
    /\ BeginRound
    /\ network' = NoNetwork
    /\ UNCHANGED <<database, gone>>

-----------------------------------------------------------------------------
\* The environment

Tick ==
    /\ nodes' = Aged(nodes) /\ prevNodes' = Aged(prevNodes)
    /\ nodeList' = Aged(nodeList) /\ nodeInfoList' = Aged(nodeInfoList)
    /\ before' = Aged(before)
    /\ UNCHANGED <<stats, network, nodesStats, phase, stage, todo, dropped, asked, world>>

Leave ==
    /\ \E k \in Mortals \ gone : gone' = gone \cup {k}
    /\ UNCHANGED <<database, network, lists, prevNodes, phase, stage, todo, history, faults>>

-----------------------------------------------------------------------------
Step ==
    \/ NetworkFound \/ NetworkNotFound \/ ReadNodeList \/ FetchConfigPeers \/ BeginCrawl
    \/ CrawlChunk \/ BeginInfo \/ InfoChunkDone \/ CountNodes \/ BeginUpdate
    \/ ReadPrevNodeList \/ StoreFind \/ StoreDelete \/ StoreInsert \/ StoreVerify
    \/ CacheCollection \/ Timer

Next ==
    \/ Step \/ WebSocketHangs \/ ReadFails \/ StoreFails \/ RestoreFails \/ Crash
    \/ Tick \/ Leave

Spec == Init /\ [][Next]_vars

\* The task goes on as long as what it waits for settles, time passes, and of
\* infinitely many rounds some find a config node that answers.  Requests and TCP
\* probes have timers and settle; a WebSocket check need not, so WebSocketHangs
\* may end the round at any chunk that holds an API node, and no step of the task is
\* enabled from there on.
Fairness == WF_vars(Step) /\ WF_vars(Tick) /\ SF_vars(NetworkFound)
FairSpec == Spec /\ Fairness
-----------------------------------------------------------------------------
\* Safety

\* Every stored node carries a lastAvailable.  checkNodeStale never drops a node
\* without one (!!node.lastAvailable), so such a node would be kept for ever.
StoredNodesAreDated == \A k \in Listed(nodes) : nodes[k].age # Never

\* When updateCollection of DataBase.ts compares the lengths, it finds the very
\* documents it inserted: no crash, failure or earlier round leaves a node in
\* the collection that deleteMany did not remove, or an insert half done.
LengthCheckPasses ==
    stage = "verify" =>
        IF phase = "stats" THEN stats = {nodesStats} ELSE nodes = Documents

\* The counts handed to setData and stored in NodesStats count each probed node
\* once, under the role it was given last, also when the round started over
\* after a failure.
EachNodeCountedOnce ==
    phase = "update" => nodesStats = addToStats(NoCounts, nodeInfoList)

\* A round that gets as far as caching the collection has replaced all of it, or
\* left it as it was when the round began: failed deletes and inserts, and a
\* failure of the stats after the nodes were stored, are undone.
UpdateAllOrNothing ==
    phase \in {"cache", "sleep"} => nodes \in {before, nodeInfoList}

\* A stored node of the network whose lastAvailable is within the time to keep
\* stays in the collection the round is about to write, answered or not,
\* announced or not, unless it answered as another node or network.
FreshNodesStay ==
    [][phase = "prev" /\ phase' = "nodes" =>
          \A k \in Listed(nodes) \ dropped :
              nodes[k].net = network /\ nodes[k].age <= Keep
                  => nodeInfoList'[k] # NoNode]_vars

\* Only a node with an available status gets a new lastAvailable: a stored node of
\* the network that has none after the probes is written back with the date it
\* had, however often it was announced during the round.
UnavailableNodesKeepTheirDate ==
    [][phase = "prev" /\ phase' = "nodes" =>
          \A k \in Listed(nodes) :
              /\ nodes[k].net = network
              /\ nodeInfoList'[k] # NoNode /\ ~checkNodeAvailable(nodeInfoList'[k])
              => nodeInfoList'[k].age = nodes[k].age]_vars

\* A round that does not know the network yet accepts no node, and must not
\* store its empty result over the collection: apart from the dates getting
\* older, the collection changes only in a round that knows the network.
OutageKeepsTheCollection ==
    [][nodes' # nodes /\ nodes' # Aged(nodes) => network # NoNetwork]_vars

\* What the other monitors may expect of the Node collection.
Publisher == INSTANCE NodePublisher WITH
    Nodes <- Keys, Lists <- SUBSET Keys,
    published <- Listed(nodes), writing <- (stage # "idle")

\* The task is a publisher of its nodes: the collection changes only in the course of an
\* update, it is emptied as a whole before documents are put there, by the restoring of the
\* previous documents as well, and only a call that fails leaves a part behind (NodeMonitor.ts,
\* updateCollection; DataBase.ts, updateCollection).
RefinesNodePublisher == Publisher!PublisherSpec

-----------------------------------------------------------------------------
\* Liveness

\* A silent WebSocket keeps a round for ever: nothing watches over the task.
KeptByAWebSocket == <>[](phase = "hung")

\* Failures of the database, lost configuration nodes and restarts do not stop the
\* task: rounds complete again and again, unless one is kept by a WebSocket check
\* that never settles (ApiNodeService.ts, checkWebSocketHealth), the one await of a
\* round without a timer.
RoundsRecur == []<>(phase = "sleep") \/ KeptByAWebSocket

\* A probed node that has left the network is forgotten in the end, unless it was
\* stored with a port that cannot be probed (its statuses are then frozen), or a
\* round is kept by a WebSocket check that never settles.
DepartedNodesAreForgotten ==
    \A k \in Mortals :
        <>(k \in gone) =>
            \/ KeptByAWebSocket
            \/ <>[](nodes[k] # NoNode =>
                       \/ ~isAPIRole(nodes[k].roles) /\ ~isPeerRole(nodes[k].roles)
                       \/ ProbeThrows(nodes[k]))
=============================================================================
