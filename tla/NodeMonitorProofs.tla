-------------------------- MODULE NodeMonitorProofs --------------------------
(***************************************************************************)
(* Proofs about the node monitor, for every set of nodes, roles, networks  *)
(* and config nodes, every chunk size, time to keep and number of faults.  *)
(***************************************************************************)
EXTENDS NodeMonitorInv, FiniteSetTheorems, TLAPS

-----------------------------------------------------------------------------
(* The rules of the node monitor (NodeRules).                              *)

\* Ages are closed under ticks, and only a node without a date stays without one.
LEMMA AgesFacts == /\ Never \in Ages /\ 0 \in Ages
                   /\ \A a \in Ages : OneTickOlder(a) \in Ages
                   /\ \A a \in Ages : OneTickOlder(a) = Never <=> a = Never
  BY KeepAssumption DEF Ages, Never, OneTickOlder

\* The empty list is a list that lists nothing.
LEMMA EmptyListType == EmptyList \in Lists /\ Listed(EmptyList) = {}
  BY DEF EmptyList, Lists, Listed

\* A part of a list is a list.
LEMMA OnlyType == ASSUME NEW list \in Lists, NEW S PROVE Only(list, S) \in Lists
  BY DEF Only, Lists

\* One tick keeps a list a list, and neither adds, removes nor dates a node.
LEMMA AgedType ==
  ASSUME NEW list \in Lists
  PROVE  /\ Aged(list) \in Lists
         /\ \A k \in Keys : /\ Aged(list)[k] = NoNode <=> list[k] = NoNode
                            /\ list[k] # NoNode =>
                                 /\ Aged(list)[k].age = OneTickOlder(list[k].age)
                                 /\ Aged(list)[k].roles = list[k].roles
                                 /\ Aged(list)[k].net = list[k].net
                                 /\ Aged(list)[k].api = list[k].api
                                 /\ Aged(list)[k].peer = list[k].peer
<1>1. ASSUME NEW k \in Keys, list[k] # NoNode
      PROVE  [list[k] EXCEPT !.age = OneTickOlder(@)] \in Node
  <2>1. list[k] \in Node
    BY <1>1 DEF Lists
  <2>2. list[k].age \in Ages /\ OneTickOlder(list[k].age) \in Ages
    BY <2>1, AgesFacts DEF Node
  <2> QED
    BY <2>1, <2>2 DEF Node
<1>2. Aged(list) \in Lists
  BY <1>1 DEF Aged, Lists
<1>3. ASSUME NEW k \in Keys
      PROVE  /\ Aged(list)[k] = NoNode <=> list[k] = NoNode
             /\ list[k] # NoNode =>
                  /\ Aged(list)[k].age = OneTickOlder(list[k].age)
                  /\ Aged(list)[k].roles = list[k].roles
                  /\ Aged(list)[k].net = list[k].net
                  /\ Aged(list)[k].api = list[k].api
                  /\ Aged(list)[k].peer = list[k].peer
  <2>1. CASE list[k] = NoNode
    BY <2>1 DEF Aged
  <2>2. CASE list[k] # NoNode
    <3>1. list[k] \in Node
      BY <2>2 DEF Lists
    <3>2. Aged(list)[k] = [list[k] EXCEPT !.age = OneTickOlder(@)]
      BY <2>2 DEF Aged
    <3>3. Aged(list)[k] # NoNode
      BY <3>2, <1>1, <2>2, NoNodeAssumption
    <3> QED
      BY <2>2, <3>1, <3>2, <3>3 DEF Node
  <2> QED
    BY <2>1, <2>2
<1> QED
  BY <1>2, <1>3

\* An empty list stays empty while time passes.
LEMMA AgedEmpty == Aged(EmptyList) = EmptyList
  BY DEF Aged, EmptyList

-----------------------------------------------------------------------------
\* The date a merged entry gets is an age.
LEMMA MergedAgeType ==
  ASSUME NEW old \in Node \cup {NoNode}, NEW new \in Node
  PROVE  MergedAge(old, new) \in Ages
<1>1. old # NoNode => old.age \in Ages
  BY DEF Node
<1>2. new.age \in Ages
  BY DEF Node
<1> QED
  BY <1>1, <1>2, AgesFacts DEF MergedAge

\* Merging a batch into a list gives a list.
LEMMA AddNodesType ==
  ASSUME NEW list \in Lists, NEW batch \in Lists, NEW net
  PROVE  addNodesToList(list, batch, net) \in Lists
<1>1. ASSUME NEW k \in Keys, Accepted(batch[k], net)
      PROVE  [batch[k] EXCEPT !.age = MergedAge(list[k], batch[k])] \in Node
  <2>1. batch[k] \in Node /\ list[k] \in Node \cup {NoNode}
    BY <1>1 DEF Lists, Accepted
  <2> QED
    BY <2>1, MergedAgeType DEF Node
<1> QED
  BY <1>1 DEF addNodesToList, Lists

\* Dropping stale nodes from a list gives a list.
LEMMA RemoveStaleType ==
  ASSUME NEW list \in Lists
  PROVE  removeStaleNodesAndUpdateLastAvailable(list) \in Lists
  BY AgesFacts DEF removeStaleNodesAndUpdateLastAvailable, Lists, Node

\* What a merge puts at a key: the entry of the batch if it is accepted, with
\* the date the list had for it, or else a date if its role is probed.  The
\* batches are stored nodes, which have a date, and announcements, which have
\* no status.
LEMMA AddNodes ==
  ASSUME NEW list \in Lists, NEW batch \in Lists, NEW net,
         \A k \in Listed(batch) : Mergeable(batch[k])
  PROVE  /\ addNodesToList(list, batch, net) \in Lists
         /\ \A k \in Keys :
              LET new == addNodesToList(list, batch, net)[k] IN
              /\ ~Accepted(batch[k], net) => new = list[k]
              /\ Accepted(batch[k], net) =>
                   /\ new \in Node /\ new.net = net
                   /\ new.age = MergedAge(list[k], batch[k])
                   /\ Datable(new)
<1> DEFINE new(k) == [batch[k] EXCEPT !.age = MergedAge(list[k], batch[k])]
<1>1. ASSUME NEW k \in Keys, Accepted(batch[k], net)
      PROVE  new(k) \in Node /\ new(k).net = net
             /\ new(k).age = MergedAge(list[k], batch[k]) /\ Datable(new(k))
  <2>1. batch[k] \in Node /\ batch[k].net = net
    BY <1>1 DEF Lists, Accepted
  <2>2. list[k] # NoNode => list[k].age \in Ages
    BY DEF Lists, Node
  <2>3. batch[k].age \in Ages
    BY <2>1 DEF Node
  <2>4. MergedAge(list[k], batch[k]) \in Ages
    BY <2>1, MergedAgeType DEF Lists
  <2>5. MergedAge(list[k], batch[k]) = Never => checkNodeAvailable(batch[k])
    BY DEF MergedAge, Never
  <2>6. MergedAge(list[k], batch[k]) = Never => batch[k].age = Never
    BY <2>2, <2>3 DEF MergedAge, Never
  <2>7. Mergeable(batch[k])
    BY <1>1 DEF Accepted, Listed
  <2>8. MergedAge(list[k], batch[k]) = Never
          => ~isAPIRole(batch[k].roles) /\ ~isPeerRole(batch[k].roles)
    BY <2>5, <2>6, <2>7 DEF checkNodeAvailable, Mergeable
  <2> QED
    BY <2>1, <2>4, <2>8 DEF Node, Datable
<1>2. \A k \in Keys : addNodesToList(list, batch, net)[k]
                        = IF Accepted(batch[k], net) THEN new(k) ELSE list[k]
  BY DEF addNodesToList
<1>3. addNodesToList(list, batch, net) \in Lists
  BY AddNodesType
<1> HIDE DEF new
<1> QED
  BY <1>1, <1>2, <1>3

\* What a peer announces is a list of nodes that may be merged: none has a status.
LEMMA AnnouncementsType ==
  ASSUME NEW S \in SUBSET Keys, NEW peers \in Announcements(S)
  PROVE  peers \in Lists /\ \A k \in Listed(peers) : Mergeable(peers[k])
<1>1. PICK ann \in [S -> [roles : Roles, net : Networks, port : Ports,
                          api : {"none"}, peer : {"none"}, age : {Never}]] :
             peers = [k \in Keys |-> IF k \in S THEN ann[k] ELSE NoNode]
  BY DEF Announcements
<1>2. \A k \in S : ann[k] \in Node /\ ann[k].api = "none" /\ ann[k].peer = "none"
  BY AgesFacts DEF Node, Statuses
<1>3. \A k \in S : ann[k] # NoNode
  BY <1>2, NoNodeAssumption
<1> QED
  BY <1>1, <1>2, <1>3 DEF Lists, Listed, Mergeable

-----------------------------------------------------------------------------
\* A probe never touches the date of a node, and leaves it datable.
LEMMA Probes ==
  ASSUME NEW node \in Node, NEW answers \in BOOLEAN,
         NEW result \in getNodeInfo(node, answers), result # NoNode
  PROVE  /\ result \in Node
         /\ result.age = node.age /\ result.net = node.net
         /\ Datable(node) => Datable(result)
<1>1. CASE result = SilentResult(node)
  BY <1>1 DEF SilentResult, Node, Statuses, Datable
<1>2. CASE result \in AnsweredResults(node)
  <2>1. PICK o \in PeerResults(node) \X ApiResults(node)
                     \X RoleResults(node) \X PortResults(node) :
          result = [node EXCEPT !.peer = o[1], !.api = o[2], !.roles = o[3], !.port = o[4]]
    BY <1>2 DEF AnsweredResults
  <2>2. o[1] \in Statuses /\ o[2] \in Statuses
    BY <2>1 DEF PeerResults, ApiResults, Node, Statuses
  <2>3. o[3] \in Roles /\ (~isAPIRole(node.roles) => o[3] = node.roles)
    BY <2>1 DEF RoleResults, Node
  <2>4. o[4] \in Ports
    BY <2>1 DEF PortResults, Node
  <2>5. result \in Node /\ result.age = node.age /\ result.net = node.net
        /\ result.roles = o[3]
    BY <2>1, <2>2, <2>3, <2>4 DEF Node
  <2> QED
    BY <2>3, <2>5 DEF Datable
<1>3. CASE result = node
  BY <1>3
<1> QED
  BY <1>1, <1>2, <1>3 DEF getNodeInfo

\* Dropping the stale nodes keeps a list a list; every datable node that is kept
\* has a date, and an unavailable one has the date it had.
LEMMA RemoveStale ==
  ASSUME NEW list \in Lists, \A k \in Listed(list) : Datable(list[k])
  PROVE  LET kept == removeStaleNodesAndUpdateLastAvailable(list) IN
         /\ kept \in Lists
         /\ \A k \in Keys :
              /\ kept[k] # NoNode => /\ list[k] # NoNode /\ kept[k].age # Never
                                     /\ kept[k].roles = list[k].roles
                                     /\ kept[k].net = list[k].net
              /\ kept[k] # NoNode /\ ~checkNodeAvailable(kept[k])
                   => kept[k].age = list[k].age
              /\ list[k] # NoNode /\ list[k].age <= Keep => kept[k] # NoNode
<1> DEFINE kept == removeStaleNodesAndUpdateLastAvailable(list)
<1>1. \A k \in Keys : kept[k] = IF list[k] = NoNode \/ checkNodeStale(list[k]) THEN NoNode
                                 ELSE IF checkNodeAvailable(list[k])
                                      THEN [list[k] EXCEPT !.age = 0] ELSE list[k]
  BY DEF removeStaleNodesAndUpdateLastAvailable
<1>2. kept \in Lists
  BY RemoveStaleType
<1>3. ASSUME NEW k \in Keys
      PROVE  /\ kept[k] # NoNode => /\ list[k] # NoNode /\ kept[k].age # Never
                                    /\ kept[k].roles = list[k].roles
                                    /\ kept[k].net = list[k].net
             /\ kept[k] # NoNode /\ ~checkNodeAvailable(kept[k])
                  => kept[k].age = list[k].age
             /\ list[k] # NoNode /\ list[k].age <= Keep => kept[k] # NoNode
  <2>1. CASE list[k] = NoNode
    BY <1>1, <2>1
  <2>2. CASE list[k] # NoNode /\ checkNodeStale(list[k])
    <3>1. list[k] \in Node /\ list[k].age \in Ages
      BY <2>2 DEF Lists, Node
    <3>2. ~(list[k].age <= Keep)
      BY <2>2, <3>1, KeepAssumption DEF checkNodeStale, Ages, Never
    <3> QED
      BY <1>1, <2>2, <3>2
  <2>3. CASE list[k] # NoNode /\ ~checkNodeStale(list[k]) /\ checkNodeAvailable(list[k])
    <3>1. list[k] \in Node
      BY <2>3 DEF Lists
    <3>2. kept[k] = [list[k] EXCEPT !.age = 0]
      BY <1>1, <2>3
    <3>3. kept[k] \in Node
      BY <3>1, <3>2, AgesFacts DEF Node
    <3>4. /\ kept[k].age = 0 /\ kept[k].roles = list[k].roles
          /\ kept[k].net = list[k].net /\ kept[k].api = list[k].api
          /\ kept[k].peer = list[k].peer
      BY <3>1, <3>2 DEF Node
    <3>5. checkNodeAvailable(kept[k])
      BY <2>3, <3>4 DEF checkNodeAvailable
    <3>6. kept[k] # NoNode
      BY <3>3, NoNodeAssumption
    <3> HIDE DEF kept
    <3> QED
      BY <2>3, <3>4, <3>5, <3>6 DEF Never
  <2>4. CASE list[k] # NoNode /\ ~checkNodeStale(list[k]) /\ ~checkNodeAvailable(list[k])
    <3>1. kept[k] = list[k]
      BY <1>1, <2>4
    <3>2. list[k].age # Never
      BY <2>4 DEF Datable, Listed, checkNodeAvailable
    <3> HIDE DEF kept
    <3> QED
      BY <2>4, <3>1, <3>2
  <2> QED
    BY <2>1, <2>2, <2>3, <2>4
<1> HIDE DEF kept
<1>4. QED
  BY <1>2, <1>3 DEF kept

-----------------------------------------------------------------------------
\* The counts of a finite list are natural numbers.
LEMMA AddToStatsType ==
  ASSUME NEW counts \in [Roles -> Nat], NEW list \in Lists
  PROVE  addToStats(counts, list) \in [Roles -> Nat]
<1>1. ASSUME NEW r \in Roles
      PROVE  Cardinality({k \in Listed(list) : list[k].roles = r}) \in Nat
  <2>1. IsFiniteSet({k \in Listed(list) : list[k].roles = r})
    BY KeysAssumption, FS_Subset DEF Listed
  <2> QED
    BY <2>1, FS_CardinalityType
<1> QED
  BY <1>1 DEF addToStats

\* The counts after clear() are natural numbers.
LEMMA NoCountsType == NoCounts \in [Roles -> Nat]
  BY DEF NoCounts

-----------------------------------------------------------------------------
(* The task.                                                               *)

\* The constructor leaves the task, and an empty database the collections, well typed.
LEMMA InitType == Init => TypeInv
  BY EmptyListType, NoCountsType, FaultAssumption
  DEF Init, TypeInv, TypeOK, TodoOK, Phases, Stages, Calls

\* clear() gives empty lists and counts.
LEMMA BeginRoundType ==
  ASSUME TypeInv, BeginRound, UNCHANGED network \/ network' = NoNetwork,
         nodes' \in Lists, stats' \in SUBSET [Roles -> Nat],
         gone' = gone, faults' \in 0 .. MaxFaults
  PROVE  TypeInv'
  BY EmptyListType, NoCountsType
  DEF TypeInv, TypeOK, TodoOK, BeginRound, Phases, Stages, Calls

\* The number of faults stays within its bound.
LEMMA FaultType == ASSUME TypeOK, Fault PROVE faults' \in 0 .. MaxFaults
  BY FaultAssumption DEF TypeOK, Fault

\* Whatever a failed call leaves of a collection is a collection.
LEMMA InsertedType ==
  ASSUME NEW coll \in Lists, NEW docs \in Lists
  PROVE  Inserted(coll, docs) \in Lists
  BY DEF Inserted, Lists

\* A failed delete or insert leaves some list of nodes in the collection.
LEMMA LeftoverType ==
  ASSUME TypeOK, Leftover
  PROVE  nodes' \in Lists
<1>1. Documents \in Lists
  BY DEF TypeOK, Documents
<1>2. PICK S \in SUBSET Keys :
        CASE stage = "delete" -> nodes' = Only(nodes, S)
          [] stage = "insert" -> nodes' = Inserted(nodes, Only(Documents, S))
          [] OTHER -> nodes' = nodes
  BY DEF Leftover
<1> QED
  BY <1>1, <1>2, OnlyType, InsertedType DEF TypeOK

\* A failed delete or insert of the stats leaves counts or nothing.
LEMMA LeftoverStatsType ==
  ASSUME TypeOK, LeftoverStats
  PROVE  stats' \in SUBSET [Roles -> Nat]
  BY DEF TypeOK, LeftoverStats

\* A batch of announcements keeps the list a list, and removes no node from it.
LEMMA MergeAnnouncements ==
  ASSUME NEW list \in Lists, NEW S \in SUBSET Keys, NEW peers \in Announcements(S), NEW net
  PROVE  /\ addNodesToList(list, peers, net) \in Lists
         /\ Listed(list) \subseteq Listed(addNodesToList(list, peers, net))
<1>1. peers \in Lists /\ \A k \in Listed(peers) : Mergeable(peers[k])
  BY AnnouncementsType
<1>2. addNodesToList(list, peers, net) \in Lists
  BY <1>1, AddNodes
<1>3. ASSUME NEW k \in Listed(list)
      PROVE  addNodesToList(list, peers, net)[k] # NoNode
  <2>1. CASE Accepted(peers[k], net)
    BY <1>1, <2>1, AddNodes, NoNodeAssumption DEF Listed
  <2>2. CASE ~Accepted(peers[k], net)
    BY <1>1, <2>2, AddNodes DEF Listed
  <2> QED
    BY <2>1, <2>2
<1> QED
  BY <1>2, <1>3 DEF Listed

\* The loops take chunks of what they have left.
LEMMA ChunkOfRest ==
  ASSUME NEW rest, NEW size, NEW C \in Chunks(rest, size) PROVE C \subseteq rest
  BY DEF Chunks

\* What the probes of a chunk add to the list of probed nodes.
LEMMA ProbedChunk ==
  ASSUME TypeInv, phase = "info", NEW C \in SUBSET todo, NEW results,
         \A k \in C : results[k] \in getNodeInfo(nodeList[k], k \notin gone)
  PROVE  /\ \A k \in C : nodeList[k] \in Node
         /\ \A k \in C : results[k] # NoNode =>
              /\ results[k] \in Node /\ results[k].age = nodeList[k].age
              /\ Datable(nodeList[k]) => Datable(results[k])
         /\ [k \in Keys |-> IF k \in C THEN results[k] ELSE nodeInfoList[k]] \in Lists
<1>1. \A k \in C : k \in Keys /\ nodeList[k] \in Node
  BY DEF TypeInv, TypeOK, TodoOK, Listed, Lists
<1>2. \A k \in C : results[k] # NoNode =>
              /\ results[k] \in Node /\ results[k].age = nodeList[k].age
              /\ Datable(nodeList[k]) => Datable(results[k])
  BY <1>1, Probes
<1> QED
  BY <1>1, <1>2 DEF TypeInv, TypeOK, Lists

\* Every step keeps the variables in their types and the loops inside what they loop over.
LEMMA StepType == ASSUME TypeInv, [Next]_vars PROVE TypeInv'
<1> USE DEF TypeInv
<1>1. CASE NetworkFound
  BY <1>1, NetworkAssumption
  DEF NetworkFound, TypeOK, TodoOK, Phases, Calls, database, lists, history, world
<1>2. CASE NetworkNotFound
  BY <1>2 DEF NetworkNotFound, TypeOK, TodoOK, Phases, Calls, database, lists, history, world
<1>3. CASE ReadNodeList
  <2>1. addNodesToList(nodeList, nodes, network) \in Lists
    BY AddNodesType DEF TypeOK
  <2> QED
    BY <1>3, <2>1 DEF ReadNodeList, TypeOK, TodoOK, Phases, Calls, database, world
<1>4. CASE FetchConfigPeers
  <2>1. nodeList' \in Lists /\ todo' \subseteq todo
    BY <1>4, MergeAnnouncements DEF FetchConfigPeers, TypeOK
  <2> QED
    BY <1>4, <2>1 DEF FetchConfigPeers, TypeOK, TodoOK, database, history, world
<1>5. CASE BeginCrawl
  BY <1>5 DEF BeginCrawl, TypeOK, TodoOK, Phases, Calls, Listed, database, lists, history, world
<1>6. CASE CrawlChunk
  <2>1. PICK C \in Chunks(todo, PeersChunk) :
          /\ \E S \in SUBSET (IF C \subseteq gone THEN {} ELSE Keys \ gone) :
                \E peers \in Announcements(S) :
                    nodeList' = addNodesToList(nodeList, peers, network)
          /\ todo' = todo \ C /\ asked' = asked \cup C
    BY <1>6 DEF CrawlChunk
  <2>2. nodeList' \in Lists
    BY <2>1, MergeAnnouncements DEF TypeOK
  <2>3. C \subseteq Keys
    BY <1>6, ChunkOfRest DEF CrawlChunk, TodoOK
  <2> QED
    BY <1>6, <2>1, <2>2, <2>3 DEF CrawlChunk, TypeOK, TodoOK, database, world
<1>7. CASE BeginInfo
  BY <1>7 DEF BeginInfo, TypeOK, TodoOK, Phases, Calls, Listed, database, lists, world
<1>8. CASE InfoChunkDone
  <2>1. PICK C \in Chunks(todo, InfoChunk) : \E results :
          /\ \A k \in C : results[k] \in getNodeInfo(nodeList[k], k \notin gone)
          /\ nodeInfoList' =
                 [k \in Keys |-> IF k \in C THEN results[k] ELSE nodeInfoList[k]]
          /\ dropped' = dropped \cup {k \in C : results[k] = NoNode}
          /\ todo' = todo \ C
    BY <1>8 DEF InfoChunkDone
  <2>2. phase = "info" /\ C \in SUBSET todo
    BY <1>8, ChunkOfRest DEF InfoChunkDone
  <2>3. nodeInfoList' \in Lists
    BY <2>1, <2>2, ProbedChunk
  <2>4. C \subseteq Keys
    BY <2>2 DEF TodoOK, Listed
  <2> QED
    BY <1>8, <2>1, <2>2, <2>3, <2>4 DEF InfoChunkDone, TypeOK, TodoOK, Listed, database, world
<1>9. CASE CountNodes
  <2>1. nodesStats' \in [Roles -> Nat]
    BY <1>9, AddToStatsType DEF CountNodes, TypeOK
  <2> QED
    BY <1>9, <2>1 DEF CountNodes, TypeOK, TodoOK, Phases, Calls, database, history, world
<1>10. CASE BeginUpdate
  BY <1>10 DEF BeginUpdate, TypeOK, TodoOK, Phases, Calls, database, lists, history, world
<1>11. CASE ReadPrevNodeList
  <2>1. removeStaleNodesAndUpdateLastAvailable(nodeInfoList) \in Lists
    BY RemoveStaleType DEF TypeOK
  <2> QED
    BY <1>11, <2>1
    DEF ReadPrevNodeList, TypeOK, TodoOK, Phases, Calls, Stages, database, lists, history, world
<1>12. CASE StoreFind
  BY <1>12 DEF StoreFind, TypeOK, TodoOK, Stages, Calls, database, lists, history, world
<1>13. CASE StoreDelete
  BY <1>13, EmptyListType
  DEF StoreDelete, TypeOK, TodoOK, Stages, Calls, lists, history, world
<1>14. CASE StoreInsert
  <2>1. Inserted(nodes, Documents) \in Lists
    BY InsertedType DEF Documents, TypeOK
  <2> QED
    BY <1>14, <2>1 DEF StoreInsert, TypeOK, TodoOK, Stages, Calls, lists, history, world
<1>15. CASE StoreVerify
  BY <1>15
  DEF StoreVerify, TypeOK, TodoOK, Phases, Stages, Calls, database, lists, history, world
<1>16. CASE CacheCollection
  BY <1>16 DEF CacheCollection, TypeOK, TodoOK, Phases, Calls, database, lists, history, world
<1>17. CASE Timer
  BY <1>17, BeginRoundType DEF Timer, TypeOK, database, world
<1>18. CASE ReadFails
  BY <1>18, BeginRoundType, FaultType DEF ReadFails, TypeOK, database
<1>19. CASE StoreFails
  <2>1. nodes' \in Lists /\ stats' \in SUBSET [Roles -> Nat]
    BY <1>19, LeftoverType, LeftoverStatsType DEF StoreFails, TypeOK
  <2> QED
    BY <1>19, <2>1, FaultType
    DEF StoreFails, TypeOK, TodoOK, Phases, Stages, Calls, lists, history
<1>20. CASE RestoreFails
  BY <1>20, BeginRoundType, FaultType, LeftoverType DEF RestoreFails, TypeOK
<1>21. CASE Crash
  BY <1>21, BeginRoundType, FaultType DEF Crash, TypeOK, database
<1>22. CASE Tick
  <2>1. Listed(nodeList) = Listed(nodeList)'
    BY <1>22, AgedType DEF Tick, TypeOK, Listed
  <2> QED
    BY <1>22, <2>1, AgedType DEF Tick, TypeOK, TodoOK, Calls, world
<1>23. CASE Leave
  BY <1>23, MortalAssumption DEF Leave, TypeOK, TodoOK, Calls, database, lists, history
<1>24. CASE UNCHANGED vars
  BY <1>24 DEF vars, TypeOK, TodoOK, Calls, Listed
<1>25. CASE WebSocketHangs
  BY <1>25 DEF WebSocketHangs, TypeOK, TodoOK, Phases, Calls, database, lists, history, world
<1> QED
  BY <1>1, <1>2, <1>3, <1>4, <1>5, <1>6, <1>7, <1>8, <1>9, <1>10, <1>11, <1>12, <1>13,
     <1>14, <1>15, <1>16, <1>17, <1>18, <1>19, <1>20, <1>21, <1>22, <1>23, <1>24, <1>25
  DEF Next, Step

\* The task's variables always have their types.
THEOREM TypeCorrect == Spec => []TypeOK
<1>1. TypeInv /\ [Next]_vars => TypeInv'
  BY StepType
<1>2. TypeInv => TypeOK
  BY DEF TypeInv
<1> QED
  BY InitType, <1>1, <1>2, PTL DEF Spec

-----------------------------------------------------------------------------
\* Time passes for every list alike: no date appears or disappears.
LEMMA AgedDates ==
  ASSUME NEW list \in Lists
  PROVE  /\ Listed(Aged(list)) = Listed(list)
         /\ Dated(list) => Dated(Aged(list))
         /\ AllDatable(list) => AllDatable(Aged(list))
<1>1. Listed(Aged(list)) = Listed(list)
  BY AgedType DEF Listed
<1>2. \A k \in Listed(list) : /\ Aged(list)[k].age = Never <=> list[k].age = Never
                              /\ Aged(list)[k].roles = list[k].roles
  <2>1. \A k \in Listed(list) : list[k] \in Node /\ list[k].age \in Ages
    BY DEF Listed, Lists, Node
  <2> QED
    BY <2>1, AgedType, AgesFacts DEF Listed
<1> QED
  BY <1>1, <1>2 DEF Dated, AllDatable, Datable

\* An empty list has no node without a date.
LEMMA EmptyDates == Dated(EmptyList) /\ AllDatable(EmptyList)
  BY EmptyListType DEF Dated, AllDatable

\* Merging stored nodes or announcements keeps the nodes of the list datable.
LEMMA MergeDatable ==
  ASSUME NEW list \in Lists, AllDatable(list), NEW batch \in Lists, NEW net,
         \A k \in Listed(batch) : Mergeable(batch[k])
  PROVE  AllDatable(addNodesToList(list, batch, net))
  BY AddNodes DEF AllDatable, Listed

\* A part of a list whose nodes have dates has dates.
LEMMA OnlyDated ==
  ASSUME NEW list \in Lists, Dated(list), NEW S PROVE Dated(Only(list, S))
  BY DEF Dated, Listed, Only

\* Inserting dated documents into a dated collection leaves it dated.
LEMMA InsertedDated ==
  ASSUME NEW coll \in Lists, NEW docs \in Lists, Dated(coll), Dated(docs)
  PROVE  Dated(Inserted(coll, docs))
  BY DEF Dated, Listed, Inserted

\* The documents that an update or a restore stores have dates.
LEMMA DocumentsDated ==
  ASSUME TypeInv, DatesInv, phase \in Calls
  PROVE  Documents \in Lists /\ Dated(Documents)
  BY DEF TypeInv, TypeOK, DatesInv, Documents

\* Whatever a failed call leaves in the collection has dates.
LEMMA LeftoverDated ==
  ASSUME TypeInv, DatesInv, Leftover, phase \in Calls
  PROVE  Dated(nodes')
<1>1. PICK S \in SUBSET Keys :
        CASE stage = "delete" -> nodes' = Only(nodes, S)
          [] stage = "insert" -> nodes' = Inserted(nodes, Only(Documents, S))
          [] OTHER -> nodes' = nodes
  BY DEF Leftover
<1>2. Dated(nodes) /\ nodes \in Lists
  BY DEF TypeInv, TypeOK, DatesInv
<1>3. Only(Documents, S) \in Lists /\ Dated(Only(Documents, S))
  BY DocumentsDated, OnlyType, OnlyDated
<1> QED
  BY <1>1, <1>2, <1>3, OnlyDated, InsertedDated

\* clear() leaves nothing without a date.
LEMMA BeginRoundDates ==
  ASSUME DatesInv, BeginRound, Dated(nodes')
  PROVE  DatesInv'
  BY EmptyDates DEF BeginRound, DatesInv, Calls, Dated, AllDatable, Listed

\* Every step keeps undated nodes out of the collection and its copies.
LEMMA StepDates == ASSUME TypeInv, DatesInv, [Next]_vars PROVE DatesInv'
<1> USE DEF DatesInv
<1>1. CASE NetworkFound \/ NetworkNotFound \/ BeginCrawl \/ BeginInfo \/ WebSocketHangs
           \/ CountNodes \/ BeginUpdate \/ CacheCollection
  BY <1>1
  DEF NetworkFound, NetworkNotFound, BeginCrawl, BeginInfo, WebSocketHangs, CountNodes,
      BeginUpdate, CacheCollection, Calls, Dated, AllDatable, Listed, database, lists
<1>2. CASE ReadNodeList
  <2>1. \A k \in Listed(nodes) : Mergeable(nodes[k])
    BY DEF Dated, Mergeable
  <2>2. AllDatable(addNodesToList(nodeList, nodes, network))
    BY <2>1, MergeDatable DEF TypeInv, TypeOK
  <2> QED
    BY <1>2, <2>2 DEF ReadNodeList, Calls, Dated, AllDatable, Listed, database
<1>3. CASE FetchConfigPeers
  <2>1. PICK S \in SUBSET Keys : \E peers \in Announcements(S) :
          nodeList' = addNodesToList(nodeList, peers, network)
    BY <1>3 DEF FetchConfigPeers
  <2>2. AllDatable(nodeList')
    BY <2>1, AnnouncementsType, MergeDatable DEF TypeInv, TypeOK
  <2> QED
    BY <1>3, <2>2 DEF FetchConfigPeers, Calls, Dated, AllDatable, Listed, database
<1>4. CASE CrawlChunk
  <2>1. PICK S \in SUBSET Keys : \E peers \in Announcements(S) :
          nodeList' = addNodesToList(nodeList, peers, network)
    BY <1>4 DEF CrawlChunk
  <2>2. AllDatable(nodeList')
    BY <2>1, AnnouncementsType, MergeDatable DEF TypeInv, TypeOK
  <2> QED
    BY <1>4, <2>2 DEF CrawlChunk, Calls, Dated, AllDatable, Listed, database
<1>5. CASE InfoChunkDone
  <2>1. PICK C \in Chunks(todo, InfoChunk) : \E results :
          /\ \A k \in C : results[k] \in getNodeInfo(nodeList[k], k \notin gone)
          /\ nodeInfoList' =
                 [k \in Keys |-> IF k \in C THEN results[k] ELSE nodeInfoList[k]]
    BY <1>5 DEF InfoChunkDone
  <2>2. phase = "info" /\ C \in SUBSET todo
    BY <1>5, ChunkOfRest DEF InfoChunkDone
  <2>3. \A k \in C : Datable(nodeList[k])
    BY <2>2 DEF TypeInv, TodoOK, AllDatable
  <2>4. PICK results :
          /\ \A k \in C : results[k] \in getNodeInfo(nodeList[k], k \notin gone)
          /\ nodeInfoList' =
                 [k \in Keys |-> IF k \in C THEN results[k] ELSE nodeInfoList[k]]
    BY <2>1
  <2>5. \A k \in C : results[k] # NoNode => Datable(results[k])
    BY <2>2, <2>3, <2>4, ProbedChunk
  <2>6. AllDatable(nodeInfoList')
    BY <2>4, <2>5 DEF AllDatable, Listed
  <2> QED
    BY <1>5, <2>6 DEF InfoChunkDone, Calls, Dated, AllDatable, Listed, database
<1>6. CASE ReadPrevNodeList
  <2>1. Dated(removeStaleNodesAndUpdateLastAvailable(nodeInfoList))
    BY RemoveStale DEF TypeInv, TypeOK, AllDatable, Dated, Listed
  <2>2. Dated(nodeInfoList')
    BY <1>6, <2>1 DEF ReadPrevNodeList
  <2>3. AllDatable(nodeInfoList')
    BY <2>2 DEF Dated, AllDatable, Datable
  <2> QED
    BY <1>6, <2>2, <2>3 DEF ReadPrevNodeList, Dated, AllDatable, Listed, database
<1>7. CASE StoreFind \/ StoreVerify
  BY <1>7
  DEF StoreFind, StoreVerify, Calls, TypeInv, TypeOK, Dated, AllDatable, Listed, database, lists
<1>8. CASE StoreDelete
  BY <1>8, EmptyDates
  DEF StoreDelete, Calls, TypeInv, TypeOK, Dated, AllDatable, Listed, lists
<1>9. CASE StoreInsert
  <2>1. phase \in Calls
    BY <1>9 DEF StoreInsert, TypeInv, TypeOK
  <2>2. Dated(Inserted(nodes, Documents))
    BY <2>1, DocumentsDated, InsertedDated DEF TypeInv, TypeOK
  <2>3. Dated(nodes')
    BY <1>9, <2>2 DEF StoreInsert
  <2> QED
    BY <1>9, <2>3 DEF StoreInsert, Dated, AllDatable, Listed, lists
<1>10. CASE Timer \/ ReadFails \/ Crash
  <2>1. Dated(nodes')
    BY <1>10 DEF Timer, ReadFails, Crash, Dated, Listed, database
  <2> QED
    BY <1>10, <2>1, BeginRoundDates DEF Timer, ReadFails, Crash
<1>11. CASE StoreFails
  <2>1. Dated(nodes')
    BY <1>11, LeftoverDated DEF StoreFails, Calls, Dated, Listed
  <2> QED
    BY <1>11, <2>1 DEF StoreFails, Calls, Dated, AllDatable, Listed, lists
<1>12. CASE RestoreFails
  <2>1. Dated(nodes')
    BY <1>12, LeftoverDated DEF RestoreFails, Calls
  <2> QED
    BY <1>12, <2>1, BeginRoundDates DEF RestoreFails
<1>13. CASE Tick
  <2>1. /\ Dated(nodes') /\ Dated(prevNodes')
        /\ AllDatable(nodeList') /\ AllDatable(nodeInfoList')
        /\ Dated(nodeInfoList) => Dated(nodeInfoList')
    BY <1>13, AgedDates DEF Tick, TypeInv, TypeOK
  <2>2. Dated(nodes)' /\ Dated(prevNodes)' /\ AllDatable(nodeList)' /\ AllDatable(nodeInfoList)'
        /\ (Dated(nodeInfoList) => Dated(nodeInfoList)')
    BY <2>1 DEF Dated, AllDatable, Listed
  <2> QED
    BY <1>13, <2>2 DEF Tick
<1>14. CASE Leave \/ UNCHANGED vars
  BY <1>14 DEF Leave, vars, Dated, AllDatable, Listed, database, lists
<1> QED
  BY <1>1, <1>2, <1>3, <1>4, <1>5, <1>6, <1>7, <1>8, <1>9, <1>10, <1>11, <1>12, <1>13, <1>14
  DEF Next, Step

-----------------------------------------------------------------------------
\* An insert into an empty collection, or of all its documents, is the documents.
LEMMA InsertedIntoEmpty ==
  ASSUME NEW docs \in Lists PROVE Inserted(EmptyList, docs) = docs
  BY DEF Inserted, EmptyList, Lists

\* Every step keeps the collection empty between delete and insert, and equal to the
\* documents after the insert.
LEMMA StepStore == ASSUME TypeInv, StoreInv, [Next]_vars PROVE StoreInv'
<1> USE DEF StoreInv, LengthCheckPasses
<1>1. CASE NetworkFound \/ NetworkNotFound \/ ReadNodeList \/ FetchConfigPeers \/ BeginCrawl
           \/ CrawlChunk \/ BeginInfo \/ InfoChunkDone \/ WebSocketHangs \/ CountNodes
           \/ BeginUpdate \/ CacheCollection
  <2>1. stage' = stage /\ stage = "idle"
    BY <1>1
    DEF NetworkFound, NetworkNotFound, ReadNodeList, FetchConfigPeers, BeginCrawl, CrawlChunk,
        BeginInfo, InfoChunkDone, WebSocketHangs, CountNodes, BeginUpdate, CacheCollection,
        TypeInv, TypeOK, Calls
  <2> QED
    BY <2>1
<1>2. CASE ReadPrevNodeList \/ StoreVerify \/ StoreFails
  <2>1. stage' \in {"find", "idle"}
    BY <1>2 DEF ReadPrevNodeList, StoreVerify, StoreFails
  <2> QED
    BY <2>1
<1>3. CASE StoreFind
  BY <1>3 DEF StoreFind
<1>4. CASE StoreDelete
  BY <1>4 DEF StoreDelete
<1>5. CASE StoreInsert
  <2>1. CASE phase = "stats"
    BY <1>5, <2>1 DEF StoreInsert, lists
  <2>2. CASE phase # "stats"
    <3>1. Documents \in Lists
      BY DEF Documents, TypeInv, TypeOK
    <3>2. nodes' = Documents
      BY <1>5, <2>2, <3>1, InsertedIntoEmpty DEF StoreInsert
    <3>3. Documents' = Documents
      BY <1>5 DEF StoreInsert, Documents, lists
    <3> QED
      BY <1>5, <2>2, <3>2, <3>3 DEF StoreInsert
  <2> QED
    BY <2>1, <2>2
<1>6. CASE Timer \/ ReadFails \/ RestoreFails \/ Crash
  <2>1. stage' = "idle"
    BY <1>6 DEF Timer, ReadFails, RestoreFails, Crash, BeginRound
  <2> QED
    BY <2>1
<1>7. CASE Tick
  <2>1. Documents' = Aged(Documents)
    BY <1>7 DEF Tick, Documents
  <2> QED
    BY <1>7, <2>1, AgedEmpty DEF Tick
<1>8. CASE Leave \/ UNCHANGED vars
  BY <1>8 DEF Leave, vars, Documents, database, lists
<1> QED
  BY <1>1, <1>2, <1>3, <1>4, <1>5, <1>6, <1>7, <1>8 DEF Next, Step

\* Every step keeps the collection, or the copy to restore it from, as the round first
\* read it until the round replaces it.
LEMMA StepRound == ASSUME TypeInv, StoreInv, RoundInv, [Next]_vars PROVE RoundInv'
<1> USE DEF RoundInv, UpdateAllOrNothing
<1>1. CASE NetworkFound \/ NetworkNotFound \/ ReadNodeList \/ FetchConfigPeers \/ BeginCrawl
           \/ CrawlChunk \/ BeginInfo \/ InfoChunkDone \/ WebSocketHangs \/ CountNodes
           \/ CacheCollection
  BY <1>1
  DEF NetworkFound, NetworkNotFound, ReadNodeList, FetchConfigPeers, BeginCrawl, CrawlChunk,
      BeginInfo, InfoChunkDone, WebSocketHangs, CountNodes, CacheCollection, Calls, database,
      lists, history
<1>2. CASE BeginUpdate
  BY <1>2 DEF BeginUpdate, Calls, database, lists, history
<1>3. CASE ReadPrevNodeList
  BY <1>3 DEF ReadPrevNodeList, Calls, database, history
<1>4. CASE StoreFind
  BY <1>4 DEF StoreFind, TypeInv, TypeOK, Calls, database, lists, history
<1>5. CASE StoreDelete
  BY <1>5 DEF StoreDelete, TypeInv, TypeOK, Calls, lists, history
<1>6. CASE StoreInsert
  BY <1>6 DEF StoreInsert, TypeInv, TypeOK, Calls, lists, history
<1>7. CASE StoreVerify
  BY <1>7
  DEF StoreVerify, StoreInv, LengthCheckPasses, Documents, TypeInv, TypeOK, Calls,
      database, lists, history
<1>8. CASE Timer \/ ReadFails \/ RestoreFails \/ Crash
  BY <1>8 DEF Timer, ReadFails, RestoreFails, Crash, BeginRound, Calls
<1>9. CASE StoreFails
  BY <1>9 DEF StoreFails, Calls, lists, history
<1>10. CASE Tick
  BY <1>10 DEF Tick
<1>11. CASE Leave \/ UNCHANGED vars
  BY <1>11 DEF Leave, vars, database, lists, history
<1> QED
  BY <1>1, <1>2, <1>3, <1>4, <1>5, <1>6, <1>7, <1>8, <1>9, <1>10, <1>11 DEF Next, Step

-----------------------------------------------------------------------------
\* Nothing can be merged into a list while the network is unknown.
LEMMA NothingAccepted ==
  ASSUME NEW list \in Lists, NEW batch \in Lists
  PROVE  addNodesToList(list, batch, NoNetwork) = list
<1>1. \A k \in Keys : ~Accepted(batch[k], NoNetwork)
  BY NetworkAssumption DEF Accepted, Lists, Node
<1> QED
  BY <1>1 DEF addNodesToList, Lists

\* Every step of a round that does not know the network keeps its lists empty and stores
\* nothing.
LEMMA StepNetwork == ASSUME TypeInv, NetworkInv, [Next]_vars PROVE NetworkInv'
<1> USE DEF NetworkInv
<1>1. CASE NetworkFound
  BY <1>1, NetworkAssumption DEF NetworkFound
<1>2. CASE NetworkNotFound \/ BeginCrawl \/ BeginInfo \/ WebSocketHangs \/ CountNodes
           \/ CacheCollection
  BY <1>2
  DEF NetworkNotFound, BeginCrawl, BeginInfo, WebSocketHangs, CountNodes, CacheCollection,
      Calls, lists
<1>3. CASE ReadNodeList
  BY <1>3, NothingAccepted DEF ReadNodeList, Calls, TypeInv, TypeOK
<1>4. CASE FetchConfigPeers
  <2>1. PICK S \in SUBSET Keys : \E peers \in Announcements(S) :
          nodeList' = addNodesToList(nodeList, peers, network)
    BY <1>4 DEF FetchConfigPeers
  <2>2. network = NoNetwork => nodeList' = nodeList
    BY <2>1, AnnouncementsType, NothingAccepted DEF TypeInv, TypeOK
  <2> QED
    BY <1>4, <2>2 DEF FetchConfigPeers
<1>5. CASE CrawlChunk
  <2>1. PICK S \in SUBSET Keys : \E peers \in Announcements(S) :
          nodeList' = addNodesToList(nodeList, peers, network)
    BY <1>5 DEF CrawlChunk
  <2>2. network = NoNetwork => nodeList' = nodeList
    BY <2>1, AnnouncementsType, NothingAccepted DEF TypeInv, TypeOK
  <2> QED
    BY <1>5, <2>2 DEF CrawlChunk
<1>6. CASE InfoChunkDone
  <2>1. network = NoNetwork => todo = {}
    BY <1>6, EmptyListType DEF InfoChunkDone, TypeInv, TodoOK
  <2>2. network # NoNetwork
    BY <1>6, <2>1, ChunkOfRest DEF InfoChunkDone
  <2> QED
    BY <1>6, <2>2 DEF InfoChunkDone
<1>7. CASE BeginUpdate
  BY <1>7, EmptyListType DEF BeginUpdate, Calls, lists
<1>8. CASE ReadPrevNodeList
  BY <1>8 DEF ReadPrevNodeList
<1>9. CASE StoreFind \/ StoreDelete \/ StoreInsert \/ StoreVerify \/ StoreFails
  <2>1. phase \in Calls /\ network' = network
    BY <1>9 DEF StoreFind, StoreDelete, StoreInsert, StoreVerify, StoreFails, TypeInv, TypeOK, Calls
  <2> QED
    BY <2>1
<1>10. CASE Timer \/ ReadFails \/ RestoreFails \/ Crash
  BY <1>10 DEF Timer, ReadFails, RestoreFails, Crash, BeginRound, Calls
<1>11. CASE Tick
  BY <1>11, AgedEmpty DEF Tick
<1>12. CASE Leave \/ UNCHANGED vars
  BY <1>12 DEF Leave, vars, lists
<1> QED
  BY <1>1, <1>2, <1>3, <1>4, <1>5, <1>6, <1>7, <1>8, <1>9, <1>10, <1>11, <1>12 DEF Next, Step

-----------------------------------------------------------------------------
\* Counting does not depend on the dates.
LEMMA CountsOfAged ==
  ASSUME NEW list \in Lists, NEW counts
  PROVE  addToStats(counts, Aged(list)) = addToStats(counts, list)
<1>1. Listed(Aged(list)) = Listed(list)
  BY AgedType DEF Listed
<1>2. \A r : {k \in Listed(Aged(list)) : Aged(list)[k].roles = r}
             = {k \in Listed(list) : list[k].roles = r}
  BY <1>1, AgedType DEF Listed
<1> QED
  BY <1>2 DEF addToStats

\* Every step keeps the counts those of the probed nodes, and zero before the probes.
LEMMA StepCount == ASSUME TypeInv, CountInv, [Next]_vars PROVE CountInv'
<1> USE DEF CountInv, EachNodeCountedOnce
<1>1. CASE NetworkFound \/ NetworkNotFound \/ ReadNodeList \/ FetchConfigPeers \/ BeginCrawl
           \/ CrawlChunk \/ BeginInfo \/ InfoChunkDone \/ WebSocketHangs
  BY <1>1
  DEF NetworkFound, NetworkNotFound, ReadNodeList, FetchConfigPeers, BeginCrawl, CrawlChunk,
      BeginInfo, InfoChunkDone, WebSocketHangs, lists
<1>2. CASE CountNodes
  BY <1>2 DEF CountNodes
<1>3. CASE BeginUpdate \/ ReadPrevNodeList \/ CacheCollection
  BY <1>3 DEF BeginUpdate, ReadPrevNodeList, CacheCollection
<1>4. CASE StoreFind \/ StoreDelete \/ StoreInsert \/ StoreVerify \/ StoreFails
  <2>1. phase' \in Calls \cup {"cache"}
    BY <1>4 DEF StoreFind, StoreDelete, StoreInsert, StoreVerify, StoreFails, TypeInv, TypeOK, Calls
  <2> QED
    BY <2>1 DEF Calls
<1>5. CASE Timer \/ ReadFails \/ RestoreFails \/ Crash
  BY <1>5 DEF Timer, ReadFails, RestoreFails, Crash, BeginRound
<1>6. CASE Tick
  BY <1>6, AgedEmpty, CountsOfAged DEF Tick, TypeInv, TypeOK
<1>7. CASE Leave \/ UNCHANGED vars
  BY <1>7 DEF Leave, vars, lists
<1> QED
  BY <1>1, <1>2, <1>3, <1>4, <1>5, <1>6, <1>7 DEF Next, Step

-----------------------------------------------------------------------------
\* Announcements never change the date of a node that has one.
LEMMA MergeCarries ==
  ASSUME NEW list \in Lists, NEW S \in SUBSET Keys, NEW peers \in Announcements(S), NEW net,
         NEW k \in Keys, list[k] # NoNode, list[k].age # Never
  PROVE  LET merged == addNodesToList(list, peers, net) IN
         merged[k] # NoNode /\ merged[k].age = list[k].age
<1>1. peers \in Lists /\ \A j \in Listed(peers) : Mergeable(peers[j])
  BY AnnouncementsType
<1>2. CASE Accepted(peers[k], net)
  BY <1>1, <1>2, AddNodes, NoNodeAssumption DEF MergedAge
<1>3. CASE ~Accepted(peers[k], net)
  BY <1>1, <1>3, AddNodes
<1> QED
  BY <1>2, <1>3

\* The part of CarriedInv that is about one node.
Carried(k) ==
    nodes[k].net = network =>
        /\ nodeList[k] # NoNode /\ nodeList[k].age = nodes[k].age
        /\ nodeInfoList[k] # NoNode => nodeInfoList[k].age = nodes[k].age
        /\ phase = "info" => k \in todo \/ k \in dropped \/ nodeInfoList[k] # NoNode
        /\ phase \in {"update", "prev"} => k \in dropped \/ nodeInfoList[k] # NoNode

Carrying == {"confpeers", "crawl", "info", "update", "prev"}

\* Every step carries the stored nodes of the network, with their dates, through the lists
\* of the round.
LEMMA StepCarried ==
  ASSUME TypeInv, DatesInv, CountInv, CarriedInv, [Next]_vars
  PROVE  CarriedInv'
<1>1. SUFFICES ASSUME phase' \in Carrying, NEW k \in Keys, nodes'[k] # NoNode,
                      nodes'[k].net = network'
               PROVE  Carried(k)'
  BY DEF CarriedInv, Carried, Carrying, Listed
<1>2. phase \in Carrying /\ nodes[k] # NoNode /\ nodes[k].net = network => Carried(k)
  BY DEF CarriedInv, Carried, Carrying, Listed
<1>3. nodes[k] # NoNode => nodes[k] \in Node /\ nodes[k].age # Never
  BY DEF TypeInv, TypeOK, Lists, DatesInv, Dated, Listed
<1>4. CASE NetworkFound \/ NetworkNotFound \/ CacheCollection \/ Timer \/ ReadFails
           \/ RestoreFails \/ Crash
  BY <1>1, <1>4
  DEF NetworkFound, NetworkNotFound, CacheCollection, Timer, ReadFails, RestoreFails, Crash,
      BeginRound, Carrying
<1>5. CASE ReadNodeList
  <2>1. nodeList = EmptyList /\ nodeInfoList = EmptyList
    BY <1>5 DEF ReadNodeList, CountInv
  <2>2. UNCHANGED <<nodes, network, nodeInfoList>> /\ phase' = "confpeers"
        /\ nodeList' = addNodesToList(EmptyList, nodes, network)
    BY <1>5, <2>1 DEF ReadNodeList, database
  <2>3. Accepted(nodes[k], network)
    BY <1>1, <2>2 DEF Accepted
  <2>4. \A j \in Listed(nodes) : Mergeable(nodes[j])
    BY DEF DatesInv, Dated, Mergeable
  <2>5. nodeList'[k] \in Node /\ nodeList'[k].age = MergedAge(EmptyList[k], nodes[k])
    BY <2>2, <2>3, <2>4, AddNodes, EmptyListType DEF TypeInv, TypeOK
  <2>6. MergedAge(EmptyList[k], nodes[k]) = nodes[k].age
    BY <1>1, <1>3, <2>2 DEF MergedAge, EmptyList
  <2>7. nodeList'[k] # NoNode /\ nodeInfoList'[k] = NoNode
    BY <2>1, <2>2, <2>5, NoNodeAssumption DEF EmptyList
  <2> QED
    BY <2>2, <2>5, <2>6, <2>7 DEF Carried
<1>6. CASE FetchConfigPeers
  <2>1. PICK S \in SUBSET Keys : \E peers \in Announcements(S) :
          nodeList' = addNodesToList(nodeList, peers, network)
    BY <1>6 DEF FetchConfigPeers
  <2>2. UNCHANGED <<nodes, network, nodeInfoList, phase, dropped>> /\ phase = "confpeers"
    BY <1>6 DEF FetchConfigPeers, database, history
  <2>3. Carried(k)
    BY <1>1, <1>2, <2>2 DEF Carrying
  <2>4. nodeList'[k] # NoNode /\ nodeList'[k].age = nodeList[k].age
    BY <1>1, <1>3, <2>1, <2>2, <2>3, MergeCarries DEF Carried, TypeInv, TypeOK
  <2> QED
    BY <1>1, <2>2, <2>3, <2>4 DEF Carried
<1>7. CASE CrawlChunk
  <2>1. PICK S \in SUBSET Keys : \E peers \in Announcements(S) :
          nodeList' = addNodesToList(nodeList, peers, network)
    BY <1>7 DEF CrawlChunk
  <2>2. UNCHANGED <<nodes, network, nodeInfoList, phase, dropped>> /\ phase = "crawl"
    BY <1>7 DEF CrawlChunk, database
  <2>3. Carried(k)
    BY <1>1, <1>2, <2>2 DEF Carrying
  <2>4. nodeList'[k] # NoNode /\ nodeList'[k].age = nodeList[k].age
    BY <1>1, <1>3, <2>1, <2>2, <2>3, MergeCarries DEF Carried, TypeInv, TypeOK
  <2> QED
    BY <1>1, <2>2, <2>3, <2>4 DEF Carried
<1>8. CASE BeginCrawl \/ BeginInfo \/ CountNodes \/ BeginUpdate
  <2>1. UNCHANGED <<nodes, network, nodeList, nodeInfoList, dropped>> /\ phase \in Carrying
    BY <1>8
    DEF BeginCrawl, BeginInfo, CountNodes, BeginUpdate, database, lists, history, Carrying
  <2>2. Carried(k)
    BY <1>1, <1>2, <2>1
  <2> QED
    BY <1>8, <2>1, <2>2 DEF BeginCrawl, BeginInfo, CountNodes, BeginUpdate, Carried, Listed
<1>9. CASE InfoChunkDone
  <2>1. PICK C \in Chunks(todo, InfoChunk) : \E results :
          /\ \A j \in C : results[j] \in getNodeInfo(nodeList[j], j \notin gone)
          /\ nodeInfoList' =
                 [j \in Keys |-> IF j \in C THEN results[j] ELSE nodeInfoList[j]]
          /\ dropped' = dropped \cup {j \in C : results[j] = NoNode}
          /\ todo' = todo \ C
    BY <1>9 DEF InfoChunkDone
  <2>2. PICK results :
          /\ \A j \in C : results[j] \in getNodeInfo(nodeList[j], j \notin gone)
          /\ nodeInfoList' =
                 [j \in Keys |-> IF j \in C THEN results[j] ELSE nodeInfoList[j]]
          /\ dropped' = dropped \cup {j \in C : results[j] = NoNode}
    BY <2>1
  <2>3. UNCHANGED <<nodes, network, nodeList, phase>> /\ phase = "info" /\ C \in SUBSET todo
    BY <1>9, ChunkOfRest DEF InfoChunkDone, database
  <2>4. Carried(k)
    BY <1>1, <1>2, <2>3 DEF Carrying
  <2>5. CASE k \in C
    <3>1. results[k] # NoNode => results[k].age = nodeList[k].age
      BY <2>2, <2>3, <2>5, ProbedChunk
    <3> QED
      BY <1>1, <2>2, <2>3, <2>4, <2>5, <3>1 DEF Carried
  <2>6. CASE k \notin C
    BY <1>1, <2>1, <2>2, <2>3, <2>4, <2>6 DEF Carried
  <2> QED
    BY <2>5, <2>6
<1>10. CASE ReadPrevNodeList
  BY <1>1, <1>10 DEF ReadPrevNodeList, Carrying
<1>11. CASE StoreFind \/ StoreDelete \/ StoreInsert \/ StoreVerify \/ StoreFails
  <2>1. phase' \in Calls \cup {"cache"}
    BY <1>11 DEF StoreFind, StoreDelete, StoreInsert, StoreVerify, StoreFails, TypeInv, TypeOK, Calls
  <2> QED
    BY <1>1, <2>1 DEF Calls, Carrying
<1>12. CASE Tick
  <2>1. /\ nodes' = Aged(nodes) /\ nodeList' = Aged(nodeList)
        /\ nodeInfoList' = Aged(nodeInfoList)
        /\ UNCHANGED <<network, phase, todo, dropped>>
    BY <1>12 DEF Tick
  <2>2. nodes \in Lists /\ nodeList \in Lists /\ nodeInfoList \in Lists
    BY DEF TypeInv, TypeOK
  <2>3. nodes[k] # NoNode /\ nodes[k].net = network
    BY <1>1, <2>1, <2>2, AgedType
  <2>4. Carried(k)
    BY <1>1, <1>2, <2>1, <2>3
  <2> QED
    BY <1>1, <2>1, <2>2, <2>3, <2>4, AgedType DEF Carried
<1>13. CASE Leave \/ UNCHANGED vars
  BY <1>1, <1>2, <1>13 DEF Leave, vars, Carried, database, lists, history
<1>14. CASE WebSocketHangs
  BY <1>1, <1>14 DEF WebSocketHangs, Carrying
<1> QED
  BY <1>4, <1>5, <1>6, <1>7, <1>8, <1>9, <1>10, <1>11, <1>12, <1>13, <1>14 DEF Next, Step

-----------------------------------------------------------------------------
\* The initial states satisfy the inductive invariant.
LEMMA InitInv == Init => Inv
<1>1. Init => TypeInv
  BY InitType
<1>2. Init => DatesInv
  BY EmptyDates DEF Init, DatesInv, Calls
<1>3. Init => StoreInv /\ RoundInv /\ NetworkInv /\ CountInv /\ CarriedInv
  BY DEF Init, StoreInv, LengthCheckPasses, RoundInv, UpdateAllOrNothing, NetworkInv,
         CountInv, EachNodeCountedOnce, CarriedInv, Calls
<1> QED
  BY <1>1, <1>2, <1>3 DEF Inv

\* The invariant is inductive.
THEOREM Invariance == Spec => []Inv
<1>1. Inv /\ [Next]_vars => Inv'
  BY StepType, StepDates, StepStore, StepRound, StepNetwork, StepCount, StepCarried DEF Inv
<1> QED
  BY InitInv, <1>1, PTL DEF Spec

\* Whatever happens to the rounds, no node is stored without lastAvailable.
THEOREM DatedAlways == Spec => []StoredNodesAreDated
<1>1. Inv => StoredNodesAreDated
  BY DEF Inv, DatesInv, Dated, StoredNodesAreDated
<1> QED
  BY <1>1, Invariance, PTL

\* The length check of DataBase.updateCollection never fails for this task.
THEOREM LengthsAlwaysAgree == Spec => []LengthCheckPasses
<1>1. Inv => LengthCheckPasses
  BY DEF Inv, StoreInv
<1> QED
  BY <1>1, Invariance, PTL

\* A round that is not cut short replaces the collection or leaves it alone.
THEOREM AllOrNothing == Spec => []UpdateAllOrNothing
<1>1. Inv => UpdateAllOrNothing
  BY DEF Inv, RoundInv
<1> QED
  BY <1>1, Invariance, PTL

\* The counts of a round are those of the nodes it probed.
THEOREM CountedOnce == Spec => []EachNodeCountedOnce
<1>1. Inv => EachNodeCountedOnce
  BY DEF Inv, CountInv
<1> QED
  BY <1>1, Invariance, PTL

\* Of the steps from prev to nodes there is only one, in every state.
LEMMA OnlyReadPrev ==
  ASSUME Inv, [Next]_vars, phase = "prev", phase' = "nodes" PROVE ReadPrevNodeList
  BY DEF Next, Step, vars, NetworkFound, NetworkNotFound, ReadNodeList, FetchConfigPeers,
         BeginCrawl, CrawlChunk, BeginInfo, InfoChunkDone, WebSocketHangs, CountNodes,
         BeginUpdate, StoreFind, StoreDelete, StoreInsert, StoreVerify, CacheCollection, Timer, ReadFails, StoreFails,
         RestoreFails, Crash, BeginRound, Tick, Leave, Inv, TypeInv, TypeOK, Calls

\* Fresh nodes survive every update.
THEOREM FreshStay == Spec => FreshNodesStay
<1> DEFINE A == phase = "prev" /\ phase' = "nodes" =>
                   \A k \in Listed(nodes) \ dropped :
                       nodes[k].net = network /\ nodes[k].age <= Keep
                           => nodeInfoList'[k] # NoNode
<1>1. Inv /\ [Next]_vars => [A]_vars
  <2>1. SUFFICES ASSUME Inv, [Next]_vars, phase = "prev", phase' = "nodes",
                        NEW k \in Listed(nodes) \ dropped,
                        nodes[k].net = network, nodes[k].age <= Keep
                 PROVE  nodeInfoList'[k] # NoNode
    OBVIOUS
  <2>2. ReadPrevNodeList
    BY <2>1, OnlyReadPrev
  <2>3. k \in Keys /\ nodeInfoList[k] # NoNode /\ nodeInfoList[k].age = nodes[k].age
    BY <2>1 DEF Inv, CarriedInv, Listed
  <2>4. nodeInfoList' = removeStaleNodesAndUpdateLastAvailable(nodeInfoList)
    BY <2>2 DEF ReadPrevNodeList
  <2> QED
    BY <2>1, <2>3, <2>4, RemoveStale DEF Inv, TypeInv, TypeOK, DatesInv, AllDatable
<1> QED
  BY <1>1, Invariance, PTL DEF Spec, FreshNodesStay

\* No announcement, probe or merge renews the date of an unavailable node.
THEOREM DatesKept == Spec => UnavailableNodesKeepTheirDate
<1> DEFINE A == phase = "prev" /\ phase' = "nodes" =>
                   \A k \in Listed(nodes) :
                       /\ nodes[k].net = network
                       /\ nodeInfoList'[k] # NoNode /\ ~checkNodeAvailable(nodeInfoList'[k])
                       => nodeInfoList'[k].age = nodes[k].age
<1>1. Inv /\ [Next]_vars => [A]_vars
  <2>1. SUFFICES ASSUME Inv, [Next]_vars, phase = "prev", phase' = "nodes",
                        NEW k \in Listed(nodes), nodes[k].net = network,
                        nodeInfoList'[k] # NoNode, ~checkNodeAvailable(nodeInfoList'[k])
                 PROVE  nodeInfoList'[k].age = nodes[k].age
    OBVIOUS
  <2>2. nodeInfoList' = removeStaleNodesAndUpdateLastAvailable(nodeInfoList)
    BY <2>1, OnlyReadPrev DEF ReadPrevNodeList
  <2>3. k \in Keys /\ nodeInfoList[k] # NoNode /\ nodeInfoList'[k].age = nodeInfoList[k].age
    BY <2>1, <2>2, RemoveStale DEF Inv, TypeInv, TypeOK, DatesInv, AllDatable, Listed
  <2>4. nodeInfoList[k].age = nodes[k].age
    BY <2>1, <2>3 DEF Inv, CarriedInv
  <2> QED
    BY <2>3, <2>4
<1> QED
  BY <1>1, Invariance, PTL DEF Spec, UnavailableNodesKeepTheirDate

\* A round that never learnt the network does not touch the collection.
THEOREM OutageSafe == Spec => OutageKeepsTheCollection
<1> DEFINE A == nodes' # nodes /\ nodes' # Aged(nodes) => network # NoNetwork
<1>1. Inv /\ [Next]_vars => [A]_vars
  <2>1. SUFFICES ASSUME Inv, [Next]_vars, network = NoNetwork
                 PROVE  nodes' = nodes \/ nodes' = Aged(nodes)
    OBVIOUS
  <2>2. phase \notin Calls /\ stage = "idle"
    BY <2>1 DEF Inv, NetworkInv, TypeInv, TypeOK, Stages
  <2>3. CASE Tick
    BY <2>3 DEF Tick
  <2>4. CASE ~Tick
    BY <2>1, <2>2, <2>4
    DEF Next, Step, vars, NetworkFound, NetworkNotFound, ReadNodeList, FetchConfigPeers,
        BeginCrawl, CrawlChunk, BeginInfo, InfoChunkDone, WebSocketHangs, CountNodes, BeginUpdate,
        ReadPrevNodeList, StoreFind, StoreDelete, StoreInsert, StoreVerify, CacheCollection,
        Timer, ReadFails, StoreFails, RestoreFails, Crash, Leave, database, Calls
  <2> QED
    BY <2>3, <2>4
<1> QED
  BY <1>1, Invariance, PTL DEF Spec, OutageKeepsTheCollection

-----------------------------------------------------------------------------
\* A call that fails leaves a part of what was there, or of what it was to insert.
LEMMA LeftoverIsPart ==
  ASSUME TypeInv, StoreInv, phase \in {"nodes", "restore"}, Leftover
  PROVE  /\ \E list \in SUBSET Keys \cup {Listed(nodes)} : Listed(nodes') \in SUBSET list
         /\ Listed(nodes) # {} => Listed(nodes') \subseteq Listed(nodes)
<1>1. PICK S \in SUBSET Keys :
        CASE stage = "delete" -> nodes' = Only(nodes, S)
          [] stage = "insert" -> nodes' = Inserted(nodes, Only(Documents, S))
          [] OTHER -> nodes' = nodes
  BY DEF Leftover
<1>2. Listed(nodes') \in SUBSET Keys
  BY DEF Listed
<1>3. CASE stage = "delete"
  BY <1>1, <1>2, <1>3 DEF Listed, Only
<1>4. CASE stage = "insert"
  <2>1. Listed(nodes) = {}
    BY <1>4 DEF StoreInv, Listed, EmptyList
  <2> QED
    BY <1>2, <2>1
<1>5. CASE stage \notin {"delete", "insert"}
  BY <1>1, <1>2, <1>5
<1> QED
  BY <1>3, <1>4, <1>5

\* A step of the task is a step of the publisher, or nothing the publisher sees.
LEMMA StepPublishes ==
  ASSUME Inv, [Next]_vars
  PROVE  [Publisher!PublisherNext]_(Publisher!publisher_vars)
<1> DEFINE published == Listed(nodes)
           writing == stage # "idle"
<1>t. TypeInv /\ TypeOK /\ StoreInv /\ nodes \in Lists /\ (phase \in Calls <=> stage # "idle")
  BY DEF Inv, TypeInv, TypeOK
<1>s. SUFFICES ASSUME Listed(nodes') # Listed(nodes) \/ writing' # writing
               PROVE  Publisher!PublisherNext
  BY DEF Publisher!publisher_vars, Listed
<1>1. CASE NetworkFound \/ NetworkNotFound \/ ReadNodeList \/ FetchConfigPeers \/ BeginCrawl
           \/ CrawlChunk \/ BeginInfo \/ InfoChunkDone \/ WebSocketHangs \/ CountNodes
           \/ BeginUpdate \/ CacheCollection \/ Leave \/ UNCHANGED vars
  <2>1. stage' = stage /\ nodes' = nodes
    BY <1>1
    DEF NetworkFound, NetworkNotFound, ReadNodeList, FetchConfigPeers, BeginCrawl, CrawlChunk,
        BeginInfo, InfoChunkDone, WebSocketHangs, CountNodes, BeginUpdate, CacheCollection,
        Leave, vars, database
  <2> QED
    BY <2>1, <1>s
<1>2. CASE ReadPrevNodeList
  <2>1. stage = "idle" /\ stage' = "find" /\ nodes' = nodes
    BY <1>2, <1>t DEF ReadPrevNodeList, Calls, database
  <2> QED
    BY <2>1 DEF Publisher!PublisherNext, Publisher!BeginUpdate, Listed
<1>3. CASE StoreFind
  BY <1>3, <1>s DEF StoreFind, database
<1>4. CASE StoreDelete
  <2>1. stage = "delete" /\ stage' = "insert"
    BY <1>4 DEF StoreDelete
  <2>2. Listed(nodes') = {}
    <3>1. nodes' # nodes
      BY <2>1, <1>s
    <3> QED
      BY <1>4, <3>1 DEF StoreDelete, Listed, EmptyList
  <2> QED
    BY <2>1, <2>2 DEF Publisher!PublisherNext, Publisher!Remove, Listed
<1>5. CASE StoreInsert
  <2>1. stage = "insert" /\ stage' = "verify"
    BY <1>5 DEF StoreInsert
  <2>2. phase # "stats"
    BY <1>5, <2>1, <1>s DEF StoreInsert
  <2>3. Listed(nodes) = {}
    BY <2>1, <2>2, <1>t DEF StoreInv, Listed, EmptyList
  <2>4. Listed(nodes') \in SUBSET Keys
    BY DEF Listed
  <2> QED
    BY <2>1, <2>3, <2>4 DEF Publisher!PublisherNext, Publisher!Insert, Listed
<1>6. CASE StoreVerify
  <2>1. stage = "verify" /\ nodes' = nodes /\ stage' \in {"find", "idle"}
    BY <1>6 DEF StoreVerify, database
  <2>2. stage' = "idle"
    BY <2>1, <1>s
  <2> QED
    BY <2>1, <2>2 DEF Publisher!PublisherNext, Publisher!EndUpdate, Listed
<1>7. CASE Timer \/ ReadFails
  <2>1. stage' = "idle" /\ nodes' = nodes /\ stage = "idle"
    BY <1>7, <1>t DEF Timer, ReadFails, BeginRound, database, Calls
  <2> QED
    BY <2>1, <1>s
<1>8. CASE StoreFails
  <2>1. stage # "idle" /\ stage' = "find" /\ phase \in {"nodes", "stats"}
    BY <1>8, <1>t DEF StoreFails, Calls
  <2>2. CASE phase = "stats"
    BY <1>8, <2>1, <2>2, <1>s DEF StoreFails
  <2>3. CASE phase = "nodes"
    <3>1. Leftover
      BY <1>8, <2>3 DEF StoreFails
    <3> QED
      BY <2>1, <2>3, <3>1, <1>t, LeftoverIsPart
      DEF Publisher!PublisherNext, Publisher!CallFails, Listed
  <2> QED
    BY <2>1, <2>2, <2>3
<1>9. CASE RestoreFails
  <2>1. stage # "idle" /\ stage' = "idle" /\ Leftover /\ phase = "restore"
    BY <1>9, <1>t DEF RestoreFails, BeginRound, Calls
  <2> QED
    BY <2>1, <1>t, LeftoverIsPart DEF Publisher!PublisherNext, Publisher!CallFails, Listed
<1>10. CASE Crash
  <2>1. stage' = "idle" /\ nodes' = nodes
    BY <1>10 DEF Crash, BeginRound, database
  <2>2. stage # "idle"
    BY <2>1, <1>s
  <2> QED
    BY <2>1, <2>2 DEF Publisher!PublisherNext, Publisher!EndUpdate, Listed
<1>11. CASE Tick
  <2>1. stage' = stage /\ Listed(nodes') = Listed(nodes)
    BY <1>11, <1>t, AgedDates DEF Tick
  <2> QED
    BY <2>1, <1>s
<1> QED
  BY <1>1, <1>2, <1>3, <1>4, <1>5, <1>6, <1>7, <1>8, <1>9, <1>10, <1>11 DEF Next, Step

\* The node monitor is the publisher that the other monitors rely on.
THEOREM PublisherRefinement == Spec => RefinesNodePublisher
<1>1. Init => Publisher!PublisherInit
  BY DEF Init, Publisher!PublisherInit, Listed, EmptyList
<1>2. Inv /\ [Next]_vars => [Publisher!PublisherNext]_(Publisher!publisher_vars)
  BY StepPublishes
<1> QED
  BY <1>1, <1>2, Invariance, PTL DEF Spec, RefinesNodePublisher, Publisher!PublisherSpec
=============================================================================
