---------------------------- MODULE MonitorsProofs ----------------------------
(***************************************************************************)
(* Proofs about the chain height monitor and the geolocation monitor       *)
(* beside a node monitor that replaces the nodes under them, for every set *)
(* of nodes, hosts, heights and chunk size and any number of failures.     *)
(***************************************************************************)
EXTENDS Monitors, FiniteSetTheorems, TLAPS

\* What the answers of a round amount to.
CountsOf(given, field) ==
    [value \in Heights |-> Cardinality({n \in DOMAIN given : given[n][field] = value})]

StatsOf(given) ==
    [height |-> CountsOf(given, "height"), finalizedHeight |-> CountsOf(given, "finalized")]

\* While a round asks, nobody who answered is asked again, and the counts are those of the
\* answers so far.
AskingInv ==
    /\ left \subseteq ApiNodes
    /\ DOMAIN answers \subseteq ApiNodes \ left
    /\ chainPhase = "list" => answers = <<>>
    /\ heights = CountsOf(answers, "height")
    /\ finalizedHeights = CountsOf(answers, "finalized")

\* An update runs with answers only; what is stored is of the round stored last, is away
\* between delete and insert, and is there when it is verified.
StoringInv ==
    /\ chainPhase \in Updating => answers # <<>>
    /\ DOMAIN storedAnswers \subseteq ApiNodes
    /\ heightStats \subseteq {StatsOf(storedAnswers)}
    /\ chainPhase = "insert" => heightStats = {}
    /\ chainPhase = "verify" => heightStats # {}

ChainInv == AskingInv /\ StoringInv

\* What is known of a host is one of its details.
GeoTypeOK ==
    /\ published \subseteq Nodes /\ hostNodes \subseteq Nodes
    /\ hostDetails \in [Hosts -> Seq(Details)]
    /\ \A f \in {index, found, earlyFound} : f \in [Hosts -> Details \cup {NoDetail}]
    /\ geoPhase \in {"lookup", "add"} => host \in Hosts
    /\ geoPhase = "add" => hostDetail \in Details

\* A detail that was read from the collection is still there.
IsStored(h, detail) == \E i \in DOMAIN hostDetails[h] : hostDetails[h][i] = detail

StoredInv ==
    \A h \in Hosts : \A f \in {index, found, earlyFound} : f[h] # NoDetail => IsStored(h, f[h])

GeoInv == GeoTypeOK /\ StoredInv

-----------------------------------------------------------------------------
\* No answers, no counts.
LEMMA NoAnswers == ASSUME NEW field PROVE CountsOf(<<>>, field) = NoCounts
<1>1. {n \in DOMAIN <<>> : <<>>[n][field] = 0} = {}
  OBVIOUS
<1>2. \A value : {n \in DOMAIN <<>> : <<>>[n][field] = value} = {}
  OBVIOUS
<1> QED
  BY <1>2, FS_EmptySet DEF CountsOf, NoCounts

\* Counting the answers of a chunk on top of those before it counts all of them.
LEMMA TallyAdds ==
  ASSUME NEW given, IsFiniteSet(DOMAIN given),
         NEW answering, IsFiniteSet(answering), DOMAIN given \cap answering = {},
         NEW infos \in [answering -> ChainInfo], NEW field
  PROVE  Tally(CountsOf(given, field), infos, field) =
           CountsOf([n \in DOMAIN given \cup answering |->
                        IF n \in answering THEN infos[n] ELSE given[n]], field)
<1> DEFINE all == [n \in DOMAIN given \cup answering |->
                      IF n \in answering THEN infos[n] ELSE given[n]]
           Old(v) == {n \in DOMAIN given : given[n][field] = v}
           New(v) == {n \in answering : infos[n][field] = v}
           Both(v) == {n \in DOMAIN all : all[n][field] = v}
<1>1. ASSUME NEW v \in Heights
      PROVE  Cardinality(Both(v)) = Cardinality(Old(v)) + Cardinality(New(v))
  <2>1. Both(v) = Old(v) \cup New(v) /\ Old(v) \cap New(v) = {}
    OBVIOUS
  <2>2. IsFiniteSet(Old(v)) /\ IsFiniteSet(New(v))
    BY FS_Subset
  <2>3. Cardinality(Old(v)) \in Nat /\ Cardinality(New(v)) \in Nat
    BY <2>2, FS_CardinalityType
  <2> HIDE DEF Old, New, Both
  <2>4. Cardinality(Old(v) \cup New(v)) =
          Cardinality(Old(v)) + Cardinality(New(v)) - Cardinality(Old(v) \cap New(v))
    BY <2>2, FS_Union
  <2>5. Cardinality(Old(v) \cap New(v)) = 0
    BY <2>1, FS_EmptySet
  <2>6. Cardinality(Both(v)) = Cardinality(Old(v) \cup New(v))
    BY <2>1
  <2> QED
    BY <2>3, <2>4, <2>5, <2>6
<1>2. DOMAIN infos = answering
  OBVIOUS
<1> HIDE DEF all
<1>3. CountsOf(given, field) = [v \in Heights |-> Cardinality(Old(v))]
  BY DEF CountsOf
<1>4. Tally(CountsOf(given, field), infos, field) =
        [v \in Heights |-> Cardinality(Old(v)) + Cardinality(New(v))]
  BY <1>2, <1>3 DEF Tally
<1>5. CountsOf(all, field) = [v \in Heights |-> Cardinality(Both(v))]
  BY DEF CountsOf
<1> HIDE DEF Old, New, Both
<1> QED
  BY <1>1, <1>4, <1>5 DEF all

-----------------------------------------------------------------------------
LEMMA ChainInitial == ChainInit => ChainInv
<1> SUFFICES ASSUME ChainInit PROVE ChainInv
  OBVIOUS
<1>1. AskingInv
  BY NoAnswers DEF ChainInit, AskingInv
<1>2. StoringInv
  BY DEF ChainInit, StoringInv, Updating
<1> QED
  BY <1>1, <1>2 DEF ChainInv

\* A round that begins, after the last one or after a crash, has asked nobody.
LEMMA RoundBegins ==
  ASSUME ChainInv, BeginRound, UNCHANGED <<heightStats, storedAnswers>>
  PROVE  ChainInv'
<1>1. AskingInv'
  BY NoAnswers DEF BeginRound, AskingInv
<1>2. StoringInv'
  BY DEF BeginRound, ChainInv, StoringInv, StatsOf, CountsOf, Updating
<1> QED
  BY <1>1, <1>2 DEF ChainInv

\* What the properties say of the memory of the loop depends on these variables only.
LEMMA MemoryKept ==
  ASSUME ChainInv, UNCHANGED chain_vars
  PROVE  ChainInv'
BY DEF ChainInv, AskingInv, StoringInv, CountsOf, StatsOf, Updating, chain_vars, chain_memory

\* Reading the list of the API nodes, with or without success.
LEMMA ListRead ==
  ASSUME ChainInv, getNodeList \/ getNodeListFails
  PROVE  ChainInv'
<1>1. AskingInv'
  BY DEF getNodeList, getNodeListFails, ChainInv, AskingInv, CountsOf
<1>2. StoringInv'
  BY DEF getNodeList, getNodeListFails, ChainInv, StoringInv, CountsOf, StatsOf, Updating
<1> QED
  BY <1>1, <1>2 DEF ChainInv

\* One chunk: each node of it is counted once if it answers, and leaves the list.
LEMMA ChunkAsked ==
  ASSUME ChainInv, getNodeChainHeight
  PROVE  ChainInv'
<1>1. PICK chunk \in SUBSET left :
        /\ \E answering \in SUBSET chunk : \E infos \in [answering -> ChainInfo] :
            /\ heights' = Tally(heights, infos, "height")
            /\ finalizedHeights' = Tally(finalizedHeights, infos, "finalized")
            /\ answers' = [node \in DOMAIN answers \cup answering |->
                              IF node \in answering THEN infos[node] ELSE answers[node]]
        /\ left' = left \ chunk
  BY DEF getNodeChainHeight
<1>a. PICK answering \in SUBSET chunk : \E infos \in [answering -> ChainInfo] :
        /\ heights' = Tally(heights, infos, "height")
        /\ finalizedHeights' = Tally(finalizedHeights, infos, "finalized")
        /\ answers' = [node \in DOMAIN answers \cup answering |->
                          IF node \in answering THEN infos[node] ELSE answers[node]]
  BY <1>1
<1>b. PICK infos \in [answering -> ChainInfo] :
        /\ heights' = Tally(heights, infos, "height")
        /\ finalizedHeights' = Tally(finalizedHeights, infos, "finalized")
        /\ answers' = [node \in DOMAIN answers \cup answering |->
                          IF node \in answering THEN infos[node] ELSE answers[node]]
  BY <1>a
<1>2. DOMAIN answers \subseteq ApiNodes \ left /\ left \subseteq ApiNodes
  BY DEF ChainInv, AskingInv
<1>3. IsFiniteSet(DOMAIN answers) /\ IsFiniteSet(answering) /\ DOMAIN answers \cap answering = {}
  BY <1>2, FS_Subset, ApiNodesAssumption
<1>4. /\ heights' = CountsOf(answers, "height")'
      /\ finalizedHeights' = CountsOf(answers, "finalized")'
  <2>1. heights = CountsOf(answers, "height") /\ finalizedHeights = CountsOf(answers, "finalized")
    BY DEF ChainInv, AskingInv
  <2>2. /\ heights' = CountsOf(answers', "height")
        /\ finalizedHeights' = CountsOf(answers', "finalized")
    BY <1>b, <1>3, <2>1, TallyAdds
  <2> QED
    BY <2>2 DEF CountsOf
<1>5. chainPhase' = "heights" /\ UNCHANGED <<heightStats, storedAnswers>>
  BY DEF getNodeChainHeight
<1>6. left' \subseteq ApiNodes /\ DOMAIN answers' \subseteq ApiNodes \ left'
  BY <1>1, <1>b, <1>2
<1>7. AskingInv'
  BY <1>4, <1>5, <1>6 DEF AskingInv
<1>8. StoringInv'
  BY <1>5 DEF ChainInv, StoringInv, StatsOf, CountsOf, Updating
<1> QED
  BY <1>7, <1>8 DEF ChainInv

\* Counts that are not all nothing come from an answer.
LEMMA UpdateDecided ==
  ASSUME ChainInv, updateCollection
  PROVE  ChainInv'
<1>1. AskingInv'
  BY DEF updateCollection, ChainInv, AskingInv, CountsOf
<1>2. chainPhase' \in Updating => answers' # <<>>
  BY NoAnswers DEF updateCollection, Updating, ChainInv, AskingInv
<1>3. StoringInv'
  BY <1>2 DEF updateCollection, ChainInv, StoringInv, StatsOf, CountsOf
<1> QED
  BY <1>1, <1>3 DEF ChainInv

\* The calls of the update, failing or not; the comparison of lengths finds one document.
LEMMA UpdateStep ==
  ASSUME ChainInv,
         FindStats \/ DeleteStats \/ InsertStats \/ VerifyStats \/ UpdateFails
  PROVE  ChainInv'
<1>1. AskingInv'
  BY DEF ChainInv, AskingInv, CountsOf, FindStats, DeleteStats, InsertStats, VerifyStats,
         UpdateFails, Updating, InsertTakesEffect
<1>2. ASSUME InsertTakesEffect, chainPhase = "insert"
      PROVE  heightStats' = {StatsOf(storedAnswers')} /\ DOMAIN storedAnswers' \subseteq ApiNodes
  BY <1>2 DEF InsertTakesEffect, nodeHeightStats, ChainInv, StoringInv, AskingInv, StatsOf
<1>3. CASE FindStats
  BY <1>1, <1>3 DEF FindStats, ChainInv, StoringInv, StatsOf, CountsOf, Updating
<1>4. CASE DeleteStats
  BY <1>1, <1>4 DEF DeleteStats, ChainInv, StoringInv, StatsOf, CountsOf, Updating
<1>5. CASE InsertStats
  BY <1>1, <1>2, <1>5 DEF InsertStats, ChainInv, StoringInv, StatsOf, CountsOf, Updating
<1>6. CASE VerifyStats
  <2>1. Cardinality(heightStats) = 1
    <3>1. chainPhase = "verify"
      BY <1>6 DEF VerifyStats
    <3>2. heightStats = {StatsOf(storedAnswers)}
      BY <3>1 DEF ChainInv, StoringInv
    <3> QED
      BY <3>2, FS_Singleton
  <2> QED
    BY <1>1, <1>6, <2>1 DEF VerifyStats, ChainInv, StoringInv, StatsOf, CountsOf, Updating
<1>7. CASE UpdateFails
  BY <1>1, <1>2, <1>7 DEF UpdateFails, ChainInv, StoringInv, StatsOf, CountsOf, Updating
<1> QED
  BY <1>3, <1>4, <1>5, <1>6, <1>7

LEMMA ChainInductive == ChainInv /\ [Next]_vars => ChainInv'
<1> SUFFICES ASSUME ChainInv, [Next]_vars PROVE ChainInv'
  OBVIOUS
<1>1. CASE ChainHeightMonitorStep
  BY <1>1, ListRead, ChunkAsked, UpdateDecided, UpdateStep, RoundBegins
     DEF ChainHeightMonitorStep, ChainStep, NextRound, StartOver
<1>2. CASE ChainHeightMonitorFails
  BY <1>2, ListRead, UpdateStep DEF ChainHeightMonitorFails, ChainFails
<1>3. CASE Crash
  BY <1>3, RoundBegins DEF Crash, ChainRestarts
<1>4. CASE \/ NodeMonitorStep \/ GeolocationMonitorStep \/ ConstructorStep
           \/ NodeMonitorFails \/ GeolocationMonitorFails
  BY <1>4, MemoryKept DEF NodeMonitorStep, GeolocationMonitorStep, ConstructorStep,
                          NodeMonitorFails, GeolocationMonitorFails
<1>5. CASE UNCHANGED vars
  BY <1>5, MemoryKept DEF vars
<1> QED
  BY <1>1, <1>2, <1>3, <1>4, <1>5 DEF Next

LEMMA ChainAlways == Spec => []ChainInv
<1>1. Init => ChainInv
  BY ChainInitial DEF Init
<1> QED
  BY <1>1, ChainInductive, PTL DEF Spec

\* Whatever fails or is cut off, the stored histograms are those of one round, in which
\* every API node that answered is counted exactly once, and there is one document at most.
THEOREM HeightsOfOneRound == Spec => []HeightStatsAreOfOneRound
<1>1. ChainInv => HeightStatsAreOfOneRound
  <2> SUFFICES ASSUME ChainInv PROVE HeightStatsAreOfOneRound
    OBVIOUS
  <2>1. heightStats = {} \/ heightStats = {StatsOf(storedAnswers)}
    BY DEF ChainInv, StoringInv
  <2>2. Cardinality(heightStats) = 0 \/ Cardinality(heightStats) = 1
    BY <2>1, FS_EmptySet, FS_Singleton
  <2> QED
    BY <2>1, <2>2 DEF HeightStatsAreOfOneRound, ChainInv, StoringInv, StatsOf, CountsOf
<1> QED
  BY <1>1, ChainAlways, PTL

\* Stored histograms are removed only by a round that has others to store.
THEOREM HeightsGiveWay == Spec => StatsGiveWayToOthersOnly
<1>1. ChainInv /\ [Next]_vars =>
        [heightStats # {} /\ heightStats' = {} => answers # <<>>]_<<heightStats, answers>>
  <2> SUFFICES ASSUME ChainInv, [Next]_vars, heightStats # {}, heightStats' = {}
               PROVE  chainPhase \in Updating
    BY DEF ChainInv, StoringInv
  <2>1. CASE ChainHeightMonitorStep
    BY <2>1 DEF ChainHeightMonitorStep, ChainStep, getNodeList, getNodeChainHeight,
         updateCollection, FindStats, DeleteStats, InsertStats, VerifyStats, NextRound,
         StartOver, Updating
  <2>2. CASE ChainHeightMonitorFails
    BY <2>2 DEF ChainHeightMonitorFails, ChainFails, getNodeListFails, UpdateFails, Updating
  <2>3. CASE Crash
    BY <2>3 DEF Crash, ChainRestarts
  <2>4. CASE \/ NodeMonitorStep \/ GeolocationMonitorStep \/ ConstructorStep
             \/ NodeMonitorFails \/ GeolocationMonitorFails \/ UNCHANGED vars
    BY <2>4 DEF NodeMonitorStep, GeolocationMonitorStep, ConstructorStep, NodeMonitorFails,
                GeolocationMonitorFails, vars, chain_vars
  <2> QED
    BY <2>1, <2>2, <2>3, <2>4 DEF Next
<1> QED
  BY <1>1, ChainAlways, PTL DEF Spec, StatsGiveWayToOthersOnly

-----------------------------------------------------------------------------
LEMMA GeoInitial == Init => GeoInv
<1> SUFFICES ASSUME Init PROVE GeoInv
  OBVIOUS
<1>1. GeoTypeOK
  BY DEF Init, GeoInit, PublisherInit, GeoTypeOK, NothingFound
<1>2. StoredInv
  BY DEF Init, GeoInit, StoredInv, NothingFound
<1> QED
  BY <1>1, <1>2 DEF GeoInv

\* What a refresh reads is in the collection.
LEMMA Refreshed ==
  ASSUME hostDetails \in [Hosts -> Seq(Details)]
  PROVE  /\ setArray(hostDetails) \in [Hosts -> Details \cup {NoDetail}]
         /\ \A h \in Hosts : setArray(hostDetails)[h] # NoDetail => IsStored(h, setArray(hostDetails)[h])
<1> SUFFICES ASSUME NEW h \in Hosts
             PROVE  /\ setArray(hostDetails)[h] \in Details \cup {NoDetail}
                    /\ setArray(hostDetails)[h] # NoDetail => IsStored(h, setArray(hostDetails)[h])
  BY DEF setArray
<1> DEFINE docs == hostDetails[h]
<1>1. docs \in Seq(Details)
  OBVIOUS
<1>2. setArray(hostDetails)[h] = IF docs = <<>> THEN NoDetail ELSE docs[Len(docs)]
  BY DEF setArray
<1>3. docs # <<>> => Len(docs) \in DOMAIN docs /\ docs[Len(docs)] \in Details
  <2> HIDE DEF docs
  <2> QED
    BY <1>1
<1> QED
  BY <1>2, <1>3 DEF IsStored

\* A document is added to a host that has none, and none is taken away.
LEMMA DocumentsStay ==
  ASSUME GeoTypeOK, hostDetails' = hostDetails \/ (geoPhase = "add" /\ hostDetails' = Inserted)
  PROVE  /\ hostDetails' \in [Hosts -> Seq(Details)]
         /\ \A h \in Hosts : \A detail : IsStored(h, detail) => IsStored(h, detail)'
<1>1. CASE hostDetails' = hostDetails
  BY <1>1 DEF GeoTypeOK, IsStored
<1>2. CASE /\ hostDetails[host] = <<>> /\ host \in Hosts /\ hostDetail \in Details
           /\ hostDetails' = [hostDetails EXCEPT ![host] = Append(@, hostDetail)]
  <2>1. /\ hostDetails' \in [Hosts -> Seq(Details)]
        /\ \A h \in Hosts \ {host} : hostDetails'[h] = hostDetails[h]
    BY <1>2 DEF GeoTypeOK
  <2>2. ASSUME NEW detail PROVE ~ IsStored(host, detail)
    BY <1>2 DEF IsStored
  <2> QED
    BY <2>1, <2>2 DEF IsStored
<1> QED
  BY <1>1, <1>2 DEF Inserted, GeoTypeOK

\* Steps that leave what was read from the collection alone.
LEMMA ReadingsKept ==
  ASSUME GeoInv, UNCHANGED <<index, found, earlyFound>>,
         hostDetails' = hostDetails \/ (geoPhase = "add" /\ hostDetails' = Inserted),
         published' \subseteq Nodes, hostNodes' \subseteq Nodes,
         geoPhase' \in {"lookup", "add"} => host' \in Hosts,
         geoPhase' = "add" => hostDetail' \in Details
  PROVE  GeoInv'
<1>1. /\ hostDetails' \in [Hosts -> Seq(Details)]
      /\ \A h \in Hosts : \A detail : IsStored(h, detail) => IsStored(h, detail)'
  BY DocumentsStay DEF GeoInv
<1>2. GeoTypeOK'
  BY <1>1 DEF GeoInv, GeoTypeOK
<1>3. StoredInv'
  <2> SUFFICES ASSUME NEW h \in Hosts, NEW f \in {index, found, earlyFound}, f[h] # NoDetail
               PROVE  IsStored(h, f[h])'
    BY DEF StoredInv
  <2> QED
    BY <1>1 DEF GeoInv, StoredInv
<1> QED
  BY <1>2, <1>3 DEF GeoInv

\* A refresh, or a crash: what is read comes from the collection or from what was read.
LEMMA ReadingsMove ==
  ASSUME GeoInv, UNCHANGED <<hostDetails, published>>, hostNodes' \subseteq Nodes,
         \A f \in {index', found', earlyFound'} :
            f \in {index, found, earlyFound, NothingFound, setArray(hostDetails)},
         geoPhase' \notin {"lookup", "add"}
            \/ (UNCHANGED <<geoPhase, host, hostDetail>>)
  PROVE  GeoInv'
<1>1. ASSUME NEW f \in {index, found, earlyFound, NothingFound, setArray(hostDetails)}
      PROVE  /\ f \in [Hosts -> Details \cup {NoDetail}]
             /\ \A h \in Hosts : f[h] # NoDetail => IsStored(h, f[h])
  <2>1. CASE f \in {index, found, earlyFound}
    BY <2>1 DEF GeoInv, GeoTypeOK, StoredInv
  <2>2. CASE f = NothingFound
    BY <2>2 DEF NothingFound
  <2>3. CASE f = setArray(hostDetails)
    BY <2>3, Refreshed DEF GeoInv, GeoTypeOK
  <2> QED
    BY <2>1, <2>2, <2>3
<1>2. GeoTypeOK'
  BY <1>1 DEF GeoInv, GeoTypeOK
<1>3. StoredInv'
  BY <1>1 DEF StoredInv, IsStored
<1> QED
  BY <1>2, <1>3 DEF GeoInv

LEMMA GeoInductive == GeoInv /\ [Next]_vars => GeoInv'
<1> SUFFICES ASSUME GeoInv, [Next]_vars PROVE GeoInv'
  OBVIOUS
<1>1. GeoTypeOK
  BY DEF GeoInv
<1>2. CASE GeolocationMonitorStep
  <2>1. UNCHANGED published /\ UNCHANGED earlyFound
    BY <1>2 DEF GeolocationMonitorStep, GeoStep, publisher_vars, ReadNodes, LookupFails,
         addToCollection, NodeDone, LoopDone, CacheFind, CacheSet, NextLoop, BeginLoop,
         getHostDetail, Reply, refresh_vars
  <2>2. CASE ReadNodes \/ LookupFails \/ LoopDone \/ addToCollection
    BY <1>1, <2>1, <2>2, ReadingsKept DEF GeoTypeOK, ReadNodes, LookupFails, LoopDone,
         addToCollection, NodeDone
  <2>3. ASSUME NEW node \in hostNodes, getHostDetail(node) PROVE GeoInv'
    <3>1. HostOf[node] \in Hosts
      BY <1>1, HostOfAssumption DEF GeoTypeOK
    <3> QED
      BY <1>1, <2>1, <2>3, <3>1, ReadingsKept, DetailsAssumption DEF GeoTypeOK, getHostDetail
  <2>4. ASSUME NEW detail \in Details, Reply(host, detail) PROVE GeoInv'
    BY <1>1, <2>1, <2>4, ReadingsKept DEF GeoTypeOK, Reply
  <2>5. CASE CacheFind \/ CacheSet \/ NextLoop
    BY <1>1, <2>1, <2>5, ReadingsMove DEF GeoTypeOK, CacheFind, CacheSet, NextLoop, BeginLoop
  <2> QED
    BY <1>2, <2>2, <2>3, <2>4, <2>5 DEF GeolocationMonitorStep, GeoStep
<1>3. CASE ConstructorStep
  <2>1. UNCHANGED published
    BY <1>3 DEF ConstructorStep, publisher_vars
  <2> QED
    BY <1>1, <1>3, <2>1, ReadingsMove DEF GeoTypeOK, ConstructorStep, EarlyStep, EarlyFind, EarlySet
<1>4. CASE GeolocationMonitorFails
  <2>1. UNCHANGED published
    BY <1>4 DEF GeolocationMonitorFails, publisher_vars
  <2>2. CASE ReadNodesFails \/ InsertFails
    BY <1>1, <2>1, <2>2, ReadingsKept DEF GeoTypeOK, ReadNodesFails, InsertFails, NodeDone, refresh_vars
  <2>3. CASE CacheFails \/ EarlyFails
    BY <1>1, <2>1, <2>3, ReadingsMove DEF GeoTypeOK, CacheFails, EarlyFails, refresh_vars
  <2> QED
    BY <1>4, <2>2, <2>3 DEF GeolocationMonitorFails, GeoFails
<1>5. CASE Crash
  BY <1>1, <1>5, ReadingsMove DEF GeoTypeOK, Crash, GeoRestarts, BeginLoop
<1>6. CASE NodeMonitorStep \/ NodeMonitorFails
  <2>1. published' \subseteq Nodes
    <3>1. \A list \in Lists : list \subseteq Nodes
      BY ListsAssumption
    <3> QED
      BY <1>1, <1>6, <3>1 DEF GeoTypeOK, NodeMonitorStep, NodeMonitorFails, BeginUpdate, Remove,
           Insert, EndUpdate, CallFails
  <2> QED
    BY <1>1, <1>6, <2>1, ReadingsKept DEF GeoTypeOK, NodeMonitorStep, NodeMonitorFails, geo_vars,
         geo_memory, refresh_vars
<1>7. CASE ChainHeightMonitorStep \/ ChainHeightMonitorFails \/ UNCHANGED vars
  BY <1>1, <1>7, ReadingsKept DEF GeoTypeOK, ChainHeightMonitorStep, ChainHeightMonitorFails, vars,
       publisher_vars, geo_vars, geo_memory, refresh_vars
<1> QED
  BY <1>2, <1>3, <1>4, <1>5, <1>6, <1>7 DEF Next

\* However far the index lags behind, and whatever fails or is cut off: a detail in it is a
\* detail in the collection, so that no host is kept from its document by the index.
THEOREM IndexIsStored == Spec => []IndexedHostsAreStored
<1>1. GeoInv => IndexedHostsAreStored
  BY DEF GeoInv, StoredInv, IsStored, IndexedHostsAreStored
<1> QED
  BY <1>1, GeoInitial, GeoInductive, PTL DEF Spec
=============================================================================
