-------------------------- MODULE ChainHeightMonitor --------------------------
(***************************************************************************)
(* The chain height monitor (services/ChainHeightMonitor.ts) and the       *)
(* collection with its one document, NodeHeightStats, which it alone       *)
(* replaces (DataBase.updateCollection).  A round reads the API nodes from *)
(* the Node collection, asks them in chunks for their heights, counts the  *)
(* answers by value and stores the counts.                                 *)
(***************************************************************************)
EXTENDS Naturals, FiniteSets, NodePublisher

CONSTANTS
    ApiNodes,     \* the nodes with the API role
    Heights,      \* the heights that occur
    ChainInfo,    \* what is in an answer to /chain/info: height and finalized height
    NoHeight,     \* stands for a latestFinalizedBlock that is missing
    ChunkSize     \* CHAIN_HEIGHT_REQUEST_CHUNK_SIZE

ASSUME ApiNodesAssumption == ApiNodes \subseteq Nodes /\ IsFiniteSet(Nodes)
ASSUME HeightsAssumption ==
    NoHeight \notin Heights /\ ChainInfo \subseteq [height : Heights, finalized : Heights \cup {NoHeight}]
ASSUME ChunkSizeAssumption == ChunkSize \in Nat \ {0}

VARIABLES
    heightStats,      \* the documents of the NodeHeightStats collection
    chainPhase,       \* where the loop stands
    left,             \* API nodes of the list not asked yet
    heights,          \* this.heights
    finalizedHeights, \* this.finalizedHeights
    prevState,        \* prevState of the update under way
    answers,          \* history: the answers of this round
    storedAnswers     \* history: the answers of the round that was stored last

chain_memory == <<chainPhase, left, heights, finalizedHeights, prevState, answers>>
chain_vars == <<heightStats, chain_memory, storedAnswers>>

NoCounts == [value \in Heights |-> 0]
Updating == {"find", "delete", "insert", "verify"}

-----------------------------------------------------------------------------
\* Mutation: clear() forgets the finalized heights.
BeginRound_KeepsFinalized ==
    /\ chainPhase' = "list" /\ left' = {}
    /\ heights' = NoCounts /\ UNCHANGED finalizedHeights
    /\ prevState' = {} /\ answers' = <<>>

\* start() up to its first await, clear() included.
BeginRound ==
    /\ chainPhase' = "list" /\ left' = {}
    /\ heights' = NoCounts /\ finalizedHeights' = NoCounts
    /\ prevState' = {} /\ answers' = <<>>

ChainInit ==
    /\ heightStats = {}
    /\ chainPhase = "list" /\ left = {}
    /\ heights = NoCounts /\ finalizedHeights = NoCounts
    /\ prevState = {} /\ answers = <<>> /\ storedAnswers = <<>>

getNodeList ==
    /\ chainPhase = "list"
    /\ left' = published \cap ApiNodes
    /\ chainPhase' = "heights"
    /\ UNCHANGED <<heightStats, heights, finalizedHeights, prevState, answers, storedAnswers>>

\* When the collection cannot be read the nodes of the configuration are tried, but their
\* status is asked for under a bare host name, which is no URL: none is ever available.
getNodeListFails ==
    /\ chainPhase = "list"
    /\ left' = {}
    /\ chainPhase' = "heights"
    /\ UNCHANGED <<heightStats, heights, finalizedHeights, prevState, answers, storedAnswers>>

Tally(counts, infos, field) ==
    [value \in Heights |->
        counts[value] + Cardinality({node \in DOMAIN infos : infos[node][field] = value})]

\* One chunk of getNodeChainHeight.  The height of an answer is counted before its
\* finalized height is looked at, which may be missing and throw.  A request that fails
\* gives null, and no answer.
getNodeChainHeight ==
    /\ chainPhase = "heights" /\ left # {}
    /\ \E chunk \in SUBSET left :
        /\ IF Cardinality(left) <= ChunkSize THEN chunk = left ELSE Cardinality(chunk) = ChunkSize
        /\ \E answering \in SUBSET chunk : \E infos \in [answering -> ChainInfo] :
            /\ heights' = Tally(heights, infos, "height")
            /\ finalizedHeights' = Tally(finalizedHeights, infos, "finalized")
            /\ answers' = [node \in DOMAIN answers \cup answering |->
                              IF node \in answering THEN infos[node] ELSE answers[node]]
        /\ left' = left \ chunk
    /\ UNCHANGED <<heightStats, chainPhase, prevState, storedAnswers>>

\* Mutation: the counts are stored whatever they are.
updateCollection_Always ==
    /\ chainPhase = "heights" /\ left = {}
    /\ chainPhase' = "find"
    /\ UNCHANGED <<heightStats, left, heights, finalizedHeights, prevState, answers, storedAnswers>>

\* Counts that are all nothing are not stored: the round sleeps at once.
updateCollection ==
    /\ chainPhase = "heights" /\ left = {}
    /\ chainPhase' = IF heights # NoCounts \/ finalizedHeights # NoCounts THEN "find" ELSE "sleep"
    /\ UNCHANGED <<heightStats, left, heights, finalizedHeights, prevState, answers, storedAnswers>>

-----------------------------------------------------------------------------
(* DataBase.updateCollection, one action for each of its awaits.           *)

FindStats ==
    /\ chainPhase = "find"
    /\ prevState' = heightStats /\ chainPhase' = "delete"
    /\ UNCHANGED <<heightStats, left, heights, finalizedHeights, answers, storedAnswers>>

DeleteStats ==
    /\ chainPhase = "delete"
    /\ heightStats' = {} /\ chainPhase' = "insert"
    /\ UNCHANGED <<left, heights, finalizedHeights, prevState, answers, storedAnswers>>

nodeHeightStats == [height |-> heights, finalizedHeight |-> finalizedHeights]

InsertTakesEffect ==
    /\ heightStats' = heightStats \cup {nodeHeightStats}
    /\ storedAnswers' = answers

InsertStats ==
    /\ chainPhase = "insert"
    /\ InsertTakesEffect /\ chainPhase' = "verify"
    /\ UNCHANGED <<left, heights, finalizedHeights, prevState, answers>>

\* The length of the collection is compared with the one document that was inserted.
VerifyStats ==
    /\ chainPhase = "verify"
    /\ IF Cardinality(heightStats) = 1
       THEN chainPhase' = "sleep" /\ UNCHANGED heightStats
       ELSE chainPhase' = "failed" /\ heightStats' = heightStats \cup prevState
    /\ UNCHANGED <<left, heights, finalizedHeights, prevState, answers, storedAnswers>>

\* A call fails, with its effect or without it.
UpdateFails ==
    /\ chainPhase \in Updating
    /\ \/ UNCHANGED <<heightStats, storedAnswers>>
       \/ chainPhase = "delete" /\ heightStats' = {} /\ UNCHANGED storedAnswers
       \/ chainPhase = "insert" /\ InsertTakesEffect
    /\ chainPhase' = "failed"
    /\ UNCHANGED <<left, heights, finalizedHeights, prevState, answers>>

\* The interval is over.
NextRound ==
    /\ chainPhase = "sleep"
    /\ BeginRound
    /\ UNCHANGED <<heightStats, storedAnswers>>

\* Mutation: the loop is stopped and not started again.
StartOver_Stops ==
    /\ chainPhase = "failed" /\ chainPhase' = "stopped"
    /\ UNCHANGED <<heightStats, left, heights, finalizedHeights, prevState, answers, storedAnswers>>

\* The catch of start(): after the interval stop() and start().
StartOver ==
    /\ chainPhase = "failed"
    /\ BeginRound
    /\ UNCHANGED <<heightStats, storedAnswers>>

ChainStep ==
    \/ getNodeList \/ getNodeChainHeight \/ updateCollection
    \/ FindStats \/ DeleteStats \/ InsertStats \/ VerifyStats \/ NextRound \/ StartOver

ChainFails == getNodeListFails \/ UpdateFails

\* The process starts anew; only the collection is left.
ChainRestarts ==
    /\ BeginRound
    /\ UNCHANGED <<heightStats, storedAnswers>>

-----------------------------------------------------------------------------
\* The stored counts are those of one round, and each API node that answered in it is
\* counted once under the height it reported, and once under its finalized height if it
\* reported one; there is never a second document (start, clear, getNodeChainHeight and
\* DataBase.updateCollection, whatever failed or was cut off in between).
HeightStatsAreOfOneRound ==
    /\ Cardinality(heightStats) <= 1
    /\ \A stats \in heightStats :
        /\ DOMAIN storedAnswers \subseteq ApiNodes
        /\ \A value \in Heights :
            /\ stats.height[value] =
                 Cardinality({n \in DOMAIN storedAnswers : storedAnswers[n].height = value})
            /\ stats.finalizedHeight[value] =
                 Cardinality({n \in DOMAIN storedAnswers : storedAnswers[n].finalized = value})

\* Stored counts are taken away only when there are others to take their place: never by
\* a round that found no node, because it read the nodes while the node monitor replaced
\* them or could not read them at all, and never by one that nobody answered
\* (updateCollection).
StatsGiveWayToOthersOnly ==
    [][heightStats # {} /\ heightStats' = {} => answers # <<>>]_<<heightStats, answers>>

\* The loop goes on for ever, and when rounds keep finding nodes that answer, there are
\* counts again and again, whenever a failure or a crash left the collection empty between
\* deleteMany and insertMany (start and DataBase.updateCollection).
StatsComeBack ==
    /\ []<>(chainPhase = "list")
    /\ []<>(answers # <<>>) => []<>(heightStats # {})
=============================================================================
