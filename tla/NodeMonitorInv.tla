---------------------------- MODULE NodeMonitorInv ----------------------------
(***************************************************************************)
(* The inductive invariant behind the safety properties of NodeMonitor:    *)
(* what has to hold between any two steps of a round for the properties to *)
(* hold at the steps they speak of.                                        *)
(***************************************************************************)
EXTENDS NodeMonitor

\* What the loops have left is part of what they loop over.
TodoOK ==
    /\ phase = "crawl" => todo \subseteq Keys
    /\ phase = "info" => todo \subseteq Listed(nodeList)

TypeInv == TypeOK /\ TodoOK

\* Stored nodes have a date.  In the lists of a round only nodes that are never
\* probed may have none, and none is left once the stale nodes are dropped.
Dated(list) == \A k \in Listed(list) : list[k].age # Never
AllDatable(list) == \A k \in Listed(list) : Datable(list[k])

DatesInv ==
    /\ Dated(nodes) /\ Dated(prevNodes)
    /\ AllDatable(nodeList) /\ AllDatable(nodeInfoList)
    /\ phase \in Calls => Dated(nodeInfoList)

\* A collection is empty from its deletion to the insert, and holds the documents
\* from there on.
StoreInv ==
    /\ stage = "insert" => IF phase = "stats" THEN stats = {} ELSE nodes = EmptyList
    /\ LengthCheckPasses

\* The collection is the one the round first read until it is deleted, and the
\* copy to restore it from is the same.
RoundInv ==
    /\ phase \in {"confpeers", "crawl", "info", "update", "prev"} => nodes = before
    /\ phase \in Calls => prevNodes = before
    /\ phase = "nodes" /\ stage \in {"find", "delete"} => nodes = before
    /\ phase = "stats" => nodes = nodeInfoList
    /\ UpdateAllOrNothing

\* Without a network the lists stay empty and nothing is stored.
NetworkInv ==
    network = NoNetwork =>
        /\ nodeList = EmptyList /\ nodeInfoList = EmptyList
        /\ phase \notin Calls \cup {"prev"}

\* The lists and counts of a round are empty until they are filled.
CountInv ==
    /\ phase \in {"netinfo", "dblist"} => nodeList = EmptyList
    /\ phase \in {"netinfo", "dblist", "confpeers", "crawl"} =>
           nodeInfoList = EmptyList
    /\ phase \in {"netinfo", "dblist", "confpeers", "crawl", "info"} =>
           nodesStats = NoCounts
    /\ EachNodeCountedOnce

\* From the first read to the second, a stored node of the network is listed
\* with the date it is stored with, and once probed it is in the second list
\* with that date unless it was dropped.
CarriedInv ==
    phase \in {"confpeers", "crawl", "info", "update", "prev"} =>
        \A k \in Listed(nodes) : nodes[k].net = network =>
            /\ nodeList[k] # NoNode /\ nodeList[k].age = nodes[k].age
            /\ nodeInfoList[k] # NoNode => nodeInfoList[k].age = nodes[k].age
            /\ phase = "info" => k \in todo \/ k \in dropped \/ nodeInfoList[k] # NoNode
            /\ phase \in {"update", "prev"} => k \in dropped \/ nodeInfoList[k] # NoNode

\* All of it together is what every step of the task, of a failure and of the clock
\* preserves.
Inv ==
    /\ TypeInv /\ DatesInv /\ StoreInv /\ RoundInv
    /\ NetworkInv /\ CountInv /\ CarriedInv
=============================================================================
