---------------------------- MODULE MCNodeMonitor ----------------------------
(***************************************************************************)
(* The node monitor on small sets of nodes, and what the documentation     *)
(* says of it that the code does otherwise.                                *)
(***************************************************************************)
EXTENDS NodeMonitorInv, TLC

Symmetry == Permutations(Keys)

\* README.md: /node/peers "returns the list of peers known to that node, which
\* the task then explores recursively".  When the crawl of a round is over,
\* every API node it has found was asked for its peers.
CrawlIsRecursive ==
    [][phase = "crawl" /\ phase' = "info" =>
          \A k \in Listed(nodeList) : isAPIRole(nodeList[k].roles) => k \in asked]_vars

\* openapi.yml: a 404 means "There is no node with the given main account".  A
\* node that is stored both before and after an update is found during it.
KnownNodesAreServed ==
    phase = "nodes" =>
        \A k \in Listed(prevNodes) \cap Listed(nodeInfoList) : nodes[k] # NoNode

\* openapi.yml: isAvailable of a peer status is "Whether the node is currently
\* available (reachable and answering queries)".  As long as rounds go on, a node
\* that has left the network is not shown as available for ever.
AvailableNodesAnswer ==
    \A k \in Mortals :
        <>(k \in gone) =>
            \/ KeptByAWebSocket
            \/ <>[](nodes[k] # NoNode => nodes[k].peer # "up")
=============================================================================
