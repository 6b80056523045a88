------------------------------ MODULE NodeRules ------------------------------
(***************************************************************************)
(* The pure rules of the node monitor: which roles are probed, when a node *)
(* counts as available or stale, how an announced node is merged into the  *)
(* list of a round, what a probe may return and how the nodes are counted. *)
(*                                                                         *)
(* A list of nodes (INode[], or the Node collection, whose publicKey index *)
(* is unique) is a total function over the public keys, with NoNode where  *)
(* no node has that key.  Of a node, the rules look at its role number,    *)
(* its network, its port, the result of its last API and peer probe, and   *)
(* the time since lastAvailable.                                           *)
(***************************************************************************)
EXTENDS Integers, FiniteSets

CONSTANTS
    Keys,       \* the public keys of nodes
    Roles,      \* the role numbers that nodes announce
    Networks,   \* network identifier and generation hash seed, as one value
    Ports,      \* the ports that nodes announce: "ok", or "bad" if out of range
    NoNode,     \* what a list holds at a key that no node of it has
    Keep        \* KEEP_STALE_NODES_FOR_HOURS, in ticks of the clock

ASSUME KeysAssumption == IsFiniteSet(Keys)
ASSUME RolesAssumption == Roles \subseteq Nat
ASSUME PortsAssumption == Ports \subseteq {"ok", "bad"}
ASSUME KeepAssumption == Keep \in Nat

\* lastAvailable is kept as the ticks elapsed since.  An age above Keep is as
\* stale as any other, so ages stop growing there.
Never == -1
Ages == {Never} \cup 0 .. (Keep + 1)
OneTickOlder(age) == IF age \in 0 .. Keep THEN age + 1 ELSE age

\* apiStatus and peerStatus: absent, or the isAvailable of the last probe.
Statuses == {"none", "up", "down"}

Node == [roles : Roles, net : Networks, port : Ports,
         api : Statuses, peer : Statuses, age : Ages]

ASSUME NoNodeAssumption == NoNode \notin Node

Lists == [Keys -> Node \cup {NoNode}]
EmptyList == [k \in Keys |-> NoNode]
Listed(list) == {k \in Keys : list[k] # NoNode}
Only(list, S) == [k \in Keys |-> IF k \in S THEN list[k] ELSE NoNode]
Aged(list) ==
    [k \in Keys |-> IF list[k] = NoNode THEN NoNode
                    ELSE [list[k] EXCEPT !.age = OneTickOlder(@)]]

-----------------------------------------------------------------------------
\* Roles and availability

isAPIRole(role) == role \in {2, 3, 6, 7}
isPeerRole(role) == role \in {1, 3, 5, 7}

checkNodeAvailable(node) ==
    \/ isAPIRole(node.roles) /\ node.api = "up"
    \/ isPeerRole(node.roles) /\ node.peer = "up"
    \/ ~isAPIRole(node.roles) /\ ~isPeerRole(node.roles)

\* Mutation: a node is stale as soon as the time to keep is reached.
checkNodeStale_Early(node) ==
    /\ ~checkNodeAvailable(node)
    /\ node.age # Never
    /\ node.age >= Keep

checkNodeStale(node) ==
    /\ ~checkNodeAvailable(node)
    /\ node.age # Never
    /\ node.age > Keep

\* Available nodes are stamped with the current time, stale ones are dropped.
removeStaleNodesAndUpdateLastAvailable(list) ==
    [k \in Keys |->
        IF list[k] = NoNode \/ checkNodeStale(list[k]) THEN NoNode
        ELSE IF checkNodeAvailable(list[k]) THEN [list[k] EXCEPT !.age = 0]
        ELSE list[k]]

-----------------------------------------------------------------------------
\* Merging announced or stored nodes into the list of the round

\* An entry of another network is skipped; one that does not validate is
\* skipped as well, and is left out of the batches.
Accepted(node, network) == node # NoNode /\ node.net = network

\* Mutation: unavailable nodes are not dated.
MergedAge_Undated(old, new) ==
    IF old # NoNode /\ old.age # Never THEN old.age ELSE new.age

\* Mutation: an announcement counts as a sign of life.
MergedAge_Renewed(old, new) ==
    LET age == IF old # NoNode /\ old.age # Never THEN old.age ELSE new.age
    IN  IF ~checkNodeAvailable(new) /\ (old # NoNode \/ age = Never) THEN 0 ELSE age

\* The lastAvailable an entry gets: the one the list already has, or its own;
\* a node with neither that is not available is dated now.
MergedAge(old, new) ==
    LET age == IF old # NoNode /\ old.age # Never THEN old.age ELSE new.age
    IN  IF age = Never /\ ~checkNodeAvailable(new) THEN 0 ELSE age

addNodesToList(list, batch, network) ==
    [k \in Keys |->
        IF Accepted(batch[k], network)
        THEN [batch[k] EXCEPT !.age = MergedAge(list[k], batch[k])]
        ELSE list[k]]

\* What a peer answers on /node/peers about the nodes in S: no status, no date.
Announcements(S) ==
    {[k \in Keys |-> IF k \in S THEN ann[k] ELSE NoNode] :
        ann \in [S -> [roles : Roles, net : Networks, port : Ports,
                       api : {"none"}, peer : {"none"}, age : {Never}]]}

\* Only nodes that are never probed go without a date; of those to be merged,
\* only nodes without an available status (proved of what the task merges).
Datable(node) == node.age = Never => ~isAPIRole(node.roles) /\ ~isPeerRole(node.roles)
Mergeable(node) == node.age = Never => node.api # "up" /\ node.peer # "up"

-----------------------------------------------------------------------------
\* Probing a node

\* Mutation: a failed probe leaves the statuses alone.
SilentResult_Kept(node) == node

\* A TCP probe of a port out of range throws, before the API is probed: the node
\* comes back with the statuses it had.
ProbeThrows(node) == isPeerRole(node.roles) /\ node.port = "bad"

\* What getNodeInfo returns for a node whose host answers no request.
SilentResult(node) ==
    [node EXCEPT !.api = IF isAPIRole(node.roles) THEN "down" ELSE @,
                 !.peer = IF isPeerRole(node.roles) THEN "down" ELSE @]

\* What it may return for a node whose host may answer: any probe can still
\* fail; /node/info may give the node another role and port, ...
PeerResults(node) == IF isPeerRole(node.roles) THEN {"up", "down"} ELSE {node.peer}

ApiResults(node) == IF isAPIRole(node.roles) THEN {"up", "down"} ELSE {node.api}
RoleResults(node) == IF isAPIRole(node.roles) THEN Roles ELSE {node.roles}
PortResults(node) == IF isAPIRole(node.roles) THEN Ports ELSE {node.port}

AnsweredResults(node) ==
    {[node EXCEPT !.peer = o[1], !.api = o[2], !.roles = o[3], !.port = o[4]] :
        o \in PeerResults(node) \X ApiResults(node)
                \X RoleResults(node) \X PortResults(node)}

\* ... or be that of another node or network, which drops the node.
getNodeInfo(node, answers) ==
    IF ProbeThrows(node) THEN {node}
    ELSE IF ~answers THEN {SilentResult(node)}
    ELSE AnsweredResults(node) \cup (IF isAPIRole(node.roles) THEN {NoNode} ELSE {})

-----------------------------------------------------------------------------
\* Counting nodes

NoCounts == [r \in Roles |-> 0]

addToStats(counts, list) ==
    [r \in Roles |->
        counts[r] + Cardinality({k \in Listed(list) : list[k].roles = r})]

-----------------------------------------------------------------------------
\* The chunks runTaskInChunks may take next from what is left of a list: it
\* keeps the order of the list, which no rule depends on, so any full chunk
\* may come next, and a smaller one only at the end.
Chunks(rest, size) ==
    {C \in SUBSET rest :
        IF Cardinality(rest) <= size THEN C = rest ELSE Cardinality(C) = size}
=============================================================================
