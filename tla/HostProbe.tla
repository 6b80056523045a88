------------------------------ MODULE HostProbe ------------------------------
(***************************************************************************)
(* The probes of a chunk (NodeMonitor.getNodeInfo with ApiNodeService.ts,  *)
(* PeerNodeService.ts and Http.ts), request by request.  They run at the   *)
(* same time, and the chunk is done when all of them are.                  *)
(*                                                                         *)
(* A request over HTTP is settled by its answer, its error or its timer,   *)
(* whichever is first; what comes later changes nothing.  The check of a   *)
(* WebSocket is settled by the events `open' and `error' and by no timer.  *)
(* A probe that does not get to the API returns the node with the status   *)
(* of the API that an earlier round has stored with it.                    *)
(*                                                                         *)
(* The node monitor takes a probe as one step with the results that        *)
(* NodeRules gives (getNodeInfo); this module shows that these are right.  *)
(***************************************************************************)
EXTENDS NodeRules

CONSTANTS
    Given        \* the nodes that may be listed when they are probed

ASSUME GivenAssumption == Given \subseteq Node

VARIABLES
    given,       \* the node a probe was started with
    former,      \* the apiStatus it came with, of an earlier round
    answers,     \* whether its host answers requests; each of them may fail all the same
    node,        \* nodeWithInfo, NoNode if it is dropped
    at,          \* the request the probe waits for
    isHttps,     \* the protocol that buildHostUrl found
    complete,    \* whether the answer of /chain/info has a latestFinalizedBlock
    open,        \* the requests that Promise.all waits for
    health,      \* what /node/health has told so far
    apiStatus,   \* nodeWithInfo.apiStatus
    heard,       \* the answers that lists are chosen by, for the properties
    chunkDone    \* whether Promise.all of getNodeListInfo has resolved

probes == <<given, former, answers, node, at, isHttps, complete, open, health, apiStatus, heard>>
vars == <<probes, chunkDone>>

\* isHttpsEnabled and nodeStatus are left out of a status that the catch returns; health
\* is "up" if both parts of nodeStatus are.  A node without a status has NoStatus as well.
Health == {"absent", "up", "down"}
NoStatus == [isAvailable |-> FALSE, isHttpsEnabled |-> "absent", wss |-> FALSE,
             webSocket |-> FALSE, health |-> "absent"]

\* Mutation: the WebSocket of a node that does not answer is taken to be there.
DefaultStatus_Hopeful(https) ==
    [NoStatus EXCEPT !.isHttpsEnabled = IF https THEN "yes" ELSE "no", !.wss = TRUE,
                     !.webSocket = TRUE]

DefaultStatus(https) ==
    [NoStatus EXCEPT !.isHttpsEnabled = IF https THEN "yes" ELSE "no", !.wss = TRUE]

\* The status is put together at the end, from what has answered until then.
Assembled(https, told, wss, webSocket) ==
    [isAvailable |-> TRUE, isHttpsEnabled |-> IF https THEN "yes" ELSE "no", wss |-> wss,
     webSocket |-> webSocket, health |-> told]

\* What getStatus can return, and with it what an earlier round may have left with a node.
Status ==
    {NoStatus} \cup {DefaultStatus(https) : https \in BOOLEAN}
        \cup [isAvailable : {TRUE}, isHttpsEnabled : {"yes"}, wss : {TRUE}, webSocket : {TRUE},
              health : Health]
        \cup [isAvailable : {TRUE}, isHttpsEnabled : {"yes", "no"}, wss : {FALSE},
              webSocket : BOOLEAN, health : Health]
LeftWith(n) ==
    {status \in Status : /\ status.isAvailable <=> n.api = "up"
                         /\ n.api = "none" => status = NoStatus}

Start(n) == IF isPeerRole(n.roles) THEN "tcp" ELSE IF isAPIRole(n.roles) THEN "https" ELSE "end"

\* nodeWithInfo starts as a copy of the node, with the statuses it has.
Init ==
    /\ given \in [Keys -> Given] /\ answers \in [Keys -> BOOLEAN]
    /\ node = given
    /\ former \in [Keys -> Status] /\ \A k \in Keys : former[k] \in LeftWith(given[k])
    /\ apiStatus = former
    /\ at = [k \in Keys |-> Start(given[k])]
    /\ isHttps = [k \in Keys |-> FALSE] /\ complete = [k \in Keys |-> FALSE]
    /\ open = [k \in Keys |-> {}] /\ health = [k \in Keys |-> "absent"]
    /\ heard = [k \in Keys |-> {}]
    /\ chunkDone = FALSE

GoTo(k, next) == at' = [at EXCEPT ![k] = next]
Telling == {"https", "chain", "health", "wss"}
Hear(k, request) ==
    answers[k] /\ heard' = [heard EXCEPT ![k] = @ \cup ({request} \cap Telling)]

-----------------------------------------------------------------------------
\* PeerNodeService.getStatus.  A port out of range throws, which ends the probe.  It ends
\* here for a node without an API role, too; both keep the apiStatus they came with.
TcpProbe(k) ==
    /\ at[k] = "tcp"
    /\ IF given[k].port = "bad"
       THEN GoTo(k, "end") /\ UNCHANGED <<node, heard>>
       ELSE /\ GoTo(k, IF isAPIRole(node[k].roles) THEN "https" ELSE "end")
            /\ \/ Hear(k, "tcp") /\ node' = [node EXCEPT ![k].peer = "up"]
               \/ node' = [node EXCEPT ![k].peer = "down"] /\ UNCHANGED heard
    /\ UNCHANGED <<given, former, answers, isHttps, complete, open, health, apiStatus, chunkDone>>

\* Mutation: a request has no timer of its own, and a silent host never settles it.
buildHostUrl_NoTimer(k) ==
    /\ at[k] = "https" /\ answers[k]
    /\ GoTo(k, "info")
    /\ Hear(k, "https") /\ isHttps' = [isHttps EXCEPT ![k] = TRUE]
    /\ UNCHANGED <<given, former, answers, node, complete, open, health, apiStatus, chunkDone>>

\* HTTPS if /chain/info answers over it, else HTTP.
buildHostUrl(k) ==
    /\ at[k] = "https"
    /\ GoTo(k, "info")
    /\ \/ Hear(k, "https") /\ isHttps' = [isHttps EXCEPT ![k] = TRUE]
       \/ UNCHANGED <<isHttps, heard>>
    /\ UNCHANGED <<given, former, answers, node, complete, open, health, apiStatus, chunkDone>>

\* /node/info: another node or network ends the probe without a result, an answer of the
\* node gives it its role and port, and without an answer it stays as it is.
RequestNodeInfo(k) ==
    /\ at[k] = "info"
    /\ \/ /\ Hear(k, "info")
          /\ GoTo(k, "end") /\ node' = [node EXCEPT ![k] = NoNode]
       \/ /\ Hear(k, "info")
          /\ GoTo(k, "chain")
          /\ \E role \in Roles, port \in Ports :
               node' = [node EXCEPT ![k].roles = role, ![k].port = port]
       \/ GoTo(k, "chain") /\ UNCHANGED <<node, heard>>
    /\ UNCHANGED <<given, former, answers, isHttps, complete, open, health, apiStatus, chunkDone>>

\* Mutation: a node that does not answer keeps the status of the round before.
Return_Kept(k, status) ==
    /\ GoTo(k, "end")
    /\ apiStatus' = [apiStatus EXCEPT ![k] = status]
    /\ node' = IF status.isAvailable THEN [node EXCEPT ![k].api = "up"] ELSE node

\* getStatus returns.
Return(k, status) ==
    /\ GoTo(k, "end")
    /\ apiStatus' = [apiStatus EXCEPT ![k] = status]
    /\ node' = [node EXCEPT ![k].api = IF status.isAvailable THEN "up" ELSE "down"]

\* getNodeChainInfo: without an answer the status is the default one, else three requests
\* are made at once.
RequestChainInfo(k) ==
    /\ at[k] = "chain"
    /\ \/ /\ Hear(k, "chain")
          /\ GoTo(k, "all") /\ open' = [open EXCEPT ![k] = {"key", "server", "health"}]
          /\ complete' \in {complete, [complete EXCEPT ![k] = TRUE]}
          /\ UNCHANGED <<node, apiStatus>>
       \/ Return(k, DefaultStatus(isHttps[k])) /\ UNCHANGED <<complete, open, heard>>
    /\ UNCHANGED <<given, former, answers, isHttps, health, chunkDone>>

\* One of the three settles.
RequestSettles(k, request) ==
    /\ at[k] = "all" /\ request \in open[k]
    /\ open' = [open EXCEPT ![k] = @ \ {request}]
    /\ \/ /\ Hear(k, request)
          /\ \E told \in IF request = "health" THEN {"up", "down"} ELSE {health[k]} :
               health' = [health EXCEPT ![k] = told]
       \/ UNCHANGED <<health, heard>>
    /\ UNCHANGED <<given, former, answers, node, at, isHttps, complete, apiStatus, chunkDone>>

\* Without a finalized block the assembly throws, and the status is that of the catch.
AllSettled(k) ==
    /\ at[k] = "all" /\ open[k] = {}
    /\ IF complete[k]
       THEN GoTo(k, IF isHttps[k] THEN "wss" ELSE "ws") /\ UNCHANGED <<node, apiStatus>>
       ELSE Return(k, NoStatus)
    /\ UNCHANGED <<given, former, answers, isHttps, complete, open, health, heard, chunkDone>>

\* webSocketStatus: over TLS first if HTTPS is, then without.
WithWebSocket(k, wss, available) == Assembled(isHttps[k], health[k], wss, available)

checkWebSocketHealth(k) ==
    /\ \/ /\ at[k] = "wss"
          /\ \/ Hear(k, "wss") /\ Return(k, WithWebSocket(k, TRUE, TRUE))
             \/ GoTo(k, "ws") /\ UNCHANGED <<node, apiStatus, heard>>
       \/ /\ at[k] = "ws"
          /\ \/ Hear(k, "ws") /\ Return(k, WithWebSocket(k, FALSE, TRUE))
             \/ Return(k, WithWebSocket(k, FALSE, FALSE)) /\ UNCHANGED heard
    /\ UNCHANGED <<given, former, answers, isHttps, complete, open, health, chunkDone>>

\* A host takes the connection and never answers the upgrade.  Neither event is emitted,
\* and the option `timeout' that is passed is not one the WebSocket library goes by.
WebSocketHangs(k) ==
    /\ at[k] \in {"wss", "ws"} /\ answers[k]
    /\ GoTo(k, "hung")
    /\ UNCHANGED <<given, former, answers, node, isHttps, complete, open, health, apiStatus,
                   heard, chunkDone>>
-----------------------------------------------------------------------------
\* All probes of the chunk are back.
ChunkDone ==
    /\ ~chunkDone /\ \A k \in Keys : at[k] = "end"
    /\ chunkDone' = TRUE
    /\ UNCHANGED probes

\* What an answer, an error or a timer takes further.
Settles(k) ==
    \/ TcpProbe(k) \/ buildHostUrl(k) \/ RequestNodeInfo(k) \/ RequestChainInfo(k)
    \/ \E request \in {"key", "server", "health"} : RequestSettles(k, request)
    \/ AllSettled(k) \/ checkWebSocketHealth(k)

Next == (\E k \in Keys : Settles(k) \/ WebSocketHangs(k)) \/ ChunkDone

Spec == Init /\ [][Next]_vars

\* Every request comes to one of its ends; nothing is assumed of a WebSocket that hangs.
Fairness == (\A k \in Keys : WF_vars(Settles(k))) /\ WF_vars(ChunkDone)
FairSpec == Spec /\ Fairness

-----------------------------------------------------------------------------
TypeOK ==
    /\ given \in [Keys -> Node] /\ former \in [Keys -> Status] /\ answers \in [Keys -> BOOLEAN]
    /\ node \in [Keys -> Node \cup {NoNode}]
    /\ at \in [Keys -> {"tcp", "https", "info", "chain", "all", "wss", "ws", "hung", "end"}]
    /\ isHttps \in [Keys -> BOOLEAN] /\ complete \in [Keys -> BOOLEAN]
    /\ open \in [Keys -> SUBSET {"key", "server", "health"}]
    /\ health \in [Keys -> Health] /\ apiStatus \in [Keys -> Status]
    /\ heard \in [Keys -> SUBSET Telling]
    /\ chunkDone \in BOOLEAN

\* Whatever requests fail, and in whatever order they settle, a probe comes back with a
\* result that the rules of the node monitor expect of its node and host (NodeMonitor.ts,
\* getNodeInfo); what they do not expect would be merged, dated and counted.
ProbesReturnAsExpected ==
    \A k \in Keys : at[k] = "end" => node[k] \in getNodeInfo(given[k], answers[k])

\* What they rest on: how much of the node g each stage of a probe may have changed if its
\* host answers or not, and what has answered by then.
PeerSoFar(g, answering) ==
    IF isPeerRole(g.roles) THEN {"down"} \cup (IF answering THEN {"up"} ELSE {}) ELSE {g.peer}
RolesSoFar(g, answering) == IF answering THEN Roles ELSE {g.roles}
PortsSoFar(g, answering) == IF answering THEN Ports ELSE {g.port}

NodeSoFar(stage, g, answering, n) ==
    /\ stage = "tcp" => n = g /\ isPeerRole(g.roles)
    /\ stage \notin {"tcp", "end"} => isAPIRole(g.roles) /\ ~ProbeThrows(g)
    /\ stage \in {"https", "info"} =>
         \E peer \in PeerSoFar(g, answering) : n = [g EXCEPT !.peer = peer]
    /\ stage \in {"chain", "all", "wss", "ws", "hung"} =>
         \E peer \in PeerSoFar(g, answering), role \in RolesSoFar(g, answering),
            port \in PortsSoFar(g, answering) :
             n = [g EXCEPT !.peer = peer, !.roles = role, !.port = port]
    /\ stage \in {"all", "wss", "ws", "hung"} => answering

ToldSoFar(stage, https, tells, told) ==
    /\ https => "https" \in told
    /\ stage \in {"all", "wss", "ws", "hung"} => "chain" \in told
    /\ stage = "wss" => https
    /\ tells = "up" => "health" \in told

\* The status is the former one until getStatus returns, and is always one that the next
\* round may find left with the node.
StatusSoFar(stage, n, was, status) ==
    /\ n # NoNode => status \in LeftWith(n)
    /\ stage # "end" => status = was

\* The routes pick nodes by these parts of the status (routes/index.ts).
ListedWithSsl(status) == status.isHttpsEnabled = "yes" /\ status.wss /\ status.webSocket
Suggested(status) == status.isAvailable /\ status.health = "up"

\* A node whose API was probed and that is then served as one with SSL has answered over
\* HTTPS and has opened a WebSocket over TLS in that very probe, and one that is suggested
\* has told its height and its health, although a status starts with defaults, is put
\* together from answers that come in any order, and is replaced when one of them is not
\* as expected (ApiNodeService.ts, getStatus).  A node whose API was not probed, because
\* the TCP probe threw or its role is no API role any more, goes on being served by the
\* status of an earlier round, whatever it would answer now (NodeMonitor.ts, getNodeInfo).
ApiProbed(g) == isAPIRole(g.roles) /\ ~ProbeThrows(g)

StatusTellsWhatAnswered ==
    \A k \in Keys : at[k] = "end" /\ node[k] # NoNode =>
        IF ApiProbed(given[k])
        THEN /\ ListedWithSsl(apiStatus[k]) => {"https", "chain", "wss"} \subseteq heard[k]
             /\ Suggested(apiStatus[k]) => {"chain", "health"} \subseteq heard[k]
        ELSE apiStatus[k] = former[k]

\* It is inductive.
Inv ==
    /\ TypeOK /\ ProbesReturnAsExpected /\ StatusTellsWhatAnswered
    /\ \A k \in Keys : /\ NodeSoFar(at[k], given[k], answers[k], node[k])
                       /\ ToldSoFar(at[k], isHttps[k], health[k], heard[k])
                       /\ StatusSoFar(at[k], node[k], former[k], apiStatus[k])

-----------------------------------------------------------------------------
\* Hosts that are silent, answer late or answer nonsense do not keep a chunk: unless the
\* check of a WebSocket hangs, all probes of the chunk come to their ends (Http.ts, whose
\* timers this is about).
SilentHostsDoNotKeepAChunk == [](\A k \in Keys : at[k] # "hung") => <>chunkDone

\* The comment on checkWebSocketHealth: "@param timeout - default 1000".  A check that has
\* begun, whatever its host does, has a result in the end and the probe returns.
WebSocketChecksTimeOut == \A k \in Keys : at[k] \in {"wss", "ws"} ~> at[k] = "end"
=============================================================================
