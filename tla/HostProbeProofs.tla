---------------------------- MODULE HostProbeProofs ----------------------------
(***************************************************************************)
(* Proofs about HostProbe, for every set of nodes, roles and ports.  A     *)
(* probe changes its own part of the state only, so that each step is      *)
(* looked at for the node it is about (Moves) and leaves the others as     *)
(* they are (Still).                                                       *)
(***************************************************************************)
EXTENDS HostProbe, TLAPS

\* What the invariant says of one probe.
Returned(stage, g, answering, n) == stage = "end" => n \in getNodeInfo(g, answering)

Told(stage, g, n, was, status, told) ==
    stage = "end" /\ n # NoNode =>
        IF ApiProbed(g)
        THEN /\ ListedWithSsl(status) => {"https", "chain", "wss"} \subseteq told
             /\ Suggested(status) => {"chain", "health"} \subseteq told
        ELSE status = was

Sound(k) ==
    /\ Returned(at[k], given[k], answers[k], node[k])
    /\ NodeSoFar(at[k], given[k], answers[k], node[k])
    /\ Told(at[k], given[k], node[k], former[k], apiStatus[k], heard[k])
    /\ ToldSoFar(at[k], isHttps[k], health[k], heard[k])
    /\ StatusSoFar(at[k], node[k], former[k], apiStatus[k])

LEMMA InvIsSound == Inv <=> TypeOK /\ \A k \in Keys : Sound(k)
  BY DEF Inv, Sound, Returned, Told, ProbesReturnAsExpected, StatusTellsWhatAnswered

\* A step of one probe leaves another one as it is.
Same(k) ==
    /\ given[k]' = given[k] /\ answers[k]' = answers[k] /\ node[k]' = node[k]
    /\ at[k]' = at[k] /\ isHttps[k]' = isHttps[k] /\ apiStatus[k]' = apiStatus[k]
    /\ heard[k]' = heard[k] /\ former[k]' = former[k] /\ health[k]' = health[k]

LEMMA Still == ASSUME NEW k \in Keys, Sound(k), Same(k) PROVE Sound(k)'
  BY DEF Sound, Same

-----------------------------------------------------------------------------
\* The statuses a probe returns are statuses.
LEMMA StatusTypes ==
  /\ NoStatus \in Status /\ NoStatus.isAvailable = FALSE
  /\ \A https \in BOOLEAN :
       DefaultStatus(https) \in Status /\ DefaultStatus(https).isAvailable = FALSE
  /\ \A told \in Health : Assembled(TRUE, told, TRUE, TRUE) \in Status
  /\ \A https \in BOOLEAN, told \in Health, webSocket \in BOOLEAN :
       Assembled(https, told, FALSE, webSocket) \in Status
<1>1. NoStatus.isAvailable = FALSE /\ \A https \in BOOLEAN : DefaultStatus(https).isAvailable = FALSE
  BY DEF NoStatus, DefaultStatus
<1>2. NoStatus \in Status /\ \A https \in BOOLEAN : DefaultStatus(https) \in Status
  BY DEF Status
<1>3. \A told \in Health : Assembled(TRUE, told, TRUE, TRUE) \in Status
  BY DEF Status, Assembled
<1>4. \A https \in BOOLEAN, told \in Health, webSocket \in BOOLEAN :
         Assembled(https, told, FALSE, webSocket) \in Status
  BY DEF Status, Assembled
<1> QED
  BY <1>1, <1>2, <1>3, <1>4

-----------------------------------------------------------------------------
Moves(k) == Settles(k) \/ WebSocketHangs(k)

LEMMA TypeInit == Init => TypeOK
<1> SUFFICES ASSUME Init PROVE TypeOK
  OBVIOUS
<1>1. \A k \in Keys : given[k] \in Node /\ Start(given[k]) \in {"tcp", "https", "end"}
  BY GivenAssumption DEF Init, Start
<1>2. former \in [Keys -> Status] /\ apiStatus \in [Keys -> Status] /\ health \in [Keys -> Health]
  BY DEF Init, Health
<1> QED
  BY <1>1, <1>2, GivenAssumption DEF Init, TypeOK

\* Before its end a probe holds the node it was started with, with other fields.
LEMMA NodeInProbe ==
  ASSUME TypeOK, NEW k \in Keys, Sound(k), at[k] # "end"
  PROVE  /\ node[k] \in Node
         /\ \A peer \in Statuses : [node[k] EXCEPT !.peer = peer] \in Node
         /\ \A api \in Statuses : [node[k] EXCEPT !.api = api] \in Node
         /\ \A role \in Roles, port \in Ports :
               [node[k] EXCEPT !.roles = role, !.port = port] \in Node
<1>1. given[k] \in Node
  BY DEF TypeOK
<1>2. \A peer \in PeerSoFar(given[k], answers[k]) : peer \in Statuses
  BY <1>1 DEF PeerSoFar, Statuses, Node
<1>3. /\ \A role \in RolesSoFar(given[k], answers[k]) : role \in Roles
      /\ \A port \in PortsSoFar(given[k], answers[k]) : port \in Ports
  BY <1>1 DEF RolesSoFar, PortsSoFar, Node
<1>4. NodeSoFar(at[k], given[k], answers[k], node[k])
  BY DEF Sound
<1>5. at[k] \in {"tcp", "https", "info", "chain", "all", "wss", "ws", "hung"}
  BY DEF TypeOK
<1>6. node[k] \in Node
  <2>1. CASE at[k] = "tcp"
    BY <1>1, <1>4, <2>1 DEF NodeSoFar
  <2>2. CASE at[k] \in {"https", "info"}
    <3>1. PICK peer \in PeerSoFar(given[k], answers[k]) : node[k] = [given[k] EXCEPT !.peer = peer]
      BY <1>4, <2>2 DEF NodeSoFar
    <3> QED
      BY <3>1, <1>1, <1>2 DEF Node
  <2>3. CASE at[k] \in {"chain", "all", "wss", "ws", "hung"}
    <3>1. PICK peer \in PeerSoFar(given[k], answers[k]), role \in RolesSoFar(given[k], answers[k]),
               port \in PortsSoFar(given[k], answers[k]) :
             node[k] = [given[k] EXCEPT !.peer = peer, !.roles = role, !.port = port]
      BY <1>4, <2>3 DEF NodeSoFar
    <3> QED
      BY <3>1, <1>1, <1>2, <1>3 DEF Node
  <2> QED
    BY <1>5, <2>1, <2>2, <2>3
<1> QED
  BY <1>6 DEF Node

\* Each variable of a probe but the node and the status, ...
LEMMA ControlMove ==
  ASSUME TypeOK, NEW k \in Keys, Moves(k)
  PROVE  /\ given' \in [Keys -> Node] /\ former' \in [Keys -> Status] /\ answers' \in [Keys -> BOOLEAN]
         /\ at' \in [Keys -> {"tcp", "https", "info", "chain", "all", "wss", "ws", "hung", "end"}]
         /\ isHttps' \in [Keys -> BOOLEAN] /\ complete' \in [Keys -> BOOLEAN]
         /\ open' \in [Keys -> SUBSET {"key", "server", "health"}]
         /\ health' \in [Keys -> Health]
         /\ heard' \in [Keys -> SUBSET Telling] /\ chunkDone' \in BOOLEAN
<1> DEFINE Hears == heard' = heard \/ \E request : Hear(k, request)
           Goes == at' = at \/ \E next \in {"https", "info", "chain", "all", "wss", "ws", "hung", "end"} : GoTo(k, next)
<1>h. ASSUME Hears PROVE heard' \in [Keys -> SUBSET Telling]
  BY <1>h DEF TypeOK, Hear
<1>g. ASSUME Goes PROVE at' \in [Keys -> {"tcp", "https", "info", "chain", "all", "wss", "ws", "hung", "end"}]
  BY <1>g DEF TypeOK, GoTo
<1>t. /\ given \in [Keys -> Node] /\ former \in [Keys -> Status] /\ answers \in [Keys -> BOOLEAN]
      /\ health \in [Keys -> Health] /\ isHttps \in [Keys -> BOOLEAN] /\ complete \in [Keys -> BOOLEAN]
      /\ open \in [Keys -> SUBSET {"key", "server", "health"}] /\ chunkDone \in BOOLEAN
  BY DEF TypeOK
<1> HIDE DEF Hears, Goes
<1>m. /\ Hears /\ Goes
      /\ given' = given /\ former' = former /\ answers' = answers /\ chunkDone' = chunkDone
      /\ health' = health \/ \E told \in Health : health' = [health EXCEPT ![k] = told]
      /\ isHttps' = isHttps \/ isHttps' = [isHttps EXCEPT ![k] = TRUE]
      /\ complete' = complete \/ complete' = [complete EXCEPT ![k] = TRUE]
      /\ open' = open \/ \E requests \in SUBSET {"key", "server", "health"} :
                            open' = [open EXCEPT ![k] = requests]
  <2> USE DEF Hears, Goes
  <2>1. CASE TcpProbe(k)
    BY <2>1 DEF TcpProbe
  <2>2. CASE buildHostUrl(k)
    BY <2>2 DEF buildHostUrl
  <2>3. CASE RequestNodeInfo(k)
    BY <2>3 DEF RequestNodeInfo
  <2>4. CASE RequestChainInfo(k)
    BY <2>4 DEF RequestChainInfo, Return
  <2>5. CASE \E request \in {"key", "server", "health"} : RequestSettles(k, request)
    <3>1. open[k] \subseteq {"key", "server", "health"} /\ health[k] \in Health
      BY <1>t
    <3> QED
      BY <2>5, <3>1 DEF RequestSettles, Health
  <2>6. CASE AllSettled(k)
    BY <2>6 DEF AllSettled, Return
  <2>7. CASE checkWebSocketHealth(k)
    BY <2>7 DEF checkWebSocketHealth, Return
  <2>8. CASE WebSocketHangs(k)
    BY <2>8 DEF WebSocketHangs
  <2> QED
    BY <2>1, <2>2, <2>3, <2>4, <2>5, <2>6, <2>7, <2>8 DEF Moves, Settles
<1>1. isHttps' \in [Keys -> BOOLEAN] /\ complete' \in [Keys -> BOOLEAN]
  BY <1>t, <1>m
<1>2. open' \in [Keys -> SUBSET {"key", "server", "health"}]
  BY <1>t, <1>m
<1>3. /\ given' \in [Keys -> Node] /\ former' \in [Keys -> Status]
      /\ answers' \in [Keys -> BOOLEAN] /\ chunkDone' \in BOOLEAN
  BY <1>t, <1>m
<1>4. health' \in [Keys -> Health]
  BY <1>t, <1>m
<1> QED
  BY <1>h, <1>g, <1>m, <1>1, <1>2, <1>3, <1>4

\* ... the node, ...
LEMMA NodeMove ==
  ASSUME TypeOK, NEW k \in Keys, Moves(k), Sound(k)
  PROVE  node' \in [Keys -> Node \cup {NoNode}]
<1>1. node' = node \/ \E n \in Node \cup {NoNode} : node' = [node EXCEPT ![k] = n]
  <2> USE NodeInProbe DEF Statuses
  <2>1. CASE TcpProbe(k)
    BY <2>1 DEF TcpProbe
  <2>2. CASE buildHostUrl(k)
    BY <2>2 DEF buildHostUrl
  <2>3. CASE RequestNodeInfo(k)
    <3>1. at[k] # "end"
      BY <2>3 DEF RequestNodeInfo
    <3>2. ASSUME NEW role \in Roles, NEW port \in Ports,
                 node' = [node EXCEPT ![k].roles = role, ![k].port = port]
          PROVE  \E n \in Node : node' = [node EXCEPT ![k] = n]
      <4>1. [node[k] EXCEPT !.roles = role, !.port = port] \in Node
        BY <3>1, NodeInProbe
      <4>2. node' = [node EXCEPT ![k] = [node[k] EXCEPT !.roles = role, !.port = port]]
        BY <3>2 DEF TypeOK
      <4> QED
        BY <4>1, <4>2
    <3> QED
      BY <2>3, <3>2 DEF RequestNodeInfo
  <2>4. CASE RequestChainInfo(k)
    BY <2>4 DEF RequestChainInfo, Return
  <2>5. CASE \E request \in {"key", "server", "health"} : RequestSettles(k, request)
    BY <2>5 DEF RequestSettles
  <2>6. CASE AllSettled(k)
    BY <2>6 DEF AllSettled, Return
  <2>7. CASE checkWebSocketHealth(k)
    BY <2>7 DEF checkWebSocketHealth, Return
  <2>8. CASE WebSocketHangs(k)
    BY <2>8 DEF WebSocketHangs
  <2> QED
    BY <2>1, <2>2, <2>3, <2>4, <2>5, <2>6, <2>7, <2>8 DEF Moves, Settles
<1> QED
  BY <1>1 DEF TypeOK

\* ... and the status keeps its type.
LEMMA StatusMove ==
  ASSUME TypeOK, NEW k \in Keys, Moves(k), Sound(k)
  PROVE  apiStatus' \in [Keys -> Status]
<1>1. apiStatus' = apiStatus \/ \E status \in Status : apiStatus' = [apiStatus EXCEPT ![k] = status]
  <2>s. isHttps[k] \in BOOLEAN /\ health[k] \in Health
    BY DEF TypeOK
  <2>1. CASE TcpProbe(k)
    BY <2>1 DEF TcpProbe
  <2>2. CASE buildHostUrl(k)
    BY <2>2 DEF buildHostUrl
  <2>3. CASE RequestNodeInfo(k)
    BY <2>3 DEF RequestNodeInfo
  <2>4. CASE RequestChainInfo(k)
    BY <2>4, <2>s, StatusTypes DEF RequestChainInfo, Return
  <2>5. CASE \E request \in {"key", "server", "health"} : RequestSettles(k, request)
    BY <2>5 DEF RequestSettles
  <2>6. CASE AllSettled(k)
    BY <2>6, StatusTypes DEF AllSettled, Return
  <2>7. CASE checkWebSocketHealth(k)
    <3>1. at[k] = "wss" => isHttps[k] = TRUE
      BY <2>s DEF Sound, ToldSoFar
    <3>2. at[k] = "wss" => WithWebSocket(k, TRUE, TRUE) \in Status
      BY <2>s, <3>1, StatusTypes DEF WithWebSocket
    <3>3. \A webSocket \in BOOLEAN : WithWebSocket(k, FALSE, webSocket) \in Status
      BY <2>s, StatusTypes DEF WithWebSocket
    <3> QED
      BY <2>7, <3>2, <3>3 DEF checkWebSocketHealth, Return
  <2>8. CASE WebSocketHangs(k)
    BY <2>8 DEF WebSocketHangs
  <2> QED
    BY <2>1, <2>2, <2>3, <2>4, <2>5, <2>6, <2>7, <2>8 DEF Moves, Settles
<1> QED
  BY <1>1 DEF TypeOK

LEMMA TypeMove ==
  ASSUME TypeOK, NEW k \in Keys, Moves(k), Sound(k)
  PROVE  TypeOK'
BY ControlMove, NodeMove, StatusMove DEF TypeOK

\* The other probes of the chunk stay where they are.
LEMMA OthersStay ==
  ASSUME TypeOK, NEW k \in Keys, Moves(k), NEW j \in Keys, j # k
  PROVE  Same(j)
<1> USE DEF TypeOK, GoTo, Hear, Same
<1>1. CASE TcpProbe(k)
  BY <1>1 DEF TcpProbe
<1>2. CASE buildHostUrl(k)
  BY <1>2 DEF buildHostUrl
<1>3. CASE RequestNodeInfo(k)
  BY <1>3 DEF RequestNodeInfo
<1>4. CASE RequestChainInfo(k)
  BY <1>4 DEF RequestChainInfo, Return
<1>5. CASE \E request \in {"key", "server", "health"} : RequestSettles(k, request)
  BY <1>5 DEF RequestSettles
<1>6. CASE AllSettled(k)
  BY <1>6 DEF AllSettled, Return
<1>7. CASE checkWebSocketHealth(k)
  BY <1>7 DEF checkWebSocketHealth, Return
<1>8. CASE WebSocketHangs(k)
  BY <1>8 DEF WebSocketHangs
<1> QED
  BY <1>1, <1>2, <1>3, <1>4, <1>5, <1>6, <1>7, <1>8 DEF Moves, Settles
-----------------------------------------------------------------------------
\* The result of a probe that comes to its end is one that the rules know, ...
LEMMA ProbedApi ==
  ASSUME NEW g \in Node, NEW a \in BOOLEAN, isAPIRole(g.roles), ~ProbeThrows(g),
         NEW peer \in PeerSoFar(g, a), NEW role \in RolesSoFar(g, a),
         NEW port \in PortsSoFar(g, a), NEW api \in {"down"} \cup (IF a THEN {"up"} ELSE {})
  PROVE  [g EXCEPT !.peer = peer, !.api = api, !.roles = role, !.port = port] \in getNodeInfo(g, a)
<1> DEFINE result == [g EXCEPT !.peer = peer, !.api = api, !.roles = role, !.port = port]
<1>1. CASE a
  <2>1. /\ peer \in PeerResults(g) /\ api \in ApiResults(g)
        /\ role \in RoleResults(g) /\ port \in PortResults(g)
    BY <1>1 DEF PeerSoFar, RolesSoFar, PortsSoFar, PeerResults, ApiResults, RoleResults, PortResults
  <2> DEFINE o == <<peer, api, role, port>>
  <2>2. o \in PeerResults(g) \X ApiResults(g) \X RoleResults(g) \X PortResults(g)
    BY <2>1
  <2>3. result = [g EXCEPT !.peer = o[1], !.api = o[2], !.roles = o[3], !.port = o[4]]
    OBVIOUS
  <2>4. result \in AnsweredResults(g)
    BY <2>2, <2>3 DEF AnsweredResults
  <2> QED
    BY <1>1, <2>4 DEF getNodeInfo
<1>2. CASE ~a
  <2>1. /\ peer = IF isPeerRole(g.roles) THEN "down" ELSE g.peer
        /\ role = g.roles /\ port = g.port /\ api = "down"
    BY <1>2 DEF PeerSoFar, RolesSoFar, PortsSoFar
  <2>2. result = SilentResult(g)
    BY <2>1 DEF SilentResult, Node
  <2> QED
    BY <1>2, <2>2 DEF getNodeInfo
<1> QED
  BY <1>1, <1>2

\* ... also if the API is not probed, ...
LEMMA ProbedPeer ==
  ASSUME NEW g \in Node, NEW a \in BOOLEAN, ~isAPIRole(g.roles), ~ProbeThrows(g),
         NEW peer \in PeerSoFar(g, a)
  PROVE  [g EXCEPT !.peer = peer] \in getNodeInfo(g, a)
<1> DEFINE result == [g EXCEPT !.peer = peer]
<1>1. CASE a
  <2>1. /\ peer \in PeerResults(g) /\ g.api \in ApiResults(g)
        /\ g.roles \in RoleResults(g) /\ g.port \in PortResults(g)
    BY <1>1 DEF PeerSoFar, PeerResults, ApiResults, RoleResults, PortResults
  <2> DEFINE o == <<peer, g.api, g.roles, g.port>>
  <2>2. o \in PeerResults(g) \X ApiResults(g) \X RoleResults(g) \X PortResults(g)
    BY <2>1
  <2>3. result = [g EXCEPT !.peer = o[1], !.api = o[2], !.roles = o[3], !.port = o[4]]
    BY DEF Node
  <2>4. result \in AnsweredResults(g)
    BY <2>2, <2>3 DEF AnsweredResults
  <2> QED
    BY <1>1, <2>4 DEF getNodeInfo
<1>2. CASE ~a
  <2>1. peer = IF isPeerRole(g.roles) THEN "down" ELSE g.peer
    BY <1>2 DEF PeerSoFar
  <2>2. result = SilentResult(g)
    BY <2>1 DEF SilentResult, Node
  <2> QED
    BY <1>2, <2>2 DEF getNodeInfo
<1> QED
  BY <1>1, <1>2

\* What a probe may hold when it is at a stage.
Held(stage, g, a, n) == Returned(stage, g, a, n) /\ NodeSoFar(stage, g, a, n)

LEMMA HeldEnd ==
  ASSUME NEW g, NEW a, NEW n \in getNodeInfo(g, a)
  PROVE  Held("end", g, a, n)
BY DEF Held, Returned, NodeSoFar

LEMMA HeldBefore ==
  ASSUME NEW g, NEW a, isAPIRole(g.roles), ~ProbeThrows(g), NEW peer \in PeerSoFar(g, a),
         NEW stage \in {"https", "info"}
  PROVE  Held(stage, g, a, [g EXCEPT !.peer = peer])
BY DEF Held, Returned, NodeSoFar

\* The node as it and its host have told of it.
AsTold(g, peer, role, port) == [g EXCEPT !.peer = peer, !.roles = role, !.port = port]

LEMMA HeldChain ==
  ASSUME NEW g, NEW a, isAPIRole(g.roles), ~ProbeThrows(g), NEW peer \in PeerSoFar(g, a),
         NEW role \in RolesSoFar(g, a), NEW port \in PortsSoFar(g, a)
  PROVE  Held("chain", g, a, AsTold(g, peer, role, port))
BY DEF Held, Returned, NodeSoFar, AsTold

LEMMA HeldOn ==
  ASSUME NEW g, NEW a, NEW n, a, NEW from \in {"chain", "all", "wss", "ws"},
         NEW stage \in {"all", "wss", "ws", "hung"}, NodeSoFar(from, g, a, n)
  PROVE  Held(stage, g, a, n)
BY DEF Held, Returned, NodeSoFar

\* A probe that has reached the API ends with the status it returns.
LEMMA ReturnsResult ==
  ASSUME TypeOK, NEW k \in Keys, Sound(k), at[k] \in {"chain", "all", "wss", "ws"},
         NEW status, Return(k, status), status.isAvailable => answers[k]
  PROVE  Held(at'[k], given[k], answers[k], node'[k])
<1> DEFINE g == given[k]
           a == answers[k]
           api == IF status.isAvailable THEN "up" ELSE "down"
<1>t. g \in Node /\ a \in BOOLEAN
  BY DEF TypeOK
<1>s. isAPIRole(g.roles) /\ ~ProbeThrows(g)
  BY DEF Sound, NodeSoFar
<1>1. PICK peer \in PeerSoFar(g, a), role \in RolesSoFar(g, a), port \in PortsSoFar(g, a) :
         node[k] = [g EXCEPT !.peer = peer, !.roles = role, !.port = port]
  BY DEF Sound, NodeSoFar
<1>2. at'[k] = "end" /\ node'[k] = [node[k] EXCEPT !.api = api]
  BY DEF Return, GoTo, TypeOK
<1>3. node'[k] = [g EXCEPT !.peer = peer, !.api = api, !.roles = role, !.port = port]
  BY <1>t, <1>1, <1>2 DEF Node
<1>4. api \in {"down"} \cup (IF a THEN {"up"} ELSE {})
  OBVIOUS
<1>5. [g EXCEPT !.peer = peer, !.api = api, !.roles = role, !.port = port] \in getNodeInfo(g, a)
  <2> HIDE DEF g, a, api
  <2> QED
    BY <1>t, <1>s, <1>4, ProbedApi
<1> QED
  BY <1>2, <1>3, <1>5, HeldEnd

\* The node of a probe: every stage changes of it what the rules allow.
LEMMA NodeStays ==
  ASSUME TypeOK, NEW k \in Keys, Moves(k), Sound(k)
  PROVE  Held(at'[k], given[k], answers[k], node'[k])
<1> DEFINE g == given[k]
           a == answers[k]
<1>t. g \in Node /\ a \in BOOLEAN /\ node[k] \in Node \cup {NoNode}
  BY DEF TypeOK
<1>n. NodeSoFar(at[k], g, a, node[k])
  BY DEF Sound
<1>1. CASE TcpProbe(k)
  <2>1. at[k] = "tcp" /\ node[k] = g /\ isPeerRole(g.roles)
    BY <1>1, <1>n DEF TcpProbe, NodeSoFar
  <2>2. CASE g.port = "bad"
    <3>1. at'[k] = "end" /\ node'[k] = g
      BY <1>1, <2>1, <2>2 DEF TcpProbe, GoTo, TypeOK
    <3>2. g \in getNodeInfo(g, a)
      BY <2>1, <2>2 DEF getNodeInfo, ProbeThrows
    <3> QED
      BY <3>1, <3>2, HeldEnd
  <2>3. CASE g.port # "bad"
    <3>1. PICK peer \in PeerSoFar(g, a) : node' = [node EXCEPT ![k].peer = peer]
      BY <1>1, <2>1, <2>3 DEF TcpProbe, Hear, PeerSoFar
    <3>2. node'[k] = [g EXCEPT !.peer = peer]
      BY <3>1, <2>1 DEF TypeOK
    <3>3. at'[k] = IF isAPIRole(g.roles) THEN "https" ELSE "end"
      BY <1>1, <2>1, <2>3 DEF TcpProbe, GoTo, TypeOK
    <3>4. ~ProbeThrows(g)
      BY <2>3 DEF ProbeThrows
    <3>5. CASE isAPIRole(g.roles)
      BY <3>2, <3>3, <3>4, <3>5, HeldBefore
    <3>6. CASE ~isAPIRole(g.roles)
      <4>1. [g EXCEPT !.peer = peer] \in getNodeInfo(g, a)
        BY <1>t, <3>4, <3>6, ProbedPeer
      <4> QED
        BY <4>1, <3>2, <3>3, <3>6, HeldEnd
    <3> QED
      BY <3>5, <3>6
  <2> QED
    BY <2>2, <2>3
<1>2. CASE buildHostUrl(k)
  <2>1. at[k] = "https" /\ at'[k] = "info" /\ node'[k] = node[k]
    BY <1>2 DEF buildHostUrl, GoTo, TypeOK
  <2>2. isAPIRole(g.roles) /\ ~ProbeThrows(g)
    BY <1>n, <2>1 DEF NodeSoFar
  <2>3. PICK peer \in PeerSoFar(g, a) : node[k] = [g EXCEPT !.peer = peer]
    BY <1>n, <2>1 DEF NodeSoFar
  <2> QED
    BY <2>1, <2>2, <2>3, HeldBefore
<1>3. CASE RequestNodeInfo(k)
  <2>1. PICK peer \in PeerSoFar(g, a) : node[k] = [g EXCEPT !.peer = peer]
    BY <1>3, <1>n DEF RequestNodeInfo, NodeSoFar
  <2>2. isAPIRole(g.roles) /\ ~ProbeThrows(g)
    BY <1>3, <1>n DEF RequestNodeInfo, NodeSoFar
  <2>3. CASE a /\ GoTo(k, "end") /\ node' = [node EXCEPT ![k] = NoNode]
    <3>1. at'[k] = "end" /\ node'[k] = NoNode
      BY <2>3 DEF GoTo, TypeOK
    <3>2. NoNode \in getNodeInfo(g, a)
      BY <2>2, <2>3 DEF getNodeInfo
    <3> QED
      BY <3>1, <3>2, HeldEnd
  <2>4. ASSUME a, GoTo(k, "chain"), NEW role \in Roles, NEW port \in Ports,
               node' = [node EXCEPT ![k].roles = role, ![k].port = port]
        PROVE  Held(at'[k], g, a, node'[k])
    <3>1. at'[k] = "chain" /\ node'[k] = [node[k] EXCEPT !.roles = role, !.port = port]
      BY <2>4 DEF GoTo, TypeOK
    <3>2. node'[k] = AsTold(g, peer, role, port)
      BY <3>1, <2>1, <1>t DEF Node, AsTold
    <3>3. role \in RolesSoFar(g, a) /\ port \in PortsSoFar(g, a)
      BY <2>4 DEF RolesSoFar, PortsSoFar
    <3> QED
      BY <2>1, <2>2, <3>1, <3>2, <3>3, HeldChain
  <2>5. CASE GoTo(k, "chain") /\ node' = node
    <3>1. at'[k] = "chain" /\ node'[k] = node[k]
      BY <2>5 DEF GoTo, TypeOK
    <3>2. node[k] = AsTold(g, peer, g.roles, g.port)
      BY <2>1, <1>t DEF Node, AsTold
    <3>3. g.roles \in RolesSoFar(g, a) /\ g.port \in PortsSoFar(g, a)
      BY <1>t DEF RolesSoFar, PortsSoFar, Node
    <3> QED
      BY <2>1, <2>2, <3>1, <3>2, <3>3, HeldChain
  <2> QED
    BY <1>3, <2>3, <2>4, <2>5 DEF RequestNodeInfo, Hear
<1>4. CASE RequestChainInfo(k)
  <2>1. at[k] = "chain"
    BY <1>4 DEF RequestChainInfo
  <2>2. CASE a /\ GoTo(k, "all") /\ node' = node
    <3>1. at'[k] = "all" /\ node'[k] = node[k]
      BY <2>2 DEF GoTo, TypeOK
    <3> QED
      BY <1>n, <2>1, <2>2, <3>1, HeldOn
  <2>3. CASE Return(k, DefaultStatus(isHttps[k]))
    <3>1. ~DefaultStatus(isHttps[k]).isAvailable
      BY StatusTypes DEF TypeOK
    <3> QED
      BY <2>1, <2>3, <3>1, ReturnsResult
  <2> QED
    BY <1>4, <2>2, <2>3 DEF RequestChainInfo, Hear
<1>5. CASE \E request \in {"key", "server", "health"} : RequestSettles(k, request)
  <2>1. at[k] = "all" /\ at'[k] = "all" /\ node'[k] = node[k]
    BY <1>5 DEF RequestSettles
  <2>2. a
    BY <1>n, <2>1 DEF NodeSoFar
  <2> QED
    BY <1>n, <2>1, <2>2, HeldOn
<1>6. CASE AllSettled(k)
  <2>1. at[k] = "all" /\ a
    BY <1>6, <1>n DEF AllSettled, NodeSoFar
  <2>2. ASSUME NEW next \in {"wss", "ws"}, GoTo(k, next), node' = node
        PROVE  Held(at'[k], g, a, node'[k])
    <3>1. at'[k] = next /\ node'[k] = node[k]
      BY <2>2 DEF GoTo, TypeOK
    <3> QED
      BY <1>n, <2>1, <3>1, HeldOn
  <2>3. CASE Return(k, NoStatus)
    <3>1. ~NoStatus.isAvailable
      BY StatusTypes
    <3> QED
      BY <2>1, <2>3, <3>1, ReturnsResult
  <2> QED
    BY <1>6, <2>2, <2>3 DEF AllSettled
<1>7. CASE checkWebSocketHealth(k)
  <2>1. at[k] \in {"wss", "ws"} /\ a
    BY <1>7, <1>n DEF checkWebSocketHealth, NodeSoFar
  <2>2. CASE GoTo(k, "ws") /\ node' = node
    <3>1. at'[k] = "ws" /\ node'[k] = node[k]
      BY <2>2 DEF GoTo, TypeOK
    <3> QED
      BY <1>n, <2>1, <3>1, HeldOn
  <2>3. ASSUME NEW wss \in BOOLEAN, NEW available \in BOOLEAN, Return(k, WithWebSocket(k, wss, available))
        PROVE  Held(at'[k], g, a, node'[k])
    BY <2>1, <2>3, ReturnsResult
  <2> QED
    BY <1>7, <2>2, <2>3 DEF checkWebSocketHealth
<1>8. CASE WebSocketHangs(k)
  <2>1. at[k] \in {"wss", "ws"} /\ a /\ at'[k] = "hung" /\ node'[k] = node[k]
    BY <1>8 DEF WebSocketHangs, GoTo, TypeOK
  <2> QED
    BY <1>n, <2>1, HeldOn
<1> QED
  BY <1>1, <1>2, <1>3, <1>4, <1>5, <1>6, <1>7, <1>8 DEF Moves, Settles
-----------------------------------------------------------------------------
\* What has been heard: no stage is reached, and no health known, without it.
LEMMA ToldStays ==
  ASSUME TypeOK, NEW k \in Keys, Moves(k), Sound(k)
  PROVE  /\ ToldSoFar(at'[k], isHttps'[k], health'[k], heard'[k])
         /\ heard[k] \subseteq heard'[k]
<1>t. isHttps[k] \in BOOLEAN /\ health[k] \in Health /\ heard[k] \in SUBSET Telling
  BY DEF TypeOK
<1>s. ToldSoFar(at[k], isHttps[k], health[k], heard[k])
  BY DEF Sound
<1>h. ASSUME NEW request, Hear(k, request)
      PROVE  heard'[k] = heard[k] \cup ({request} \cap Telling)
  BY <1>h DEF Hear, TypeOK
<1>g. ASSUME NEW next, GoTo(k, next) PROVE at'[k] = next
  BY <1>g DEF GoTo, TypeOK
<1> USE DEF ToldSoFar, Telling
<1>1. CASE TcpProbe(k)
  <2>1. at'[k] \in {"https", "end"} /\ isHttps'[k] = isHttps[k] /\ health'[k] = health[k]
    BY <1>1, <1>g DEF TcpProbe
  <2>2. heard[k] \subseteq heard'[k]
    BY <1>1, <1>h DEF TcpProbe
  <2> QED
    BY <1>s, <2>1, <2>2
<1>2. CASE buildHostUrl(k)
  <2>1. at'[k] = "info" /\ health'[k] = health[k]
    BY <1>2, <1>g DEF buildHostUrl
  <2>2. heard[k] \subseteq heard'[k] /\ (isHttps'[k] => "https" \in heard'[k])
    <3>1. CASE isHttps' = isHttps /\ heard' = heard
      BY <1>s, <3>1
    <3>2. CASE Hear(k, "https")
      BY <1>h, <3>2
    <3> QED
      BY <1>2, <3>1, <3>2 DEF buildHostUrl
  <2> QED
    BY <1>s, <2>1, <2>2
<1>3. CASE RequestNodeInfo(k)
  <2>1. at'[k] \in {"chain", "end"} /\ isHttps'[k] = isHttps[k] /\ health'[k] = health[k]
    BY <1>3, <1>g DEF RequestNodeInfo
  <2>2. heard[k] \subseteq heard'[k]
    BY <1>3, <1>h DEF RequestNodeInfo
  <2> QED
    BY <1>s, <2>1, <2>2
<1>4. CASE RequestChainInfo(k)
  <2>1. isHttps'[k] = isHttps[k] /\ health'[k] = health[k]
    BY <1>4 DEF RequestChainInfo
  <2>2. CASE Hear(k, "chain") /\ GoTo(k, "all")
    <3>1. at'[k] = "all" /\ heard'[k] = heard[k] \cup {"chain"}
      BY <1>g, <1>h, <2>2
    <3> QED
      BY <1>s, <2>1, <3>1
  <2>3. CASE Return(k, DefaultStatus(isHttps[k])) /\ heard' = heard
    <3>1. at'[k] = "end"
      BY <1>g, <2>3 DEF Return
    <3> QED
      BY <1>s, <2>1, <2>3, <3>1
  <2> QED
    BY <1>4, <2>2, <2>3 DEF RequestChainInfo
<1>5. CASE \E request \in {"key", "server", "health"} : RequestSettles(k, request)
  <2>1. PICK request \in {"key", "server", "health"} : RequestSettles(k, request)
    BY <1>5
  <2>2. at[k] = "all" /\ at'[k] = "all" /\ isHttps'[k] = isHttps[k]
    BY <2>1 DEF RequestSettles
  <2>3. CASE health' = health /\ heard' = heard
    BY <1>s, <2>2, <2>3
  <2>4. CASE Hear(k, request)
    <3>1. PICK told \in IF request = "health" THEN {"up", "down"} ELSE {health[k]} :
             health' = [health EXCEPT ![k] = told] \/ health' = health
      BY <2>1 DEF RequestSettles
    <3>2. health'[k] = told \/ health'[k] = health[k]
      BY <3>1 DEF TypeOK
    <3>3. heard'[k] = heard[k] \cup ({request} \cap Telling)
      BY <1>h, <2>4
    <3> QED
      BY <1>s, <2>2, <3>2, <3>3
  <2> QED
    BY <2>1, <2>3, <2>4 DEF RequestSettles
<1>6. CASE AllSettled(k)
  <2>1. /\ at[k] = "all" /\ isHttps'[k] = isHttps[k] /\ heard'[k] = heard[k] /\ health'[k] = health[k]
        /\ at'[k] = (IF isHttps[k] THEN "wss" ELSE "ws") \/ at'[k] = "end"
    BY <1>6, <1>g DEF AllSettled, Return
  <2> QED
    BY <1>s, <2>1
<1>7. CASE checkWebSocketHealth(k)
  <2>1. /\ at[k] \in {"wss", "ws"} /\ at'[k] \in {"ws", "end"}
        /\ isHttps'[k] = isHttps[k] /\ health'[k] = health[k]
    BY <1>7, <1>g DEF checkWebSocketHealth, Return
  <2>2. heard[k] \subseteq heard'[k]
    BY <1>7, <1>h DEF checkWebSocketHealth
  <2> QED
    BY <1>s, <2>1, <2>2
<1>8. CASE WebSocketHangs(k)
  <2>1. /\ at[k] \in {"wss", "ws"} /\ at'[k] = "hung" /\ heard'[k] = heard[k]
        /\ isHttps'[k] = isHttps[k] /\ health'[k] = health[k]
    BY <1>8, <1>g DEF WebSocketHangs
  <2> QED
    BY <1>s, <2>1
<1> QED
  BY <1>1, <1>2, <1>3, <1>4, <1>5, <1>6, <1>7, <1>8 DEF Moves, Settles

\* The status of a probe: the former one until the probe returns, and what is then told of
\* it by what was heard.
Shown(stage, g, n, was, status, told) ==
    Told(stage, g, n, was, status, told) /\ StatusSoFar(stage, n, was, status)

\* A probe goes on, and leaves the status as it was, ...
LEMMA ShownOn ==
  ASSUME NEW g, NEW n, NEW n2, NEW was, NEW told, NEW stage, stage # "end",
         n # NoNode => was \in LeftWith(n), n2 # NoNode => n # NoNode /\ n2.api = n.api
  PROVE  Shown(stage, g, n2, was, was, told)
BY DEF Shown, Told, StatusSoFar, LeftWith

\* ... or ends before it has got to the API, ...
LEMMA ShownFormer ==
  ASSUME NEW g, NEW n, NEW n2, NEW was, NEW told, ~ApiProbed(g),
         n # NoNode => was \in LeftWith(n), n2 # NoNode => n # NoNode /\ n2.api = n.api
  PROVE  Shown("end", g, n2, was, was, told)
BY DEF Shown, Told, StatusSoFar, LeftWith

\* ... or returns with a new status.
LEMMA ShownNew ==
  ASSUME TypeOK, NEW k \in Keys, NEW g, NEW was, NEW told, NEW status \in Status, ApiProbed(g),
         node[k] \in Node, Return(k, status), status.isAvailable \in BOOLEAN,
         ListedWithSsl(status) => {"https", "chain", "wss"} \subseteq told,
         Suggested(status) => {"chain", "health"} \subseteq told
  PROVE  Shown(at'[k], g, node'[k], was, apiStatus'[k], told)
<1>1. at'[k] = "end" /\ apiStatus'[k] = status
  BY DEF Return, GoTo, TypeOK
<1>2. node'[k] = [node[k] EXCEPT !.api = IF status.isAvailable THEN "up" ELSE "down"]
  BY DEF Return, TypeOK
<1>3. node'[k].api = IF status.isAvailable THEN "up" ELSE "down"
  BY <1>2 DEF Node
<1>4. status \in LeftWith(node'[k])
  BY <1>3 DEF LeftWith
<1> QED
  BY <1>1, <1>4 DEF Shown, Told, StatusSoFar

LEMMA StatusStays ==
  ASSUME TypeOK, NEW k \in Keys, Moves(k), Sound(k)
  PROVE  Shown(at'[k], given[k], node'[k], former[k], apiStatus'[k], heard'[k])
<1> DEFINE g == given[k]
           was == former[k]
<1>t. isHttps[k] \in BOOLEAN /\ health[k] \in Health /\ g \in Node
  BY DEF TypeOK
<1>s. ToldSoFar(at[k], isHttps[k], health[k], heard[k])
  BY DEF Sound
<1>e. at[k] # "end"
  BY DEF Moves, Settles, TcpProbe, buildHostUrl, RequestNodeInfo, RequestChainInfo,
         RequestSettles, AllSettled, checkWebSocketHealth, WebSocketHangs
<1>n. node[k] \in Node /\ node[k] # NoNode
  BY <1>e, NodeInProbe, NoNodeAssumption
<1>w. apiStatus[k] = was /\ was \in LeftWith(node[k])
  BY <1>e, <1>n DEF Sound, StatusSoFar
<1>a. at[k] # "tcp" => ApiProbed(g)
  BY <1>e DEF Sound, NodeSoFar, ApiProbed
<1>r. ToldSoFar(at'[k], isHttps'[k], health'[k], heard'[k]) /\ heard[k] \subseteq heard'[k]
  BY ToldStays
<1>g. ASSUME NEW next, GoTo(k, next) PROVE at'[k] = next
  BY <1>g DEF GoTo, TypeOK
<1>1. CASE TcpProbe(k)
  <2>1. apiStatus'[k] = was /\ node'[k].api = node[k].api
    BY <1>1, <1>w, <1>n DEF TcpProbe, TypeOK, Node
  <2>2. node[k] = g /\ isPeerRole(g.roles)
    BY <1>1 DEF TcpProbe, Sound, NodeSoFar
  <2>3. at'[k] = "https" \/ (at'[k] = "end" /\ ~ApiProbed(g))
    BY <1>1, <1>g, <2>2 DEF TcpProbe, ApiProbed, ProbeThrows
  <2> QED
    BY <1>n, <1>w, <2>1, <2>3, ShownOn, ShownFormer
<1>2. CASE buildHostUrl(k)
  <2>1. apiStatus'[k] = was /\ node'[k] = node[k] /\ at'[k] = "info"
    BY <1>2, <1>w, <1>g DEF buildHostUrl
  <2> QED
    BY <1>n, <1>w, <2>1, ShownOn
<1>3. CASE RequestNodeInfo(k)
  <2>1. apiStatus'[k] = was
    BY <1>3, <1>w DEF RequestNodeInfo
  <2>2. CASE GoTo(k, "end") /\ node' = [node EXCEPT ![k] = NoNode]
    <3>1. at'[k] = "end" /\ node'[k] = NoNode
      BY <1>g, <2>2 DEF TypeOK
    <3> QED
      BY <3>1 DEF Shown, Told, StatusSoFar
  <2>3. CASE GoTo(k, "chain") /\ node'[k].api = node[k].api
    <3>1. at'[k] = "chain"
      BY <1>g, <2>3
    <3> QED
      BY <1>n, <1>w, <2>1, <2>3, <3>1, ShownOn
  <2>4. ASSUME NEW role \in Roles, NEW port \in Ports,
               node' = [node EXCEPT ![k].roles = role, ![k].port = port]
        PROVE  node'[k].api = node[k].api
    <3>1. node'[k] = [node[k] EXCEPT !.roles = role, !.port = port]
      BY <2>4 DEF TypeOK
    <3> QED
      BY <1>n, <3>1 DEF Node
  <2> QED
    BY <1>3, <2>2, <2>3, <2>4 DEF RequestNodeInfo
<1>4. CASE RequestChainInfo(k)
  <2>1. CASE GoTo(k, "all") /\ apiStatus' = apiStatus /\ node' = node
    <3>1. at'[k] = "all"
      BY <1>g, <2>1
    <3> QED
      BY <1>n, <1>w, <2>1, <3>1, ShownOn
  <2>2. CASE Return(k, DefaultStatus(isHttps[k]))
    <3>1. /\ ~ListedWithSsl(DefaultStatus(isHttps[k])) /\ ~Suggested(DefaultStatus(isHttps[k]))
          /\ DefaultStatus(isHttps[k]).isAvailable = FALSE
      BY DEF DefaultStatus, NoStatus, ListedWithSsl, Suggested
    <3>2. DefaultStatus(isHttps[k]) \in Status /\ ApiProbed(g)
      BY <1>4, <1>t, <1>a, StatusTypes DEF RequestChainInfo
    <3> QED
      BY <1>n, <2>2, <3>1, <3>2, ShownNew
  <2> QED
    BY <1>4, <2>1, <2>2 DEF RequestChainInfo
<1>5. CASE \E request \in {"key", "server", "health"} : RequestSettles(k, request)
  <2>1. apiStatus'[k] = was /\ node'[k] = node[k] /\ at'[k] = "all"
    BY <1>5, <1>w DEF RequestSettles
  <2> QED
    BY <1>n, <1>w, <2>1, ShownOn
<1>6. CASE AllSettled(k)
  <2>1. CASE /\ GoTo(k, IF isHttps[k] THEN "wss" ELSE "ws")
             /\ apiStatus' = apiStatus /\ node' = node
    <3>1. at'[k] \in {"wss", "ws"}
      BY <1>g, <2>1
    <3> QED
      BY <1>n, <1>w, <2>1, <3>1, ShownOn
  <2>2. CASE Return(k, NoStatus)
    <3>1. ~ListedWithSsl(NoStatus) /\ ~Suggested(NoStatus) /\ NoStatus.isAvailable = FALSE
      BY DEF NoStatus, ListedWithSsl, Suggested
    <3>2. NoStatus \in Status /\ ApiProbed(g)
      BY <1>6, <1>a, StatusTypes DEF AllSettled
    <3> QED
      BY <1>n, <2>2, <3>1, <3>2, ShownNew
  <2> QED
    BY <1>6, <2>1, <2>2 DEF AllSettled
<1>7. CASE checkWebSocketHealth(k)
  <2>1. at[k] \in {"wss", "ws"} /\ ApiProbed(g) /\ {"chain"} \subseteq heard'[k]
    BY <1>7, <1>a, <1>s, <1>r DEF checkWebSocketHealth, ToldSoFar
  <2>2. CASE GoTo(k, "ws") /\ apiStatus' = apiStatus /\ node' = node
    <3>1. at'[k] = "ws"
      BY <1>g, <2>2
    <3> QED
      BY <1>n, <1>w, <2>2, <3>1, ShownOn
  <2>3. ASSUME NEW wss \in BOOLEAN, NEW webSocket \in BOOLEAN,
               WithWebSocket(k, wss, webSocket) \in Status,
               Return(k, WithWebSocket(k, wss, webSocket)),
               wss => "wss" \in heard'[k]
        PROVE  Shown(at'[k], g, node'[k], was, apiStatus'[k], heard'[k])
    <3> DEFINE status == WithWebSocket(k, wss, webSocket)
    <3>1. /\ status.isAvailable = TRUE /\ status.health = health[k] /\ status.wss = wss
          /\ status.isHttpsEnabled = "yes" => isHttps[k]
      BY DEF WithWebSocket, Assembled
    <3>2. isHttps[k] => "https" \in heard'[k]
      BY <1>s, <1>r DEF ToldSoFar
    <3>3. health[k] = "up" => "health" \in heard'[k]
      BY <1>s, <1>r DEF ToldSoFar
    <3>4. ListedWithSsl(status) => {"https", "chain", "wss"} \subseteq heard'[k]
      BY <2>1, <2>3, <3>1, <3>2 DEF ListedWithSsl
    <3>5. Suggested(status) => {"chain", "health"} \subseteq heard'[k]
      BY <2>1, <3>1, <3>3 DEF Suggested
    <3>6. status \in Status /\ status.isAvailable \in BOOLEAN /\ Return(k, status)
      BY <2>3, <3>1
    <3> HIDE DEF status
    <3> QED
      BY <1>n, <2>1, <3>4, <3>5, <3>6, ShownNew
  <2>4. CASE at[k] = "wss" /\ Hear(k, "wss") /\ Return(k, WithWebSocket(k, TRUE, TRUE))
    <3>1. isHttps[k] = TRUE
      BY <1>s, <1>t, <2>4 DEF ToldSoFar
    <3>2. WithWebSocket(k, TRUE, TRUE) \in Status
      BY <1>t, <3>1, StatusTypes DEF WithWebSocket
    <3>3. "wss" \in heard'[k]
      BY <2>4 DEF Hear, Telling, TypeOK
    <3> QED
      BY <2>3, <2>4, <3>2, <3>3
  <2>5. ASSUME NEW webSocket \in BOOLEAN, Return(k, WithWebSocket(k, FALSE, webSocket))
        PROVE  Shown(at'[k], g, node'[k], was, apiStatus'[k], heard'[k])
    <3>1. WithWebSocket(k, FALSE, webSocket) \in Status
      BY <1>t, StatusTypes DEF WithWebSocket
    <3> QED
      BY <2>3, <2>5, <3>1
  <2> QED
    BY <1>7, <2>2, <2>4, <2>5 DEF checkWebSocketHealth
<1>8. CASE WebSocketHangs(k)
  <2>1. apiStatus'[k] = was /\ node'[k] = node[k] /\ at'[k] = "hung"
    BY <1>8, <1>w, <1>g DEF WebSocketHangs
  <2> QED
    BY <1>n, <1>w, <2>1, ShownOn
<1> QED
  BY <1>1, <1>2, <1>3, <1>4, <1>5, <1>6, <1>7, <1>8 DEF Moves, Settles
-----------------------------------------------------------------------------
LEMMA InvInit == Init => Inv
<1> SUFFICES ASSUME Init PROVE Inv
  OBVIOUS
<1>1. TypeOK
  BY TypeInit
<1>2. ASSUME NEW k \in Keys PROVE Sound(k)
  <2> DEFINE g == given[k]
             a == answers[k]
  <2>t. g \in Node /\ a \in BOOLEAN
    BY <1>1 DEF TypeOK
  <2>0. /\ node[k] = g /\ at[k] = Start(g) /\ isHttps[k] = FALSE /\ health[k] = "absent"
        /\ former[k] \in LeftWith(g) /\ apiStatus[k] = former[k]
    BY DEF Init
  <2>1. Held(Start(g), g, a, g)
    <3>1. CASE isPeerRole(g.roles)
      BY <3>1 DEF Start, Held, Returned, NodeSoFar
    <3>2. CASE ~isPeerRole(g.roles)
      <4>1. ~ProbeThrows(g) /\ g.peer \in PeerSoFar(g, a) /\ g = [g EXCEPT !.peer = g.peer]
        BY <2>t, <3>2 DEF ProbeThrows, PeerSoFar, Node
      <4>2. CASE isAPIRole(g.roles)
        BY <4>1, <4>2, <3>2, HeldBefore DEF Start
      <4>3. CASE ~isAPIRole(g.roles)
        <5>1. [g EXCEPT !.peer = g.peer] \in getNodeInfo(g, a)
          BY <2>t, <4>1, <4>3, ProbedPeer
        <5>2. Start(g) = "end"
          BY <3>2, <4>3 DEF Start
        <5> QED
          BY <4>1, <5>1, <5>2, HeldEnd
      <4> QED
        BY <4>2, <4>3
    <3> QED
      BY <3>1, <3>2
  <2>2. ToldSoFar(Start(g), FALSE, "absent", heard[k])
    BY DEF ToldSoFar, Start
  <2>3. Told(Start(g), g, g, former[k], former[k], heard[k]) /\ StatusSoFar(Start(g), g, former[k], former[k])
    BY <2>0 DEF Told, StatusSoFar, Start, ApiProbed
  <2> QED
    BY <2>0, <2>1, <2>2, <2>3 DEF Sound, Held
<1> QED
  BY <1>1, <1>2, InvIsSound

LEMMA InvNext == Inv /\ [Next]_vars => Inv'
<1> SUFFICES ASSUME Inv, [Next]_vars PROVE Inv'
  OBVIOUS
<1>1. TypeOK /\ \A k \in Keys : Sound(k)
  BY InvIsSound
<1>2. ASSUME NEW k \in Keys, Moves(k) PROVE Inv'
  <2>1. TypeOK'
    BY <1>1, <1>2, TypeMove
  <2>2. given'[k] = given[k] /\ answers'[k] = answers[k] /\ former'[k] = former[k]
    BY <1>2 DEF Moves, Settles, TcpProbe, buildHostUrl, RequestNodeInfo, RequestChainInfo,
                RequestSettles, AllSettled, checkWebSocketHealth, WebSocketHangs
  <2>3. Sound(k)'
    BY <1>1, <1>2, <2>2, NodeStays, ToldStays, StatusStays DEF Held, Shown, Sound
  <2>4. ASSUME NEW j \in Keys, j # k PROVE Sound(j)'
    BY <1>1, <1>2, <2>4, OthersStay, Still
  <2>5. \A j \in Keys : Sound(j)'
    BY <2>3, <2>4
  <2> QED
    BY <2>1, <2>5 DEF Inv, Sound, Returned, Told, ProbesReturnAsExpected, StatusTellsWhatAnswered
<1>3. CASE UNCHANGED probes /\ chunkDone' \in BOOLEAN
  BY <1>3 DEF probes, Inv, TypeOK, ProbesReturnAsExpected, StatusTellsWhatAnswered
<1>4. chunkDone \in BOOLEAN
  BY <1>1 DEF TypeOK
<1> QED
  BY <1>2, <1>3, <1>4 DEF Next, Moves, ChunkDone, vars

\* Of every probe, at every stage: it has changed of its node what the rules allow, and
\* its status is the one it came with or shows nothing that the host has not told
\* (ApiNodeService.ts, getStatus; NodeMonitor.ts, getNodeInfo).
THEOREM ProbeInvariant == Spec => []Inv
  BY InvInit, InvNext, PTL DEF Spec

\* A probe comes back with a result the rules of the node monitor expect (NodeMonitor.ts,
\* getNodeInfo), however its requests fail.
THEOREM Probed == Spec => []ProbesReturnAsExpected
<1>1. Inv => ProbesReturnAsExpected
  BY DEF Inv
<1> QED
  BY <1>1, ProbeInvariant, PTL

\* A node whose API was probed is served as one with SSL, or suggested, only on what it
\* answered in that probe; one whose API was not probed keeps the status of an earlier
\* round (ApiNodeService.ts, getStatus; NodeMonitor.ts, getNodeInfo; routes/index.ts).
THEOREM StatusIsHeard == Spec => []StatusTellsWhatAnswered
<1>1. Inv => StatusTellsWhatAnswered
  BY DEF Inv
<1> QED
  BY <1>1, ProbeInvariant, PTL
=============================================================================
