SPECIFICATION FairSpec
CONSTANTS
    NoNode = NoNode
    NoNetwork = NoNetwork
    Keys = {n1}
    Roles = {1, 3, 4}
    Networks = {home, other}
    Ports = {"ok", "bad"}
    HomeNetworks = {home}
    Keep = 1
    Seeds = {s1, s2}
    PeersChunk = 1
    InfoChunk = 1
    Mortals = {n1}
    MaxFaults = 1
INVARIANT Inv
PROPERTIES
    RoundsRecur
    DepartedNodesAreForgotten
