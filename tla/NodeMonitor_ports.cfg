SPECIFICATION FairSpec
CONSTANTS
    NoNode = NoNode
    NoNetwork = NoNetwork
    Keys = {n1}
    Roles = {3}
    Networks = {home, other}
    Ports = {"ok", "bad"}
    HomeNetworks = {home}
    Keep = 1
    Seeds = {s1}
    PeersChunk = 1
    InfoChunk = 1
    Mortals = {n1}
    MaxFaults = 0
PROPERTY AvailableNodesAnswer
