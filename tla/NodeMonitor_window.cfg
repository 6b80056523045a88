SPECIFICATION Spec
CONSTANTS
    NoNode = NoNode
    NoNetwork = NoNetwork
    Keys = {n1}
    Roles = {2}
    Networks = {home, other}
    Ports = {"ok"}
    HomeNetworks = {home}
    Keep = 1
    Seeds = {s1}
    PeersChunk = 1
    InfoChunk = 1
    Mortals = {}
    MaxFaults = 0
INVARIANT KnownNodesAreServed
