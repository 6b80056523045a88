SPECIFICATION Spec
CONSTANTS
    NoNode = NoNode
    NoNetwork = NoNetwork
    Keys = {n1, n2}
    Roles = {2}
    Networks = {home, other}
    Ports = {"ok"}
    HomeNetworks = {home}
    Keep = 1
    Seeds = {s1}
    PeersChunk = 1
    InfoChunk = 2
    Mortals = {}
    MaxFaults = 0
PROPERTY CrawlIsRecursive
