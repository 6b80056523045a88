SPECIFICATION Spec
CONSTANTS
    NoNode = NoNode
    NoNetwork = NoNetwork
    Keys = {n1, n2}
    Roles = {2, 4}
    Networks = {home, other}
    Ports = {"ok"}
    HomeNetworks = {home, other}
    Keep = 0
    Seeds = {s1}
    PeersChunk = 1
    InfoChunk = 2
    Mortals = {}
    MaxFaults = 2
INVARIANTS
    StoredNodesAreDated
    LengthCheckPasses
    EachNodeCountedOnce
    UpdateAllOrNothing
PROPERTIES
    FreshNodesStay
    UnavailableNodesKeepTheirDate
    OutageKeepsTheCollection
    RefinesNodePublisher
SYMMETRY Symmetry
