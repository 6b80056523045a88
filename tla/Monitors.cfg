SPECIFICATION FairSpec
CONSTANTS
    Nodes = {"api1", "api2", "peer"}
    Lists <- MCLists
    ApiNodes = {"api1", "api2"}
    Heights = {1, 2}
    ChainInfo <- MCChainInfo
    NoHeight = 0
    ChunkSize = 1
    Hosts = {"host1", "host2"}
    HostOf <- MCHostOf
    Details = {"located", "unlocated"}
    Located = {"located"}
    NoDetail = "nothing"
    MaxFaults <- MCMaxFaults
INVARIANTS
    HeightStatsAreOfOneRound
    IndexedHostsAreStored
PROPERTIES
    StatsGiveWayToOthersOnly
    RoundsStoreHeights
    HostsGetTheirDocument
