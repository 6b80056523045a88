-------------------------- MODULE GeolocationMonitor --------------------------
(***************************************************************************)
(* The geolocation monitor (services/GeolocationMonitor.ts), the lookup of *)
(* a host (services/HostInfo.ts) and the memory cache in which the stored  *)
(* host details are indexed (services/MemoryCache.ts).  A loop goes        *)
(* through all known nodes; a host that the index does not hold is looked  *)
(* up and its detail is inserted.  The index is refreshed at the end of a  *)
(* loop, and once by the constructor, whose refresh nobody waits for.      *)
(*                                                                         *)
(* The locating service, ip-api.com, is an external program.  The list     *)
(* nodesHostDetail that a loop gathers is left out: nothing reads it.      *)
(***************************************************************************)
EXTENDS Naturals, Sequences, NodePublisher

CONSTANTS
    Hosts,
    HostOf,       \* the host of each node
    Details,      \* the details a host may have in a reply
    Located,      \* those of them that have a latitude, which is not 0
    NoDetail      \* nothing known of a host

ASSUME HostOfAssumption == HostOf \in [Nodes -> Hosts]
ASSUME DetailsAssumption == Located \subseteq Details /\ NoDetail \notin Details

VARIABLES
    hostDetails,     \* the HostDetail collection: the documents of each host
    index,           \* nodesHostDetailIndexes.host, of each host
    early,           \* where the refresh of the constructor stands: "find", "set" or "done"
    earlyFound,      \* what it found
    found,           \* what the refresh of the loop found
    geoPhase,        \* where the loop stands
    hostNodes,       \* nodes of the list not dealt with
    host,            \* the host being dealt with
    hostDetail       \* what is known of it

refresh_vars == <<early, earlyFound>>
geo_memory == <<index, refresh_vars, found, geoPhase, hostNodes, host, hostDetail>>
geo_vars == <<hostDetails, geo_memory>>

NoHost == "no host"
NothingFound == [h \in Hosts |-> NoDetail]

\* What setArray makes of a collection: the last document of a host is indexed.
setArray(collection) ==
    [h \in Hosts |-> IF collection[h] = <<>> THEN NoDetail
                     ELSE collection[h][Len(collection[h])]]

-----------------------------------------------------------------------------
\* start() up to its first await.
BeginLoop ==
    /\ geoPhase' = "list" /\ hostNodes' = {} /\ host' = NoHost /\ hostDetail' = NoDetail
    /\ found' = NothingFound

GeoInit ==
    /\ hostDetails = [h \in Hosts |-> <<>>]
    /\ index = NothingFound /\ early = "find" /\ earlyFound = NothingFound /\ found = NothingFound
    /\ geoPhase = "list" /\ hostNodes = {} /\ host = NoHost /\ hostDetail = NoDetail

ReadNodes ==
    /\ geoPhase = "list"
    /\ hostNodes' = published /\ geoPhase' = "hosts"
    /\ UNCHANGED <<hostDetails, index, refresh_vars, found, host, hostDetail>>

\* As in the chain height monitor, the nodes of the configuration never come in.
ReadNodesFails ==
    /\ geoPhase = "list"
    /\ hostNodes' = {} /\ geoPhase' = "hosts"
    /\ UNCHANGED <<hostDetails, index, refresh_vars, found, host, hostDetail>>

\* getHostDetail: the index is asked first, and only a located host is taken from it.
getHostDetail(node) ==
    /\ geoPhase = "hosts" /\ node \in hostNodes
    /\ hostNodes' = hostNodes \ {node} /\ host' = HostOf[node]
    /\ IF index[HostOf[node]] \in Located
       THEN hostDetail' = index[HostOf[node]] /\ geoPhase' = "add"
       ELSE hostDetail' = NoDetail /\ geoPhase' = "lookup"
    /\ UNCHANGED <<hostDetails, index, refresh_vars, found>>

\* The reply of the locating service, five seconds later or more.
Reply(h, detail) ==
    /\ geoPhase = "lookup" /\ h = host
    /\ hostDetail' = detail /\ geoPhase' = "add"
    /\ UNCHANGED <<hostDetails, index, refresh_vars, found, hostNodes, host>>

\* Mutation: a failed lookup ends the loop over the nodes.
LookupFails_EndsTheLoop ==
    /\ geoPhase = "lookup"
    /\ geoPhase' = "cache" /\ host' = NoHost
    /\ UNCHANGED <<hostDetails, index, refresh_vars, found, hostNodes, hostDetail>>

\* The lookup fails or times out: on to the next node.
LookupFails ==
    /\ geoPhase = "lookup"
    /\ geoPhase' = "hosts" /\ host' = NoHost
    /\ UNCHANGED <<hostDetails, index, refresh_vars, found, hostNodes, hostDetail>>

\* insertMany of one document: the host is unique, and a second one is rejected.
Inserted == IF hostDetails[host] # <<>> THEN hostDetails
            ELSE [hostDetails EXCEPT ![host] = Append(@, hostDetail)]

NodeDone ==
    /\ geoPhase' = "hosts" /\ host' = NoHost /\ hostDetail' = NoDetail
    /\ UNCHANGED <<index, refresh_vars, found, hostNodes>>

\* Mutation: the detail is put into the index along with the collection, and stays there
\* when the document is not accepted.
addToCollection_Indexes ==
    /\ geoPhase = "add"
    /\ \/ hostDetails' = IF index[host] = NoDetail THEN Inserted ELSE hostDetails
       \/ hostDetail \notin Located /\ UNCHANGED hostDetails
    /\ index' = [index EXCEPT ![host] = hostDetail]
    /\ geoPhase' = "hosts" /\ host' = NoHost /\ hostDetail' = NoDetail
    /\ UNCHANGED <<refresh_vars, found, hostNodes>>

\* addToCollection.  The model of the document may not accept a
\* detail without coordinates.
addToCollection ==
    /\ geoPhase = "add"
    /\ \/ hostDetails' = IF index[host] = NoDetail THEN Inserted ELSE hostDetails
       \/ hostDetail \notin Located /\ UNCHANGED hostDetails
    /\ NodeDone

\* The insertion fails, with its effect or without it; the failure is logged.
InsertFails ==
    /\ geoPhase = "add" /\ index[host] = NoDetail
    /\ hostDetails' \in {hostDetails, Inserted}
    /\ NodeDone

LoopDone ==
    /\ geoPhase = "hosts" /\ hostNodes = {}
    /\ geoPhase' = "cache"
    /\ UNCHANGED <<hostDetails, index, refresh_vars, found, hostNodes, host, hostDetail>>

\* cacheCollection: the collection is read, and what was found comes in later.
CacheFind ==
    /\ geoPhase = "cache"
    /\ found' = setArray(hostDetails) /\ geoPhase' = "cached"
    /\ UNCHANGED <<hostDetails, index, refresh_vars, hostNodes, host, hostDetail>>

CacheSet ==
    /\ geoPhase = "cached"
    /\ index' = found /\ found' = NothingFound /\ geoPhase' = "sleep"
    /\ UNCHANGED <<hostDetails, refresh_vars, hostNodes, host, hostDetail>>

\* A failed read is logged, and the index stays as it is.
CacheFails ==
    /\ geoPhase = "cache"
    /\ geoPhase' = "sleep"
    /\ UNCHANGED <<hostDetails, index, refresh_vars, found, hostNodes, host, hostDetail>>

\* The refresh that the constructor started.
EarlyFind ==
    /\ early = "find"
    /\ early' = "set" /\ earlyFound' = setArray(hostDetails)
    /\ UNCHANGED <<hostDetails, index, found, geoPhase, hostNodes, host, hostDetail>>

EarlySet ==
    /\ early = "set"
    /\ index' = earlyFound /\ early' = "done" /\ earlyFound' = NothingFound
    /\ UNCHANGED <<hostDetails, found, geoPhase, hostNodes, host, hostDetail>>

EarlyFails ==
    /\ early = "find"
    /\ early' = "done" /\ UNCHANGED earlyFound
    /\ UNCHANGED <<hostDetails, index, found, geoPhase, hostNodes, host, hostDetail>>

NextLoop ==
    /\ geoPhase = "sleep"
    /\ BeginLoop
    /\ UNCHANGED <<hostDetails, index, refresh_vars>>

GeoStep ==
    \/ ReadNodes \/ LookupFails \/ addToCollection \/ LoopDone \/ CacheFind \/ CacheSet \/ NextLoop
    \/ \E node \in hostNodes : getHostDetail(node)
    \/ \E detail \in Details : Reply(host, detail)

EarlyStep == EarlyFind \/ EarlySet

GeoFails == ReadNodesFails \/ InsertFails \/ CacheFails \/ EarlyFails

\* The process starts anew; only the collection is left.
GeoRestarts ==
    /\ BeginLoop
    /\ index' = NothingFound /\ early' = "find" /\ earlyFound' = NothingFound
    /\ UNCHANGED hostDetails

-----------------------------------------------------------------------------
\* The index may lag behind the collection, but it never holds a detail that the collection
\* does not: a host in the index is not inserted again, so that one which came into it without
\* its document would never get one.  Lookups, insertions that take no effect, the two
\* refreshes and crashes come in between (addToCollection, cacheCollection).
IndexedHostsAreStored ==
    \A h \in Hosts : index[h] # NoDetail => \E i \in DOMAIN hostDetails[h] : hostDetails[h][i] = index[h]

\* A host whose nodes are on the list again and again, and that the locating service does
\* not fail to answer for ever, gets its document and is in the index for good in the end,
\* however many lookups of other hosts and calls to the database fail, whatever is cut off,
\* and although the refresh that the constructor started may set the index back to what it
\* was (getNodesHostDetail, HostInfo, cacheCollection).
HostsGetTheirDocument ==
    \A h \in Hosts : []<>(\E node \in hostNodes : HostOf[node] = h) =>
                        <>[](hostDetails[h] # <<>> /\ index[h] # NoDetail)
=============================================================================
