------------------------------- MODULE Monitors -------------------------------
(***************************************************************************)
(* The service (app.ts): the three monitors in one process, with one       *)
(* database.  The node monitor appears as what the others see of it, the   *)
(* updates of the Node collection.  The chain height monitor and the       *)
(* geolocation monitor only read these nodes and write collections of      *)
(* their own, so that nothing one of them does can be noticed by the       *)
(* other; a behaviour has one of them or both.                             *)
(*                                                                         *)
(* Calls to the database may fail and the process may die, a bounded       *)
(* number of times; the process manager starts it again.                   *)
(***************************************************************************)
EXTENDS ChainHeightMonitor, GeolocationMonitor

CONSTANTS
    MaxFaults     \* the bound on failures and crashes for each cast: which of "heights"
                  \* and "hosts" take part

Casts == DOMAIN MaxFaults

ASSUME MonitorsAssumption ==
    Casts \subseteq SUBSET {"heights", "hosts"} /\ MaxFaults \in [Casts -> Nat]

VARIABLES
    cast,         \* the monitors of the behaviour
    faults        \* failures and crashes so far

vars == <<publisher_vars, chain_vars, geo_vars, cast, faults>>

Fault == faults < MaxFaults[cast] /\ faults' = faults + 1 /\ UNCHANGED cast

Init == PublisherInit /\ ChainInit /\ GeoInit /\ cast \in Casts /\ faults = 0

NodeMonitorStep ==
    /\ BeginUpdate \/ Remove \/ Insert \/ EndUpdate
    /\ UNCHANGED <<chain_vars, geo_vars, cast, faults>>

ChainHeightMonitorStep ==
    /\ "heights" \in cast /\ ChainStep
    /\ UNCHANGED <<publisher_vars, geo_vars, cast, faults>>

GeolocationMonitorStep ==
    /\ "hosts" \in cast /\ GeoStep
    /\ UNCHANGED <<publisher_vars, chain_vars, cast, faults>>

ConstructorStep ==
    /\ "hosts" \in cast /\ EarlyStep
    /\ UNCHANGED <<publisher_vars, chain_vars, cast, faults>>

NodeMonitorFails == Fault /\ CallFails /\ UNCHANGED <<chain_vars, geo_vars>>

ChainHeightMonitorFails ==
    /\ "heights" \in cast /\ Fault /\ ChainFails
    /\ UNCHANGED <<publisher_vars, geo_vars>>

GeolocationMonitorFails ==
    /\ "hosts" \in cast /\ Fault /\ GeoFails
    /\ UNCHANGED <<publisher_vars, chain_vars>>

Crash ==
    /\ Fault
    /\ writing' = FALSE /\ UNCHANGED published
    /\ ChainRestarts /\ GeoRestarts

Next ==
    \/ NodeMonitorStep \/ ChainHeightMonitorStep \/ GeolocationMonitorStep \/ ConstructorStep
    \/ NodeMonitorFails \/ ChainHeightMonitorFails \/ GeolocationMonitorFails \/ Crash

\* Loops go on, and the locating service answers for a host it is asked about for ever.
Fairness ==
    /\ WF_vars(ChainHeightMonitorStep)
    /\ WF_vars(GeolocationMonitorStep)
    /\ WF_vars(ConstructorStep)
    /\ \A h \in Hosts :
         SF_vars(GeolocationMonitorStep /\ \E detail \in Located : Reply(h, detail))

Spec == Init /\ [][Next]_vars
FairSpec == Spec /\ Fairness

\* The loop of the chain height monitor, where it takes part.
RoundsStoreHeights == [](cast = {"hosts"}) \/ StatsComeBack
=============================================================================
