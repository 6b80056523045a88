------------------------------ MODULE MCMonitors ------------------------------
(***************************************************************************)
(* A small service: two API nodes of which one shares its host with a peer *)
(* node.                                                                   *)
(***************************************************************************)
EXTENDS Monitors, TLC

MCLists == {{"api1", "api2", "peer"}, {"api2", "peer"}}
MCHostOf == ("api1" :> "host1") @@ ("api2" :> "host2") @@ ("peer" :> "host1")
MCChainInfo == {[height |-> 1, finalized |-> 1], [height |-> 2, finalized |-> 0]}
MCMaxFaults == ({"heights"} :> 2) @@ ({"hosts"} :> 1)
=============================================================================
