----------------------------- MODULE MCHostProbe -----------------------------
(***************************************************************************)
(* Two nodes probed together.  The first is of any kind: new, or stored by *)
(* an earlier round that found it available, with a good port or without,  *)
(* and in a role that the API is probed for or in another one by now.  The *)
(* second is a peer node or silent, which keeps the product of the two     *)
(* small and is enough to see one of them wait for the other.              *)
(***************************************************************************)
EXTENDS HostProbe

CONSTANTS home, k1, k2

Kind(roles, port, api, peer) ==
    [roles |-> roles, net |-> home, port |-> port, api |-> api, peer |-> peer, age |-> 0]

MCGiven == {Kind(r, "ok", "none", "up") : r \in Roles}
               \cup {Kind(1, "ok", "up", "up"), Kind(2, "ok", "up", "up"), Kind(3, "bad", "up", "up")}

\* Of the statuses that earlier rounds leave, the one that the routes ask for.
MCFormer == {NoStatus, Assembled(TRUE, "up", TRUE, TRUE)}

MCInit ==
    /\ Init
    /\ \A k \in Keys : former[k] \in MCFormer
    /\ given[k2].roles = 1 \/ ~answers[k2]
MCSpec == MCInit /\ [][Next]_vars /\ Fairness
=============================================================================
