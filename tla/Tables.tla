-------------------------------- MODULE Tables --------------------------------
(***************************************************************************)
(* Tables: what the programs keep in dicts, in files of a directory and    *)
(* under the names of a registry, as functions from a key to what is       *)
(* stored last.                                                            *)
(***************************************************************************)

NoEntries == [key \in {} |-> key]

\* The table once something is stored: what the key had before is replaced.
Store(table, key, stored) ==
    [k \in {key} \cup DOMAIN table |-> IF k = key THEN stored ELSE table[k]]

\* One table on top of another.
Over(new, old) ==
    [key \in DOMAIN new \cup DOMAIN old |-> IF key \in DOMAIN new THEN new[key] ELSE old[key]]
===============================================================================
