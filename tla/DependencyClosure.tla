-------------------------- MODULE DependencyClosure --------------------------
(***************************************************************************)
(* What the dependency checker of the C++ linter promises                  *)
(* (linters/cpp/DepsChecker.py): from the direct rules of the              *)
(* configuration it derives all that each name may depend on, a whole name *)
(* at a time, and it publishes the derived rules only if the direct ones   *)
(* have no cycle; otherwise it says that there is one.                     *)
(***************************************************************************)
CONSTANT Words   \* the names that rules are about

VARIABLES
    direct,   \* the direct rules, a set of pairs of names
    allowed,  \* the derived rules, a set of pairs of names
    outcome   \* "open", "published" or "loop"

vars == <<direct, allowed, outcome>>

\* The names D leads to from n in one or more steps: those in every set that holds the
\* direct dependencies of n and, with a name, the direct dependencies of that name.
ClosedFrom(D, n, S) ==
    /\ \A m \in Words : <<n, m>> \in D => m \in S
    /\ \A x \in S : \A y \in Words : <<x, y>> \in D => y \in S

Reach(D, n) == {m \in Words : \A S \in SUBSET Words : ClosedFrom(D, n, S) => m \in S}

\* D has a cycle iff in some non-empty set of names each depends on one of the set.
IsCyclic(D, S) == \A x \in S : \E y \in S : <<x, y>> \in D
HasCycle(D) == \E S \in SUBSET Words : S # {} /\ IsCyclic(D, S)

Row(n, S) == {n} \X S

Init ==
    /\ direct \in SUBSET (Words \X Words)
    /\ allowed = {}
    /\ outcome = "open"

\* One more name gets all the names it may depend on.
Derive(n) ==
    /\ outcome = "open"
    /\ allowed' = allowed \cup Row(n, Reach(direct, n))
    /\ UNCHANGED <<direct, outcome>>

\* All names have theirs, and the direct rules have no cycle.
Publish ==
    /\ outcome = "open"
    /\ ~HasCycle(direct)
    /\ \A n \in Words : Row(n, Reach(direct, n)) \subseteq allowed
    /\ outcome' = "published"
    /\ UNCHANGED <<direct, allowed>>

ReportLoop ==
    /\ outcome = "open"
    /\ HasCycle(direct)
    /\ outcome' = "loop"
    /\ UNCHANGED <<direct, allowed>>

Next == (\E n \in Words : Derive(n)) \/ Publish \/ ReportLoop

Spec == Init /\ [][Next]_vars
=============================================================================
