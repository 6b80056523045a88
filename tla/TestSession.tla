----------------------------- MODULE TestSession -----------------------------
(***************************************************************************)
(* What a run of the test suites promises: every suite is run once, what   *)
(* is reported of a suite is what that suite did, and the session is green *)
(* only when every suite was judged and none failed.  A session may be     *)
(* given up at any time, and is red then.                                  *)
(***************************************************************************)
EXTENDS Tables

CONSTANTS
    Suites,    \* the suites of the image
    Outcomes   \* what running a suite can come to: its failure, its crash, its errors

VARIABLES
    status,    \* "none", "running", "green" or "red"
    did,       \* what each suite run so far did
    verdict    \* what is reported of each suite judged so far

vars == <<status, did, verdict>>

Init == status = "none" /\ did = NoEntries /\ verdict = NoEntries

Begin ==
    /\ status # "running"
    /\ status' = "running" /\ did' = NoEntries /\ verdict' = NoEntries

Run(s) ==
    /\ status = "running" /\ s \notin DOMAIN did
    /\ \E outcome \in Outcomes : did' = Store(did, s, outcome)
    /\ UNCHANGED <<status, verdict>>

\* A crash is reported of every suite that crashed, and of none that passed.
Judge(s) ==
    /\ status = "running" /\ s \in DOMAIN did \ DOMAIN verdict
    /\ \E crash \in BOOLEAN :
         /\ did[s].crashed => crash
         /\ crash => did[s].failed
         /\ verdict' = Store(verdict, s, [failed |-> did[s].failed, crashed |-> crash,
                                          errors |-> did[s].errors])
    /\ UNCHANGED <<status, did>>

Conclude ==
    /\ status = "running" /\ DOMAIN verdict = Suites
    /\ status' = IF \E s \in Suites : verdict[s].failed THEN "red" ELSE "green"
    /\ UNCHANGED <<did, verdict>>

Abandon ==
    /\ status = "running"
    /\ status' = "red"
    /\ UNCHANGED <<did, verdict>>

\* What was reported is taken away.
Close ==
    /\ status # "running"
    /\ status' = "none" /\ did' = NoEntries /\ verdict' = NoEntries

Next ==
    \/ Begin \/ Close \/ Conclude \/ Abandon
    \/ \E s \in Suites : Run(s) \/ Judge(s)

Spec == Init /\ [][Next]_vars
=============================================================================
