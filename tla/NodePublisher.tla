---------------------------- MODULE NodePublisher ----------------------------
(***************************************************************************)
(* What the other monitors may expect of the Node collection: the node     *)
(* monitor alone changes it, and only in the course of an update, which    *)
(* takes all documents away and then puts a whole list there, in calls of  *)
(* their own.  Between the calls a reader finds nothing.  A call that      *)
(* fails may have taken effect for some documents, and an update that is   *)
(* cut off leaves the collection as it is until the next one.              *)
(***************************************************************************)
CONSTANTS
    Nodes,        \* the nodes that may ever be known
    Lists         \* the sets of nodes an update may put there

ASSUME ListsAssumption == Lists \subseteq SUBSET Nodes

VARIABLES
    published,    \* the nodes in the collection
    writing       \* whether an update is under way

publisher_vars == <<published, writing>>

PublisherInit == published = {} /\ writing = FALSE

BeginUpdate == writing = FALSE /\ writing' = TRUE /\ UNCHANGED published
Remove      == writing /\ published' = {} /\ UNCHANGED writing
Insert      == writing /\ published = {} /\ published' \in Lists /\ UNCHANGED writing
EndUpdate   == writing /\ writing' = FALSE /\ UNCHANGED published

\* The update goes on with putting back the list it found, or is given up.
CallFails ==
    /\ writing /\ writing' \in BOOLEAN
    /\ \E list \in Lists \cup {published} : published' \in SUBSET list
    /\ published # {} => published' \subseteq published

PublisherNext == BeginUpdate \/ Remove \/ Insert \/ EndUpdate \/ CallFails

PublisherSpec == PublisherInit /\ [][PublisherNext]_publisher_vars
=============================================================================
