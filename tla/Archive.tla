------------------------------- MODULE Archive -------------------------------
(***************************************************************************)
(* What the capture-to-R2 path promises about a batch of rows: once        *)
(* captured it is held locally until it is archived; archived is for good; *)
(* and it can be lost only where a half-done deletion has put the          *)
(* partition at risk.  Lake.tla implements this.                           *)
(***************************************************************************)
EXTENDS Naturals

CONSTANTS Partition

VARIABLES
    captured,   \* partition -> batches captured so far
    archived,   \* partition -> batches whose archive copy is final
    lost,       \* partition -> batches held nowhere
    atRisk      \* partitions left half-deleted by a crash

vars == <<captured, archived, lost, atRisk>>

Held(p) == captured[p] \ (archived[p] \cup lost[p])

Init ==
    /\ captured = [p \in Partition |-> {}]
    /\ archived = [p \in Partition |-> {}]
    /\ lost = [p \in Partition |-> {}]
    /\ atRisk = {}

\* A new batch is captured.
Capture(p, b) ==
    /\ b \notin captured[p]
    /\ captured' = [captured EXCEPT ![p] = @ \cup {b}]
    /\ UNCHANGED <<archived, lost, atRisk>>

\* Batches held locally get their final archive copy.
Ship(p) ==
    /\ archived[p] \subseteq archived'[p]
    /\ archived'[p] \subseteq archived[p] \cup Held(p)
    /\ archived' = [archived EXCEPT ![p] = archived'[p]]
    /\ UNCHANGED <<captured, lost, atRisk>>

\* A crash leaves the partition half-deleted.
PutAtRisk(p) ==
    /\ atRisk' = atRisk \cup {p}
    /\ UNCHANGED <<captured, archived, lost>>

\* Batches of a partition at risk disappear.
Lose(p) ==
    /\ p \in atRisk
    /\ lost[p] \subseteq lost'[p]
    /\ lost'[p] \subseteq lost[p] \cup Held(p)
    /\ lost' = [lost EXCEPT ![p] = lost'[p]]
    /\ UNCHANGED <<captured, archived, atRisk>>

Next == \E p \in Partition :
    \/ \E b \in captured'[p] : Capture(p, b)
    \/ Ship(p)
    \/ PutAtRisk(p)
    \/ Lose(p)

Spec == Init /\ [][Next]_vars
=============================================================================
