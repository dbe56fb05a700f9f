------------------------------- MODULE Table --------------------------------
(***************************************************************************)
(* What a stored bar series promises: a table from days to bars that only  *)
(* changes by merging a contiguous range of fetched days in one step.      *)
(* Days outside the range keep their bar, and a bar that is settled never  *)
(* goes back to a forming one.                                             *)
(***************************************************************************)
EXTENDS Integers

CONSTANT Days
VARIABLE rows

Quality == {"forming", "settled"}
Settled(r, d) == d \in DOMAIN r /\ r[d] = "settled"

Init == rows = [d \in {} |-> "settled"]

Merge(a, b) ==
    /\ \E frame \in [a..b -> Quality] :
         rows' = [d \in DOMAIN rows \cup (a..b) |->
                    IF d \in a..b THEN frame[d] ELSE rows[d]]
    /\ \A d \in Days : Settled(rows, d) => Settled(rows', d)

Next == \E a, b \in Days : a <= b /\ Merge(a, b)

Spec == Init /\ [][Next]_rows
=============================================================================
