----------------------------- MODULE LoginQuota -----------------------------
(***************************************************************************)
(* What the login rate limit promises for one address: a bucket of         *)
(* Capacity tokens that refills evenly over a period and never forgets.    *)
(* A token is Scale units, and Capacity units come back with every tick.   *)
(***************************************************************************)
EXTENDS Naturals

CONSTANTS Capacity, Scale

VARIABLE level

Least(a, b) == IF a < b THEN a ELSE b

Init == level = Capacity * Scale

Take == level >= Scale /\ level' = level - Scale

Refill == level' = Least(Capacity * Scale, level + Capacity)

Next == Take \/ Refill

Spec == Init /\ [][Next]_level
=============================================================================
