--------------------------- MODULE MCTrackerLink ---------------------------
(* Instances of TrackerLink for TLC: a job that asks twice, and one other thread, as the *)
(* report routine.                                                                        *)
EXTENDS TrackerLink

CONSTANTS job, other

Twice == [t \in {job, other} |-> IF t = job THEN 2 ELSE 1]
=============================================================================
