------------------------- MODULE MCApprovedScaling -------------------------
(* An approval that suggests a size and one that does not, two requests at   *)
(* a time; the size that requests name is the dashboard's for the second.    *)
EXTENDS ApprovedScaling

CONSTANTS a1, a2, c1, c2

MCApprovals == {a1, a2}
MCWanted == [a \in MCApprovals |-> IF a = a1 THEN 5 ELSE 0]
=============================================================================
