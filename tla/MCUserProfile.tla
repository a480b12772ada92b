---- MODULE MCUserProfile ----
(* Two scoring workers, the most the autoscaler allows, on one user's      *)
(* transactions.  A tick is five minutes; the profile outlives the window. *)
(* The amounts are within a factor of three.  Every purchase carries all   *)
(* that an ordinary one may; what is not ordinary here is the place.       *)
EXTENDS ScoredProfile, TLC

Symmetry == Permutations(Workers)

MCKinds == {Ordinary}
====
