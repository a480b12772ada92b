-------------------------- MODULE MCBudgetPlanner --------------------------
(* Three services with different floors and pod costs; the priority lists  *)
(* are all lists of up to two names (unknown ones and repetitions too) and *)
(* the full lists.                                                         *)
EXTENDS BudgetPlanner

MCNameOrder == <<"enrichment", "gateway", "scoring">>
MCDeployments == ToSet(MCNameOrder)
MCCost == [d \in MCDeployments |-> IF d = "scoring" THEN 2 ELSE 1]
MCFloor == [d \in MCDeployments |-> IF d = "gateway" THEN 2 ELSE 1]

MCPriorities ==
    BoundedSeq(MCDeployments \cup {"unknown"}, 2)
      \cup { p \o <<"unknown">> : p \in SetToSeqs(MCDeployments) }
=============================================================================
