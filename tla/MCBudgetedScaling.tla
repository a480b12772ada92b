------------------------- MODULE MCBudgetedScaling -------------------------
(* Three services, one of them with pods twice as expensive and one with a *)
(* higher floor.  With the budget of 7 the emergency maximum of 4 can take *)
(* more than one donor gives, so that a priority list that names only one  *)
(* leads to a refused step.  Others may exceed that maximum.               *)
EXTENDS BudgetedScaling

MCNameOrder == <<"enrichment", "gateway", "scoring">>
MCDeployments == ToSet(MCNameOrder)
MCCost == [d \in MCDeployments |-> IF d = "scoring" THEN 2 ELSE 1]
MCFloor == [d \in MCDeployments |-> IF d = "gateway" THEN 2 ELSE 1]

MCInitial == {r \in [MCDeployments -> 1..3] : WithinBudget(r)}
MCWanted == {0, 1, 3, 4}
MCPriorities == {<<>>, <<"scoring", "unknown", "enrichment", "gateway">>, <<"scoring">>}
MCOthersScale == {1, 5}
=============================================================================
