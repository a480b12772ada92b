--------------------------- MODULE BudgetedCluster --------------------------
(***************************************************************************)
(* What the guardian and others may do to a cluster, whatever the tools,   *)
(* plans and failures behind it.  The guardian scales one deployment at a  *)
(* time, to a count within the policy limits, and, unless others scaled    *)
(* since its call began, only to a total within the budget.                *)
(* BudgetedScaling implements this.                                        *)
(***************************************************************************)
EXTENDS ReplicaBudget

CONSTANTS InitialReplicas, OthersScale

VARIABLES replicas, disturbed

Init == replicas \in InitialReplicas /\ disturbed = FALSE

CallBegins == disturbed' = FALSE /\ UNCHANGED replicas

Scale(d, n) ==
    /\ replicas' = [replicas EXCEPT ![d] = n]
    /\ UNCHANGED disturbed
    /\ WithinLimits(n)
    /\ ~disturbed => WithinBudget(replicas')

ScaledByOthers(d, n) ==
    /\ replicas' = [replicas EXCEPT ![d] = n]
    /\ disturbed' = TRUE

Next ==
    \/ CallBegins
    \/ \E d \in Deployments :
        \/ \E n \in MinReplicas..EmergencyMax : Scale(d, n)
        \/ \E n \in OthersScale : ScaledByOthers(d, n)

Spec == Init /\ [][Next]_<<replicas, disturbed>>
=============================================================================
