--------------------------- MODULE ReplicaBudget ---------------------------
(***************************************************************************)
(* The arithmetic of the global replica budget: what the guardian's MCP    *)
(* server (agents-devops/k8s_mcp.py) and its planner                       *)
(* (agents-devops/src/agent_guardian/budgeting.py) compute from a reading  *)
(* of the cluster.  No state: the modules BudgetPlanner and                *)
(* BudgetedScaling are built on these operators.                           *)
(*                                                                         *)
(* A reading of the cluster is a function from deployment names to replica *)
(* counts.  Counts outside the policy limits are legal readings: an        *)
(* operator or the autoscaler can put a deployment anywhere, 0 included.   *)
(***************************************************************************)
EXTENDS Integers, FiniteSets, Sequences, SequencesExt

CONSTANTS
    Deployments,    \* TARGET_DEPLOYMENTS
    NameOrder,      \* the same names, sorted
    Cost,           \* DEPLOYMENT_POD_COSTS
    Floor,          \* DEPLOYMENT_MIN_REPLICAS
    MinReplicas,    \* MIN_REPLICAS
    EmergencyMax,   \* EMERGENCY_MAX_REPLICAS
    TotalBudget,    \* TOTAL_REPLICA_BUDGET
    Unknown         \* any name that is not a target deployment

(* What the module-level clamps of k8s_mcp.py establish at import time.    *)
ASSUME BudgetAssumption ==
    /\ IsFiniteSet(Deployments)
    /\ Unknown \notin Deployments
    /\ MinReplicas \in Nat
    /\ EmergencyMax \in Nat /\ EmergencyMax >= MinReplicas
    /\ TotalBudget \in Nat
    /\ Cost \in [Deployments -> Nat \ {0}]
    /\ Floor \in [Deployments -> Nat]
    /\ \A d \in Deployments : Floor[d] >= MinReplicas

(* The configured names, each listed once in the order of sorted().        *)
ASSUME NameOrderAssumption ==
    /\ NameOrder \in Seq(Deployments)
    /\ ToSet(NameOrder) = Deployments
    /\ Len(NameOrder) = Cardinality(Deployments)

Readings == [Deployments -> Nat]

-----------------------------------------------------------------------------
(* Budget usage: the sum of replicas * cost.  Counting the budget units    *)
(* held by all pods gives that sum without a recursive definition.         *)
UnitsOf(d, n) == {d} \X ((1..n) \X (1..Cost[d]))

BudgetUnits(r) == UNION {UnitsOf(d, r[d]) : d \in Deployments}

Usage_IgnoresCost(r) == Cardinality(UNION {{d} \X (1..r[d]) : d \in Deployments})

Usage(r) == Cardinality(BudgetUnits(r))

(* The guard of every direct scaling: `projected_usage > TOTAL` refuses.   *)
WithinBudget(r) == Usage(r) <= TotalBudget

(* The safety-policy limits of set_replicas.                               *)
WithinLimits(n) == MinReplicas <= n /\ n <= EmergencyMax

(* The limits of the two planning tools: the service's own floor applies.  *)
Plannable(d, n) == d \in Deployments /\ Floor[d] <= n /\ n <= EmergencyMax

-----------------------------------------------------------------------------
(* The order in which deployments are asked to give up replicas: GivesBefore.*)
Listed(order, d) == \E i \in 1..Len(order) : order[i] = d

ListedBefore(order, a, b) ==
    \E i \in 1..Len(order) : order[i] = a /\ \A j \in 1..i : order[j] # b

(* sorted(key = (current - floor, current), reverse = True): the largest   *)
(* surplus first, then the largest deployment; ties keep the name order.   *)
SurplusBefore(cur, a, b) ==
    LET surplus(d) == cur[d] - Floor[d]
    IN  \/ surplus(a) > surplus(b)
        \/ surplus(a) = surplus(b) /\ cur[a] > cur[b]
        \/ surplus(a) = surplus(b) /\ cur[a] = cur[b] /\ ListedBefore(NameOrder, a, b)

(* preferred + sorted(remainder).  The empty priority list stands for None *)
(* (`donor_priority or None`).  A donor listed twice is asked twice, and   *)
(* has nothing left to give the second time: only its first place counts.  *)
GivesBefore(cur, priority, a, b) ==
    IF priority = <<>>
    THEN SurplusBefore(cur, a, b)
    ELSE \/ ListedBefore(priority, a, b)
         \/ ~Listed(priority, a) /\ ~Listed(priority, b) /\ ListedBefore(NameOrder, a, b)

(* Whether the request can be met by moving the target alone.              *)
NeedsNoDonor(cur, target, desired) ==
    \/ desired <= cur[target]
    \/ WithinBudget([cur EXCEPT ![target] = desired])

-----------------------------------------------------------------------------
(* What compute_budget_plan proposes, without its loops.                   *)

(* What one donor gives: as many replicas as the shortfall still calls     *)
(* for, and never more than it holds above its floor.                      *)
DonorGives_DownToOne(held, floor, cost, needed) ==
    LET asked == (needed + cost - 1) \div cost
        spare == held - 1
    IN  IF needed <= 0 \/ spare <= 0 THEN 0 ELSE IF asked < spare THEN asked ELSE spare

DonorGives(held, floor, cost, needed) ==
    LET asked == (needed + cost - 1) \div cost
        spare == held - floor
    IN  IF needed <= 0 \/ spare <= 0 THEN 0 ELSE IF asked < spare THEN asked ELSE spare

(* The shortfall when the donors in `drained` have given all they can.     *)
AtFloor(n, floor) == IF n > floor THEN floor ELSE n

Shortfall(cur, target, desired, drained) ==
    Usage([e \in Deployments |-> IF e = target THEN desired
                                ELSE IF e \in drained THEN AtFloor(cur[e], Floor[e])
                                ELSE cur[e]]) - TotalBudget

(* By the time a donor is asked, those before it have given all they can,  *)
(* or the shortfall is covered and it is asked for nothing.                *)
Donation(cur, target, desired, priority, d) ==
    LET earlier == {e \in Deployments \ {target} : GivesBefore(cur, priority, e, d)}
    IN  DonorGives(cur[d], Floor[d], Cost[d], Shortfall(cur, target, desired, earlier))

ComputeBudgetPlan(cur, target, desired, priority) ==
    IF NeedsNoDonor(cur, target, desired)
    THEN [feasible |-> TRUE, proposed |-> [cur EXCEPT ![target] = desired]]
    ELSE [feasible |-> Shortfall(cur, target, desired, Deployments) <= 0,
          proposed |-> [d \in Deployments |->
              IF d = target THEN desired
              ELSE cur[d] - Donation(cur, target, desired, priority, d)]]

-----------------------------------------------------------------------------
(* The elements of a sequence at some of its positions, in order: what     *)
(* SelectSeq gives, without recursion, so that theorems can be proved.     *)
Subsequence(s, I) ==
    [k \in 1..Cardinality(I) |-> s[CHOOSE i \in I : Cardinality({j \in I : j < i}) = k - 1]]

(* _build_actions_from_plan: the deployments the plan scales down, in the  *)
(* order of the priority list when there is one and by name otherwise,     *)
(* then the target.  The steps are set_replicas calls.                     *)
Step(d, n) == [deployment |-> d, replicas |-> n]

DonorSteps(cur, target, proposed, order) ==
    LET gave(d) == d \in Deployments \ {target} /\ proposed[d] < cur[d]
        donors == Subsequence(order, {i \in 1..Len(order) : gave(order[i])})
    IN  [i \in 1..Len(donors) |-> Step(donors[i], proposed[donors[i]])]

BuildActions_TargetFirst(cur, target, proposed, priority) ==
    <<Step(target, proposed[target])>>
        \o DonorSteps(cur, target, proposed, IF priority = <<>> THEN NameOrder ELSE priority)

BuildActions(cur, target, proposed, priority) ==
    Append(DonorSteps(cur, target, proposed, IF priority = <<>> THEN NameOrder ELSE priority),
           Step(target, proposed[target]))

(* The steps execute_budget_allocation takes: those that change nothing    *)
(* against the reading are skipped.                                        *)
EffectiveSteps(cur, steps) ==
    Subsequence(steps, {i \in 1..Len(steps) : steps[i].replicas # cur[steps[i].deployment]})

(* The cluster after the steps of a plan, all of them carried out.         *)
AfterSteps(cur, steps) ==
    FoldLeft(LAMBDA r, s : [r EXCEPT ![s.deployment] = s.replicas], cur, steps)
=============================================================================
