--------------------------- MODULE BudgetPlanner ---------------------------
(***************************************************************************)
(* plan_budget_allocation (agents-devops/k8s_mcp.py) with the planning     *)
(* loop it calls (compute_budget_plan in                                   *)
(* agents-devops/src/agent_guardian/budgeting.py), one iteration of the    *)
(* loop per step.                                                          *)
(*                                                                         *)
(* A behaviour is one call of the tool: the request and the reading of the *)
(* cluster are chosen initially and never change.  The reading is whatever *)
(* the API returned, so any replica counts; the priority list is whatever  *)
(* the model wrote in donor_priority_csv, so it may leave deployments out, *)
(* repeat them, name the target or name something unknown.                 *)
(***************************************************************************)
EXTENDS ReplicaBudget

CONSTANTS
    MaxReading,     \* bound on the replica counts a reading may hold
    MaxDesired,     \* bound on the requested replica count
    Priorities      \* the donor_priority lists considered

ASSUME PlannerAssumption ==
    /\ MaxReading \in Nat
    /\ MaxDesired \in Nat
    /\ Priorities \subseteq Seq(Deployments \cup {Unknown})

VARIABLES
    current,    \* current_replicas: the reading
    target,     \* target_deployment
    desired,    \* desired_replicas
    priority,   \* donor_priority, <<>> for None
    pc,         \* where the call is
    donors,     \* the donors the loop is not through with
    needed,     \* needed_budget_units
    proposed,   \* proposed: the counts the plan arrives at
    outcome     \* what the call returned

request == <<current, target, desired, priority>>
vars == <<request, pc, donors, needed, proposed, outcome>>

Outcomes == {"none", "refused", "unreadable", "feasible", "infeasible"}

TypeOK ==
    /\ current \in Readings
    /\ target \in Deployments \cup {Unknown}
    /\ desired \in Nat
    /\ priority \in Priorities
    /\ pc \in {"request", "donate", "verify", "done"}
    /\ donors \subseteq Deployments
    /\ needed \in Int
    /\ proposed \in Readings
    /\ outcome \in Outcomes

Init ==
    /\ current \in [Deployments -> 0..MaxReading]
    /\ target \in Deployments \cup {Unknown}
    /\ desired \in 0..MaxDesired
    /\ priority \in Priorities
    /\ pc = "request"
    /\ donors = {}
    /\ needed = 0
    /\ proposed = current
    /\ outcome = "none"

-----------------------------------------------------------------------------
(* The target is not authorized, or the count is outside the service's     *)
(* floor and the emergency maximum: nothing is read or planned.            *)
Refuse ==
    /\ pc = "request"
    /\ ~Plannable(target, desired)
    /\ pc' = "done"
    /\ outcome' = "refused"
    /\ UNCHANGED <<request, donors, needed, proposed>>

(* A read of the cluster fails: the tool returns an error.                 *)
FailToRead ==
    /\ pc = "request"
    /\ Plannable(target, desired)
    /\ pc' = "done"
    /\ outcome' = "unreadable"
    /\ UNCHANGED <<request, donors, needed, proposed>>

(* A scale-down, or a scale-up that fits: feasible without donors, and     *)
(* without looking at the total again.                                     *)
MoveTargetAlone_ForgetsBudget ==
    /\ pc = "request"
    /\ Plannable(target, desired)
    /\ proposed' = [current EXCEPT ![target] = desired]
    /\ pc' = "done"
    /\ outcome' = "feasible"
    /\ UNCHANGED <<request, donors, needed>>

MoveTargetAlone ==
    /\ pc = "request"
    /\ Plannable(target, desired)
    /\ NeedsNoDonor(current, target, desired)
    /\ proposed' = [current EXCEPT ![target] = desired]
    /\ pc' = "done"
    /\ outcome' = "feasible"
    /\ UNCHANGED <<request, donors, needed>>

(* A scale-up that does not fit: set up the loop over the donors.          *)
SeekDonors ==
    /\ pc = "request"
    /\ Plannable(target, desired)
    /\ ~NeedsNoDonor(current, target, desired)
    /\ donors' = Deployments \ {target}
    /\ needed' = Usage([current EXCEPT ![target] = desired]) - TotalBudget
    /\ pc' = "donate"
    /\ UNCHANGED <<request, proposed, outcome>>

(* The donor the for loop is at: the first of those it is not through with.*)
AtDonor(d) ==
    /\ d \in donors
    /\ \A e \in donors \ {d} : GivesBefore(current, priority, d, e)

(* The condition of the while loop: `needed_budget_units > 0 and           *)
(* proposed[donor] > floors[donor]`.                                       *)
CanGive_Overshoots(d) == needed >= 0 /\ proposed[d] > Floor[d]

CanGive_BelowFloor(d) == needed > 0 /\ proposed[d] >= Floor[d] /\ proposed[d] > 0

CanGive_Everything(d) == needed > 0

CanGive_KeepsOne(d) == needed > 0 /\ proposed[d] > Floor[d] + 1

CanGive(d) == needed > 0 /\ proposed[d] > Floor[d]

(* One iteration of the inner while loop.                                  *)
TakeReplica(d) ==
    /\ pc = "donate"
    /\ AtDonor(d)
    /\ CanGive(d)
    /\ proposed' = [proposed EXCEPT ![d] = @ - 1]
    /\ needed' = needed - Cost[d]
    /\ UNCHANGED <<request, pc, donors, outcome>>

(* The inner loop ends for this donor: the for loop moves on.              *)
NextDonor(d) ==
    /\ pc = "donate"
    /\ AtDonor(d)
    /\ ~CanGive(d)
    /\ donors' = donors \ {d}
    /\ UNCHANGED <<request, pc, needed, proposed, outcome>>

(* No donor is left and the shortfall is not covered.                      *)
GiveUp ==
    /\ pc = "donate"
    /\ donors = {}
    /\ needed > 0
    /\ pc' = "done"
    /\ outcome' = "infeasible"
    /\ UNCHANGED <<request, donors, needed, proposed>>

(* The shortfall is covered: the target gets what was asked for.           *)
GrantTarget ==
    /\ pc = "donate"
    /\ donors = {}
    /\ needed <= 0
    /\ proposed' = [proposed EXCEPT ![target] = desired]
    /\ pc' = "verify"
    /\ UNCHANGED <<request, donors, needed, outcome>>

(* The total is computed again; a plan over the budget would be dropped.   *)
Verify ==
    /\ pc = "verify"
    /\ pc' = "done"
    /\ outcome' = IF WithinBudget(proposed) THEN "feasible" ELSE "infeasible"
    /\ UNCHANGED <<request, donors, needed, proposed>>

Next ==
    \/ Refuse
    \/ FailToRead
    \/ MoveTargetAlone
    \/ SeekDonors
    \/ \E d \in Deployments : TakeReplica(d) \/ NextDonor(d)
    \/ GiveUp
    \/ GrantTarget
    \/ Verify

Spec == Init /\ [][Next]_vars

-----------------------------------------------------------------------------
(* A donor has given something only if every donor before it has nothing   *)
(* left to give: the priority the caller stated is the priority that is    *)
(* applied (the for loop at budgeting.py:113).                             *)
DonorsInOrder ==
    pc # "request" =>
        \A d, e \in Deployments \ {target} :
            proposed[d] < current[d] /\ GivesBefore(current, priority, e, d)
                => proposed[e] <= Floor[e]

(* No service is asked for more than the shortfall: giving the donor that  *)
(* gave last one replica back would break the budget, and no donor goes    *)
(* below its own floor (budgeting.py:114).                                 *)
NoNeedlessDonation ==
    outcome = "feasible" =>
        \A d \in Deployments \ {target} :
            proposed[d] < current[d] =>
                /\ proposed[d] >= Floor[d]
                /\ \E e \in Deployments \ {target} :
                       /\ proposed[e] < current[e]
                       /\ ~WithinBudget([proposed EXCEPT ![e] = @ + 1])

(* The loop computes the donation it is meant to compute: what it leaves   *)
(* in proposed_replicas is the closed form that BudgetedScaling uses.      *)
LoopMatchesClosedForm ==
    outcome \in {"feasible", "infeasible"} =>
        LET plan == ComputeBudgetPlan(current, target, desired, priority)
        IN  /\ plan.feasible = (outcome = "feasible")
            /\ plan.feasible => plan.proposed = proposed

(* The last check of compute_budget_plan (budgeting.py:128) never fires:   *)
(* a covered shortfall means a plan within the budget.                     *)
RecheckNeverFires == pc = "verify" => WithinBudget(proposed)

(* What a caller relies on when it follows actions_in_order step by step:  *)
(* the steps lead from the reading to the proposal.  (prompts.py:143 tells *)
(* the model to follow them.)                                              *)
ActionsRealizePlan ==
    outcome = "feasible" =>
        AfterSteps(current, BuildActions(current, target, proposed, priority)) = proposed

-----------------------------------------------------------------------------
(* What the planner promises, whatever the algorithm: see AllocationAnswer.*)
Answer == INSTANCE AllocationAnswer WITH
    Allocations <- [Deployments -> 0..(MaxReading + MaxDesired)],
    answer <- IF pc = "done" THEN outcome ELSE "none",
    allocation <- IF outcome = "feasible" THEN proposed ELSE current

(* Every call of the tool is a correct answer in one step.                 *)
AnswersCorrectly == Answer!Spec
=============================================================================
