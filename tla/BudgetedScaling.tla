-------------------------- MODULE BudgetedScaling --------------------------
(***************************************************************************)
(* set_replicas and execute_budget_allocation (agents-devops/k8s_mcp.py)   *)
(* against a cluster that others change too.                               *)
(*                                                                         *)
(* The tools are synchronous functions on the MCP server's event loop, so  *)
(* one call runs at a time and the guardian's calls never interleave.      *)
(* Inside a call every Kubernetes request is a step of its own: the        *)
(* replica counts are read one deployment after another, and between any   *)
(* two requests the autoscaler, an operator or the approved override of    *)
(* main_agent_guardian.py may scale a deployment.  A request may fail      *)
(* before it takes effect, fail after it took effect (the answer is lost), *)
(* and the server may be killed between two requests.                      *)
(*                                                                         *)
(* WHO acts: the model through Call*, the server through the actions of    *)
(* ServerStep, the environment through ScaledByOthers and Crash.           *)
(***************************************************************************)
EXTENDS ReplicaBudget

CONSTANTS
    InitialReplicas,    \* the replica counts the cluster may start with
    Wanted,             \* the replica counts a caller may ask for
    Priorities,         \* the donor_priority lists a caller may give
    OthersScale,        \* the counts others may set; {} if nobody else scales
    MaxOthers,          \* bound on the scalings by others
    MaxFaults           \* bound on API errors, lost answers and crashes

ASSUME ScalingAssumption ==
    /\ InitialReplicas \subseteq Readings
    /\ Wanted \subseteq Nat
    /\ Priorities \subseteq Seq(Deployments \cup {Unknown})
    /\ OthersScale \subseteq Nat
    /\ MaxOthers \in Nat
    /\ MaxFaults \in Nat

VARIABLES
    replicas,   \* the cluster: spec.replicas of every deployment
    tool,       \* the tool being served: "none", "set" or "allocate"
    phase,      \* where the tool is
    request,    \* the set_replicas call in progress (its own or a step)
    seen,       \* counts read so far by _read_all_current_replicas
    goal,       \* target_deployment, desired_replicas and donor_priority
    initial,    \* execute_budget_allocation: the reading it planned from
    plan,       \* proposed_replicas, once there is a feasible plan
    todo,       \* the steps (of the plan, or of its rollback) left, in order
    applied,    \* applied_changes: [deployment, replicas (the old count)]
    undone,     \* whether every rollback step so far succeeded
    outcome,    \* what the last call returned
    others,     \* how often others scaled
    faults,     \* how many faults happened
    disturbed,  \* history: others scaled since the last call began
    lost        \* history: an answer was lost since the last call began

serverVars == <<tool, phase, request, seen, goal, initial, plan, todo, applied, undone, outcome>>
vars == <<replicas, serverVars, others, faults, disturbed, lost>>

Change == [deployment : Deployments, replicas : Nat]
NoRequest == Step(Unknown, 0)
NoGoal == [target |-> Unknown, desired |-> 0, priority |-> <<>>]
NothingSeen == [d \in {} |-> 0]

TypeOK ==
    /\ replicas \in Readings
    /\ tool \in {"none", "set", "allocate"}
    /\ phase \in {"idle", "survey", "apply", "undo", "final"}
    /\ request \in [deployment : Deployments \cup {Unknown}, replicas : Nat]
    /\ phase \in {"apply", "undo"} => request.deployment \in Deployments
    /\ DOMAIN seen \subseteq Deployments
    /\ \A d \in DOMAIN seen : seen[d] \in Nat
    /\ goal \in [target : Deployments \cup {Unknown}, desired : Nat, priority : Seq(Deployments \cup {Unknown})]
    /\ initial \in Readings \cup {NothingSeen}
    /\ plan \in Readings \cup {NothingSeen}
    /\ todo \in Seq(Change)
    /\ applied \in Seq(Change)
    /\ undone \in BOOLEAN
    /\ outcome \in {"none", "refused", "error", "success", "partial", "crashed"}
    /\ others \in Nat
    /\ faults \in Nat
    /\ disturbed \in BOOLEAN
    /\ lost \in BOOLEAN

Init ==
    /\ replicas \in InitialReplicas
    /\ tool = "none"
    /\ phase = "idle"
    /\ request = NoRequest
    /\ seen = NothingSeen
    /\ goal = NoGoal
    /\ initial = NothingSeen
    /\ plan = NothingSeen
    /\ todo = <<>>
    /\ applied = <<>>
    /\ undone = TRUE
    /\ outcome = "none"
    /\ others = 0
    /\ faults = 0
    /\ disturbed = FALSE
    /\ lost = FALSE

-----------------------------------------------------------------------------
(* How a call, or a step of one, ends.                                     *)

(* The tool returns to the model.  goal, initial, plan, applied and undone *)
(* keep what they were in that call, for the properties to refer to.       *)
Return(result) ==
    /\ tool' = "none"
    /\ phase' = "idle"
    /\ request' = NoRequest
    /\ seen' = NothingSeen
    /\ todo' = <<>>
    /\ outcome' = result
    /\ UNCHANGED <<goal, initial, plan>>

(* The next set_replicas call of a list of steps.                          *)
StartStep(steps, newPhase) ==
    /\ phase' = newPhase
    /\ request' = Head(steps)
    /\ todo' = steps
    /\ seen' = NothingSeen
    /\ UNCHANGED <<tool, goal, outcome>>

(* After a rollback step, successful or not: the next one, or the end.     *)
ContinueUndo_NeverAdvances ==
    IF todo = <<>>
    THEN Return("partial")
    ELSE StartStep(todo, "undo") /\ UNCHANGED <<initial, plan>>

ContinueUndo ==
    IF Tail(todo) = <<>>
    THEN Return("partial")
    ELSE StartStep(Tail(todo), "undo") /\ UNCHANGED <<initial, plan>>

(* The plan is through: the cluster is read once more for the report.      *)
StartFinalReading ==
    /\ phase' = "final"
    /\ request' = NoRequest
    /\ todo' = <<>>
    /\ seen' = NothingSeen
    /\ UNCHANGED <<tool, goal, outcome>>

StepSucceeded ==
    \/ /\ tool = "set"
       /\ Return("success")
       /\ UNCHANGED <<applied, undone>>
    \/ /\ tool = "allocate" /\ phase = "apply"
       /\ applied' = Append(applied, Step(request.deployment, initial[request.deployment]))
       /\ IF Tail(todo) = <<>> THEN StartFinalReading ELSE StartStep(Tail(todo), "apply")
       /\ UNCHANGED <<initial, plan, undone>>
    \/ /\ phase = "undo"
       /\ ContinueUndo
       /\ UNCHANGED <<applied, undone>>

(* A failed step of an allocation starts the rollback of the steps applied *)
(* so far, last one first; a failed rollback step is noted and passed by.  *)
UndoSteps_SkipsLast(changes) == IF changes = <<>> THEN <<>> ELSE Tail(Reverse(changes))

UndoSteps(changes) == Reverse(changes)

StepFailed(why) ==
    \/ /\ tool = "set"
       /\ Return(why)
       /\ UNCHANGED <<applied, undone>>
    \/ /\ tool = "allocate" /\ phase = "apply"
       /\ IF UndoSteps(applied) = <<>>
          THEN Return("partial")
          ELSE StartStep(UndoSteps(applied), "undo") /\ UNCHANGED <<initial, plan>>
       /\ UNCHANGED <<applied, undone>>
    \/ /\ phase = "undo"
       /\ undone' = FALSE
       /\ ContinueUndo
       /\ UNCHANGED applied

-----------------------------------------------------------------------------
(* The model calls a tool.                                                 *)

NothingPlanned ==
    /\ disturbed' = FALSE
    /\ lost' = FALSE
    /\ initial' = NothingSeen
    /\ plan' = NothingSeen
    /\ applied' = <<>>
    /\ undone' = TRUE

CallSetReplicas_AnyName(d, n) ==
    /\ phase = "idle"
    /\ WithinLimits(n)
    /\ tool' = "set"
    /\ phase' = "apply"
    /\ request' = Step(d, n)
    /\ seen' = NothingSeen
    /\ goal' = NoGoal
    /\ outcome' = "none"
    /\ NothingPlanned
    /\ UNCHANGED <<replicas, todo, others, faults>>

CallSetReplicas(d, n) ==
    /\ phase = "idle"
    /\ d \in Deployments /\ WithinLimits(n)
    /\ tool' = "set"
    /\ phase' = "apply"
    /\ request' = Step(d, n)
    /\ seen' = NothingSeen
    /\ goal' = NoGoal
    /\ outcome' = "none"
    /\ NothingPlanned
    /\ UNCHANGED <<replicas, todo, others, faults>>

CallAllocate(d, n, p) ==
    /\ phase = "idle"
    /\ Plannable(d, n)
    /\ tool' = "allocate"
    /\ phase' = "survey"
    /\ request' = NoRequest
    /\ seen' = NothingSeen
    /\ goal' = [target |-> d, desired |-> n, priority |-> p]
    /\ outcome' = "none"
    /\ NothingPlanned
    /\ UNCHANGED <<replicas, todo, others, faults>>

(* An unauthorized name or a count outside the limits: no request is made. *)
RefuseCall(d, n) ==
    /\ phase = "idle"
    /\ ~(d \in Deployments /\ WithinLimits(n) /\ Plannable(d, n))
    /\ goal' = NoGoal
    /\ outcome' = "refused"
    /\ NothingPlanned
    /\ UNCHANGED <<replicas, tool, phase, request, seen, todo, others, faults>>

-----------------------------------------------------------------------------
(* The server works on the call.                                           *)

AllSeen == DOMAIN seen = Deployments

(* set_replicas checks the policy limits before it reads anything, also    *)
(* when it is called for a step of a plan or of a rollback.                *)
MayRead ==
    /\ phase \in {"survey", "apply", "undo", "final"}
    /\ ~AllSeen
    /\ phase \in {"apply", "undo"} => WithinLimits(request.replicas)

(* _read_all_current_replicas: one request per deployment, by name.        *)
ReadNext ==
    /\ MayRead
    /\ LET d == NameOrder[Cardinality(DOMAIN seen) + 1]
       IN  seen' = [e \in DOMAIN seen \cup {d} |-> IF e = d THEN replicas[d] ELSE seen[e]]
    /\ UNCHANGED <<replicas, tool, phase, request, goal, initial, plan, todo,
                   applied, undone, outcome, others, faults, disturbed, lost>>

(* The reading the allocation plans from is complete: plan, drop the steps *)
(* that change nothing, and start on the first.                            *)
PlanAllocation ==
    /\ phase = "survey"
    /\ AllSeen
    /\ \E answer \in {ComputeBudgetPlan(seen, goal.target, goal.desired, goal.priority)} :
       \E actions \in {BuildActions(seen, goal.target, answer.proposed, goal.priority)} :
       \E steps \in {EffectiveSteps(seen, actions)} :
       \/ /\ ~answer.feasible
          /\ Return("refused")
       \/ /\ answer.feasible
          /\ initial' = seen
          /\ plan' = answer.proposed
          /\ IF steps = <<>> THEN StartFinalReading ELSE StartStep(steps, "apply")
    /\ UNCHANGED <<replicas, applied, undone, others, faults, disturbed, lost>>

(* The two refusals of set_replicas.                                       *)
Projected_IgnoresRequest == seen

Projected == [seen EXCEPT ![request.deployment] = request.replicas]

GuardBlocks ==
    /\ phase \in {"apply", "undo"}
    /\ \/ ~WithinLimits(request.replicas)
       \/ AllSeen /\ ~WithinBudget(Projected)
    /\ StepFailed("refused")
    /\ UNCHANGED <<replicas, others, faults, disturbed, lost>>

(* The patch that scales the deployment.                                   *)
MayPatch_NoBudgetGuard ==
    /\ phase \in {"apply", "undo"}
    /\ WithinLimits(request.replicas)
    /\ AllSeen

MayPatch ==
    /\ phase \in {"apply", "undo"}
    /\ WithinLimits(request.replicas)
    /\ AllSeen
    /\ WithinBudget(Projected)

Patched == [replicas EXCEPT ![request.deployment] = request.replicas]

PatchSucceeds ==
    /\ MayPatch
    /\ replicas' = Patched
    /\ StepSucceeded
    /\ UNCHANGED <<others, faults, disturbed, lost>>

(* The final reading is complete: report success.                          *)
ReportSuccess ==
    /\ phase = "final"
    /\ AllSeen
    /\ Return("success")
    /\ UNCHANGED <<replicas, applied, undone, others, faults, disturbed, lost>>

-----------------------------------------------------------------------------
(* What goes wrong.                                                        *)

Fault == faults < MaxFaults /\ faults' = faults + 1

(* A read fails.  set_replicas blocks "for safety"; while planning or in   *)
(* the final reading the allocation returns an error.                      *)
ReadFails ==
    /\ MayRead
    /\ Fault
    /\ IF phase \in {"apply", "undo"}
       THEN StepFailed("refused")
       ELSE Return("error") /\ UNCHANGED <<applied, undone>>
    /\ UNCHANGED <<replicas, others, disturbed, lost>>

(* The patch is answered with an error, and had no effect...               *)
PatchRejected ==
    /\ MayPatch
    /\ Fault
    /\ StepFailed("error")
    /\ UNCHANGED <<replicas, others, disturbed, lost>>

(* ... or it took effect and its answer is lost: an error all the same.    *)
PatchAnswerLost ==
    /\ MayPatch
    /\ Fault
    /\ replicas' = Patched
    /\ StepFailed("error")
    /\ lost' = TRUE
    /\ UNCHANGED <<others, disturbed>>

(* The server process is killed and restarted: the call is gone.           *)
Crash ==
    /\ phase # "idle"
    /\ Fault
    /\ Return("crashed")
    /\ UNCHANGED <<replicas, applied, undone, others, disturbed, lost>>

(* The autoscaler, an operator or the approved override scales.            *)
ScaledByOthers(d, n) ==
    /\ others < MaxOthers
    /\ n # replicas[d]
    /\ replicas' = [replicas EXCEPT ![d] = n]
    /\ others' = others + 1
    /\ disturbed' = TRUE
    /\ UNCHANGED <<serverVars, faults, lost>>

-----------------------------------------------------------------------------
Calls ==
    \E d \in Deployments \cup {Unknown}, n \in Wanted :
        \/ CallSetReplicas(d, n)
        \/ \E p \in Priorities : CallAllocate(d, n, p)
        \/ RefuseCall(d, n)

ServerStep ==
    \/ ReadNext
    \/ PlanAllocation
    \/ GuardBlocks
    \/ PatchSucceeds
    \/ ReportSuccess

Faults ==
    \/ ReadFails
    \/ PatchRejected
    \/ PatchAnswerLost
    \/ Crash

Next ==
    \/ Calls
    \/ ServerStep
    \/ Faults
    \/ \E d \in Deployments, n \in OthersScale : ScaledByOthers(d, n)

Spec == Init /\ [][Next]_vars

(* The server does not stop in the middle of a call: the tools have no     *)
(* await.  That a request to the API ends, answered or failed, is assumed  *)
(* of the environment: the client is given no timeout.                     *)
FairSpec == Spec /\ WF_vars(ServerStep)

-----------------------------------------------------------------------------
(* The last, or current, allocation got as far as a feasible plan.         *)
Planned == plan # NothingSeen

(* The promise of README.md:516, for the guardian alone: until somebody    *)
(* else scales, no sequence of calls, failed steps, rollbacks, lost        *)
(* answers and crashes takes a cluster that was within it over             *)
(* TOTAL_REPLICA_BUDGET.                                                   *)
BudgetRespected == others = 0 => WithinBudget(replicas)

(* Whatever others did before, over the budget or not: a patch of a call   *)
(* they did not disturb leaves the cluster within the budget, because what *)
(* set_replicas read before it is still true (k8s_mcp.py:180).             *)
PatchesEndInBudget ==
    [][replicas' # replicas /\ ~disturbed' => WithinBudget(replicas')]_vars

(* An undisturbed allocation never takes a service below its own floor,    *)
(* not even halfway, undone or abandoned (DEPLOYMENT_MIN_REPLICAS;         *)
(* set_replicas by itself only knows MIN_REPLICAS).                        *)
DonorsKeepFloor ==
    Planned /\ ~disturbed =>
        \A d \in Deployments : initial[d] >= Floor[d] => replicas[d] >= Floor[d]

(* What the guardian may restore: others can put the cluster where neither *)
(* the limits nor the budget guard let set_replicas bring it back.         *)
WithinPolicy(r) == WithinBudget(r) /\ \A d \in Deployments : WithinLimits(r[d])

(* Donors a priority list leaves out are planned with and never scaled     *)
(* down (ActionsRealizePlan of BudgetPlanner).                             *)
DonorsNamed == goal.priority = <<>> \/ Deployments \ {goal.target} \subseteq ToSet(goal.priority)

(* "If a step fails, attempt rollback of already applied changes"          *)
(* (k8s_mcp.py:327).  After a partial allocation the cluster is back where *)
(* the call found it when every rollback step went through, and a single   *)
(* fault in a cluster within the policy never keeps one from going         *)
(* through when the donors were all named, or left to the default order:   *)
(* only that fault starts the rollback, and the order of the rollback gets *)
(* it past the budget guard of set_replicas.  (With donors left out of the *)
(* list the guard starts it, and the fault can hit the rollback.)  The     *)
(* exception is a step that took effect and whose answer was lost.         *)
RollbackRestores ==
    outcome = "partial" /\ ~disturbed /\ ~lost =>
        ((undone \/ (faults <= 1 /\ DonorsNamed /\ WithinPolicy(initial))) => replicas = initial)

(* A feasible plan whose donors were all named, or left to the default     *)
(* order, is carried out: none of its steps, in the order they are taken,  *)
(* meets the guards of set_replicas, and when the call reports success the *)
(* cluster is where the plan said, whatever else failed (k8s_mcp.py:417).  *)
PlanIsCarriedOut ==
    Planned /\ ~disturbed =>
        /\ outcome = "success" => replicas = plan
        /\ faults = 0 /\ DonorsNamed /\ WithinPolicy(initial) => outcome # "partial"

(* Every call returns, through rollback and all.                           *)
CallReturns == phase # "idle" ~> phase = "idle"

(* The cluster and who scales it, without the tools and their algorithm.   *)
Cluster == INSTANCE BudgetedCluster

StaysWithinPolicy == Cluster!Spec
=============================================================================
