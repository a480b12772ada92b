----------------------- MODULE BudgetedScaling_proofs -----------------------
(***************************************************************************)
(* Theorems about set_replicas and execute_budget_allocation, for every    *)
(* set of deployments, every budget, and any number of calls and faults.   *)
(* ReadInv, that what the server has read is what the cluster is unless it *)
(* was disturbed, carries the theorems about the budget; CarryInv, which   *)
(* relates the steps taken and to be taken to the plan, those about the    *)
(* allocation and its rollback.                                            *)
(***************************************************************************)
EXTENDS BudgetedScaling, ReplicaBudget_proofs, SequenceTheorems

Results == {"none", "refused", "error", "success", "partial", "crashed"}

(* What the server knows has its types, and is there when it is needed:    *)
(* steps are left while the steps of an allocation run, they are steps on  *)
(* target deployments, and there is a reading to record old counts from.   *)
ServerOK ==
    /\ tool \in {"none", "set", "allocate"}
    /\ phase \in {"idle", "survey", "apply", "undo", "final"}
    /\ request \in [deployment : Deployments \cup {Unknown}, replicas : Nat]
    /\ DOMAIN seen \subseteq Deployments
    /\ \A d \in DOMAIN seen : seen[d] \in Nat
    /\ seen = [d \in DOMAIN seen |-> seen[d]]
    /\ goal \in [target : Deployments \cup {Unknown}, desired : Nat,
                 priority : Seq(Deployments \cup {Unknown})]
    /\ initial \in Readings \cup {NothingSeen}
    /\ plan \in Readings \cup {NothingSeen}
    /\ todo \in Seq(Change)
    /\ applied \in Seq(Change)
    /\ undone \in BOOLEAN
    /\ outcome \in Results
    /\ phase \in {"apply", "undo"} => request.deployment \in Deployments
    /\ tool = "set" => phase = "apply"
    /\ phase = "undo" => tool = "allocate"
    /\ phase = "survey" => tool = "allocate" /\ goal.target \in Deployments
    /\ tool = "allocate" /\ phase \in {"apply", "undo"} => todo # <<>>
    /\ tool = "allocate" /\ phase = "apply" => initial \in Readings

ClusterOK ==
    /\ replicas \in Readings
    /\ others \in Nat
    /\ faults \in Nat
    /\ disturbed \in BOOLEAN
    /\ lost \in BOOLEAN
    /\ disturbed => others > 0

LEMMA NothingSeenType ==
    DOMAIN NothingSeen = {} /\ NothingSeen = [d \in DOMAIN NothingSeen |-> NothingSeen[d]]
  BY DEF NothingSeen

(* The ways a call, or a step of one, ends.                                *)
LEMMA ReturnKeepsOK ==
    ASSUME ServerOK, NEW result \in Results, Return(result),
           applied' \in Seq(Change), undone' \in BOOLEAN
    PROVE  ServerOK'
  <1>1. NoRequest \in [deployment : Deployments \cup {Unknown}, replicas : Nat] /\ <<>> \in Seq(Change)
    BY DEF NoRequest, Step
  <1> QED
    BY <1>1, NothingSeenType DEF ServerOK, Return

LEMMA StartStepKeepsOK ==
    ASSUME ServerOK, NEW steps \in Seq(Change), steps # <<>>, NEW newPhase \in {"apply", "undo"},
           StartStep(steps, newPhase), tool = "allocate", newPhase = "apply" => initial' \in Readings,
           initial' \in Readings \cup {NothingSeen}, plan' \in Readings \cup {NothingSeen},
           applied' \in Seq(Change), undone' \in BOOLEAN
    PROVE  ServerOK'
  <1>1. Head(steps) \in Change
    OBVIOUS
  <1>2. /\ Head(steps).deployment \in Deployments
        /\ Head(steps) \in [deployment : Deployments \cup {Unknown}, replicas : Nat]
    BY <1>1 DEF Change
  <1> QED
    BY <1>2, NothingSeenType DEF ServerOK, StartStep

LEMMA StartFinalReadingKeepsOK ==
    ASSUME ServerOK, StartFinalReading, tool = "allocate",
           initial' \in Readings \cup {NothingSeen}, plan' \in Readings \cup {NothingSeen},
           applied' \in Seq(Change), undone' \in BOOLEAN
    PROVE  ServerOK'
  <1>1. NoRequest \in [deployment : Deployments \cup {Unknown}, replicas : Nat] /\ <<>> \in Seq(Change)
    BY DEF NoRequest, Step
  <1> QED
    BY <1>1, NothingSeenType DEF ServerOK, StartFinalReading

LEMMA TailType ==
    ASSUME NEW T, NEW s \in Seq(T), s # <<>>
    PROVE  Tail(s) \in Seq(T)
  OBVIOUS

LEMMA ContinueUndoKeepsOK ==
    ASSUME ServerOK, phase = "undo", ContinueUndo, applied' \in Seq(Change), undone' \in BOOLEAN
    PROVE  ServerOK'
  <1>1. todo # <<>> /\ tool = "allocate" /\ todo \in Seq(Change)
    BY DEF ServerOK
  <1>2. Tail(todo) \in Seq(Change)
    BY <1>1, TailType
  <1>3. CASE Tail(todo) = <<>>
    BY <1>3, ReturnKeepsOK DEF ContinueUndo, Results
  <1>4. CASE Tail(todo) # <<>>
    <2>1. /\ StartStep(Tail(todo), "undo") /\ initial' = initial /\ plan' = plan
      BY <1>4 DEF ContinueUndo
    <2> QED
      BY <1>1, <1>2, <1>4, <2>1, StartStepKeepsOK DEF ServerOK
  <1> QED
    BY <1>3, <1>4

LEMMA StepSucceededKeepsOK ==
    ASSUME ServerOK, phase \in {"apply", "undo"}, StepSucceeded
    PROVE  ServerOK'
  <1>1. CASE tool = "set" /\ Return("success") /\ UNCHANGED <<applied, undone>>
    BY <1>1, ReturnKeepsOK DEF ServerOK, Results
  <1>2. CASE phase = "undo" /\ ContinueUndo /\ UNCHANGED <<applied, undone>>
    BY <1>2, ContinueUndoKeepsOK DEF ServerOK
  <1>3. CASE /\ tool = "allocate" /\ phase = "apply"
             /\ applied' = Append(applied, Step(request.deployment, initial[request.deployment]))
             /\ IF Tail(todo) = <<>> THEN StartFinalReading ELSE StartStep(Tail(todo), "apply")
             /\ UNCHANGED <<initial, plan, undone>>
    <2>1. /\ todo # <<>> /\ todo \in Seq(Change) /\ initial \in Readings
          /\ request.deployment \in Deployments /\ applied \in Seq(Change)
          /\ undone \in BOOLEAN /\ plan \in Readings \cup {NothingSeen}
      BY <1>3 DEF ServerOK
    <2>2. Step(request.deployment, initial[request.deployment]) \in Change
      BY <2>1 DEF Step, Change, Readings
    <2>3. applied' \in Seq(Change) /\ Tail(todo) \in Seq(Change)
      BY <1>3, <2>1, <2>2, TailType
    <2> QED
      BY <1>3, <2>1, <2>3, StartFinalReadingKeepsOK, StartStepKeepsOK
  <1> QED
    BY <1>1, <1>2, <1>3 DEF StepSucceeded

LEMMA StepFailedKeepsOK ==
    ASSUME ServerOK, phase \in {"apply", "undo"}, NEW why \in Results, StepFailed(why)
    PROVE  ServerOK'
  <1>1. CASE tool = "set" /\ Return(why) /\ UNCHANGED <<applied, undone>>
    BY <1>1, ReturnKeepsOK DEF ServerOK
  <1>2. CASE phase = "undo" /\ undone' = FALSE /\ ContinueUndo /\ UNCHANGED applied
    BY <1>2, ContinueUndoKeepsOK DEF ServerOK
  <1>3. CASE /\ tool = "allocate" /\ phase = "apply"
             /\ IF UndoSteps(applied) = <<>>
                THEN Return("partial")
                ELSE StartStep(UndoSteps(applied), "undo") /\ UNCHANGED <<initial, plan>>
             /\ UNCHANGED <<applied, undone>>
    <2>1. /\ applied \in Seq(Change) /\ undone \in BOOLEAN
          /\ initial \in Readings \cup {NothingSeen} /\ plan \in Readings \cup {NothingSeen}
      BY DEF ServerOK
    <2>2. UndoSteps(applied) \in Seq(Change)
      BY <2>1 DEF UndoSteps, Reverse
    <2> QED
      BY <1>3, <2>1, <2>2, ReturnKeepsOK, StartStepKeepsOK DEF Results
  <1> QED
    BY <1>1, <1>2, <1>3 DEF StepFailed

-----------------------------------------------------------------------------
LEMMA CallsKeepOK == ServerOK /\ Calls => ServerOK'
  <1> SUFFICES ASSUME ServerOK, Calls PROVE ServerOK'
    OBVIOUS
  <1> USE DEF ServerOK, NothingPlanned, Results
  <1>1. PICK d \in Deployments \cup {Unknown}, n \in Wanted :
            \/ CallSetReplicas(d, n)
            \/ \E p \in Priorities : CallAllocate(d, n, p)
            \/ RefuseCall(d, n)
    BY DEF Calls
  <1>2. n \in Nat /\ <<>> \in Seq(Change) /\ <<>> \in Seq(Deployments \cup {Unknown})
    BY ScalingAssumption
  <1>3. NoGoal \in [target : Deployments \cup {Unknown}, desired : Nat,
                   priority : Seq(Deployments \cup {Unknown})]
    BY <1>2 DEF NoGoal
  <1>4. CASE CallSetReplicas(d, n)
    BY <1>2, <1>3, <1>4, NothingSeenType DEF CallSetReplicas, Step
  <1>5. CASE RefuseCall(d, n)
    BY <1>2, <1>3, <1>5, NothingSeenType DEF RefuseCall
  <1>6. ASSUME NEW p \in Priorities, CallAllocate(d, n, p) PROVE ServerOK'
    <2>1. p \in Seq(Deployments \cup {Unknown}) /\ d \in Deployments
      BY <1>6, ScalingAssumption DEF CallAllocate, Plannable
    <2>2. goal' \in [target : Deployments \cup {Unknown}, desired : Nat,
                    priority : Seq(Deployments \cup {Unknown})] /\ goal'.target = d
      BY <1>2, <1>6, <2>1 DEF CallAllocate
    <2>3. NoRequest \in [deployment : Deployments \cup {Unknown}, replicas : Nat]
      BY DEF NoRequest, Step
    <2> QED
      BY <1>2, <1>6, <2>1, <2>2, <2>3, NothingSeenType DEF CallAllocate
  <1> QED
    BY <1>1, <1>4, <1>5, <1>6

(* The next deployment to read is a target deployment.                     *)
LEMMA NextToRead ==
    ASSUME DOMAIN seen \subseteq Deployments, ~AllSeen
    PROVE  NameOrder[Cardinality(DOMAIN seen) + 1] \in Deployments
  <1>1. DOMAIN seen \in SUBSET Deployments /\ DOMAIN seen # Deployments
    BY DEF AllSeen
  <1>2. IsFiniteSet(Deployments) /\ Cardinality(Deployments) \in Nat
    BY BudgetAssumption, FS_CardinalityType
  <1>3. /\ Cardinality(DOMAIN seen) <= Cardinality(Deployments)
        /\ Cardinality(DOMAIN seen) # Cardinality(Deployments)
        /\ IsFiniteSet(DOMAIN seen)
    BY <1>1, <1>2, FS_Subset
  <1>4. Cardinality(DOMAIN seen) \in Nat
    BY <1>3, FS_CardinalityType
  <1>5. Cardinality(DOMAIN seen) + 1 \in 1..Len(NameOrder)
    BY <1>2, <1>3, <1>4, NameOrderAssumption
  <1> QED
    BY <1>5, NameOrderAssumption

(* One more count is read.                                                 *)
Reads(d) ==
    /\ DOMAIN seen' = DOMAIN seen \cup {d}
    /\ \A e \in DOMAIN seen \ {d} : seen'[e] = seen[e]
    /\ seen'[d] = replicas[d]

LEMMA ReadNextKeepsOK ==
    ASSUME ServerOK, ClusterOK, ReadNext
    PROVE  ServerOK' /\ \E d \in Deployments : Reads(d)
  <1> DEFINE d == NameOrder[Cardinality(DOMAIN seen) + 1]
  <1>1. d \in Deployments
    BY NextToRead DEF ReadNext, MayRead, ServerOK
  <1>2. seen' = [e \in DOMAIN seen \cup {d} |-> IF e = d THEN replicas[d] ELSE seen[e]]
    BY DEF ReadNext
  <1> HIDE DEF d
  <1>3. /\ DOMAIN seen' = DOMAIN seen \cup {d}
        /\ \A e \in DOMAIN seen \ {d} : seen'[e] = seen[e]
        /\ seen'[d] = replicas[d]
        /\ seen' = [e \in DOMAIN seen' |-> seen'[e]]
    BY <1>2
  <1>4. replicas[d] \in Nat
    BY <1>1 DEF ClusterOK, Readings
  <1>5. ServerOK'
    BY <1>1, <1>3, <1>4 DEF ServerOK, ReadNext
  <1> QED
    BY <1>1, <1>3, <1>5 DEF Reads

LEMMA PlanAllocationKeepsOK ==
    ASSUME ServerOK, PlanAllocation
    PROVE  ServerOK'
  <1>1. /\ seen \in Readings /\ goal.target \in Deployments /\ goal.desired \in Nat
        /\ goal.priority \in Seq(Deployments \cup {Unknown}) /\ tool = "allocate"
        /\ applied' \in Seq(Change) /\ undone' \in BOOLEAN
    <2>1. seen \in Readings
      BY DEF ServerOK, PlanAllocation, AllSeen, Readings
    <2> QED
      BY <2>1 DEF ServerOK, PlanAllocation
  <1> DEFINE ans == ComputeBudgetPlan(seen, goal.target, goal.desired, goal.priority)
             steps == EffectiveSteps(seen, BuildActions(seen, goal.target, ans.proposed, goal.priority))
  <1>2. ans.proposed \in Readings
    BY <1>1, PlanType
  <1>3. steps \in Seq(Change)
    BY <1>1, <1>2, StepsType DEF Change
  <1>4. \/ Return("refused")
        \/ /\ initial' = seen /\ plan' = ans.proposed
           /\ IF steps = <<>> THEN StartFinalReading ELSE StartStep(steps, "apply")
    BY DEF PlanAllocation
  <1> HIDE DEF ans, steps
  <1> QED
    BY <1>1, <1>2, <1>3, <1>4, ReturnKeepsOK, StartStepKeepsOK, StartFinalReadingKeepsOK DEF Results

(* Every step of the server, the model and the environment.                *)
LEMMA StepKeepsOK == ServerOK /\ ClusterOK /\ [Next]_vars => ServerOK' /\ ClusterOK'
  <1> SUFFICES ASSUME ServerOK, ClusterOK, [Next]_vars PROVE ServerOK' /\ ClusterOK'
    OBVIOUS
  <1> USE DEF ClusterOK
  <1>1. CASE Calls
    <2>1. UNCHANGED <<replicas, others, faults>> /\ disturbed' = FALSE /\ lost' = FALSE
      BY <1>1 DEF Calls, CallSetReplicas, CallAllocate, RefuseCall, NothingPlanned
    <2> QED
      BY <1>1, <2>1, CallsKeepOK
  <1>2. CASE ReadNext
    BY <1>2, ReadNextKeepsOK DEF ReadNext
  <1>3. CASE PlanAllocation
    BY <1>3, PlanAllocationKeepsOK DEF PlanAllocation
  <1>4. CASE GuardBlocks
    BY <1>4, StepFailedKeepsOK DEF GuardBlocks, Results
  <1>5. CASE ReportSuccess
    BY <1>5, ReturnKeepsOK DEF ReportSuccess, Results, ServerOK
  <1>6. CASE PatchSucceeds \/ PatchAnswerLost \/ PatchRejected
    <2>1. phase \in {"apply", "undo"} /\ request.replicas \in Nat
      BY <1>6 DEF PatchSucceeds, PatchAnswerLost, PatchRejected, MayPatch, ServerOK
    <2>2. replicas' \in Readings
      BY <1>6, <2>1 DEF PatchSucceeds, PatchAnswerLost, PatchRejected, Patched, Readings
    <2>3. UNCHANGED <<others, disturbed>> /\ faults' \in Nat
      BY <1>6 DEF PatchSucceeds, PatchAnswerLost, PatchRejected, Fault
    <2>5. lost' = TRUE \/ lost' = lost
      BY <1>6 DEF PatchSucceeds, PatchAnswerLost, PatchRejected
    <2>4. ServerOK'
      BY <1>6, <2>1, StepSucceededKeepsOK, StepFailedKeepsOK
      DEF PatchSucceeds, PatchAnswerLost, PatchRejected, Results
    <2> QED
      BY <2>2, <2>3, <2>4, <2>5
  <1>7. CASE ReadFails
    <2>1. UNCHANGED <<replicas, others, disturbed, lost>> /\ faults' \in Nat
      BY <1>7 DEF ReadFails, Fault
    <2>2. CASE phase \in {"apply", "undo"}
      BY <1>7, <2>1, <2>2, StepFailedKeepsOK DEF ReadFails, Results
    <2>3. CASE phase \notin {"apply", "undo"}
      BY <1>7, <2>1, <2>3, ReturnKeepsOK DEF ReadFails, Results, ServerOK
    <2> QED
      BY <2>2, <2>3
  <1>8. CASE Crash
    BY <1>8, ReturnKeepsOK DEF Crash, Results, ServerOK, Fault
  <1>9. ASSUME NEW d \in Deployments, NEW n \in OthersScale, ScaledByOthers(d, n)
        PROVE  ServerOK' /\ ClusterOK'
    <2>1. /\ replicas' \in Readings /\ others' \in Nat /\ others' > 0 /\ faults' \in Nat
          /\ disturbed' = TRUE /\ lost' \in BOOLEAN
      BY <1>9, ScalingAssumption DEF ScaledByOthers, Readings
    <2> QED
      BY <1>9, <2>1 DEF ScaledByOthers, serverVars, ServerOK
  <1>10. CASE UNCHANGED vars
    BY <1>10 DEF vars, serverVars, ServerOK
  <1> QED
    BY <1>1, <1>2, <1>3, <1>4, <1>5, <1>6, <1>7, <1>8, <1>9, <1>10 DEF Next, ServerStep, Faults

LEMMA InitOK == Init => ServerOK /\ ClusterOK
  <1>1. /\ NoRequest \in [deployment : Deployments \cup {Unknown}, replicas : Nat]
        /\ NoGoal \in [target : Deployments \cup {Unknown}, desired : Nat,
                      priority : Seq(Deployments \cup {Unknown})]
    BY DEF NoRequest, NoGoal, Step
  <1>2. Init => ServerOK
    BY <1>1, NothingSeenType DEF Init, ServerOK, Results
  <1>3. Init => ClusterOK
    <2> SUFFICES ASSUME Init PROVE ClusterOK
      OBVIOUS
    <2>1. replicas \in Readings /\ others \in Nat /\ faults \in Nat
      BY ScalingAssumption DEF Init
    <2>2. disturbed = FALSE /\ lost = FALSE
      BY DEF Init
    <2> QED
      BY <2>1, <2>2 DEF ClusterOK
  <1> QED
    BY <1>2, <1>3

LEMMA Invariance == Spec => [](ServerOK /\ ClusterOK)
  BY InitOK, StepKeepsOK, PTL DEF Spec

(* The state of the server and of the cluster keeps its types through any  *)
(* sequence of calls, rollbacks, faults and scalings by others (TypeOK).   *)
THEOREM TypeCorrect == Spec => []TypeOK
  <1>1. ServerOK /\ ClusterOK => TypeOK
    BY DEF ServerOK, ClusterOK, TypeOK, Results
  <1> QED
    BY <1>1, Invariance, PTL

-----------------------------------------------------------------------------
(* The budget.  The guard of set_replicas compares the budget with a       *)
(* reading made of requests at different times; until somebody else scales *)
(* during the call, that reading is still true when the patch is sent.     *)
SeenIsCurrent == ~disturbed => \A d \in DOMAIN seen : seen[d] = replicas[d]

(* Between calls nothing is remembered: a call that is no longer disturbed *)
(* has read nothing yet.                                                   *)
IdleSeesNothing == phase = "idle" => DOMAIN seen = {}

ReadInv == ServerOK /\ ClusterOK /\ SeenIsCurrent /\ IdleSeesNothing

(* Every step of a call ends with the counts read for it forgotten.        *)
LEMMA StepsForgetReading ==
    StepSucceeded \/ (\E why \in Results : StepFailed(why)) => DOMAIN seen' = {}
  BY NothingSeenType
  DEF StepSucceeded, StepFailed, ContinueUndo, Return, StartStep, StartFinalReading

LEMMA IdleInductive == ServerOK /\ IdleSeesNothing /\ [Next]_vars => IdleSeesNothing'
  <1> SUFFICES ASSUME ServerOK, IdleSeesNothing, [Next]_vars PROVE IdleSeesNothing'
    OBVIOUS
  <1>1. CASE GuardBlocks \/ PatchSucceeds \/ PatchRejected \/ PatchAnswerLost
    BY <1>1, StepsForgetReading
    DEF GuardBlocks, PatchSucceeds, PatchRejected, PatchAnswerLost, Results, IdleSeesNothing
  <1>2. CASE ReadNext
    BY <1>2 DEF ReadNext, MayRead, IdleSeesNothing
  <1>3. CASE ReportSuccess \/ Crash \/ PlanAllocation \/ ReadFails
    BY <1>3, NothingSeenType, StepsForgetReading
    DEF ReportSuccess, Crash, PlanAllocation, ReadFails, Return, StartStep, StartFinalReading,
        Results, IdleSeesNothing
  <1>4. CASE Calls
    BY <1>4, NothingSeenType DEF Calls, CallSetReplicas, CallAllocate, RefuseCall, IdleSeesNothing
  <1>5. ASSUME NEW d \in Deployments, NEW n \in OthersScale, ScaledByOthers(d, n)
        PROVE  IdleSeesNothing'
    BY <1>5 DEF ScaledByOthers, serverVars, IdleSeesNothing
  <1>6. CASE UNCHANGED vars
    BY <1>6 DEF vars, serverVars, IdleSeesNothing
  <1> QED
    BY <1>1, <1>2, <1>3, <1>4, <1>5, <1>6 DEF Next, ServerStep, Faults

LEMMA ReadingInductive == ReadInv /\ [Next]_vars => ReadInv'
  <1> SUFFICES ASSUME ReadInv, [Next]_vars PROVE SeenIsCurrent'
    BY StepKeepsOK, IdleInductive DEF ReadInv
  <1>1. CASE PatchSucceeds \/ PatchAnswerLost
    BY <1>1, StepsForgetReading DEF PatchSucceeds, PatchAnswerLost, Results, SeenIsCurrent
  <1>2. CASE ReadNext
    <2>1. UNCHANGED <<replicas, disturbed>>
      BY <1>2 DEF ReadNext
    <2>2. PICK d \in Deployments : Reads(d)
      BY <1>2, ReadNextKeepsOK DEF ReadInv
    <2> QED
      BY <2>1, <2>2 DEF ReadInv, SeenIsCurrent, Reads
  <1>4. ASSUME NEW d \in Deployments, NEW n \in OthersScale, ScaledByOthers(d, n)
        PROVE  SeenIsCurrent'
    BY <1>4 DEF ScaledByOthers, SeenIsCurrent
  <1>5. CASE Calls
    <2>1. UNCHANGED replicas
      BY <1>5 DEF Calls, CallSetReplicas, CallAllocate, RefuseCall
    <2>2. DOMAIN seen' = {} \/ (UNCHANGED seen /\ phase = "idle")
      BY <1>5, NothingSeenType DEF Calls, CallSetReplicas, CallAllocate, RefuseCall
    <2> QED
      BY <2>1, <2>2 DEF ReadInv, SeenIsCurrent, IdleSeesNothing
  <1>3. CASE PlanAllocation \/ GuardBlocks \/ ReportSuccess \/ ReadFails \/ PatchRejected
             \/ Crash \/ UNCHANGED vars
    <2>1. UNCHANGED <<replicas, disturbed>>
      BY <1>3 DEF PlanAllocation, GuardBlocks,
         ReportSuccess, ReadFails, PatchRejected, Crash, vars
    <2>2. DOMAIN seen' = {} \/ UNCHANGED seen
      BY <1>3, NothingSeenType, StepsForgetReading
      DEF PlanAllocation, GuardBlocks,
          ReportSuccess, ReadFails, PatchRejected, Crash, vars, serverVars, Return, StartStep,
          StartFinalReading, Results
    <2> QED
      BY <2>1, <2>2 DEF ReadInv, SeenIsCurrent
  <1> QED
    BY <1>1, <1>2, <1>3, <1>4, <1>5 DEF Next, ServerStep, Faults

(* What a step does to the cluster: the guardian scales one target         *)
(* deployment, to a count within the limits and, unless others interfered  *)
(* in the call, to a total within the budget; or others scale.             *)
GuardianScales ==
    /\ request.deployment \in Deployments
    /\ WithinLimits(request.replicas)
    /\ replicas' = Patched
    /\ ~disturbed => WithinBudget(Patched)
    /\ UNCHANGED <<disturbed, others>>

OthersScaleOne ==
    /\ \E d \in Deployments, n \in OthersScale : replicas' = [replicas EXCEPT ![d] = n]
    /\ disturbed' = TRUE
    /\ others' = others + 1

ScalesNothing ==
    /\ UNCHANGED <<replicas, others>>
    /\ disturbed' = FALSE \/ UNCHANGED disturbed

LEMMA StepsScale == ReadInv /\ [Next]_vars => GuardianScales \/ OthersScaleOne \/ ScalesNothing
  <1> SUFFICES ASSUME ReadInv, [Next]_vars PROVE GuardianScales \/ OthersScaleOne \/ ScalesNothing
    OBVIOUS
  <1>1. CASE PatchSucceeds \/ PatchAnswerLost
    <2>1. MayPatch /\ replicas' = Patched /\ UNCHANGED <<disturbed, others>>
      BY <1>1 DEF PatchSucceeds, PatchAnswerLost
    <2>2. ASSUME ~disturbed PROVE WithinBudget(Patched)
      <3>1. seen = replicas
        BY <2>1, <2>2 DEF ReadInv, ServerOK, ClusterOK, SeenIsCurrent, MayPatch, AllSeen, Readings
      <3> QED
        BY <2>1, <3>1 DEF Patched, Projected, MayPatch
    <2> QED
      BY <2>1, <2>2 DEF GuardianScales, MayPatch, ReadInv, ServerOK
  <1>2. CASE Calls
    BY <1>2 DEF Calls, CallSetReplicas, CallAllocate, RefuseCall, NothingPlanned, ScalesNothing
  <1>3. CASE ReadNext \/ PlanAllocation \/ GuardBlocks \/ ReportSuccess \/ ReadFails
             \/ PatchRejected \/ Crash \/ UNCHANGED vars
    BY <1>3 DEF ReadNext, PlanAllocation, GuardBlocks, ReportSuccess, ReadFails, PatchRejected,
       Crash, vars, ScalesNothing
  <1>4. ASSUME NEW d \in Deployments, NEW n \in OthersScale, ScaledByOthers(d, n)
        PROVE  OthersScaleOne
    BY <1>4 DEF ScaledByOthers, OthersScaleOne
  <1> QED
    BY <1>1, <1>2, <1>3, <1>4 DEF Next, ServerStep, Faults

(* The budget of the abstract specification is the one of this module.     *)
LEMMA SameBudget ==
    ASSUME NEW r
    PROVE  Cluster!WithinBudget(r) <=> WithinBudget(r)
  <1>1. Cluster!BudgetUnits(r) = BudgetUnits(r)
    BY DEF Cluster!BudgetUnits, BudgetUnits, Cluster!UnitsOf, UnitsOf
  <1>2. Cluster!Usage(r) = Usage(r)
    BY <1>1, Zenon DEF Cluster!Usage, Usage, Cluster!Cardinality, Cardinality
  <1> QED
    BY <1>2, Zenon DEF Cluster!WithinBudget, WithinBudget

LEMMA InitReadInv == Init => ReadInv
  BY InitOK, NothingSeenType DEF Init, ReadInv, SeenIsCurrent, IdleSeesNothing

(* Until somebody else scales, a cluster that starts within the budget     *)
(* stays within TOTAL_REPLICA_BUDGET through any sequence of calls, failed *)
(* steps, lost answers, rollbacks and crashes.                             *)
THEOREM BudgetIsKept ==
    ASSUME \A r \in InitialReplicas : WithinBudget(r)
    PROVE  Spec => []BudgetRespected
  <1>1. Init => ReadInv /\ BudgetRespected
    BY InitReadInv DEF Init, BudgetRespected
  <1>2. ReadInv /\ BudgetRespected /\ [Next]_vars => ReadInv' /\ BudgetRespected'
    <2> SUFFICES ASSUME ReadInv, BudgetRespected, [Next]_vars, others' = 0
                 PROVE  WithinBudget(replicas')
      BY ReadingInductive DEF BudgetRespected, WithinBudget, Usage, BudgetUnits
    <2>1. others \in Nat /\ (disturbed => others > 0)
      BY DEF ReadInv, ClusterOK
    <2>2. ~OthersScaleOne
      BY <2>1 DEF OthersScaleOne
    <2>3. CASE GuardianScales
      BY <2>1, <2>3 DEF GuardianScales
    <2>4. CASE ScalesNothing
      BY <2>4 DEF ScalesNothing, BudgetRespected
    <2> QED
      BY <2>2, <2>3, <2>4, StepsScale
  <1> QED
    BY <1>1, <1>2, PTL DEF Spec

(* In a cluster that may start anywhere and that others may put anywhere,  *)
(* over the budget included, every patch of a call they do not disturb     *)
(* ends within the budget (set_replicas, k8s_mcp.py:180).                  *)
THEOREM PatchesAreBudgeted == Spec => PatchesEndInBudget
  <1>1. ReadInv /\ [Next]_vars
            => [replicas' # replicas /\ ~disturbed' => WithinBudget(replicas')]_vars
    <2> SUFFICES ASSUME ReadInv, [Next]_vars, replicas' # replicas, ~disturbed'
                 PROVE  WithinBudget(replicas')
      OBVIOUS
    <2> QED
      BY StepsScale DEF GuardianScales, OthersScaleOne, ScalesNothing
  <1> QED
    BY <1>1, InitReadInv, ReadingInductive, PTL DEF Spec, PatchesEndInBudget

(* The two tools, with their plans, rollbacks and failures, do nothing to  *)
(* the cluster but what BudgetedCluster allows, whoever else scales.       *)
THEOREM GuardianImplementsPolicy == Spec => StaysWithinPolicy
  <1>1. Init => Cluster!Init
    BY DEF Init, Cluster!Init
  <1>2. ReadInv /\ [Next]_vars => [Cluster!Next]_<<replicas, disturbed>>
    <2> SUFFICES ASSUME ReadInv, GuardianScales \/ OthersScaleOne \/ ScalesNothing
                 PROVE  [Cluster!Next]_<<replicas, disturbed>>
      BY StepsScale
    <2>1. CASE GuardianScales
      <3> DEFINE d == request.deployment
                 n == request.replicas
      <3>1. d \in Deployments /\ n \in MinReplicas..EmergencyMax
        BY <2>1, BudgetAssumption DEF GuardianScales, WithinLimits, ReadInv, ServerOK
      <3>2. replicas' = [replicas EXCEPT ![d] = n]
        BY <2>1 DEF GuardianScales, Patched
      <3>3. ~disturbed => WithinBudget(replicas')
        BY <2>1 DEF GuardianScales
      <3>4. Cluster!Scale(d, n)
        BY <2>1, <3>2, <3>3, SameBudget
        DEF Cluster!Scale, Cluster!WithinLimits, GuardianScales, WithinLimits
      <3> QED
        BY <3>1, <3>4 DEF Cluster!Next
    <2>2. CASE OthersScaleOne
      BY <2>2 DEF OthersScaleOne, Cluster!Next, Cluster!ScaledByOthers
    <2>3. CASE ScalesNothing
      BY <2>3 DEF ScalesNothing, Cluster!Next, Cluster!CallBegins
    <2> QED
      BY <2>1, <2>2, <2>3
  <1> QED
    BY <1>1, <1>2, InitReadInv, ReadingInductive, PTL DEF Spec, StaysWithinPolicy, Cluster!Spec

-----------------------------------------------------------------------------
(* The plan of an allocation, and its rollback.                            *)
Answer(reading) == ComputeBudgetPlan(reading, goal.target, goal.desired, goal.priority)

Order == IF goal.priority = <<>> THEN NameOrder ELSE goal.priority

Gave(d) == Gives(initial, goal.target, plan, d)

Changed(steps) == {steps[i].deployment : i \in 1..Len(steps)}

(* What is planned is the feasible answer to the reading planned from.     *)
PlanAnswers ==
    /\ phase = "survey" => Plannable(goal.target, goal.desired)
    /\ tool = "allocate" /\ phase # "survey" => Planned
    /\ Planned =>
          /\ initial \in Readings
          /\ Plannable(goal.target, goal.desired)
          /\ Answer(initial).feasible
          /\ plan = Answer(initial).proposed

(* Which tool is where, and what it has not done yet.                      *)
ToolsInPlace ==
    /\ tool = "none" <=> phase = "idle"
    /\ tool = "set" => ~Planned
    /\ phase = "survey" => ~Planned /\ applied = <<>>
    /\ outcome \in {"partial", "success"} => phase = "idle"
    /\ outcome = "partial" => Planned
    /\ tool = "allocate" /\ phase # "undo" => ~lost /\ undone

(* What the rest of the argument needs to know of a plan.                  *)
PlanFits ==
    /\ goal.target \in Deployments
    /\ initial \in Readings /\ plan \in Readings
    /\ WithinLimits(plan[goal.target]) /\ plan[goal.target] >= Floor[goal.target]
    /\ \A d \in Deployments \ {goal.target} :
          plan[d] <= initial[d] /\ (plan[d] < initial[d] => plan[d] >= Floor[d])
    /\ plan[goal.target] <= initial[goal.target] => \A d \in Deployments : ~Gave(d)
    /\ WithinBudget(initial) => WithinBudget(plan)

LEMMA PlannedFits ==
    ASSUME ServerOK, PlanAnswers, Planned
    PROVE  PlanFits
  <1> DEFINE target == goal.target
             desired == goal.desired
  <1>1. /\ target \in Deployments /\ desired \in Nat /\ goal.priority \in Seq(Deployments \cup {Unknown})
        /\ Floor[target] <= desired /\ desired <= EmergencyMax
        /\ initial \in Readings
    BY DEF ServerOK, PlanAnswers, Plannable
  <1>2. /\ plan = ComputeBudgetPlan(initial, target, desired, goal.priority).proposed
        /\ ComputeBudgetPlan(initial, target, desired, goal.priority).feasible
    BY DEF PlanAnswers, Answer
  <1> HIDE DEF target, desired
  <1>3. /\ plan \in Readings /\ plan[target] = desired
        /\ NeedsNoDonor(initial, target, desired) => plan = [initial EXCEPT ![target] = desired]
        /\ \A d \in Deployments \ {target} :
              plan[d] <= initial[d] /\ (plan[d] < initial[d] => plan[d] >= Floor[d])
    BY <1>1, <1>2, PlanBounds
  <1>4. desired > initial[target] => WithinBudget(plan)
    BY <1>1, <1>2, FeasiblePlanFits
  <1>5. /\ MinReplicas \in Nat /\ EmergencyMax \in Nat /\ TotalBudget \in Nat
        /\ \A d \in Deployments : Floor[d] \in Nat /\ Floor[d] >= MinReplicas
        /\ \A d \in Deployments : initial[d] \in Nat /\ plan[d] \in Nat
    BY <1>1, <1>3, BudgetAssumption DEF Readings
  <1>6. ASSUME desired <= initial[target]
        PROVE  /\ \A d \in Deployments : ~Gave(d)
               /\ WithinBudget(initial) => WithinBudget(plan)
    <2>1. plan = [initial EXCEPT ![target] = desired]
      BY <1>3, <1>6 DEF NeedsNoDonor
    <2>2. \A d \in Deployments : ~Gave(d)
      BY <1>5, <2>1 DEF Gave, Gives, target
    <2>3. \A d \in Deployments : plan[d] <= initial[d]
      BY <1>3, <1>6
    <2>4. Usage(plan) <= Usage(initial)
      BY <1>1, <1>3, <2>3, UsageMonotone
    <2> QED
      BY <1>1, <1>3, <1>5, <2>2, <2>4, UsageType DEF WithinBudget
  <1>7. desired <= initial[target] \/ desired > initial[target]
    BY <1>1, <1>5
  <1>8. WithinLimits(plan[target]) /\ plan[target] >= Floor[target]
    BY <1>1, <1>3, <1>5 DEF WithinLimits
  <1>9. WithinBudget(initial) => WithinBudget(plan)
    BY <1>4, <1>6, <1>7
  <1>10. plan[target] <= initial[target] => \A d \in Deployments : ~Gave(d)
    BY <1>3, <1>6
  <1> QED
    BY <1>1, <1>3, <1>8, <1>9, <1>10 DEF PlanFits, target

(* A cluster that is not where the plan says, because a donor the list     *)
(* leaves out still has what the plan takes from it, has no room for the   *)
(* target.                                                                 *)
LEMMA NoRoomWithoutDonor ==
    ASSUME ServerOK, PlanAnswers, Planned,
           NEW d \in Deployments, Gave(d), ~Listed(Order, d),
           NEW q \in Readings, q[goal.target] = plan[goal.target],
           \A e \in Deployments \ {goal.target} :
              q[e] >= plan[e] /\ (~Listed(Order, e) => q[e] >= initial[e])
    PROVE  ~WithinBudget(q)
  <1> DEFINE target == goal.target
             desired == goal.desired
             priority == goal.priority
  <1>1. /\ target \in Deployments /\ desired \in Nat /\ priority \in Seq(Deployments \cup {Unknown})
        /\ initial \in Readings
    BY DEF ServerOK, PlanAnswers, Plannable
  <1>2. plan = ComputeBudgetPlan(initial, target, desired, priority).proposed
    BY DEF PlanAnswers, Answer
  <1>3. priority # <<>> /\ Order = priority
    <2>1. Listed(NameOrder, d)
      BY NameOrderAssumption DEF Listed, ToSet
    <2> QED
      BY <2>1 DEF Order
  <1>4. d \in Deployments \ {target} /\ plan[d] < initial[d]
    BY DEF Gave, Gives
  <1>5. \A e \in Deployments \ {target} :
              q[e] >= plan[e] /\ (~Listed(priority, e) => q[e] >= initial[e])
    BY <1>3
  <1>6. q[target] = plan[target] /\ ~Listed(priority, d)
    BY <1>3
  <1> HIDE DEF target, desired, priority
  <1>7. plan[target] = desired
    BY <1>1, <1>2, PlanBounds
  <1> QED
    BY <1>1, <1>2, <1>3, <1>4, <1>5, <1>6, <1>7, UnlistedDonorIsNeeded

-----------------------------------------------------------------------------
(* The moves of a call, as far as its plan and its rollback are concerned. *)
Quiet ==
    /\ UNCHANGED <<tool, phase, request, goal, initial, plan, todo, applied, undone, outcome, faults, lost>>
    /\ UNCHANGED <<replicas, disturbed>> \/ disturbed'

CallBegins ==
    /\ plan' = NothingSeen /\ applied' = <<>> /\ undone' /\ ~lost'
    /\ outcome' \notin {"partial", "success"}
    /\ \/ tool' = "none" /\ phase' = "idle"
       \/ tool' = "set" /\ phase' = "apply"
       \/ tool' = "allocate" /\ phase' = "survey" /\ Plannable(goal'.target, goal'.desired)

CallEnds ==
    /\ tool' = "none" /\ phase' = "idle" /\ todo' = <<>>
    /\ outcome' # "partial"
    /\ outcome' = "success" /\ Planned => tool = "allocate" /\ phase = "final"
    /\ UNCHANGED <<goal, initial, plan, applied, undone>>
    /\ Planned => UNCHANGED <<replicas, disturbed, lost>>

PlanMade ==
    /\ tool = "allocate" /\ phase = "survey"
    /\ seen \in Readings /\ initial' = seen
    /\ Answer(seen).feasible /\ plan' = Answer(seen).proposed
    /\ UNCHANGED <<replicas, tool, goal, applied, undone, outcome, faults, disturbed, lost>>
    /\ \E steps \in {EffectiveSteps(seen, BuildActions(seen, goal.target, plan', goal.priority))} :
          \/ steps = <<>> /\ phase' = "final"
          \/ steps # <<>> /\ phase' = "apply" /\ todo' = steps /\ request' = Head(steps)

(* A step on the way that goes through, and one that does not: it fails    *)
(* without effect or its answer is lost, by a fault or because a guard of  *)
(* set_replicas refuses it.                                                *)
PatchGoesThrough ==
    /\ replicas' = Patched
    /\ ~disturbed => WithinBudget(Patched)
    /\ UNCHANGED <<faults, disturbed, lost>>

PatchFails ==
    /\ UNCHANGED disturbed
    /\ \/ UNCHANGED <<replicas, lost>>
       \/ replicas' = Patched /\ lost'
    /\ \/ faults' = faults + 1
       \/ /\ faults' = faults
          /\ ~WithinLimits(request.replicas) \/ (~disturbed => ~WithinBudget(Patched))

StepApplied ==
    /\ tool = "allocate" /\ phase = "apply"
    /\ PatchGoesThrough
    /\ applied' = Append(applied, Step(request.deployment, initial[request.deployment]))
    /\ UNCHANGED <<tool, goal, initial, plan, undone, outcome>>
    /\ \/ Tail(todo) = <<>> /\ phase' = "final"
       \/ /\ Tail(todo) # <<>>
          /\ phase' = "apply" /\ todo' = Tail(todo) /\ request' = Head(Tail(todo))

ApplyingFails ==
    /\ tool = "allocate" /\ phase = "apply"
    /\ PatchFails
    /\ UNCHANGED <<goal, initial, plan, applied, undone>>
    /\ \/ /\ Reverse(applied) = <<>>
          /\ tool' = "none" /\ phase' = "idle" /\ outcome' = "partial"
       \/ /\ Reverse(applied) # <<>>
          /\ UNCHANGED <<tool, outcome>>
          /\ phase' = "undo" /\ todo' = Reverse(applied) /\ request' = Head(Reverse(applied))

UndoingStep ==
    /\ tool = "allocate" /\ phase = "undo"
    /\ \/ PatchGoesThrough /\ UNCHANGED undone
       \/ PatchFails /\ undone' = FALSE
    /\ UNCHANGED <<goal, initial, plan, applied>>
    /\ \/ /\ Tail(todo) = <<>>
          /\ tool' = "none" /\ phase' = "idle" /\ outcome' = "partial"
       \/ /\ Tail(todo) # <<>>
          /\ UNCHANGED <<tool, outcome>>
          /\ phase' = "undo" /\ todo' = Tail(todo) /\ request' = Head(Tail(todo))

Moves ==
    \/ Quiet \/ CallBegins \/ CallEnds \/ PlanMade
    \/ StepApplied \/ ApplyingFails \/ UndoingStep

LEMMA ReadingIsCluster ==
    ASSUME ReadInv, phase \in {"apply", "undo"}, AllSeen, ~disturbed
    PROVE  Projected = Patched
  <1>1. seen = replicas
    BY DEF ReadInv, ServerOK, ClusterOK, SeenIsCurrent, AllSeen, Readings
  <1> QED
    BY <1>1 DEF Projected, Patched

(* Whatever a step of set_replicas ends with, it is one of these.          *)
LEMMA SucceedingMoves ==
    ASSUME ReadInv, ToolsInPlace, PatchSucceeds
    PROVE  Moves
  <1>1. PatchGoesThrough
    BY ReadingIsCluster DEF PatchSucceeds, PatchGoesThrough, MayPatch
  <1>2. phase \in {"apply", "undo"} /\ StepSucceeded
    BY DEF PatchSucceeds, MayPatch
  <1>3. CASE tool = "set"
    BY <1>2, <1>3 DEF StepSucceeded, Return, CallEnds, Moves, ToolsInPlace, ReadInv, ServerOK
  <1>4. CASE tool = "allocate" /\ phase = "apply"
    <2>1. StepApplied
      BY <1>1, <1>2, <1>4 DEF StepSucceeded, StepApplied, StartStep, StartFinalReading
    <2> QED
      BY <2>1 DEF Moves
  <1>5. CASE phase = "undo"
    <2>1. ContinueUndo /\ UNCHANGED <<applied, undone>> /\ tool = "allocate"
      BY <1>2, <1>5 DEF StepSucceeded, ReadInv, ServerOK
    <2>2. UndoingStep
      BY <1>1, <1>5, <2>1 DEF ContinueUndo, Return, StartStep, UndoingStep
    <2> QED
      BY <2>2 DEF Moves
  <1>6. phase = "apply" => tool \in {"set", "allocate"}
    BY DEF ReadInv, ServerOK, ToolsInPlace
  <1> QED
    BY <1>2, <1>3, <1>4, <1>5, <1>6

LEMMA FailingMoves ==
    ASSUME ReadInv, ToolsInPlace, phase \in {"apply", "undo"}, PatchFails,
           NEW why \in {"refused", "error"}, StepFailed(why)
    PROVE  Moves
  <1>3. CASE tool = "set"
    BY <1>3 DEF StepFailed, Return, CallEnds, Moves, ToolsInPlace, ReadInv, ServerOK
  <1>4. CASE tool = "allocate" /\ phase = "apply"
    <2>1. ApplyingFails
      BY <1>4 DEF StepFailed, ApplyingFails, Return, StartStep, UndoSteps
    <2> QED
      BY <2>1 DEF Moves
  <1>5. CASE phase = "undo"
    <2>1. ContinueUndo /\ undone' = FALSE /\ UNCHANGED applied /\ tool = "allocate"
      BY <1>5 DEF StepFailed, ReadInv, ServerOK
    <2>2. UndoingStep
      BY <1>5, <2>1 DEF ContinueUndo, Return, StartStep, UndoingStep
    <2> QED
      BY <2>2 DEF Moves
  <1>6. phase = "apply" => tool \in {"set", "allocate"}
    BY DEF ReadInv, ServerOK, ToolsInPlace
  <1> QED
    BY <1>3, <1>4, <1>5, <1>6

LEMMA PlanningMoves ==
    ASSUME ReadInv, ToolsInPlace, PlanAllocation
    PROVE  Moves
  <1>1. phase = "survey" /\ tool = "allocate" /\ ~Planned
    BY DEF PlanAllocation, ReadInv, ServerOK, ToolsInPlace
  <1>2. UNCHANGED <<replicas, applied, undone, others, faults, disturbed, lost>>
    BY DEF PlanAllocation
  <1> DEFINE steps(a) == EffectiveSteps(seen, BuildActions(seen, goal.target, a.proposed, goal.priority))
  <1>3. \/ ~Answer(seen).feasible /\ Return("refused")
        \/ /\ Answer(seen).feasible
           /\ initial' = seen /\ plan' = Answer(seen).proposed
           /\ IF steps(Answer(seen)) = <<>> THEN StartFinalReading ELSE StartStep(steps(Answer(seen)), "apply")
    BY DEF PlanAllocation, Answer
  <1>4. CASE Return("refused")
    BY <1>1, <1>2, <1>4 DEF Return, CallEnds, Moves
  <1>5. CASE /\ Answer(seen).feasible
             /\ initial' = seen /\ plan' = Answer(seen).proposed
             /\ IF steps(Answer(seen)) = <<>> THEN StartFinalReading ELSE StartStep(steps(Answer(seen)), "apply")
    <2>1. seen \in Readings
      BY DEF PlanAllocation, AllSeen, ReadInv, ServerOK, Readings
    <2> DEFINE s == EffectiveSteps(seen, BuildActions(seen, goal.target, plan', goal.priority))
    <2>2. IF s = <<>> THEN StartFinalReading ELSE StartStep(s, "apply")
      BY <1>5
    <2> HIDE DEF s
    <2>3. /\ UNCHANGED <<tool, goal, outcome>>
          /\ \/ s = <<>> /\ phase' = "final"
             \/ s # <<>> /\ phase' = "apply" /\ todo' = s /\ request' = Head(s)
      BY <2>2 DEF StartFinalReading, StartStep
    <2>4. PlanMade
      BY <1>1, <1>2, <1>5, <2>1, <2>3 DEF PlanMade, s
    <2> QED
      BY <2>4 DEF Moves
  <1> QED
    BY <1>3, <1>4, <1>5

LEMMA EveryStepMoves == ReadInv /\ ToolsInPlace /\ [Next]_vars => Moves
  <1> SUFFICES ASSUME ReadInv, ToolsInPlace, [Next]_vars PROVE Moves
    OBVIOUS
  <1>1. CASE Calls
    <2>1. \/ tool' = "none" /\ phase' = "idle"
          \/ tool' = "set" /\ phase' = "apply"
          \/ tool' = "allocate" /\ phase' = "survey" /\ Plannable(goal'.target, goal'.desired)
      <3>1. ASSUME NEW d, NEW n, CallSetReplicas(d, n) PROVE tool' = "set" /\ phase' = "apply"
        BY <3>1 DEF CallSetReplicas
      <3>2. ASSUME NEW d, NEW n, RefuseCall(d, n) PROVE tool' = "none" /\ phase' = "idle"
        BY <3>2 DEF RefuseCall, ToolsInPlace
      <3>3. ASSUME NEW d, NEW n, NEW p, CallAllocate(d, n, p)
            PROVE  tool' = "allocate" /\ phase' = "survey" /\ Plannable(goal'.target, goal'.desired)
        BY <3>3 DEF CallAllocate
      <3> QED
        BY <1>1, <3>1, <3>2, <3>3 DEF Calls
    <2>2. /\ plan' = NothingSeen /\ applied' = <<>> /\ undone' /\ ~lost'
          /\ outcome' \notin {"partial", "success"}
      BY <1>1 DEF Calls, CallSetReplicas, RefuseCall, CallAllocate, NothingPlanned
    <2> QED
      BY <2>1, <2>2 DEF CallBegins, Moves
  <1>2. CASE ReadNext
    BY <1>2 DEF ReadNext, Quiet, Moves
  <1>3. CASE PlanAllocation
    BY <1>3, PlanningMoves
  <1>4. CASE GuardBlocks
    <2>1. PatchFails
      BY <1>4, ReadingIsCluster DEF GuardBlocks, PatchFails
    <2> QED
      BY <1>4, <2>1, FailingMoves DEF GuardBlocks
  <1>5. CASE PatchSucceeds
    BY <1>5, SucceedingMoves
  <1>6. CASE ReportSuccess
    BY <1>6 DEF ReportSuccess, Return, CallEnds, Moves, ReadInv, ServerOK, ToolsInPlace
  <1>7. CASE PatchRejected \/ PatchAnswerLost
    <2>1. PatchFails
      BY <1>7 DEF PatchRejected, PatchAnswerLost, PatchFails, Fault
    <2> QED
      BY <1>7, <2>1, FailingMoves DEF PatchRejected, PatchAnswerLost, MayPatch
  <1>8. CASE ReadFails
    <2>1. CASE phase \in {"apply", "undo"}
      <3>1. PatchFails
        BY <1>8 DEF ReadFails, PatchFails, Fault
      <3> QED
        BY <1>8, <2>1, <3>1, FailingMoves DEF ReadFails
    <2>2. CASE phase \notin {"apply", "undo"}
      BY <1>8, <2>2 DEF ReadFails, Return, CallEnds, Moves
    <2> QED
      BY <2>1, <2>2
  <1>9. CASE Crash
    BY <1>9 DEF Crash, Return, CallEnds, Moves
  <1>10. ASSUME NEW d \in Deployments, NEW n \in OthersScale, ScaledByOthers(d, n) PROVE Moves
    BY <1>10 DEF ScaledByOthers, serverVars, Quiet, Moves
  <1>11. CASE UNCHANGED vars
    BY <1>11 DEF vars, serverVars, Quiet, Moves
  <1> QED
    BY <1>1, <1>2, <1>3, <1>4, <1>5, <1>6, <1>7, <1>8, <1>9, <1>10, <1>11 DEF Next, ServerStep, Faults

-----------------------------------------------------------------------------
(* The invariant of an allocation: what the steps still to take, and those *)
(* taken, are to the plan, and where the cluster is between the two.       *)
Applying == tool = "allocate" /\ phase = "apply"

StepsOfPlan ==
    Applying =>
        /\ request = Head(todo)
        /\ \A i \in 1..Len(todo) :
              /\ todo[i].replicas = plan[todo[i].deployment]
              /\ \/ Gave(todo[i].deployment) /\ Listed(Order, todo[i].deployment)
                 \/ todo[i].deployment = goal.target /\ i = Len(todo)
        /\ \A d \in Changed(applied) : Listed(Order, d)
        /\ plan[goal.target] # initial[goal.target] => goal.target \in Changed(todo)
        /\ \A d \in Deployments : Gave(d) /\ Listed(Order, d) => d \in Changed(applied) \cup Changed(todo)

Restores(steps) ==
    \A i \in 1..Len(steps) : Gave(steps[i].deployment) /\ steps[i].replicas = initial[steps[i].deployment]

StepsOfRollback ==
    /\ Planned /\ phase \in {"apply", "undo"} => Restores(applied)
    /\ phase = "undo" => request = Head(todo) /\ Restores(todo)

EitherWay ==
    Planned /\ ~disturbed => \A d \in Deployments : replicas[d] \in {initial[d], plan[d]}

HalfWay ==
    ~disturbed =>
        /\ Applying => \A d \in Deployments :
              replicas[d] = IF d \in Changed(applied) THEN plan[d] ELSE initial[d]
        /\ phase = "undo" /\ undone /\ ~lost =>
              \A d \in Deployments \ Changed(todo) : replicas[d] = initial[d]
        /\ tool = "allocate" /\ phase = "final" => replicas = plan

(* Where a rollback began, something failed that was not the guardian's    *)
(* own budget guard, and a single such fault did not hit the rollback too. *)
Blameless ==
    /\ Planned /\ (phase = "undo" \/ outcome = "partial")
    /\ ~disturbed /\ DonorsNamed /\ WithinPolicy(initial)
    => faults >= 1 /\ (faults <= 1 /\ ~lost => undone)

WayEnds ==
    Planned /\ ~disturbed =>
        /\ outcome = "success" => replicas = plan
        /\ outcome = "partial" /\ undone /\ ~lost => replicas = initial

CarryInv ==
    /\ PlanAnswers /\ ToolsInPlace
    /\ StepsOfPlan /\ StepsOfRollback
    /\ EitherWay /\ HalfWay /\ Blameless /\ WayEnds

LEMMA ChangedByTail ==
    ASSUME NEW s \in Seq(Change), s # <<>>
    PROVE  /\ Tail(s) \in Seq(Change) /\ Len(Tail(s)) = Len(s) - 1 /\ Len(s) \in Nat /\ Len(s) > 0
           /\ \A i \in 1..Len(Tail(s)) : Tail(s)[i] = s[i + 1] /\ i + 1 \in 1..Len(s)
           /\ Changed(s) = {Head(s).deployment} \cup Changed(Tail(s))
           /\ Head(s) = s[1] /\ Head(s) \in Change
           /\ Tail(s) = <<>> <=> Len(s) = 1
  <1>1. /\ Tail(s) \in Seq(Change) /\ Len(Tail(s)) = Len(s) - 1 /\ Len(s) \in Nat /\ Len(s) > 0
        /\ \A i \in 1..Len(Tail(s)) : Tail(s)[i] = s[i + 1] /\ i + 1 \in 1..Len(s)
        /\ Head(s) = s[1] /\ Head(s) \in Change
    OBVIOUS
  <1>2. ASSUME NEW d \in Changed(s) PROVE d = s[1].deployment \/ d \in Changed(Tail(s))
    <2>1. PICK i \in 1..Len(s) : d = s[i].deployment
      BY DEF Changed
    <2>2. CASE i # 1
      <3>1. i - 1 \in 1..Len(Tail(s)) /\ (i - 1) + 1 = i
        BY <1>1, <2>2
      <3>2. Tail(s)[i - 1] = s[i]
        BY <1>1, <3>1
      <3> QED
        BY <2>1, <3>1, <3>2 DEF Changed
    <2> QED
      BY <2>1, <2>2
  <1>3. s[1].deployment \in Changed(s) /\ Changed(Tail(s)) \subseteq Changed(s)
    BY <1>1 DEF Changed
  <1>4. Changed(s) = {Head(s).deployment} \cup Changed(Tail(s))
    BY <1>1, <1>2, <1>3
  <1>5. Tail(s) = <<>> <=> Len(s) = 1
    <2>1. Tail(s) = <<>> <=> Len(Tail(s)) = 0
      BY <1>1, EmptySeq
    <2>2. Len(Tail(s)) = Len(s) - 1 /\ Len(s) \in Nat
      BY <1>1
    <2> QED
      BY <2>1, <2>2
  <1> QED
    BY <1>1, <1>4, <1>5

LEMMA ChangedByAppend ==
    ASSUME NEW s \in Seq(Change), NEW e \in Change
    PROVE  /\ Len(Append(s, e)) = Len(s) + 1 /\ Len(s) \in Nat
           /\ \A i \in 1..(Len(s) + 1) : Append(s, e)[i] = IF i = Len(s) + 1 THEN e ELSE s[i]
           /\ Changed(Append(s, e)) = Changed(s) \cup {e.deployment}
  <1>1. /\ Len(Append(s, e)) = Len(s) + 1 /\ Len(s) \in Nat
        /\ \A i \in 1..(Len(s) + 1) : Append(s, e)[i] = IF i = Len(s) + 1 THEN e ELSE s[i]
    OBVIOUS
  <1>2. \A d \in Changed(Append(s, e)) : d \in Changed(s) \cup {e.deployment}
    BY <1>1 DEF Changed
  <1>3. Changed(s) \subseteq Changed(Append(s, e))
    BY <1>1 DEF Changed
  <1>4. e.deployment \in Changed(Append(s, e))
    <2>1. Len(s) + 1 \in 1..Len(Append(s, e)) /\ Append(s, e)[Len(s) + 1] = e
      BY <1>1
    <2> QED
      BY <2>1 DEF Changed
  <1> QED
    BY <1>1, <1>2, <1>3, <1>4

LEMMA ChangedByReverse ==
    ASSUME NEW s \in Seq(Change)
    PROVE  /\ Reverse(s) \in Seq(Change) /\ Len(Reverse(s)) = Len(s)
           /\ \A i \in 1..Len(s) : (Len(s) - i) + 1 \in 1..Len(s) /\ Reverse(s)[i] = s[(Len(s) - i) + 1]
           /\ Changed(Reverse(s)) = Changed(s)
           /\ Reverse(s) = <<>> => Changed(s) = {}
  <1>1. /\ Reverse(s) \in Seq(Change) /\ Len(Reverse(s)) = Len(s)
        /\ \A i \in 1..Len(s) : (Len(s) - i) + 1 \in 1..Len(s) /\ Reverse(s)[i] = s[(Len(s) - i) + 1]
    BY DEF Reverse
  <1>2. Changed(Reverse(s)) \subseteq Changed(s)
    BY <1>1 DEF Changed
  <1>3. ASSUME NEW i \in 1..Len(s) PROVE s[i].deployment \in Changed(Reverse(s))
    <2> DEFINE j == (Len(s) - i) + 1
    <2>1. j \in 1..Len(s) /\ (Len(s) - j) + 1 = i
      BY <1>1
    <2>2. Reverse(s)[j] = s[i]
      BY <1>1, <2>1
    <2> QED
      BY <1>1, <2>1, <2>2 DEF Changed
  <1>4. Reverse(s) = <<>> => Changed(s) = {}
    <2>1. Reverse(s) = <<>> => Len(s) = 0
      BY <1>1
    <2> QED
      BY <2>1 DEF Changed
  <1>5. Changed(Reverse(s)) = Changed(s)
    BY <1>2, <1>3 DEF Changed
  <1> QED
    BY <1>1, <1>4, <1>5

-----------------------------------------------------------------------------
(* A step of the plan, and one of its rollback, is not refused in a        *)
(* cluster within the policy.                                              *)
LEMMA StepInProgress ==
    ASSUME ReadInv, CarryInv, tool = "allocate", phase \in {"apply", "undo"}
    PROVE  /\ Planned /\ PlanFits /\ todo # <<>> /\ todo \in Seq(Change) /\ applied \in Seq(Change)
           /\ request = todo[1] /\ request \in Change
           /\ 1 \in 1..Len(todo)
           /\ \A d \in Changed(applied) : Gave(d)
  <1>1. Planned /\ PlanFits /\ todo # <<>> /\ todo \in Seq(Change) /\ applied \in Seq(Change)
    BY PlannedFits DEF CarryInv, ReadInv, PlanAnswers, ServerOK
  <1>2. Head(todo) = todo[1] /\ Head(todo) \in Change /\ 1 \in 1..Len(todo)
    BY <1>1
  <1>3. request = Head(todo)
    BY DEF CarryInv, StepsOfPlan, StepsOfRollback, Applying
  <1>4. \A d \in Changed(applied) : Gave(d)
    BY <1>1 DEF CarryInv, StepsOfRollback, Restores, Changed
  <1> QED
    BY <1>1, <1>2, <1>3, <1>4

LEMMA PlanTakes ==
    ASSUME PlanFits
    PROVE  /\ \A d \in Deployments : initial[d] \in Nat /\ plan[d] \in Nat /\ Floor[d] \in Nat
           /\ \A d : Gave(d) <=> d \in Deployments /\ d # goal.target /\ plan[d] < initial[d]
           /\ \A d \in Deployments : ~Gave(d) /\ d # goal.target => plan[d] = initial[d]
           /\ \A d \in Deployments : Gave(d) => plan[d] >= Floor[d]
           /\ MinReplicas \in Nat /\ EmergencyMax \in Nat
           /\ \A d \in Deployments : Floor[d] >= MinReplicas
  <1>1. /\ \A d \in Deployments : initial[d] \in Nat /\ plan[d] \in Nat /\ Floor[d] \in Nat
        /\ MinReplicas \in Nat /\ EmergencyMax \in Nat
        /\ \A d \in Deployments : Floor[d] >= MinReplicas
    BY BudgetAssumption DEF PlanFits, Readings
  <1>2. \A d : Gave(d) <=> d \in Deployments /\ d # goal.target /\ plan[d] < initial[d]
    BY DEF Gave, Gives
  <1> QED
    BY <1>1, <1>2 DEF PlanFits

(* The last step of a plan leaves the cluster as planned.                  *)
LEMMA LastStepCompletes ==
    ASSUME ReadInv, CarryInv, Applying, ~disturbed, Tail(todo) = <<>>,
           WithinBudget(Patched) \/ DonorsNamed
    PROVE  Patched = plan
  <1> DEFINE e == request.deployment
             target == goal.target
  <1>1. /\ Planned /\ PlanFits /\ todo # <<>> /\ todo \in Seq(Change) /\ applied \in Seq(Change)
        /\ request = todo[1] /\ request \in Change /\ 1 \in 1..Len(todo)
        /\ \A d \in Changed(applied) : Gave(d)
    BY StepInProgress DEF Applying
  <1>2. Len(todo) = 1 /\ Changed(todo) = {e}
    <2>1. Len(todo) = 1
      BY <1>1, ChangedByTail
    <2> QED
      BY <1>1, <2>1 DEF Changed
  <1>3. /\ request.replicas = plan[e] /\ e \in Deployments
        /\ (Gave(e) /\ Listed(Order, e)) \/ e = target
        /\ \A d \in Changed(applied) : Listed(Order, d)
        /\ plan[target] # initial[target] => target \in Changed(todo)
        /\ \A d \in Deployments : Gave(d) /\ Listed(Order, d) => d \in Changed(applied) \cup Changed(todo)
    BY <1>1 DEF CarryInv, StepsOfPlan, Change
  <1>4. /\ replicas \in Readings
        /\ \A d \in Deployments : replicas[d] = IF d \in Changed(applied) THEN plan[d] ELSE initial[d]
    BY DEF CarryInv, HalfWay, ReadInv, ClusterOK
  <1>5. /\ Patched \in Readings /\ plan \in Readings
        /\ \A d \in Deployments : Patched[d] = IF d = e THEN plan[e] ELSE replicas[d]
    BY <1>1, <1>3, <1>4 DEF Patched, PlanFits, Readings
  <1>6. ASSUME NEW d \in Deployments, Gave(d) PROVE d \in Changed(applied) \cup {e}
    <2> SUFFICES ASSUME d \notin Changed(applied) \cup {e} PROVE FALSE
      OBVIOUS
    <2>1. ~Listed(Order, d)
      BY <1>2, <1>3, <1>6
    <2>2. CASE e # target
      <3>1. plan[target] = initial[target]
        BY <1>2, <1>3, <2>2
      <3>2. initial[target] \in Nat
        BY <1>1 DEF PlanFits, Readings
      <3> QED
        BY <1>1, <1>6, <3>1, <3>2 DEF PlanFits
    <2>3. CASE e = target
      <3>1. Patched[target] = plan[target]
        BY <1>3, <1>5, <2>3
      <3>2. ASSUME NEW x \in Deployments \ {target}
            PROVE  Patched[x] >= plan[x] /\ (~Listed(Order, x) => Patched[x] >= initial[x])
        BY <1>1, <1>3, <1>4, <1>5, <2>3, PlanTakes
      <3>3. ~WithinBudget(Patched)
        BY <1>1, <1>5, <1>6, <2>1, <3>1, <3>2, NoRoomWithoutDonor DEF CarryInv, ReadInv
      <3>4. DonorsNamed
        BY <3>3
      <3>5. Listed(Order, d)
        <4>1. d # target
          BY <1>6 DEF Gave, Gives
        <4> QED
          BY <3>4, <4>1, NameOrderAssumption DEF DonorsNamed, Order, Listed, ToSet
      <3> QED
        BY <2>1, <3>5
    <2> QED
      BY <2>2, <2>3
  <1>7. ASSUME NEW d \in Deployments PROVE Patched[d] = plan[d]
    <2>1. CASE d = target /\ e # target
      <3>1. plan[target] = initial[target] /\ target \notin Changed(applied)
        BY <1>1, <1>2, <1>3, <2>1, PlanTakes
      <3> QED
        BY <1>4, <1>5, <2>1, <3>1
    <2>2. CASE d # target \/ e = target
      BY <1>1, <1>3, <1>4, <1>5, <1>6, <2>2, PlanTakes
    <2> QED
      BY <2>1, <2>2
  <1> QED
    BY <1>5, <1>7 DEF Readings

LEMMA ApplyingIsNotRefused ==
    ASSUME ReadInv, CarryInv, Applying, ~disturbed, DonorsNamed, WithinPolicy(initial)
    PROVE  WithinLimits(request.replicas) /\ WithinBudget(Patched)
  <1> DEFINE e == request.deployment
             target == goal.target
  <1>1. /\ Planned /\ PlanFits /\ todo # <<>> /\ todo \in Seq(Change) /\ applied \in Seq(Change)
        /\ request = todo[1] /\ request \in Change /\ 1 \in 1..Len(todo)
        /\ \A d \in Changed(applied) : Gave(d)
    BY StepInProgress DEF Applying
  <1>2. /\ request.replicas = plan[e] /\ e \in Deployments
        /\ Gave(e) \/ (e = target /\ Len(todo) = 1)
    BY <1>1 DEF CarryInv, StepsOfPlan, Change
  <1>3. /\ replicas \in Readings
        /\ \A d \in Deployments : replicas[d] = IF d \in Changed(applied) THEN plan[d] ELSE initial[d]
    BY DEF CarryInv, HalfWay, ReadInv, ClusterOK
  <1>4. /\ Patched \in Readings /\ plan \in Readings /\ initial \in Readings
        /\ \A d \in Deployments : Patched[d] = IF d = e THEN plan[e] ELSE replicas[d]
    BY <1>1, <1>2, <1>3 DEF Patched, PlanFits, Readings
  <1>5. WithinBudget(initial) /\ \A d \in Deployments : WithinLimits(initial[d])
    BY DEF WithinPolicy
  <1>6. CASE Gave(e)
    <2>1. WithinLimits(plan[e])
      BY <1>1, <1>2, <1>5, <1>6, PlanTakes DEF WithinLimits
    <2>2. \A d \in Deployments : Patched[d] <= initial[d]
      BY <1>1, <1>2, <1>3, <1>4, <1>6, PlanTakes
    <2>3. Usage(Patched) <= Usage(initial)
      BY <1>4, <2>2, UsageMonotone
    <2> QED
      BY <1>2, <1>4, <1>5, <2>1, <2>3, UsageType, BudgetAssumption DEF WithinBudget
  <1>7. CASE e = target /\ Len(todo) = 1
    <2>1. Tail(todo) = <<>>
      BY <1>1, <1>7, ChangedByTail
    <2>2. Patched = plan
      BY <2>1, LastStepCompletes
    <2> QED
      BY <1>1, <1>2, <1>5, <1>7, <2>2 DEF PlanFits
  <1> QED
    BY <1>2, <1>6, <1>7

LEMMA UndoingIsNotRefused ==
    ASSUME ReadInv, CarryInv, tool = "allocate", phase = "undo", ~disturbed, undone, ~lost,
           WithinPolicy(initial)
    PROVE  WithinLimits(request.replicas) /\ WithinBudget(Patched)
  <1> DEFINE e == request.deployment
  <1>1. /\ Planned /\ PlanFits /\ todo # <<>> /\ todo \in Seq(Change) /\ applied \in Seq(Change)
        /\ request = todo[1] /\ request \in Change /\ 1 \in 1..Len(todo)
    BY StepInProgress
  <1>2. e \in Deployments /\ request.replicas = initial[e] /\ \A d \in Changed(todo) : Gave(d)
    BY <1>1 DEF CarryInv, StepsOfRollback, Restores, Changed, Change
  <1>3. /\ replicas \in Readings
        /\ \A d \in Deployments : replicas[d] \in {initial[d], plan[d]}
        /\ \A d \in Deployments : d \notin Changed(todo) => replicas[d] = initial[d]
    BY <1>1 DEF CarryInv, HalfWay, EitherWay, ReadInv, ClusterOK
  <1>4. /\ Patched \in Readings /\ initial \in Readings
        /\ \A d \in Deployments : Patched[d] = IF d = e THEN initial[e] ELSE replicas[d]
    BY <1>1, <1>2, <1>3 DEF Patched, PlanFits, Readings
  <1>5. \A d \in Deployments : Patched[d] <= initial[d]
    BY <1>1, <1>2, <1>3, <1>4, PlanTakes
  <1>6. Usage(Patched) <= Usage(initial)
    BY <1>4, <1>5, UsageMonotone
  <1> QED
    BY <1>2, <1>4, <1>6, UsageType, BudgetAssumption DEF WithinPolicy, WithinBudget

-----------------------------------------------------------------------------
(* Every move keeps the invariant.                                         *)
KeepsPlan == UNCHANGED <<goal, initial, plan>>

LEMMA SamePlan ==
    ASSUME KeepsPlan
    PROVE  /\ Planned' <=> Planned
           /\ Order' = Order
           /\ \A d : Gave(d)' <=> Gave(d)
           /\ DonorsNamed' <=> DonorsNamed
           /\ WithinPolicy(initial)' <=> WithinPolicy(initial)
           /\ PlanFits' <=> PlanFits
  <1>1. goal' = goal /\ initial' = initial /\ plan' = plan
    BY DEF KeepsPlan
  <1>2. \A d : Gave(d)' <=> Gave(d)
    BY <1>1 DEF Gave, Gives
  <1>3. PlanFits' <=> PlanFits
    BY <1>1, <1>2 DEF PlanFits
  <1> QED
    BY <1>1, <1>2, <1>3 DEF Planned, Order, DonorsNamed

LEMMA AnswerStays ==
    ASSUME PlanAnswers, KeepsPlan, phase # "survey", phase' # "survey",
           tool' = "allocate" => tool = "allocate"
    PROVE  PlanAnswers'
  <1>1. goal' = goal /\ initial' = initial /\ plan' = plan
    BY DEF KeepsPlan
  <1>2. Answer(initial)' = Answer(initial) /\ (Planned' <=> Planned)
    BY <1>1 DEF Answer, Planned
  <1> QED
    BY <1>1, <1>2 DEF PlanAnswers

LEMMA QuietCarries ==
    ASSUME ReadInv, CarryInv, Quiet
    PROVE  CarryInv'
  <1>1. /\ UNCHANGED <<tool, phase, request, goal, initial, plan, todo, applied, undone, outcome, faults, lost>>
        /\ UNCHANGED <<replicas, disturbed>> \/ disturbed'
    BY DEF Quiet
  <1>2. KeepsPlan
    BY <1>1 DEF KeepsPlan
  <1>3. PlanAnswers'
    BY <1>1, <1>2, SamePlan DEF CarryInv, PlanAnswers, Answer
  <1>4. ToolsInPlace'
    BY <1>1, <1>2, SamePlan DEF CarryInv, ToolsInPlace
  <1>5. StepsOfPlan'
    BY <1>1, <1>2, SamePlan DEF CarryInv, StepsOfPlan, Applying
  <1>6. StepsOfRollback'
    BY <1>1, <1>2, SamePlan DEF CarryInv, StepsOfRollback, Restores
  <1>7. EitherWay' /\ WayEnds'
    BY <1>1, <1>2, SamePlan DEF CarryInv, EitherWay, WayEnds
  <1>8. HalfWay'
    BY <1>1, <1>2, SamePlan DEF CarryInv, HalfWay, Applying
  <1>9. Blameless'
    BY <1>1, <1>2, SamePlan DEF CarryInv, Blameless
  <1> QED
    BY <1>3, <1>4, <1>5, <1>6, <1>7, <1>8, <1>9 DEF CarryInv

LEMMA CallBeginsCarries ==
    ASSUME ReadInv, CarryInv, CallBegins
    PROVE  CarryInv'
  <1>1. ~Planned'
    BY DEF CallBegins, Planned
  <1>2. PlanAnswers' /\ ToolsInPlace'
    BY <1>1 DEF CallBegins, PlanAnswers, ToolsInPlace
  <1>3. ~Applying' /\ phase' \notin {"undo", "final"}
    BY DEF CallBegins, Applying
  <1>4. StepsOfPlan' /\ StepsOfRollback' /\ HalfWay'
    BY <1>1, <1>3 DEF StepsOfPlan, StepsOfRollback, HalfWay
  <1> QED
    BY <1>1, <1>2, <1>4 DEF CarryInv, EitherWay, Blameless, WayEnds

LEMMA CallEndsCarries ==
    ASSUME ReadInv, CarryInv, CallEnds
    PROVE  CarryInv'
  <1>1. KeepsPlan /\ tool' = "none" /\ phase' = "idle" /\ outcome' # "partial"
    BY DEF CallEnds, KeepsPlan
  <1>2. PlanAnswers'
    <2>1. goal' = goal /\ initial' = initial /\ plan' = plan
      BY <1>1 DEF KeepsPlan
    <2>2. Answer(initial)' = Answer(initial) /\ (Planned' <=> Planned)
      BY <2>1 DEF Answer, Planned
    <2> QED
      BY <1>1, <2>1, <2>2 DEF CarryInv, PlanAnswers
  <1>3. ToolsInPlace'
    BY <1>1, SamePlan DEF ToolsInPlace, CarryInv
  <1>4. StepsOfPlan' /\ StepsOfRollback' /\ HalfWay'
    BY <1>1 DEF StepsOfPlan, StepsOfRollback, HalfWay, Applying
  <1>5. Blameless'
    BY <1>1 DEF Blameless
  <1>6. EitherWay'
    BY <1>1, SamePlan DEF CallEnds, EitherWay, CarryInv, KeepsPlan
  <1>7. WayEnds'
    <2> SUFFICES ASSUME Planned', ~disturbed', outcome' = "success" PROVE replicas' = plan'
      BY <1>1 DEF WayEnds
    <2>1. Planned /\ ~disturbed /\ tool = "allocate" /\ phase = "final" /\ replicas' = replicas /\ plan' = plan
      BY <1>1, SamePlan DEF CallEnds, KeepsPlan
    <2> QED
      BY <2>1 DEF CarryInv, HalfWay
  <1> QED
    BY <1>2, <1>3, <1>4, <1>5, <1>6, <1>7 DEF CarryInv

LEMMA PlanMadeCarries ==
    ASSUME ReadInv, CarryInv, PlanMade
    PROVE  CarryInv'
  <1> DEFINE target == goal.target
             priority == goal.priority
             steps == EffectiveSteps(seen, BuildActions(seen, target, plan', priority))
  <1>1. /\ tool = "allocate" /\ phase = "survey" /\ ~Planned /\ applied = <<>> /\ ~lost /\ undone
        /\ Plannable(goal.target, goal.desired) /\ outcome \notin {"partial", "success"}
    BY DEF PlanMade, CarryInv, ToolsInPlace, PlanAnswers
  <1>2. /\ seen \in Readings /\ initial' = seen
        /\ Answer(seen).feasible /\ plan' = Answer(seen).proposed
        /\ UNCHANGED <<replicas, tool, goal, applied, undone, outcome, faults, disturbed, lost>>
    BY DEF PlanMade
  <1>3. /\ target \in Deployments /\ goal.desired \in Nat
        /\ priority \in Seq(Deployments \cup {Unknown})
    BY <1>1 DEF ReadInv, ServerOK, Plannable
  <1>4. /\ plan' \in Readings
        /\ plan'[target] = goal.desired
        /\ NeedsNoDonor(seen, target, goal.desired) => plan' = [seen EXCEPT ![target] = goal.desired]
    BY <1>2, <1>3, PlanBounds DEF Answer
  <1>5. Planned'
    <2>1. DOMAIN plan' = Deployments /\ Deployments # {}
      BY <1>3, <1>4 DEF Readings
    <2> QED
      BY <2>1, NothingSeenType DEF Planned
  <1>6. \/ steps = <<>> /\ phase' = "final"
        \/ steps # <<>> /\ phase' = "apply" /\ todo' = steps /\ request' = Head(steps)
    BY DEF PlanMade
  <1>7. PlanAnswers'
    <2>1. goal' = goal /\ initial' \in Readings
      BY <1>2
    <2>2. Answer(initial)' = Answer(seen)
      BY <1>2 DEF Answer
    <2>3. Answer(initial)'.feasible /\ plan' = Answer(initial)'.proposed
      BY <1>2, <2>2
    <2> HIDE DEF target, priority
    <2> QED
      BY <1>1, <1>5, <1>6, <2>1, <2>3 DEF PlanAnswers
  <1>8. ToolsInPlace'
    BY <1>1, <1>2, <1>5, <1>6 DEF ToolsInPlace
  <1>9. plan'[target] = seen[target] => plan' = seen
    <2> SUFFICES ASSUME plan'[target] = seen[target] PROVE plan' = seen
      OBVIOUS
    <2>1. NeedsNoDonor(seen, target, goal.desired)
      BY <1>2, <1>3, <1>4 DEF NeedsNoDonor, Readings
    <2> QED
      BY <1>2, <1>4, <2>1 DEF Readings
  <1>10. /\ Len(steps) \in Nat
         /\ \A k \in 1..Len(steps) :
               /\ steps[k].replicas = plan'[steps[k].deployment]
               /\ \/ Gives(seen, target, plan', steps[k].deployment) /\ Listed(Order, steps[k].deployment)
                  \/ steps[k].deployment = target /\ k = Len(steps)
         /\ plan'[target] # seen[target] => \E k \in 1..Len(steps) : steps[k].deployment = target
         /\ \A d \in Deployments : Gives(seen, target, plan', d) /\ Listed(Order, d)
               => \E k \in 1..Len(steps) : steps[k].deployment = d
    <2> HIDE DEF target, priority
    <2>1. Order = IF priority = <<>> THEN NameOrder ELSE priority
      BY DEF Order, priority
    <2> DEFINE p == plan'
    <2>2. p \in Readings /\ steps = EffectiveSteps(seen, BuildActions(seen, target, p, priority))
      BY <1>4
    <2> HIDE DEF p, steps
    <2>3. /\ Len(steps) \in Nat
          /\ \A k \in 1..Len(steps) :
                /\ steps[k].replicas = p[steps[k].deployment]
                /\ \/ Gives(seen, target, p, steps[k].deployment) /\ Listed(Order, steps[k].deployment)
                   \/ steps[k].deployment = target /\ k = Len(steps)
          /\ p[target] # seen[target] => \E k \in 1..Len(steps) : steps[k].deployment = target
          /\ \A d \in Deployments : Gives(seen, target, p, d) /\ Listed(Order, d)
                => \E k \in 1..Len(steps) : steps[k].deployment = d
      BY <1>2, <1>3, <2>1, <2>2, StepsCarryPlan
    <2> QED
      BY <2>3 DEF p
  <1>11. ~disturbed => seen = replicas
    <2> SUFFICES ASSUME ~disturbed PROVE seen = replicas
      OBVIOUS
    <2>1. seen \in Readings /\ replicas \in Readings
      BY <1>2 DEF ReadInv, ClusterOK
    <2>2. \A d \in Deployments : seen[d] = replicas[d]
      BY <2>1 DEF ReadInv, SeenIsCurrent, Readings
    <2> QED
      BY <2>1, <2>2 DEF Readings
  <1>12. /\ Order' = Order /\ goal' = goal /\ target = goal.target
         /\ \A d : Gave(d)' <=> Gives(seen, target, plan', d)
    BY <1>2 DEF Order, Gave
  <1> HIDE DEF steps, target, priority
  <1>13. CASE steps = <<>> /\ phase' = "final"
    <2>1. plan' = seen
      <3>1. Len(steps) = 0
        BY <1>13
      <3>2. ~\E k \in 1..Len(steps) : steps[k].deployment = target
        BY <3>1
      <3> QED
        BY <1>9, <1>10, <3>2
    <2>2. StepsOfPlan' /\ StepsOfRollback' /\ Blameless'
      BY <1>1, <1>2, <1>13 DEF StepsOfPlan, StepsOfRollback, Blameless, Applying
    <2>3. EitherWay' /\ HalfWay' /\ WayEnds'
      BY <1>1, <1>2, <1>11, <1>13, <2>1 DEF EitherWay, HalfWay, WayEnds, Applying
    <2> QED
      BY <1>7, <1>8, <2>2, <2>3 DEF CarryInv
  <1>14. CASE steps # <<>> /\ phase' = "apply" /\ todo' = steps /\ request' = Head(steps)
    <2>1. StepsOfPlan'
      <3>1. Changed(applied)' = {}
        BY <1>1, <1>2 DEF Changed
      <3>2. Changed(todo)' = Changed(steps)
        BY <1>14
      <3>3. /\ plan'[target] # seen[target] => target \in Changed(steps)
            /\ \A d \in Deployments : Gives(seen, target, plan', d) /\ Listed(Order, d) => d \in Changed(steps)
        BY <1>10 DEF Changed
      <3> QED
        BY <1>2, <1>10, <1>12, <1>14, <3>1, <3>2, <3>3 DEF StepsOfPlan
    <2>2. StepsOfRollback' /\ Blameless'
      BY <1>1, <1>2, <1>14 DEF StepsOfRollback, Blameless, Restores
    <2>3. EitherWay' /\ HalfWay' /\ WayEnds'
      <3>1. Changed(applied)' = {}
        BY <1>1, <1>2 DEF Changed
      <3> QED
        BY <1>1, <1>2, <1>11, <1>14, <3>1 DEF EitherWay, HalfWay, WayEnds
    <2> QED
      BY <1>7, <1>8, <2>1, <2>2, <2>3 DEF CarryInv
  <1> QED
    BY <1>6, <1>13, <1>14

LEMMA StepAppliedCarries ==
    ASSUME ReadInv, CarryInv, StepApplied
    PROVE  CarryInv'
  <1> DEFINE e == request.deployment
             target == goal.target
  <1>1. /\ Applying /\ tool = "allocate" /\ phase = "apply"
        /\ replicas' = Patched
        /\ ~disturbed => WithinBudget(Patched)
        /\ applied' = Append(applied, Step(e, initial[e]))
        /\ UNCHANGED <<tool, goal, initial, plan, undone, outcome, faults, disturbed, lost>>
        /\ KeepsPlan
    BY DEF StepApplied, PatchGoesThrough, Applying, KeepsPlan
  <1>2. \/ Tail(todo) = <<>> /\ phase' = "final"
        \/ /\ Tail(todo) # <<>>
           /\ phase' = "apply" /\ todo' = Tail(todo) /\ request' = Head(Tail(todo))
    BY DEF StepApplied
  <1>3. /\ Planned /\ PlanFits /\ todo # <<>> /\ todo \in Seq(Change) /\ applied \in Seq(Change)
        /\ request = todo[1] /\ request \in Change /\ 1 \in 1..Len(todo)
        /\ \A d \in Changed(applied) : Gave(d)
    BY <1>1, StepInProgress
  <1>4. /\ request.replicas = plan[e] /\ e \in Deployments
        /\ (Gave(e) /\ Listed(Order, e)) \/ (e = target /\ Len(todo) = 1)
    BY <1>1, <1>3 DEF CarryInv, StepsOfPlan, Change
  <1>5. replicas \in Readings /\ \A d \in Deployments : replicas'[d] = IF d = e THEN plan[e] ELSE replicas[d]
    BY <1>1, <1>4 DEF ReadInv, ClusterOK, Patched, Readings
  <1>6. Step(e, initial[e]) \in Change
    BY <1>3, <1>4 DEF Step, Change, PlanFits, Readings
  <1>7. /\ Len(applied') = Len(applied) + 1 /\ Len(applied) \in Nat
        /\ \A i \in 1..Len(applied') : applied'[i] = IF i = Len(applied') THEN Step(e, initial[e]) ELSE applied[i]
        /\ Changed(applied') = Changed(applied) \cup {e}
    BY <1>1, <1>3, <1>6, ChangedByAppend DEF Step
  <1>8. PlanAnswers'
    BY <1>1, <1>2, AnswerStays DEF CarryInv
  <1>9. ToolsInPlace'
    BY <1>1, <1>2, <1>3, SamePlan DEF CarryInv, ToolsInPlace
  <1>10. EitherWay'
    BY <1>1, <1>5, SamePlan DEF CarryInv, EitherWay
  <1>11. Blameless' /\ WayEnds'
    BY <1>1, <1>2 DEF CarryInv, ToolsInPlace, Blameless, WayEnds
  <1>12. CASE Tail(todo) = <<>> /\ phase' = "final"
    <2>1. ~disturbed => replicas' = plan
      BY <1>1, <1>12, LastStepCompletes
    <2>2. HalfWay'
      BY <1>1, <1>12, <2>1 DEF HalfWay, Applying
    <2>3. StepsOfPlan' /\ StepsOfRollback'
      BY <1>12 DEF StepsOfPlan, StepsOfRollback, Applying
    <2> QED
      BY <1>8, <1>9, <1>10, <1>11, <2>2, <2>3 DEF CarryInv
  <1>13. CASE /\ Tail(todo) # <<>>
              /\ phase' = "apply" /\ todo' = Tail(todo) /\ request' = Head(Tail(todo))
    <2>1. /\ Len(Tail(todo)) = Len(todo) - 1 /\ Len(todo) \in Nat /\ Len(todo) # 1
          /\ \A i \in 1..Len(Tail(todo)) : Tail(todo)[i] = todo[i + 1] /\ i + 1 \in 1..Len(todo)
          /\ Changed(todo) = {e} \cup Changed(Tail(todo))
      BY <1>3, <1>13, ChangedByTail
    <2>2. Gave(e) /\ Listed(Order, e) /\ e # target
      BY <1>4, <2>1 DEF Gave, Gives
    <2>3. StepsOfPlan'
      <3>1. /\ \A i \in 1..Len(todo) :
                  /\ todo[i].replicas = plan[todo[i].deployment]
                  /\ \/ Gave(todo[i].deployment) /\ Listed(Order, todo[i].deployment)
                     \/ todo[i].deployment = target /\ i = Len(todo)
            /\ \A d \in Changed(applied) : Listed(Order, d)
            /\ plan[target] # initial[target] => target \in Changed(todo)
            /\ \A d \in Deployments : Gave(d) /\ Listed(Order, d) => d \in Changed(applied) \cup Changed(todo)
        BY <1>1 DEF CarryInv, StepsOfPlan
      <3>2. \A i \in 1..Len(todo') :
                  /\ todo'[i].replicas = plan[todo'[i].deployment]
                  /\ \/ Gave(todo'[i].deployment) /\ Listed(Order, todo'[i].deployment)
                     \/ todo'[i].deployment = target /\ i = Len(todo')
        BY <1>13, <2>1, <3>1
      <3>3. /\ \A d \in Changed(applied') : Listed(Order, d)
            /\ plan[target] # initial[target] => target \in Changed(todo')
            /\ \A d \in Deployments : Gave(d) /\ Listed(Order, d) => d \in Changed(applied') \cup Changed(todo')
        BY <1>7, <1>13, <2>1, <2>2, <3>1
      <3>4. target = goal'.target /\ plan' = plan /\ initial' = initial
        BY <1>1
      <3> QED
        BY <1>1, <1>13, <3>2, <3>3, <3>4, SamePlan DEF StepsOfPlan
    <2>4. StepsOfRollback'
      <3>1. Restores(applied)
        BY <1>1, <1>3 DEF CarryInv, StepsOfRollback
      <3>2. \A i \in 1..Len(applied') : Gave(applied'[i].deployment) /\ applied'[i].replicas = initial[applied'[i].deployment]
        BY <1>7, <2>2, <3>1 DEF Restores, Step
      <3> QED
        BY <1>1, <1>13, <3>2, SamePlan DEF StepsOfRollback, Restores
    <2>5. HalfWay'
      BY <1>1, <1>5, <1>7, <1>13 DEF CarryInv, HalfWay
    <2> QED
      BY <1>8, <1>9, <1>10, <1>11, <2>3, <2>4, <2>5 DEF CarryInv
  <1> QED
    BY <1>2, <1>12, <1>13

LEMMA ApplyingFailsCarries ==
    ASSUME ReadInv, CarryInv, ApplyingFails, faults' \in Nat
    PROVE  CarryInv'
  <1> DEFINE e == request.deployment
             target == goal.target
  <1>1. /\ Applying /\ tool = "allocate" /\ phase = "apply" /\ PatchFails
        /\ UNCHANGED <<goal, initial, plan, applied, undone, disturbed>>
        /\ KeepsPlan
    BY DEF ApplyingFails, PatchFails, Applying, KeepsPlan
  <1>2. \/ /\ Reverse(applied) = <<>>
           /\ tool' = "none" /\ phase' = "idle" /\ outcome' = "partial"
        \/ /\ Reverse(applied) # <<>>
           /\ UNCHANGED <<tool, outcome>>
           /\ phase' = "undo" /\ todo' = Reverse(applied) /\ request' = Head(Reverse(applied))
    BY DEF ApplyingFails
  <1>3. /\ Planned /\ PlanFits /\ todo # <<>> /\ todo \in Seq(Change) /\ applied \in Seq(Change)
        /\ request = todo[1] /\ request \in Change /\ 1 \in 1..Len(todo)
        /\ \A d \in Changed(applied) : Gave(d)
    BY <1>1, StepInProgress
  <1>4. /\ request.replicas = plan[e] /\ e \in Deployments
    BY <1>1, <1>3 DEF CarryInv, StepsOfPlan, Change
  <1>5. /\ replicas \in Readings
        /\ \/ UNCHANGED <<replicas, lost>>
           \/ /\ \A d \in Deployments : replicas'[d] = IF d = e THEN plan[e] ELSE replicas[d]
              /\ lost'
    BY <1>1, <1>4 DEF ReadInv, ClusterOK, PatchFails, Patched, Readings
  <1>6. ~lost /\ undone /\ outcome \notin {"partial", "success"}
    BY <1>1 DEF CarryInv, ToolsInPlace, Applying
  <1>7. PlanAnswers'
    BY <1>1, <1>2, AnswerStays DEF CarryInv
  <1>8. ToolsInPlace'
    BY <1>1, <1>2, <1>3, <1>6, SamePlan DEF ToolsInPlace
  <1>9. EitherWay'
    BY <1>1, <1>5, SamePlan DEF CarryInv, EitherWay
  <1>10. Blameless'
    <2> SUFFICES ASSUME ~disturbed, DonorsNamed, WithinPolicy(initial)
                 PROVE  faults' >= 1 /\ undone'
      BY <1>1, SamePlan DEF Blameless
    <2>1. faults' = faults + 1
      BY <1>1, ApplyingIsNotRefused DEF PatchFails
    <2>2. faults \in Nat
      BY DEF ReadInv, ClusterOK
    <2> QED
      BY <1>1, <1>6, <2>1, <2>2
  <1>11. /\ Reverse(applied) \in Seq(Change) /\ Len(Reverse(applied)) = Len(applied)
         /\ \A i \in 1..Len(applied) :
               (Len(applied) - i) + 1 \in 1..Len(applied) /\ Reverse(applied)[i] = applied[(Len(applied) - i) + 1]
         /\ Changed(Reverse(applied)) = Changed(applied)
         /\ Reverse(applied) = <<>> => Changed(applied) = {}
    BY <1>3, ChangedByReverse
  <1>12. ~disturbed => \A d \in Deployments : d \notin Changed(applied) => replicas[d] = initial[d]
    BY <1>1 DEF CarryInv, HalfWay
  <1>13. WayEnds'
    <2> SUFFICES ASSUME ~disturbed, outcome' = "partial", ~lost' PROVE replicas' = initial
      BY <1>1, <1>2, <1>6, SamePlan DEF WayEnds
    <2>1. \A d \in Deployments : replicas[d] = initial[d]
      BY <1>2, <1>6, <1>11, <1>12
    <2>2. initial \in Readings /\ replicas' = replicas
      BY <1>3, <1>5 DEF PlanFits
    <2> QED
      BY <1>5, <2>1, <2>2 DEF Readings
  <1>14. CASE phase' = "idle" /\ tool' = "none"
    <2>1. StepsOfPlan' /\ StepsOfRollback' /\ HalfWay'
      BY <1>14 DEF StepsOfPlan, StepsOfRollback, HalfWay, Applying
    <2> QED
      BY <1>7, <1>8, <1>9, <1>10, <1>13, <2>1 DEF CarryInv
  <1>15. CASE phase' = "undo" /\ todo' = Reverse(applied) /\ request' = Head(Reverse(applied))
    <2>1. StepsOfPlan'
      BY <1>15 DEF StepsOfPlan, Applying
    <2>2. StepsOfRollback'
      <3>1. Restores(applied)
        BY <1>1, <1>3 DEF CarryInv, StepsOfRollback
      <3>2. Restores(Reverse(applied))
        BY <1>11, <3>1 DEF Restores
      <3> QED
        BY <1>1, <1>15, <3>1, <3>2, SamePlan DEF StepsOfRollback, Restores
    <2>3. HalfWay'
      <3>1. ~disturbed /\ ~lost' => \A d \in Deployments \ Changed(todo') : replicas'[d] = initial[d]
        BY <1>5, <1>11, <1>12, <1>15
      <3> QED
        BY <1>1, <1>15, <3>1 DEF HalfWay, Applying
    <2> QED
      BY <1>7, <1>8, <1>9, <1>10, <1>13, <2>1, <2>2, <2>3 DEF CarryInv
  <1> QED
    BY <1>2, <1>14, <1>15

LEMMA UndoingStepCarries ==
    ASSUME ReadInv, CarryInv, UndoingStep, faults' \in Nat
    PROVE  CarryInv'
  <1> DEFINE e == request.deployment
             target == goal.target
  <1>1. /\ tool = "allocate" /\ phase = "undo"
        /\ UNCHANGED <<goal, initial, plan, applied, disturbed>>
        /\ KeepsPlan
    BY DEF UndoingStep, PatchFails, PatchGoesThrough, KeepsPlan
  <1>2. \/ /\ Tail(todo) = <<>>
           /\ tool' = "none" /\ phase' = "idle" /\ outcome' = "partial"
        \/ /\ Tail(todo) # <<>>
           /\ UNCHANGED <<tool, outcome>>
           /\ phase' = "undo" /\ todo' = Tail(todo) /\ request' = Head(Tail(todo))
    BY DEF UndoingStep
  <1>3. /\ Planned /\ PlanFits /\ todo # <<>> /\ todo \in Seq(Change) /\ applied \in Seq(Change)
        /\ request = todo[1] /\ request \in Change /\ 1 \in 1..Len(todo)
    BY <1>1, StepInProgress
  <1>4. Restores(todo) /\ request.replicas = initial[e] /\ e \in Deployments
    BY <1>1, <1>3 DEF CarryInv, StepsOfRollback, Restores, Change
  <1>5. replicas \in Readings
        /\ (replicas' = Patched => \A d \in Deployments : replicas'[d] = IF d = e THEN initial[e] ELSE replicas[d])
    BY <1>4 DEF ReadInv, ClusterOK, Patched, Readings
  <1>6. /\ Len(Tail(todo)) = Len(todo) - 1 /\ Len(todo) \in Nat
        /\ \A i \in 1..Len(Tail(todo)) : Tail(todo)[i] = todo[i + 1] /\ i + 1 \in 1..Len(todo)
        /\ Changed(todo) = {e} \cup Changed(Tail(todo))
        /\ Tail(todo) = <<>> => Len(Tail(todo)) = 0
    BY <1>3, ChangedByTail
  <1>7. PlanAnswers'
    BY <1>1, <1>2, AnswerStays DEF CarryInv
  <1>8. ToolsInPlace'
    BY <1>1, <1>2, <1>3, SamePlan DEF CarryInv, ToolsInPlace
  <1>9. \/ PatchGoesThrough /\ undone' = undone /\ replicas' = Patched /\ lost' = lost /\ faults' = faults
        \/ /\ PatchFails /\ undone' = FALSE
           /\ (replicas' = replicas /\ lost' = lost) \/ (replicas' = Patched /\ lost')
    BY DEF UndoingStep, PatchGoesThrough, PatchFails
  <1>10. EitherWay'
    BY <1>1, <1>5, <1>9, SamePlan DEF CarryInv, EitherWay
  <1>11. Blameless'
    <2> SUFFICES ASSUME ~disturbed, DonorsNamed, WithinPolicy(initial)
                 PROVE  faults' >= 1 /\ (faults' <= 1 /\ ~lost' => undone')
      BY <1>1, SamePlan DEF Blameless
    <2>1. faults \in Nat /\ faults >= 1 /\ (faults <= 1 /\ ~lost => undone)
      BY <1>1, <1>3 DEF CarryInv, Blameless, ReadInv, ClusterOK
    <2>2. CASE faults' = faults + 1
      BY <2>1, <2>2
    <2>3. CASE faults' = faults /\ undone' = undone /\ lost' = lost
      BY <2>1, <2>3
    <2>4. CASE PatchFails /\ faults' = faults
      <3>1. ~WithinLimits(request.replicas) \/ ~WithinBudget(Patched)
        BY <2>1, <2>4 DEF PatchFails
      <3>2. lost' \/ lost' = lost
        BY <2>4 DEF PatchFails
      <3>3. lost \/ ~undone
        BY <1>1, <3>1, UndoingIsNotRefused
      <3> QED
        BY <2>1, <2>4, <3>2, <3>3
    <2> QED
      BY <1>9, <2>2, <2>3, <2>4 DEF PatchFails
  <1>12. ~disturbed /\ undone' /\ ~lost' =>
            \A d \in Deployments : d \notin Changed(Tail(todo)) => replicas'[d] = initial[d]
    BY <1>1, <1>5, <1>6, <1>9 DEF CarryInv, HalfWay
  <1>13. WayEnds'
    <2>1. outcome \notin {"partial", "success"}
      BY <1>1 DEF CarryInv, ToolsInPlace
    <2> SUFFICES ASSUME ~disturbed, outcome' = "partial", undone', ~lost' PROVE replicas' = initial
      BY <1>1, <1>2, <2>1, SamePlan DEF WayEnds
    <2>2. Changed(Tail(todo)) = {}
      BY <1>2, <1>6, <2>1 DEF Changed
    <2>3. \A d \in Deployments : replicas'[d] = initial[d]
      BY <1>12, <2>2
    <2>4. initial \in Readings /\ replicas' \in [Deployments -> Nat]
      BY <1>3, <1>5, <1>9, <1>4 DEF PlanFits, Patched, Readings, PatchGoesThrough
    <2> QED
      BY <2>3, <2>4 DEF Readings
  <1>14. CASE phase' = "idle" /\ tool' = "none"
    <2>1. StepsOfPlan' /\ StepsOfRollback' /\ HalfWay'
      BY <1>14 DEF StepsOfPlan, StepsOfRollback, HalfWay, Applying
    <2> QED
      BY <1>7, <1>8, <1>10, <1>11, <1>13, <2>1 DEF CarryInv
  <1>15. CASE phase' = "undo" /\ todo' = Tail(todo) /\ request' = Head(Tail(todo))
    <2>1. StepsOfPlan'
      BY <1>15 DEF StepsOfPlan, Applying
    <2>2. StepsOfRollback'
      <3>1. Restores(applied)
        BY <1>1, <1>3 DEF CarryInv, StepsOfRollback
      <3>2. Restores(Tail(todo))
        BY <1>4, <1>6 DEF Restores
      <3> QED
        BY <1>1, <1>15, <3>1, <3>2, SamePlan DEF StepsOfRollback, Restores
    <2>3. HalfWay'
      BY <1>1, <1>12, <1>15 DEF HalfWay, Applying
    <2> QED
      BY <1>7, <1>8, <1>10, <1>11, <1>13, <2>1, <2>2, <2>3 DEF CarryInv
  <1> QED
    BY <1>2, <1>14, <1>15

LEMMA CarryInductive == ReadInv /\ CarryInv /\ [Next]_vars => ReadInv' /\ CarryInv'
  <1> SUFFICES ASSUME ReadInv, CarryInv, [Next]_vars PROVE ReadInv' /\ CarryInv'
    OBVIOUS
  <1>1. ReadInv'
    BY ReadingInductive
  <1>2. faults' \in Nat
    BY <1>1 DEF ReadInv, ClusterOK
  <1>3. Moves
    BY EveryStepMoves DEF CarryInv
  <1>4. CarryInv'
    BY <1>2, <1>3, QuietCarries, CallBeginsCarries, CallEndsCarries, PlanMadeCarries,
       StepAppliedCarries, ApplyingFailsCarries, UndoingStepCarries DEF Moves
  <1> QED
    BY <1>1, <1>4

LEMMA InitCarries == Init => ReadInv /\ CarryInv
  <1> SUFFICES ASSUME Init PROVE CarryInv
    BY InitReadInv
  <1>1. /\ tool = "none" /\ phase = "idle" /\ outcome = "none" /\ ~Planned
        /\ ~Applying /\ undone /\ ~lost
    BY DEF Init, Planned, Applying
  <1>2. PlanAnswers /\ ToolsInPlace
    BY <1>1 DEF PlanAnswers, ToolsInPlace
  <1>3. StepsOfPlan /\ StepsOfRollback /\ EitherWay /\ HalfWay /\ Blameless /\ WayEnds
    BY <1>1 DEF StepsOfPlan, StepsOfRollback, EitherWay, HalfWay, Blameless, WayEnds
  <1> QED
    BY <1>2, <1>3 DEF CarryInv

LEMMA CarryInvariance == Spec => [](ReadInv /\ CarryInv)
  BY InitCarries, CarryInductive, PTL DEF Spec

(* An allocation nobody disturbs never takes a service below its own floor *)
(* (DEPLOYMENT_MIN_REPLICAS), in the middle of its steps, when some of     *)
(* them fail, after a rollback that did not get through or after a crash.  *)
THEOREM FloorsAreKept == Spec => []DonorsKeepFloor
  <1>1. ReadInv /\ CarryInv => DonorsKeepFloor
    <2> SUFFICES ASSUME ReadInv, CarryInv, Planned, ~disturbed,
                        NEW d \in Deployments, initial[d] >= Floor[d]
                 PROVE  replicas[d] >= Floor[d]
      BY DEF DonorsKeepFloor
    <2>1. PlanFits
      BY PlannedFits DEF ReadInv, CarryInv
    <2>2. replicas[d] = initial[d] \/ replicas[d] = plan[d]
      BY DEF CarryInv, EitherWay
    <2>3. plan[d] >= Floor[d]
      BY <2>1, PlanTakes DEF PlanFits
    <2> QED
      BY <2>2, <2>3
  <1> QED
    BY <1>1, CarryInvariance, PTL

(* A partial allocation leaves the cluster as it found it: whenever its    *)
(* rollback steps all went through, and they do when a single fault, of a  *)
(* plan with all its donors named and a cluster within the policy, is what *)
(* started the rollback (k8s_mcp.py:327).                                  *)
THEOREM RollbackIsComplete == Spec => []RollbackRestores
  <1>1. ReadInv /\ CarryInv => RollbackRestores
    BY DEF CarryInv, RollbackRestores, ToolsInPlace, WayEnds, Blameless
  <1> QED
    BY <1>1, CarryInvariance, PTL

(* A successful allocation has carried out its plan to the last replica,   *)
(* and without a fault a plan whose donors are all named is not given up:  *)
(* none of its steps meets the guards of set_replicas (k8s_mcp.py:417).    *)
THEOREM PlanCarriedOut == Spec => []PlanIsCarriedOut
  <1>1. ReadInv /\ CarryInv => PlanIsCarriedOut
    <2> SUFFICES ASSUME ReadInv, CarryInv, Planned, ~disturbed PROVE PlanIsCarriedOut
      BY DEF PlanIsCarriedOut
    <2>1. outcome = "success" => replicas = plan
      BY DEF CarryInv, WayEnds
    <2>2. ASSUME faults = 0, DonorsNamed, WithinPolicy(initial) PROVE outcome # "partial"
      BY <2>2 DEF CarryInv, Blameless
    <2> QED
      BY <2>1, <2>2 DEF PlanIsCarriedOut
  <1> QED
    BY <1>1, CarryInvariance, PTL
=============================================================================
