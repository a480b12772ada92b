------------------------ MODULE BudgetPlanner_proofs ------------------------
(***************************************************************************)
(* Theorems about plan_budget_allocation, for every set of deployments,    *)
(* every cost, floor, budget, reading and request.                         *)
(*                                                                         *)
(* The inductive invariant is Inv.  Its heart is ShortfallIsCurrent: while *)
(* the loop runs, needed_budget_units is what the counts proposed so far,  *)
(* with the target at its desired count, exceed the budget by.  LoopInv    *)
(* adds what each donor that was visited has given: its part of the closed *)
(* form ComputeBudgetPlan.                                                 *)
(***************************************************************************)
EXTENDS BudgetPlanner, ReplicaBudget_proofs

(* The deployments that may give replicas to the target.                   *)
Others == Deployments \ {target}

Granted == [proposed EXCEPT ![target] = desired]

NothingYet ==
    pc = "request" => proposed = current /\ outcome = "none" /\ donors = {}

Running ==
    pc \in {"donate", "verify"} =>
        /\ Plannable(target, desired)
        /\ ~NeedsNoDonor(current, target, desired)
        /\ outcome = "none"

TargetWaits == pc = "donate" => donors \subseteq Others /\ proposed[target] = current[target]

TargetServed == pc = "verify" => proposed[target] = desired

ShortfallIsCurrent ==
    /\ pc \in {"donate", "verify"} => needed = Usage(Granted) - TotalBudget
    /\ pc = "verify" => needed <= 0

DonorsOnlyShrink ==
    \A d \in Others :
        /\ proposed[d] <= current[d]
        /\ proposed[d] < current[d] => Floor[d] <= proposed[d]

VisitedAreExhausted ==
    pc = "donate" => \A d \in Others \ donors : needed > 0 => proposed[d] <= Floor[d]

LastGiftWasNeeded ==
    pc \in {"donate", "verify"} =>
        \A d \in Others : proposed[d] < current[d] =>
            \E e \in Others : proposed[e] < current[e] /\ needed + Cost[e] > 0

Inv ==
    /\ TypeOK
    /\ NothingYet
    /\ Running
    /\ TargetWaits
    /\ TargetServed
    /\ ShortfallIsCurrent
    /\ DonorsOnlyShrink
    /\ VisitedAreExhausted
    /\ LastGiftWasNeeded

-----------------------------------------------------------------------------
(* Every count stays a natural number, and so on: the types of the state.  *)
LEMMA TypeInductive == TypeOK /\ [Next]_vars => TypeOK'
  <1> SUFFICES ASSUME TypeOK, [Next]_vars PROVE TypeOK'
    OBVIOUS
  <1> USE BudgetAssumption, PlannerAssumption DEF TypeOK, Outcomes
  <1>1. CASE Refuse
    BY <1>1 DEF Refuse, request
  <1>2. CASE FailToRead
    BY <1>2 DEF FailToRead, request
  <1>3. CASE MoveTargetAlone
    BY <1>3 DEF MoveTargetAlone, request, Readings
  <1>4. CASE SeekDonors
    <2>1. [current EXCEPT ![target] = desired] \in Readings
      BY DEF Readings
    <2>2. needed' \in Int
      BY <1>4, <2>1, UsageType DEF SeekDonors
    <2> QED
      BY <1>4, <2>2 DEF SeekDonors, request
  <1>5. ASSUME NEW d \in Deployments, TakeReplica(d) PROVE TypeOK'
    <2>1. proposed[d] \in Nat /\ proposed[d] > 0 /\ Cost[d] \in Nat
      BY <1>5 DEF TakeReplica, CanGive, Readings
    <2>2. proposed' \in Readings
      BY <1>5, <2>1 DEF TakeReplica, Readings
    <2> QED
      BY <1>5, <2>1, <2>2 DEF TakeReplica, request
  <1>6. ASSUME NEW d \in Deployments, NextDonor(d) PROVE TypeOK'
    BY <1>6 DEF NextDonor, request
  <1>7. CASE GiveUp
    BY <1>7 DEF GiveUp, request
  <1>8. CASE GrantTarget
    BY <1>8 DEF GrantTarget, request, Readings
  <1>9. CASE Verify
    BY <1>9 DEF Verify, request
  <1>10. CASE UNCHANGED vars
    BY <1>10 DEF vars, request
  <1> QED
    BY <1>1, <1>2, <1>3, <1>4, <1>5, <1>6, <1>7, <1>8, <1>9, <1>10 DEF Next

LEMMA InitTypes == Init => TypeOK
  BY PlannerAssumption, BudgetAssumption DEF Init, TypeOK, Outcomes, Readings

LEMMA InitInv == Init => Inv
  BY InitTypes DEF Init, Inv, NothingYet, Running, TargetWaits, TargetServed,
     ShortfallIsCurrent, DonorsOnlyShrink, VisitedAreExhausted, LastGiftWasNeeded,
     Others, TypeOK, Readings

(* Of the donors the loop is not through with, none comes before the one   *)
(* it is at.                                                               *)
LEMMA NobodyBefore ==
    ASSUME TypeOK, NEW d \in Deployments, AtDonor(d)
    PROVE  \A e \in donors : ~GivesBefore(current, priority, e, d)
  <1> SUFFICES ASSUME NEW e \in donors, GivesBefore(current, priority, e, d) PROVE FALSE
    OBVIOUS
  <1>1. /\ current \in Readings /\ e \in Deployments
        /\ priority \in Seq(Deployments \cup {Unknown})
    BY PlannerAssumption DEF TypeOK
  <1>2. ~GivesBefore(current, priority, d, e)
    BY <1>1, GivesBeforeStrict
  <1>3. e # d
    BY <1>2
  <1> QED
    BY <1>2, <1>3 DEF AtDonor

(* One iteration of the while loop keeps the shortfall current.            *)
LEMMA TakingKeepsShortfall ==
    ASSUME Inv, NEW d \in Deployments, TakeReplica(d)
    PROVE  Usage(Granted)' = Usage(Granted) - Cost[d]
  <1>0. Floor[d] \in Nat /\ proposed[d] \in Nat
    BY BudgetAssumption DEF Inv, TypeOK, Readings
  <1>1. d \in Others /\ proposed[d] > 0
    BY <1>0 DEF Inv, TakeReplica, AtDonor, CanGive, TargetWaits
  <1>2. Granted \in Readings /\ Granted[d] = proposed[d]
    BY <1>1 DEF Inv, TypeOK, Readings, Granted, Others
  <1>3. Granted' = [Granted EXCEPT ![d] = @ - 1]
    BY <1>1, <1>2 DEF Granted, TakeReplica, request, Others, Inv, TypeOK, Readings
  <1>4. Usage([Granted EXCEPT ![d] = @ - 1]) = Usage(Granted) - Cost[d]
    BY <1>1, <1>2, UsageTakeReplica
  <1>5. Usage(Granted)' = Usage([Granted EXCEPT ![d] = @ - 1])
    BY <1>3 DEF Usage, BudgetUnits
  <1> QED
    BY <1>4, <1>5

LEMMA TakeReplicaKeepsInv ==
    ASSUME Inv, NEW d \in Deployments, TakeReplica(d), TypeOK'
    PROVE  Inv'
  <1>1. /\ d \in Others /\ proposed[d] > Floor[d] /\ needed > 0 /\ pc = "donate" /\ d \in donors
        /\ Floor[d] \in Nat /\ Cost[d] \in Nat /\ proposed[d] \in Nat
        /\ Others' = Others
    BY BudgetAssumption
    DEF Inv, TakeReplica, AtDonor, CanGive, TargetWaits, TypeOK, Readings, Others, request
  <1>2. /\ proposed'[d] = proposed[d] - 1
        /\ \A e \in Deployments \ {d} : proposed'[e] = proposed[e]
        /\ needed' = needed - Cost[d]
        /\ UNCHANGED <<request, pc, donors, outcome>>
    BY DEF TakeReplica, Inv, TypeOK, Readings
  <1>3. \A e \in Deployments : proposed[e] \in Nat /\ current[e] \in Nat /\ Floor[e] \in Nat
    BY BudgetAssumption DEF Inv, TypeOK, Readings
  <1>4. NothingYet' /\ Running' /\ TargetServed'
    BY <1>1, <1>2 DEF Inv, NothingYet, Running, TargetServed, request, Plannable, NeedsNoDonor
  <1>5. TargetWaits'
    <2>1. target \in Deployments /\ target # d
      BY <1>1 DEF Inv, Running, Plannable, Others
    <2> QED
      BY <1>1, <1>2, <2>1 DEF Inv, TargetWaits, request
  <1>6. ShortfallIsCurrent'
    <2>1. Granted \in Readings
      BY DEF Inv, TypeOK, Readings, Granted
    <2>2. Usage(Granted) \in Nat
      BY <2>1, UsageType
    <2>3. needed = Usage(Granted) - TotalBudget
      BY <1>1 DEF Inv, ShortfallIsCurrent
    <2>4. Usage(Granted') = Usage(Granted) - Cost[d]
      BY TakingKeepsShortfall DEF Usage, BudgetUnits
    <2> QED
      BY <1>1, <1>2, <2>2, <2>3, <2>4, BudgetAssumption DEF ShortfallIsCurrent
  <1>7. DonorsOnlyShrink'
    BY <1>1, <1>2, <1>3 DEF Inv, DonorsOnlyShrink, Others, request
  <1>8. VisitedAreExhausted'
    BY <1>1, <1>2, <1>3 DEF Inv, VisitedAreExhausted, Others, request
  <1>9. LastGiftWasNeeded'
    <2>1. proposed'[d] < current'[d] /\ needed' + Cost[d] > 0
      BY <1>1, <1>2, <1>3 DEF Inv, DonorsOnlyShrink, request, TypeOK
    <2> QED
      BY <2>1, <1>1 DEF LastGiftWasNeeded
  <1> QED
    BY <1>4, <1>5, <1>6, <1>7, <1>8, <1>9 DEF Inv

LEMMA NextDonorKeepsInv ==
    ASSUME Inv, NEW d \in Deployments, NextDonor(d), TypeOK'
    PROVE  Inv'
  <1>1. /\ d \in Others /\ d \in donors /\ pc = "donate"
        /\ proposed[d] \in Nat /\ Floor[d] \in Nat /\ needed \in Int
        /\ Others' = Others /\ Granted' = Granted
        /\ (needed > 0 => proposed[d] <= Floor[d])
    BY BudgetAssumption
    DEF Inv, NextDonor, AtDonor, CanGive, TargetWaits, TypeOK, Readings, Others, request, Granted
  <1>2. donors' = donors \ {d} /\ UNCHANGED <<request, pc, needed, proposed, outcome>>
    BY DEF NextDonor
  <1>3. NothingYet' /\ Running' /\ TargetServed' /\ TargetWaits'
    BY <1>1, <1>2 DEF Inv, NothingYet, Running, TargetServed, TargetWaits, request, Plannable, NeedsNoDonor
  <1>4. ShortfallIsCurrent'
    BY <1>1, <1>2 DEF Inv, ShortfallIsCurrent, Usage, BudgetUnits
  <1>5. DonorsOnlyShrink' /\ LastGiftWasNeeded'
    BY <1>1, <1>2 DEF Inv, DonorsOnlyShrink, LastGiftWasNeeded, request
  <1>6. VisitedAreExhausted'
    BY <1>1, <1>2 DEF Inv, VisitedAreExhausted, request
  <1> QED
    BY <1>3, <1>4, <1>5, <1>6 DEF Inv

LEMMA SeekDonorsKeepsInv == Inv /\ SeekDonors /\ TypeOK' => Inv'
  <1> SUFFICES ASSUME Inv, SeekDonors, TypeOK' PROVE Inv'
    OBVIOUS
  <1>1. /\ proposed = current /\ outcome = "none" /\ current \in Readings
        /\ Others' = Others /\ Granted' = Granted /\ pc' = "donate" /\ donors' = Others
        /\ UNCHANGED <<request, proposed, outcome>>
    BY DEF Inv, SeekDonors, NothingYet, TypeOK, Others, Granted, request
  <1>2. NothingYet' /\ TargetServed' /\ TargetWaits'
    BY <1>1 DEF NothingYet, TargetServed, TargetWaits, request
  <1>3. Running'
    BY <1>1 DEF SeekDonors, Running, request, Plannable, NeedsNoDonor
  <1>4. ShortfallIsCurrent'
    <2>1. needed' = Usage([current EXCEPT ![target] = desired]) - TotalBudget
      BY DEF SeekDonors
    <2>2. Granted' = [current EXCEPT ![target] = desired]
      BY <1>1 DEF Granted
    <2>3. Usage(Granted)' = Usage([current EXCEPT ![target] = desired])
      BY <2>2 DEF Usage, BudgetUnits
    <2> QED
      BY <1>1, <2>1, <2>3 DEF ShortfallIsCurrent
  <1>5. DonorsOnlyShrink' /\ LastGiftWasNeeded' /\ VisitedAreExhausted'
    BY <1>1 DEF DonorsOnlyShrink, LastGiftWasNeeded, VisitedAreExhausted, request, Readings, Others
  <1> QED
    BY <1>2, <1>3, <1>4, <1>5 DEF Inv

LEMMA GrantTargetKeepsInv == Inv /\ GrantTarget /\ TypeOK' => Inv'
  <1> SUFFICES ASSUME Inv, GrantTarget, TypeOK' PROVE Inv'
    OBVIOUS
  <1>1. /\ proposed' = Granted /\ pc = "donate" /\ pc' = "verify" /\ needed <= 0
        /\ Others' = Others
        /\ UNCHANGED <<request, donors, needed, outcome>>
    BY DEF GrantTarget, Granted, Others, request
  <1>2. /\ target \in Deployments /\ proposed \in Readings
        /\ \A d \in Others : proposed'[d] = proposed[d]
        /\ proposed'[target] = desired
    BY <1>1 DEF Inv, Running, Plannable, Granted, Others, TypeOK, Readings
  <1>3. Granted' = Granted
    BY <1>1, <1>2 DEF Granted, request, Readings
  <1>4. NothingYet' /\ TargetServed' /\ TargetWaits' /\ VisitedAreExhausted' /\ Running'
    BY <1>1, <1>2
    DEF Inv, NothingYet, TargetServed, TargetWaits, VisitedAreExhausted, Running, Plannable,
        NeedsNoDonor, request
  <1>5. ShortfallIsCurrent'
    BY <1>1, <1>3 DEF Inv, ShortfallIsCurrent, Usage, BudgetUnits
  <1>6. DonorsOnlyShrink' /\ LastGiftWasNeeded'
    BY <1>1, <1>2 DEF Inv, DonorsOnlyShrink, LastGiftWasNeeded, request
  <1> QED
    BY <1>4, <1>5, <1>6 DEF Inv

(* Steps that end the call.                                                *)
LEMMA EndingKeepsInv ==
    Inv /\ (Refuse \/ FailToRead \/ MoveTargetAlone \/ GiveUp \/ Verify) /\ TypeOK' => Inv'
  <1> SUFFICES ASSUME Inv, Refuse \/ FailToRead \/ MoveTargetAlone \/ GiveUp \/ Verify, TypeOK'
               PROVE  Inv'
    OBVIOUS
  <1>1. pc' = "done" /\ UNCHANGED request /\ Others' = Others
    BY DEF Refuse, FailToRead, MoveTargetAlone, GiveUp, Verify, request, Others
  <1>2. /\ NothingYet' /\ Running' /\ TargetWaits' /\ TargetServed' /\ ShortfallIsCurrent'
        /\ VisitedAreExhausted' /\ LastGiftWasNeeded'
    BY <1>1 DEF NothingYet, Running, TargetWaits, TargetServed, ShortfallIsCurrent,
       VisitedAreExhausted, LastGiftWasNeeded
  <1>3. DonorsOnlyShrink'
    <2>1. CASE MoveTargetAlone
      <3>1. \A d \in Others : proposed'[d] = current[d] /\ current[d] \in Nat
        BY <2>1 DEF MoveTargetAlone, Others, Inv, TypeOK, Readings
      <3> QED
        BY <1>1, <3>1 DEF DonorsOnlyShrink, request
    <2>2. CASE Refuse \/ FailToRead \/ GiveUp \/ Verify
      <3>1. UNCHANGED proposed
        BY <2>2 DEF Refuse, FailToRead, GiveUp, Verify
      <3> QED
        BY <1>1, <3>1 DEF Inv, DonorsOnlyShrink, request
    <2> QED
      BY <2>1, <2>2
  <1> QED
    BY <1>2, <1>3 DEF Inv

LEMMA InvInductive == Inv /\ [Next]_vars => Inv'
  <1> SUFFICES ASSUME Inv, [Next]_vars PROVE Inv'
    OBVIOUS
  <1>1. TypeOK'
    BY TypeInductive DEF Inv
  <1>2. CASE UNCHANGED vars
    BY <1>2, <1>1 DEF vars, request, Inv, NothingYet, Running, TargetWaits, TargetServed,
       ShortfallIsCurrent, DonorsOnlyShrink, VisitedAreExhausted, LastGiftWasNeeded,
       Others, Granted, Usage, BudgetUnits, Plannable, NeedsNoDonor, WithinBudget
  <1> QED
    BY <1>1, <1>2, TakeReplicaKeepsInv, NextDonorKeepsInv, SeekDonorsKeepsInv,
       GrantTargetKeepsInv, EndingKeepsInv DEF Next

(* The state of a planning call keeps its types (BudgetPlanner, TypeOK).   *)
THEOREM TypeCorrect == Spec => []TypeOK
  BY InitTypes, TypeInductive, PTL DEF Spec

THEOREM Invariance == Spec => []Inv
  BY InitInv, InvInductive, PTL DEF Spec

LEMMA CoveredMeansWithin ==
    ASSUME Inv, pc = "verify"
    PROVE  WithinBudget(proposed)
  <1>1. proposed \in Readings /\ proposed[target] = desired
    BY DEF Inv, TypeOK, TargetServed
  <1>2. Granted = proposed
    BY <1>1 DEF Granted, Readings
  <1>3. Usage(proposed) \in Nat /\ needed <= 0 /\ needed = Usage(proposed) - TotalBudget
    BY <1>1, <1>2, UsageType DEF Inv, ShortfallIsCurrent
  <1> QED
    BY <1>3, BudgetAssumption DEF WithinBudget

(* A covered shortfall is a plan within the budget: the loop's running     *)
(* count of budget units and the sum computed at the end agree             *)
(* (budgeting.py:127).                                                     *)
THEOREM RecheckIsRedundant == Spec => []RecheckNeverFires
  <1>1. Inv => RecheckNeverFires
    BY CoveredMeansWithin DEF RecheckNeverFires
  <1> QED
    BY <1>1, Invariance, PTL

-----------------------------------------------------------------------------
LEMMA TakeReplicaKeepsOrder ==
    ASSUME Inv, DonorsInOrder, NEW c \in Deployments, TakeReplica(c)
    PROVE  DonorsInOrder'
  <1>1. /\ c \in Others /\ proposed[c] > Floor[c] /\ needed > 0 /\ pc = "donate"
        /\ proposed[c] \in Nat /\ Floor[c] \in Nat
    BY BudgetAssumption
    DEF Inv, TakeReplica, AtDonor, CanGive, TargetWaits, TypeOK, Readings
  <1>2. /\ proposed'[c] = proposed[c] - 1
        /\ \A e \in Deployments \ {c} : proposed'[e] = proposed[e]
        /\ UNCHANGED request
    BY DEF TakeReplica, Inv, TypeOK, Readings
  <1> SUFFICES ASSUME NEW d \in Others, NEW e \in Others,
                      proposed'[d] < current[d], GivesBefore(current, priority, e, d)
               PROVE  proposed'[e] <= Floor[e]
    BY <1>2 DEF DonorsInOrder, Others, request
  <1>3. CASE d = c
    <2>1. e \notin donors
      BY <1>3, NobodyBefore DEF Inv, TakeReplica
    <2>2. proposed[e] <= Floor[e]
      BY <1>1, <2>1 DEF Inv, VisitedAreExhausted
    <2>3. e # c
      BY <1>1, <2>2
    <2> QED
      BY <1>2, <2>2, <2>3 DEF Others
  <1>4. CASE d # c
    <2>1. proposed[e] <= Floor[e]
      BY <1>1, <1>2, <1>4 DEF DonorsInOrder, Others
    <2> QED
      BY <1>1, <1>2, <2>1 DEF Others
  <1> QED
    BY <1>3, <1>4

(* A donor gives only after every donor the stated priority (or, without   *)
(* one, the surplus) puts before it has nothing left above its floor.      *)
THEOREM DonationOrder == Spec => []DonorsInOrder
  <1>1. Init => DonorsInOrder
    BY DEF Init, DonorsInOrder
  <1>2. Inv /\ DonorsInOrder /\ [Next]_vars => DonorsInOrder'
    <2> SUFFICES ASSUME Inv, DonorsInOrder, [Next]_vars PROVE DonorsInOrder'
      OBVIOUS
    <2>1. CASE \E c \in Deployments : TakeReplica(c)
      BY <2>1, TakeReplicaKeepsOrder
    <2>2. CASE Refuse \/ FailToRead \/ MoveTargetAlone \/ SeekDonors
      <3>1. \A d \in Others : ~(proposed'[d] < current'[d])
        <4>1. current \in Readings /\ proposed = current
          BY <2>2 DEF Refuse, FailToRead, MoveTargetAlone, SeekDonors, Inv, NothingYet, TypeOK
        <4> QED
          BY <2>2, <4>1
          DEF Refuse, FailToRead, MoveTargetAlone, SeekDonors, Others, request, Readings
      <3>2. UNCHANGED request
        BY <2>2 DEF Refuse, FailToRead, MoveTargetAlone, SeekDonors
      <3> QED
        BY <3>1, <3>2 DEF DonorsInOrder, Others, request
    <2>3. CASE (\E c \in Deployments : NextDonor(c)) \/ GiveUp \/ GrantTarget \/ Verify \/ UNCHANGED vars
      <3>1. /\ UNCHANGED request /\ (pc = "request" => pc' = "request")
            /\ \A d \in Others : proposed'[d] = proposed[d]
        BY <2>3 DEF NextDonor, GiveUp, GrantTarget, Verify, vars, Others, Inv, TypeOK, Readings
      <3> QED
        BY <3>1 DEF DonorsInOrder, Others, request
    <2> QED
      BY <2>1, <2>2, <2>3 DEF Next
  <1> QED
    BY <1>1, <1>2, Invariance, PTL DEF Spec

-----------------------------------------------------------------------------
(* Giving a replica back costs what taking it freed.                       *)
LEMMA GivingBackBreaksBudget ==
    ASSUME Inv, pc = "verify", NEW e \in Others, needed + Cost[e] > 0
    PROVE  ~WithinBudget([proposed EXCEPT ![e] = @ + 1])
  <1> DEFINE more == [proposed EXCEPT ![e] = @ + 1]
  <1>1. e \in Deployments /\ proposed \in Readings /\ proposed[target] = desired
    BY DEF Inv, TypeOK, TargetServed, Others
  <1>2. more \in Readings /\ more[e] > 0 /\ proposed = [more EXCEPT ![e] = @ - 1]
    <2>1. proposed[e] \in Nat /\ more[e] = proposed[e] + 1
      BY <1>1 DEF Readings
    <2>2. more \in Readings
      BY <1>1, <2>1 DEF Readings
    <2>3. [more EXCEPT ![e] = @ - 1] = [more EXCEPT ![e] = proposed[e]]
      BY <2>1
    <2>4. [more EXCEPT ![e] = proposed[e]] = proposed
      BY <1>1 DEF Readings
    <2> QED
      BY <2>1, <2>2, <2>3, <2>4
  <1>3. Usage(proposed) = Usage(more) - Cost[e]
    BY <1>1, <1>2, UsageTakeReplica
  <1>4. Granted = proposed
    BY <1>1 DEF Granted, Readings
  <1>5. needed = Usage(proposed) - TotalBudget
    BY <1>4 DEF Inv, ShortfallIsCurrent
  <1>6. Usage(proposed) \in Nat /\ Usage(more) \in Nat /\ Cost[e] \in Nat
    BY <1>1, <1>2, UsageType, BudgetAssumption
  <1> QED
    BY <1>3, <1>5, <1>6, BudgetAssumption DEF WithinBudget

(* Nobody is asked for more than the shortfall, nor below the floor.       *)
THEOREM NoNeedlessGift == Spec => []NoNeedlessDonation
  <1>1. Init => NoNeedlessDonation
    BY DEF Init, NoNeedlessDonation
  <1>2. Inv /\ NoNeedlessDonation /\ [Next]_vars => NoNeedlessDonation'
    <2> SUFFICES ASSUME Inv, NoNeedlessDonation, [Next]_vars, outcome' = "feasible"
                 PROVE  NoNeedlessDonation'
      BY DEF NoNeedlessDonation
    <2>1. CASE Verify
      <3>1. UNCHANGED <<request, proposed>> /\ pc = "verify"
        BY <2>1 DEF Verify
      <3>2. ASSUME NEW d \in Others, proposed[d] < current[d]
            PROVE  /\ proposed[d] >= Floor[d]
                   /\ \E e \in Others : /\ proposed[e] < current[e]
                                        /\ ~WithinBudget([proposed EXCEPT ![e] = @ + 1])
        <4>1. proposed[d] >= Floor[d]
          BY <3>2, BudgetAssumption DEF Inv, DonorsOnlyShrink, TypeOK, Readings, Others
        <4>2. PICK e \in Others : proposed[e] < current[e] /\ needed + Cost[e] > 0
          BY <3>1, <3>2 DEF Inv, LastGiftWasNeeded
        <4> QED
          BY <3>1, <4>1, <4>2, GivingBackBreaksBudget
      <3>3. \A r : WithinBudget(r)' <=> WithinBudget(r)
        BY DEF WithinBudget, Usage, BudgetUnits
      <3> QED
        BY <3>1, <3>2, <3>3 DEF NoNeedlessDonation, Others, request
    <2>2. CASE MoveTargetAlone
      <3>1. \A d \in Others : ~(proposed'[d] < current'[d])
        BY <2>2 DEF MoveTargetAlone, Others, request, Inv, TypeOK, Readings
      <3> QED
        BY <2>2, <3>1 DEF NoNeedlessDonation, MoveTargetAlone, Others, request
    <2>3. CASE UNCHANGED vars
      BY <2>3 DEF vars, request, NoNeedlessDonation, WithinBudget, Usage, BudgetUnits
    <2>4. Verify \/ MoveTargetAlone \/ UNCHANGED vars
      BY DEF Next, Refuse, FailToRead, MoveTargetAlone, SeekDonors, TakeReplica, NextDonor,
         GiveUp, GrantTarget, Verify, Inv, NothingYet, Running
    <2> QED
      BY <2>1, <2>2, <2>3, <2>4
  <1> QED
    BY <1>1, <1>2, Invariance, PTL DEF Spec

-----------------------------------------------------------------------------
(* The refinement: plan_budget_allocation answers as AllocationAnswer      *)
(* specifies.  A plan it calls feasible serves the target within the       *)
(* budget and takes nobody below its floor, and it gives up only if there  *)
(* is no such plan.                                                        *)

(* The counts stay where the instance of AllocationAnswer looks for them.  *)
Bounded ==
    /\ \A d \in Deployments : current[d] <= MaxReading
    /\ desired <= MaxDesired

Allocations == [Deployments -> 0..(MaxReading + MaxDesired)]

LEMMA BoundedInvariant == Spec => []Bounded
  <1>1. Init => Bounded
    BY PlannerAssumption DEF Init, Bounded
  <1>2. Bounded /\ [Next]_vars => Bounded'
    <2> SUFFICES ASSUME Bounded, [Next]_vars PROVE UNCHANGED request
      BY DEF Bounded, request
    <2> QED
      BY DEF Next, Refuse, FailToRead, MoveTargetAlone, SeekDonors, TakeReplica, NextDonor,
         GiveUp, GrantTarget, Verify, vars
  <1> QED
    BY <1>1, <1>2, PTL DEF Spec

(* The budget of the abstract specification is the one of this module.     *)
LEMMA SameBudget ==
    ASSUME NEW r
    PROVE  Answer!WithinBudget(r) <=> WithinBudget(r)
  <1>1. Answer!BudgetUnits(r) = BudgetUnits(r)
    BY DEF Answer!BudgetUnits, BudgetUnits, Answer!UnitsOf, UnitsOf
  <1>2. Answer!Usage(r) = Usage(r)
    BY <1>1, Zenon DEF Answer!Usage, Usage, Answer!Cardinality, Cardinality
  <1> QED
    BY <1>2, Zenon DEF Answer!WithinBudget, WithinBudget

(* When every donor is exhausted, any allocation that satisfies the        *)
(* request uses at least what the loop arrived at.                         *)
LEMMA NothingSatisfies ==
    ASSUME Inv, pc = "donate", donors = {}, needed > 0, NEW q \in Readings
    PROVE  ~Answer!Satisfies(q)
  <1> SUFFICES ASSUME Answer!Satisfies(q) PROVE FALSE
    OBVIOUS
  <1>1. /\ target \in Deployments /\ Granted \in Readings /\ proposed \in Readings
        /\ current \in Readings /\ Granted[target] = desired
        /\ \A d \in Others : Granted[d] = proposed[d]
    BY DEF Inv, TypeOK, Running, Plannable, Granted, Readings, Others
  <1>2. ASSUME NEW d \in Deployments PROVE Granted[d] <= q[d]
    <2>1. CASE d = target
      BY <1>1, <2>1 DEF Answer!Satisfies, Readings
    <2>2. CASE d \in Others
      <3>1. /\ proposed[d] <= Floor[d] /\ proposed[d] <= current[d]
            /\ proposed[d] \in Nat /\ current[d] \in Nat /\ Floor[d] \in Nat /\ q[d] \in Nat
        BY <1>1, <2>2, BudgetAssumption
        DEF Inv, VisitedAreExhausted, DonorsOnlyShrink, Readings
      <3>2. q[d] = current[d] \/ Floor[d] <= q[d]
        BY <2>2 DEF Answer!Satisfies, Others
      <3> QED
        BY <1>1, <2>2, <3>1, <3>2
    <2> QED
      BY <2>1, <2>2 DEF Others
  <1>3. Usage(Granted) <= Usage(q) /\ Usage(Granted) \in Nat /\ Usage(q) \in Nat
    BY <1>1, <1>2, UsageMonotone, UsageType
  <1>4. needed = Usage(Granted) - TotalBudget
    BY DEF Inv, ShortfallIsCurrent
  <1>5. Usage(q) <= TotalBudget
    BY SameBudget DEF Answer!Satisfies, WithinBudget
  <1> QED
    BY <1>3, <1>4, <1>5, BudgetAssumption

LEMMA StepAnswers == Inv /\ Bounded /\ [Next]_vars => [Answer!Next]_(Answer!answerVars)
  <1> SUFFICES ASSUME Inv, Bounded, [Next]_vars
               PROVE  [Answer!Next]_(Answer!answerVars)
    OBVIOUS
  <1>1. CASE Refuse \/ FailToRead
    <2>1. /\ pc = "request" /\ pc' = "done" /\ outcome = "none" /\ UNCHANGED <<request, proposed>>
          /\ outcome' = IF Plannable(target, desired) THEN "unreadable" ELSE "refused"
      BY <1>1 DEF Refuse, FailToRead, Inv, NothingYet
    <2>2. Answer!AnswerError
      BY <2>1 DEF Answer!AnswerError, Answer!Plannable, Plannable, request
    <2> QED
      BY <2>2 DEF Answer!Next
  <1>2. CASE MoveTargetAlone
    <2>1. /\ pc = "request" /\ pc' = "done" /\ outcome = "none" /\ outcome' = "feasible"
          /\ target \in Deployments /\ Plannable(target, desired) /\ UNCHANGED request
          /\ proposed' = [current EXCEPT ![target] = desired]
          /\ current \in Readings /\ desired \in Nat
      BY <1>2 DEF MoveTargetAlone, Inv, NothingYet, Plannable, TypeOK
    <2>2. proposed' \in Allocations
      BY <2>1, PlannerAssumption DEF Bounded, Readings, Allocations
    <2>3. ~Answer!Shrinks => Answer!Satisfies(proposed')
      <3>1. ~Answer!Shrinks => WithinBudget(proposed')
        BY <1>2, <2>1 DEF MoveTargetAlone, NeedsNoDonor, Answer!Shrinks, WithinBudget, Usage, BudgetUnits
      <3> QED
        BY <2>1, <3>1, SameBudget DEF Answer!Satisfies, Readings
    <2>4. Answer!AnswerFeasible
      BY <2>1, <2>2, <2>3 DEF Answer!AnswerFeasible, Answer!Plannable, Plannable, Allocations, request
    <2> QED
      BY <2>4 DEF Answer!Next
  <1>3. CASE \/ SeekDonors \/ GrantTarget \/ UNCHANGED vars
             \/ \E d \in Deployments : TakeReplica(d) \/ NextDonor(d)
    BY <1>3 DEF SeekDonors, GrantTarget, vars, TakeReplica, NextDonor, request,
       Answer!answerVars, Inv, NothingYet, Running
  <1>4. CASE GiveUp
    <2>1. /\ pc = "donate" /\ pc' = "done" /\ outcome = "none" /\ outcome' = "infeasible"
          /\ donors = {} /\ needed > 0 /\ UNCHANGED <<request, proposed>>
          /\ Plannable(target, desired) /\ ~NeedsNoDonor(current, target, desired)
      BY <1>4 DEF GiveUp, Inv, Running
    <2>2. ~Answer!Shrinks
      BY <2>1 DEF NeedsNoDonor, Answer!Shrinks
    <2>3. \A q \in Allocations : ~Answer!Satisfies(q)
      <3>1. Allocations \subseteq Readings
        BY PlannerAssumption DEF Allocations, Readings
      <3> QED
        BY <2>1, <3>1, NothingSatisfies
    <2>4. Answer!AnswerInfeasible
      BY <2>1, <2>2, <2>3
      DEF Answer!AnswerInfeasible, Answer!Plannable, Plannable, Allocations, request
    <2> QED
      BY <2>4 DEF Answer!Next
  <1>5. CASE Verify
    <2>1. /\ pc = "verify" /\ pc' = "done" /\ outcome = "none" /\ UNCHANGED <<request, proposed>>
          /\ Plannable(target, desired) /\ ~NeedsNoDonor(current, target, desired)
          /\ target \in Deployments /\ proposed[target] = desired
          /\ proposed \in Readings /\ current \in Readings /\ desired \in Nat
      BY <1>5 DEF Verify, Inv, Running, Plannable, TypeOK, TargetServed
    <2>2. WithinBudget(proposed)
      BY <2>1, CoveredMeansWithin
    <2>3. outcome' = "feasible"
      BY <1>5, <2>2 DEF Verify
    <2>4. ~Answer!Shrinks
      BY <2>1 DEF NeedsNoDonor, Answer!Shrinks
    <2>5. \A d \in Others : /\ proposed[d] <= current[d]
                            /\ proposed[d] = current[d] \/ (Floor[d] <= proposed[d] /\ proposed[d] < current[d])
      BY <2>1 DEF Inv, DonorsOnlyShrink, Others, Readings
    <2>6. Answer!Satisfies(proposed)
      BY <2>1, <2>2, <2>5, SameBudget DEF Answer!Satisfies, Others
    <2>7. proposed \in Allocations
      <3>1. ASSUME NEW d \in Deployments PROVE proposed[d] \in 0..(MaxReading + MaxDesired)
        BY <2>1, <2>5, PlannerAssumption DEF Bounded, Others, Readings
      <3> QED
        BY <2>1, <3>1 DEF Allocations, Readings
    <2>8. Answer!AnswerFeasible
      BY <2>1, <2>3, <2>4, <2>6, <2>7
      DEF Answer!AnswerFeasible, Answer!Plannable, Plannable, Allocations, request
    <2> QED
      BY <2>8 DEF Answer!Next
  <1> QED
    BY <1>1, <1>2, <1>3, <1>4, <1>5 DEF Next

(* Whatever the deployments, costs, floors and budget, every call of       *)
(* plan_budget_allocation is a correct answer (AnswersCorrectly).          *)
THEOREM PlannerImplementsContract == Spec => AnswersCorrectly
  <1>1. Init => Answer!Init
    BY DEF Init, Answer!Init
  <1> QED
    BY <1>1, StepAnswers, Invariance, BoundedInvariant, PTL
    DEF Spec, AnswersCorrectly, Answer!Spec

-----------------------------------------------------------------------------
(* The loop arrives at the closed form.  No induction over the donors is   *)
(* needed: each donor is settled by the state the loop leaves it in, since *)
(* those before it are then exhausted or the shortfall is covered, and     *)
(* those after it have not been asked.                                     *)
VisitedComeFirst ==
    pc = "donate" =>
        \A e \in Others \ donors, d \in donors : GivesBefore(current, priority, e, d)

OneAtATime ==
    pc = "donate" =>
        \A d \in donors : proposed[d] # current[d] => AtDonor(d) /\ needed + Cost[d] > 0

VisitedAreSettled ==
    pc \in {"donate", "verify"} =>
        \A d \in Others \ donors :
            proposed[d] = current[d] - Donation(current, target, desired, priority, d)

LoopInv ==
    /\ VisitedComeFirst
    /\ OneAtATime
    /\ VisitedAreSettled
    /\ pc = "verify" => donors = {}

LEMMA Quotient ==
    ASSUME NEW n \in Int, NEW c \in Nat \ {0}, NEW q \in Int, q * c <= n, n < q * c + c
    PROVE  n \div c = q
  <1> DEFINE m == n \div c
  <1>1. m \in Int /\ m * c <= n /\ n < m * c + c
    OBVIOUS
  <1> HIDE DEF m
  <1>2. ASSUME m >= q + 1 PROVE FALSE
    <2>1. m * c >= (q + 1) * c
      BY <1>1, <1>2
    <2>2. (q + 1) * c = q * c + c
      OBVIOUS
    <2>3. m * c \in Int /\ q * c \in Int
      BY <1>1
    <2> QED
      BY <1>1, <2>1, <2>2, <2>3
  <1>3. ASSUME q >= m + 1 PROVE FALSE
    <2>1. q * c >= (m + 1) * c
      BY <1>1, <1>3
    <2>2. (m + 1) * c = m * c + c
      BY <1>1
    <2>3. m * c \in Int /\ q * c \in Int
      BY <1>1
    <2> QED
      BY <1>1, <2>1, <2>2, <2>3
  <1>4. m = q
    BY <1>1, <1>2, <1>3
  <1> QED
    BY <1>4 DEF m

(* What a donor is left with, told from the shortfall it met: it was not   *)
(* asked or had nothing to give, or the replica it gave last was called    *)
(* for and then either the shortfall was covered or its floor reached.     *)
LEMMA DonorGivesExactly ==
    ASSUME NEW held \in Nat, NEW floor \in Nat, NEW cost \in Nat \ {0}, NEW short \in Int,
           NEW left \in Nat,
           \/ left = held /\ (short <= 0 \/ held <= floor)
           \/ /\ left < held /\ left >= floor
              /\ short > (held - left) * cost - cost
              /\ short <= (held - left) * cost \/ left = floor
    PROVE  left = held - DonorGives(held, floor, cost, short)
  <1> DEFINE asked == (short + cost - 1) \div cost
             spare == held - floor
             given == held - left
  <1>1. DonorGives(held, floor, cost, short)
            = IF short <= 0 \/ spare <= 0 THEN 0 ELSE IF asked < spare THEN asked ELSE spare
    BY DEF DonorGives
  <1>2. CASE left = held
    BY <1>1, <1>2
  <1>3. CASE left < held
    <2>1. given \in Nat /\ given >= 1 /\ given <= spare /\ spare \in Nat
      BY <1>3
    <2>2. given * cost \in Nat /\ given * cost >= cost /\ asked \in Int
      BY <2>1
    <2>3. short > given * cost - cost
      BY <1>3
    <2>4. short > 0
      BY <2>2, <2>3
    <2>5. CASE short <= given * cost
      <3>1. given * cost <= short + cost - 1 /\ short + cost - 1 < given * cost + cost
        BY <2>2, <2>3, <2>5
      <3>2. asked = given
        <4>1. short + cost - 1 \in Int
          OBVIOUS
        <4> HIDE DEF given
        <4> QED
          BY <2>1, <3>1, <4>1, Quotient
      <3> HIDE DEF asked
      <3> QED
        BY <1>1, <2>1, <2>4, <3>2
    <2>6. CASE short > given * cost
      <3>1. left = floor /\ given = spare
        BY <1>3, <2>6
      <3>2. asked >= given
        <4>1. asked * cost >= short /\ asked * cost \in Int
          OBVIOUS
        <4>2. ASSUME asked < given PROVE FALSE
          <5> HIDE DEF asked, given
          <5>1. asked * cost <= given * cost
            BY <2>1, <2>2, <4>2
          <5> QED
            BY <2>2, <2>6, <4>1, <5>1
        <4> QED
          BY <2>1, <2>2, <4>2
      <3> HIDE DEF asked
      <3> QED
        BY <1>1, <2>1, <2>2, <2>4, <3>1, <3>2
    <2> QED
      BY <2>2, <2>5, <2>6
  <1> QED
    BY <1>2, <1>3

(* The donors before the one the loop is at are those it is through with,  *)
(* and those after it hold what they held.                                 *)
LEMMA WhoseTurn ==
    ASSUME Inv, LoopInv, pc = "donate", NEW d \in Deployments, AtDonor(d)
    PROVE  /\ d \in Others
           /\ Earlier(current, target, priority, d) = Others \ donors
           /\ \A e \in donors \ {d} : proposed[e] = current[e] /\ ~AtDonor(e)
  <1>1. d \in donors /\ donors \subseteq Others
    BY DEF Inv, TargetWaits, AtDonor
  <1>2. \A e \in donors : ~GivesBefore(current, priority, e, d)
    BY NobodyBefore DEF Inv
  <1>3. \A e \in Others \ donors : GivesBefore(current, priority, e, d)
    BY <1>1 DEF LoopInv, VisitedComeFirst
  <1>4. Earlier(current, target, priority, d) = Others \ donors
    BY <1>1, <1>2, <1>3 DEF Earlier, Others
  <1>5. \A e \in donors \ {d} : ~AtDonor(e)
    BY <1>1, <1>2 DEF AtDonor
  <1> QED
    BY <1>1, <1>4, <1>5 DEF LoopInv, OneAtATime

(* Draining donors, those that gave something among them, leaves no more   *)
(* in use than the loop has left so far.                                   *)
LEMMA DrainedIsLeast ==
    ASSUME Inv, target \in Deployments, NEW S,
           \A e \in Others : proposed[e] # current[e] => e \in S
    PROVE  Shortfall(current, target, desired, S) <= Usage(Granted) - TotalBudget
  <1> DEFINE least == Drained(current, target, desired, S)
  <1>1. current \in Readings /\ proposed \in Readings /\ desired \in Nat /\ Granted \in Readings
    BY DEF Inv, TypeOK, Granted, Readings
  <1>2. /\ least \in Readings /\ Usage(least) \in Nat
        /\ Shortfall(current, target, desired, S) = Usage(least) - TotalBudget
    BY <1>1, DrainedType
  <1>3. ASSUME NEW e \in Deployments PROVE least[e] <= Granted[e]
    <2>1. CASE e = target
      BY <1>1, <2>1 DEF Drained, Granted, Readings
    <2>2. CASE e \in Others
      <3>1. /\ current[e] \in Nat /\ proposed[e] \in Nat /\ Floor[e] \in Nat
            /\ Granted[e] = proposed[e] /\ proposed[e] <= current[e]
            /\ proposed[e] < current[e] => Floor[e] <= proposed[e]
        BY <1>1, <2>2, BudgetAssumption DEF Granted, Others, Readings, Inv, DonorsOnlyShrink
      <3>2. least[e] = IF e \in S THEN AtFloor(current[e], Floor[e]) ELSE current[e]
        BY <2>2 DEF Drained, Others
      <3> QED
        BY <2>2, <3>1, <3>2 DEF AtFloor
    <2> QED
      BY <2>1, <2>2 DEF Others
  <1> HIDE DEF least
  <1>4. Usage(least) <= Usage(Granted) /\ Usage(Granted) \in Nat
    BY <1>1, <1>2, <1>3, UsageMonotone, UsageType
  <1> QED
    BY <1>2, <1>4, BudgetAssumption

(* With the donors of S exhausted and the others, but for d, untouched,    *)
(* the shortfall is the one d met less what d gave.                        *)
LEMMA ShortfallAtDonor ==
    ASSUME Inv, target \in Deployments, NEW d \in Others, NEW S, d \notin S,
           \A e \in Others \cap S : proposed[e] <= Floor[e],
           \A e \in Others \ S : e # d => proposed[e] = current[e]
    PROVE  Usage(Granted) - TotalBudget
               = Shortfall(current, target, desired, S) - (current[d] - proposed[d]) * Cost[d]
  <1> DEFINE met == Drained(current, target, desired, S)
  <1>1. /\ current \in Readings /\ proposed \in Readings /\ desired \in Nat /\ Granted \in Readings
        /\ d \in Deployments /\ d # target
    BY DEF Inv, TypeOK, Granted, Readings, Others
  <1>2. /\ met \in Readings /\ Usage(met) \in Nat
        /\ Shortfall(current, target, desired, S) = Usage(met) - TotalBudget
    BY <1>1, DrainedType
  <1>3. met[d] = current[d] /\ proposed[d] \in 0..met[d]
    BY <1>1 DEF Drained, Inv, DonorsOnlyShrink, Readings
  <1>4. ASSUME NEW e \in Deployments, e # d PROVE Granted[e] = met[e]
    <2>1. CASE e = target
      BY <1>1, <2>1 DEF Drained, Granted, Readings
    <2>2. CASE e \in Others
      <3>1. /\ current[e] \in Nat /\ proposed[e] \in Nat /\ Floor[e] \in Nat
            /\ Granted[e] = proposed[e] /\ proposed[e] <= current[e]
            /\ proposed[e] < current[e] => Floor[e] <= proposed[e]
        BY <1>1, <2>2, BudgetAssumption DEF Granted, Others, Readings, Inv, DonorsOnlyShrink
      <3>2. met[e] = IF e \in S THEN AtFloor(current[e], Floor[e]) ELSE current[e]
        BY <2>2 DEF Drained, Others
      <3> QED
        BY <1>4, <2>2, <3>1, <3>2 DEF AtFloor
    <2> QED
      BY <2>1, <2>2 DEF Others
  <1>5. Granted[d] = proposed[d]
    BY <1>1 DEF Granted, Readings
  <1> HIDE DEF met
  <1>6. Granted = [met EXCEPT ![d] = proposed[d]]
    BY <1>1, <1>2, <1>4, <1>5 DEF Readings
  <1>7. Usage(Granted) = Usage(met) - (met[d] - proposed[d]) * Cost[d]
    BY <1>1, <1>2, <1>3, <1>6, UsageTake
  <1>8. (met[d] - proposed[d]) * Cost[d] \in Int
    BY <1>1, <1>2, BudgetAssumption DEF Readings
  <1> QED
    BY <1>2, <1>3, <1>7, <1>8, BudgetAssumption

(* The loop leaves a donor with what the closed form gives it.             *)
LEMMA DonorLeavesSettled ==
    ASSUME Inv, DonorsInOrder, LoopInv, NEW d \in Deployments, NextDonor(d)
    PROVE  proposed[d] = current[d] - Donation(current, target, desired, priority, d)
  <1> DEFINE S == Earlier(current, target, priority, d)
             met == Shortfall(current, target, desired, S)
             held == current[d]
             left == proposed[d]
             cost == Cost[d]
             floor == Floor[d]
  <1>1. pc = "donate" /\ AtDonor(d) /\ ~CanGive(d) /\ target \in Deployments
    BY DEF NextDonor, Inv, Running, Plannable
  <1>2. /\ d \in Others /\ S = Others \ donors /\ d \in donors
        /\ \A e \in donors \ {d} : proposed[e] = current[e]
    BY <1>1, WhoseTurn DEF AtDonor
  <1>3. /\ held \in Nat /\ left \in Nat /\ cost \in Nat \ {0} /\ floor \in Nat /\ needed \in Int
        /\ left <= held /\ (left < held => floor <= left)
        /\ (needed <= 0 \/ left <= floor)
    BY <1>1, <1>2, BudgetAssumption
    DEF Inv, TypeOK, Readings, DonorsOnlyShrink, CanGive
  <1>4. met \in Int
    BY <1>1, DrainedType DEF Inv, TypeOK
  <1>5. needed = Usage(Granted) - TotalBudget
    BY <1>1 DEF Inv, ShortfallIsCurrent
  <1>6. CASE left = held
    <2>1. needed <= 0 => met <= needed
      <3>1. \A e \in Others : proposed[e] # current[e] => e \in S
        BY <1>2, <1>6
      <3> HIDE DEF S
      <3> QED
        BY <1>1, <1>5, <3>1, DrainedIsLeast
    <2>2. left = held /\ (met <= 0 \/ held <= floor)
      <3> HIDE DEF met, held, left, floor
      <3> QED
        BY <1>3, <1>4, <1>6, <2>1
    <2> HIDE DEF met, held, left, floor, cost
    <2>3. left = held - DonorGives(held, floor, cost, met)
      BY <1>3, <1>4, <2>2, DonorGivesExactly
    <2> QED
      BY <2>3 DEF met, held, left, floor, cost, S, Donation, Earlier
  <1>7. CASE left < held
    <2>1. \A e \in Others \cap S : proposed[e] <= Floor[e]
      BY <1>1, <1>2, <1>7 DEF DonorsInOrder, Earlier, Others
    <2>2. \A e \in Others \ S : e # d => proposed[e] = current[e]
      BY <1>2
    <2>3. needed = met - (held - left) * cost
      <3>1. d \notin S
        BY <1>2
      <3> HIDE DEF S
      <3> QED
        BY <1>1, <1>2, <1>5, <2>1, <2>2, <3>1, ShortfallAtDonor
    <2>4. needed + cost > 0
      BY <1>1, <1>2, <1>7, <1>3 DEF LoopInv, OneAtATime
    <2>5. /\ left < held /\ left >= floor
          /\ met > (held - left) * cost - cost
          /\ met <= (held - left) * cost \/ left = floor
      <3> HIDE DEF met, held, left, floor, cost
      <3>1. (held - left) * cost \in Int
        BY <1>3
      <3> QED
        BY <1>3, <1>4, <1>7, <2>3, <2>4, <3>1
    <2> HIDE DEF met, held, left, floor, cost
    <2>6. left = held - DonorGives(held, floor, cost, met)
      BY <1>3, <1>4, <2>5, DonorGivesExactly
    <2> QED
      BY <2>6 DEF met, held, left, floor, cost, S, Donation, Earlier
  <1> QED
    BY <1>3, <1>6, <1>7

LEMMA SeekDonorsStartsLoop == Inv /\ SeekDonors => LoopInv'
  <1> SUFFICES ASSUME Inv, SeekDonors PROVE LoopInv'
    OBVIOUS
  <1>1. /\ proposed = current /\ UNCHANGED <<request, proposed>> /\ donors' = Others
        /\ Others' = Others /\ pc' = "donate"
    BY DEF Inv, NothingYet, SeekDonors, Others, request
  <1>2. proposed' = current'
    BY <1>1 DEF request
  <1> QED
    BY <1>1, <1>2 DEF LoopInv, VisitedComeFirst, OneAtATime, VisitedAreSettled

LEMMA TakeReplicaKeepsLoop ==
    ASSUME Inv, LoopInv, NEW d \in Deployments, TakeReplica(d)
    PROVE  LoopInv'
  <1>1. /\ pc = "donate" /\ AtDonor(d) /\ needed > 0 /\ needed \in Int /\ Cost[d] \in Nat
        /\ needed' = needed - Cost[d] /\ pc' = pc /\ donors' = donors
        /\ UNCHANGED request /\ Others' = Others
        /\ \A e \in Deployments \ {d} : proposed'[e] = proposed[e]
    BY BudgetAssumption DEF TakeReplica, CanGive, Inv, TypeOK, Readings, Others, request
  <1>2. \A e \in donors \ {d} : proposed[e] = current[e]
    BY <1>1, WhoseTurn
  <1>3. donors \subseteq Others /\ d \in donors /\ donors \subseteq Deployments
    BY <1>1 DEF Inv, TargetWaits, AtDonor, Others
  <1>4. VisitedComeFirst'
    BY <1>1 DEF LoopInv, VisitedComeFirst, request
  <1>5. OneAtATime'
    <2> SUFFICES ASSUME NEW e \in donors, proposed'[e] # current[e]
                 PROVE  AtDonor(e)' /\ needed' + Cost[e] > 0
      BY <1>1 DEF OneAtATime, request
    <2>1. e = d
      BY <1>1, <1>2, <1>3
    <2>2. AtDonor(d)'
      BY <1>1 DEF AtDonor, request
    <2> QED
      BY <1>1, <2>1, <2>2
  <1>6. VisitedAreSettled'
    <2> SUFFICES ASSUME NEW e \in Others \ donors
                 PROVE  proposed'[e] = current[e] - Donation(current, target, desired, priority, e)
      BY <1>1 DEF VisitedAreSettled, request, Donation, Shortfall, Usage, BudgetUnits
    <2>1. proposed'[e] = proposed[e]
      BY <1>1, <1>3 DEF Others
    <2> QED
      BY <1>1, <2>1 DEF LoopInv, VisitedAreSettled
  <1> QED
    BY <1>1, <1>4, <1>5, <1>6 DEF LoopInv

LEMMA NextDonorKeepsLoop ==
    ASSUME Inv, DonorsInOrder, LoopInv, NEW d \in Deployments, NextDonor(d)
    PROVE  LoopInv'
  <1>1. /\ pc = "donate" /\ AtDonor(d) /\ pc' = pc /\ donors' = donors \ {d}
        /\ UNCHANGED <<request, proposed, needed>> /\ Others' = Others
    BY DEF NextDonor, Others, request
  <1>2. d \in Others /\ \A e \in donors \ {d} : proposed[e] = current[e]
    BY <1>1, WhoseTurn
  <1>3. VisitedComeFirst'
    <2> SUFFICES ASSUME NEW e \in Others \ donors', NEW f \in donors'
                 PROVE  GivesBefore(current, priority, e, f)
      BY <1>1 DEF VisitedComeFirst, request
    <2>1. CASE e = d
      BY <1>1, <2>1 DEF AtDonor
    <2>2. CASE e # d
      BY <1>1, <2>2 DEF LoopInv, VisitedComeFirst
    <2> QED
      BY <2>1, <2>2
  <1>4. OneAtATime'
    BY <1>1, <1>2 DEF OneAtATime, request
  <1>5. VisitedAreSettled'
    <2> SUFFICES ASSUME NEW e \in Others \ donors'
                 PROVE  proposed[e] = current[e] - Donation(current, target, desired, priority, e)
      BY <1>1 DEF VisitedAreSettled, request, Donation, Shortfall, Usage, BudgetUnits
    <2>1. CASE e = d
      BY <2>1, DonorLeavesSettled
    <2>2. CASE e # d
      BY <1>1, <2>2 DEF LoopInv, VisitedAreSettled
    <2> QED
      BY <2>1, <2>2
  <1> QED
    BY <1>1, <1>3, <1>4, <1>5 DEF LoopInv

LEMMA GrantTargetKeepsLoop == Inv /\ LoopInv /\ GrantTarget => LoopInv'
  <1> SUFFICES ASSUME Inv, LoopInv, GrantTarget PROVE LoopInv'
    OBVIOUS
  <1>1. /\ pc = "donate" /\ pc' = "verify" /\ donors' = donors /\ donors = {} /\ UNCHANGED request
        /\ Others' = Others /\ \A e \in Others : proposed'[e] = proposed[e]
    BY DEF GrantTarget, Others, request, Inv, TypeOK, Readings
  <1>2. VisitedComeFirst' /\ OneAtATime'
    BY <1>1 DEF VisitedComeFirst, OneAtATime
  <1>3. VisitedAreSettled'
    <2> SUFFICES ASSUME NEW e \in Others \ donors
                 PROVE  proposed'[e] = current[e] - Donation(current, target, desired, priority, e)
      BY <1>1 DEF VisitedAreSettled, request, Donation, Shortfall, Usage, BudgetUnits
    <2> QED
      BY <1>1 DEF LoopInv, VisitedAreSettled
  <1> QED
    BY <1>1, <1>2, <1>3 DEF LoopInv

LEMMA LoopInductive == Inv /\ DonorsInOrder /\ LoopInv /\ [Next]_vars => LoopInv'
  <1> SUFFICES ASSUME Inv, DonorsInOrder, LoopInv, [Next]_vars PROVE LoopInv'
    OBVIOUS
  <1>1. CASE Refuse \/ FailToRead \/ MoveTargetAlone \/ GiveUp \/ Verify
    <2>1. pc' = "done"
      BY <1>1 DEF Refuse, FailToRead, MoveTargetAlone, GiveUp, Verify
    <2> QED
      BY <2>1 DEF LoopInv, VisitedComeFirst, OneAtATime, VisitedAreSettled
  <1>2. CASE UNCHANGED vars
    BY <1>2 DEF vars, request, LoopInv, VisitedComeFirst, OneAtATime, VisitedAreSettled,
       AtDonor, Others, Donation, Shortfall, Usage, BudgetUnits
  <1> QED
    BY <1>1, <1>2, SeekDonorsStartsLoop, TakeReplicaKeepsLoop, NextDonorKeepsLoop,
       GrantTargetKeepsLoop DEF Next

(* The loop ended without covering the shortfall: neither do all donors    *)
(* drained.                                                                *)
LEMMA GivingUpIsRight ==
    ASSUME Inv, GiveUp
    PROVE  ComputeBudgetPlan(current, target, desired, priority).feasible = FALSE
  <1>1. /\ pc = "donate" /\ donors = {} /\ needed > 0 /\ target \in Deployments
        /\ ~NeedsNoDonor(current, target, desired)
        /\ needed = Usage(Granted) - TotalBudget
    BY DEF GiveUp, Inv, Running, Plannable, ShortfallIsCurrent
  <1>2. Granted = Drained(current, target, desired, Deployments)
    <2>1. Granted \in Readings /\ Drained(current, target, desired, Deployments) \in Readings
      BY <1>1, DrainedType DEF Inv, TypeOK, Granted, Readings
    <2>2. ASSUME NEW e \in Others PROVE proposed[e] = AtFloor(current[e], Floor[e])
      <3>1. /\ proposed[e] <= Floor[e] /\ proposed[e] <= current[e]
            /\ proposed[e] < current[e] => Floor[e] <= proposed[e]
            /\ proposed[e] \in Nat /\ current[e] \in Nat /\ Floor[e] \in Nat
        BY <1>1, <2>2, BudgetAssumption
        DEF Inv, VisitedAreExhausted, DonorsOnlyShrink, TypeOK, Readings, Others
      <3> QED
        BY <3>1 DEF AtFloor
    <2>3. \A e \in Deployments : Granted[e] = Drained(current, target, desired, Deployments)[e]
      BY <1>1, <2>2 DEF Granted, Drained, Others, Inv, TypeOK, Readings
    <2> QED
      BY <2>1, <2>3 DEF Readings
  <1>3. Shortfall(current, target, desired, Deployments) = needed
    BY <1>1, <1>2, DrainedType DEF Inv, TypeOK
  <1>4. needed \in Int
    BY DEF Inv, TypeOK
  <1>5. ComputeBudgetPlan(current, target, desired, priority).feasible
            = (Shortfall(current, target, desired, Deployments) <= 0)
    BY <1>1 DEF ComputeBudgetPlan
  <1>6. (Shortfall(current, target, desired, Deployments) <= 0) = FALSE
    BY <1>1, <1>3, <1>4
  <1> QED
    BY <1>5, <1>6, Zenon

(* It ended with the shortfall covered: the closed form says so, and       *)
(* proposes what the loop arrived at.                                      *)
LEMMA GrantingIsRight ==
    ASSUME Inv, LoopInv, Verify
    PROVE  ComputeBudgetPlan(current, target, desired, priority)
               = [feasible |-> TRUE, proposed |-> proposed]
  <1>1. /\ pc = "verify" /\ needed <= 0 /\ target \in Deployments
        /\ ~NeedsNoDonor(current, target, desired)
        /\ needed = Usage(Granted) - TotalBudget
        /\ needed \in Int /\ proposed \in Readings /\ proposed[target] = desired
    BY DEF Verify, Inv, TypeOK, Running, Plannable, ShortfallIsCurrent, TargetServed
  <1>2. Shortfall(current, target, desired, Deployments) <= 0
    <2>1. Shortfall(current, target, desired, Deployments) <= needed
      <3>1. \A e \in Others : proposed[e] # current[e] => e \in Deployments
        BY DEF Others
      <3> QED
        BY <1>1, <3>1, DrainedIsLeast
    <2>2. Shortfall(current, target, desired, Deployments) \in Int
      BY <1>1, DrainedType DEF Inv, TypeOK
    <2> QED
      BY <1>1, <2>1, <2>2
  <1>3. \A e \in Others : proposed[e] = current[e] - Donation(current, target, desired, priority, e)
    BY <1>1 DEF LoopInv, VisitedAreSettled
  <1>4. proposed = [e \in Deployments |->
                       IF e = target THEN desired
                       ELSE current[e] - Donation(current, target, desired, priority, e)]
    BY <1>1, <1>3 DEF Readings, Others
  <1> QED
    BY <1>1, <1>2, <1>4 DEF ComputeBudgetPlan

(* What the loop leaves in proposed_replicas, and whether it calls the     *)
(* plan feasible, is what the closed form that BudgetedScaling uses gives  *)
(* (budgeting.py:103-132): for any deployments, costs, floors, budget,     *)
(* reading, request and priority list.                                     *)
THEOREM LoopComputesClosedForm == Spec => []LoopMatchesClosedForm
  <1> DEFINE Matches == LoopInv /\ LoopMatchesClosedForm
  <1>1. Init => Matches
    BY DEF Init, LoopInv, VisitedComeFirst, OneAtATime, VisitedAreSettled, LoopMatchesClosedForm
  <1>2. Inv /\ DonorsInOrder /\ Matches /\ [Next]_vars => Matches'
    <2> SUFFICES ASSUME Inv, DonorsInOrder, Matches, [Next]_vars PROVE LoopMatchesClosedForm'
      BY LoopInductive
    <2> DEFINE plan == ComputeBudgetPlan(current, target, desired, priority)
    <2>1. CASE GiveUp
      <3>1. plan.feasible = FALSE
        BY <2>1, GivingUpIsRight
      <3>2. UNCHANGED request /\ outcome' = "infeasible"
        BY <2>1 DEF GiveUp
      <3>3. plan' = plan
        BY <3>2 DEF request, ComputeBudgetPlan, NeedsNoDonor, WithinBudget, Donation, Shortfall,
           Usage, BudgetUnits
      <3> HIDE DEF plan
      <3>4. plan'.feasible = FALSE /\ (outcome' = "feasible") = FALSE
        BY <3>1, <3>2, <3>3
      <3>5. plan'.feasible = (outcome' = "feasible") /\ (plan'.feasible => plan'.proposed = proposed')
        BY <3>4, Zenon
      <3> QED
        BY <3>5, Zenon DEF LoopMatchesClosedForm, plan
    <2>2. CASE Verify \/ MoveTargetAlone
      <3>1. UNCHANGED request
        BY <2>2 DEF Verify, MoveTargetAlone
      <3>2. outcome' = "feasible" /\ plan = [feasible |-> TRUE, proposed |-> proposed']
        <4>1. CASE Verify
          <5>1. WithinBudget(proposed) /\ proposed' = proposed
            BY <4>1, CoveredMeansWithin DEF Verify
          <5> QED
            BY <4>1, <5>1, GrantingIsRight DEF Verify
        <4>2. CASE MoveTargetAlone
          BY <4>2 DEF MoveTargetAlone, ComputeBudgetPlan
        <4> QED
          BY <2>2, <4>1, <4>2
      <3>3. plan' = plan
        BY <3>1 DEF request, ComputeBudgetPlan, NeedsNoDonor, WithinBudget, Donation, Shortfall,
           Usage, BudgetUnits
      <3> HIDE DEF plan
      <3>4. plan'.feasible = TRUE /\ plan'.proposed = proposed' /\ (outcome' = "feasible") = TRUE
        BY <3>2, <3>3
      <3>5. plan'.feasible = (outcome' = "feasible") /\ (plan'.feasible => plan'.proposed = proposed')
        BY <3>4, Zenon
      <3> QED
        BY <3>5, Zenon DEF LoopMatchesClosedForm, plan
    <2>3. CASE UNCHANGED vars
      <3>1. UNCHANGED <<current, target, desired, priority, proposed, outcome>>
        BY <2>3 DEF vars, request
      <3>2. plan' = plan
        BY <3>1 DEF ComputeBudgetPlan, NeedsNoDonor, WithinBudget, Donation, Shortfall,
           Usage, BudgetUnits
      <3> HIDE DEF plan
      <3>3. outcome \in {"feasible", "infeasible"} =>
                /\ plan.feasible = (outcome = "feasible")
                /\ plan.feasible => plan.proposed = proposed
        BY Zenon DEF LoopMatchesClosedForm, plan
      <3>4. outcome' \in {"feasible", "infeasible"} =>
                /\ plan'.feasible = (outcome' = "feasible")
                /\ plan'.feasible => plan'.proposed = proposed'
        BY <3>1, <3>2, <3>3, Zenon
      <3> QED
        BY <3>4, Zenon DEF LoopMatchesClosedForm, plan
    <2>4. CASE ~(outcome' \in {"feasible", "infeasible"})
      BY <2>4 DEF LoopMatchesClosedForm
    <2>5. GiveUp \/ Verify \/ MoveTargetAlone \/ UNCHANGED vars
              \/ ~(outcome' \in {"feasible", "infeasible"})
      BY DEF Next, Refuse, FailToRead, SeekDonors, TakeReplica, NextDonor, GrantTarget,
         Inv, NothingYet, Running
    <2> QED
      BY <2>1, <2>2, <2>3, <2>4, <2>5
  <1>3. Matches => LoopMatchesClosedForm
    OBVIOUS
  <1> QED
    BY <1>1, <1>2, <1>3, Invariance, DonationOrder, PTL DEF Spec
=============================================================================
