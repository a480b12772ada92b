-------------------------- MODULE AllocationAnswer --------------------------
(***************************************************************************)
(* What an answer of the budget planner means, without the algorithm: the  *)
(* call is answered in one step, the answer is "feasible" only with an     *)
(* allocation that gives the target what was asked and lets nobody grow or *)
(* fall under its floor, and "infeasible" only if no such allocation       *)
(* exists.  BudgetPlanner implements this.                                 *)
(***************************************************************************)
EXTENDS ReplicaBudget

CONSTANT Allocations    \* the replica counts an answer may propose

VARIABLES
    current, target, desired,   \* the request
    answer,                     \* "none" until the call is answered
    allocation                  \* the replica counts answered

answerVars == <<current, target, desired, answer, allocation>>

(* q gives the target what was asked, takes from the others only what they *)
(* hold above their floors, and fits the budget.                           *)
Satisfies(q) ==
    /\ q[target] = desired
    /\ \A d \in Deployments \ {target} :
           q[d] = current[d] \/ (Floor[d] <= q[d] /\ q[d] < current[d])
    /\ WithinBudget(q)

(* A request for no more than the target has is always granted, and moves  *)
(* nobody else.                                                            *)
Shrinks == desired <= current[target]

Init ==
    /\ answer = "none"
    /\ allocation = current

AnswerFeasible ==
    /\ answer = "none"
    /\ Plannable(target, desired)
    /\ answer' = "feasible"
    /\ allocation' \in Allocations
    /\ IF Shrinks
       THEN allocation' = [current EXCEPT ![target] = desired]
       ELSE Satisfies(allocation')
    /\ UNCHANGED <<current, target, desired>>

AnswerInfeasible ==
    /\ answer = "none"
    /\ Plannable(target, desired)
    /\ ~Shrinks
    /\ \A q \in Allocations : ~Satisfies(q)
    /\ answer' = "infeasible"
    /\ UNCHANGED <<current, target, desired, allocation>>

AnswerError ==
    /\ answer = "none"
    /\ answer' = IF Plannable(target, desired) THEN "unreadable" ELSE "refused"
    /\ UNCHANGED <<current, target, desired, allocation>>

Next == AnswerFeasible \/ AnswerInfeasible \/ AnswerError

Spec == Init /\ [][Next]_answerVars
=============================================================================
