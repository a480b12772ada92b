----------------------- MODULE ApprovedScaling_proofs -----------------------
(***************************************************************************)
(* Proofs about ApprovedScaling: the state keeps its types, /execute scales *)
(* for approved requests only, and a raise is never left behind as long as  *)
(* only the temporary tools change the maximum and only their requests fail.*)
(***************************************************************************)
EXTENDS ApprovedScaling, TLAPS

(***************************************************************************)
(* Types                                                                    *)
(***************************************************************************)
Busy == [pc : {"raise", "confirm", "scale", "record", "report", "watch"},
         approval : Approvals, size : Nat, own : BOOLEAN,
         misses : 0..Tries-1, left : 0..MonitorTime, checked : BOOLEAN]

\* A call that is not idle is a record of the busy kind.
LEMMA BusyCall ==
    ASSUME TypeOK, NEW c \in Calls, call[c].pc # "idle"
    PROVE  call[c] \in Busy
BY DEF TypeOK, Busy, Idle

\* The shape of TypeOK for a step that replaces one call.
LEMMA OneCall ==
    ASSUME TypeOK, NEW c \in Calls, NEW r \in {Idle} \cup Busy,
           call' = [call EXCEPT ![c] = r]
    PROVE  call' \in [Calls -> {Idle} \cup Busy]
BY DEF TypeOK, Busy

\* A fault counted stays within the bound.
LEMMA FaultCounted ==
    ASSUME TypeOK, NEW k, Fault(k)
    PROVE  faults' \in 0..MaxFaults /\ disturbed' \in BOOLEAN
BY FaultsAssumption DEF TypeOK, Fault

\* A step that moves a call on keeps the calls typed.
LEMMA MovedCall ==
    ASSUME TypeOK, NEW c \in Calls, call[c].pc # "idle",
           NEW p \in {"raise", "confirm", "scale", "record", "report", "watch"},
           Goes(c, p)
    PROVE  call' \in [Calls -> {Idle} \cup Busy]
<1>1. call[c] \in Busy
  BY BusyCall
<1>2. [call[c] EXCEPT !.pc = p] \in Busy
  BY <1>1 DEF Busy
<1>3. call' = [call EXCEPT ![c] = [call[c] EXCEPT !.pc = p]]
  BY DEF Goes, TypeOK
<1> QED
  BY <1>2, <1>3, OneCall

LEMMA EndedCall ==
    ASSUME TypeOK, NEW c \in Calls, Ends(c)
    PROVE  call' \in [Calls -> {Idle} \cup Busy]
BY OneCall DEF Ends

\* What a request asks for, and what the raising tool notes, is a number.
LEMMA GoalIsNat ==
    ASSUME TypeOK, NEW c \in Calls, call[c].pc # "idle"
    PROVE  Goal(c) \in Nat
BY BusyCall DEF Busy, Goal

LEMMA OriginalIsNat ==
    ASSUME TypeOK
    PROVE  Original \in Nat
BY DEF TypeOK, Original, NoNote

LEMMA TypeInit == Init => TypeOK
<1> SUFFICES ASSUME Init PROVE TypeOK
  OBVIOUS
<1>1. status \in [Approvals -> Statuses] /\ approved \subseteq Approvals
  BY DEF Init, Statuses
<1>2. /\ hpaMax \in Nat /\ configured \in Nat
      /\ scaledTo \in [approval : Approvals \cup {NoApproval}, size : Nat, own : BOOLEAN]
  BY CallsAssumption DEF Init, NoScaling
<1>3. requests \in 0..MaxRequests /\ faults \in 0..MaxFaults
  BY FaultsAssumption DEF Init
<1>4. call \in [Calls -> {Idle} \cup Busy]
  BY DEF Init
<1> QED
  BY <1>1, <1>2, <1>3, <1>4 DEF Init, TypeOK, Busy

LEMMA TypeStep == TypeOK /\ [Next]_vars => TypeOK'
<1> SUFFICES ASSUME TypeOK, [Next]_vars PROVE TypeOK'
  OBVIOUS
<1> USE CallsAssumption, TimeAssumption, FaultsAssumption
<1>1. ASSUME NEW a \in Approvals, Approve(a) PROVE TypeOK'
  BY <1>1 DEF TypeOK, Approve, Statuses
<1>2. ASSUME NEW a \in Approvals, Deny(a) PROVE TypeOK'
  BY <1>2 DEF TypeOK, Deny, Statuses
<1>3. ASSUME NEW a \in Approvals, NEW c \in Calls, StartExecute(c, a) PROVE TypeOK'
  <2>1. 0 \in 0..Tries-1 /\ 0 \in 0..MonitorTime
    OBVIOUS
  <2>4. PICK r \in Requests(a) : call' = [call EXCEPT ![c] = Started(a, r)]
    BY <1>3 DEF StartExecute
  <2>5. r.size \in Nat /\ r.own \in BOOLEAN
    BY DEF Requests
  <2>6. Started(a, r) \in Busy
    BY <2>1, <2>5 DEF Started, Idle, Busy
  <2>2. call' \in [Calls -> {Idle} \cup Busy]
    BY <2>4, <2>6, OneCall
  <2>3. requests' \in 0..MaxRequests
    BY <1>3 DEF StartExecute, TypeOK
  <2> QED
    BY <1>3, <2>2, <2>3 DEF TypeOK, StartExecute, Busy
<1>4. ASSUME NEW c \in Calls, RaiseMax(c) PROVE TypeOK'
  <2>1. call' \in [Calls -> {Idle} \cup Busy]
    BY <1>4, MovedCall DEF RaiseMax, At
  <2>2. hpaMax' \in Nat /\ note' \in [orig : Nat, left : 0..Duration]
    BY <1>4, GoalIsNat, OriginalIsNat DEF RaiseMax, At
  <2> QED
    BY <1>4, <2>1, <2>2 DEF TypeOK, RaiseMax, Busy
<1>5. ASSUME NEW c \in Calls, RaiseRejected(c) PROVE TypeOK'
  <2>1. call' \in [Calls -> {Idle} \cup Busy]
    BY <1>5, MovedCall DEF RaiseRejected, At
  <2>2. hpaMax' \in Nat
    BY <1>5, OriginalIsNat DEF RaiseRejected, TypeOK
  <2>3. faults' \in 0..MaxFaults /\ disturbed' \in BOOLEAN
    BY <1>5, FaultCounted DEF RaiseRejected
  <2> QED
    BY <1>5, <2>1, <2>2, <2>3 DEF TypeOK, RaiseRejected, Busy
<1>6. ASSUME NEW c \in Calls, RaiseUnnoted(c) PROVE TypeOK'
  <2>1. call' \in [Calls -> {Idle} \cup Busy]
    BY <1>6, MovedCall DEF RaiseUnnoted, At
  <2>2. hpaMax' \in Nat
    BY <1>6, GoalIsNat DEF RaiseUnnoted, At
  <2>3. faults' \in 0..MaxFaults /\ disturbed' \in BOOLEAN
    BY <1>6, FaultCounted DEF RaiseUnnoted
  <2> QED
    BY <1>6, <2>1, <2>2, <2>3 DEF TypeOK, RaiseUnnoted, Busy
<1>23. ASSUME NEW c \in Calls, RaiseUnanswered(c) PROVE TypeOK'
  <2>1. call' \in [Calls -> {Idle} \cup Busy]
    BY <1>23, EndedCall DEF RaiseUnanswered
  <2>2. hpaMax' \in Nat
    BY <1>23, GoalIsNat DEF RaiseUnanswered, At, TypeOK
  <2>3. note' = note \/ note' \in [orig : Nat, left : 0..Duration]
    BY <1>23, OriginalIsNat DEF RaiseUnanswered
  <2>4. faults' \in 0..MaxFaults /\ disturbed' \in BOOLEAN
    BY <1>23, FaultCounted DEF RaiseUnanswered
  <2> QED
    BY <1>23, <2>1, <2>2, <2>3, <2>4 DEF TypeOK, RaiseUnanswered, Busy
<1>7. ASSUME NEW c \in Calls, Confirm(c) PROVE TypeOK'
  <2>1. call' \in [Calls -> {Idle} \cup Busy]
    BY <1>7, MovedCall DEF Confirm, At
  <2> QED
    BY <1>7, <2>1 DEF TypeOK, Confirm, Busy
<1>8. ASSUME NEW c \in Calls, At(c, "confirm"), call[c].misses + 1 < Tries,
             call' = [call EXCEPT ![c].misses = @ + 1]
      PROVE  call' \in [Calls -> {Idle} \cup Busy]
  <2>1. call[c] \in Busy
    BY <1>8, BusyCall DEF At
  <2>2. [call[c] EXCEPT !.misses = @ + 1] \in Busy
    BY <1>8, <2>1 DEF Busy
  <2> QED
    BY <1>8, <2>2, OneCall DEF TypeOK
<1>9. ASSUME NEW c \in Calls, Miss(c) PROVE TypeOK'
  <2>1. call' \in [Calls -> {Idle} \cup Busy]
    BY <1>8, <1>9, EndedCall DEF Miss
  <2> QED
    BY <1>9, <2>1 DEF TypeOK, Miss, Busy
<1>10. ASSUME NEW c \in Calls, ConfirmFails(c) PROVE TypeOK'
  <2>1. call' \in [Calls -> {Idle} \cup Busy]
    BY <1>8, <1>10, EndedCall DEF ConfirmFails
  <2>2. faults' \in 0..MaxFaults /\ disturbed' \in BOOLEAN
    BY <1>10, FaultCounted DEF ConfirmFails
  <2> QED
    BY <1>10, <2>1, <2>2 DEF TypeOK, ConfirmFails, Busy
<1>11. ASSUME NEW c \in Calls, Scale(c) PROVE TypeOK'
  <2>1. call' \in [Calls -> {Idle} \cup Busy]
    BY <1>11, MovedCall DEF Scale, At
  <2>2. scaledTo' \in [approval : Approvals \cup {NoApproval}, size : Nat, own : BOOLEAN]
    <3>1. call[c] \in Busy
      BY <1>11, BusyCall DEF Scale, At
    <3> QED
      BY <1>11, <3>1 DEF Scale, Goal, Busy
  <2> QED
    BY <1>11, <2>1, <2>2 DEF TypeOK, Scale, Busy
<1>12. ASSUME NEW c \in Calls, ScaleRejected(c) \/ DatabaseFails(c) PROVE TypeOK'
  <2>1. call' \in [Calls -> {Idle} \cup Busy]
    BY <1>12, EndedCall DEF ScaleRejected, DatabaseFails
  <2>2. faults' \in 0..MaxFaults /\ disturbed' \in BOOLEAN
    BY <1>12, FaultCounted DEF ScaleRejected, DatabaseFails
  <2> QED
    BY <1>12, <2>1, <2>2 DEF TypeOK, ScaleRejected, DatabaseFails, Busy
<1>13. ASSUME NEW c \in Calls, Record(c) PROVE TypeOK'
  <2>1. call' \in [Calls -> {Idle} \cup Busy]
    BY <1>13, MovedCall DEF Record, At
  <2>2. status' \in [Approvals -> Statuses]
    BY <1>13 DEF Record, TypeOK, Statuses
  <2> QED
    BY <1>13, <2>1, <2>2 DEF TypeOK, Record, Busy
<1>14. ASSUME NEW c \in Calls, StartMonitor(c) PROVE TypeOK'
  <2>1. call[c] \in Busy
    BY <1>14, BusyCall DEF StartMonitor, At
  <2>2. Monitor(call[c].approval) \in Busy
    <3>1. 0 \in 0..Tries-1 /\ MonitorTime \in 0..MonitorTime
      OBVIOUS
    <3> QED
      BY <2>1, <3>1 DEF Monitor, Idle, Busy
  <2>3. call' = [call EXCEPT ![c] = Monitor(call[c].approval)]
    BY <1>14 DEF StartMonitor, TypeOK
  <2>4. call' \in [Calls -> {Idle} \cup Busy]
    BY <2>2, <2>3, OneCall
  <2> QED
    BY <1>14, <2>4 DEF TypeOK, StartMonitor, Busy
<1>15. ASSUME NEW c \in Calls, CheckKeeps(c) PROVE TypeOK'
  <2>1. call[c] \in Busy
    BY <1>15, BusyCall DEF CheckKeeps, At
  <2>2. [call[c] EXCEPT !.checked = TRUE] \in Busy
    BY <2>1 DEF Busy
  <2>3. call' = [call EXCEPT ![c] = [call[c] EXCEPT !.checked = TRUE]]
    BY <1>15 DEF CheckKeeps, TypeOK
  <2>4. call' \in [Calls -> {Idle} \cup Busy]
    BY <2>2, <2>3, OneCall
  <2> QED
    BY <1>15, <2>4 DEF TypeOK, CheckKeeps, Busy
<1>16. ASSUME NEW c \in Calls, CheckReverts(c) PROVE TypeOK'
  <2>1. call' \in [Calls -> {Idle} \cup Busy]
    BY <1>16, EndedCall DEF CheckReverts
  <2>2. hpaMax' \in Nat
    BY <1>16 DEF CheckReverts, TypeOK
  <2> QED
    BY <1>16, <2>1, <2>2 DEF TypeOK, CheckReverts, Busy
<1>17. ASSUME NEW c \in Calls, CheckFails(c) PROVE TypeOK'
  <2>1. hpaMax' \in Nat
    BY <1>17 DEF CheckFails, TypeOK
  <2>2. faults' \in 0..MaxFaults /\ disturbed' \in BOOLEAN
    BY <1>17, FaultCounted DEF CheckFails
  <2> QED
    BY <1>17, <2>1, <2>2 DEF TypeOK, CheckFails
<1>18. ASSUME NEW c \in Calls, MonitorEnds(c) PROVE TypeOK'
  <2>1. call' \in [Calls -> {Idle} \cup Busy]
    BY <1>18, EndedCall DEF MonitorEnds
  <2> QED
    BY <1>18, <2>1 DEF TypeOK, MonitorEnds, Busy
<1>19. CASE SetMax
  BY <1>19 DEF TypeOK, SetMax
<1>20. CASE Tick
  <2>1. ASSUME NEW c \in Calls, At(c, "watch")
        PROVE  [call[c] EXCEPT !.left = OneLess(@), !.checked = FALSE] \in Busy
    <3>1. call[c] \in Busy
      BY <2>1, BusyCall DEF At
    <3>2. OneLess(call[c].left) \in 0..MonitorTime
      BY <3>1 DEF Busy, OneLess
    <3> QED
      BY <3>1, <3>2 DEF Busy
  <2>2. call' \in [Calls -> {Idle} \cup Busy]
    BY <1>20, <2>1 DEF Tick, TypeOK, Busy
  <2>3. note' = NoNote \/ note' \in [orig : Nat, left : 0..Duration]
    <3>1. CASE note = NoNote
      <4>1. note' = [NoNote EXCEPT !.left = OneLess(@)]
        BY <1>20, <3>1 DEF Tick
      <4>2. OneLess(0) = 0
        BY DEF OneLess
      <4> QED
        BY <4>1, <4>2 DEF NoNote
    <3>2. CASE note \in [orig : Nat, left : 0..Duration]
      <4>1. OneLess(note.left) \in 0..Duration
        BY <3>2 DEF OneLess
      <4> QED
        BY <1>20, <3>2, <4>1 DEF Tick
    <3> QED
      BY <3>1, <3>2 DEF TypeOK
  <2> QED
    BY <1>20, <2>2, <2>3 DEF TypeOK, Tick, Busy
<1>21. CASE Crash
  <2>1. hpaMax' \in Nat
    BY <1>21, GoalIsNat DEF Crash, At, TypeOK
  <2>2. faults' \in 0..MaxFaults /\ disturbed' \in BOOLEAN
    BY <1>21, FaultCounted DEF Crash
  <2> QED
    BY <1>21, <2>1, <2>2 DEF TypeOK, Crash
<1>22. CASE UNCHANGED vars
  BY <1>22 DEF TypeOK, vars
<1> QED
  BY <1>1, <1>2, <1>3, <1>4, <1>5, <1>6, <1>7, <1>9, <1>10, <1>11, <1>12, <1>13, <1>14,
     <1>15, <1>16, <1>17, <1>18, <1>19, <1>20, <1>21, <1>22,
     <1>23 DEF Next, Step

\* The endpoints, the tools and the monitors keep the state within its types.
THEOREM TypeCorrect == Spec => []TypeOK
<1>1. Init => TypeOK
  BY TypeInit
<1>2. TypeOK /\ [Next]_vars => TypeOK'
  BY TypeStep
<1> QED
  BY <1>1, <1>2, PTL DEF Spec

(***************************************************************************)
(* What is scaled was approved                                              *)
(***************************************************************************)
\* The size is the one that the request named or that its approval suggests.
SizeIsFound(c) == [size |-> call[c].size, own |-> call[c].own] \in Requests(call[c].approval)

\* Every request in progress passed the status check and keeps the size it
\* started with.
ApprovedInv ==
    /\ \A a \in Approvals : status[a] = "APPROVED" => a \in approved
    /\ \A c \in Calls : call[c].pc # "idle" => call[c].approval \in approved
    /\ \A c \in Calls : call[c].pc \notin {"idle", "watch"} => SizeIsFound(c)
    /\ OnlyApprovedIsScaled

\* The request of a call that goes on is the same, its size of interest until
\* its monitor starts.
KeptCall(d) ==
    /\ call[d].pc # "idle" /\ call'[d].approval = call[d].approval
    /\ \/ call'[d].pc = "watch"
       \/ /\ call[d].pc # "watch"
          /\ call'[d].size = call[d].size /\ call'[d].own = call[d].own

\* Only StartExecute gives a call an approval and a size.
LEMMA CallKeepsRequest ==
    ASSUME TypeOK, [Next]_vars,
           \A a \in Approvals, c \in Calls : ~StartExecute(c, a),
           NEW d \in Calls, call'[d].pc # "idle"
    PROVE  KeptCall(d)
<1>1. ASSUME NEW a \in Approvals, Approve(a) \/ Deny(a) PROVE call' = call
  BY <1>1 DEF Approve, Deny
<1>2. ASSUME NEW c \in Calls, NEW p, Goes(c, p), call[c].pc \notin {"idle", "watch"}
      PROVE  KeptCall(d)
  <2>1. call[d].pc # "idle"
    BY <1>2 DEF Goes, TypeOK
  <2>2. CASE d = c
    <3>1. call[c] \in Busy
      BY <1>2, BusyCall
    <3>2. call'[d] = [call[c] EXCEPT !.pc = p]
      BY <1>2, <2>2 DEF Goes, TypeOK
    <3>3. /\ call'[d].approval = call[d].approval
          /\ call'[d].size = call[d].size /\ call'[d].own = call[d].own
      BY <2>2, <3>1, <3>2 DEF Busy
    <3> QED
      BY <1>2, <2>1, <2>2, <3>3 DEF KeptCall
  <2>3. CASE d # c
    BY <1>2, <2>1, <2>3 DEF Goes, TypeOK, KeptCall
  <2> QED
    BY <2>2, <2>3
<1>3. ASSUME NEW c \in Calls, Ends(c)
      PROVE  KeptCall(d)
  <2>1. d # c
    BY <1>3 DEF Ends, TypeOK, Idle
  <2> QED
    BY <1>3, <2>1 DEF Ends, TypeOK, KeptCall
<1>4. ASSUME NEW c \in Calls, NEW r \in Busy, call[c] \in Busy,
             call' = [call EXCEPT ![c] = r], r.approval = call[c].approval,
             \/ r.pc = "watch"
             \/ r.pc = call[c].pc /\ r.size = call[c].size /\ r.own = call[c].own
      PROVE  KeptCall(d)
  <2>1. CASE d = c
    BY <1>4, <2>1 DEF Busy, TypeOK, KeptCall
  <2>2. CASE d # c
    BY <1>4, <2>2 DEF TypeOK, KeptCall
  <2> QED
    BY <2>1, <2>2
<1>5. ASSUME NEW c \in Calls, RaiseMax(c) \/ RaiseRejected(c) \/ RaiseUnnoted(c) \/ Confirm(c)
                              \/ Scale(c) \/ Record(c)
      PROVE  KeptCall(d)
  BY <1>2, <1>5 DEF RaiseMax, RaiseRejected, RaiseUnnoted, Confirm, Scale, Record, At
<1>6. ASSUME NEW c \in Calls, ScaleRejected(c) \/ DatabaseFails(c) \/ CheckReverts(c) \/ MonitorEnds(c)
                              \/ RaiseUnanswered(c)
      PROVE  KeptCall(d)
  BY <1>3, <1>6 DEF ScaleRejected, DatabaseFails, CheckReverts, MonitorEnds, RaiseUnanswered
<1>7. ASSUME NEW c \in Calls, At(c, "confirm"), call[c].misses + 1 < Tries,
             call' = [call EXCEPT ![c].misses = @ + 1]
      PROVE  KeptCall(d)
  <2>1. call[c] \in Busy
    BY <1>7, BusyCall DEF At
  <2>2. [call[c] EXCEPT !.misses = @ + 1] \in Busy
    BY <1>7, <2>1, TimeAssumption DEF Busy
  <2>3. call' = [call EXCEPT ![c] = [call[c] EXCEPT !.misses = @ + 1]]
    BY <1>7 DEF TypeOK
  <2>4. \A f \in {"approval", "pc", "size", "own"} :
            [call[c] EXCEPT !.misses = @ + 1][f] = call[c][f]
    BY <2>1 DEF Busy
  <2> QED
    BY <1>4, <2>1, <2>2, <2>3, <2>4
<1>8. ASSUME NEW c \in Calls, Miss(c) \/ ConfirmFails(c)
      PROVE  KeptCall(d)
  BY <1>3, <1>7, <1>8 DEF Miss, ConfirmFails
<1>9. ASSUME NEW c \in Calls, StartMonitor(c) \/ CheckKeeps(c)
      PROVE  KeptCall(d)
  <2>1. call[c] \in Busy
    BY <1>9, BusyCall DEF StartMonitor, CheckKeeps, At
  <2>2. CASE d # c
    BY <1>9, <2>2 DEF StartMonitor, CheckKeeps, TypeOK, KeptCall
  <2>3. CASE d = c
    <3>1. call[d].pc # "idle"
      BY <1>9, <2>3 DEF StartMonitor, CheckKeeps, At
    <3>2. ASSUME StartMonitor(c)
          PROVE  call'[d].pc = "watch" /\ call'[d].approval = call[d].approval
      BY <2>1, <2>3, <3>2 DEF StartMonitor, Monitor, Idle, TypeOK, Busy
    <3>3. ASSUME CheckKeeps(c)
          PROVE  call'[d].pc = "watch" /\ call'[d].approval = call[d].approval
      BY <2>1, <2>3, <3>3 DEF CheckKeeps, At, TypeOK, Busy
    <3> QED
      BY <1>9, <3>1, <3>2, <3>3 DEF KeptCall
  <2> QED
    BY <2>2, <2>3
<1>10. ASSUME NEW c \in Calls, CheckFails(c) PROVE call' = call
  BY <1>10 DEF CheckFails
<1>11. ASSUME SetMax PROVE call' = call
  BY <1>11 DEF SetMax
<1>12. CASE Tick
  <2>1. CASE At(d, "watch")
    <3>1. call[d] \in Busy
      BY <2>1, BusyCall DEF At
    <3> QED
      BY <1>12, <2>1, <3>1 DEF Tick, At, Busy, KeptCall
  <2>2. CASE ~At(d, "watch")
    BY <1>12, <2>2 DEF Tick, At, KeptCall
  <2> QED
    BY <2>1, <2>2
<1>13. CASE Crash
  BY <1>13 DEF Crash, Idle
<1>14. CASE UNCHANGED vars
  BY <1>14 DEF vars, KeptCall
<1>15. CASE call' = call
  BY <1>15 DEF KeptCall
<1> QED
  BY <1>1, <1>5, <1>6, <1>8, <1>9, <1>10, <1>11, <1>12, <1>13, <1>14, <1>15 DEF Next, Step

LEMMA ApprovedInit == Init => ApprovedInv
BY DEF Init, ApprovedInv, OnlyApprovedIsScaled, Idle

LEMMA ApprovedStep == TypeOK /\ ApprovedInv /\ [Next]_vars => ApprovedInv'
<1> SUFFICES ASSUME TypeOK, ApprovedInv, [Next]_vars PROVE ApprovedInv'
  OBVIOUS
<1>1. approved \subseteq approved'
  BY DEF Next, Step, vars, Approve, Deny, StartExecute, RaiseMax, RaiseRejected, RaiseUnnoted, RaiseUnanswered,
         Confirm, Miss, ConfirmFails, Scale, ScaleRejected, Record, StartMonitor, DatabaseFails,
         CheckKeeps, CheckReverts, CheckFails, MonitorEnds, SetMax, Tick, Crash
<1>2. \A a \in Approvals : status'[a] = "APPROVED" => a \in approved'
  <2> SUFFICES ASSUME NEW a \in Approvals, status'[a] = "APPROVED" PROVE a \in approved'
    OBVIOUS
  <2>1. ASSUME NEW b \in Approvals, Approve(b) PROVE a \in approved'
    BY <2>1 DEF Approve, TypeOK, ApprovedInv
  <2>2. ASSUME NEW b \in Approvals, Deny(b) PROVE status[a] = "APPROVED"
    BY <2>2 DEF Deny, TypeOK
  <2>3. ASSUME NEW c \in Calls, Record(c) PROVE status[a] = "APPROVED"
    <3>1. call[c].approval \in Approvals
      BY <2>3, BusyCall DEF Record, At, Busy
    <3> QED
      BY <2>3, <3>1 DEF Record, TypeOK
  <2>4. CASE UNCHANGED status
    BY <1>1, <2>4 DEF ApprovedInv
  <2>5. \/ \E b \in Approvals : Approve(b) \/ Deny(b)
        \/ \E c \in Calls : Record(c)
        \/ UNCHANGED status
    BY DEF Next, Step, vars, StartExecute, RaiseMax, RaiseRejected, RaiseUnnoted, RaiseUnanswered,
           Confirm, Miss, ConfirmFails, Scale, ScaleRejected, StartMonitor, DatabaseFails,
           CheckKeeps, CheckReverts, CheckFails, MonitorEnds, SetMax, Tick, Crash
  <2> QED
    BY <1>1, <2>1, <2>2, <2>3, <2>4, <2>5 DEF ApprovedInv
<1>3. ASSUME NEW d \in Calls, call'[d].pc # "idle"
      PROVE  /\ call'[d].approval \in approved'
             /\ call'[d].pc # "watch" => SizeIsFound(d)'
  <2>1. ASSUME NEW a \in Approvals, NEW c \in Calls, StartExecute(c, a)
        PROVE  call'[d].approval \in approved' /\ (call'[d].pc # "watch" => SizeIsFound(d)')
    <3>1. a \in approved
      BY <2>1 DEF StartExecute, ApprovedInv
    <3>2. PICK r \in Requests(a) : call' = [call EXCEPT ![c] = Started(a, r)]
      BY <2>1 DEF StartExecute
    <3>3. CASE d = c
      <4>1. call'[d].approval = a /\ call'[d].size = r.size /\ call'[d].own = r.own
        BY <3>2, <3>3 DEF Started, Idle, TypeOK
      <4>2. [size |-> r.size, own |-> r.own] \in Requests(a)
        BY DEF Requests
      <4> QED
        BY <1>1, <3>1, <4>1, <4>2 DEF SizeIsFound
    <3>4. CASE d # c
      BY <1>1, <1>3, <3>2, <3>4 DEF TypeOK, ApprovedInv, SizeIsFound
    <3> QED
      BY <3>3, <3>4
  <2>2. CASE \A a \in Approvals, c \in Calls : ~StartExecute(c, a)
    <3>1. KeptCall(d)
      BY <1>3, <2>2, CallKeepsRequest
    <3> QED
      BY <1>1, <3>1 DEF KeptCall, ApprovedInv, SizeIsFound
  <2> QED
    BY <2>1, <2>2
<1>4. OnlyApprovedIsScaled'
  <2>1. ASSUME NEW c \in Calls, Scale(c) PROVE OnlyApprovedIsScaled'
    <3>1. call[c].approval \in approved' /\ SizeIsFound(c)
      BY <1>1, <2>1 DEF Scale, At, ApprovedInv
    <3>2. /\ scaledTo'.approval = call[c].approval
          /\ scaledTo'.size = call[c].size /\ scaledTo'.own = call[c].own
      BY <2>1 DEF Scale, Goal
    <3> QED
      BY <3>1, <3>2 DEF OnlyApprovedIsScaled, SizeIsFound
  <2>2. CASE UNCHANGED scaledTo
    BY <1>1, <2>2 DEF OnlyApprovedIsScaled, ApprovedInv
  <2>3. (\E c \in Calls : Scale(c)) \/ UNCHANGED scaledTo
    BY DEF Next, Step, vars, Approve, Deny, StartExecute, RaiseMax, RaiseRejected, RaiseUnnoted, RaiseUnanswered,
           Confirm, Miss, ConfirmFails, ScaleRejected, Record, StartMonitor, DatabaseFails,
           CheckKeeps, CheckReverts, CheckFails, MonitorEnds, SetMax, Tick, Crash
  <2> QED
    BY <2>1, <2>2, <2>3
<1> QED
  BY <1>2, <1>3, <1>4 DEF ApprovedInv

\* /execute scales only for a request that was approved, and to the size that it
\* suggests or that the payload names in its place: the one look at the status is enough for
\* that, whatever decisions, crashes, failing requests and other requests for
\* the same autoscaler come after it (main_agent_guardian.py, execute_approval).
THEOREM OnlyApprovedScales == Spec => []OnlyApprovedIsScaled
<1>1. Init => TypeOK /\ ApprovedInv
  BY TypeInit, ApprovedInit
<1>2. TypeOK /\ ApprovedInv /\ [Next]_vars => TypeOK' /\ ApprovedInv'
  BY TypeStep, ApprovedStep
<1>3. ApprovedInv => OnlyApprovedIsScaled
  BY DEF ApprovedInv
<1> QED
  BY <1>1, <1>2, <1>3, PTL DEF Spec

(***************************************************************************)
(* No raise is left behind                                                  *)
(***************************************************************************)
\* The call answers for the raise: it confirms its own one, is on the way to
\* its monitor, or its monitor outlives the window.
Keeps(c) ==
    \/ At(c, "confirm") /\ hpaMax = Goal(c)
    \/ At(c, "scale") \/ At(c, "record") \/ At(c, "report")
    \/ At(c, "watch") /\ call[c].left > note.left

\* The annotations hold the configured maximum, somebody answers for every
\* raise, and a monitor that has had its answer in this tick saw the window
\* open.
KeeperInv ==
    /\ configured = InitialMax
    /\ note # NoNote => note.orig = InitialMax
    /\ note = NoNote => hpaMax = InitialMax
    /\ hpaMax # InitialMax => \E c \in Calls : Keeps(c)
    /\ \A c \in Calls : At(c, "watch") /\ call[c].checked => note = NoNote \/ note.left > 0

LEMMA KeeperInit == Init => KeeperInv
BY DEF Init, KeeperInv, NoNote, Idle, At

\* The step of a call that leaves the maximum and the annotations alone.
LEMMA KeeperMoves ==
    ASSUME TypeOK, KeeperInv, NEW c \in Calls,
           UNCHANGED <<hpaMax, note, configured>>,
           \A d \in Calls \ {c} : call'[d] = call[d],
           Keeps(c) => Keeps(c)',
           call'[c].pc = "watch" /\ call'[c].checked => note = NoNote \/ note.left > 0
    PROVE  KeeperInv'
<1>1. \A d \in Calls : Keeps(d) => Keeps(d)'
  BY DEF Keeps, At, Goal
<1> QED
  BY <1>1 DEF KeeperInv, At

\* A step to the configured maximum that moves no call, or ends one.
LEMMA KeeperReverts ==
    ASSUME TypeOK, KeeperInv, hpaMax' = InitialMax, UNCHANGED <<note, configured>>,
           \A d \in Calls : call'[d] = call[d] \/ call'[d].pc # "watch"
    PROVE  KeeperInv'
BY DEF KeeperInv, At

LEMMA OriginalIsInitial ==
    ASSUME TypeOK, KeeperInv
    PROVE  Original = InitialMax
BY DEF KeeperInv, Original

LEMMA DisturbedStays ==
    ASSUME TypeOK, [Next]_vars, disturbed
    PROVE  disturbed'
BY DEF Next, Step, vars, TypeOK, Approve, Deny, StartExecute, RaiseMax, RaiseRejected, RaiseUnnoted,
       RaiseUnanswered, Confirm, Miss, ConfirmFails, Scale, ScaleRejected, Record, StartMonitor,
       DatabaseFails, CheckKeeps, CheckReverts, CheckFails, MonitorEnds, SetMax, Tick, Crash, Fault

LEMMA KeeperStep ==
    ASSUME TypeOK, KeeperInv, ~disturbed', [Next]_vars
    PROVE  KeeperInv'
<1> USE TimeAssumption
<1>1. ASSUME NEW a \in Approvals, Approve(a) \/ Deny(a) PROVE KeeperInv'
  BY <1>1 DEF Approve, Deny, KeeperInv, Keeps, At, Goal
<1>2. ASSUME NEW a \in Approvals, NEW c \in Calls, StartExecute(c, a) PROVE KeeperInv'
  <2>1. ~Keeps(c)
    BY <1>2 DEF StartExecute, Keeps, At, Idle
  <2>2. call'[c].pc = "raise"
    BY <1>2 DEF StartExecute, Started, TypeOK
  <2>3. \A d \in Calls \ {c} : call'[d] = call[d]
    BY <1>2 DEF StartExecute, TypeOK
  <2> QED
    BY <1>2, <2>1, <2>2, <2>3, KeeperMoves DEF StartExecute
<1>3. ASSUME NEW c \in Calls, RaiseMax(c) PROVE KeeperInv'
  <2>1. note' = [orig |-> InitialMax, left |-> Duration]
    BY <1>3, OriginalIsInitial DEF RaiseMax
  <2>2. note' # NoNote /\ note'.orig = InitialMax /\ note'.left > 0
    BY <2>1, CallsAssumption DEF NoNote
  <2>3. Keeps(c)'
    <3>1. call[c] \in Busy
      BY <1>3, BusyCall DEF RaiseMax, At
    <3>2. call'[c] = [call[c] EXCEPT !.pc = "confirm"]
      BY <1>3 DEF RaiseMax, Goes, TypeOK
    <3>3. call'[c].pc = "confirm" /\ call'[c].size = call[c].size
      BY <3>1, <3>2 DEF Busy
    <3> QED
      BY <1>3, <3>3 DEF RaiseMax, Keeps, At, Goal
  <2>4. configured' = InitialMax
    BY <1>3 DEF RaiseMax, KeeperInv
  <2> QED
    BY <2>2, <2>3, <2>4 DEF KeeperInv
<1>4. ASSUME NEW c \in Calls, RaiseRejected(c) PROVE KeeperInv'
  <2>1. call'[c].pc = "confirm"
    BY <1>4, BusyCall DEF RaiseRejected, Goes, At, TypeOK, Busy
  <2>2. \A d \in Calls \ {c} : call'[d] = call[d]
    BY <1>4 DEF RaiseRejected, Goes, TypeOK
  <2>3. CASE hpaMax' = hpaMax
    <3>1. ~Keeps(c)
      BY <1>4 DEF RaiseRejected, Keeps, At
    <3> QED
      BY <1>4, <2>1, <2>2, <2>3, <3>1, KeeperMoves DEF RaiseRejected
  <2>4. CASE hpaMax' = Original
    BY <1>4, <2>1, <2>2, <2>4, OriginalIsInitial, KeeperReverts DEF RaiseRejected
  <2> QED
    BY <1>4, <2>3, <2>4 DEF RaiseRejected
<1>5. ASSUME NEW c \in Calls,
             RaiseUnnoted(c) \/ RaiseUnanswered(c) \/ ConfirmFails(c) \/ ScaleRejected(c) \/ DatabaseFails(c)
      PROVE  FALSE
  BY <1>5 DEF Repaired, RaiseUnnoted, RaiseUnanswered, ConfirmFails, ScaleRejected, DatabaseFails, Fault
<1>6. ASSUME NEW c \in Calls, Confirm(c) \/ Scale(c) \/ Record(c) PROVE KeeperInv'
  <2>1. \A d \in Calls \ {c} : call'[d] = call[d]
    BY <1>6 DEF Confirm, Scale, Record, Goes, TypeOK
  <2>2. call[c].pc # "idle"
    BY <1>6 DEF Confirm, Scale, Record, At
  <2>3. call[c] \in Busy
    BY <2>2, BusyCall
  <2>4. call'[c].pc \in {"scale", "record", "report"}
    BY <1>6, <2>3 DEF Confirm, Scale, Record, Goes, TypeOK, Busy
  <2>5. Keeps(c)'
    BY <2>4 DEF Keeps, At
  <2> QED
    BY <1>6, <2>1, <2>4, <2>5, KeeperMoves DEF Confirm, Scale, Record
<1>7. ASSUME NEW c \in Calls, Miss(c) PROVE KeeperInv'
  <2>1. ~Keeps(c)
    BY <1>7 DEF Miss, Keeps, At
  <2>2. \A d \in Calls \ {c} : call'[d] = call[d]
    BY <1>7 DEF Miss, Ends, TypeOK
  <2>3. call'[c].pc # "watch"
    <3>1. CASE call' = [call EXCEPT ![c].misses = @ + 1]
      <4>1. call[c] \in Busy /\ call[c].pc = "confirm"
        BY <1>7, BusyCall DEF Miss, At
      <4>2. call'[c] = [call[c] EXCEPT !.misses = @ + 1]
        BY <3>1 DEF TypeOK
      <4> QED
        BY <4>1, <4>2 DEF Busy
    <3>2. CASE Ends(c)
      BY <3>2 DEF Ends, Idle, TypeOK
    <3> QED
      BY <1>7, <3>1, <3>2 DEF Miss
  <2> QED
    BY <1>7, <2>1, <2>2, <2>3, KeeperMoves DEF Miss
<1>8. ASSUME NEW c \in Calls, StartMonitor(c) PROVE KeeperInv'
  <2>1. call[c] \in Busy
    BY <1>8, BusyCall DEF StartMonitor, At
  <2>2. \A d \in Calls \ {c} : call'[d] = call[d]
    BY <1>8 DEF StartMonitor, TypeOK
  <2>3. call'[c].pc = "watch" /\ call'[c].left = MonitorTime /\ ~call'[c].checked
    BY <1>8, <2>1 DEF StartMonitor, Monitor, Idle, TypeOK
  <2>4. note'.left = note.left /\ note.left \in 0..Duration
    BY <1>8 DEF StartMonitor, TypeOK, NoNote
  <2>5. Keeps(c)'
    BY <2>3, <2>4 DEF Keeps, At
  <2> QED
    BY <1>8, <2>2, <2>3, <2>5, KeeperMoves DEF StartMonitor
<1>9. ASSUME NEW c \in Calls, CheckKeeps(c) PROVE KeeperInv'
  <2>1. call[c] \in Busy
    BY <1>9, BusyCall DEF CheckKeeps, At
  <2>2. \A d \in Calls \ {c} : call'[d] = call[d]
    BY <1>9 DEF CheckKeeps, TypeOK
  <2>3. call'[c].pc = call[c].pc /\ call'[c].left = call[c].left /\ call'[c].size = call[c].size
    BY <1>9, <2>1 DEF CheckKeeps, TypeOK, Busy
  <2>4. Keeps(c) => Keeps(c)'
    BY <1>9, <2>3 DEF CheckKeeps, Keeps, At, Goal
  <2> QED
    BY <1>9, <2>2, <2>4, KeeperMoves DEF CheckKeeps
<1>10. ASSUME NEW c \in Calls, CheckReverts(c) PROVE KeeperInv'
  <2>1. hpaMax' = InitialMax
    BY <1>10 DEF CheckReverts, KeeperInv
  <2>2. \A d \in Calls : call'[d] = call[d] \/ call'[d].pc # "watch"
    BY <1>10 DEF CheckReverts, Ends, Idle, TypeOK
  <2> QED
    BY <1>10, <2>1, <2>2, KeeperReverts DEF CheckReverts
<1>11. ASSUME NEW c \in Calls, CheckFails(c) PROVE KeeperInv'
  <2>1. CASE UNCHANGED hpaMax
    BY <1>11, <2>1 DEF CheckFails, KeeperInv, Keeps, At, Goal
  <2>2. CASE note # NoNote /\ hpaMax' = note.orig
    BY <1>11, <2>2, KeeperReverts DEF CheckFails, KeeperInv
  <2> QED
    BY <1>11, <2>1, <2>2 DEF CheckFails
<1>12. ASSUME NEW c \in Calls, MonitorEnds(c) PROVE KeeperInv'
  <2>1. note.left \in Nat
    BY DEF TypeOK, NoNote
  <2>2. ~Keeps(c)
    BY <1>12, <2>1 DEF MonitorEnds, Keeps, At
  <2>3. \A d \in Calls \ {c} : call'[d] = call[d]
    BY <1>12 DEF MonitorEnds, Ends, TypeOK
  <2>4. call'[c].pc # "watch"
    BY <1>12 DEF MonitorEnds, Ends, Idle, TypeOK
  <2> QED
    BY <1>12, <2>2, <2>3, <2>4, KeeperMoves DEF MonitorEnds
<1>13. ~SetMax
  BY DEF SetMax
<1>14. CASE Tick
  <2>1. note.left \in Nat
    BY DEF TypeOK, NoNote
  <2>2. note' = [note EXCEPT !.left = OneLess(@)]
    BY <1>14 DEF Tick
  <2>3. note = NoNote => note' = NoNote
    BY <2>2 DEF NoNote, OneLess
  <2>4. note # NoNote => note' # NoNote /\ note'.orig = note.orig /\ note'.left = OneLess(note.left)
    BY <2>2 DEF TypeOK, NoNote
  <2>5. \A c \in Calls : At(c, "watch")' => ~call'[c].checked
    <3> SUFFICES ASSUME NEW c \in Calls, At(c, "watch")' PROVE ~call'[c].checked
      OBVIOUS
    <3>1. At(c, "watch")
      BY <1>14 DEF Tick, At
    <3>2. call[c] \in Busy
      BY <3>1, BusyCall DEF At
    <3> QED
      BY <1>14, <3>1, <3>2 DEF Tick, Busy
  <2>6. ASSUME hpaMax # InitialMax PROVE \E c \in Calls : Keeps(c)'
    <3>1. PICK c \in Calls : Keeps(c)
      BY <2>6 DEF KeeperInv
    <3>2. note # NoNote
      BY <2>6 DEF KeeperInv
    <3>3. CASE At(c, "watch")
      <4>1. call[c] \in Busy
        BY <3>3, BusyCall DEF At
      <4>2. call[c].checked
        BY <1>14, <3>3 DEF Tick, Watching
      <4>3. note.left > 0
        BY <3>2, <3>3, <4>2 DEF KeeperInv
      <4>4. call[c].left > note.left /\ call[c].left \in Nat
        BY <3>1, <3>3, <4>1 DEF Keeps, At, Busy
      <4>5. call'[c].pc = "watch" /\ call'[c].left = OneLess(call[c].left)
        BY <1>14, <3>3, <4>1 DEF Tick, At, Busy
      <4>6. OneLess(call[c].left) > OneLess(note.left)
        BY <2>1, <4>3, <4>4 DEF OneLess
      <4> QED
        BY <2>4, <3>2, <4>5, <4>6 DEF Keeps, At
    <3>4. CASE ~At(c, "watch")
      <4>1. call'[c] = call[c]
        BY <1>14, <3>4 DEF Tick
      <4> QED
        BY <1>14, <3>1, <3>4, <4>1 DEF Tick, Keeps, At, Goal
    <3> QED
      BY <3>3, <3>4
  <2>7. hpaMax' = hpaMax /\ configured' = configured
    BY <1>14 DEF Tick
  <2> QED
    BY <2>3, <2>4, <2>5, <2>6, <2>7 DEF KeeperInv
<1>15. ~Crash
  BY DEF Crash, Fault, Repaired
<1>16. CASE UNCHANGED vars
  BY <1>16 DEF vars, KeeperInv, Keeps, At, Goal
<1> QED
  BY <1>1, <1>2, <1>3, <1>4, <1>5, <1>6, <1>7, <1>8, <1>9, <1>10, <1>11, <1>12, <1>13, <1>14,
     <1>15, <1>16 DEF Next, Step

\* However many requests raise, give up, confirm and revert over each other,
\* and whatever requests of the two temporary tools are rejected: when all is
\* done, the autoscaler has its configured maximum back.
THEOREM RaisesAreRestored == Spec => []QuietIsRestored
<1>1. Init => TypeOK /\ (~disturbed => KeeperInv)
  BY TypeInit, KeeperInit
<1>2. TypeOK /\ (~disturbed => KeeperInv) /\ [Next]_vars => TypeOK' /\ (~disturbed => KeeperInv)'
  BY TypeStep, KeeperStep, DisturbedStays
<1>3. (~disturbed => KeeperInv) => QuietIsRestored
  BY DEF KeeperInv, QuietIsRestored, Keeps, At, Idle
<1> QED
  BY <1>1, <1>2, <1>3, PTL DEF Spec
=============================================================================
