-------------------------- MODULE AlertIntake_proofs --------------------------
(***************************************************************************)
(* What the cooldown table and the locks guarantee for any number of tasks, *)
(* alerts and deployments.  A run holds its deployment's lock; two runs of  *)
(* an incident would be two of one deployment, so that the count a run has  *)
(* read stays current until it saves its report.                            *)
(***************************************************************************)
EXTENDS AlertIntake, TLAPS

\* Every run holds the lock of its deployment, and no two runs share one.
LocksAreHeld ==
    /\ \A t \in Tasks : InRun(t) => Target(t) \in inflight
    /\ OneRunPerDeployment

\* The count a run has read is the stored one.
CountsAreCurrent ==
    /\ OccurrencesAreCounted
    /\ \A t \in Tasks : pc[t] = "reporting" => fetched[t] = occurrences[Incident(t)]

\* The table holds the latest start of every alert, or that is long ago.
TableIsTrue ==
    \A a \in Alerts :
        \/ recent[a] # Never /\ recent[a] = lastRun[a]
        \/ recent[a] = Never /\ lastRun[a] \in {Never, Forgotten}

-----------------------------------------------------------------------------
LEMMA AgeFacts ==
    /\ Forgotten \in Nat /\ Forgotten >= Window /\ 0 \in Ages
    /\ Never \notin Ages /\ Forgotten \in Ages
    /\ \A age \in Ages \cup {Never} : Older(age) \in Ages \cup {Never}
  BY BoundsAssumption DEF Forgotten, Ages, Never, Older

LEMMA PrunedType ==
    ASSUME TypeOK
    PROVE  Pruned \in [Alerts -> Ages \cup {Never}]
  BY DEF TypeOK, Pruned

LEMMA TailType ==
    ASSUME NEW s \in Seq(Alerts), s # <<>>
    PROVE  Tail(s) \in Seq(Alerts) /\ Head(s) \in Alerts
  OBVIOUS

\* What a task in a run is about is an alert, a deployment, an incident.
LEMMA CurrentType ==
    ASSUME TypeOK, NEW t \in Tasks, queue[t] # <<>>
    PROVE  /\ Current(t) \in Alerts
           /\ Target(t) \in Deployments
           /\ Incident(t) \in Incidents
           /\ Tail(queue[t]) \in Seq(Alerts)
  <1>1. queue[t] \in Seq(Alerts)
    BY DEF TypeOK
  <1>2. Current(t) \in Alerts /\ Tail(queue[t]) \in Seq(Alerts)
    BY <1>1, TailType DEF Current
  <1> QED
    BY <1>2, AlertsAssumption DEF Target, Incident

LEMMA RunIsAboutAnAlert ==
    ASSUME TypeOK, NEW t \in Tasks, InRun(t)
    PROVE  queue[t] # <<>>
  BY DEF TypeOK, InRun

\* The types that a release of the lock touches.
LEMMA LeaveTypes ==
    ASSUME TypeOK, NEW t \in Tasks, InRun(t), Leave(t)
    PROVE  /\ queue' \in [Tasks -> Seq(Alerts)]
           /\ pc' \in [Tasks -> {"idle", "next", "running", "reporting", "finishing", "hung"}]
           /\ \A s \in Tasks : pc'[s] \notin {"idle", "next"} => queue'[s] # <<>>
           /\ inflight' \subseteq Deployments
           /\ recent' = recent /\ lastRun' = lastRun /\ fetched' = fetched
  <1>1. Tail(queue[t]) \in Seq(Alerts)
    BY CurrentType, RunIsAboutAnAlert
  <1> QED
    BY <1>1 DEF TypeOK, Leave

LEMMA StoredTypes ==
    ASSUME TypeOK, NEW t \in Tasks, InRun(t), Stored(t)
    PROVE  occurrences' \in [Incidents -> Nat] /\ reported' \in [Incidents -> Nat]
  <1>1. Incident(t) \in Incidents
    BY CurrentType, RunIsAboutAnAlert
  <1>2. fetched[t] + 1 \in Nat /\ reported[Incident(t)] + 1 \in Nat
    BY <1>1 DEF TypeOK
  <1> QED
    BY <1>2 DEF TypeOK, Stored

LEMMA TypeStep == TypeOK /\ [Next]_vars => TypeOK'
  <1> SUFFICES ASSUME TypeOK, [Next]_vars PROVE TypeOK'
    OBVIOUS
  <1>1. ASSUME NEW t \in Tasks, Webhook(t) PROVE TypeOK'
    BY <1>1, BatchesAssumption DEF TypeOK, Webhook, tables, reports
  <1>2. ASSUME NEW t \in Tasks, EndTask(t) PROVE TypeOK'
    BY <1>2 DEF TypeOK, EndTask, tables, reports, bounds
  <1>3. ASSUME NEW t \in Tasks, Ignore(t) PROVE TypeOK'
    <2>1. Tail(queue[t]) \in Seq(Alerts)
      BY <1>3, CurrentType DEF Ignore
    <2>2. recent' \in [Alerts -> Ages \cup {Never}]
      BY <1>3, PrunedType DEF Ignore
    <2>3. queue' = [queue EXCEPT ![t] = Tail(queue[t])] /\ pc' = pc /\ pc[t] = "next"
      BY <1>3 DEF Ignore
    <2> QED
      BY <1>3, <2>1, <2>2, <2>3 DEF TypeOK, Ignore, reports, bounds
  <1>4. ASSUME NEW t \in Tasks, StartRun(t) PROVE TypeOK'
    <2>1. Target(t) \in Deployments /\ Current(t) \in Alerts
      BY <1>4, CurrentType DEF StartRun
    <2>2. recent' \in [Alerts -> Ages \cup {Never}]
      BY <1>4, <2>1, PrunedType, AgeFacts DEF StartRun
    <2>3. lastRun' \in [Alerts -> Ages \cup {Never}]
      BY <1>4, <2>1, AgeFacts DEF StartRun, TypeOK
    <2> QED
      BY <1>4, <2>1, <2>2, <2>3 DEF TypeOK, StartRun, reports, bounds
  <1>5. ASSUME NEW t \in Tasks, FetchReport(t) PROVE TypeOK'
    <2>1. Incident(t) \in Incidents
      BY <1>5, CurrentType, RunIsAboutAnAlert DEF FetchReport, InRun
    <2> QED
      BY <1>5, <2>1 DEF TypeOK, FetchReport, tables, bounds
  <1>6. ASSUME NEW t \in Tasks, SaveReport(t) PROVE TypeOK'
    BY <1>6, StoredTypes DEF TypeOK, SaveReport, InRun, tables, bounds
  <1>7. ASSUME NEW t \in Tasks, EndRun(t) PROVE TypeOK'
    BY <1>7, LeaveTypes DEF TypeOK, EndRun, InRun, bounds
  <1>8. ASSUME NEW t \in Tasks, RunFails(t) PROVE TypeOK'
    <2>1. InRun(t) /\ Leave(t)
      BY <1>8 DEF RunFails, InRun
    <2> QED
      BY <1>8, <2>1, LeaveTypes DEF TypeOK, RunFails
  <1>9. ASSUME NEW t \in Tasks, SaveUnanswered(t) PROVE TypeOK'
    <2>1. InRun(t) /\ Leave(t) /\ Stored(t)
      BY <1>9 DEF SaveUnanswered, InRun
    <2> QED
      BY <1>9, <2>1, LeaveTypes, StoredTypes DEF TypeOK, SaveUnanswered
  <1>13. ASSUME NEW t \in Tasks, Hangs(t) PROVE TypeOK'
    <2>1. queue[t] # <<>>
      BY <1>13, RunIsAboutAnAlert DEF Hangs, InRun
    <2> QED
      BY <1>13, <2>1 DEF TypeOK, Hangs, tables, reports
  <1>10. CASE Crash
    BY <1>10 DEF TypeOK, Crash, reports
  <1>11. CASE Tick
    BY <1>11, AgeFacts DEF TypeOK, Tick, reports, bounds
  <1>12. CASE UNCHANGED vars
    BY <1>12 DEF TypeOK, vars, tables, reports, bounds
  <1> QED
    BY <1>1, <1>2, <1>3, <1>4, <1>5, <1>6, <1>7, <1>8, <1>9, <1>10, <1>11, <1>12, <1>13
    DEF Next, Work

\* The state of the intake keeps its types: a task is in a run only with an
\* alert at hand, and no age passes the one at which entries are pruned.
THEOREM TypeCorrect == Spec => []TypeOK
  <1>1. Init => TypeOK
    BY DEF Init, TypeOK
  <1> QED
    BY <1>1, TypeStep, PTL DEF Spec

-----------------------------------------------------------------------------
(* Locks *)

\* The alert of a task in a run is the same while it stays in the run.
LEMMA OthersStay ==
    ASSUME TypeOK, NEW t \in Tasks, NEW s \in Tasks, s # t,
           \/ queue' = queue
           \/ queue' = [queue EXCEPT ![t] = Tail(queue[t])]
           \/ \E batch \in Batches : queue' = [queue EXCEPT ![t] = batch]
    PROVE  Target(s)' = Target(s) /\ Incident(s)' = Incident(s) /\ Current(s)' = Current(s)
  <1>1. queue'[s] = queue[s]
    BY DEF TypeOK
  <1> QED
    BY <1>1 DEF Target, Incident, Current

\* A release leaves the locks of the other runs alone.
LEMMA LeaveKeepsLocks ==
    ASSUME TypeOK, LocksAreHeld, NEW t \in Tasks, InRun(t), Leave(t)
    PROVE  /\ LocksAreHeld'
           /\ ~InRun(t)'
           /\ \A s \in Tasks : InRun(s)' => s # t /\ InRun(s) /\ pc'[s] = pc[s]
                                            /\ Target(s)' = Target(s) /\ Incident(s)' = Incident(s)
  <1>1. queue' = [queue EXCEPT ![t] = Tail(queue[t])] /\ pc' = [pc EXCEPT ![t] = "next"]
    BY DEF Leave
  <1>2. ~InRun(t)'
    BY <1>1 DEF InRun, TypeOK
  <1>3. ASSUME NEW s \in Tasks, s # t
        PROVE  pc'[s] = pc[s] /\ Target(s)' = Target(s) /\ Incident(s)' = Incident(s)
    BY <1>1, <1>3, OthersStay DEF TypeOK
  <1>4. \A s \in Tasks : InRun(s)' => s # t /\ InRun(s) /\ pc'[s] = pc[s]
                                      /\ Target(s)' = Target(s) /\ Incident(s)' = Incident(s)
    BY <1>2, <1>3 DEF InRun
  <1>5. ASSUME NEW s \in Tasks, InRun(s)' PROVE Target(s)' \in inflight'
    <2>1. Target(s) \in inflight /\ Target(s) # Target(t)
      BY <1>4, <1>5 DEF LocksAreHeld, OneRunPerDeployment
    <2> QED
      BY <1>4, <1>5, <2>1 DEF Leave
  <1>6. OneRunPerDeployment'
    BY <1>4 DEF LocksAreHeld, OneRunPerDeployment
  <1> QED
    BY <1>2, <1>4, <1>5, <1>6 DEF LocksAreHeld

\* A step in which every run goes on with its alert and its lock.
LEMMA RunsGoOn ==
    ASSUME LocksAreHeld, inflight' = inflight,
           \A s \in Tasks : InRun(s)' => InRun(s) /\ Target(s)' = Target(s)
    PROVE  LocksAreHeld'
  BY DEF LocksAreHeld, OneRunPerDeployment

LEMMA LockStep == TypeOK /\ LocksAreHeld /\ [Next]_vars => LocksAreHeld'
  <1> SUFFICES ASSUME TypeOK, LocksAreHeld, [Next]_vars PROVE LocksAreHeld'
    OBVIOUS
  <1>1. ASSUME NEW t \in Tasks, Webhook(t) PROVE LocksAreHeld'
    <2>1. ~InRun(t)' /\ inflight' = inflight
      BY <1>1 DEF Webhook, InRun, TypeOK, tables
    <2>2. \A s \in Tasks : s # t => pc'[s] = pc[s] /\ Target(s)' = Target(s)
      BY <1>1, OthersStay DEF Webhook, TypeOK
    <2> QED
      BY <2>1, <2>2, RunsGoOn DEF InRun
  <1>2. ASSUME NEW t \in Tasks, EndTask(t) \/ FetchReport(t) \/ SaveReport(t) \/ Hangs(t)
        PROVE  LocksAreHeld'
    <2>1. /\ queue' = queue /\ inflight' = inflight
          /\ \A s \in Tasks : InRun(s)' => InRun(s)
      BY <1>2 DEF EndTask, FetchReport, SaveReport, Hangs, InRun, TypeOK, tables
    <2> QED
      BY <2>1, RunsGoOn DEF Target, Current
  <1>3. ASSUME NEW t \in Tasks, Ignore(t) PROVE LocksAreHeld'
    <2>1. ~InRun(t)' /\ inflight' = inflight /\ pc' = pc
      BY <1>3 DEF Ignore, InRun, TypeOK
    <2>2. \A s \in Tasks : s # t => Target(s)' = Target(s)
      BY <1>3, OthersStay DEF Ignore
    <2> QED
      BY <2>1, <2>2, RunsGoOn DEF InRun
  <1>4. ASSUME NEW t \in Tasks, StartRun(t) PROVE LocksAreHeld'
    <2>1. /\ queue' = queue
          /\ Target(t) \notin inflight /\ inflight' = inflight \cup {Target(t)}
      BY <1>4 DEF StartRun
    <2>2. \A s \in Tasks : Target(s)' = Target(s)
      BY <2>1 DEF Target, Current
    <2>3. \A s \in Tasks : InRun(s)' /\ s # t => InRun(s)
      BY <1>4 DEF StartRun, InRun, TypeOK
    <2>4. \A s \in Tasks : InRun(s)' => Target(s)' \in inflight'
      BY <2>1, <2>2, <2>3 DEF LocksAreHeld
    <2>5. \A s \in Tasks : InRun(s)' /\ s # t => Target(s)' # Target(t)'
      BY <2>1, <2>2, <2>3 DEF LocksAreHeld
    <2>6. OneRunPerDeployment'
      BY <2>2, <2>3, <2>5 DEF LocksAreHeld, OneRunPerDeployment
    <2> QED
      BY <2>4, <2>6 DEF LocksAreHeld
  <1>5. ASSUME NEW t \in Tasks, EndRun(t) \/ RunFails(t) \/ SaveUnanswered(t) PROVE LocksAreHeld'
    <2>1. InRun(t) /\ Leave(t)
      BY <1>5 DEF EndRun, RunFails, SaveUnanswered, InRun
    <2> QED
      BY <2>1, LeaveKeepsLocks
  <1>6. CASE Crash
    BY <1>6 DEF Crash, LocksAreHeld, OneRunPerDeployment, InRun
  <1>7. CASE Tick \/ UNCHANGED vars
    <2>1. queue' = queue /\ inflight' = inflight /\ pc' = pc
      BY <1>7 DEF Tick, vars, tables
    <2> QED
      BY <2>1, RunsGoOn DEF Target, Current, InRun
  <1> QED
    BY <1>1, <1>2, <1>3, <1>4, <1>5, <1>6, <1>7 DEF Next, Work

\* For any number of background tasks, at most one runs for a deployment,
\* through failing runs and crashes.
THEOREM RunsExclude == Spec => []OneRunPerDeployment
  <1>1. Init => LocksAreHeld
    BY DEF Init, LocksAreHeld, OneRunPerDeployment, InRun
  <1>2. LocksAreHeld => OneRunPerDeployment
    BY DEF LocksAreHeld
  <1> QED
    BY <1>1, <1>2, TypeCorrect, LockStep, PTL DEF Spec

-----------------------------------------------------------------------------
(* Counting *)

\* Runs of different deployments are about different incidents.
LEMMA OtherIncident ==
    ASSUME TypeOK, LocksAreHeld, NEW s \in Tasks, NEW t \in Tasks, s # t, InRun(s), InRun(t)
    PROVE  Incident(s) # Incident(t)
  <1>1. Current(s) \in Alerts /\ Current(t) \in Alerts
    BY CurrentType, RunIsAboutAnAlert
  <1>2. Target(s) # Target(t)
    BY DEF LocksAreHeld, OneRunPerDeployment
  <1> QED
    BY <1>1, <1>2, AlertsAssumption DEF Target, Incident

\* Storing a report of a run whose count is current keeps the counts.
LEMMA StoredCounts ==
    ASSUME TypeOK, LocksAreHeld, CountsAreCurrent, NEW t \in Tasks, pc[t] = "reporting", Stored(t)
    PROVE  /\ OccurrencesAreCounted'
           /\ \A s \in Tasks : s # t /\ pc[s] = "reporting" =>
                  occurrences'[Incident(s)] = occurrences[Incident(s)]
  <1>1. InRun(t) /\ Incident(t) \in Incidents
    BY CurrentType, RunIsAboutAnAlert DEF InRun
  <1>2. fetched[t] + 1 = reported[Incident(t)] + 1
    BY DEF CountsAreCurrent, OccurrencesAreCounted
  <1>3. OccurrencesAreCounted'
    BY <1>2 DEF Stored, CountsAreCurrent, OccurrencesAreCounted
  <1>4. \A s \in Tasks : s # t /\ pc[s] = "reporting" =>
            Incident(s) # Incident(t) /\ Incident(s) \in Incidents
    BY <1>1, OtherIncident, CurrentType, RunIsAboutAnAlert DEF InRun
  <1> QED
    BY <1>3, <1>4 DEF Stored, TypeOK

LEMMA CountStep == TypeOK /\ LocksAreHeld /\ CountsAreCurrent /\ [Next]_vars => CountsAreCurrent'
  <1> SUFFICES ASSUME TypeOK, LocksAreHeld, CountsAreCurrent, [Next]_vars
               PROVE  CountsAreCurrent'
    OBVIOUS
  <1>1. ASSUME UNCHANGED reports,
               \A s \in Tasks : pc'[s] = "reporting" => pc[s] = "reporting" /\ Incident(s)' = Incident(s)
        PROVE  CountsAreCurrent'
    BY <1>1 DEF CountsAreCurrent, OccurrencesAreCounted, reports
  <1>2. ASSUME NEW t \in Tasks, Webhook(t) PROVE CountsAreCurrent'
    <2>1. \A s \in Tasks : s # t => pc'[s] = pc[s] /\ Incident(s)' = Incident(s)
      BY <1>2, OthersStay DEF Webhook, TypeOK
    <2> QED
      BY <1>1, <1>2, <2>1 DEF Webhook, TypeOK
  <1>3. ASSUME NEW t \in Tasks, EndTask(t) \/ StartRun(t) \/ Hangs(t) PROVE CountsAreCurrent'
    <2>1. queue' = queue /\ UNCHANGED reports
          /\ \A s \in Tasks : pc'[s] = "reporting" => pc[s] = "reporting"
      BY <1>3 DEF EndTask, StartRun, Hangs, TypeOK
    <2> QED
      BY <1>1, <2>1 DEF Incident, Current
  <1>4. ASSUME NEW t \in Tasks, Ignore(t) PROVE CountsAreCurrent'
    <2>1. \A s \in Tasks : s # t => Incident(s)' = Incident(s)
      BY <1>4, OthersStay DEF Ignore
    <2> QED
      BY <1>1, <1>4, <2>1 DEF Ignore
  <1>5. ASSUME NEW t \in Tasks, FetchReport(t) PROVE CountsAreCurrent'
    <2>1. /\ queue' = queue /\ occurrences' = occurrences /\ reported' = reported
          /\ fetched' = [fetched EXCEPT ![t] = occurrences[Incident(t)]]
          /\ pc' = [pc EXCEPT ![t] = "reporting"]
      BY <1>5 DEF FetchReport
    <2>2. \A s \in Tasks : Incident(s)' = Incident(s)
      BY <2>1 DEF Incident, Current
    <2> QED
      BY <2>1, <2>2 DEF CountsAreCurrent, OccurrencesAreCounted, TypeOK
  <1>6. ASSUME NEW t \in Tasks, SaveReport(t) PROVE CountsAreCurrent'
    <2>1. /\ queue' = queue /\ fetched' = fetched /\ pc[t] = "reporting" /\ Stored(t)
          /\ pc' = [pc EXCEPT ![t] = "finishing"]
      BY <1>6 DEF SaveReport
    <2>2. \A s \in Tasks : pc'[s] = "reporting" => s # t /\ pc[s] = "reporting"
      BY <2>1 DEF TypeOK
    <2>3. \A s \in Tasks : Incident(s)' = Incident(s)
      BY <2>1 DEF Incident, Current
    <2> QED
      BY <2>1, <2>2, <2>3, StoredCounts DEF CountsAreCurrent
  <1>7. ASSUME NEW t \in Tasks, EndRun(t) \/ RunFails(t) PROVE CountsAreCurrent'
    <2>1. InRun(t) /\ Leave(t) /\ UNCHANGED reports
      BY <1>7 DEF EndRun, RunFails, InRun, reports, Leave
    <2>2. \A s \in Tasks : InRun(s)' => pc'[s] = pc[s] /\ Incident(s)' = Incident(s)
      BY <2>1, LeaveKeepsLocks
    <2> QED
      BY <1>1, <2>1, <2>2 DEF InRun
  <1>8. ASSUME NEW t \in Tasks, SaveUnanswered(t) PROVE CountsAreCurrent'
    <2>1. InRun(t) /\ Leave(t) /\ pc[t] = "reporting" /\ Stored(t) /\ fetched' = fetched
      BY <1>8 DEF SaveUnanswered, InRun, Leave
    <2>2. \A s \in Tasks : pc'[s] = "reporting" =>
              s # t /\ pc[s] = "reporting" /\ Incident(s)' = Incident(s)
      BY <2>1, LeaveKeepsLocks DEF InRun
    <2> QED
      BY <2>1, <2>2, StoredCounts DEF CountsAreCurrent
  <1>9. CASE Crash
    BY <1>1, <1>9 DEF Crash
  <1>10. CASE Tick \/ UNCHANGED vars
    <2>1. queue' = queue /\ pc' = pc /\ UNCHANGED reports
      BY <1>10 DEF Tick, vars
    <2> QED
      BY <1>1, <2>1 DEF Incident, Current
  <1> QED
    BY <1>2, <1>3, <1>4, <1>5, <1>6, <1>7, <1>8, <1>9, <1>10 DEF Next, Work

\* The count of a stored report is the number of reports saved, for any
\* number of tasks: the lock makes a transaction of reading and saving.
THEOREM OccurrencesStayCounted == Spec => []OccurrencesAreCounted
  <1>1. Init => LocksAreHeld /\ CountsAreCurrent
    BY DEF Init, LocksAreHeld, OneRunPerDeployment, InRun, CountsAreCurrent, OccurrencesAreCounted
  <1>2. CountsAreCurrent => OccurrencesAreCounted
    BY DEF CountsAreCurrent
  <1> QED
    BY <1>1, <1>2, TypeCorrect, LockStep, CountStep, PTL DEF Spec

-----------------------------------------------------------------------------
(* Cooldown *)

\* Pruning forgets no start that is younger than four windows.
LEMMA PrunedIsTrue ==
    ASSUME TypeOK, TableIsTrue, NEW a \in Alerts
    PROVE  \/ Pruned[a] # Never /\ Pruned[a] = lastRun[a]
           \/ Pruned[a] = Never /\ lastRun[a] \in {Never, Forgotten}
  BY DEF TableIsTrue, Pruned, TypeOK

LEMMA TableStep == TypeOK /\ TableIsTrue /\ [Next]_vars => TableIsTrue'
  <1> SUFFICES ASSUME TypeOK, TableIsTrue, [Next]_vars PROVE TableIsTrue'
    OBVIOUS
  <1>1. ASSUME UNCHANGED <<recent, lastRun>> PROVE TableIsTrue'
    BY <1>1 DEF TableIsTrue
  <1>2. ASSUME NEW t \in Tasks, Ignore(t) PROVE TableIsTrue'
    BY <1>2, PrunedIsTrue DEF Ignore, TableIsTrue
  <1>3. ASSUME NEW t \in Tasks, StartRun(t) PROVE TableIsTrue'
    <2>1. Current(t) \in Alerts
      BY <1>3, CurrentType DEF StartRun
    <2>2. /\ recent' = [Pruned EXCEPT ![Current(t)] = 0]
          /\ lastRun' = [lastRun EXCEPT ![Current(t)] = 0]
      BY <1>3 DEF StartRun
    <2>3. recent'[Current(t)] = 0 /\ lastRun'[Current(t)] = 0
      BY <2>1, <2>2, PrunedType DEF TypeOK
    <2>4. \A a \in Alerts : a # Current(t) => recent'[a] = Pruned[a] /\ lastRun'[a] = lastRun[a]
      BY <2>2, PrunedType DEF TypeOK
    <2>5. 0 # Never
      BY DEF Never
    <2> QED
      BY <2>3, <2>4, <2>5, PrunedIsTrue DEF TableIsTrue
  <1>4. CASE Crash
    BY <1>4 DEF Crash, TableIsTrue
  <1>5. CASE Tick
    BY <1>5, AgeFacts DEF Tick, TableIsTrue, Older, TypeOK, Ages, Never
  <1>6. ASSUME NEW t \in Tasks,
               \/ Webhook(t) \/ EndTask(t) \/ FetchReport(t) \/ SaveReport(t)
               \/ EndRun(t) \/ RunFails(t) \/ SaveUnanswered(t) \/ Hangs(t)
        PROVE  TableIsTrue'
    BY <1>1, <1>6 DEF Webhook, EndTask, FetchReport, SaveReport, EndRun, RunFails,
                      SaveUnanswered, Hangs, Leave, tables
  <1>7. CASE UNCHANGED vars
    BY <1>1, <1>7 DEF vars, tables
  <1> QED
    BY <1>2, <1>3, <1>4, <1>5, <1>6, <1>7 DEF Next, Work

\* A run starts only outside the window of the previous one.
LEMMA StartIsLate ==
    ASSUME TypeOK, TableIsTrue, [Next]_vars, NEW t \in Tasks, StartsRun(t)
    PROVE  lastRun[Current(t)] = Never \/ lastRun[Current(t)] >= Window
  <1>1. ~InRun(t) /\ pc'[t] \in {"running", "reporting", "finishing", "hung"}
    BY DEF StartsRun, InRun
  <1>2. StartRun(t)
    <2>1. ASSUME NEW s \in Tasks, s # t, pc' = pc \/ \E where : pc' = [pc EXCEPT ![s] = where]
          PROVE  FALSE
      BY <1>1, <2>1 DEF InRun, TypeOK
    <2>2. ASSUME NEW s \in Tasks, s # t,
                 Work(s) \/ Webhook(s) \/ RunFails(s) \/ SaveUnanswered(s) \/ Hangs(s)
          PROVE  FALSE
      BY <2>1, <2>2 DEF Work, EndTask, Ignore, StartRun, FetchReport, SaveReport, EndRun,
                        Webhook, RunFails, SaveUnanswered, Hangs, Leave
    <2>3. ~(Crash \/ Tick \/ UNCHANGED vars)
      BY <1>1 DEF Crash, Tick, vars, InRun
    <2>4. Work(t) \/ Webhook(t) \/ RunFails(t) \/ SaveUnanswered(t) \/ Hangs(t)
      BY <2>2, <2>3 DEF Next
    <2> QED
      BY <1>1, <2>4 DEF Work, EndTask, Ignore, FetchReport, SaveReport, EndRun,
                        Webhook, RunFails, SaveUnanswered, Hangs, Leave, InRun, TypeOK
  <1>3. Current(t) \in Alerts
    BY <1>2, CurrentType DEF StartRun
  <1>4. Pruned[Current(t)] = Never \/ ~(Pruned[Current(t)] < Window)
    BY <1>2 DEF StartRun, CoolingDown
  <1>5. Pruned[Current(t)] \in Ages \cup {Never} /\ lastRun[Current(t)] \in Ages \cup {Never}
    BY <1>3, PrunedType DEF TypeOK
  <1> QED
    BY <1>3, <1>4, <1>5, PrunedIsTrue, AgeFacts, BoundsAssumption DEF Ages

\* Whatever the window, two runs for one alert start at least a window apart
\* in one life of the guardian; pruning never opens the window early.
THEOREM RunsStaySpaced == Spec => RunsAreSpaced
  <1>1. Init => TableIsTrue
    BY DEF Init, TableIsTrue
  <1>2. TypeOK /\ TableIsTrue /\ [Next]_vars =>
            \A t \in Tasks : StartsRun(t) =>
                lastRun[Current(t)] = Never \/ lastRun[Current(t)] >= Window
    BY StartIsLate
  <1> QED
    BY <1>1, <1>2, TypeCorrect, TableStep, PTL DEF Spec, RunsAreSpaced
=============================================================================
