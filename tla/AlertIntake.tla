----------------------------- MODULE AlertIntake -----------------------------
(***************************************************************************)
(* How the guardian takes in alerts: the webhook of main_agent_guardian.py, *)
(* the background task it leaves behind for every payload, and              *)
(* process_alert of runtime.py with its cooldown table and its lock per     *)
(* deployment, up to the incident report a run saves.                       *)
(*                                                                          *)
(* Tasks are coroutines of one event loop: a step ends where the code       *)
(* awaits.  From the look at the clock to the first await of a run nothing  *)
(* else happens, so the cooldown check, lock.locked() and the acquisition   *)
(* of the lock are one step.  Nobody ever waits for a lock.                 *)
(*                                                                          *)
(* Times are kept as ages: what the code stores as a time of the monotonic  *)
(* clock is here how long ago that was, in ticks, up to Forgotten, an age   *)
(* at which everything has been pruned.                                     *)
(*                                                                          *)
(* Not modelled: what a run investigates and does (the language model and   *)
(* its tools are one step that may fail or hang), and approvals, which come *)
(* after the report is saved.  A rollout may run two guardians for a        *)
(* moment, each with its own table and locks; the model has one.            *)
(***************************************************************************)
EXTENDS Integers, Sequences, FiniteSets

CONSTANTS
    Alerts,        \* alerts as the cooldown tells them apart
    Deployments,   \* deployments, "unknown" for an alert that names none
    Incidents,     \* keys of incident reports
    DeploymentOf,  \* the deployment an alert is about
    IncidentOf,    \* the incident an alert belongs to
    Batches,       \* the firing alerts of one payload, in order
    Tasks,         \* slots for background tasks
    Window,        \* ALERT_DEDUP_WINDOW_SECONDS, in ticks
    MaxWebhooks,   \* bound: payloads received
    Faults,        \* what may go wrong: "run", "database", "hang", "crash"
    MaxFaults      \* bound: how often

\* An incident is named by the labels or by a digest that contains the
\* deployment, so that all its alerts are about one deployment.
ASSUME AlertsAssumption ==
    /\ DeploymentOf \in [Alerts -> Deployments]
    /\ IncidentOf \in [Alerts -> Incidents]
    /\ \A a, b \in Alerts : IncidentOf[a] = IncidentOf[b] => DeploymentOf[a] = DeploymentOf[b]

ASSUME BatchesAssumption == Batches \subseteq Seq(Alerts)

ASSUME BoundsAssumption == Window \in Nat /\ MaxWebhooks \in Nat /\ MaxFaults \in Nat

VARIABLES
    queue,       \* the alerts of a task that are not dealt with, the current one first
    pc,          \* where a task is
    inflight,    \* deployments whose lock is held
    recent,      \* _recent_alerts: the age of the latest run's start
    fetched,     \* the occurrence count a run has read
    occurrences, \* occurrence_count of the stored reports
    sent,        \* payloads received
    faults,      \* things gone wrong
    reported,    \* history: reports saved for an incident
    lastRun      \* history: the age of the latest start of a run for an alert

tables == <<inflight, recent, lastRun>>
reports == <<fetched, occurrences, reported>>
bounds == <<sent, faults>>
vars == <<queue, pc, tables, reports, bounds>>

\* The first age at which an entry is pruned, and ages grow no further.
Forgotten == 4 * Window + 1

Ages == 0 .. Forgotten

\* Not in the table.
Never == -1

Older(age) == IF age \in {Never, Forgotten} THEN age ELSE age + 1

TypeOK ==
    /\ queue \in [Tasks -> Seq(Alerts)]
    /\ pc \in [Tasks -> {"idle", "next", "running", "reporting", "finishing", "hung"}]
    /\ \A t \in Tasks : pc[t] \notin {"idle", "next"} => queue[t] # <<>>
    /\ inflight \subseteq Deployments
    /\ recent \in [Alerts -> Ages \cup {Never}]
    /\ lastRun \in [Alerts -> Ages \cup {Never}]
    /\ fetched \in [Tasks -> Nat]
    /\ occurrences \in [Incidents -> Nat]
    /\ reported \in [Incidents -> Nat]
    /\ sent \in Nat /\ faults \in Nat

-----------------------------------------------------------------------------
(* State formulae *)

Current(t) == Head(queue[t])

Target(t) == DeploymentOf[Current(t)]

Incident(t) == IncidentOf[Current(t)]

InRun(t) == pc[t] \in {"running", "reporting", "finishing", "hung"}

\* Mutant: the table is pruned by a quarter of the window.
Pruned_QuarterWindow == [a \in Alerts |-> IF 4 * recent[a] > Window THEN Never ELSE recent[a]]

\* _prune_recent_alerts: every call of process_alert drops what is older
\* than four windows.
Pruned == [a \in Alerts |-> IF recent[a] = Forgotten THEN Never ELSE recent[a]]

CoolingDown(a) == Pruned[a] # Never /\ Pruned[a] < Window

MayFail(kind) == kind \in Faults /\ faults < MaxFaults

-----------------------------------------------------------------------------
Init ==
    /\ queue = [t \in Tasks |-> <<>>]
    /\ pc = [t \in Tasks |-> "idle"]
    /\ inflight = {}
    /\ recent = [a \in Alerts |-> Never]
    /\ lastRun = [a \in Alerts |-> Never]
    /\ fetched = [t \in Tasks |-> 0]
    /\ occurrences = [i \in Incidents |-> 0]
    /\ reported = [i \in Incidents |-> 0]
    /\ sent = 0
    /\ faults = 0

\* A payload arrives: its firing alerts go to a background task.
Webhook(t) ==
    /\ pc[t] = "idle"
    /\ sent < MaxWebhooks
    /\ \E batch \in Batches : queue' = [queue EXCEPT ![t] = batch]
    /\ pc' = [pc EXCEPT ![t] = "next"]
    /\ sent' = sent + 1
    /\ UNCHANGED <<tables, reports, faults>>

\* The loop over the alerts ends.
EndTask(t) ==
    /\ pc[t] = "next" /\ queue[t] = <<>>
    /\ pc' = [pc EXCEPT ![t] = "idle"]
    /\ UNCHANGED <<queue, tables, reports, bounds>>

\* process_alert answers without a run: the alert has been run within the
\* window (ignored_duplicate), or its deployment's lock is held
\* (ignored_inflight).
Ignore(t) ==
    /\ pc[t] = "next" /\ queue[t] # <<>>
    /\ CoolingDown(Current(t)) \/ Target(t) \in inflight
    /\ recent' = Pruned
    /\ queue' = [queue EXCEPT ![t] = Tail(@)]
    /\ UNCHANGED <<pc, inflight, lastRun, reports, bounds>>

\* Mutant: one lock per alert, not per deployment.
StartRun_LockPerAlert(t) ==
    /\ pc[t] = "next" /\ queue[t] # <<>>
    /\ ~CoolingDown(Current(t))
    /\ \A s \in Tasks : InRun(s) => Current(s) # Current(t)
    /\ inflight' = inflight \cup {Target(t)}
    /\ recent' = [Pruned EXCEPT ![Current(t)] = 0]
    /\ lastRun' = [lastRun EXCEPT ![Current(t)] = 0]
    /\ pc' = [pc EXCEPT ![t] = "running"]
    /\ UNCHANGED <<queue, reports, bounds>>

\* process_alert enters a run.
StartRun(t) ==
    /\ pc[t] = "next" /\ queue[t] # <<>>
    /\ ~CoolingDown(Current(t)) /\ Target(t) \notin inflight
    /\ inflight' = inflight \cup {Target(t)}
    /\ recent' = [Pruned EXCEPT ![Current(t)] = 0]
    /\ lastRun' = [lastRun EXCEPT ![Current(t)] = 0]
    /\ pc' = [pc EXCEPT ![t] = "running"]
    /\ UNCHANGED <<queue, reports, bounds>>

\* Mutant: the lock covers the run, but not its report.
FetchReport_Unlocked(t) ==
    /\ pc[t] = "running"
    /\ fetched' = [fetched EXCEPT ![t] = occurrences[Incident(t)]]
    /\ pc' = [pc EXCEPT ![t] = "reporting"]
    /\ inflight' = inflight \ {Target(t)}
    /\ UNCHANGED <<queue, recent, lastRun, occurrences, reported, bounds>>

\* The run has investigated and acted; the report generator reads the stored
\* report, and has the language model rewrite the new one.
FetchReport(t) ==
    /\ pc[t] = "running"
    /\ fetched' = [fetched EXCEPT ![t] = occurrences[Incident(t)]]
    /\ pc' = [pc EXCEPT ![t] = "reporting"]
    /\ UNCHANGED <<queue, tables, occurrences, reported, bounds>>

Stored(t) ==
    /\ occurrences' = [occurrences EXCEPT ![Incident(t)] = fetched[t] + 1]
    /\ reported' = [reported EXCEPT ![Incident(t)] = @ + 1]

\* The report is upserted; a request for approval may follow.
SaveReport(t) ==
    /\ pc[t] = "reporting"
    /\ Stored(t)
    /\ pc' = [pc EXCEPT ![t] = "finishing"]
    /\ UNCHANGED <<queue, tables, fetched, bounds>>

\* The lock is released, by return or by exception, and the task goes on.
Leave(t) ==
    /\ inflight' = inflight \ {Target(t)}
    /\ queue' = [queue EXCEPT ![t] = Tail(@)]
    /\ pc' = [pc EXCEPT ![t] = "next"]
    /\ UNCHANGED <<recent, lastRun, fetched>>

EndRun(t) ==
    /\ pc[t] = "finishing"
    /\ Leave(t)
    /\ UNCHANGED <<occurrences, reported, bounds>>

\* Mutant: an exception passes the release of the lock.
RunFails_KeepsLock(t) ==
    /\ pc[t] \in {"running", "reporting"}
    /\ MayFail("run")
    /\ queue' = [queue EXCEPT ![t] = Tail(@)]
    /\ pc' = [pc EXCEPT ![t] = "next"]
    /\ faults' = faults + 1
    /\ UNCHANGED <<inflight, recent, lastRun, fetched, occurrences, reported, sent>>

\* An exception of the language model, of the validation of its answer or of
\* the database ends the run before the report is stored; the background
\* task logs it.
RunFails(t) ==
    /\ pc[t] \in {"running", "reporting"}
    /\ MayFail("run")
    /\ Leave(t)
    /\ faults' = faults + 1
    /\ UNCHANGED <<occurrences, reported, sent>>

\* The report is stored, but the answer of the database is lost.
SaveUnanswered(t) ==
    /\ pc[t] = "reporting"
    /\ MayFail("database")
    /\ Stored(t)
    /\ Leave(t)
    /\ faults' = faults + 1
    /\ UNCHANGED sent

\* A request of the run is never answered.  Only those to the language model
\* have a timeout; a call of a tool server and a command of the database are
\* awaited for ever, inside the lock.
Hangs(t) ==
    /\ pc[t] \in {"running", "reporting", "finishing"}
    /\ MayFail("hang")
    /\ pc' = [pc EXCEPT ![t] = "hung"]
    /\ faults' = faults + 1
    /\ UNCHANGED <<queue, tables, reports, sent>>

\* The guardian's pod is killed: tasks, table and locks are gone, the reports
\* are in the database.
Crash ==
    /\ MayFail("crash")
    /\ queue' = [t \in Tasks |-> <<>>]
    /\ pc' = [t \in Tasks |-> "idle"]
    /\ inflight' = {}
    /\ recent' = [a \in Alerts |-> Never]
    /\ lastRun' = [a \in Alerts |-> Never]
    /\ faults' = faults + 1
    /\ UNCHANGED <<reports, sent>>

Tick ==
    /\ recent' = [a \in Alerts |-> Older(recent[a])]
    /\ lastRun' = [a \in Alerts |-> Older(lastRun[a])]
    /\ UNCHANGED <<queue, pc, inflight, reports, bounds>>

Work(t) ==
    \/ EndTask(t) \/ Ignore(t) \/ StartRun(t)
    \/ FetchReport(t) \/ SaveReport(t) \/ EndRun(t)

Next ==
    \/ \E t \in Tasks : Work(t) \/ Webhook(t) \/ RunFails(t) \/ SaveUnanswered(t) \/ Hangs(t)
    \/ Crash
    \/ Tick

Spec == Init /\ [][Next]_vars

\* The event loop runs every task that can go on.  A run whose request is not
\* answered cannot go on: it is hung.
FairSpec == Spec /\ \A t \in Tasks : WF_vars(Work(t))

-----------------------------------------------------------------------------
(* Properties *)

\* Two background tasks never run at once for one deployment, although the
\* look at the lock and its acquisition are two calls and a run may end by an
\* exception (runtime.py, process_alert).
OneRunPerDeployment ==
    \A s, t \in Tasks : s # t /\ InRun(s) /\ InRun(t) => Target(s) # Target(t)

\* The stored occurrence count is the number of reports saved for the
\* incident: the read, the rewriting by the language model and the upsert are
\* not a transaction, and only the deployment's lock keeps two runs of an
\* incident apart (runtime.py, generate_report_node).
OccurrencesAreCounted == occurrences = reported

StartsRun(t) == ~InRun(t) /\ InRun(t)'

\* Within the window after the start of a run no other run starts for the
\* same alert, whatever is pruned from the table in between (runtime.py,
\* process_alert and _prune_recent_alerts).
RunsAreSpaced ==
    [][\A t \in Tasks : StartsRun(t) =>
          lastRun[Current(t)] = Never \/ lastRun[Current(t)] >= Window]_vars

HeldByHungRun(d) == \E t \in Tasks : pc[t] = "hung" /\ Target(t) = d

\* A lock is released in the end, whether its run returns or raises, unless
\* that run is hung: a hung run keeps out the later alerts of its own
\* deployment until the guardian is restarted, and of no other deployment
\* (runtime.py, process_alert).
LocksAreReleased ==
    \A d \in Deployments : d \in inflight ~> d \notin inflight \/ HeldByHungRun(d)
=============================================================================
