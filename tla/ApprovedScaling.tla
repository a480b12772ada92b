--------------------------- MODULE ApprovedScaling ---------------------------
(***************************************************************************)
(* Scaling a deployment by human approval: the endpoints                    *)
(* /approvals/{id}/approve, /deny and /execute of main_agent_guardian.py,   *)
(* and the tools of k8s_mcp.py they use on the deployment's autoscaler      *)
(* (HPA): set_hpa_max_replicas_temporary raises its maximum and notes the   *)
(* old one in annotations, check_and_revert_temp_hpa puts it back.          *)
(*                                                                          *)
(* Requests run concurrently: the handlers are coroutines, and a step ends  *)
(* where the code awaits.  A tool call is one step, because the tool server *)
(* runs one tool at a time.  A request that succeeds leaves a monitor task  *)
(* behind, which lives in the memory of the guardian; the monitor of a call *)
(* is the last phase of that call here.                                     *)
(*                                                                          *)
(* Time is counted in ticks: the temporary window lasts Duration ticks, a   *)
(* monitor MonitorTime ticks (the code adds 600 s to the window).  A        *)
(* monitor calls its tool every 30 s, so that within a tick each one gets   *)
(* an answer (Tick).  The CPU load is arbitrary: a check may find it below  *)
(* the threshold at any time.  The window is the default of /execute, for   *)
(* the dashboard sends no duration.                                         *)
(*                                                                          *)
(* The size is the request's own if its payload has one, and the one the    *)
(* approval suggests otherwise.  The dashboard always sends one: what the   *)
(* approval suggests, or 1.  No size is 0, which the API takes for no       *)
(* autoscaler's maximum.                                                    *)
(*                                                                          *)
(* Not modelled: the incident report the endpoints rewrite, actions that    *)
(* need manual execution (nothing happens), and other deployments (nothing  *)
(* is shared but the tool server).                                          *)
(***************************************************************************)
EXTENDS Integers, FiniteSets

CONSTANTS
    Approvals,      \* approval requests for the deployment
    NoApproval,     \* the target of an idle call
    Wanted,         \* the replicas an approval suggests, 0 for none
    Sizes,          \* the replicas that requests to /execute name themselves
    Calls,          \* slots for requests to /execute and their monitors
    InitialMax,     \* maxReplicas of the HPA as deployed
    BudgetMax,      \* BUDGET_MAX_REPLICAS: all that set_hpa_max_replicas sets
    AgentSetsMax,   \* may the agent use set_hpa_max_replicas?
    Duration,       \* duration_seconds, in ticks
    MonitorTime,    \* the timeout of a monitor, in ticks
    Tries,          \* how often /execute looks for the raised maximum
    MaxRequests,    \* bound: requests to /execute
    Faults,         \* what may go wrong, see below
    MaxFaults       \* bound: how often

ASSUME CallsAssumption ==
    /\ NoApproval \notin Approvals
    /\ Wanted \in [Approvals -> Nat]
    /\ Sizes \subseteq Nat \ {0}
    /\ InitialMax \in Nat /\ BudgetMax \in Nat
    /\ AgentSetsMax \in BOOLEAN

\* The monitor outlives the window: timeout=duration_seconds + 600.
ASSUME TimeAssumption ==
    /\ Duration \in Nat \ {0}
    /\ MonitorTime \in Nat /\ MonitorTime > Duration
    /\ Tries \in Nat \ {0}

(***************************************************************************)
(* "raise":    the API rejects a request of the raising tool, the next one  *)
(*             works                                                        *)
(* "outage":   the API applies the raise and then stops answering           *)
(* "answer":   the tool server does not answer the raising call             *)
(* "confirm":  the API does not answer when the maximum is looked at        *)
(* "scale":    the API rejects the scaling of the deployment                *)
(* "database": a statement of /execute fails                                *)
(* "check":    the API rejects a request of the reverting tool              *)
(* "crash":    the guardian and its tool server are killed                  *)
(***************************************************************************)
ASSUME FaultsAssumption ==
    /\ Faults \subseteq
         {"raise", "outage", "answer", "confirm", "scale", "database", "check", "crash"}
    /\ MaxFaults \in Nat /\ MaxRequests \in Nat

VARIABLES
    status,     \* the status of an approval in the database
    hpaMax,     \* spec.maxReplicas of the HPA
    note,       \* its guardian.temp_* annotations
    scaledTo,   \* the replicas /execute last wrote, and for what
    call,       \* the requests to /execute and their monitors
    requests,   \* how many there have been
    faults,     \* how many faults there have been
    \* history
    configured, \* the maximum that holds without temporary raises
    approved,   \* the approvals ever approved
    disturbed   \* whether anything happened that the monitors do not repair

vars == <<status, hpaMax, note, scaledTo, call, requests, faults, configured, approved, disturbed>>

Statuses == {"PENDING", "APPROVED", "DENIED", "COMPLETED"}
NoNote == [orig |-> -1, left |-> 0]
NoScaling == [approval |-> NoApproval, size |-> 0, own |-> FALSE]

Idle == [pc |-> "idle", approval |-> NoApproval, size |-> 0, own |-> FALSE,
         misses |-> 0, left |-> 0, checked |-> FALSE]
Started(a, r) == [Idle EXCEPT !.pc = "raise", !.approval = a, !.size = r.size, !.own = r.own]
Monitor(a) == [Idle EXCEPT !.pc = "watch", !.approval = a, !.left = MonitorTime]

TypeOK ==
    /\ status \in [Approvals -> Statuses]
    /\ hpaMax \in Nat /\ configured \in Nat
    /\ scaledTo \in [approval : Approvals \cup {NoApproval}, size : Nat, own : BOOLEAN]
    /\ note = NoNote \/ note \in [orig : Nat, left : 0..Duration]
    /\ call \in [Calls -> {Idle} \cup
           [pc : {"raise", "confirm", "scale", "record", "report", "watch"},
            approval : Approvals, size : Nat, own : BOOLEAN,
            misses : 0..Tries-1, left : 0..MonitorTime, checked : BOOLEAN]]
    /\ requests \in 0..MaxRequests /\ faults \in 0..MaxFaults
    /\ approved \subseteq Approvals /\ disturbed \in BOOLEAN

Init ==
    /\ status = [a \in Approvals |-> "PENDING"]
    /\ hpaMax = InitialMax /\ configured = InitialMax
    /\ note = NoNote
    /\ scaledTo = NoScaling
    /\ call = [c \in Calls |-> Idle]
    /\ requests = 0 /\ faults = 0
    /\ approved = {} /\ disturbed = FALSE

(***************************************************************************)
(* Helpers                                                                  *)
(***************************************************************************)
At(c, phase) == call[c].pc = phase
Goal(c) == call[c].size
Ends(c) == call' = [call EXCEPT ![c] = Idle]
Goes(c, phase) == call' = [call EXCEPT ![c].pc = phase]

\* The faults that leave the tools a second chance: a raise that was rejected
\* is not in force, and a rejected check is repeated.
Repaired == {"raise", "check"}

Fault(kind) ==
    /\ kind \in Faults
    /\ faults < MaxFaults
    /\ faults' = faults + 1
    /\ disturbed' = (disturbed \/ kind \notin Repaired)

\* Mutant: the maximum found is noted, be it temporary or not.
Original_Current == hpaMax

\* annotations.get("guardian.temp_orig") or hpa.spec.max_replicas
Original == IF note = NoNote THEN hpaMax ELSE note.orig

(***************************************************************************)
(* The decisions of the operators: whatever the status is, it is replaced   *)
(***************************************************************************)
Approve(a) ==
    /\ status' = [status EXCEPT ![a] = "APPROVED"]
    /\ approved' = approved \cup {a}
    /\ UNCHANGED <<hpaMax, note, scaledTo, call, requests, faults, configured, disturbed>>

Deny(a) ==
    /\ status' = [status EXCEPT ![a] = "DENIED"]
    /\ UNCHANGED <<hpaMax, note, scaledTo, call, requests, faults, configured, approved, disturbed>>

(***************************************************************************)
(* /execute                                                                 *)
(***************************************************************************)
\* What a request for an approval may ask for: a size of its own, or else the
\* suggested one.  With neither the answer is 400.
Requests(a) == [size : Sizes, own : {TRUE}] \cup [size : {Wanted[a]} \ {0}, own : {FALSE}]

\* Mutant: anything but a denied request runs.
StartExecute_UnlessDenied(c, a) ==
    /\ call[c] = Idle
    /\ requests < MaxRequests
    /\ status[a] # "DENIED"
    /\ requests' = requests + 1
    /\ \E r \in Requests(a) : call' = [call EXCEPT ![c] = Started(a, r)]
    /\ UNCHANGED <<status, hpaMax, note, scaledTo, faults, configured, approved, disturbed>>

\* The status is looked at once; without APPROVED the answer is 409.
StartExecute(c, a) ==
    /\ call[c] = Idle
    /\ requests < MaxRequests
    /\ status[a] = "APPROVED"
    /\ requests' = requests + 1
    /\ \E r \in Requests(a) : call' = [call EXCEPT ![c] = Started(a, r)]
    /\ UNCHANGED <<status, hpaMax, note, scaledTo, faults, configured, approved, disturbed>>

\* set_hpa_max_replicas_temporary: the maximum, then the annotations.
RaiseMax(c) ==
    /\ At(c, "raise")
    /\ hpaMax' = Goal(c)
    /\ note' = [orig |-> Original, left |-> Duration]
    /\ Goes(c, "confirm")
    /\ UNCHANGED <<status, scaledTo, requests, faults, configured, approved, disturbed>>

\* Its first request is rejected, or the annotations are and the maximum is
\* restored.  The tool reports that; the caller does not look at the answer.
RaiseRejected(c) ==
    /\ At(c, "raise")
    /\ Fault("raise")
    /\ hpaMax' \in {hpaMax, Original}
    /\ Goes(c, "confirm")
    /\ UNCHANGED <<status, note, scaledTo, requests, configured, approved>>

\* The maximum is raised, and neither noted nor restored.
RaiseUnnoted(c) ==
    /\ At(c, "raise")
    /\ Fault("outage")
    /\ hpaMax' = Goal(c)
    /\ Goes(c, "confirm")
    /\ UNCHANGED <<status, note, scaledTo, requests, configured, approved>>

\* The call of the tool raises, whether the tool did its work or not: 500.
RaiseUnanswered(c) ==
    /\ At(c, "raise")
    /\ Fault("answer")
    /\ \/ UNCHANGED <<hpaMax, note>>
       \/ /\ hpaMax' = Goal(c)
          /\ note' = [orig |-> Original, left |-> Duration]
    /\ Ends(c)
    /\ UNCHANGED <<status, scaledTo, requests, configured, approved>>

\* get_hpa_limits shows the maximum this request asked for.
Confirm(c) ==
    /\ At(c, "confirm")
    /\ hpaMax = Goal(c)
    /\ Goes(c, "scale")
    /\ UNCHANGED <<status, hpaMax, note, scaledTo, requests, faults, configured, approved, disturbed>>

\* Mutant: one more look than there are tries.
Miss_OnceMore(c) ==
    /\ At(c, "confirm")
    /\ hpaMax # Goal(c)
    /\ IF call[c].misses < Tries
       THEN call' = [call EXCEPT ![c].misses = @ + 1]
       ELSE Ends(c)
    /\ UNCHANGED <<status, hpaMax, note, scaledTo, requests, faults, configured, approved, disturbed>>

\* It shows another one: look again, and give up after the last try.
Miss(c) ==
    /\ At(c, "confirm")
    /\ hpaMax # Goal(c)
    /\ IF call[c].misses + 1 < Tries
       THEN call' = [call EXCEPT ![c].misses = @ + 1]
       ELSE Ends(c)
    /\ UNCHANGED <<status, hpaMax, note, scaledTo, requests, faults, configured, approved, disturbed>>

\* The reads fail, once or to the last try.
ConfirmFails(c) ==
    /\ At(c, "confirm")
    /\ Fault("confirm")
    /\ \/ /\ call[c].misses + 1 < Tries
          /\ call' = [call EXCEPT ![c].misses = @ + 1]
       \/ Ends(c)
    /\ UNCHANGED <<status, hpaMax, note, scaledTo, requests, configured, approved>>

\* Mutant: the Deployment is scaled to the maximum in force.
Scale_ToMaximum(c) ==
    /\ At(c, "scale")
    /\ scaledTo' = [approval |-> call[c].approval, size |-> hpaMax, own |-> call[c].own]
    /\ Goes(c, "record")
    /\ UNCHANGED <<status, hpaMax, note, requests, faults, configured, approved, disturbed>>

\* The Deployment is patched directly, past set_replicas and its guard.
Scale(c) ==
    /\ At(c, "scale")
    /\ scaledTo' = [approval |-> call[c].approval, size |-> Goal(c), own |-> call[c].own]
    /\ Goes(c, "record")
    /\ UNCHANGED <<status, hpaMax, note, requests, faults, configured, approved, disturbed>>

ScaleRejected(c) ==
    /\ At(c, "scale")
    /\ Fault("scale")
    /\ Ends(c)
    /\ UNCHANGED <<status, hpaMax, note, scaledTo, requests, configured, approved>>

\* update_approval_status
Record(c) ==
    /\ At(c, "record")
    /\ status' = [status EXCEPT ![call[c].approval] = "COMPLETED"]
    /\ Goes(c, "report")
    /\ UNCHANGED <<hpaMax, note, scaledTo, requests, faults, configured, approved, disturbed>>

\* Mutant: the monitor's time does not reach past the window.
StartMonitor_WithoutMargin(c) ==
    /\ At(c, "report")
    /\ call' = [call EXCEPT ![c] = [Monitor(@.approval) EXCEPT !.left = Duration]]
    /\ UNCHANGED <<status, hpaMax, note, scaledTo, requests, faults, configured, approved, disturbed>>

\* The incident report is stored and the monitor started.
StartMonitor(c) ==
    /\ At(c, "report")
    /\ call' = [call EXCEPT ![c] = Monitor(@.approval)]
    /\ UNCHANGED <<status, hpaMax, note, scaledTo, requests, faults, configured, approved, disturbed>>

\* The database fails on the status or on the report: the answer is 500, and
\* no monitor is started.
DatabaseFails(c) ==
    /\ At(c, "record") \/ At(c, "report")
    /\ Fault("database")
    /\ Ends(c)
    /\ UNCHANGED <<status, hpaMax, note, scaledTo, requests, configured, approved>>

(***************************************************************************)
(* The monitor: check_and_revert_temp_hpa                                   *)
(***************************************************************************)
\* Nothing temporary, or neither expired nor idle.
CheckKeeps(c) ==
    /\ At(c, "watch") /\ call[c].left > 0 /\ ~call[c].checked
    /\ note = NoNote \/ note.left > 0
    /\ call' = [call EXCEPT ![c].checked = TRUE]
    /\ UNCHANGED <<status, hpaMax, note, scaledTo, requests, faults, configured, approved, disturbed>>

\* Expired, or the load is low: the maximum is restored.  The annotations the
\* tool then leaves out of its patch stay, for the patch is merged into them.
CheckReverts(c) ==
    /\ At(c, "watch") /\ call[c].left > 0 /\ ~call[c].checked
    /\ note # NoNote
    /\ hpaMax' = note.orig
    /\ Ends(c)
    /\ UNCHANGED <<status, note, scaledTo, requests, faults, configured, approved, disturbed>>

\* A request of the tool is rejected, before or after the restoring one.
CheckFails(c) ==
    /\ At(c, "watch") /\ call[c].left > 0 /\ ~call[c].checked
    /\ Fault("check")
    /\ \/ UNCHANGED hpaMax
       \/ note # NoNote /\ hpaMax' = note.orig
    /\ UNCHANGED <<status, note, scaledTo, call, requests, configured, approved>>

MonitorEnds(c) ==
    /\ At(c, "watch") /\ call[c].left = 0
    /\ Ends(c)
    /\ UNCHANGED <<status, hpaMax, note, scaledTo, requests, faults, configured, approved, disturbed>>

(***************************************************************************)
(* The agent's own tool, time, and crashes                                  *)
(***************************************************************************)
\* set_hpa_max_replicas accepts BUDGET_MAX_REPLICAS and nothing else.
SetMax ==
    /\ AgentSetsMax
    /\ hpaMax' = BudgetMax /\ configured' = BudgetMax
    /\ disturbed' = TRUE
    /\ UNCHANGED <<status, note, scaledTo, call, requests, faults, approved>>

Watching == {c \in Calls : At(c, "watch")}
OneLess(n) == IF n = 0 THEN 0 ELSE n - 1

Tick ==
    /\ note.left > 0 \/ Watching # {}
    /\ \A c \in Watching : call[c].checked /\ call[c].left > 0
    /\ note' = [note EXCEPT !.left = OneLess(@)]
    /\ call' = [c \in Calls |-> IF At(c, "watch")
                                THEN [call[c] EXCEPT !.left = OneLess(@), !.checked = FALSE]
                                ELSE call[c]]
    /\ UNCHANGED <<status, hpaMax, scaledTo, requests, faults, configured, approved, disturbed>>

\* Requests and monitors are gone; a tool may be cut off after its first patch.
Crash ==
    /\ Fault("crash")
    /\ hpaMax' \in {hpaMax} \cup {Goal(c) : c \in {d \in Calls : At(d, "raise")}}
    /\ call' = [c \in Calls |-> Idle]
    /\ UNCHANGED <<status, note, scaledTo, requests, configured, approved>>

\* What a request does without being disturbed.
Step(c) ==
    \/ RaiseMax(c) \/ Confirm(c) \/ Miss(c) \/ Scale(c) \/ Record(c) \/ StartMonitor(c)
    \/ CheckKeeps(c) \/ CheckReverts(c) \/ MonitorEnds(c)

Next ==
    \/ \E a \in Approvals : Approve(a) \/ Deny(a) \/ \E c \in Calls : StartExecute(c, a)
    \/ \E c \in Calls :
        \/ Step(c)
        \/ RaiseRejected(c) \/ RaiseUnnoted(c) \/ RaiseUnanswered(c)
        \/ ConfirmFails(c) \/ ScaleRejected(c) \/ DatabaseFails(c) \/ CheckFails(c)
    \/ SetMax \/ Tick \/ Crash

Spec == Init /\ [][Next]_vars

\* The event loop resumes a coroutine whose answer has come, and time goes on.
\* That answers come, or fail, is assumed of the environment: the calls of the
\* tool server have no timeout.
FairSpec == Spec /\ (\A c \in Calls : WF_vars(Step(c))) /\ WF_vars(Tick)

(***************************************************************************)
(* Properties                                                               *)
(***************************************************************************)
\* /execute scales only for a request that was approved at some time, and to the
\* size it suggests, or to the one the payload names in its place: the status is
\* checked before anything is awaited, and what other requests do to the
\* autoscaler meanwhile does not change what is written.  Nobody approves a size
\* that the payload names: the property says where it comes from, no more.
OnlyApprovedIsScaled ==
    scaledTo # NoScaling =>
        /\ scaledTo.approval \in approved
        /\ [size |-> scaledTo.size, own |-> scaledTo.own] \in Requests(scaledTo.approval)

\* No raise is left behind: when no request is being handled and no monitor is
\* running, the maximum is the configured one again, whichever requests and
\* monitors raised, confirmed, gave up and reverted over each other and
\* whichever requests of the two temporary tools were rejected.
QuietIsRestored ==
    ~disturbed /\ (\A c \in Calls : call[c] = Idle) => hpaMax = configured

\* The raising tool adds "annotations to the HPA recording the original value":
\* a raise from the configured maximum, no window open and nothing else going
\* on, notes that one.
RaiseNotesOriginal ==
    [][\A c \in Calls :
         /\ RaiseMax(c)
         /\ hpaMax = configured /\ note.left = 0
         /\ \A d \in Calls \ {c} : call[d] = Idle
         => note'.orig = configured]_vars

\* The revert monitor "restores HPA control after the temporary window or when
\* load drops", unless what it does not repair happens: a raise in force without
\* a monitor (the pod was killed, the database failed, an answer was lost), or a
\* maximum set by the agent under a raise.
EventuallyRestored == (hpaMax # configured) ~> (hpaMax = configured \/ disturbed)

=============================================================================
