----------------------------- MODULE GuardianRun -----------------------------
(***************************************************************************)
(* The SRE guardian's runtime (agent_guardian/runtime.py): its start with  *)
(* the tools of two servers, and the run of its graph for one alert,       *)
(* ReceiveAlert, Investigate, ReasoningAction, ReportGenerator, with the   *)
(* loop of llm.py in which the language model asks for tools, and the      *)
(* report and approval request the run leaves in the database.             *)
(*                                                                         *)
(* The language model is the environment: it may ask for any tools, allowed *)
(* or not, and answer anything, also what the models of models.py reject.  *)
(* A step of the loop is one answer of the model with the tool calls it    *)
(* contains.  Of the tools only the effect on this run is kept; what the   *)
(* writing tools do to the cluster is in BudgetedScaling and               *)
(* ApprovedScaling.                                                        *)
(*                                                                         *)
(* There is one run at a time: runs of one incident exclude each other     *)
(* (AlertIntake), and runs of others touch neither its report nor its      *)
(* approval requests.                                                      *)
(***************************************************************************)
EXTENDS IncidentReports

CONSTANTS
    Policy,         \* workload_policy of an incident's workload
    Saturations,    \* incidents whose alert is a CPUSaturation
    GrafanaTools,   \* the tools the Grafana server lists
    K8sTools,       \* the tools k8s_mcp.py lists
    MaxToolSteps,   \* MAX_TOOL_STEPS
    Retries,        \* GRAFANA_MCP_MAX_RETRIES
    Answers,        \* verdicts the language model may give
    MaxRuns,        \* bound: runs
    MaxCrashes      \* bound: restarts of the guardian

\* literals of InvestigationReportModel and ActionDecisionModel
Verdicts == {"TRAFFIC", "BUG", "INFRASTRUCTURE", "UNCLEAR", "UNKNOWN"}
ActionNames == {"SCALE_UP", "HOLD", "ROLLBACK_RECOMMENDATION", "RESTORE_LIMITS", "UNKNOWN"}

Tools == GrafanaTools \cup K8sTools

ASSUME RunAssumption ==
    /\ Policy \in [Incidents -> {"AUTOSCALE", "MONITOR_ONLY", "UNMONITORED"}]
    /\ Saturations \subseteq Incidents
    /\ MaxToolSteps \in Nat \ {0}
    /\ Retries \in Nat \ {0}
    /\ {MaxRuns, MaxCrashes} \subseteq Nat

VARIABLES
    phase,          \* of the start: "grafana", "k8s", "up"
    attempt,        \* attempts to load the Grafana tools
    registry,       \* names of the registered tools
    request,        \* whether what the start or the run awaits is answered at all
    run,            \* the run under way
    saves,          \* history: reports saved per incident
    runs,           \* runs begun
    crashes         \* restarts so far

lifeVars == <<phase, attempt, registry, request, crashes>>
runVars == <<run, saves, runs>>
vars == <<reportVars, lifeVars, runVars>>

NoRun == [pc |-> "idle", incident |-> {}, recurrence |-> 0, steps |-> 0, asked |-> {},
          spike |-> FALSE, unhealthy |-> FALSE, verdict |-> "missing", approve |-> FALSE,
          stored |-> NoReport]

Steps == {"idle", "received", "investigate", "reason", "act", "report", "save", "saved", "create", "annotate"}

RunType ==
    [pc : Steps, incident : SUBSET Incidents, recurrence : Nat, steps : 0 .. MaxToolSteps,
     asked : SUBSET Tools, spike : BOOLEAN, unhealthy : BOOLEAN,
     verdict : Verdicts \cup Answers \cup {"missing"}, approve : BOOLEAN, stored : ReportType]

TypeOK ==
    /\ ReportsTypeOK
    /\ phase \in {"grafana", "k8s", "up"}
    /\ attempt \in 0 .. Retries - 1
    /\ registry \subseteq Tools
    /\ request \in {"answered", "hung"}
    /\ run \in RunType
    /\ saves \in [Incidents -> Nat]
    /\ runs \in 0 .. MaxRuns
    /\ crashes \in 0 .. MaxCrashes

Init ==
    /\ ReportsInit
    /\ phase = "grafana" /\ attempt = 0 /\ registry = {} /\ crashes = 0
    /\ request = "answered"
    /\ run = NoRun /\ saves = [i \in Incidents |-> 0] /\ runs = 0

-----------------------------------------------------------------------------
(* Start *)

LoadGrafana ==
    /\ phase = "grafana"
    /\ registry' = registry \cup GrafanaTools
    /\ phase' = "k8s" /\ attempt' = 0
    /\ UNCHANGED <<request, crashes, reportVars, runVars>>

\* Mutant: one attempt more than GRAFANA_MCP_MAX_RETRIES.
MissGrafana_OnceMore ==
    /\ phase = "grafana"
    /\ IF attempt < Retries THEN attempt' = attempt + 1 /\ UNCHANGED phase
       ELSE attempt' = 0 /\ phase' = "k8s"
    /\ UNCHANGED <<registry, request, crashes, reportVars, runVars>>

\* Mutant: the attempts start over after the last one.
MissGrafana_StartsOver ==
    /\ phase = "grafana"
    /\ attempt' = (attempt + 1) % Retries
    /\ UNCHANGED <<phase, registry, request, crashes, reportVars, runVars>>

\* An attempt fails; after the last one the guardian goes on without.
MissGrafana ==
    /\ phase = "grafana"
    /\ IF attempt + 1 < Retries THEN attempt' = attempt + 1 /\ UNCHANGED phase
       ELSE attempt' = 0 /\ phase' = "k8s"
    /\ UNCHANGED <<registry, request, crashes, reportVars, runVars>>

LoadK8s ==
    /\ phase = "k8s"
    /\ registry' = registry \cup K8sTools
    /\ phase' = "up"
    /\ UNCHANGED <<attempt, request, crashes, reportVars, runVars>>

MissK8s ==
    /\ phase = "k8s"
    /\ phase' = "up"
    /\ UNCHANGED <<attempt, registry, request, crashes, reportVars, runVars>>

-----------------------------------------------------------------------------
(* The run *)

\* What a step of the run leaves alone besides the run itself.
Silent == UNCHANGED <<reportVars, lifeVars, saves, runs>>

Current(i) == i \in run.incident

ReceiveAlert(i) ==
    /\ phase = "up"
    /\ run.pc = "idle"
    /\ runs < MaxRuns
    /\ run' = [NoRun EXCEPT !.pc = "received", !.incident = {i}]
    /\ runs' = runs + 1
    /\ UNCHANGED <<reportVars, lifeVars, saves>>

\* The tools that each node lets the language model call.
Diagnostic == registry \cap {"query_prometheus", "query_loki_logs", "list_datasources",
                             "get_deployment_resources", "get_workload_health"}
Operative == registry \cap {"get_current_replicas", "set_replicas", "get_hpa_limits",
                            "set_hpa_max_replicas", "get_budget_state", "plan_budget_allocation",
                            "execute_budget_allocation", "restore_cpu_limits", "get_workload_health"}

\* The recurrence the language model is told of; 0 when the database fails.
Investigate(i) ==
    /\ run.pc = "received" /\ Current(i)
    /\ \E known \in BOOLEAN :
          LET seen == IF known /\ reports[i] # NoReport THEN reports[i].count + 1 ELSE 0
          IN run' = IF Diagnostic = {} THEN [run EXCEPT !.pc = "reason"]
                    ELSE [run EXCEPT !.pc = "investigate", !.recurrence = seen]
    /\ Silent

\* One step of the loop: the calls that are not allowed are answered with an
\* error, the others are made.  Arguments may be rejected: then nothing happens.
Ask(calls, allowed) ==
    /\ run.steps < MaxToolSteps
    /\ \E made \in SUBSET (calls \cap allowed) :
       \E spike \in {"query_prometheus" \in made, FALSE}, unhealthy \in {"get_workload_health" \in made, FALSE} :
          run' = [run EXCEPT !.steps = @ + 1, !.asked = @ \cup calls,
                             !.spike = @ \/ spike, !.unhealthy = @ \/ unhealthy]
    /\ Silent

AskDiagnostic(calls) == run.pc = "investigate" /\ Ask(calls, Diagnostic)
AskOperative(calls) == run.pc = "act" /\ Ask(calls, Operative)

\* Mutant: a recurring saturation also needs an unhealthy workload.
Classified_NeedsUnhealthy(i, v) ==
    IF v \notin {"missing", "null", "UNKNOWN", "UNCLEAR"} THEN v
    ELSE IF run.spike THEN "TRAFFIC"
    ELSE IF run.recurrence >= 2 /\ run.unhealthy THEN "INFRASTRUCTURE"
    ELSE v

\* The fallbacks for an investigation without a clear verdict.
Classified(i, v) ==
    IF v \notin {"missing", "null", "UNKNOWN", "UNCLEAR"} THEN v
    ELSE IF run.spike THEN "TRAFFIC"
    ELSE IF run.recurrence >= 2 /\ (run.unhealthy \/ "restore_cpu_limits" \in run.asked \/ i \in Saturations)
         THEN "INFRASTRUCTURE"
    ELSE v

\* The language model answers without a call, or its steps are used up.
Conclude(i, v) ==
    /\ run.pc = "investigate" /\ Current(i)
    /\ run.steps = MaxToolSteps => v = "missing"
    /\ run' = [run EXCEPT !.pc = "reason", !.verdict = Classified(i, v), !.steps = 0,
                             !.spike = FALSE, !.unhealthy = FALSE]
    /\ Silent

\* Without tools for the workload's policy the action is HOLD and nothing is asked.
Reason(i) ==
    /\ run.pc = "reason" /\ Current(i)
    /\ run' = IF Policy[i] = "AUTOSCALE" /\ Operative # {} THEN [run EXCEPT !.pc = "act"]
              ELSE [run EXCEPT !.pc = "report"]
    /\ Silent

\* The answer names the action; approval is asked for scaling actions only.
\* Used-up steps give HOLD.  An action that the model of the report does not know
\* is an exception in the next node (RunFails).
Act(action, required) ==
    /\ run.pc = "act"
    /\ run.steps = MaxToolSteps => action = "HOLD" /\ ~required
    /\ run' = [run EXCEPT !.pc = "report", !.approve = required /\ action = "SCALE_UP"]
    /\ Silent

\* Mutant: the count is the one the investigation was told of.
FetchReport_AsInvestigated(i) ==
    /\ run.pc = "report" /\ Current(i)
    /\ run.verdict \in Verdicts \cup {"missing"}
    /\ run' = [run EXCEPT !.pc = "save", !.asked = {}, !.approve = FALSE,
                  !.stored = [count |-> IF run.recurrence = 0 THEN 1 ELSE run.recurrence, approval |-> 0,
                              mark |-> IF run.approve THEN "required" ELSE "not_required"]]
    /\ Silent

\* The report is put together and validated, the stored one read and counted up.
FetchReport(i) ==
    /\ run.pc = "report" /\ Current(i)
    /\ run.verdict \in Verdicts \cup {"missing"}
    /\ run' = [run EXCEPT !.pc = "save", !.asked = {}, !.approve = FALSE,
                  !.verdict = IF @ = "missing" THEN "UNKNOWN" ELSE @,
                  !.stored = [count |-> reports[i].count + 1, approval |-> 0,
                              mark |-> IF run.approve THEN "required" ELSE "not_required"]]
    /\ Silent

\* A write over a copy somebody is editing, or over an edit, loses one of the two.
Overwrites(i) == Editing(i) # {}

\* upsert_incident_report: a new document, without the old marks.
SaveReport(i) ==
    /\ run.pc = "save" /\ Current(i)
    /\ reports' = [reports EXCEPT ![i] = run.stored]
    /\ saves' = [saves EXCEPT ![i] = @ + 1]
    /\ blurred' = IF Overwrites(i) THEN blurred \cup {i} ELSE blurred
    /\ run' = [NoRun EXCEPT !.pc = "saved", !.incident = {i}, !.stored = run.stored]
    /\ UNCHANGED <<approvals, desk, decisions, lifeVars, runs>>

WantsApproval == run.pc = "saved" /\ run.stored.mark = "required"

CreateApproval(i) ==
    /\ WantsApproval /\ Current(i)
    /\ approvals' = Requested(i)
    /\ run' = [run EXCEPT !.pc = "annotate", !.stored.approval = Len(approvals) + 1]
    /\ UNCHANGED <<reports, desk, decisions, blurred, lifeVars, saves, runs>>

\* The second upsert writes the saved document again, with the approval's identifier.
Annotate(i) ==
    /\ run.pc = "annotate" /\ Current(i)
    /\ reports' = [reports EXCEPT ![i] = run.stored]
    /\ blurred' = IF Overwrites(i) \/ reports[i].mark # run.stored.mark THEN blurred \cup {i} ELSE blurred
    /\ run' = NoRun
    /\ UNCHANGED <<approvals, desk, decisions, lifeVars, saves, runs>>

EndRun ==
    /\ run.pc = "saved" /\ ~WantsApproval
    /\ run' = NoRun
    /\ Silent

\* Everything after the save is swallowed: the request or its mention is missing.
ApprovalFails ==
    /\ WantsApproval \/ run.pc = "annotate"
    /\ blurred' = blurred \cup run.incident
    /\ run' = NoRun
    /\ UNCHANGED <<reports, approvals, desk, decisions, lifeVars, saves, runs>>

\* An answer of the language model is late or invalid, or the database fails:
\* the exception ends the graph.
RunFails ==
    /\ run.pc \in {"investigate", "act", "report", "save"}
    /\ run' = NoRun
    /\ Silent

\* A server or the database never answers.  Only the requests to the language
\* model have a timeout; a session or a call of a tool server and a statement
\* are awaited for ever.
Hang ==
    /\ request = "answered"
    /\ \/ phase # "up"
       \/ run.pc \in {"received", "investigate", "act", "report", "save", "saved", "annotate"}
    /\ request' = "hung"
    /\ UNCHANGED <<phase, attempt, registry, crashes, reportVars, runVars>>

\* Incidents with a write or a decision still to come.
Interrupted ==
    {i \in Incidents : \/ \E c \in Clients : i \in desk[c].incident
                       \/ run.pc \in {"saved", "annotate"} /\ Current(i)}

\* The pod is killed, with every request to it.
Crash ==
    /\ crashes < MaxCrashes
    /\ crashes' = crashes + 1
    /\ blurred' = blurred \cup Interrupted
    /\ desk' = [c \in Clients |-> AtRest]
    /\ run' = NoRun
    /\ phase' = "grafana" /\ attempt' = 0 /\ registry' = {} /\ request' = "answered"
    /\ UNCHANGED <<reports, approvals, decisions, saves, runs>>

EndpointStep(c) ==
    /\ \/ \E a \in DOMAIN approvals : LookUpApproved(c, a) \/ \E k \in Kinds : LookUp(c, a, k)
       \/ Decide(c)
       \/ FetchToMark(c)
       \/ WriteMark(c)
       \/ DecisionFails(c)
    /\ UNCHANGED <<lifeVars, runVars>>

Begin == request = "answered" /\ (LoadGrafana \/ MissGrafana \/ LoadK8s \/ MissK8s)

Continue ==
    /\ request = "answered"
    /\ \/ \E calls \in SUBSET Tools : calls # {} /\ (AskDiagnostic(calls) \/ AskOperative(calls))
       \/ \E action \in ActionNames, required \in BOOLEAN : Act(action, required)
       \/ \E i \in Incidents :
             \/ Investigate(i)
             \/ \E v \in Answers : Conclude(i, v)
             \/ Reason(i)
             \/ FetchReport(i)
             \/ SaveReport(i)
             \/ CreateApproval(i)
             \/ Annotate(i)
       \/ EndRun
       \/ ApprovalFails
       \/ RunFails

Next ==
    \/ Begin
    \/ \E i \in Incidents : ReceiveAlert(i)
    \/ Continue
    \/ Hang
    \/ \E c \in Clients : phase = "up" /\ EndpointStep(c)
    \/ Crash

Spec == Init /\ [][Next]_vars

\* Retries are counted, and what is answered, or given up after its timeout,
\* lets the code go on.  A request that hangs is not: Begin and Continue are
\* then disabled.
FairSpec == Spec /\ WF_vars(Begin) /\ WF_vars(Continue)

-----------------------------------------------------------------------------
(* Properties *)

\* Between requests to the endpoints and runs on the incident.
Settled(i) == ~Current(i) /\ \A c \in Clients : i \notin desk[c].incident

\* occurrence_count, that decides on escalation, is the number of reports saved
\* for the incident, unless its report is blurred: a run saved while an endpoint
\* was editing its copy or over such an edit, a decision or the request for
\* approval failed halfway, or the guardian was killed in the middle of one.
CountIsExact == \A i \in Incidents : i \notin blurred => reports[i].count = saves[i]

\* A report that says approval is required leads to a request that is still
\* undecided, once no decision or run is under way on it: nothing decided looks
\* open, and nothing open lacks a request, unless a write was lost or failed.
RequiredMeansPending ==
    \A i \in Incidents : Settled(i) /\ i \notin blurred /\ reports[i].mark = "required" =>
        /\ reports[i].approval # 0
        /\ approvals[reports[i].approval] = [incident |-> i, status |-> "PENDING"]

\* A recurring CPUSaturation is never reported as unclear (runtime.py:661) if
\* the language model had tools to investigate it and the database answered.
RecurringIsClassified ==
    \A i \in Saturations : run.pc = "save" /\ Current(i) /\ run.recurrence >= 2
        => run.verdict \notin {"UNCLEAR", "UNKNOWN"}

\* The guardian comes up with whatever servers there are, and every run ends,
\* failing or not, as long as no request hangs (runtime.py, start and the graph).
AlwaysAnswers ==
    []<>(phase = "up" \/ request = "hung") /\ []<>(run.pc = "idle" \/ request = "hung")
=============================================================================
