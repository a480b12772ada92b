-------------------------- MODULE GuardianRun_proofs --------------------------
(***************************************************************************)
(* The guardian's reports, for any number of incidents, endpoint requests  *)
(* and runs: the occurrence count stays exact, and a report that says an   *)
(* approval is required names a request that is still open, unless a write *)
(* was lost or failed.                                                     *)
(*                                                                         *)
(* Both rest on what is in flight being current: the copy an endpoint is   *)
(* about to write back, and the document a run is about to save or has     *)
(* saved and may write again.                                              *)
(***************************************************************************)
EXTENDS GuardianRun, SequenceTheorems, TLAPS

\* A run is about one incident, an endpoint request about one or none.
Singles ==
    /\ \A i, j \in run.incident : i = j
    /\ \A c \in Clients : \A i, j \in desk[c].incident : i = j

\* An edited copy differs from the stored report in its mark only.
CopiesAreCurrent ==
    \A c \in Clients : desk[c].pc = "write" =>
        /\ desk[c].copy.mark # "required"
        /\ \A i \in desk[c].incident \ blurred : desk[c].copy.count = reports[i].count

\* The run has counted up the stored report, or its document is stored.
StoredIsCurrent ==
    \A i \in run.incident \ blurred :
        /\ run.pc = "save" => run.stored.count = reports[i].count + 1
        /\ run.pc \in {"saved", "annotate"} => run.stored.count = reports[i].count

CountInv == TypeOK /\ CountIsExact /\ Singles /\ CopiesAreCurrent /\ StoredIsCurrent

\* A decision on the incident has changed its request, but not the report yet.
Marking(i) == \E c \in Clients : desk[c].pc \in {"fetch", "write"} /\ i \in desk[c].incident

\* Request a is about i and open, or its decision is on the way to the report.
Leads(i, a) ==
    /\ a \in DOMAIN approvals
    /\ approvals[a].incident = i
    /\ approvals[a].status = "PENDING" \/ Marking(i)

\* The run has saved its report and is not through with the request.
Requesting(i) == Current(i) /\ run.pc \in {"saved", "annotate"}

RequiredLeads ==
    \A i \in Incidents \ blurred : reports[i].mark = "required" =>
        IF Requesting(i)
        THEN /\ run.stored.mark = "required"
             /\ run.pc = "annotate" => Leads(i, run.stored.approval)
        ELSE Leads(i, reports[i].approval)

AnnotatesRequired == run.pc = "annotate" => run.stored.mark = "required"

\* An endpoint request without an incident was not about an open request.
DecidesKnown ==
    \A c \in Clients : desk[c].pc = "decide" =>
        /\ desk[c].approval \in DOMAIN approvals
        /\ desk[c].incident \subseteq {approvals[desk[c].approval].incident}
        /\ desk[c].incident = {} => approvals[desk[c].approval].status # "PENDING"

MarkInv == CountInv /\ RequiredLeads /\ AnnotatesRequired /\ DecidesKnown

-----------------------------------------------------------------------------
LEMMA ConstantTypes ==
    /\ NoReport \in ReportType
    /\ NoRun \in RunType
    /\ AtRest \in WorkType
  BY RunAssumption DEF NoReport, ReportType, Marks, NoRun, RunType, Steps, AtRest, WorkType, Kinds

LEMMA DecisionTypes ==
    ASSUME NEW k \in Kinds
    PROVE  /\ StatusAfter[k] \in Statuses \ {"PENDING"}
           /\ MarkAfter[k] \in Marks \ {"required"}
  <1>1. CASE k = "approve"
    BY <1>1 DEF StatusAfter, Statuses, MarkAfter, Marks
  <1>2. CASE k = "deny"
    BY <1>2 DEF StatusAfter, Statuses, MarkAfter, Marks
  <1>3. CASE k = "execute"
    BY <1>3 DEF StatusAfter, Statuses, MarkAfter, Marks
  <1> QED
    BY <1>1, <1>2, <1>3 DEF Kinds

LEMMA InitTypes == Init => TypeOK
  BY ConstantTypes, RunAssumption, DecisionsAssumption
  DEF Init, ReportsInit, TypeOK, ReportsTypeOK

\* The steps of the guardian's start.
LEMMA BeginTypes == TypeOK /\ Begin => TypeOK'
  <1> SUFFICES ASSUME TypeOK, Begin PROVE TypeOK'
    OBVIOUS
  <1>1. ReportsTypeOK' /\ run' \in RunType
    BY DEF TypeOK, ReportsTypeOK, WorkType, Begin, LoadGrafana, MissGrafana, LoadK8s, MissK8s, reportVars, runVars
  <1> QED
    BY <1>1, RunAssumption
    DEF TypeOK, Begin, LoadGrafana, MissGrafana, LoadK8s, MissK8s, Tools, runVars, reportVars

\* A step that changes nothing but the run.
LEMMA SilentTypes == TypeOK /\ Silent /\ run' \in RunType => TypeOK'
  BY DEF TypeOK, Silent, ReportsTypeOK, WorkType, reportVars, lifeVars

LEMMA SilentStepTypes ==
    ASSUME TypeOK, Silent,
           \/ \E i \in Incidents :
                \/ Investigate(i) \/ Reason(i) \/ FetchReport(i)
                \/ \E v \in Answers : Conclude(i, v)
           \/ \E calls \in SUBSET Tools : AskDiagnostic(calls) \/ AskOperative(calls)
           \/ \E action \in ActionNames, required \in BOOLEAN : Act(action, required)
           \/ EndRun \/ RunFails
    PROVE  TypeOK'
  <1> USE ConstantTypes
  <1>t. run \in RunType /\ reports \in [Incidents -> ReportType]
    BY DEF TypeOK, ReportsTypeOK
  <1>1. ASSUME NEW i \in Incidents, Investigate(i) PROVE run' \in RunType
    <2>1. reports[i].count \in Nat
      BY <1>t DEF ReportType
    <2>2. CASE Diagnostic = {}
      BY <1>1, <2>2, <1>t DEF Investigate, RunType, Steps
    <2>3. CASE Diagnostic # {}
      <3>1. PICK known \in BOOLEAN :
              run' = [run EXCEPT !.pc = "investigate",
                                 !.recurrence = IF known /\ reports[i] # NoReport
                                                THEN reports[i].count + 1 ELSE 0]
        BY <1>1, <2>3 DEF Investigate
      <3>2. (IF known /\ reports[i] # NoReport THEN reports[i].count + 1 ELSE 0) \in Nat
        BY <2>1
      <3> QED
        BY <3>1, <3>2, <1>t DEF RunType, Steps
    <2> QED
      BY <2>2, <2>3
  <1>2. ASSUME NEW i \in Incidents, Reason(i) PROVE run' \in RunType
    BY <1>2, <1>t DEF Reason, RunType, Steps
  <1>3. ASSUME NEW i \in Incidents, FetchReport(i) PROVE run' \in RunType
    <2>1. reports[i].count + 1 \in Nat
      BY <1>t DEF ReportType
    <2>2. [count |-> reports[i].count + 1, approval |-> 0,
           mark |-> IF run.approve THEN "required" ELSE "not_required"] \in ReportType
      BY <2>1 DEF ReportType, Marks
    <2> QED
      BY <1>3, <2>2, <1>t DEF FetchReport, RunType, Steps, Verdicts
  <1>4. ASSUME NEW i \in Incidents, NEW v \in Answers, Conclude(i, v) PROVE run' \in RunType
    <2>1. Classified(i, v) \in Verdicts \cup Answers \cup {"missing"}
      BY DEF Classified, Verdicts
    <2>2. 0 \in 0 .. MaxToolSteps
      BY RunAssumption
    <2> QED
      BY <1>4, <2>1, <2>2, <1>t DEF Conclude, RunType, Steps
  <1>5. ASSUME NEW calls \in SUBSET Tools, NEW allowed, Ask(calls, allowed) PROVE run' \in RunType
    <2>1. PICK spike \in BOOLEAN, unhealthy \in BOOLEAN :
             run' = [run EXCEPT !.steps = @ + 1, !.asked = @ \cup calls,
                                !.spike = @ \/ spike, !.unhealthy = @ \/ unhealthy]
      BY <1>5 DEF Ask
    <2>2. run.steps + 1 \in 0 .. MaxToolSteps
      BY <1>5, <1>t, RunAssumption DEF Ask, RunType
    <2>3. (run.spike \/ spike) \in BOOLEAN /\ (run.unhealthy \/ unhealthy) \in BOOLEAN
      OBVIOUS
    <2> QED
      BY <2>1, <2>2, <2>3, <1>t DEF RunType, Steps
  <1>6. ASSUME NEW action \in ActionNames, NEW required \in BOOLEAN, Act(action, required)
        PROVE  run' \in RunType
    BY <1>6, <1>t DEF Act, RunType, Steps
  <1>7. CASE EndRun \/ RunFails
    BY <1>7, SilentTypes DEF EndRun, RunFails
  <1> QED
    BY <1>1, <1>2, <1>3, <1>4, <1>5, <1>6, <1>7, SilentTypes DEF AskDiagnostic, AskOperative

\* The steps of a run that write to the database.
LEMMA WritingStepTypes ==
    ASSUME TypeOK, NEW i \in Incidents, SaveReport(i) \/ CreateApproval(i) \/ Annotate(i)
    PROVE  TypeOK'
  <1> USE ConstantTypes
  <1>t. run \in RunType /\ reports \in [Incidents -> ReportType] /\ run.stored \in ReportType
    BY DEF TypeOK, ReportsTypeOK, RunType
  <1>1. CASE SaveReport(i)
    <2>1. run' \in RunType
      BY <1>1, <1>t DEF SaveReport, RunType, Steps
    <2>2. reports' \in [Incidents -> ReportType] /\ saves' \in [Incidents -> Nat]
      BY <1>1, <1>t DEF SaveReport, TypeOK
    <2> QED
      BY <1>1, <2>1, <2>2 DEF SaveReport, TypeOK, ReportsTypeOK, WorkType, lifeVars
  <1>2. CASE CreateApproval(i)
    <2>1. [incident |-> i, status |-> "PENDING"] \in RequestType
      BY DEF RequestType, Statuses
    <2>2. approvals' \in Seq(RequestType) /\ Len(approvals') = Len(approvals) + 1 /\ Len(approvals) \in Nat
      BY <1>2, <2>1 DEF CreateApproval, Requested, TypeOK, ReportsTypeOK
    <2>3. run' \in RunType
      <3>1. [run.stored EXCEPT !.approval = Len(approvals) + 1] \in ReportType
        BY <1>t, <2>2 DEF ReportType
      <3>2. run' = [run EXCEPT !.pc = "annotate",
                               !.stored = [run.stored EXCEPT !.approval = Len(approvals) + 1]]
        BY <1>2, <1>t DEF CreateApproval, RunType, ReportType
      <3> QED
        BY <3>1, <3>2, <1>t DEF RunType, Steps
    <2>4. desk' \in [Clients -> WorkType']
      BY <1>2, <2>2 DEF CreateApproval, TypeOK, ReportsTypeOK, WorkType
    <2> QED
      BY <1>2, <2>2, <2>3, <2>4 DEF CreateApproval, TypeOK, ReportsTypeOK, lifeVars
  <1>3. CASE Annotate(i)
    BY <1>3, <1>t DEF Annotate, TypeOK, ReportsTypeOK, WorkType, lifeVars
  <1> QED
    BY <1>1, <1>2, <1>3

LEMMA EndpointTypes ==
    ASSUME TypeOK, NEW c \in Clients, EndpointStep(c)
    PROVE  TypeOK'
  <1> USE ConstantTypes
  <1>t. /\ approvals \in Seq(RequestType) /\ Len(approvals) \in Nat
        /\ \A a \in DOMAIN approvals : approvals[a] \in RequestType /\ a \in 0 .. Len(approvals)
        /\ reports \in [Incidents -> ReportType]
        /\ desk \in [Clients -> WorkType] /\ desk[c] \in WorkType
        /\ decisions < MaxDecisions => decisions + 1 \in 0 .. MaxDecisions
    BY DecisionsAssumption DEF TypeOK, ReportsTypeOK
  <1>0. lifeVars' = lifeVars /\ runVars' = runVars
    BY DEF EndpointStep
  <1>1. ASSUME NEW a \in DOMAIN approvals, LookUpApproved(c, a) PROVE TypeOK'
    <2>1. [AtRest EXCEPT !.pc = "decide", !.kind = "execute", !.approval = a,
                         !.incident = {approvals[a].incident}] \in WorkType
      BY <1>t DEF WorkType, Kinds, RequestType
    <2> QED
      BY <1>0, <1>1, <1>t, <2>1
      DEF LookUpApproved, TypeOK, ReportsTypeOK, WorkType, lifeVars, runVars
  <1>2. ASSUME NEW a \in DOMAIN approvals, NEW k \in Kinds, LookUp(c, a, k) PROVE TypeOK'
    <2>1. [AtRest EXCEPT !.pc = "decide", !.kind = k, !.approval = a,
               !.incident = IF approvals[a].status = "PENDING" THEN {approvals[a].incident} ELSE {}]
            \in WorkType
      BY <1>t DEF WorkType, RequestType
    <2> QED
      BY <1>0, <1>2, <1>t, <2>1
      DEF LookUp, TypeOK, ReportsTypeOK, WorkType, lifeVars, runVars
  <1>3. CASE Decide(c)
    <2>1. approvals' \in Seq(RequestType) /\ Len(approvals') = Len(approvals)
      <3>1. StatusAfter[desk[c].kind] \in Statuses
        BY <1>t, DecisionTypes DEF WorkType
      <3>2. approvals' = [approvals EXCEPT ![desk[c].approval].status = StatusAfter[desk[c].kind]]
        BY <1>3 DEF Decide
      <3>3. \A a \in 1 .. Len(approvals) :
              [approvals[a] EXCEPT !.status = StatusAfter[desk[c].kind]] \in RequestType
        BY <1>t, <3>1 DEF RequestType
      <3> DEFINE a == desk[c].approval
                 e == [approvals[a] EXCEPT !.status = StatusAfter[desk[c].kind]]
      <3>4. approvals' = [approvals EXCEPT ![a] = e] /\ DOMAIN approvals = 1 .. Len(approvals)
        BY <3>2, <1>t
      <3>5. approvals' \in [1 .. Len(approvals) -> RequestType]
        BY <1>t, <3>3, <3>4
      <3> QED
        BY <1>t, <3>5
    <2>2. desk' \in [Clients -> WorkType]
      BY <1>3, <1>t DEF Decide, WorkType
    <2> QED
      BY <1>0, <1>3, <1>t, <2>1, <2>2
      DEF Decide, TypeOK, ReportsTypeOK, WorkType, lifeVars, runVars
  <1>4. CASE FetchToMark(c)
    <2>1. ASSUME NEW i \in Incidents
          PROVE  [AtRest EXCEPT !.pc = "write", !.incident = {i},
                      !.copy = [reports[i] EXCEPT !.mark = MarkAfter[desk[c].kind]]] \in WorkType
      <3>1. MarkAfter[desk[c].kind] \in Marks
        BY <1>t, DecisionTypes DEF WorkType
      <3>2. [reports[i] EXCEPT !.mark = MarkAfter[desk[c].kind]] \in ReportType
        BY <1>t, <3>1 DEF ReportType
      <3> QED
        BY <3>2 DEF WorkType
    <2>2. desk' \in [Clients -> WorkType]
      BY <1>4, <1>t, <2>1 DEF FetchToMark, WorkType
    <2> QED
      BY <1>0, <1>4, <1>t, <2>2
      DEF FetchToMark, TypeOK, ReportsTypeOK, WorkType, lifeVars, runVars
  <1>5. CASE WriteMark(c)
    <2>1. reports' \in [Incidents -> ReportType]
      BY <1>5, <1>t DEF WriteMark, WorkType
    <2> QED
      BY <1>0, <1>5, <1>t, <2>1
      DEF WriteMark, TypeOK, ReportsTypeOK, WorkType, lifeVars, runVars
  <1>6. CASE DecisionFails(c)
    BY <1>0, <1>6, <1>t
    DEF DecisionFails, TypeOK, ReportsTypeOK, WorkType, lifeVars, runVars
  <1> QED
    BY <1>1, <1>2, <1>3, <1>4, <1>5, <1>6 DEF EndpointStep

LEMMA TypeStep == TypeOK /\ [Next]_vars => TypeOK'
  <1> SUFFICES ASSUME TypeOK, [Next]_vars PROVE TypeOK'
    OBVIOUS
  <1>1. ASSUME NEW i \in Incidents, ReceiveAlert(i) PROVE TypeOK'
    <2>1. run' \in RunType
      BY <1>1, ConstantTypes DEF ReceiveAlert, RunType, Steps
    <2>2. runs' \in 0 .. MaxRuns
      BY <1>1, RunAssumption DEF ReceiveAlert, TypeOK
    <2> QED
      BY <1>1, <2>1, <2>2 DEF ReceiveAlert, TypeOK, ReportsTypeOK, WorkType, reportVars, lifeVars
  <1>2. ASSUME Continue PROVE TypeOK'
    <2>1. CASE ApprovalFails
      BY <1>2, <2>1, ConstantTypes
      DEF ApprovalFails, TypeOK, ReportsTypeOK, WorkType, RunType, lifeVars
    <2>2. CASE EndRun \/ RunFails
      BY <2>2, SilentStepTypes DEF EndRun, RunFails
    <2>3. ASSUME NEW i \in Incidents,
                 \/ Investigate(i) \/ Reason(i) \/ FetchReport(i)
                 \/ \E v \in Answers : Conclude(i, v)
          PROVE  TypeOK'
      <3>1. Silent
        BY <2>3 DEF Investigate, Reason, FetchReport, Conclude
      <3> QED
        BY <2>3, <3>1, SilentStepTypes
    <2>4. ASSUME NEW i \in Incidents, SaveReport(i) \/ CreateApproval(i) \/ Annotate(i)
          PROVE  TypeOK'
      BY <2>4, WritingStepTypes
    <2>5. ASSUME NEW calls \in SUBSET Tools, AskDiagnostic(calls) \/ AskOperative(calls)
          PROVE  TypeOK'
      <3>1. Silent
        BY <2>5 DEF AskDiagnostic, AskOperative, Ask
      <3> QED
        BY <2>5, <3>1, SilentStepTypes
    <2>6. ASSUME NEW action \in ActionNames, NEW required \in BOOLEAN, Act(action, required)
          PROVE  TypeOK'
      <3>1. Silent
        BY <2>6 DEF Act
      <3> QED
        BY <2>6, <3>1, SilentStepTypes
    <2> QED
      BY <1>2, <2>1, <2>2, <2>3, <2>4, <2>5, <2>6 DEF Continue
  <1>3. CASE Crash
    <2>1. blurred' \subseteq Incidents
      BY <1>3 DEF Crash, Interrupted, TypeOK, ReportsTypeOK
    <2> QED
      BY <1>3, <2>1, ConstantTypes, RunAssumption DEF Crash, TypeOK, ReportsTypeOK, WorkType
  <1>4. CASE Hang
    BY <1>4 DEF Hang, TypeOK, ReportsTypeOK, WorkType, reportVars, runVars
  <1>5. CASE UNCHANGED vars
    BY <1>5 DEF TypeOK, ReportsTypeOK, WorkType, vars, reportVars, lifeVars, runVars
  <1> QED
    BY <1>1, <1>2, <1>3, <1>4, <1>5, BeginTypes, EndpointTypes DEF Next

\* The tables, the endpoints and the run keep their types: an endpoint works on a
\* request that exists, and the loop never exceeds MAX_TOOL_STEPS.
THEOREM TypeCorrect == Spec => []TypeOK
  BY InitTypes, TypeStep, PTL DEF Spec

-----------------------------------------------------------------------------
LEMMA InitCounts == Init => CountInv
  BY InitTypes
  DEF Init, ReportsInit, CountInv, CountIsExact, Singles, CopiesAreCurrent, StoredIsCurrent,
      NoReport, NoRun, AtRest

\* Steps that touch neither the reports nor the copies, and after which the run
\* has nothing to save.
LEMMA NothingToSave ==
    ASSUME CountInv, UNCHANGED <<reports, desk, saves>>, blurred \subseteq blurred',
           run'.pc \notin {"save", "saved", "annotate"},
           \A i, j \in run'.incident : i = j
    PROVE  (CountIsExact /\ Singles /\ CopiesAreCurrent /\ StoredIsCurrent)'
  BY DEF CountInv, CountIsExact, Singles, CopiesAreCurrent, StoredIsCurrent

LEMMA AskingIsQuiet ==
    ASSUME TypeOK,
           \/ \E i \in Incidents : Investigate(i) \/ Reason(i) \/ \E v \in Answers : Conclude(i, v)
           \/ \E calls \in SUBSET Tools : AskDiagnostic(calls) \/ AskOperative(calls)
           \/ \E action \in ActionNames, required \in BOOLEAN : Act(action, required)
    PROVE  /\ Silent
           /\ run.pc \in {"received", "investigate", "reason", "act"}
           /\ run'.pc \in {"investigate", "reason", "act", "report"}
           /\ run'.incident = run.incident
  <1>t. run \in RunType
    BY DEF TypeOK
  <1>1. ASSUME NEW i \in Incidents, Investigate(i)
        PROVE  /\ Silent /\ run.pc = "received" /\ run'.incident = run.incident
               /\ run'.pc \in {"reason", "investigate"}
    <2>1. CASE Diagnostic = {}
      BY <1>1, <1>t, <2>1 DEF Investigate, RunType
    <2>2. CASE Diagnostic # {}
      <3>1. PICK known \in BOOLEAN :
              run' = [run EXCEPT !.pc = "investigate",
                                 !.recurrence = IF known /\ reports[i] # NoReport
                                                THEN reports[i].count + 1 ELSE 0]
        BY <1>1, <2>2 DEF Investigate
      <3> QED
        BY <1>1, <1>t, <3>1 DEF Investigate, RunType
    <2> QED
      BY <2>1, <2>2
  <1>2. ASSUME NEW i \in Incidents, Reason(i)
        PROVE  /\ Silent /\ run.pc = "reason" /\ run'.incident = run.incident
               /\ run'.pc \in {"act", "report"}
    BY <1>2, <1>t DEF Reason, RunType
  <1>3. ASSUME NEW i \in Incidents, NEW v \in Answers, Conclude(i, v)
        PROVE  /\ Silent /\ run.pc = "investigate" /\ run'.incident = run.incident
               /\ run'.pc = "reason"
    BY <1>3, <1>t DEF Conclude, RunType
  <1>4. ASSUME NEW calls, NEW allowed, Ask(calls, allowed)
        PROVE  Silent /\ run'.incident = run.incident /\ run'.pc = run.pc
    BY <1>4, <1>t DEF Ask, RunType
  <1>5. ASSUME NEW action \in ActionNames, NEW required \in BOOLEAN, Act(action, required)
        PROVE  /\ Silent /\ run.pc = "act" /\ run'.incident = run.incident
               /\ run'.pc = "report"
    BY <1>5, <1>t DEF Act, RunType
  <1> QED
    BY <1>1, <1>2, <1>3, <1>4, <1>5 DEF AskDiagnostic, AskOperative

LEMMA RunCounts ==
    ASSUME CountInv, TypeOK', NEW i \in Incidents,
           \/ FetchReport(i) \/ SaveReport(i) \/ CreateApproval(i) \/ Annotate(i)
    PROVE  (CountIsExact /\ Singles /\ CopiesAreCurrent /\ StoredIsCurrent)'
  <1>t. /\ run \in RunType /\ reports \in [Incidents -> ReportType] /\ saves \in [Incidents -> Nat]
        /\ reports[i].count \in Nat
    BY DEF CountInv, TypeOK, ReportsTypeOK, ReportType
  <1>0. Current(i) => run.incident = {i}
    BY DEF Current, CountInv, Singles
  <1>1. CASE FetchReport(i)
    BY <1>t, <1>0, <1>1
    DEF FetchReport, Silent, reportVars, CountInv, CountIsExact, Singles, CopiesAreCurrent,
        StoredIsCurrent, RunType
  <1>2. CASE SaveReport(i)
    <2>1. /\ reports' = [reports EXCEPT ![i] = run.stored] /\ saves' = [saves EXCEPT ![i] = @ + 1]
          /\ run'.pc = "saved" /\ run'.incident = {i} /\ run'.stored = run.stored
          /\ desk' = desk /\ blurred \subseteq blurred' /\ (Editing(i) # {} => i \in blurred')
          /\ run.pc = "save" /\ run.incident = {i}
      BY <1>0, <1>2 DEF SaveReport, NoRun, Overwrites
    <2>2. CountIsExact'
      BY <1>t, <2>1 DEF CountInv, CountIsExact, StoredIsCurrent
    <2>3. Singles' /\ StoredIsCurrent'
      BY <1>t, <2>1 DEF CountInv, Singles, StoredIsCurrent
    <2>4. CopiesAreCurrent'
      <3> SUFFICES ASSUME NEW c \in Clients, desk[c].pc = "write",
                          NEW j \in desk[c].incident \ blurred'
                   PROVE  desk[c].copy.count = reports'[j].count
        BY <2>1 DEF CountInv, CopiesAreCurrent
      <3>1. desk[c].incident = {j}
        BY DEF CountInv, Singles
      <3>2. j # i
        BY <2>1, <3>1 DEF Editing
      <3> QED
        BY <1>t, <2>1, <3>2 DEF CountInv, CopiesAreCurrent
    <2> QED
      BY <2>2, <2>3, <2>4
  <1>3. CASE CreateApproval(i)
    <2>1. run'.incident = run.incident /\ run'.stored.count = run.stored.count /\ run'.pc = "annotate"
      BY <1>t, <1>3 DEF CreateApproval, RunType, ReportType
    <2> QED
      BY <1>3, <2>1
      DEF CreateApproval, WantsApproval, CountInv, CountIsExact, Singles, CopiesAreCurrent, StoredIsCurrent
  <1>4. CASE Annotate(i)
    <2>1. /\ reports' = [reports EXCEPT ![i] = run.stored] /\ saves' = saves /\ desk' = desk
          /\ run'.pc = "idle" /\ run'.incident = {} /\ blurred \subseteq blurred'
          /\ run.pc = "annotate" /\ run.incident = {i}
      BY <1>0, <1>4 DEF Annotate, NoRun
    <2>2. \A j \in Incidents \ blurred : reports'[j].count = reports[j].count
      BY <1>t, <2>1 DEF CountInv, StoredIsCurrent
    <2> QED
      BY <1>t, <2>1, <2>2
      DEF CountInv, CountIsExact, Singles, CopiesAreCurrent, StoredIsCurrent, TypeOK, ReportsTypeOK, WorkType
  <1> QED
    BY <1>1, <1>2, <1>3, <1>4

\* What the endpoints do to the counts: nothing, as long as no write is lost.
LEMMA EndpointCounts ==
    ASSUME CountInv, TypeOK', NEW c \in Clients, EndpointStep(c)
    PROVE  (CountIsExact /\ Singles /\ CopiesAreCurrent /\ StoredIsCurrent)'
  <1>t. /\ reports \in [Incidents -> ReportType] /\ desk \in [Clients -> WorkType] /\ desk[c] \in WorkType
        /\ run \in RunType
    BY DEF CountInv, TypeOK, ReportsTypeOK
  <1>0. run' = run /\ saves' = saves
    BY DEF EndpointStep, runVars
  <1>1. ASSUME reports' = reports, blurred \subseteq blurred', NEW w,
               desk' = [desk EXCEPT ![c] = w], w.pc # "write",
               \A i, j \in w.incident : i = j
        PROVE  (CountIsExact /\ Singles /\ CopiesAreCurrent /\ StoredIsCurrent)'
    BY <1>0, <1>1, <1>t DEF CountInv, CountIsExact, Singles, CopiesAreCurrent, StoredIsCurrent
  <1>2. AtRest.pc = "idle" /\ AtRest.incident = {}
    BY DEF AtRest
  <1>3. ASSUME NEW a \in DOMAIN approvals, LookUpApproved(c, a)
        PROVE  (CountIsExact /\ Singles /\ CopiesAreCurrent /\ StoredIsCurrent)'
    <2> DEFINE w == [AtRest EXCEPT !.pc = "decide", !.kind = "execute", !.approval = a,
                                   !.incident = {approvals[a].incident}]
    <2>1. w.pc # "write" /\ \A i, j \in w.incident : i = j
      BY DEF AtRest
    <2>2. desk' = [desk EXCEPT ![c] = w] /\ reports' = reports /\ blurred \subseteq blurred'
      BY <1>3 DEF LookUpApproved
    <2> HIDE DEF w
    <2> QED
      BY <1>1, <2>1, <2>2
  <1>4. ASSUME NEW a \in DOMAIN approvals, NEW k \in Kinds, LookUp(c, a, k)
        PROVE  (CountIsExact /\ Singles /\ CopiesAreCurrent /\ StoredIsCurrent)'
    <2> DEFINE w == [AtRest EXCEPT !.pc = "decide", !.kind = k, !.approval = a,
                     !.incident = IF approvals[a].status = "PENDING" THEN {approvals[a].incident} ELSE {}]
    <2>1. w.pc # "write" /\ \A i, j \in w.incident : i = j
      BY DEF AtRest
    <2>2. desk' = [desk EXCEPT ![c] = w] /\ reports' = reports /\ blurred \subseteq blurred'
      BY <1>4 DEF LookUp
    <2> HIDE DEF w
    <2> QED
      BY <1>1, <2>1, <2>2
  <1>5. CASE Decide(c)
    <2> DEFINE w == IF desk[c].incident = {} THEN AtRest ELSE [desk[c] EXCEPT !.pc = "fetch"]
    <2>1. w.pc # "write" /\ \A i, j \in w.incident : i = j
      BY <1>2, <1>t DEF WorkType, CountInv, Singles
    <2>2. desk' = [desk EXCEPT ![c] = w] /\ reports' = reports /\ blurred \subseteq blurred'
      BY <1>5 DEF Decide
    <2> HIDE DEF w
    <2> QED
      BY <1>1, <2>1, <2>2
  <1>6. CASE FetchToMark(c)
    <2>1. PICK i \in desk[c].incident :
            desk' = [desk EXCEPT ![c] =
                        IF reports[i] = NoReport /\ desk[c].kind # "execute" THEN AtRest
                        ELSE [AtRest EXCEPT !.pc = "write", !.incident = {i},
                                            !.copy = [reports[i] EXCEPT !.mark = MarkAfter[desk[c].kind]]]]
      BY <1>6 DEF FetchToMark
    <2>2. CASE reports[i] = NoReport /\ desk[c].kind # "execute"
      BY <1>1, <1>2, <1>6, <2>1, <2>2 DEF FetchToMark
    <2>3. CASE ~(reports[i] = NoReport /\ desk[c].kind # "execute")
      <3> DEFINE w == [AtRest EXCEPT !.pc = "write", !.incident = {i},
                                     !.copy = [reports[i] EXCEPT !.mark = MarkAfter[desk[c].kind]]]
      <3>1. i \in Incidents
        BY <1>t DEF WorkType
      <3>2. w.pc = "write" /\ w.incident = {i} /\ w.copy.count = reports[i].count /\ w.copy.mark # "required"
        <4>1. MarkAfter[desk[c].kind] # "required"
          BY <1>t, DecisionTypes DEF WorkType
        <4>2. w.copy = [reports[i] EXCEPT !.mark = MarkAfter[desk[c].kind]]
          BY DEF AtRest
        <4> QED
          BY <1>t, <3>1, <4>1, <4>2 DEF AtRest, ReportType
      <3>3. desk' = [desk EXCEPT ![c] = w] /\ reports' = reports /\ blurred' = blurred
        BY <1>6, <2>1, <2>3 DEF FetchToMark
      <3> HIDE DEF w
      <3> QED
        BY <1>0, <1>t, <3>1, <3>2, <3>3
        DEF CountInv, CountIsExact, Singles, CopiesAreCurrent, StoredIsCurrent
    <2> QED
      BY <2>2, <2>3
  <1>7. CASE WriteMark(c)
    <2>1. PICK i \in desk[c].incident : reports' = [reports EXCEPT ![i] = desk[c].copy]
      BY <1>7 DEF WriteMark
    <2>2. desk' = [desk EXCEPT ![c] = AtRest] /\ blurred' = blurred /\ desk[c].pc = "write"
      BY <1>7 DEF WriteMark
    <2>3. \A j \in Incidents \ blurred : reports'[j].count = reports[j].count
      BY <1>t, <2>1, <2>2 DEF CountInv, CopiesAreCurrent
    <2>4. run.incident \subseteq Incidents /\ \A d \in Clients : desk[d].incident \subseteq Incidents
      BY <1>t DEF RunType, WorkType
    <2> QED
      BY <1>0, <1>2, <1>t, <2>2, <2>3, <2>4
      DEF CountInv, CountIsExact, Singles, CopiesAreCurrent, StoredIsCurrent
  <1>8. CASE DecisionFails(c)
    BY <1>1, <1>2, <1>8 DEF DecisionFails
  <1> QED
    BY <1>3, <1>4, <1>5, <1>6, <1>7, <1>8 DEF EndpointStep

LEMMA CountStep == CountInv /\ [Next]_vars => CountInv'
  <1> SUFFICES ASSUME CountInv, [Next]_vars
               PROVE  (CountIsExact /\ Singles /\ CopiesAreCurrent /\ StoredIsCurrent)'
    BY TypeStep DEF CountInv
  <1>t. TypeOK /\ TypeOK'
    BY TypeStep DEF CountInv
  <1>0. NoRun.pc = "idle" /\ NoRun.incident = {}
    BY DEF NoRun
  <1>s. \A i, j \in run.incident : i = j
    BY DEF CountInv, Singles
  <1>1. CASE Begin \/ Hang \/ UNCHANGED vars
    <2>1. UNCHANGED <<reports, desk, saves, blurred, run>>
      BY <1>1
      DEF Begin, LoadGrafana, MissGrafana, LoadK8s, MissK8s, Hang, vars, reportVars, runVars
    <2> QED
      BY <2>1 DEF CountInv, CountIsExact, Singles, CopiesAreCurrent, StoredIsCurrent
  <1>2. ASSUME NEW i \in Incidents, ReceiveAlert(i)
        PROVE  (CountIsExact /\ Singles /\ CopiesAreCurrent /\ StoredIsCurrent)'
    <2>1. run'.pc = "received" /\ run'.incident = {i}
      BY <1>2 DEF ReceiveAlert, NoRun
    <2> QED
      BY <1>2, <2>1, NothingToSave DEF ReceiveAlert, reportVars
  <1>3. CASE Continue
    <2>1. CASE EndRun \/ RunFails \/ ApprovalFails
      BY <1>0, <2>1, NothingToSave DEF EndRun, RunFails, ApprovalFails, Silent, reportVars
    <2>2. CASE \E i \in Incidents :
                  FetchReport(i) \/ SaveReport(i) \/ CreateApproval(i) \/ Annotate(i)
      BY <1>t, <2>2, RunCounts
    <2>3. CASE \/ \E i \in Incidents : Investigate(i) \/ Reason(i) \/ \E v \in Answers : Conclude(i, v)
               \/ \E calls \in SUBSET Tools : AskDiagnostic(calls) \/ AskOperative(calls)
               \/ \E action \in ActionNames, required \in BOOLEAN : Act(action, required)
      <3>1. /\ Silent /\ run'.pc \in {"investigate", "reason", "act", "report"}
            /\ run'.incident = run.incident
        BY <1>t, <2>3, AskingIsQuiet
      <3> QED
        BY <1>s, <3>1, NothingToSave DEF Silent, reportVars
    <2> QED
      BY <1>3, <2>1, <2>2, <2>3 DEF Continue
  <1>4. ASSUME NEW c \in Clients, EndpointStep(c)
        PROVE  (CountIsExact /\ Singles /\ CopiesAreCurrent /\ StoredIsCurrent)'
    BY <1>t, <1>4, EndpointCounts
  <1>5. CASE Crash
    <2>1. /\ UNCHANGED <<reports, saves>> /\ blurred \subseteq blurred' /\ run' = NoRun
          /\ \A c \in Clients : desk'[c].pc = "idle" /\ desk'[c].incident = {}
      BY <1>5 DEF Crash, AtRest
    <2> QED
      BY <1>0, <2>1 DEF CountInv, CountIsExact, Singles, CopiesAreCurrent, StoredIsCurrent
  <1> QED
    BY <1>1, <1>2, <1>3, <1>4, <1>5 DEF Next

\* occurrence_count is the number of reports saved, for any number of decisions
\* on the incident's requests: an endpoint writes back the count it has read, and
\* the run counts up what is stored (generate_report_node).
THEOREM CountsAreExact == Spec => []CountIsExact
  <1>1. CountInv => CountIsExact
    BY DEF CountInv
  <1> QED
    BY <1>1, InitCounts, CountStep, PTL DEF Spec

-----------------------------------------------------------------------------
LEMMA InitMarks == Init => MarkInv
  BY InitCounts
  DEF Init, ReportsInit, MarkInv, RequiredLeads, AnnotatesRequired, DecidesKnown, NoReport, NoRun, AtRest

\* Steps that leave reports and requests alone, after which no request is under way.
LEMMA NoRequestUnderWay ==
    ASSUME MarkInv, UNCHANGED <<reports, approvals, desk>>, blurred \subseteq blurred',
           run'.pc \notin {"saved", "annotate"},
           \A i \in Incidents \ blurred' : Requesting(i) => reports[i].mark # "required"
    PROVE  (RequiredLeads /\ AnnotatesRequired /\ DecidesKnown)'
  <1>1. \A i, a : Leads(i, a) => Leads(i, a)'
    BY DEF Leads, Marking
  <1>2. \A i \in Incidents \ blurred' : reports'[i].mark = "required" =>
           Leads(i, reports[i].approval) /\ ~Requesting(i)'
    BY DEF MarkInv, RequiredLeads, Requesting
  <1>3. RequiredLeads'
    BY <1>1, <1>2 DEF RequiredLeads
  <1> QED
    BY <1>3 DEF MarkInv, AnnotatesRequired, DecidesKnown

LEMMA RunMarks ==
    ASSUME MarkInv, TypeOK', NEW i \in Incidents,
           \/ SaveReport(i) \/ CreateApproval(i) \/ Annotate(i)
    PROVE  (RequiredLeads /\ AnnotatesRequired /\ DecidesKnown)'
  <1>t. /\ run \in RunType /\ run.stored \in ReportType
        /\ reports \in [Incidents -> ReportType] /\ approvals \in Seq(RequestType)
        /\ desk \in [Clients -> WorkType]
    BY DEF MarkInv, CountInv, TypeOK, ReportsTypeOK, RunType
  <1>0. Current(i) => run.incident = {i}
    BY DEF Current, MarkInv, CountInv, Singles
  <1>1. CASE SaveReport(i)
    <2>1. /\ reports' = [reports EXCEPT ![i] = run.stored] /\ blurred \subseteq blurred'
          /\ run'.pc = "saved" /\ run'.incident = {i} /\ run'.stored = run.stored
          /\ desk' = desk /\ approvals' = approvals /\ run.pc = "save"
      BY <1>1 DEF SaveReport, NoRun
    <2>2. \A j, a : Leads(j, a) => Leads(j, a)'
      BY <2>1 DEF Leads, Marking
    <2>3. RequiredLeads'
      <3> SUFFICES ASSUME NEW j \in Incidents, j \notin blurred', reports'[j].mark = "required"
                   PROVE  IF Requesting(j)'
                          THEN /\ run'.stored.mark = "required"
                               /\ run'.pc = "annotate" => Leads(j, run.stored.approval)'
                          ELSE Leads(j, reports[j].approval)'
        BY <1>t, <2>1 DEF RequiredLeads
      <3>1. CASE j = i
        BY <1>t, <2>1, <3>1 DEF Requesting, Current
      <3>2. CASE j # i
        <4>1. ~Requesting(j) /\ ~Requesting(j)'
          BY <2>1, <3>2 DEF Requesting, Current
        <4>2. Leads(j, reports[j].approval)
          BY <1>t, <2>1, <3>2, <4>1 DEF MarkInv, RequiredLeads
        <4>3. reports'[j].approval = reports[j].approval
          BY <1>t, <2>1, <3>2
        <4> QED
          BY <2>1, <4>1, <4>2, <4>3 DEF Leads, Marking
      <3> QED
        BY <3>1, <3>2
    <2> QED
      BY <2>1, <2>3 DEF MarkInv, AnnotatesRequired, DecidesKnown
  <1>2. CASE CreateApproval(i)
    <2>1. /\ run.pc = "saved" /\ run.stored.mark = "required" /\ run.incident = {i}
          /\ reports' = reports /\ desk' = desk /\ blurred' = blurred
      BY <1>0, <1>2 DEF CreateApproval, WantsApproval
    <2>2. /\ run'.pc = "annotate" /\ run'.incident = {i} /\ run'.stored.mark = "required"
          /\ run'.stored.approval = Len(approvals) + 1
      <3>1. run' = [run EXCEPT !.pc = "annotate",
                               !.stored = [run.stored EXCEPT !.approval = Len(approvals) + 1]]
        BY <1>2, <1>t DEF CreateApproval, RunType, ReportType
      <3> QED
        BY <1>t, <2>1, <3>1 DEF RunType, ReportType
    <2>3. /\ DOMAIN approvals' = DOMAIN approvals \cup {Len(approvals) + 1}
          /\ \A a \in DOMAIN approvals : approvals'[a] = approvals[a]
          /\ approvals'[Len(approvals) + 1] = [incident |-> i, status |-> "PENDING"]
      BY <1>2, <1>t DEF CreateApproval, Requested
    <2> PICK n : n = Len(approvals) + 1
      OBVIOUS
    <2>5. Leads(i, n)'
      BY <1>t, <2>3 DEF Leads
    <2>6. RequiredLeads'
      <3> SUFFICES ASSUME NEW j \in Incidents \ blurred, reports[j].mark = "required"
                   PROVE  IF j = i THEN Leads(j, n)'
                          ELSE Leads(j, reports[j].approval)'
        BY <2>1, <2>2 DEF RequiredLeads, Requesting, Current, Leads
      <3>1. j # i => Leads(j, reports[j].approval)
        BY <2>1 DEF MarkInv, RequiredLeads, Requesting, Current
      <3>2. j # i => Leads(j, reports[j].approval)'
        BY <2>1, <2>3, <3>1 DEF Leads, Marking
      <3> QED
        BY <2>5, <3>2
    <2> QED
      BY <2>1, <2>2, <2>3, <2>6 DEF MarkInv, AnnotatesRequired, DecidesKnown
  <1>3. CASE Annotate(i)
    <2>1. /\ reports' = [reports EXCEPT ![i] = run.stored] /\ approvals' = approvals /\ desk' = desk
          /\ run'.pc = "idle" /\ run'.incident = {} /\ blurred \subseteq blurred'
          /\ reports[i].mark # run.stored.mark => i \in blurred'
          /\ run.pc = "annotate" /\ run.incident = {i}
      BY <1>0, <1>3 DEF Annotate, NoRun
    <2>2. \A j, a : Leads(j, a) => Leads(j, a)'
      BY <2>1 DEF Leads, Marking
    <2>3. RequiredLeads'
      <3> SUFFICES ASSUME NEW j \in Incidents, j \notin blurred', reports'[j].mark = "required"
                   PROVE  Leads(j, reports'[j].approval)
        BY <2>1, <2>2 DEF RequiredLeads, Requesting
      <3>1. CASE j = i
        <4>1. Requesting(i) /\ reports[i].mark = "required"
          BY <1>t, <2>1, <3>1 DEF Requesting, Current
        <4> QED
          BY <1>t, <2>1, <3>1, <4>1 DEF MarkInv, RequiredLeads
      <3>2. CASE j # i
        <4>1. ~Requesting(j)
          BY <2>1, <3>2 DEF Requesting, Current
        <4> QED
          BY <1>t, <2>1, <3>2, <4>1 DEF MarkInv, RequiredLeads
      <3> QED
        BY <3>1, <3>2
    <2> QED
      BY <2>1, <2>3 DEF MarkInv, AnnotatesRequired, DecidesKnown
  <1> QED
    BY <1>1, <1>2, <1>3

\* An endpoint request without effect on reports and approval requests.
LEMMA DeskMarks ==
    ASSUME MarkInv, NEW c \in Clients, NEW w,
           UNCHANGED <<reports, approvals, run>>, blurred \subseteq blurred',
           desk' = [desk EXCEPT ![c] = w],
           \A i \in desk[c].incident \ blurred' :
               desk[c].pc \in {"fetch", "write"} =>
                   reports[i].mark # "required" \/ (w.pc \in {"fetch", "write"} /\ i \in w.incident),
           w.pc = "decide" =>
               /\ w.approval \in DOMAIN approvals
               /\ w.incident \subseteq {approvals[w.approval].incident}
               /\ w.incident = {} => approvals[w.approval].status # "PENDING"
    PROVE  (RequiredLeads /\ AnnotatesRequired /\ DecidesKnown)'
  <1>t. desk \in [Clients -> WorkType]
    BY DEF MarkInv, CountInv, TypeOK, ReportsTypeOK
  <1>1. \A i \in Incidents \ blurred' : reports[i].mark = "required" /\ Marking(i) => Marking(i)'
    BY <1>t DEF Marking
  <1>2. \A i \in Incidents \ blurred' : \A a :
          reports[i].mark = "required" /\ Leads(i, a) => Leads(i, a)'
    BY <1>1 DEF Leads
  <1>3. RequiredLeads'
    BY <1>2 DEF MarkInv, RequiredLeads, Requesting, Current
  <1>4. DecidesKnown'
    BY <1>t DEF MarkInv, DecidesKnown
  <1> QED
    BY <1>3, <1>4 DEF MarkInv, AnnotatesRequired

\* A decision takes a request that leads from a report away, and is then itself
\* on the way to that report.
LEMMA DecideMarks ==
    ASSUME MarkInv, NEW c \in Clients, Decide(c), run' = run
    PROVE  (RequiredLeads /\ AnnotatesRequired /\ DecidesKnown)'
  <1> DEFINE d == desk[c].approval
  <1>t. /\ desk \in [Clients -> WorkType] /\ desk[c] \in WorkType /\ approvals \in Seq(RequestType)
        /\ StatusAfter[desk[c].kind] # "PENDING"
    BY DecisionTypes DEF MarkInv, CountInv, TypeOK, ReportsTypeOK, WorkType
  <1>1. /\ d \in DOMAIN approvals
        /\ desk[c].incident \subseteq {approvals[d].incident}
        /\ desk[c].incident = {} => approvals[d].status # "PENDING"
    BY DEF MarkInv, DecidesKnown, Decide
  <1>2. /\ DOMAIN approvals' = DOMAIN approvals
        /\ \A a \in DOMAIN approvals :
              /\ approvals'[a].incident = approvals[a].incident
              /\ approvals'[a].status = IF a = d THEN StatusAfter[desk[c].kind] ELSE approvals[a].status
    <2>1. \A a \in DOMAIN approvals : approvals[a] \in RequestType
      BY <1>t
    <2> QED
      BY <1>t, <1>1, <2>1 DEF Decide, RequestType
  <1>3. /\ reports' = reports /\ blurred' = blurred /\ desk[c].pc = "decide"
        /\ \A e \in Clients \ {c} : desk'[e] = desk[e]
        /\ desk[c].incident = {} => desk'[c].pc = "idle"
        /\ desk[c].incident # {} => desk'[c].pc = "fetch" /\ desk'[c].incident = desk[c].incident
    BY <1>t DEF Decide, AtRest, WorkType
  <1>4. \A i : Marking(i) => Marking(i)'
    BY <1>3 DEF Marking
  <1>5. ASSUME NEW i, NEW a, Leads(i, a) PROVE Leads(i, a)'
    <2>1. a = d /\ desk[c].incident # {} => Marking(i)'
      BY <1>1, <1>3, <1>5 DEF Leads, Marking
    <2> QED
      BY <1>1, <1>2, <1>4, <1>5, <2>1 DEF Leads
  <1>6. RequiredLeads'
    <2>1. \A i \in Incidents \ blurred : reports[i].mark = "required" =>
            IF Requesting(i)
            THEN /\ run.stored.mark = "required"
                 /\ run.pc = "annotate" => Leads(i, run.stored.approval)
            ELSE Leads(i, reports[i].approval)
      BY DEF MarkInv, RequiredLeads
    <2> QED
      BY <1>3, <1>5, <2>1 DEF RequiredLeads, Requesting, Current
  <1>7. DecidesKnown'
    <2> SUFFICES ASSUME NEW e \in Clients \ {c}, desk[e].pc = "decide"
                 PROVE  /\ desk[e].approval \in DOMAIN approvals'
                        /\ desk[e].incident \subseteq {approvals'[desk[e].approval].incident}
                        /\ desk[e].incident = {} => approvals'[desk[e].approval].status # "PENDING"
      BY <1>3 DEF DecidesKnown
    <2> QED
      BY <1>t, <1>2 DEF MarkInv, DecidesKnown
  <1> QED
    BY <1>6, <1>7 DEF MarkInv, AnnotatesRequired

LEMMA EndpointMarks ==
    ASSUME MarkInv, NEW c \in Clients, EndpointStep(c)
    PROVE  (RequiredLeads /\ AnnotatesRequired /\ DecidesKnown)'
  <1>t. /\ desk \in [Clients -> WorkType] /\ desk[c] \in WorkType
        /\ reports \in [Incidents -> ReportType]
    BY DEF MarkInv, CountInv, TypeOK, ReportsTypeOK
  <1>0. run' = run
    BY DEF EndpointStep, runVars
  <1>s. \A i, j \in desk[c].incident : i = j
    BY DEF MarkInv, CountInv, Singles
  <1>1. ASSUME NEW a \in DOMAIN approvals, LookUpApproved(c, a)
        PROVE  (RequiredLeads /\ AnnotatesRequired /\ DecidesKnown)'
    <2> DEFINE w == [AtRest EXCEPT !.pc = "decide", !.kind = "execute", !.approval = a,
                                   !.incident = {approvals[a].incident}]
    <2>1. w.pc = "decide" /\ w.approval = a /\ w.incident = {approvals[a].incident}
      BY DEF AtRest
    <2>2. /\ desk' = [desk EXCEPT ![c] = w] /\ desk[c].pc = "idle"
          /\ UNCHANGED <<reports, approvals>> /\ blurred \subseteq blurred'
      BY <1>1 DEF LookUpApproved
    <2> HIDE DEF w
    <2> QED
      BY <1>0, <2>1, <2>2, DeskMarks
  <1>2. ASSUME NEW a \in DOMAIN approvals, NEW k \in Kinds, LookUp(c, a, k)
        PROVE  (RequiredLeads /\ AnnotatesRequired /\ DecidesKnown)'
    <2> DEFINE w == [AtRest EXCEPT !.pc = "decide", !.kind = k, !.approval = a,
                     !.incident = IF approvals[a].status = "PENDING" THEN {approvals[a].incident} ELSE {}]
    <2>1. /\ w.pc = "decide" /\ w.approval = a /\ w.incident \subseteq {approvals[a].incident}
          /\ w.incident = {} => approvals[a].status # "PENDING"
      BY DEF AtRest
    <2>2. /\ desk' = [desk EXCEPT ![c] = w] /\ desk[c].pc = "idle"
          /\ UNCHANGED <<reports, approvals>> /\ blurred \subseteq blurred'
      BY <1>2 DEF LookUp
    <2> HIDE DEF w
    <2> QED
      BY <1>0, <2>1, <2>2, DeskMarks
  <1>3. CASE Decide(c)
    BY <1>0, <1>3, DecideMarks
  <1>4. CASE FetchToMark(c)
    <2>1. PICK i \in desk[c].incident :
            desk' = [desk EXCEPT ![c] =
                        IF reports[i] = NoReport /\ desk[c].kind # "execute" THEN AtRest
                        ELSE [AtRest EXCEPT !.pc = "write", !.incident = {i},
                                            !.copy = [reports[i] EXCEPT !.mark = MarkAfter[desk[c].kind]]]]
      BY <1>4 DEF FetchToMark
    <2>2. /\ UNCHANGED <<reports, approvals>> /\ blurred \subseteq blurred'
      BY <1>4 DEF FetchToMark
    <2>3. CASE reports[i] = NoReport /\ desk[c].kind # "execute"
      <3>1. AtRest.pc = "idle" /\ reports[i].mark # "required"
        BY <2>3 DEF AtRest, NoReport
      <3>2. \A j \in desk[c].incident : reports[j].mark # "required"
        BY <1>s, <3>1
      <3>3. PICK w : w = AtRest
        OBVIOUS
      <3>4. desk' = [desk EXCEPT ![c] = w]
        BY <2>1, <2>3, <3>3
      <3>5. w.pc # "decide"
        BY <3>1, <3>3
      <3> QED
        BY <1>0, <2>2, <3>2, <3>4, <3>5, DeskMarks
    <2>4. CASE ~(reports[i] = NoReport /\ desk[c].kind # "execute")
      <3> DEFINE w == [AtRest EXCEPT !.pc = "write", !.incident = {i},
                                     !.copy = [reports[i] EXCEPT !.mark = MarkAfter[desk[c].kind]]]
      <3>1. w.pc = "write" /\ w.incident = {i}
        BY DEF AtRest
      <3>2. desk' = [desk EXCEPT ![c] = w]
        BY <2>1, <2>4
      <3> HIDE DEF w
      <3> QED
        BY <1>0, <1>s, <2>2, <3>1, <3>2, DeskMarks
    <2> QED
      BY <2>3, <2>4
  <1>5. CASE WriteMark(c)
    <2>1. PICK i \in desk[c].incident : reports' = [reports EXCEPT ![i] = desk[c].copy]
      BY <1>5 DEF WriteMark
    <2>2. /\ desk' = [desk EXCEPT ![c] = AtRest] /\ AtRest.pc = "idle" /\ blurred' = blurred
          /\ approvals' = approvals /\ desk[c].copy.mark # "required"
      BY <1>5 DEF WriteMark, AtRest, MarkInv, CountInv, CopiesAreCurrent
    <2>3. \A j \in Incidents : reports'[j].mark = "required" => j # i /\ reports'[j] = reports[j]
      BY <1>t, <2>1, <2>2
    <2>4. ASSUME NEW j, NEW a, j # i, Leads(j, a) PROVE Leads(j, a)'
      BY <1>s, <1>t, <2>2, <2>4 DEF Leads, Marking
    <2>5. RequiredLeads'
      <3> SUFFICES ASSUME NEW j \in Incidents \ blurred, reports'[j].mark = "required"
                   PROVE  IF Requesting(j)
                          THEN /\ run.stored.mark = "required"
                               /\ run.pc = "annotate" => Leads(j, run.stored.approval)'
                          ELSE Leads(j, reports[j].approval)'
        BY <1>0, <2>2 DEF RequiredLeads, Requesting, Current
      <3>1. j # i /\ reports[j].mark = "required" /\ reports'[j] = reports[j]
        BY <2>3
      <3>2. IF Requesting(j)
            THEN /\ run.stored.mark = "required"
                 /\ run.pc = "annotate" => Leads(j, run.stored.approval)
            ELSE Leads(j, reports[j].approval)
        BY <3>1 DEF MarkInv, RequiredLeads
      <3> QED
        BY <1>0, <2>4, <3>1, <3>2 DEF Leads
    <2>6. DecidesKnown'
      BY <1>t, <2>2 DEF MarkInv, DecidesKnown
    <2> QED
      BY <1>0, <2>5, <2>6 DEF MarkInv, AnnotatesRequired
  <1>6. CASE DecisionFails(c)
    <2>1. /\ desk' = [desk EXCEPT ![c] = AtRest] /\ AtRest.pc = "idle"
          /\ UNCHANGED <<reports, approvals>> /\ blurred \subseteq blurred' /\ desk[c].incident \subseteq blurred'
      BY <1>6 DEF DecisionFails, AtRest
    <2> HIDE DEF AtRest
    <2> QED
      BY <1>0, <2>1, DeskMarks
  <1> QED
    BY <1>1, <1>2, <1>3, <1>4, <1>5, <1>6 DEF EndpointStep

LEMMA MarkStep == MarkInv /\ [Next]_vars => MarkInv'
  <1> SUFFICES ASSUME MarkInv, [Next]_vars
               PROVE  (RequiredLeads /\ AnnotatesRequired /\ DecidesKnown)'
    BY CountStep DEF MarkInv
  <1>t. TypeOK /\ TypeOK'
    BY TypeStep DEF MarkInv, CountInv
  <1>1. CASE Begin \/ Hang \/ UNCHANGED vars
    <2>1. UNCHANGED <<reports, approvals, desk, blurred, run>>
      BY <1>1
      DEF Begin, LoadGrafana, MissGrafana, LoadK8s, MissK8s, Hang, vars, reportVars, runVars
    <2> QED
      BY <2>1
      DEF MarkInv, RequiredLeads, AnnotatesRequired, DecidesKnown, Leads, Marking, Requesting, Current
  <1>2. ASSUME NEW i \in Incidents, ReceiveAlert(i)
        PROVE  (RequiredLeads /\ AnnotatesRequired /\ DecidesKnown)'
    <2>1. /\ run.pc = "idle" /\ run'.pc = "received"
          /\ UNCHANGED <<reports, approvals, desk>> /\ blurred \subseteq blurred'
      BY <1>2 DEF ReceiveAlert, NoRun, reportVars
    <2> QED
      BY <2>1, NoRequestUnderWay DEF Requesting
  <1>3. CASE Continue
    <2>1. CASE EndRun
      <3>1. /\ run.pc = "saved" /\ run.stored.mark # "required" /\ run'.pc = "idle"
            /\ UNCHANGED <<reports, approvals, desk>> /\ blurred \subseteq blurred'
        BY <2>1 DEF EndRun, WantsApproval, Silent, reportVars, NoRun
      <3>2. \A i \in Incidents \ blurred' : Requesting(i) => reports[i].mark # "required"
        BY <3>1 DEF MarkInv, RequiredLeads
      <3> QED
        BY <3>1, <3>2, NoRequestUnderWay
    <2>2. CASE RunFails
      <3>1. /\ run.pc \notin {"saved", "annotate"} /\ run'.pc = "idle"
            /\ UNCHANGED <<reports, approvals, desk>> /\ blurred \subseteq blurred'
        BY <2>2 DEF RunFails, Silent, reportVars, NoRun
      <3> QED
        BY <3>1, NoRequestUnderWay DEF Requesting
    <2>3. CASE ApprovalFails
      <3>1. /\ run'.pc = "idle" /\ run.incident \subseteq blurred'
            /\ UNCHANGED <<reports, approvals, desk>> /\ blurred \subseteq blurred'
        BY <2>3 DEF ApprovalFails, NoRun
      <3> QED
        BY <3>1, NoRequestUnderWay DEF Requesting, Current
    <2>4. ASSUME NEW i \in Incidents, FetchReport(i)
          PROVE  (RequiredLeads /\ AnnotatesRequired /\ DecidesKnown)'
      <3>1. /\ run.pc = "report" /\ run'.pc = "save"
            /\ UNCHANGED <<reports, approvals, desk>> /\ blurred \subseteq blurred'
        BY <1>t, <2>4 DEF FetchReport, Silent, reportVars, TypeOK, RunType
      <3> QED
        BY <3>1, NoRequestUnderWay DEF Requesting
    <2>5. CASE \E i \in Incidents : SaveReport(i) \/ CreateApproval(i) \/ Annotate(i)
      BY <1>t, <2>5, RunMarks
    <2>6. CASE \/ \E i \in Incidents : Investigate(i) \/ Reason(i) \/ \E v \in Answers : Conclude(i, v)
               \/ \E calls \in SUBSET Tools : AskDiagnostic(calls) \/ AskOperative(calls)
               \/ \E action \in ActionNames, required \in BOOLEAN : Act(action, required)
      <3>1. /\ run.pc \notin {"saved", "annotate"} /\ run'.pc \notin {"saved", "annotate"}
            /\ UNCHANGED <<reports, approvals, desk>> /\ blurred \subseteq blurred'
        BY <1>t, <2>6, AskingIsQuiet DEF Silent, reportVars
      <3> QED
        BY <3>1, NoRequestUnderWay DEF Requesting
    <2> QED
      BY <1>3, <2>1, <2>2, <2>3, <2>4, <2>5, <2>6 DEF Continue
  <1>4. ASSUME NEW c \in Clients, EndpointStep(c)
        PROVE  (RequiredLeads /\ AnnotatesRequired /\ DecidesKnown)'
    BY <1>4, EndpointMarks
  <1>5. CASE Crash
    <2>1. /\ UNCHANGED <<reports, approvals>> /\ blurred' = blurred \cup Interrupted /\ run'.pc = "idle"
          /\ \A c \in Clients : desk'[c].pc = "idle"
      BY <1>5 DEF Crash, AtRest, NoRun
    <2>2. \A i \in Incidents \ blurred' : ~Marking(i) /\ ~Requesting(i) /\ ~Requesting(i)'
      BY <2>1 DEF Interrupted, Marking, Requesting
    <2>3. RequiredLeads'
      BY <2>1, <2>2 DEF MarkInv, RequiredLeads, Leads
    <2> QED
      BY <2>1, <2>3 DEF AnnotatesRequired, DecidesKnown
  <1> QED
    BY <1>1, <1>2, <1>3, <1>4, <1>5 DEF Next

\* Nothing decided looks open and nothing open lacks a request, however decisions
\* interleave with runs, unless a write is lost, fails or is cut short.
THEOREM RequiredIsPending == Spec => []RequiredMeansPending
  <1>1. MarkInv => RequiredMeansPending
    <2> SUFFICES ASSUME MarkInv, NEW i \in Incidents, Settled(i), i \notin blurred,
                        reports[i].mark = "required"
                 PROVE  /\ reports[i].approval # 0
                        /\ approvals[reports[i].approval] = [incident |-> i, status |-> "PENDING"]
      BY DEF RequiredMeansPending
    <2>1. Leads(i, reports[i].approval) /\ ~Marking(i)
      BY DEF MarkInv, RequiredLeads, Requesting, Settled, Marking
    <2>2. DOMAIN approvals = 1 .. Len(approvals) /\ Len(approvals) \in Nat
      BY DEF MarkInv, CountInv, TypeOK, ReportsTypeOK
    <2>3. approvals[reports[i].approval] \in RequestType
      BY <2>1 DEF Leads, MarkInv, CountInv, TypeOK, ReportsTypeOK
    <2>4. reports[i].approval # 0
      BY <2>1, <2>2 DEF Leads
    <2>5. approvals[reports[i].approval].incident = i /\ approvals[reports[i].approval].status = "PENDING"
      BY <2>1 DEF Leads
    <2> QED
      BY <2>3, <2>4, <2>5 DEF RequestType
  <1> QED
    BY <1>1, InitMarks, MarkStep, PTL DEF Spec

-----------------------------------------------------------------------------
\* The run knows of no recurrence before it has looked the incident up.
RecurrenceIsKnown == run.pc = "received" => run.recurrence = 0

\* A recurring saturation has a verdict from the end of its investigation on.
Classifying ==
    \A i \in Saturations :
        Current(i) /\ run.pc \in {"reason", "act", "report", "save"} /\ run.recurrence >= 2
            => run.verdict \notin {"missing", "UNCLEAR", "UNKNOWN"}

ClassInv == CountInv /\ RecurrenceIsKnown /\ Classifying

LEMMA ClassifiedIsClear ==
    ASSUME NEW i \in Saturations, NEW v, run.recurrence >= 2
    PROVE  Classified(i, v) \notin {"missing", "UNCLEAR", "UNKNOWN"}
  BY DEF Classified

LEMMA InvestigationClasses ==
    ASSUME ClassInv, NEW i \in Incidents,
           Investigate(i) \/ \E v \in Answers : Conclude(i, v)
    PROVE  (RecurrenceIsKnown /\ Classifying)'
  <1>t. run \in RunType
    BY DEF ClassInv, CountInv, TypeOK
  <1>1. CASE Investigate(i) /\ Diagnostic = {}
    <2>1. run'.pc = "reason" /\ run'.recurrence = 0
      BY <1>1, <1>t DEF Investigate, RunType, ClassInv, RecurrenceIsKnown
    <2> QED
      BY <2>1 DEF RecurrenceIsKnown, Classifying
  <1>2. CASE Investigate(i) /\ Diagnostic # {}
    <2>1. run'.pc = "investigate"
      BY <1>2, <1>t DEF Investigate, RunType
    <2> QED
      BY <2>1 DEF RecurrenceIsKnown, Classifying
  <1>3. ASSUME NEW v \in Answers, Conclude(i, v)
        PROVE  (RecurrenceIsKnown /\ Classifying)'
    <2>1. /\ run'.pc = "reason" /\ run'.incident = run.incident /\ run'.recurrence = run.recurrence
          /\ run'.verdict = Classified(i, v)
      BY <1>3, <1>t DEF Conclude, RunType
    <2>2. ASSUME NEW j \in Saturations, j \in run'.incident PROVE j = i
      BY <1>3, <2>1, <2>2 DEF Conclude, Current, ClassInv, CountInv, Singles
    <2> QED
      BY <2>1, <2>2, ClassifiedIsClear DEF RecurrenceIsKnown, Classifying, Current
  <1> QED
    BY <1>1, <1>2, <1>3

\* What follows the investigation leaves its verdict alone.
LEMMA DecisionKeepsClass ==
    ASSUME ClassInv,
           \/ \E i \in Incidents : Reason(i) \/ FetchReport(i)
           \/ \E calls \in SUBSET Tools : AskDiagnostic(calls) \/ AskOperative(calls)
           \/ \E action \in ActionNames, required \in BOOLEAN : Act(action, required)
    PROVE  (RecurrenceIsKnown /\ Classifying)'
  <1>t. run \in RunType
    BY DEF ClassInv, CountInv, TypeOK
  <1> DEFINE Keeps ==
        /\ run'.incident = run.incident /\ run'.recurrence = run.recurrence
        /\ run'.pc # "received"
        /\ run'.pc \in {"reason", "act", "report", "save"} =>
               /\ run.pc \in {"reason", "act", "report", "save"}
               /\ run.verdict # "missing" => run'.verdict = run.verdict
  <1>1. Keeps
    <2>1. ASSUME NEW i \in Incidents, Reason(i) PROVE Keeps
      BY <2>1, <1>t DEF Reason, RunType
    <2>2. ASSUME NEW i \in Incidents, FetchReport(i) PROVE Keeps
      BY <2>2, <1>t DEF FetchReport, RunType
    <2>3. ASSUME NEW calls, NEW allowed, Ask(calls, allowed), run.pc \in {"investigate", "act"}
          PROVE  Keeps
      <3>1. \E made \in SUBSET (calls \cap allowed) :
            \E spike \in {"query_prometheus" \in made, FALSE},
               unhealthy \in {"get_workload_health" \in made, FALSE} :
              run' = [run EXCEPT !.steps = @ + 1, !.asked = @ \cup calls,
                                 !.spike = @ \/ spike, !.unhealthy = @ \/ unhealthy]
        BY <2>3 DEF Ask
      <3>2. /\ run'.pc = run.pc /\ run'.incident = run.incident
            /\ run'.recurrence = run.recurrence /\ run'.verdict = run.verdict
        BY <3>1, <1>t DEF RunType
      <3> QED
        BY <2>3, <3>2
    <2>4. ASSUME NEW action \in ActionNames, NEW required \in BOOLEAN, Act(action, required)
          PROVE  Keeps
      BY <2>4, <1>t DEF Act, RunType
    <2>5. ASSUME NEW calls \in SUBSET Tools, AskDiagnostic(calls) \/ AskOperative(calls)
          PROVE  Keeps
      <3> HIDE DEF Keeps
      <3> QED
        BY <2>3, <2>5 DEF AskDiagnostic, AskOperative
    <2> HIDE DEF Keeps
    <2> QED
      BY <2>1, <2>2, <2>4, <2>5
  <1> QED
    BY <1>1 DEF ClassInv, RecurrenceIsKnown, Classifying, Current

LEMMA ClassStep == ClassInv /\ [Next]_vars => ClassInv'
  <1> SUFFICES ASSUME ClassInv, [Next]_vars PROVE (RecurrenceIsKnown /\ Classifying)'
    BY CountStep DEF ClassInv
  <1>1. CASE Begin \/ Hang \/ UNCHANGED vars \/ \E c \in Clients : EndpointStep(c)
    <2>1. UNCHANGED run
      BY <1>1
      DEF Begin, LoadGrafana, MissGrafana, LoadK8s, MissK8s, Hang, vars, runVars, EndpointStep
    <2> QED
      BY <2>1 DEF ClassInv, RecurrenceIsKnown, Classifying, Current
  <1>2. ASSUME NEW i \in Incidents, ReceiveAlert(i) PROVE (RecurrenceIsKnown /\ Classifying)'
    <2>1. run'.pc = "received" /\ run'.recurrence = 0
      BY <1>2 DEF ReceiveAlert, NoRun
    <2> QED
      BY <2>1 DEF RecurrenceIsKnown, Classifying
  <1>3. CASE \/ Crash \/ EndRun \/ ApprovalFails \/ RunFails
             \/ \E i \in Incidents : SaveReport(i) \/ CreateApproval(i) \/ Annotate(i)
    <2>t. run \in RunType
      BY DEF ClassInv, CountInv, TypeOK
    <2>1. run'.pc \in {"idle", "saved", "annotate"}
      <3>1. CASE Crash \/ EndRun \/ ApprovalFails \/ RunFails \/ \E i \in Incidents : Annotate(i)
        BY <3>1 DEF Crash, EndRun, ApprovalFails, RunFails, Annotate, NoRun
      <3>2. CASE \E i \in Incidents : SaveReport(i)
        BY <3>2 DEF SaveReport, NoRun
      <3>3. CASE \E i \in Incidents : CreateApproval(i)
        BY <3>3, <2>t DEF CreateApproval, RunType
      <3> QED
        BY <1>3, <3>1, <3>2, <3>3
    <2> QED
      BY <2>1 DEF RecurrenceIsKnown, Classifying
  <1> QED
    BY <1>1, <1>2, <1>3, InvestigationClasses, DecisionKeepsClass DEF Next, Continue

\* A recurring CPUSaturation never reaches the report as unclear, for any tools
\* and any answers of the language model: the fallback of investigate_node
\* classifies what the answer left open, and nothing after it takes that back.
THEOREM RecurringGetsVerdict == Spec => []RecurringIsClassified
  <1>1. Init => ClassInv
    BY InitCounts DEF Init, NoRun, ClassInv, RecurrenceIsKnown, Classifying
  <1>2. ClassInv => RecurringIsClassified
    BY DEF ClassInv, Classifying, RecurringIsClassified
  <1> QED
    BY <1>1, <1>2, ClassStep, PTL DEF Spec
=============================================================================
