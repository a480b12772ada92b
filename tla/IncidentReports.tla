--------------------------- MODULE IncidentReports ---------------------------
(***************************************************************************)
(* The rows the guardian keeps in PostgreSQL (database/repositories.py),   *)
(* incident reports and approval requests, and the endpoints of            *)
(* main_agent_guardian.py by which a human decides on a request.           *)
(*                                                                         *)
(* A report is stored as one JSON document: whoever changes a part of it   *)
(* reads the document, edits the copy and writes all of it back, with      *)
(* other statements between the two.  Every action here is one statement   *)
(* with its commit.  What the scaling in the execute endpoint does to the  *)
(* cluster is the subject of ApprovedScaling; here it either fails or not. *)
(***************************************************************************)
EXTENDS Integers, Sequences, FiniteSets

CONSTANTS
    Incidents,      \* incident_id of the reports
    Clients,        \* slots for requests to the approval endpoints
    MaxDecisions    \* bound: requests to the endpoints

ASSUME DecisionsAssumption == MaxDecisions \in Nat

VARIABLES
    reports,        \* the incident_reports table
    approvals,      \* the approval_requests table, in order of creation
    desk,           \* what each request to an endpoint is doing
    decisions,      \* requests so far
    blurred         \* history: incidents whose report lost a write or a decision

reportVars == <<reports, approvals, desk, decisions, blurred>>

\* The parts of a report that anything depends on: occurrence_count (0: there
\* is no row), the human_approval mark and approval_id (0: none) in
\* execution_details.
NoReport == [count |-> 0, mark |-> "none", approval |-> 0]

Marks == {"none", "not_required", "required", "approved", "denied", "approved_executed"}
Statuses == {"PENDING", "APPROVED", "DENIED", "COMPLETED"}
Kinds == {"approve", "deny", "execute"}

\* What a decision makes of the request's status and of the report's mark.
StatusAfter == [approve |-> "APPROVED", deny |-> "DENIED", execute |-> "COMPLETED"]
MarkAfter == [approve |-> "approved", deny |-> "denied", execute |-> "approved_executed"]

\* A request that reports nothing has no incident.
AtRest == [pc |-> "idle", kind |-> "approve", approval |-> 0, incident |-> {}, copy |-> NoReport]

ReportType == [count : Nat, mark : Marks, approval : Nat]

RequestType == [incident : Incidents, status : Statuses]

WorkType ==
    [pc : {"idle", "decide", "fetch", "write"}, kind : Kinds, approval : 0 .. Len(approvals),
     incident : SUBSET Incidents, copy : ReportType]

ReportsTypeOK ==
    /\ reports \in [Incidents -> ReportType]
    /\ approvals \in Seq(RequestType)
    /\ desk \in [Clients -> WorkType]
    /\ decisions \in 0 .. MaxDecisions
    /\ blurred \subseteq Incidents

ReportsInit ==
    /\ reports = [i \in Incidents |-> NoReport]
    /\ approvals = <<>>
    /\ desk = [c \in Clients |-> AtRest]
    /\ decisions = 0
    /\ blurred = {}

\* Requests holding a copy of the report of i that they are going to write back.
Editing(i) == {c \in Clients : desk[c].pc = "write" /\ desk[c].incident = {i}}

\* create_approval_request, under an identifier never used before.
Requested(i) == Append(approvals, [incident |-> i, status |-> "PENDING"])

\* Mutant: the request is looked up after its status has been changed.
LookUp_TooLate(c, a, kind) ==
    /\ desk[c].pc = "idle"
    /\ decisions < MaxDecisions
    /\ kind \in {"approve", "deny"}
    /\ desk' = [desk EXCEPT ![c] = [AtRest EXCEPT !.pc = "decide", !.kind = kind, !.approval = a]]
    /\ decisions' = decisions + 1
    /\ UNCHANGED <<reports, approvals, blurred>>

\* approve, deny: fetch_pending_approvals.  Only a request found pending leads
\* to a report; the status is changed whatever it is.
LookUp(c, a, kind) ==
    /\ desk[c].pc = "idle"
    /\ decisions < MaxDecisions
    /\ kind \in {"approve", "deny"}
    /\ desk' = [desk EXCEPT ![c] = [AtRest EXCEPT !.pc = "decide", !.kind = kind, !.approval = a,
                    !.incident = IF approvals[a].status = "PENDING" THEN {approvals[a].incident} ELSE {}]]
    /\ decisions' = decisions + 1
    /\ UNCHANGED <<reports, approvals, blurred>>

\* execute: the row by its key, which must be approved; the incident comes from
\* the report stored in the request.
LookUpApproved(c, a) ==
    /\ desk[c].pc = "idle"
    /\ decisions < MaxDecisions
    /\ approvals[a].status = "APPROVED"
    /\ desk' = [desk EXCEPT ![c] = [AtRest EXCEPT !.pc = "decide", !.kind = "execute", !.approval = a,
                                                  !.incident = {approvals[a].incident}]]
    /\ decisions' = decisions + 1
    /\ UNCHANGED <<reports, approvals, blurred>>

\* update_approval_status; an execution has scaled by then.
Decide(c) ==
    /\ desk[c].pc = "decide"
    /\ approvals' = [approvals EXCEPT ![desk[c].approval].status = StatusAfter[desk[c].kind]]
    /\ desk' = [desk EXCEPT ![c] = IF desk[c].incident = {} THEN AtRest
                                   ELSE [desk[c] EXCEPT !.pc = "fetch"]]
    /\ UNCHANGED <<reports, decisions, blurred>>

\* fetch_incident_report, and the mark set in the copy.  Without a row, approve
\* and deny leave it at that.
FetchToMark(c) ==
    /\ desk[c].pc = "fetch"
    /\ \E i \in desk[c].incident :
          desk' = [desk EXCEPT ![c] =
                      IF reports[i] = NoReport /\ desk[c].kind # "execute" THEN AtRest
                      ELSE [AtRest EXCEPT !.pc = "write", !.incident = {i},
                                          !.copy = [reports[i] EXCEPT !.mark = MarkAfter[desk[c].kind]]]]
    /\ UNCHANGED <<reports, approvals, decisions, blurred>>

\* upsert_incident_report with the edited copy.
WriteMark(c) ==
    /\ desk[c].pc = "write"
    /\ \E i \in desk[c].incident :
          reports' = [reports EXCEPT ![i] = desk[c].copy]
    /\ desk' = [desk EXCEPT ![c] = AtRest]
    /\ UNCHANGED <<approvals, decisions, blurred>>

\* A statement or the scaling raises: 500, and the rest is not done.
DecisionFails(c) ==
    /\ desk[c].pc # "idle"
    /\ blurred' = blurred \cup desk[c].incident
    /\ desk' = [desk EXCEPT ![c] = AtRest]
    /\ UNCHANGED <<reports, approvals, decisions>>
=============================================================================
