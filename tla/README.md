# ATLAS in TLA+

Specifications of the ATLAS fraud-detection platform: its Kafka pipeline, the
Redis profiles it scores with, and the Guardian, the agent that scales it.
TLC checks them on small instances, TLAPS proves the properties that matter
most for every value of the constants. Paths below are relative to `src/`.

A module reads best in this order: the comment at its head, `Next`, the
properties at its end, then the actions.

## 1. The system

| Component | State it keeps | Operations | Talks to |
|---|---|---|---|
| API gateway (`gateway/gateway.py`) | connection task and its flag | `POST /transactions`: `send_and_wait`, 202 or 503; readiness probe; start and shutdown | Kafka `raw-transactions` |
| Enrichment (`enrichment-system/`) | consumer position, producer queue | poll, validate, GeoIP lookup, produce, synchronous commit | `raw-` to `enriched-transactions` |
| Scoring (`scoring-system/scoring.py`) | consumer position, producer queue | poll, read profile, score, update profile, produce, commit | `enriched-` to `scored-transactions`, Redis |
| Profiles (`scoring-system/src/redis_state.py`) | a hash and a counter per user, each with a time to live | `get_user_profile`, `update_user_profile` | Redis |
| Risk rules (`scoring-system/src/scoring_engine.py`) | none | score of one transaction | called by scoring |
| Notification (`notification-system/`) | consumer thread, web sockets of a pod | read, skip or hand over a scored event; broadcast it; connect, disconnect | Kafka, browsers |
| Guardian intake (`agents-devops/main_agent_guardian.py`, `src/agent_guardian/runtime.py`) | cooldown table, lock per deployment (memory) | `/webhook`, background tasks, `process_alert` | decision loop, Postgres |
| Guardian decision loop (`runtime.py`, `llm.py`, `src/graph.py`) | registered tools, the conversation | start with two tool servers, language model and tool calls, report, request for approval | tool server, Grafana, Postgres |
| Tool server (`agents-devops/k8s_mcp.py`) | none; works on the cluster | `set_replicas`, `plan_budget_allocation`, `execute_budget_allocation`, the temporary HPA tools, queries | Kubernetes, Prometheus |
| Planner (`src/agent_guardian/budgeting.py`) | none | `compute_budget_plan` | called by the tool server |
| Approvals (`main_agent_guardian.py`, `src/database/repositories.py`) | status of an approval, incident reports (Postgres) | `/approvals/{id}/approve`, `/deny`, `/execute`, revert monitors | tool server, Kubernetes |
| Trend analyser, dashboard, chaos agent, Postgres sink, client | reports, pages, manifests | reporting, fault injection, load | all of the above |

How they interact, and what makes it hard:

* **Pipeline.** Two deployments of the same shape move messages between topics.
  Processing only *queues* the result in a producer whose own thread delivers
  it, while the offset is committed synchronously; so the commit may be ahead of
  the delivery. The two loops treat failures differently: enrichment swallows
  what goes wrong while processing and dies when a commit fails, scoring catches
  both and polls on. Rebalances, restarts and SIGKILL fall between any two steps.
* **Profiles.** Several scoring workers may hold messages of one user: the
  topics are keyed by transaction (`scoring.py:204`), so a user's messages are
  spread over the partitions and with them over the workers. Reading and
  updating is six Redis commands without a transaction, between any two of
  which another worker's may come or a key may expire.
* **Edges.** The gateway's flag is set once per process by a task that retries
  on its own, while outages and the producer's reconnection go on beside it; a
  503 may follow a send that arrived. A notification pod has a thread that polls
  and an event loop that broadcasts; the thread passes over what it cannot
  decode, and a broadcast awaits every send, so sockets come and go while it
  walks its copy of the list. Pods share a consumer group
  and commit automatically.
* **Intake.** Webhooks are answered at once; their alerts are processed by
  background tasks of one event loop. A table of recent alerts and a lock per
  deployment decide what runs. A run lasts minutes, may fail anywhere or wait for
  ever for an answer, and ends by a read-modify-write of the incident report.
* **Decision loop and reports.** A language model asks for tools, allowed or
  not, in a loop of bounded length, and answers anything. The run ends with a
  report that it reads, counts up and writes as one document, then perhaps with
  a request for approval and a second write of the same document. The endpoints
  rewrite that document too, from a copy of their own, while a human decides.
* **Budgeted scaling.** A tool call is a sequence of Kubernetes requests: read
  every deployment, check the budget, patch, and for an allocation do so step by
  step with a rollback. Autoscalers, operators and approved overrides change the
  cluster between any two of them; requests fail, answers get lost, the server
  is killed.
* **Approvals.** `/execute` raises the autoscaler's maximum for a while, waits
  until it shows, scales past the budget, records it and leaves a monitor task
  behind that is to put the maximum back. Several requests, several monitors and
  the agent's own tool share one autoscaler object and its annotations.

What makes each component correct, in a sentence: the planner takes no more than
needed, in the stated order, and gives up only if it must; the tools never take
the cluster over the budget nor a service under its floor, and undo what they
cannot finish; the pipeline commits nothing it has not handled and duplicates no
more than there were disturbances; profiles stay plausible averages and the
velocity misses a transaction only if its own update did not get through in
time; runs for a deployment exclude each other and those that end leave no lock;
reports count the runs and say truly whether a decision is open; `/execute`
scales for nothing that was not approved, and no temporary raise stays; what a
client repeats is accepted, what is accepted and not dropped on its way is told
to the clients connected, and an ordinary customer is not blocked. These hold
under the conditions that the properties name; section 4 says where the code
makes conditions necessary.

## 2. Modules

| Module | Models | How state and actions correspond to the code |
|---|---|---|
| `ReplicaBudget` | the arithmetic of budgets and plans (`k8s_mcp.py`, `budgeting.py`) | operators only; `ComputeBudgetPlan` is the result of the donor loop in closed form, `BuildActions` the steps |
| `BudgetPlanner` | one call of `plan_budget_allocation` | one step per iteration of the donor loop; `proposed`, `needed`, `donors` are its locals |
| `AllocationAnswer` | what an answer of the planner means | abstract: one step per call |
| `BudgetedScaling` | `set_replicas`, `execute_budget_allocation` | one step per Kubernetes request; `phase`, `todo`, `applied` are the loop over the plan and its rollback; `ScaledByOthers` and the fault actions are the environment |
| `BudgetedCluster` | what the tools and others may do to a cluster | abstract: one step per scaling |
| `TransactionPipeline` | gateway, enrichment, scoring between their topics | one step per call of the consumer, the producer's thread, the group; `position` is the in-memory offset, `outbox` the producer queue |
| `UserProfile` | `redis_state.py` for one user | one step per Redis command; keys carry deadlines |
| `RiskRules` | `scoring_engine.py` | operators only; a transaction is its set of signals, `Evaluate` adds the points of `_evaluate_stateless` and `_evaluate_stateful` |
| `ScoredProfile` | `process_message` on one user | composes `UserProfile` and `RiskRules`: the score computed from the profile read first is stored with the update and feeds the next score |
| `Broker` | the Kafka cluster | reachable or not |
| `Gateway` | one gateway pod | one step per attempt of the connection task, per probe, and per part of a request: received, stored, answered |
| `Notification` | the notification pods | a step of the thread is one message, a step of a broadcast one send; `connections` is `_active_connections`, `peer` the client's end |
| `EdgeServices` | client to client | composes the two around one broker; of the pipeline between them only the outcome for each raw transaction is kept, scored (`CarryOver`), dropped by enrichment or scoring (`Drop`), or scored once more (`ScoreAgain`), all of which `TransactionPipeline` has |
| `ApprovedScaling` | approve, deny, execute, the temporary HPA tools, the monitors | a step ends where the coroutine awaits; a tool call is one step; `note` is the annotations; a request names a size of its own or goes by the suggested one (`Requests`) |
| `IncidentReports` | the tables `incident_reports` and `approval_requests`, the endpoints | one step per SQL statement with its commit; `desk` is what each endpoint request holds between them |
| `GuardianRun` | `SREGuardianRuntime`: `start` and the graph | one step per attempt to load tools, per node of the graph, per round of `_run_llm_tool_loop`, and per statement of the report; extends `IncidentReports` |
| `AlertIntake` | webhook, background tasks, `process_alert`, saving the report | a step ends where the coroutine awaits; times are ages in ticks |

`MC*` modules give TLC its constants. `*_proofs` modules hold the theorems.
`BudgetPlanner` and `BudgetedScaling` both extend `ReplicaBudget`: the first
shows that the loop computes `ComputeBudgetPlan`, the second uses that operator
where the code calls the loop. Two pairs are refinements: `BudgetPlanner`
implements `AllocationAnswer` (`AnswersCorrectly`, with the outcome mapped to an
answer), `BudgetedScaling` implements `BudgetedCluster` (`StaysWithinPolicy`).

Definitions whose name has an underscore and a second part
(`CanGive_BelowFloor`, `Stop_AutoCommits`) are not used by the specifications.
Each is a variant of the definition it is named after with one plausible bug;
`PROJECT.json` pairs every checked property with a variant that breaks it.

## 3. Runs

`tlc -config <cfg> <module>`. States are distinct states.

| Run | Config | Instance | States | Shows |
|---|---|---|---|---|
| `planner` | `MCBudgetPlanner` | 3 services (pods of cost 2 for scoring, floor 2 for the gateway), budget 6, emergency maximum 4, readings 0-3, requests 0-5, every priority list of up to two names (unknown and repeated ones too) and the full orders | 144,158 | order and necessity of donations, the loop against its closed form, the refinement of the answer |
| `scaling` | `MCBudgetedScaling` | the same services, budget 7, emergency maximum 4, every initial reading of 1-3 within the budget, requests for 0, 1, 3, 4, three priority lists, others scale to 1 or 5 twice, two faults | 528,655 | budget, floors, rollback, plans carried out, policy refinement, every call returns |
| `pipeline_faults` | `MCTransactionPipeline_faults` | 3 transactions, one malformed; one enrichment and two scoring workers; all seven kinds of fault, two of them | 4,978,016 | at most one duplicate per disturbance |
| `pipeline_graceful` | `MCTransactionPipeline_graceful` | 2 transactions, the same workers; stops, rebalances, failing commits, two of them | 365,128 | nothing committed unhandled or lost; accepted is scored |
| `profile` | `MCUserProfile` | 2 workers (symmetric), amounts 10 and 30, window 2, profile time to live 3, three ticks at any moment, three updates, one broken off, velocity limits 0 and 1, far or near | 14,380,850 | plausible and exact averages, no transaction missed but those not renewed in time, no ordinary customer blocked |
| `approval` | `MCApprovedScaling` | 2 approvals (one suggests 5, one no size), calls that name 1 or no size, 2 calls, window 2, monitor 3, two looks at the maximum, all eight kinds of fault, two of them, the agent sets the maximum too | 1,703,233 | scaled for approved requests only, raises come back |
| `intake` | `MCAlertIntake` | 3 alerts of 2 incidents of 2 deployments, 2 webhooks, 2 tasks, window 2, two faults of four kinds, hanging runs among them | 1,935,951 | exclusion, counting, spacing, locks released |
| `guardian` | `MCGuardianRun` | a scalable workload with saturation alerts and a monitored database, one tool of each kind, 2 rounds of the tool loop, 2 load attempts, 2 runs, any request may hang, one restart, one client with two decisions | 551,120 | counts and marks of reports, classification, the guardian comes up and every run ends unless a request hangs |
| `edge` | `MCEdgeServices` | one gateway pod, two notification pods, two sockets, one transaction, dropped or scored, one foreign message, one outage, restart, rebalance or repeated scoring | 705,752 | repeated transactions are accepted, and announced unless dropped or undecodable; connected clients are reached; an unreadable message stops one thread |
| `planner_actions`, `pipeline_retry`, `approval_stale` | the `_actions`, `_retry`, `_stale` configs | small | - | a counterexample each, section 4 |

Why the bounds are enough:

* *Three services* is what the budget needs to show order among donors: a
  target and two donors. Their costs and floors differ, so that a donation
  overshoots, a donor is skipped and a donor runs dry; budget 6 or 7 against a
  maximal demand of 12 makes every branch of the planner happen.
* *Two scalings by others and two faults* let the environment act before and
  during one call, and let a rollback fail after a failed step. The properties
  that need an undisturbed or single-fault call say so themselves; the calls
  are unbounded in number.
* *Two scoring workers* is what the autoscaler of each deployment allows
  (`maxReplicas: 2`). A topic has six partitions, but a partition has one owner
  and offsets of different partitions do not interact: one partition is modelled.
  Two faults are a duplicate of a duplicate.
* *One client, two decisions, two runs* let a decision fall between any two
  steps of a run and a second one follow on the same or the next request. Two
  clients at once multiply the states by more than twenty; without the temporal
  property they have been run once with three decisions (6,684,000 states, the
  invariants and `MarkInv` hold), and the theorems cover any number. Two runs of
  one incident are what makes it recurrent.
* *One disturbance, one foreign message* at the edges: a message that kills a
  thread and an outage while the consumer closes is the worst a pod meets at
  once; two pods are all the autoscaler allows. The delay doubles once before
  its cap.
* *Velocity limits 0 and 1* with three updates cross both thresholds of the
  rules (3 and 5 in the code) and leave one more transaction to be scored after
  that; amounts up to three times each other are just no spike.
* *Two workers, three updates* is the least in which two read-modify-writes of a
  profile overlap, one is broken off and another follows; with a window of two
  ticks and a time to live of three, three ticks let the counter expire between
  `incr` and `expire` or between updates, and the hash in the middle of one.
* *Two calls of /execute* overlap in every order, with monitors of either; the
  third raise would come from a third approval and meets the same annotations.
  Sizes 1 and 5 lie on both sides of the initial maximum of 4; 1 is what the
  dashboard sends for the approval without a suggestion, and a size that nobody
  suggested for the other. Three looks at the maximum instead of two, as in the
  code, only repeat the second.
* *Two faults of the intake* let a run hang and another one fail, or the guardian
  be killed while one hangs.
* *Two payloads of up to two alerts*, two tasks: same incident, two incidents, empty, and a
  payload that repeats its alert.

`MaxFaults`, `MaxOthers`, `MaxRequests`, `MaxUpdates`, `MaxTime`, `MaxWebhooks`,
`MaxReading`, `MaxDesired`, `MaxDecisions`, `MaxRuns`, `MaxCrashes`,
`MaxDisturbances` and `MaxForeign` are the bounds in guards; none of the theorems of
section 6 depends on their values.

Deadlock is checked in `scaling` and `intake`, which never stop. A planning call
ends, a pipeline whose messages are all scored waits, time stops at `MaxTime` in
`profile`, approvals once used leave nothing to do, and `guardian` and `edge` end
when their runs, decisions and messages are used up: there the check is off.

## 4. Where code and documentation disagree

Three runs end in a counterexample to something the repository says.

| Run | Property | What happens |
|---|---|---|
| `planner_actions` | `ActionsRealizePlan` | a priority list that names only some donors: the plan takes from the others too, but `actions_in_order` has no step for them (`k8s_mcp.py:116`) |
| `pipeline_retry` | `CommittedIsHandled` | processing raises in a scoring worker (the only fault of this run), nothing is committed, and the loop polls the *next* message, whose commit passes the failed one (`scoring.py:119-131`) |
| `approval_stale` | `RaiseNotesOriginal` | removing keys from the dict of a merge patch does not remove annotations (`k8s_mcp.py:642`), so a later raise finds the first one's original |

Others came up while modelling. The models contain them, and the properties are
stated so that they hold around them; the comments of the modules name the
places.

* An alert that meets a held lock is answered `ignored_inflight` and dropped
  (`runtime.py:290`), where `agents-devops/README.md:60` and `README.md:524`
  speak of serializing. A repetition comes with the next notification of the
  alert manager, if the alert still fires.
* The velocity that scores a transaction is read from the profile hash
  (`redis_state.py:71`), which outlives the ten-minute counter, so that after a
  pause a transaction may be scored with the count of an old burst.
  `OrdinaryIsNotBlocked` shows that this alone blocks nobody.
* The counter that expires between `incr` and `expire` (`redis_state.py:89-90`)
  takes the increment with it, and the `expire` that follows finds no key. A
  command that raises there leaves a counter with the deadline of the one
  before. `VelocityNeverUndercounts` counts both, in `missed` and `faults`.
* Enrichment logs an unexpected exception and commits
  (`enrichment_system.py:120`): the transaction is gone. Scoring polls past it
  (above). Neither is in the runs that say that nothing is lost, and
  `AcceptedIsAnnounced` names the transactions dropped.
* A scored payment that cannot be decoded, since the schema registry does not
  answer, is logged and passed over, and the automatic commit covers it
  (`notification_system.py:85-94`). `AcceptedIsAnnounced` and
  `NothingIsPassedOver` name these as well.
* Of the requests of the guardian only those to the language model have a
  timeout (`llm.py:43`). A call of a tool server (`runtime.py:463`, and
  `k8s_mcp.py`'s own requests to Kubernetes) and a command of the database are
  awaited for ever. A run that hangs in one keeps its deployment's lock, and
  every later alert of that deployment is `ignored_inflight` until the guardian
  is restarted (`Hangs` in `AlertIntake`, `Hang` in `GuardianRun`).
* A run and an endpoint that rewrite one report at the same time lose a count
  or a mark (`main_agent_guardian.py:110`, `runtime.py:943`). Such incidents, and
  those of a write that failed, are in the history variable `blurred`, which the
  properties of reports exclude. A decision marks the incident's present report,
  even if its request belongs to an earlier one.
* An answer of the language model that `models.py` rejects ends the run in an
  exception after its tools have acted, and nothing is reported (`RunFails`).
* Notification pods share one consumer group (`notification_system.py:70`) while
  the autoscaler allows two (`README.md:171`): a client is told of the
  transactions that its own pod happens to read. `AcceptedIsAnnounced` says that
  some pod broadcasts.
* A thread that dies of a message it cannot parse is not started again, and the
  pod still answers that it is ready (`notification_system.py:187`, against
  `README.md:162`). The gateway's probe does not look at what
  `force_metadata_update` returns (`Probe`).
* The rule about blacklisted addresses (`scoring_engine.py:72`) looks among the
  undeclared fields for `ip_address`, a name the schema takes for `client_ip`
  (`scoring-system/schemas/scoring_dto.py:20`): it never applies.
* An over-budget cluster: a request for no more replicas than there are is
  "feasible" without a look at the budget (`budgeting.py:88`, against
  `README.md:564`), and `set_replicas` refuses to scale one service down a step
  unless that ends within the budget. `AllocationAnswer` allows the first.
* Somebody scales between the reading and the patch (`k8s_mcp.py:176-191`): the
  patch ends over the budget (`agents-devops/README.md:18` says never). Hence
  `DonorsKeepFloor`, `RollbackRestores` and `PlanIsCarriedOut` are about
  undisturbed calls and `BudgetedCluster` has a variable `disturbed`.
* The answer of an applied patch is lost (`k8s_mcp.py:375`): the step counts as
  failed but is not among those undone. `RollbackRestores` excludes that step.
  If the priority list leaves out a donor that the plan takes from, the target's
  step meets the budget guard and starts a rollback on its own, so that a single
  fault can hit the rollback and leave the cluster half way. What
  `RollbackRestores` promises after one fault is therefore for lists that name
  all donors, or none.
  A rollback also cannot restore counts that others set over the budget or over
  `EMERGENCY_MAX`, since it uses the guarded `set_replicas`.
* The monitor that ends a raise is a task in memory (`main_agent_guardian.py:309`):
  a crash loses it, and a request that fails after its raise never starts one.
  The next call of the tool for that autoscaler is the only repair. Hence
  `disturbed` in `ApprovedScaling`.
* A denial while `/execute` is under way is not seen, and COMPLETED overwrites it
  (`main_agent_guardian.py:206`). `OnlyApprovedIsScaled` is about what was approved
  at some time.
* The payload of `/execute` may name a size, which takes the place of the
  suggested one (`main_agent_guardian.py:199-201`); the dashboard always names
  one, and it is 1 where the approval suggests none (`dashboard.py:285-292`).
  So an approved request can be scaled to a size that nobody approved.
  `OnlyApprovedIsScaled` therefore distinguishes the two: what is written is the
  approval's suggestion, or what this very call named.

## 5. Fairness

Only liveness properties use it. `Spec` of every module is without fairness and
carries all safety runs and theorems.

| Module | Fairness | Why the code justifies it |
|---|---|---|
| `BudgetedScaling` | weak, of `ServerStep` | the tool does not await anything but Kubernetes requests, and those answer or fail (which are both steps). That they end is assumed of Kubernetes: the client is given no timeout |
| `TransactionPipeline` | weak, of each worker's `Loop` and `Deliver` | `while running` around `poll(1.0)`; Redis has a socket timeout (`redis_state.py:36`), a loop that stands still fails the liveness probe (`scoring.py:234`) and is restarted; the producer has a thread of its own and is flushed on shutdown |
| `ApprovedScaling` | weak, of each `Step(c)` and of `Tick` | the event loop resumes a coroutine whose request ended; the monitor loops on `asyncio.sleep`; time passes. That requests end is assumed, not in the code: calls of the tool server have no timeout |
| `GuardianRun` | weak, of `Begin` and of `Continue` | attempts to load tools are counted (`GRAFANA_MCP_MAX_RETRIES`), rounds of the loop too (`MAX_TOOL_STEPS`); a request that is not answered disables both (`Hang`), so that nothing is assumed about answers |
| `Gateway` | weak, of the connection task, the probe, and each transaction's receipt and answer | `while` around a sleep; Kubernetes restarts and probes pods; clients repeat what was refused |
| `Notification` | weak, of each pod's start and thread and of the broadcasts | Kubernetes restarts pods, `poll(1.0)` in a loop, the event loop; that a send ends, delivered or failed, is assumed of the web server; that clients disconnect, or that it is noticed, is not |
| `EdgeServices` | of the two, and weak of the end of an outage and of the pipeline's outcome (`Scoring`: scored or dropped) | outages end; `AcceptedIsScored` and the loops of `TransactionPipeline` |
| `AlertIntake` | weak, of each `Work(t)` | the event loop resumes a background task that can go on; a run whose request is not answered is `hung` and cannot, so that nothing is assumed about answers |

Faults, outages, scaling by others, webhooks, alerts, decisions and clients that
connect or leave are never fair. A fault that takes the place of a step (a
rejected request, a failing run) is one of the disjuncts of that step; where
faults are bounded in number, the calls meet a working environment in the end,
which is what the liveness properties assume. In `GuardianRun` failures are not
bounded: `AlwaysAnswers` holds because each of them ends the step or the run, and
it names the case in which a request hangs.

## 6. Proofs

`tlapm <module>` checks them. Each is an invariant of the specification without
fairness, for all sets and values that the modules' `ASSUME`s allow. These say
little: deployments are finitely many and `NameOrder` lists each once, costs are
positive, floors are at least `MIN_REPLICAS` and that at most `EMERGENCY_MAX`
(`k8s_mcp.py:20-71` reads and clamps them so), a monitor outlives its raise
(`duration_seconds + 600`), alerts of one incident are of one deployment
(`_incident_id` uses the fingerprint of the alert's labels, or a digest that
includes the deployment), amounts are positive integers, the tool loop and the
attempts to load tools have at least one round, the workers of the pipeline
and those that update a profile are finitely many, the gateway's retry delays are
positive and the least is at most the greatest (`gateway.py:23-24`), and no
scored transaction is a message that `_parse_message` cannot read. `CommitsAreSafe` and
`FlushedCommitsAreDurable` restrict `Faults`, `BudgetIsKept` the initial
cluster and `OrdinaryPasses` the amounts, as the table says;
`OneDuplicatePerDisturbance` is for all faults.

| Theorem | States | Argument |
|---|---|---|
| `BudgetPlanner_proofs!Invariance` | the invariant the next four rest on | `ShortfallIsCurrent`: `needed` is what the counts so far, the target served, exceed the budget by; `VisitedAreExhausted`: donors passed are at their floor while something is missing; `LastGiftWasNeeded`: one replica less from anybody would miss the budget again |
| `RecheckIsRedundant` | `RecheckNeverFires` | a covered shortfall is `ShortfallIsCurrent` with `needed <= 0` |
| `DonationOrder`, `NoNeedlessGift` | `DonorsInOrder`, `NoNeedlessDonation` | the invariant and the order of `donors` |
| `PlannerImplementsContract` | `AnswersCorrectly` | with every donor exhausted and units missing, any allocation above the floors uses at least as much (`NothingSatisfies`): the greedy loop gives up only if it must |
| `LoopComputesClosedForm` | `LoopMatchesClosedForm` | `LoopInv`: visited donors come before the others in the order of giving, only the donor at hand has given some of its share, and a donor that was passed has given exactly its part of `ComputeBudgetPlan` (`VisitedAreSettled`). The closed form looks like a fold over the donors and needs no induction: when a donor is passed, those before it are exhausted and those after it unasked, so the state holds all that its part depends on, or the shortfall is covered |
| `BudgetedScaling_proofs!BudgetIsKept` | `BudgetRespected` | if the initial cluster is within the budget; a patch ends in a count checked against a reading that is current (`SeenIsCurrent`) unless others scaled |
| `PatchesAreBudgeted`, `GuardianImplementsPolicy` | `PatchesEndInBudget` (not run: it is part of the next), `StaysWithinPolicy` | the same invariant `ReadInv`, without an assumption on the initial cluster |
| `FloorsAreKept`, `RollbackIsComplete`, `PlanCarriedOut` | `DonorsKeepFloor`, `RollbackRestores`, `PlanIsCarriedOut` | `CarryInv`: the steps to take lead to the plan and the steps to undo lead back (`StepsOfPlan`, `StepsOfRollback`), so each service has its initial or its planned count at any time (`EitherWay`) and which of the two follows from the steps done (`HalfWay`). `Blameless` is about guards: taking from donors first keeps every state of the way within the budget (`FeasiblePlanFits`, `UsageTake`), so with all donors named only a fault starts a rollback, and one fault is spent by then |
| `TransactionPipeline_proofs!CommitsAreSafe` | `CommittedIsHandled` unless processing fails | `HandledUpTo`: a worker knows the offsets before its own to be handled, since it starts at the committed offset; includes crashes, which the run of that property leaves out |
| `FlushedCommitsAreDurable` | `NothingCommittedIsLost` for commits, stops and rebalances | what is handled is in the log downstream or in an outbox; a worker that stops flushes before it is gone |
| `OneDuplicatePerDisturbance` | `DuplicatesAreBounded` | `CountInv`: the surplus of a stage, what it has produced or will produce for messages in hand beyond what is or will be committed, is at most the disturbances, and so is the sum over the two stages (`SurplusIsPaidFor`): a duplicate of enrichment is new input to scoring, not surplus. A worker that lost its partition with a message in hand (`Stranded`) was disturbed then, and is not charged again when it produces; the owner never reads below what is committed (`OwnerIsAhead`) |
| `CustomerPath_proofs!AverageStaysPlausible` | `AverageIsPlausible` | `Between`: the copies workers hold lie between the same bounds as the profile, so any write order keeps them |
| `AverageStaysExact` | `AverageIsExact` | `CopiesAreCurrent`, until two updates overlap or the hash expires under one |
| `VelocityCountsAll` | `VelocityNeverUndercounts` | `KeptInTime`: transactions younger than the counter's last renewal belong to workers between `incr` and `expire`, or to updates broken off there; so a counter that expires takes with it only old transactions and those of the workers there, which `missed` counts |
| `ScoringUpdatesProfile` | `ScoredSpec => Spec` | every step of `ScoredProfile` is one of `UserProfile` or a stutter, so the theorems above hold of it |
| `OrdinaryPasses` | `OrdinaryIsNotBlocked` if amounts are within a factor of three | `NoSpikes`: averages read by a worker, however old, lie between the amounts; `Calm`: a score without a spike and a jump stays below the penalty's threshold, so the next one earns none |
| `ConnectedAreServed` | `ConnectedReceive` | `CopiesAreListed`: a client that a broadcast still owes a message is on the list of the broadcast's pod or gone, and only clients that are gone count as failed; so removing the failed ones, or ending a pod, takes from the list nobody who is owed something. `SocketsAreKnown`: who is owed something is connected |
| `PoisonIsContained` | `PoisonStopsOneThread` | `OwnersRead`: the one pod that holds the partition reads at or after what is committed; `DeadAreCommitted`: until an outage, what a thread died of is committed. So the message that stops the next thread lies after those that stopped the others |
| `NothingIsPassedOver` | `HandedOver` (not run as a property of its own; TLC checked it on the run `edge`) | with `OwnersRead`: a thread starts at what is committed, hands over each transaction, or finds it undecodable (`Accounted`), before it reads on, and only its position is committed; a broadcast, once there, leaves the set only by being over. It is the safety that `AcceptedIsAnnounced` needs |
| `AcceptedIsStored` | a 202 means the transaction is in the topic | what a request takes for stored is there (`StoredAreInRaw`), and a restart forgets the requests |
| `ApprovedScaling_proofs!OnlyApprovedScales` | `OnlyApprovedIsScaled` | `ApprovedInv`: a call in flight is for a request that was approved, and keeps the size it started with, its own or the suggested one, until it has scaled |
| `RaisesAreRestored` | `QuietIsRestored` | `KeeperInv`: a raised maximum has its true original noted and a call that will start or keep a monitor (`Keeps`), whatever requests interleave |
| `AlertIntake_proofs!RunsExclude` | `OneRunPerDeployment` | every run holds its deployment's lock |
| `OccurrencesStayCounted` | `OccurrencesAreCounted` | two runs of an incident would share a deployment, so the count a run has read is current when it saves |
| `RunsStaySpaced` | `RunsAreSpaced` | the table holds the latest start of an alert or that start is past the window: pruning forgets only what no longer counts |
| `GuardianRun_proofs!CountsAreExact` | `CountIsExact` | `CountInv`: what is in flight is current. A copy that an endpoint is going to write back has the stored count (`CopiesAreCurrent`), a document that a run is going to save one more, and one that it may write again the stored count (`StoredIsCurrent`), unless the incident is `blurred`: a run or an endpoint saved over the other's copy, or a decision or a request for approval failed half way or was killed there |
| `RequiredIsPending` | `RequiredMeansPending` | `MarkInv` adds `RequiredLeads`: from a report that requires approval the way leads to an open request, or to a decided one whose decision is still on its way to the report (`Marking`), or to a run that is about to create it (`Requesting`); and `DecidesKnown`: a request to an endpoint without an incident is not about an open request, so no decision closes a request silently |
| `RecurringGetsVerdict` | `RecurringIsClassified` | `Classifying`: the verdict is set with the investigation and no later step before the save takes it back; before the incident is looked up no recurrence is known (`RecurrenceIsKnown`) |
| `TypeCorrect` in seven modules, `EdgeTypeCorrect` | `TypeOK`, `EdgeTypeOK` | per action; in the pipeline with `PositionsExist`, no worker being past the end of its topic; at the edges with `OwnersRead`, since two owners would be two readers of one partition |

`CustomerPath_proofs` has two parts, the profile that scores a customer's
transactions and the services at the two ends of their path; neither uses the
other. The gateway's and the notification service's steps share no variables, so
each of the invariants of the second part is proved over one of them
(`NotificationMoves`, `GatewayMoves`, `EdgeMoves`), and the steps of the broker
disturb none.

`ReplicaBudget_proofs` holds the arithmetic they use. Budget usage is defined as
the number of budget units held, a cardinality, so that its laws (taking
replicas away, `UsageTake`; one count at most another, `UsageMonotone`) follow
from the library's theorems on finite sets and need no induction over a
recursive sum. `FirstDonor` finds the first donor of a non-empty set in the
order of giving, `FeasiblePlanFits` shows that a feasible plan is within the
budget, `UnlistedDonorIsNeeded` that the request does not fit while a donor
outside the list still holds what the plan takes from it, and `StepsCarryPlan`
that the steps built from a plan are those of listed donors that give, none
left out, and of the target at the end.

The proofs corrected the model in one place: `RollbackRestores` was first
stated without `DonorsNamed`, and held in a smaller instance. The step of the
proof for a patch that the guard refuses did not go through, TLC found
the counterexample with an emergency maximum of 4 (section 4), and the run has
used that maximum since.

## 7. Model-checked only

* Liveness (`CallReturns`, `AcceptedIsScored`, `EventuallyRestored`,
  `LocksAreReleased`, `AlwaysAnswers`, `RetriesSucceed`, `AcceptedIsAnnounced`):
  the prover does not treat fairness through ENABLED. Every invariant and every
  other action property of a passing run is a theorem.
* Nothing is shown by induction over data. The sums and counts above are
  cardinalities, and plans are described donor by donor, so that no theorem
  depends on what a recursive definition computes.

## 8. Not modelled

* The language model's choices and prompts: every tool may be called at any time,
  every answer given. The read-only tools only feed it, and `restore_cpu_limits`
  is a call that the run remembers (`asked`); its patch of the limits is not a
  change of replicas.
* The texts of reports, their normalisation and translation. In `AlertIntake` a
  report is its occurrence count, in `IncidentReports` count, mark and request;
  in `ApprovedScaling` approvals exist from the start.
* The trend analyser: it reads reports, asks for a summary and inserts it under
  an identifier of its own, and no decision reads it back. The dashboard is a
  page; its calls are the callers of the endpoints.
* GeoIP and the schema check appear as well-formed or malformed; the distance of
  places as reachable in time or not.
* Rounding: the code keeps averages as floats; `UserProfile` keeps sum and count,
  so `AverageIsExact` is about which updates are in, not about the last digit.
* Two guardians at once while a deployment is replaced: locks, table and
  monitors would be doubled. The manifest asks for one replica.
* Wall-clock times are ticks: which of two deadlines comes first matters, not
  how long it takes. Kafka, Redis, Postgres and Kubernetes are modelled by what
  the code sees of them.
* Chaos agent: two nodes around one Kubernetes request, without state; its
  effects are the fault actions. Postgres sink, manifests, load tests, client
  simulator.

## 9. Plan

Written first: planner and tools (the promise the README makes most of), then
the pipeline and the profiles (the product), intake and approvals, and then the
reports, the decision loop, the risk rules and the two ends of the payment path.
What is left:

1. Profiles in the pipeline: a redelivery is counted twice. A composition would
   relate the duplicates of `TransactionPipeline` to the counts of `UserProfile`.
2. `ApprovedScaling` on the tables of `IncidentReports`, instead of side by side:
   a status read by `/execute` and overwritten while it scales.
