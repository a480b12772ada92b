SPECIFICATION FairSpec
CONSTANTS
    i1 = i1
    i2 = i2
    c1 = c1
    Incidents = {i1, i2}
    Clients = {c1}
    MaxDecisions = 2
    Policy <- MCPolicy
    Saturations = {i1}
    GrafanaTools = {"query_prometheus"}
    K8sTools = {"get_workload_health", "restore_cpu_limits"}
    MaxToolSteps = 2
    Retries = 2
    Answers = {"BUG", "UNCLEAR", "missing"}
    MaxRuns = 2
    MaxCrashes = 1
CHECK_DEADLOCK FALSE
INVARIANTS
    TypeOK
    CountIsExact
    RequiredMeansPending
    RecurringIsClassified
PROPERTIES
    AlwaysAnswers
