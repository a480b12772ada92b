SPECIFICATION FairSpec
CONSTANTS
    a1 = a1
    a2 = a2
    NoApproval = NoApproval
    Approvals <- MCApprovals
    Wanted <- MCWanted
    Sizes = {1}
    c1 = c1
    c2 = c2
    Calls = {c1, c2}
    InitialMax = 4
    BudgetMax = 2
    AgentSetsMax = TRUE
    Duration = 2
    MonitorTime = 3
    Tries = 2
    MaxRequests = 2
    Faults = {"raise", "outage", "answer", "confirm", "scale", "database", "check", "crash"}
    MaxFaults = 2
CHECK_DEADLOCK FALSE
INVARIANTS
    TypeOK
    OnlyApprovedIsScaled
    QuietIsRestored
PROPERTIES
    EventuallyRestored
