SPECIFICATION Spec
CONSTANTS
    a1 = a1
    a2 = a2
    NoApproval = NoApproval
    Approvals <- MCApprovals
    Wanted <- MCWanted
    Sizes = {1}
    c1 = c1
    c2 = c2
    Calls = {c1, c2}
    InitialMax = 4
    BudgetMax = 2
    AgentSetsMax = TRUE
    Duration = 1
    MonitorTime = 2
    Tries = 3
    MaxRequests = 2
    Faults = {}
    MaxFaults = 0
CHECK_DEADLOCK FALSE
PROPERTIES
    RaiseNotesOriginal
