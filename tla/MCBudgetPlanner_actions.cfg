CONSTANTS
    Deployments <- MCDeployments
    NameOrder <- MCNameOrder
    Cost <- MCCost
    Floor <- MCFloor
    MinReplicas = 1
    EmergencyMax = 4
    TotalBudget = 6
    Unknown = "unknown"
    MaxReading = 3
    MaxDesired = 5
    Priorities <- MCPriorities

SPECIFICATION Spec

INVARIANT ActionsRealizePlan

CHECK_DEADLOCK FALSE
