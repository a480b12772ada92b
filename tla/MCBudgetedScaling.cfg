CONSTANTS
    Deployments <- MCDeployments
    NameOrder <- MCNameOrder
    Cost <- MCCost
    Floor <- MCFloor
    MinReplicas = 1
    EmergencyMax = 4
    TotalBudget = 7
    Unknown = "unknown"
    InitialReplicas <- MCInitial
    Wanted <- MCWanted
    Priorities <- MCPriorities
    OthersScale <- MCOthersScale
    MaxOthers = 2
    MaxFaults = 2

SPECIFICATION FairSpec

INVARIANTS
    TypeOK
    BudgetRespected
    DonorsKeepFloor
    RollbackRestores
    PlanIsCarriedOut

PROPERTIES
    StaysWithinPolicy
    CallReturns
