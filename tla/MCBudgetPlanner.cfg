CONSTANTS
    Deployments <- MCDeployments
    NameOrder <- MCNameOrder
    Cost <- MCCost
    Floor <- MCFloor
    MinReplicas = 1
    EmergencyMax = 4
    TotalBudget = 6
    Unknown = "unknown"
    MaxReading = 3
    MaxDesired = 5
    Priorities <- MCPriorities

SPECIFICATION Spec

INVARIANTS
    TypeOK
    DonorsInOrder
    NoNeedlessDonation
    LoopMatchesClosedForm

PROPERTIES
    AnswersCorrectly

\* A behaviour is one call: it ends when the call has returned.
CHECK_DEADLOCK FALSE
