SPECIFICATION ScoredSpec
CONSTANTS
    Workers = {w1, w2}
    Amounts = {10, 30}
    Window = 2
    ProfileTTL = 3
    MaxTime = 3
    MaxUpdates = 3
    MaxFaults = 1
    Many = 0
    TooMany = 1
    Kinds <- MCKinds
SYMMETRY Symmetry
CHECK_DEADLOCK FALSE
INVARIANTS
    TypeOK
    AverageIsPlausible
    AverageIsExact
    VelocityNeverUndercounts
    OrdinaryIsNotBlocked
