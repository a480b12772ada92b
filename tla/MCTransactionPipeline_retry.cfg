SPECIFICATION Spec
CONSTANTS
    t1 = t1
    t2 = t2
    bad = bad
    e1 = e1
    s1 = s1
    s2 = s2
    Nobody = Nobody
    Transactions <- MCTransactions
    Malformed <- MCMalformed
    Workers <- MCWorkers
    StageOf <- MCStageOf
    Faults = {"scoring"}
    MaxFaults = 1
CHECK_DEADLOCK FALSE
INVARIANTS
    CommittedIsHandled
