SPECIFICATION Spec
CONSTANTS
    t1 = t1
    t2 = t2
    bad = bad
    e1 = e1
    s1 = s1
    s2 = s2
    Nobody = Nobody
    Transactions <- MCTransactions
    Malformed <- MCMalformed
    Workers <- MCWorkers
    StageOf <- MCStageOf
    Faults = {"enrichment", "scoring", "commit", "delivery", "stop", "crash", "evict"}
    MaxFaults = 2
CHECK_DEADLOCK FALSE
INVARIANTS
    TypeOK
    DuplicatesAreBounded
