SPECIFICATION FairSpec
CONSTANTS
    t1 = t1
    t2 = t2
    bad = bad
    e1 = e1
    s1 = s1
    s2 = s2
    Nobody = Nobody
    Transactions = {t1, t2}
    Malformed = {}
    Workers <- MCWorkers
    StageOf <- MCStageOf
    Faults = {"commit", "stop", "evict"}
    MaxFaults = 2
CHECK_DEADLOCK FALSE
INVARIANTS
    CommittedIsHandled
    NothingCommittedIsLost
PROPERTIES
    AcceptedIsScored
