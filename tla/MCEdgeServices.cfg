SPECIFICATION FairSpec
CONSTANTS
    Transactions = {t1}
    Payments = {t1}
    MinRetryDelay = 2
    MaxRetryDelay = 4
    MaxDisturbances = 1
    Pods = {p1, p2}
    Sockets = {s1, s2}
    MaxForeign = 1
CHECK_DEADLOCK FALSE
INVARIANTS
    EdgeTypeOK
    ConnectedReceive
    PoisonStopsOneThread
PROPERTIES
    RetriesSucceed
    AcceptedIsAnnounced
