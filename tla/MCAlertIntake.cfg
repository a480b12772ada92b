SPECIFICATION FairSpec
CONSTANTS
    a1 = a1
    a2 = a2
    a3 = a3
    d1 = d1
    d2 = d2
    i1 = i1
    i2 = i2
    Alerts = {a1, a2, a3}
    Deployments = {d1, d2}
    Incidents = {i1, i2}
    DeploymentOf <- MCDeploymentOf
    IncidentOf <- MCIncidentOf
    Batches <- MCBatches
    t1 = t1
    t2 = t2
    Tasks = {t1, t2}
    Window = 2
    MaxWebhooks = 2
    Faults = {"run", "database", "hang", "crash"}
    MaxFaults = 2
INVARIANTS
    OneRunPerDeployment
    OccurrencesAreCounted
PROPERTIES
    RunsAreSpaced
    LocksAreReleased
