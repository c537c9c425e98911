SPECIFICATION FairSpec
CONSTANTS
    Null = Null
    LeaseTime = 1
    MaxAttempts = 3
    RetryBase = 1
    Docs = {d1, d2}
    Procs = {p1}
    Tasks = {t1}
    ProcTimeout = 1
    SchemaLease = 0
    MaxFaults = 2
PROPERTIES
    QueuedIsServed
    RunEnds
CHECK_DEADLOCK FALSE
