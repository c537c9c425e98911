SPECIFICATION FairSpec
CONSTANTS
    Null = Null
    LeaseTime = 1
    MaxAttempts = 3
    RetryBase = 1
    Docs = {d1}
    Procs = {p1, p2}
    Tasks = {t1}
    ProcTimeout = 1
    SchemaLease = 0
    MaxFaults = 0
INVARIANT OneTaskPerDocument
CHECK_DEADLOCK FALSE
