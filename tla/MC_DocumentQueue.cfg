SPECIFICATION Spec
CONSTANTS
    Null = Null
    LeaseTime = 2
    MaxAttempts = 3
    RetryBase = 1
    Docs = {d1, d2}
    Procs = {p1}
    Tasks = {t1, t2}
    ProcTimeout = 2
    SchemaLease = 0
    MaxFaults = 1
SYMMETRY Symmetry
INVARIANTS
    TypeOK
    OneTaskPerDocument
    FailedMeansExhausted
PROPERTIES
    SuccessIsFinal
    ImplementsLifecycle
    StrandedOnlyByFaultOrLateReport
CHECK_DEADLOCK FALSE
