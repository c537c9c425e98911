SPECIFICATION ArtefactsSpec
CONSTANTS
    NoRow = NoRow
    Readers = {}
    Deleters = {x1}
    MaxRuns = 2
    MaxFailures = 0
    Backends = {"s3"}
INVARIANTS
    DeletedLeavesNoFiles
CHECK_DEADLOCK FALSE
