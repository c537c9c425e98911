SPECIFICATION GatesSpec
CONSTANTS
    Tasks = {t1, t2, t3, t4}
    Limit <- MCLimit
    MaxMade = 6
INVARIANTS
    GatesAreCapped
CHECK_DEADLOCK FALSE
