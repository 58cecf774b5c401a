CONSTANTS
    j1 = j1  j2 = j2  j3 = j3
    Jobs = {j1, j2, j3}
    Limit = 2
    MaxRuns = 2
    MaxFaults = 1
    MayExpire = TRUE
    LongSleep = TRUE
SPECIFICATION Spec
INVARIANTS TypeOK NoSilentLeak
PROPERTY EveryJobEnds
CHECK_DEADLOCK FALSE
