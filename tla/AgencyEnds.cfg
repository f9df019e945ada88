SPECIFICATION MCFairSpec
CHECK_DEADLOCK FALSE
CONSTANTS
    Instances = {"ends"}
    Alone = w1
    Questions = {q}
    Workers = {w1}
    RunsPerUser = 2
    SnapsPerUser = 1
    SnapsHardCap = 2
    MaxAttempts = 2
    LeaseTicks = 1
    MaxRunAge = 1
    Stages = 1
    MaxRuns = 2
    MaxSnaps = 1
    MaxLate = 0
    MaxCrashes = 1
    MaxSaveFailures = 1
    q = q
    w1 = w1
PROPERTY EveryRunEnds
