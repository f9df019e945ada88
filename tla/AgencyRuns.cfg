SPECIFICATION MCSpec
CHECK_DEADLOCK FALSE
CONSTANTS
    Instances = {"races", "evidence"}
    Alone = w1
    Questions = {q}
    Workers = {w1, w2}
    RunsPerUser = 2
    SnapsPerUser = 1
    SnapsHardCap = 2
    MaxAttempts = 2
    LeaseTicks = 1
    MaxRunAge = 2
    Stages = 1
    MaxRuns = 2
    MaxSnaps = 2
    MaxLate = 1
    MaxCrashes = 1
    MaxSaveFailures = 1
INVARIANTS
    ReviewHasItsEvidence
    LeasesAreSound
PROPERTIES
    ResultStands
