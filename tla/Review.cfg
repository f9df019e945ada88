SPECIFICATION MCSpec
CHECK_DEADLOCK FALSE
CONSTANTS
    NumConfigs = 2
    Configs <- MCConfigs
    Worlds <- MCWorlds
    SourceStates = {"live", "stale", "unavailable"}
    Keys = {k1, k2}
    MaxItems = 12
    MaxPaths = 6
    MaxGen = 2
    MaxRaised = 2
    k1 = k1
    k2 = k2
INVARIANTS
    SnapshotIsOfOneExperiment
    EdgeIsEarned
    
    NothingBadIsDropped
