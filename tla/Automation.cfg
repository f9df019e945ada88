CONSTANTS
    Passes = {p1, p2}
    Workers = {w1}
    LeaseFor = 1
    Interval = 1
    MaxClock = 1
    MaxRuns = 3
    People = {u1}
    Enrichers = {e1}
    Resynths = {s1, s2}
    RawEvents = {v1}
    Jobs = {j1}
    MaxPasses = 3
    Ingests = {i1, i2}
    MaxDoc = 2
    MacroDoc = 1
    DailyLimit = 2
    MaxCalls = 1
    MaxIngests = 3
    Controllers = {c1, c2}
    Models = {m1}
    MaxTrials = 1
    MinNewBars = 1
    PairedBars = 1
    MaxBar = 2
    MaxEvals = 2
    MaxTrialTroubles = 1
    AnalystKeys = {"q1"}
    Askers = {a1, a2}
    RunLimit = 2
    RunGrace = 1
    KeepFor = 3
    CacheFor = 1
    MaxMinutes = 6
    MaxAnalyses = 3
SPECIFICATION MCSpec
CHECK_DEADLOCK FALSE
INVARIANTS
    AnswerMatchesRecord
    YieldsToPeople
    CheckedExactlyOnce
    ClusteringIsComplete
    
    
    OneRunOfAQuestion
