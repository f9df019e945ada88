SPECIFICATION MCSpec
CONSTANTS
    RuleIds = {r1}
    Kinds = {"enter", "turn", "change", "cadence"}
    Editors = {c1}
    Cooldown = 2
    Period = 2
    StorageFaults = {"refuse", "lost", "append"}
    MaxClock = 4
    MaxPasses = 3
    MaxEdits = 3
    MaxStops = 1
    Theses = {t1}
    Workers = {w1, w2}
    Sweepers = {loop, operator}
    Loop = loop
    Prices = {100, 106}
    CatalystsDue = {2, 3}
    QueueMax = 1
    MaxAttempts = 2
    LeaseTime = 1
    RetryDelay = 1
    MonitorFaults = {"load", "persist"}
    MaxNow = 3
    MaxTicks = 3
    MaxLeases = 2
    MaxReviews = 1
    MaxKills = 1
INVARIANTS AlertsAreDue JobIsOneWorkers 
PROPERTIES AcknowledgedStands
CHECK_DEADLOCK FALSE
