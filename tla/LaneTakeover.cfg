SPECIFICATION LaneSpec
CONSTANTS Passes = {p1, p2}
 Workers = {w1}
 LeaseFor = 1
 Interval = 1
 MaxClock = 1
 MaxRuns = 3
PROPERTY TakeoverStands
