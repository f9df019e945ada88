CONSTANTS
    Keys = {"k1", "k2"}
    Trades = {"t1", "t2", "t3"}
    KeyOf <- MCKeyOf
    SideOf <- MCSideOf
    OpenKindOf <- MCOpenKindOf
    Prices = {1}
    Qtys = {1}
    Costs = {10}
    LastDate = 2
    StartingCash = 100000
    Backend = "postgres"
    Faults = {"refuse", "unacked"}
    MaxCrashes = 2
    MaxResets = 1
SPECIFICATION MCSpec
CHECK_DEADLOCK FALSE
INVARIANTS
    NoDoubleBooking
    NothingUnexplained
PROPERTIES
    ImplementsTradeBook
