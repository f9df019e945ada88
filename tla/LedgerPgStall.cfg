CONSTANTS
    Keys = {"k1", "k2"}
    Trades = {"t1"}
    KeyOf <- MCKeyOf
    SideOf <- MCSideOf
    OpenKindOf <- MCOpenKindOf
    Prices = {1}
    Qtys = {1}
    Costs = {10}
    LastDate = 2
    StartingCash = 100000
    Backend = "postgres"
    Faults = {}
    MaxCrashes = 1
    MaxResets = 0
SPECIFICATION FairSpec
CHECK_DEADLOCK FALSE
PROPERTY MarkedDatesSettle
