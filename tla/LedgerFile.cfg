CONSTANTS
    Keys = {"k1", "k2"}
    Trades = {"t1", "t2"}
    KeyOf <- MCKeyOf
    SideOf <- MCSideOf
    OpenKindOf <- MCOpenKindOf
    Prices = {1, 3}
    Qtys = {1}
    Costs = {10}
    LastDate = 2
    StartingCash = 100000
    Backend = "file"
    Faults = {"torn"}
    MaxCrashes = 1
    MaxResets = 1
SPECIFICATION MCSpec
CHECK_DEADLOCK FALSE
INVARIANTS
    
    AccountingIdentity
PROPERTY MarkedDatesSettle
