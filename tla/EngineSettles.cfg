CONSTANTS
    Keys = {"k1"}
    MaxTrades = 3
    Scenarios <- SettlingScenarios
SPECIFICATION FairSpec
PROPERTY EverythingSettles
