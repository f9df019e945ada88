CONSTANTS
    Keys = {"k1", "k2"}
    MaxTrades = 3
    Scenarios <- MCScenarios
SPECIFICATION Spec
INVARIANTS
    ActsOnce
    ExitsFollowJournal
    MovesInAgreement
    
