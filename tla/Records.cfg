CONSTANTS
    OldTrades = {o1}
    NewTrades = {n1}
    Callers = {c1, c2}
    Plans = {p1, p2, bad}
    BadPlan = bad
    MaxWrites = 3
    MaxTradeFaults = 1
    MaxTradeStops = 1
    OldTheses = {h1}
    NewTheses = {h2}
    Items = {i1}
    MaxActive = 1
    MaxVersions = 2
    ThesisFaults = {"load", "refuse", "lost"}
    MaxChanges = 3
    MaxThesisFaults = 1
    MaxThesisStarts = 1
    Records = {e1, e2}
    Sources = {s1}
    Cited = {t1}
    Tabs = {b1, b2}
    MaxEdits = 4
    MaxEvidenceFaults = 1
    MaxEvidenceStarts = 1
    MaxDecisions = 1
    Assumptions = {a1}
    Desks = {k1}
    LogOnRows = {TRUE, FALSE}
    MaxTaken = 1
    MaxLogWrites = 3
    MaxEditions = 1
    MaxLogFaults = 1
    MaxLogStarts = 1
    Tickers = {u1, u2}
    Feed = {f1}
    MaxStamp = 2
    MaxFollows = 4
    MaxFollowFaults = 1
    MaxFollowStarts = 1
    Guided = {g1, g2}
    Browsers = {w1, w2}
    MaxKept = 1
    MaxReviewIds = 3
    MaxGuideWrites = 3
    MaxGuideFaults = 1
    MaxGuideStarts = 1
    Emails = {"e1"}
    GoogleSubs = {"s1", "s2"}
    AccountValues = {"nvda", "tsla"}
    FirstValue = "nvda"
    Feedbacks = {"f1"}
    FeedbackStates = {"new", "resolved"}
    Clients = {b1, b2}
    MaxAccountWrites = 3
    MaxAccountFaults = 1
    MaxAccountStarts = 1
    ShadowConfigs = {k1}
    ShadowHorizons = {1, 2}
    History = 2
    MaxShadowBar = 4
    MaxShadowTroubles = 1
    PortfolioLimit = 2
    PaperLimit = 1
    Holdings = {"x", "y"}
    Requests = {r1, r2}
    MaxBookWrites = 3
    MaxBookFaults = 1
    MaxBookStarts = 1
    MaxMoves = 1
SPECIFICATION MCSpec
CHECK_DEADLOCK FALSE
INVARIANTS
    TradesStand
    NothingIsClobbered
    HistoryTellsTheLife
    EvidenceIsKept
    
    LeftAndFlagsStand
    GuideStands
    
    OutcomeIsItsHorizon
    
