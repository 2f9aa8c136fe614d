\* One visitor and two runs, one of them under way or started from the page.
SPECIFICATION FairSpec
CONSTANTS
    live = live
    recorded = recorded
    e1 = e1
    e2 = e2
    None = None
    Entitlements <- MCEntitlements
    Amount <- MCAmount
    TotalBudget = 3
    FeedLines = 2
    Runs <- MCRuns
    Live = live
    Recorded = recorded
    Scopes <- MCScopes
CHECK_DEADLOCK FALSE
INVARIANTS
    StageTypeOK
    ToastsTellTheTruth
    
    
PROPERTIES
    WatchedToTheEndIsWhole
    TilesOnlyAdvance
