\* What a run whose receipt could not be written is shown with.
SPECIFICATION Spec
CONSTANTS
    live = live
    recorded = recorded
    e1 = e1
    e2 = e2
    None = None
    Entitlements <- MCEntitlements
    Amount <- MCAmount
    TotalBudget = 3
    FeedLines = 2
    Runs <- MCRuns
    Live = live
    Recorded = recorded
    Scopes <- MCScopes
CHECK_DEADLOCK FALSE
INVARIANT NoVerdictWhenFailed
