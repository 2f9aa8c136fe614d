\* One visitor of the wizard, beside others, with two requests at a time.
SPECIFICATION FairSpec
CONSTANTS
    demo = demo  fresh = fresh  r1 = r1  r2 = r2  q1 = q1  q2 = q2
    NoOne = NoOne
    blank = blank  good = good  bad = bad  huge = huge
    Texts <- MCTexts
    Blank = blank
    TooBig <- MCTooBig
    Valid <- MCValid
    Batches <- MCBatches
    DemoBatch = demo
    Runs <- MCRuns
    Requests <- MCRequests
    MaxActiveRuns = 2
    RunsPerHour = 2
    Scopes <- MCScopes
CHECK_DEADLOCK FALSE
INVARIANTS
    NoRunBeyondAllowance
    
    RunsHaveWholeBatches
    NeverBlank
    PreviewIsOfTheText
PROPERTIES
    ClicksAreAnswered
    
    
