SPECIFICATION FairSpec
CONSTANTS
    u1 = u1  u2 = u2
    NoRow = NoRow  NoSummary = NoSummary
    Units = {u1, u2}
    Populations <- Shrinking
    NumWorkers = 2
    Costs = {0, 1, 2}
    MaxRounds = 2
    MaxRuns = 2
    MayFail = TRUE
    MaxTurns = 2
    TurnCosts = {1}
    Backoff = 1
    RetryAfters = {0, 2}
    Jitter = 1
INVARIANT SpendAccounted
PROPERTIES
    WindowsHonoured
    StepEnds
CHECK_DEADLOCK FALSE
