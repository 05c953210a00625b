SPECIFICATION VerifySpec
CONSTANTS
    u1 = u1  u2 = u2
    NoRow = NoRow
    Units = {u1, u2}
    Populations <- Shrinking
    Costs = {1}
    MaxRuns = 2
    MayReset = TRUE
    NumWorkers = 2
INVARIANTS
    LedgersAgree VerifyAccounts
CHECK_DEADLOCK FALSE
