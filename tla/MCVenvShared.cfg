SPECIFICATION FairVenvSpec
CONSTANTS
    here = here  there = there  c1 = c1  c2 = c2  c3 = c3
    Nothing = Nothing
    Sources = {here, there}
    Invocations = {c1, c2, c3}
    Checkout <- SharedTree
    MaxStarts = 4
    MaxConcurrent = 3
    StampMayFail = TRUE
    MayKill = TRUE
INVARIANTS PipExclusive RunsOwnSource
PROPERTY CommandsEnd
CHECK_DEADLOCK FALSE
