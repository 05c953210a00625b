SPECIFICATION FairSpec
CONSTANTS
    f1 = f1  f2 = f2
    NoFinding = NoFinding  NoRow = NoRow
    Findings = {f1, f2}
    Populations <- Asked
    Untestable <- Templates
    MaxRetries = 1
    MaxCommands = 2
INVARIANTS
    RunReported TornDown
PROPERTY Answered
CHECK_DEADLOCK FALSE
