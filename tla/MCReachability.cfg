SPECIFICATION RefilterSpec
CONSTANTS
    k1 = k1  k2 = k2
    python = python  rust = rust
    NoRecord = NoRecord  NoSummary = NoSummary
    Size = 4
    Keys = {k1, k2}
    Replies <- OneEach
    BatchSize = 2
    MayFail = TRUE
    MaxPasses = 2
    MaxEdits = 1
    Language <- Stamps
    Calls <- CallPairs
    Harness = {3}
    Public = {1}
    Promoting = {k1}
    Scans <- Found
INVARIANTS
    SignalsApplied
    CoverageTold
PROPERTY SignalsKept
CHECK_DEADLOCK FALSE
