SPECIFICATION FairSpec
CONSTANTS
    u1 = u1
    u2 = u2
    Units = {u1, u2}
    Workers = {w1, w2}
    Backends = {b1, b2}
    Datasets <- CutAfterwards
    LegacySets <- SomeLegacy
    MaxRuns = 2
    RenameMayFail = FALSE
    Legacy = Legacy
    NoUnit = NoUnit
    NoRow = NoRow
    NoSidecar = NoSidecar
    Corrupt = Corrupt
    NoSummary = NoSummary
    NoReport = NoReport
    NoDataset = NoDataset
    AuthFailure = AuthFailure
    DiskFailure = DiskFailure
    Nobody = Nobody
    Unknown = Unknown
INVARIANTS
    ConsumedIsDurable
    SummaryAccounts
    OneBackendPerDirectory
    ReportsSpeakForTheirBackend
PROPERTIES
    ImplementsVerdictStore
    RunEnds
    PaidOnce
    VerdictsNeverLost
    ReportsPreserved
CHECK_DEADLOCK FALSE
