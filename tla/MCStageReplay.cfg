SPECIFICATION LineageSpec
CONSTANTS
    NoManifest = NoManifest
    None = None
    Replayed <- AllStages
    Settled <- Lengths
    MaxDirs = 5
    MaxSpent = 5
INVARIANTS
    ReportJudgesItsPatch
    LineageSound
CHECK_DEADLOCK FALSE
