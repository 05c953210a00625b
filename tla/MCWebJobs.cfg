SPECIFICATION FairSpec
CONSTANTS
    watched = watched  other = other
    Jobs = {watched, other}
    Slots = 1
    MaxLines = 1
    Viewed = {watched}
    Deletable = {watched}
    MaxStops = 2
    MayCrash = TRUE
INVARIANTS
    StreamComplete
    DeletedStaysDeleted
PROPERTIES
    RestartKeepsStatus
    EveryJobEnds
CHECK_DEADLOCK FALSE
