SPECIFICATION Spec
CONSTANTS
    caller = caller
    callee = callee
    Units = {caller, callee}
    Group = {caller, callee}
    NoRow = NoRow
    NoOutput = NoOutput
    Keep = Keep
    Callers <- CallGraph
    Cwe <- SameClass
    Requests <- AllThree
    Stage1Replies <- Judged
    Stage2Answers <- Replied
    Proposals <- Proposed
    MaxScans = 2
INVARIANTS PositivesKept EnvelopeAgrees
PROPERTY AdjudicatedOnce
CHECK_DEADLOCK FALSE
