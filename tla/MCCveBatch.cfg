SPECIFICATION FairBatchSpec
CONSTANTS
    r1 = r1  r2 = r2
    c1 = c1  c2 = c2
    Runners = {r1, r2}
    Cases = {c1, c2}
    Order <- FirstThenSecond
    MaxFaults = 2
    Outcomes = {"patch"}
    Jobs = 1
    Nobody = Nobody
    NoBatch = NoBatch
PROPERTIES DecidedOnce StopIsClean StopEnds
CHECK_DEADLOCK FALSE
