SPECIFICATION Spec
CONSTANTS
    code = code  test = test
    Files = {code, test}
    TestFile = test
    Hunkless = {test}
    Targets <- Named
    MaxAttempts = 2
    t1 = t1  t2 = t2
    Tests = {t1, t2}
INVARIANTS
    EvidenceIsOfThePatch
    PatchWasApproved
    DeployIsEarned
CHECK_DEADLOCK FALSE
