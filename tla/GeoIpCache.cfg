SPECIFICATION FairSpec
CONSTANTS
    Call = {c1, c2, c3}
    UpdateInterval = 2
    Versions = 2
    MaxFaults = 2
    MaxSteps = 1
INVARIANTS
    OpenFailsOnlyAfterBadWrite
PROPERTY
    EveryCallerIsServed
