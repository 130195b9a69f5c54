SPECIFICATION GeoSpec
CONSTANTS
    Call = {c1, c2}
    UpdateInterval = 2
    Versions = 2
    MaxFaults = 0
    MaxSteps = 1
INVARIANT
    NotModifiedWhileInUse
