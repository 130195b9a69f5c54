SPECIFICATION SimplexSpec
CONSTANT
    MaxItems = 3
INVARIANT
    OneUpgradeRequest
\* The connection comes to an end.
CHECK_DEADLOCK FALSE
