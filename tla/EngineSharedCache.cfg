SPECIFICATION Spec
CONSTANTS
    Conn = {c1, c2}
    Address = {a1}
    TakenAddress = {}
    Handler = {h1}
    ScriptHandler = {h1}
    MaxAcceptors = 1
    MaxFds = 6
PROPERTY
    StoredIsShared
\* The engine stops, or all connections have come to an end.
CHECK_DEADLOCK FALSE
