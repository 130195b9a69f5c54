SPECIFICATION Spec
CONSTANTS
    Conn = {c1, c2, c3}
    Address = {a1, a2, a3}
    TakenAddress = {a3}
    Handler = {h1, h2}
    ScriptHandler = {h1}
    MaxAcceptors = 2
    MaxFds = 6
PROPERTIES
    ImplementsAcceptor
    StopsOnlyForCause
    QueuedIsAccepted
    AllAcceptorsOrNone
\* The engine stops, or all connections have come to an end.
CHECK_DEADLOCK FALSE
