SPECIFICATION Spec
CONSTANTS
    Host = {h1, h2}
    NoHost = NoHost
    Port = {80, 8080}
    MaxItems = 3
INVARIANTS
    SignalNeverMissing
    ForwardedToItsHost
    TunnelOrProxy
    NothingLost
    DropsOnlyEarly
PROPERTY
    HyperImplementsAcceptor
\* The connection comes to an end.
CHECK_DEADLOCK FALSE
