SPECIFICATION Spec
CONSTANTS
    MaxLength = 5
    Requests <- MCRequests
    Delay <- MCDelay
    Addresses = 2
    MaxHops = 3
    MaxData = 1
INVARIANTS
    SameTarget
    ConnectedOnlyWhenGranted
    TunnelIntact
PROPERTIES
    OursUnderstandOurs
    OneSuccessIsEnough
    HandshakeEnds
CHECK_DEADLOCK FALSE
