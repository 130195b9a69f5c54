SPECIFICATION RuntimeSpec
CONSTANTS
    a1 = a1
    a2 = a2
    a3 = a3
    b1 = b1
    b2 = b2
    Ipv4Addr = {a1, a2, a3}
    Ipv6Addr = {b1, b2}
    Ipv4Answers <- MCIpv4Answers
    Ipv6Answers <- MCIpv6Answers
    MaxFires = 5
INVARIANTS
    TypeOK
    ErrorsOnlyForCause
    FamiliesTakeTurns
    Staggered
    NoLostWakeup
PROPERTIES
    EveryAddressGetsItsTurn
    Returns
\* The future stops once it has returned.
CHECK_DEADLOCK FALSE
