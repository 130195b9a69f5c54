SPECIFICATION Spec
CONSTANTS
    a1 = a1
    a2 = a2
    a3 = a3
    b1 = b1
    b2 = b2
    Ipv4Addr = {a1, a2}
    Ipv6Addr = {b1}
    Ipv4Answers <- SmallIpv4Answers
    Ipv6Answers <- SmallIpv6Answers
    MaxFires = 3
INVARIANT
    FailsOnlyWhenAllFailed
\* The future stops once it has returned.
CHECK_DEADLOCK FALSE
