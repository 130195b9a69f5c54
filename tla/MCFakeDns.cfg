SPECIFICATION Spec
CONSTANTS
    a1 = a1
    a2 = a2
    a3 = a3
    KeyItem = {n1, n2, n3, n4}
    ValueItem = {a1, a2, a3, a4}
    Ipv6Addr = {b1, b2}
    Literal4 = {a4}
    Literal6 = {b2}
    NoItem = NoItem
    InitialPool <- ThreeIpv4
    Ipv6Pool <- NoIpv6
INVARIANTS
    Inv
    PtrNamesLatestAsker
    AnswerFits
PROPERTIES
    RenamedOnlyWhenLeastRecent
    ImplementsLease
