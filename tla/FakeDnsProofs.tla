---------------------------- MODULE FakeDnsProofs ----------------------------
(***************************************************************************)
(* The fake resolver answers with addresses that fit and PTR queries with  *)
(* the name its latest answer was about, for every set of names and every  *)
(* pair of pools.  Each lookup is a step of at most one of the two pools,  *)
(* so what BidirectionalPoolProofs shows of a pool holds of both.          *)
(***************************************************************************)
EXTENDS FakeDns, BidirectionalPoolProofs

P6 ==
    INSTANCE BidirectionalPoolProofs
    WITH ValueItem <- Ipv6Addr, InitialPool <- Ipv6Pool,
         pool <- pool6, mapping <- mapping6, reverse_mapping <- reverse6,
         lru <- lru6, since <- since6

-----------------------------------------------------------------------------
(* The pools. *)

\* The IPv6 pool satisfies what BidirectionalPool assumes of a pool.
LEMMA Pool6Assumption == P6!PoolAssumption
BY PoolAssumption, LiteralAssumption DEF Domains, IsInjective, P6!IsInjective

(***************************************************************************)
(* The addresses of a pool are addresses of its family.                    *)
(***************************************************************************)
LEMMA ValuesFit ==
    /\ Values \subseteq Ipv4Addr
    /\ ipv6_mapping!Values \subseteq Ipv6Addr
    /\ NoItem \notin IpAddr
    /\ Domains \cap IpAddr = {}
    /\ NoItem \notin Domains
<1>1. Values \subseteq Ipv4Addr
  BY PoolAssumption, LenProperties DEF Values, Range, Ipv4Addr
<1>2. ipv6_mapping!Values \subseteq Ipv6Addr
  BY LiteralAssumption, LenProperties DEF ipv6_mapping!Values, ipv6_mapping!Range
<1> QED BY <1>1, <1>2, PoolAssumption, LiteralAssumption DEF IpAddr, Domains, Ipv4Addr

(***************************************************************************)
(* ipv6_mapping and P6 are the same instance of the pool, named once for   *)
(* the model and once for its theorems.                                    *)
(***************************************************************************)
LEMMA SameValues == ipv6_mapping!Values = P6!Values
BY DEF ipv6_mapping!Values, P6!Values, ipv6_mapping!Range, P6!Range

LEMMA SameInit == ipv6_mapping!PoolInit => P6!PoolInit
BY SameValues DEF ipv6_mapping!PoolInit, P6!PoolInit

LEMMA SameGet ==
    ASSUME NEW key, NEW value, ipv6_mapping!GetSome(key, value)
    PROVE  P6!GetSome(key, value)
<1>1. CASE ipv6_mapping!GetMapped(key, value)
  BY <1>1, SameValues
  DEF P6!GetSome, ipv6_mapping!GetMapped, P6!GetMapped, ipv6_mapping!LruGet, P6!LruGet,
      ipv6_mapping!Used, P6!Used, ipv6_mapping!ToMru, P6!ToMru
<1>2. CASE ipv6_mapping!GetFromPool(key, value)
  BY <1>2, SameValues
  DEF P6!GetSome, ipv6_mapping!GetFromPool, P6!GetFromPool, ipv6_mapping!LruPut,
      P6!LruPut, ipv6_mapping!Used, P6!Used
<1>3. CASE ipv6_mapping!GetEvicting(key, value)
  BY <1>3, SameValues
  DEF P6!GetSome, ipv6_mapping!GetEvicting, P6!GetEvicting, ipv6_mapping!LruPut,
      P6!LruPut, ipv6_mapping!Used, P6!Used
<1> QED BY <1>1, <1>2, <1>3 DEF ipv6_mapping!GetSome

LEMMA SameGetReverse ==
    ASSUME NEW key, NEW value, ipv6_mapping!GetReverse(value, key)
    PROVE  P6!GetReverse(value, key)
BY SameValues
DEF ipv6_mapping!GetReverse, P6!GetReverse, ipv6_mapping!LruGet, P6!LruGet,
    ipv6_mapping!Used, P6!Used, ipv6_mapping!ToMru, P6!ToMru


-----------------------------------------------------------------------------
(* The resolver. *)

\* The name the pool of its family has an address for, if any.
NameOf(addr) ==
    IF addr \in Values THEN reverse_mapping[addr]
    ELSE IF addr \in P6!Values THEN reverse6[addr] ELSE NoItem

(***************************************************************************)
(* The inductive invariant: both pools keep theirs, and what the callers   *)
(* were last told of an address is what its pool has.                      *)
(***************************************************************************)
ResolverInv ==
    /\ Inv
    /\ P6!Inv
    /\ told = [addr \in IpAddr |-> NameOf(addr)]

\* Each family's addresses are in its own pool only.
LEMMA FamiliesApart ==
    /\ Values \subseteq IpAddr
    /\ P6!Values \subseteq IpAddr
    /\ Values \cap P6!Values = {}
    /\ \A addr \in Ipv4Addr : addr \notin P6!Values /\ addr \in IpAddr
    /\ \A addr \in Ipv6Addr : addr \notin Values /\ addr \in IpAddr
BY ValuesFit, SameValues, LiteralAssumption DEF IpAddr, Ipv4Addr

LEMMA ResolverInit == Init => ResolverInv /\ PtrNamesLatestAsker /\ AnswerFits
<1> SUFFICES ASSUME Init PROVE ResolverInv /\ PtrNamesLatestAsker /\ AnswerFits
  OBVIOUS
<1>1. Inv
  BY InitInv DEF Init
<1>2. P6!Inv
  BY SameInit, P6!InitInv, Pool6Assumption DEF Init
<1>3. /\ reverse_mapping = [value \in Values |-> NoItem]
      /\ reverse6 = [value \in P6!Values |-> NoItem]
  BY SameInit DEF Init, PoolInit, P6!PoolInit
<1>4. told = [addr \in IpAddr |-> NameOf(addr)]
  BY <1>3 DEF Init, NameOf
<1>5. PtrNamesLatestAsker /\ AnswerFits
  BY ValuesFit DEF Init, PtrNamesLatestAsker, AnswerFits
<1> QED BY <1>1, <1>2, <1>4, <1>5 DEF ResolverInv

(***************************************************************************)
(* A lookup is a step of its family's pool, or of no pool.                 *)
(***************************************************************************)
LEMMA OnePoolMoves ==
    ASSUME ResolverInv, Next
    PROVE  [PoolNext]_poolVars /\ [P6!PoolNext]_(P6!poolVars)
<1> USE DEF ResolverInv
<1>1. ASSUME NEW name \in Domains, LookupIpv4Domain(name)
      PROVE  [PoolNext]_poolVars /\ [P6!PoolNext]_(P6!poolVars)
  <2>1. PICK value \in Values \cup {NoItem} : Get(name, value) /\ UNCHANGED vars6
    BY <1>1 DEF LookupIpv4Domain
  <2>2. CASE GetSome(name, value)
    BY <2>1, <2>2, GetInValues DEF PoolNext, Domains, vars6, P6!poolVars
  <2>3. CASE GetNothing(name, value)
    BY <2>1, <2>3 DEF GetNothing, vars6, P6!poolVars
  <2> QED BY <2>1, <2>2, <2>3 DEF Get
<1>2. ASSUME NEW name \in Domains, LookupIpv6Domain(name)
      PROVE  [PoolNext]_poolVars /\ [P6!PoolNext]_(P6!poolVars)
  <2>1. PICK value \in ipv6_mapping!Values \cup {NoItem} :
          ipv6_mapping!Get(name, value) /\ UNCHANGED poolVars
    BY <1>2 DEF LookupIpv6Domain
  <2>2. CASE ipv6_mapping!GetSome(name, value)
    <3>1. P6!GetSome(name, value)
      BY <2>2, SameGet
    <3>2. value \in P6!Values
      BY <3>1, P6!GetInValues, Pool6Assumption DEF Domains
    <3> QED BY <2>1, <3>1, <3>2 DEF P6!PoolNext, Domains
  <2>3. CASE ipv6_mapping!GetNothing(name, value)
    BY <2>1, <2>3 DEF ipv6_mapping!GetNothing, ipv6_mapping!poolVars, P6!poolVars
  <2> QED BY <2>1, <2>2, <2>3 DEF ipv6_mapping!Get
<1>3. ASSUME NEW ip, LookupIpv4Literal(ip) \/ LookupIpv6Literal(ip)
      PROVE  [PoolNext]_poolVars /\ [P6!PoolNext]_(P6!poolVars)
  BY <1>3 DEF LookupIpv4Literal, LookupIpv6Literal, vars6, P6!poolVars
<1>4. ASSUME NEW addr \in Ipv4Addr, LookupPtr4(addr)
      PROVE  [PoolNext]_poolVars /\ [P6!PoolNext]_(P6!poolVars)
  BY <1>4 DEF LookupPtr4, PoolNext, Domains, vars6, P6!poolVars
<1>5. ASSUME NEW addr \in Ipv6Addr, LookupPtr6(addr)
      PROVE  [PoolNext]_poolVars /\ [P6!PoolNext]_(P6!poolVars)
  BY <1>5, SameGetReverse, SameValues DEF LookupPtr6, P6!PoolNext, Domains, vars6, P6!poolVars
<1> QED BY <1>1, <1>2, <1>3, <1>4, <1>5 DEF Next


(***************************************************************************)
(* What callers were told follows the pools: get is the only call that     *)
(* renames an address, and it renames the one it returns.                  *)
(***************************************************************************)
LEMMA ToldFollows ==
    ASSUME ResolverInv, Next
    PROVE  told' = [addr \in IpAddr |-> NameOf(addr)']
<1> USE DEF ResolverInv
<1>0. ASSUME UNCHANGED <<told, reverse_mapping, reverse6>>
      PROVE  told' = [addr \in IpAddr |-> NameOf(addr)']
  BY <1>0 DEF NameOf
<1>1. ASSUME NEW name \in Domains, LookupIpv4Domain(name)
      PROVE  told' = [addr \in IpAddr |-> NameOf(addr)']
  <2>1. PICK value \in Values \cup {NoItem} :
          Get(name, value) /\ Tell(value, name) /\ UNCHANGED vars6
    BY <1>1 DEF LookupIpv4Domain
  <2>2. CASE GetSome(name, value)
    <3>1. value \in Values /\ reverse_mapping' = [reverse_mapping EXCEPT ![value] = name]
      BY <2>2, GetInValues, GetNames DEF Domains
    <3>2. reverse_mapping \in [Values -> KeyItem \cup {NoItem}]
      BY DEF Inv, PoolTypeOK
    <3> QED BY <2>1, <3>1, <3>2, FamiliesApart DEF Tell, NameOf, vars6
  <2>3. CASE GetNothing(name, value)
    <3>1. value \notin IpAddr /\ UNCHANGED reverse_mapping
      BY <2>3, ValuesFit DEF GetNothing, poolVars
    <3> QED BY <2>1, <3>1 DEF Tell, NameOf, vars6
  <2> QED BY <2>1, <2>2, <2>3 DEF Get
<1>2. ASSUME NEW name \in Domains, LookupIpv6Domain(name)
      PROVE  told' = [addr \in IpAddr |-> NameOf(addr)']
  <2>1. PICK value \in ipv6_mapping!Values \cup {NoItem} :
          ipv6_mapping!Get(name, value) /\ Tell(value, name) /\ UNCHANGED poolVars
    BY <1>2 DEF LookupIpv6Domain
  <2>2. CASE ipv6_mapping!GetSome(name, value)
    <3>1. value \in P6!Values /\ reverse6' = [reverse6 EXCEPT ![value] = name]
      BY <2>2, SameGet, P6!GetInValues, P6!GetNames, Pool6Assumption DEF Domains
    <3>2. reverse6 \in [P6!Values -> KeyItem \cup {NoItem}]
      BY DEF P6!Inv, P6!PoolTypeOK
    <3> QED BY <2>1, <3>1, <3>2, FamiliesApart DEF Tell, NameOf, poolVars
  <2>3. CASE ipv6_mapping!GetNothing(name, value)
    <3>1. value \notin IpAddr /\ UNCHANGED reverse6
      BY <2>3, ValuesFit DEF ipv6_mapping!GetNothing, ipv6_mapping!poolVars
    <3> QED BY <2>1, <3>1 DEF Tell, NameOf, poolVars
  <2> QED BY <2>1, <2>2, <2>3 DEF ipv6_mapping!Get
<1>3. ASSUME NEW ip, LookupIpv4Literal(ip) \/ LookupIpv6Literal(ip)
      PROVE  UNCHANGED <<told, reverse_mapping, reverse6>>
  BY <1>3 DEF LookupIpv4Literal, LookupIpv6Literal, poolVars, vars6
<1>4. ASSUME NEW addr, LookupPtr4(addr)
      PROVE  UNCHANGED <<told, reverse_mapping, reverse6>>
  BY <1>4 DEF LookupPtr4, GetReverse, poolVars, vars6
<1>5. ASSUME NEW addr, LookupPtr6(addr)
      PROVE  UNCHANGED <<told, reverse_mapping, reverse6>>
  BY <1>5 DEF LookupPtr6, ipv6_mapping!GetReverse, poolVars, vars6
<1> QED BY <1>0, <1>1, <1>2, <1>3, <1>4, <1>5 DEF Next

LEMMA ResolverNext == ResolverInv /\ [Next]_vars => ResolverInv'
<1> SUFFICES ASSUME ResolverInv, [Next]_vars PROVE ResolverInv'
  OBVIOUS
<1>1. [PoolNext]_poolVars /\ [P6!PoolNext]_(P6!poolVars)
  BY OnePoolMoves DEF vars, vars6, P6!poolVars
<1>2. Inv'
  BY <1>1, NextInv DEF ResolverInv
<1>3. P6!Inv'
  BY <1>1, P6!NextInv, Pool6Assumption DEF ResolverInv
<1>4. told' = [addr \in IpAddr |-> NameOf(addr)']
  BY ToldFollows DEF ResolverInv, vars, vars6, poolVars, NameOf
<1> QED BY <1>2, <1>3, <1>4 DEF ResolverInv

(***************************************************************************)
(* Every call leaves an answer that fits and, if it was a PTR query, one   *)
(* that names the latest asker.                                            *)
(***************************************************************************)
LEMMA AnswersRight ==
    ASSUME ResolverInv, Next
    PROVE  PtrNamesLatestAsker' /\ AnswerFits'
<1> USE DEF ResolverInv, Answer, PtrNamesLatestAsker, AnswerFits
<1>1. ASSUME NEW name \in Domains, LookupIpv4Domain(name)
      PROVE  PtrNamesLatestAsker' /\ AnswerFits'
  <2>1. PICK value \in Values \cup {NoItem} : Get(name, value) /\ Answer("ipv4", name, value)
    BY <1>1 DEF LookupIpv4Domain
  <2>2. value \in Ipv4Addr \/ (value = NoItem /\ InitialPool = <<>>)
    BY <2>1, GetInValues, NothingOnlyWithoutPool, ValuesFit DEF Get, GetNothing, Domains
  <2>3. answer'.op = "ipv4" /\ answer'.query = name /\ answer'.item = value
    BY <2>1
  <2> QED BY <2>2, <2>3, ValuesFit DEF IpAddr
<1>2. ASSUME NEW name \in Domains, LookupIpv6Domain(name)
      PROVE  PtrNamesLatestAsker' /\ AnswerFits'
  <2>1. PICK value \in ipv6_mapping!Values \cup {NoItem} :
          ipv6_mapping!Get(name, value) /\ Answer("ipv6", name, value)
    BY <1>2 DEF LookupIpv6Domain
  <2>2. CASE ipv6_mapping!GetSome(name, value)
    <3>1. value \in P6!Values
      BY <2>2, SameGet, P6!GetInValues, Pool6Assumption DEF Domains
    <3> QED BY <2>1, <3>1, SameValues, ValuesFit DEF IpAddr
  <2>3. CASE ipv6_mapping!GetNothing(name, value)
    <3>1. P6!GetNothing(name, value)
      BY <2>3 DEF ipv6_mapping!GetNothing, P6!GetNothing, ipv6_mapping!poolVars, P6!poolVars
    <3>2. Ipv6Pool = <<>> /\ value = NoItem
      BY <3>1, P6!NothingOnlyWithoutPool, Pool6Assumption DEF P6!GetNothing
    <3> QED BY <2>1, <3>2, ValuesFit DEF IpAddr
  <2> QED BY <2>1, <2>2, <2>3 DEF ipv6_mapping!Get
<1>3. ASSUME NEW ip \in Literal4 \cup Literal6, LookupIpv4Literal(ip) \/ LookupIpv6Literal(ip)
      PROVE  PtrNamesLatestAsker' /\ AnswerFits'
  BY <1>3, ValuesFit, LiteralAssumption DEF LookupIpv4Literal, LookupIpv6Literal, IpAddr
<1>4. ASSUME NEW addr \in Ipv4Addr, LookupPtr4(addr)
      PROVE  PtrNamesLatestAsker' /\ AnswerFits'
  <2>1. answer' = [op |-> "ptr", query |-> addr, item |-> NameOf(addr)]
    BY <1>4, FamiliesApart DEF LookupPtr4, GetReverse, NameOf
  <2>2. told'[addr] = NameOf(addr)
    BY <1>4, FamiliesApart DEF LookupPtr4
  <2> QED BY <2>1, <2>2, ValuesFit DEF IpAddr
<1>5. ASSUME NEW addr \in Ipv6Addr, LookupPtr6(addr)
      PROVE  PtrNamesLatestAsker' /\ AnswerFits'
  <2>1. answer' = [op |-> "ptr", query |-> addr, item |-> NameOf(addr)]
    BY <1>5, FamiliesApart, SameValues DEF LookupPtr6, ipv6_mapping!GetReverse, NameOf
  <2>2. told'[addr] = NameOf(addr)
    BY <1>5, FamiliesApart DEF LookupPtr6
  <2> QED BY <2>1, <2>2, ValuesFit DEF IpAddr
<1> QED BY <1>1, <1>2, <1>3, <1>4, <1>5 DEF Next


(***************************************************************************)
(* At all times both pools are consistent, in their maps and their lists,  *)
(* and agree with what the callers of the resolver were last told.         *)
(***************************************************************************)
THEOREM ResolverConsistent == Spec => []ResolverInv
<1>1. Init => ResolverInv
  BY ResolverInit
<1>2. ResolverInv /\ [Next]_vars => ResolverInv'
  BY ResolverNext
<1> QED BY <1>1, <1>2, PTL DEF Spec

(***************************************************************************)
(* lookup_ptr answers with the name the address was last returned for:     *)
(* after any sequence of lookups and evictions, a connection to a fake     *)
(* address goes to the domain its latest DNS answer was about.             *)
(***************************************************************************)
THEOREM PtrAnswersLatest == Spec => []PtrNamesLatestAsker
<1>1. Init => ResolverInv /\ PtrNamesLatestAsker
  BY ResolverInit
<1>2. ResolverInv /\ PtrNamesLatestAsker /\ [Next]_vars => ResolverInv' /\ PtrNamesLatestAsker'
  BY ResolverNext, AnswersRight DEF vars, PtrNamesLatestAsker
<1> QED BY <1>1, <1>2, PTL DEF Spec

(***************************************************************************)
(* lookup_ipv4 and lookup_ipv6 answer within their family, and refuse a    *)
(* domain only when the family has no pool: a used-up pool evicts.         *)
(***************************************************************************)
THEOREM AnswersAlwaysFit == Spec => []AnswerFits
<1>1. Init => ResolverInv /\ AnswerFits
  BY ResolverInit
<1>2. ResolverInv /\ AnswerFits /\ [Next]_vars => ResolverInv' /\ AnswerFits'
  BY ResolverNext, AnswersRight DEF vars, AnswerFits
<1> QED BY <1>1, <1>2, PTL DEF Spec

(***************************************************************************)
(* Each pool inside the resolver behaves as a pool of its own.             *)
(***************************************************************************)
THEOREM PoolsWithin == Spec => PoolSpec /\ P6!PoolSpec
<1>1. Init => PoolInit /\ P6!PoolInit
  BY SameInit DEF Init
<1>2. ResolverInv /\ [Next]_vars => [PoolNext]_poolVars /\ [P6!PoolNext]_(P6!poolVars)
  BY OnePoolMoves DEF vars, vars6, P6!poolVars
<1> QED BY <1>1, <1>2, ResolverConsistent, PTL DEF Spec, PoolSpec, P6!PoolSpec

(***************************************************************************)
(* In the resolver as in a single pool, an address of either family is a   *)
(* lease, and changes its name only after every other address of its pool  *)
(* has been used since its own last use.                                   *)
(***************************************************************************)
THEOREM BothFamiliesLease ==
    Spec => /\ ImplementsLease
            /\ P6!ImplementsLease
            /\ RenamedOnlyWhenLeastRecent
            /\ P6!RenamedOnlyWhenLeastRecent
BY PoolsWithin, PoolImplementsLease, RenamedLast, P6!PoolImplementsLease, P6!RenamedLast,
   Pool6Assumption, PTL

=============================================================================
