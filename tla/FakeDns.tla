------------------------------- MODULE FakeDns -------------------------------
(***************************************************************************)
(* FakeDnsResolver of core/src/core/tun/resolver.rs: one pool of fake      *)
(* addresses per family.  A query whose name is an IP literal is answered  *)
(* with that address; PTR queries ask the pool of the address's family.    *)
(* FakeResolver of config/engine/tun.rs holds the resolver behind a lock   *)
(* for the whole of each call, so a call is one step, and turns None into  *)
(* an error.                                                               *)
(*                                                                         *)
(* The pool this module extends is the one of IPv4: its keys are the names *)
(* that do not parse as an address, its values the IPv4 addresses.         *)
(***************************************************************************)
EXTENDS BidirectionalPool

CONSTANTS
    Literal4,  \* names that parse as an IPv4 address (each is that address)
    Literal6,  \* names that parse as an IPv6 address
    Ipv6Addr,
    Ipv6Pool

Domains == KeyItem
Ipv4Addr == ValueItem

(***************************************************************************)
(* A name is a literal when it parses as an address, and a domain when it  *)
(* does not.  The IPv6 pool, like the IPv4 one, lists the addresses of a   *)
(* network, each once.                                                     *)
(***************************************************************************)
ASSUME LiteralAssumption ==
    /\ Literal4 \subseteq Ipv4Addr
    /\ Literal6 \subseteq Ipv6Addr
    /\ Ipv4Addr \cap Ipv6Addr = {}
    /\ Domains \cap (Ipv4Addr \cup Ipv6Addr) = {}
    /\ NoItem \notin Ipv6Addr
    /\ Ipv6Pool \in Seq(Ipv6Addr)
    /\ IsInjective(Ipv6Pool)

VARIABLES
    pool6, mapping6, reverse6, lru6, since6,
    answer,  \* the last call: what was asked and what it returned
    told     \* history: the name an address was last returned for

vars6 == <<pool6, mapping6, reverse6, lru6, since6>>
vars == <<poolVars, vars6, answer, told>>

ipv6_mapping ==
    INSTANCE BidirectionalPool
    WITH ValueItem <- Ipv6Addr, InitialPool <- Ipv6Pool,
         pool <- pool6, mapping <- mapping6, reverse_mapping <- reverse6,
         lru <- lru6, since <- since6

IpAddr == Ipv4Addr \cup Ipv6Addr

TypeOK ==
    /\ PoolTypeOK
    /\ ipv6_mapping!PoolTypeOK
    /\ answer \in [op : {"none", "ipv4", "ipv6", "ptr"},
                   query : Domains \cup IpAddr \cup {NoItem},
                   item : Domains \cup IpAddr \cup {NoItem}]
    /\ told \in [IpAddr -> Domains \cup {NoItem}]

Init ==
    /\ PoolInit
    /\ ipv6_mapping!PoolInit
    /\ answer = [op |-> "none", query |-> NoItem, item |-> NoItem]
    /\ told = [addr \in IpAddr |-> NoItem]

Answer(op, query, item) ==
    answer' = [op |-> op, query |-> query, item |-> item]

\* No address is NoItem, which leaves told as it is.
Tell(item, name) == told' = [addr \in IpAddr |-> IF addr = item THEN name ELSE told[addr]]

-----------------------------------------------------------------------------
(* lookup_ipv4 and lookup_ipv6 with the lookup they share. *)

\* Mutant of LookupIpv4Domain: the address of an evicted name is not saved.
LookupIpv4DomainUnsaved(name) ==
    \E value \in Values \cup {NoItem} :
      /\ IF mapping[name] = NoItem /\ pool = <<>>
         THEN value = Head(lru) /\ UNCHANGED poolVars
         ELSE Get(name, value)
      /\ Answer("ipv4", name, value)
      /\ Tell(value, name)
      /\ UNCHANGED vars6

LookupIpv4Domain(name) ==
    \E value \in Values \cup {NoItem} :
      /\ Get(name, value)
      /\ Answer("ipv4", name, value)
      /\ Tell(value, name)
      /\ UNCHANGED vars6

LookupIpv6Domain(name) ==
    \E value \in ipv6_mapping!Values \cup {NoItem} :
      /\ ipv6_mapping!Get(name, value)
      /\ Answer("ipv6", name, value)
      /\ Tell(value, name)
      /\ UNCHANGED poolVars

\* Mutant of LookupIpv4Literal: the family is not looked at.
LookupIpv4LiteralAny(ip) ==
    /\ Answer("ipv4", ip, ip)
    /\ UNCHANGED <<poolVars, vars6, told>>

\* A literal is its own answer, but only to a query of its family.
LookupIpv4Literal(ip) ==
    /\ Answer("ipv4", ip, IF ip \in Ipv4Addr THEN ip ELSE NoItem)
    /\ UNCHANGED <<poolVars, vars6, told>>

LookupIpv6Literal(ip) ==
    /\ Answer("ipv6", ip, IF ip \in Ipv6Addr THEN ip ELSE NoItem)
    /\ UNCHANGED <<poolVars, vars6, told>>

LookupPtr4(addr) ==
    /\ IF addr \in Values
       THEN \E key \in Domains \cup {NoItem} :
              GetReverse(addr, key) /\ Answer("ptr", addr, key)
       ELSE UNCHANGED poolVars /\ Answer("ptr", addr, NoItem)
    /\ UNCHANGED <<vars6, told>>

LookupPtr6(addr) ==
    /\ IF addr \in ipv6_mapping!Values
       THEN \E key \in Domains \cup {NoItem} :
              ipv6_mapping!GetReverse(addr, key) /\ Answer("ptr", addr, key)
       ELSE UNCHANGED vars6 /\ Answer("ptr", addr, NoItem)
    /\ UNCHANGED <<poolVars, told>>

Next ==
    \/ \E name \in Domains : LookupIpv4Domain(name) \/ LookupIpv6Domain(name)
    \/ \E ip \in Literal4 \cup Literal6 : LookupIpv4Literal(ip) \/ LookupIpv6Literal(ip)
    \/ \E addr \in Ipv4Addr : LookupPtr4(addr)
    \/ \E addr \in Ipv6Addr : LookupPtr6(addr)

Spec == Init /\ [][Next]_vars

-----------------------------------------------------------------------------
(***************************************************************************)
(* A PTR answer is the name the address was last returned for, and never   *)
(* the name it had before an eviction: a connection to a fake address is   *)
(* routed to the domain its latest DNS answer was about.                   *)
(***************************************************************************)
PtrNamesLatestAsker ==
    answer.op = "ptr" => answer.item = told[answer.query]

(***************************************************************************)
(* An answer is an address of the family asked for, also when the name is  *)
(* a literal of the other family, and a domain is refused only when the    *)
(* family has no pool at all, as the error text of FakeResolver suggests:  *)
(* a full pool evicts instead.                                             *)
(***************************************************************************)
AnswerFits ==
    /\ answer.op = "ipv4" => answer.item \in Ipv4Addr \cup {NoItem}
    /\ answer.op = "ipv6" => answer.item \in Ipv6Addr \cup {NoItem}
    /\ answer.query \in Domains /\ answer.item = NoItem =>
         /\ answer.op = "ipv4" => InitialPool = <<>>
         /\ answer.op = "ipv6" => Ipv6Pool = <<>>

=============================================================================
