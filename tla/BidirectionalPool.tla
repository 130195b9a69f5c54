-------------------------- MODULE BidirectionalPool --------------------------
(***************************************************************************)
(* PoolWithBidirectionalMapping of core/src/core/tun/resolver.rs: a finite *)
(* pool of values (fake IP addresses) lent to keys (domain names).  A key  *)
(* that has no value takes the next one of the pool; once the pool is      *)
(* empty the least recently used value is taken from its old key.          *)
(*                                                                         *)
(* Option<T> is T or NoItem.  A HashMap is a total function to an option.  *)
(* The LruCache reverse_mapping is its content, the variable               *)
(* reverse_mapping, and its recency list, the variable lru, with the least *)
(* recently used value at the head.                                        *)
(***************************************************************************)
EXTENDS Integers, Sequences, Functions

CONSTANTS
    KeyItem,      \* domain names
    ValueItem,    \* addresses
    NoItem,       \* None
    InitialPool   \* the list given to new()

(***************************************************************************)
(* The addresses of a pool are the addresses of a network, each once.      *)
(***************************************************************************)
ASSUME PoolAssumption ==
    /\ NoItem \notin KeyItem
    /\ NoItem \notin ValueItem
    /\ InitialPool \in Seq(ValueItem)
    /\ IsInjective(InitialPool)

VARIABLES
    pool,             \* values never lent so far
    mapping,          \* the value of a key
    reverse_mapping,  \* the key of a value
    lru,              \* the values of reverse_mapping, least recently used first
    since             \* history: the values used after the last use of a value

poolVars == <<pool, mapping, reverse_mapping, lru, since>>

Values == Range(InitialPool)

PoolTypeOK ==
    /\ pool \in Seq(Values)
    /\ mapping \in [KeyItem -> Values \cup {NoItem}]
    /\ reverse_mapping \in [Values -> KeyItem \cup {NoItem}]
    /\ lru \in Seq(Values)
    /\ since \in [Values -> SUBSET Values]

PoolInit ==
    /\ pool = InitialPool
    /\ mapping = [key \in KeyItem |-> NoItem]
    /\ reverse_mapping = [value \in Values |-> NoItem]
    /\ lru = <<>>
    /\ since = [value \in Values |-> {}]

-----------------------------------------------------------------------------
(* The operations of the lru crate that the code calls. *)

\* The list s with v, which it holds, moved to the most recently used end.
ToMru(s, v) ==
    LET at == CHOOSE i \in DOMAIN s : s[i] = v
    IN  [i \in DOMAIN s |-> IF i < at THEN s[i]
                            ELSE IF i < Len(s) THEN s[i + 1] ELSE v]

\* LruCache::get refreshes the entry, if there is one.
LruGet(value) ==
    lru' = IF reverse_mapping[value] # NoItem THEN ToMru(lru, value) ELSE lru

\* LruCache::put of a value the cache does not hold, in the list rest.
LruPut(rest, value, key) ==
    /\ reverse_mapping' = [reverse_mapping EXCEPT ![value] = key]
    /\ lru' = Append(rest, value)

\* History: value is used now.
Used(value) ==
    since' = [v \in Values |-> IF v = value THEN {} ELSE since[v] \cup {value}]

-----------------------------------------------------------------------------
(* The paths through get(key), each with the value or None that it returns. *)

\* The key has a value: refresh it.
GetMapped(key, value) ==
    /\ mapping[key] = value
    /\ value # NoItem
    /\ LruGet(value)
    /\ Used(value)
    /\ UNCHANGED <<pool, mapping, reverse_mapping>>

\* The key takes the first value of the pool.
GetFromPool(key, value) ==
    /\ mapping[key] = NoItem
    /\ pool # <<>>
    /\ value = Head(pool)
    /\ pool' = Tail(pool)
    /\ mapping' = [mapping EXCEPT ![key] = value]
    /\ LruPut(lru, value, key)
    /\ Used(value)

\* Mutant of GetEvicting: the old key keeps its entry in mapping.
GetEvictingHalf(key, value) ==
    /\ mapping[key] = NoItem
    /\ pool = <<>>
    /\ lru # <<>>
    /\ value = Head(lru)
    /\ mapping' = [mapping EXCEPT ![key] = value]
    /\ LruPut(Tail(lru), value, key)
    /\ Used(value)
    /\ UNCHANGED pool

\* Mutant of GetEvicting: it takes the most recently used value.
GetEvictingMru(key, value) ==
    /\ mapping[key] = NoItem
    /\ pool = <<>>
    /\ lru # <<>>
    /\ value = lru[Len(lru)]
    /\ mapping' = [mapping EXCEPT ![reverse_mapping[value]] = NoItem,
                                  ![key] = value]
    /\ LruPut(SubSeq(lru, 1, Len(lru) - 1), value, key)
    /\ Used(value)
    /\ UNCHANGED pool

\* Mutant of GetEvicting: it evicts while the pool still has values.
GetEvictingEarly(key, value) ==
    /\ mapping[key] = NoItem
    /\ lru # <<>>
    /\ value = Head(lru)
    /\ mapping' = [mapping EXCEPT ![reverse_mapping[value]] = NoItem,
                                  ![key] = value]
    /\ LruPut(Tail(lru), value, key)
    /\ Used(value)
    /\ UNCHANGED pool

\* The pool is empty: the key takes the least recently used value.
GetEvicting(key, value) ==
    /\ mapping[key] = NoItem
    /\ pool = <<>>
    /\ lru # <<>>
    /\ value = Head(lru)
    /\ mapping' = [mapping EXCEPT ![reverse_mapping[value]] = NoItem,
                                  ![key] = value]
    /\ LruPut(Tail(lru), value, key)
    /\ Used(value)
    /\ UNCHANGED pool

\* There is nothing to lend and nothing to evict: get returns None.
GetNothing(key, value) ==
    /\ value = NoItem
    /\ mapping[key] = NoItem
    /\ pool = <<>>
    /\ lru = <<>>
    /\ UNCHANGED poolVars

\* get_reverse(value), which returns key.
GetReverse(value, key) ==
    /\ key = reverse_mapping[value]
    /\ LruGet(value)
    /\ IF key # NoItem THEN Used(value) ELSE UNCHANGED since
    /\ UNCHANGED <<pool, mapping, reverse_mapping>>

GetSome(key, value) ==
    \/ GetMapped(key, value)
    \/ GetFromPool(key, value)
    \/ GetEvicting(key, value)

\* The whole of get(key).
Get(key, value) == GetSome(key, value) \/ GetNothing(key, value)

\* A call of get that returns None changes nothing: it is a stuttering step.
PoolNext ==
    \/ \E key \in KeyItem, value \in Values : GetSome(key, value)
    \/ \E value \in Values, key \in KeyItem \cup {NoItem} : GetReverse(value, key)

PoolSpec == PoolInit /\ [][PoolNext]_poolVars

-----------------------------------------------------------------------------
(***************************************************************************)
(* The two maps are inverses of each other at all times: get and           *)
(* get_reverse always agree on which name an address stands for, also      *)
(* after evictions, where both maps lose one entry and gain another.       *)
(***************************************************************************)
Inverses ==
    /\ \A key \in KeyItem :
         mapping[key] # NoItem => reverse_mapping[mapping[key]] = key
    /\ \A value \in Values :
         reverse_mapping[value] # NoItem => mapping[reverse_mapping[value]] = value

(***************************************************************************)
(* No address is lost and none is in two places: each address of the       *)
(* network is either still in the pool or is lent and in the recency list  *)
(* exactly once, whatever sequence of lookups and evictions came before.   *)
(***************************************************************************)
Conserved ==
    /\ IsInjective(pool)
    /\ IsInjective(lru)
    /\ Range(lru) = {value \in Values : reverse_mapping[value] # NoItem}
    /\ Range(pool) = Values \ Range(lru)

(***************************************************************************)
(* The recency list is in order of last use: what is after a value in lru  *)
(* was used after it, and nothing is used after its own last use.          *)
(***************************************************************************)
InOrderOfUse ==
    /\ \A i, j \in DOMAIN lru : i < j => lru[j] \in since[lru[i]]
    /\ \A value \in Values : value \notin since[value]

\* The inductive invariant.
Inv ==
    /\ PoolTypeOK
    /\ Inverses
    /\ Conserved
    /\ InOrderOfUse

(***************************************************************************)
(* An address changes its name only after every other address of the pool  *)
(* has been used since its own last use.  This is what makes a fake        *)
(* address safe to keep past its DNS lifetime, the reason the code gives   *)
(* for managing eviction by an LRU list instead of a timeout.              *)
(***************************************************************************)
RenamedOnlyWhenLeastRecent ==
    [][\A value \in Values :
         reverse_mapping[value] # NoItem /\ reverse_mapping'[value] # reverse_mapping[value]
           => since[value] = Values \ {value}]_poolVars

(***************************************************************************)
(* The detailed lists and maps implement the abstract lease: seen from     *)
(* outside, the pool is a table of owners and nothing else.                *)
(***************************************************************************)
Lease == INSTANCE AddressLease WITH owner <- reverse_mapping

ImplementsLease == Lease!Spec

=============================================================================
