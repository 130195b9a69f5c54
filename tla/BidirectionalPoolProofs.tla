----------------------- MODULE BidirectionalPoolProofs -----------------------
(***************************************************************************)
(* The pool of fake addresses keeps its two maps and its two lists         *)
(* consistent, and implements AddressLease, for every set of names and     *)
(* every pool of distinct addresses.                                       *)
(***************************************************************************)
EXTENDS BidirectionalPool, SequenceTheorems, TLAPS

-----------------------------------------------------------------------------
(* Lists.  The pool and the recency list hold each value at most once. *)

\* Every pair of t, in order, is a pair of s in order, but for v at the end.
FollowsButForLast(t, s, v) ==
    \A i, j \in DOMAIN t :
        i < j => /\ t[i] # v
                 /\ \/ t[j] = v
                    \/ \E a, b \in DOMAIN s : a < b /\ s[a] = t[i] /\ s[b] = t[j]

(***************************************************************************)
(* Taking the first element of a list without repetitions, as pop_front    *)
(* and pop_lru do: the rest holds all the others, in order.                *)
(***************************************************************************)
LEMMA TailOfInjective ==
    ASSUME NEW S, NEW s \in Seq(S), s # <<>>, IsInjective(s)
    PROVE  /\ Tail(s) \in Seq(S)
           /\ Head(s) \in Range(s)
           /\ IsInjective(Tail(s))
           /\ Range(Tail(s)) = Range(s) \ {Head(s)}
           /\ \A i \in DOMAIN Tail(s) : i + 1 \in DOMAIN s /\ Tail(s)[i] = s[i + 1]
<1>1. /\ Len(s) \in Nat \ {0} /\ DOMAIN s = 1 .. Len(s)
      /\ Tail(s) \in Seq(S) /\ Len(Tail(s)) = Len(s) - 1
      /\ \A i \in 1 .. Len(Tail(s)) : Tail(s)[i] = s[i + 1]
  BY EmptySeq, LenProperties, HeadTailProperties
<1>2. DOMAIN Tail(s) = 1 .. Len(s) - 1
  BY <1>1, LenProperties
<1>3. Head(s) = s[1]
  BY <1>1
<1>4. \A i \in DOMAIN Tail(s) : i + 1 \in DOMAIN s /\ Tail(s)[i] = s[i + 1]
  BY <1>1, <1>2
<1>5. IsInjective(Tail(s))
  BY <1>1, <1>2, <1>4 DEF IsInjective
<1>6. Range(Tail(s)) \subseteq Range(s) \ {Head(s)}
  BY <1>1, <1>2, <1>3, <1>4 DEF IsInjective, Range
<1>7. ASSUME NEW i \in DOMAIN s, s[i] # Head(s)
      PROVE  s[i] \in Range(Tail(s))
  <2>1. i - 1 \in DOMAIN Tail(s) /\ (i - 1) + 1 = i
    BY <1>1, <1>2, <1>3, <1>7
  <2> QED BY <2>1, <1>4 DEF Range
<1>8. Range(s) \ {Head(s)} \subseteq Range(Tail(s))
  BY <1>7 DEF Range
<1> QED BY <1>1, <1>3, <1>4, <1>5, <1>6, <1>8 DEF Range

(***************************************************************************)
(* Adding a value that a list does not hold, as put does.                  *)
(***************************************************************************)
LEMMA AppendToInjective ==
    ASSUME NEW S, NEW s \in Seq(S), NEW v \in S, IsInjective(s), v \notin Range(s)
    PROVE  /\ Append(s, v) \in Seq(S)
           /\ IsInjective(Append(s, v))
           /\ Range(Append(s, v)) = Range(s) \cup {v}
           /\ \A i, j \in DOMAIN Append(s, v) :
                i < j => /\ i \in DOMAIN s
                         /\ Append(s, v)[i] = s[i]
                         /\ \/ Append(s, v)[j] = v
                            \/ j \in DOMAIN s /\ Append(s, v)[j] = s[j]
<1> DEFINE t == Append(s, v)
<1>1. /\ Len(s) \in Nat /\ DOMAIN s = 1 .. Len(s)
      /\ t \in Seq(S) /\ Len(t) = Len(s) + 1
      /\ \A i \in 1 .. Len(s) : t[i] = s[i]
      /\ t[Len(s) + 1] = v
  BY LenProperties, AppendProperties
<1>2. DOMAIN t = 1 .. Len(s) + 1
  BY <1>1, LenProperties
<1>3. \A i \in DOMAIN s : s[i] # v
  BY DEF Range
<1> HIDE DEF t
<1>4. IsInjective(t)
  BY <1>1, <1>2, <1>3 DEF IsInjective
<1>5. Range(t) = Range(s) \cup {v}
  <2>1. Range(t) \subseteq Range(s) \cup {v}
    BY <1>1, <1>2 DEF Range
  <2>2. Range(s) \cup {v} \subseteq Range(t)
    BY <1>1, <1>2 DEF Range
  <2> QED BY <2>1, <2>2
<1>6. \A i, j \in DOMAIN t :
        i < j => /\ i \in DOMAIN s
                 /\ t[i] = s[i]
                 /\ t[j] = v \/ (j \in DOMAIN s /\ t[j] = s[j])
  BY <1>1, <1>2
<1> QED BY <1>1, <1>4, <1>5, <1>6 DEF t

(***************************************************************************)
(* Refreshing an entry, as LruCache::get does: the list keeps its elements *)
(* and the order of all the others.                                        *)
(***************************************************************************)
LEMMA ToMruKeeps ==
    ASSUME NEW S, NEW s \in Seq(S), IsInjective(s), NEW v \in Range(s)
    PROVE  /\ ToMru(s, v) \in Seq(S)
           /\ IsInjective(ToMru(s, v))
           /\ Range(ToMru(s, v)) = Range(s)
           /\ FollowsButForLast(ToMru(s, v), s, v)
<1> DEFINE at == CHOOSE i \in DOMAIN s : s[i] = v
           n == Len(s)
           t == ToMru(s, v)
<1>1. n \in Nat /\ DOMAIN s = 1 .. n /\ s \in [1 .. n -> S]
  BY LenProperties
<1>2. at \in 1 .. n /\ s[at] = v
  BY <1>1 DEF Range
<1>3. t = [i \in 1 .. n |-> IF i < at THEN s[i] ELSE IF i < n THEN s[i + 1] ELSE v]
  BY <1>1 DEF ToMru
<1>4. v \in S
  BY <1>1, <1>2
<1> HIDE DEF at, n, t
<1>5. t \in [1 .. n -> S]
  BY <1>1, <1>2, <1>3, <1>4
<1>6. t \in Seq(S)
  BY <1>1, <1>5, SeqDef
<1>7. \A i, j \in 1 .. n : s[i] = s[j] => i = j
  BY <1>1 DEF IsInjective
<1>8. IsInjective(t)
  <2> SUFFICES ASSUME NEW i \in 1 .. n, NEW j \in 1 .. n, t[i] = t[j]
               PROVE  i = j
    BY <1>3 DEF IsInjective
  <2> QED BY <1>1, <1>2, <1>3, <1>7
<1>9. Range(t) = Range(s)
  <2>1. Range(t) \subseteq Range(s)
    BY <1>1, <1>2, <1>3 DEF Range
  <2>2. ASSUME NEW i \in 1 .. n
        PROVE  \E j \in 1 .. n : t[j] = s[i]
    <3>1. CASE i < at
      BY <3>1, <1>1, <1>2, <1>3
    <3>2. CASE i = at
      BY <3>2, <1>1, <1>2, <1>3
    <3>3. CASE i > at
      <4>1. i - 1 \in 1 .. n /\ ~(i - 1 < at) /\ i - 1 < n /\ (i - 1) + 1 = i
        BY <3>3, <1>1, <1>2
      <4>2. t[i - 1] = s[i]
        BY <4>1, <1>3
      <4> QED BY <4>1, <4>2
    <3> QED BY <3>1, <3>2, <3>3, <1>1, <1>2
  <2> QED BY <2>1, <2>2, <1>1, <1>3 DEF Range
<1>10. FollowsButForLast(t, s, v)
  <2> SUFFICES ASSUME NEW i \in 1 .. n, NEW j \in 1 .. n, i < j
               PROVE  /\ t[i] # v
                      /\ \/ t[j] = v
                         \/ \E a, b \in 1 .. n : a < b /\ s[a] = t[i] /\ s[b] = t[j]
    BY <1>1, <1>3 DEF FollowsButForLast
  <2> DEFINE a == IF i < at THEN i ELSE i + 1
             b == IF j < at THEN j ELSE j + 1
  <2>1. a \in 1 .. n /\ t[i] = s[a] /\ a # at
    BY <1>1, <1>2, <1>3
  <2>2. t[i] # v
    BY <2>1, <1>2, <1>7
  <2>3. t[j] = v \/ (b \in 1 .. n /\ t[j] = s[b] /\ a < b)
    BY <1>1, <1>2, <1>3
  <2> QED BY <2>1, <2>2, <2>3
<1> QED BY <1>6, <1>8, <1>9, <1>10 DEF t

-----------------------------------------------------------------------------
(* The inductive invariant. *)

\* The list given to new() holds values, each once.
LEMMA InitialPoolInValues == InitialPool \in Seq(Values) /\ IsInjective(InitialPool)
<1>1. InitialPool \in [1 .. Len(InitialPool) -> ValueItem] /\ Len(InitialPool) \in Nat
  BY PoolAssumption, LenProperties
<1>2. InitialPool \in [1 .. Len(InitialPool) -> Values]
  BY <1>1 DEF Values, Range
<1> QED BY <1>1, <1>2, SeqDef, PoolAssumption

\* None is neither an address nor a name.
LEMMA NoItemIsNoValue == NoItem \notin Values /\ NoItem \notin KeyItem
BY PoolAssumption, InitialPoolInValues, LenProperties DEF Values, Range

\* A new pool, in which nothing is lent, satisfies the invariant.
LEMMA InitInv == PoolInit => Inv
<1> SUFFICES ASSUME PoolInit PROVE Inv
  OBVIOUS
<1> USE InitialPoolInValues, NoItemIsNoValue DEF PoolInit
<1>1. <<>> \in Seq(Values) /\ DOMAIN <<>> = {}
  OBVIOUS
<1>2. PoolTypeOK
  BY <1>1 DEF PoolTypeOK
<1>3. Inverses
  BY DEF Inverses
<1>4. Range(lru) = {}
  BY <1>1 DEF Range
<1>5. Conserved
  BY <1>1, <1>4 DEF Conserved, IsInjective, Values
<1>6. InOrderOfUse
  BY <1>1 DEF InOrderOfUse
<1> QED BY <1>2, <1>3, <1>5, <1>6 DEF Inv

(***************************************************************************)
(* Using a value and moving it to the recent end of the list keeps the     *)
(* list in order of use.                                                   *)
(***************************************************************************)
LEMMA UseKeepsOrder ==
    ASSUME PoolTypeOK, InOrderOfUse, NEW v \in Values, Used(v),
           lru' \in Seq(Values), FollowsButForLast(lru', lru, v)
    PROVE  InOrderOfUse'
<1> SUFFICES ASSUME NEW i \in DOMAIN lru', NEW j \in DOMAIN lru', i < j
             PROVE  lru'[j] \in since'[lru'[i]]
  BY DEF InOrderOfUse, PoolTypeOK, Used
<1>1. lru'[i] \in Values /\ lru'[i] # v
  BY LenProperties DEF FollowsButForLast
<1>2. since'[lru'[i]] = since[lru'[i]] \cup {v}
  BY <1>1 DEF Used
<1>3. CASE lru'[j] = v
  BY <1>2, <1>3
<1>4. CASE lru'[j] # v
  <2>1. PICK a, b \in DOMAIN lru : a < b /\ lru[a] = lru'[i] /\ lru[b] = lru'[j]
    BY <1>4 DEF FollowsButForLast
  <2> QED BY <2>1, <1>2 DEF InOrderOfUse
<1> QED BY <1>3, <1>4

\* A use changes since to another table of the same type.
LEMMA UsedType ==
    ASSUME PoolTypeOK, NEW v \in Values, Used(v)
    PROVE  since' \in [Values -> SUBSET Values]
BY DEF PoolTypeOK, Used

(***************************************************************************)
(* Refreshing a lent value, from get or from get_reverse, keeps Inv.       *)
(***************************************************************************)
LEMMA RefreshInv ==
    ASSUME Inv, NEW value \in Values, reverse_mapping[value] # NoItem,
           LruGet(value), Used(value), UNCHANGED <<pool, mapping, reverse_mapping>>
    PROVE  Inv'
<1>1. value \in Range(lru) /\ lru' = ToMru(lru, value)
  BY DEF Inv, Conserved, LruGet
<1>2. lru \in Seq(Values) /\ IsInjective(lru)
  BY DEF Inv, Conserved, PoolTypeOK
<1>3. /\ lru' \in Seq(Values) /\ IsInjective(lru')
      /\ Range(lru') = Range(lru)
      /\ FollowsButForLast(lru', lru, value)
  BY <1>1, <1>2, ToMruKeeps
<1>4. PoolTypeOK'
  BY <1>3, UsedType DEF Inv, PoolTypeOK
<1>5. Inverses'
  BY DEF Inv, Inverses
<1>6. Conserved'
  BY <1>3 DEF Inv, Conserved
<1>7. InOrderOfUse'
  BY <1>3, UseKeepsOrder DEF Inv
<1> QED BY <1>4, <1>5, <1>6, <1>7 DEF Inv

\* get() of a key that has a value preserves the invariant.
LEMMA GetMappedInv ==
    ASSUME Inv, NEW key \in KeyItem, NEW value \in Values, GetMapped(key, value)
    PROVE  Inv'
<1>1. reverse_mapping[value] = key
  BY DEF Inv, Inverses, GetMapped
<1> QED BY <1>1, RefreshInv, NoItemIsNoValue DEF GetMapped

\* get_reverse(), which refreshes the value it finds, preserves the invariant.
LEMMA GetReverseInv ==
    ASSUME Inv, NEW key \in KeyItem \cup {NoItem}, NEW value \in Values,
           GetReverse(value, key)
    PROVE  Inv'
<1>1. CASE key # NoItem
  BY <1>1, RefreshInv DEF GetReverse
<1>2. CASE key = NoItem
  <2>1. UNCHANGED poolVars
    BY <1>2 DEF GetReverse, LruGet, poolVars
  <2> QED BY <2>1 DEF Inv, PoolTypeOK, Inverses, Conserved, InOrderOfUse, poolVars
<1> QED BY <1>1, <1>2

\* get() that takes a value from the pool preserves the invariant.
LEMMA GetFromPoolInv ==
    ASSUME Inv, NEW key \in KeyItem, NEW value \in Values, GetFromPool(key, value)
    PROVE  Inv'
<1> USE NoItemIsNoValue
<1>1. /\ pool \in Seq(Values) /\ pool # <<>> /\ IsInjective(pool)
      /\ lru \in Seq(Values) /\ IsInjective(lru)
      /\ value = Head(pool)
      /\ pool' = Tail(pool) /\ lru' = Append(lru, value)
  BY DEF Inv, PoolTypeOK, Conserved, GetFromPool, LruPut
<1>2. /\ pool' \in Seq(Values) /\ IsInjective(pool')
      /\ Range(pool') = Range(pool) \ {value} /\ value \in Range(pool)
  BY <1>1, TailOfInjective
<1>3. value \notin Range(lru) /\ reverse_mapping[value] = NoItem
  BY <1>2 DEF Inv, Conserved
<1>4. /\ lru' \in Seq(Values) /\ IsInjective(lru')
      /\ Range(lru') = Range(lru) \cup {value}
      /\ \A i, j \in DOMAIN lru' :
           i < j => /\ i \in DOMAIN lru
                    /\ lru'[i] = lru[i]
                    /\ lru'[j] = value \/ (j \in DOMAIN lru /\ lru'[j] = lru[j])
  BY <1>1, <1>3, AppendToInjective
<1>5. FollowsButForLast(lru', lru, value)
  BY <1>3, <1>4 DEF FollowsButForLast, Range
<1>6. PoolTypeOK'
  BY <1>2, <1>4, UsedType DEF Inv, PoolTypeOK, GetFromPool, LruPut
<1>7. Inverses'
  BY <1>3 DEF Inv, PoolTypeOK, Inverses, GetFromPool, LruPut
<1>8. Conserved'
  <2>1. Range(lru') = {v \in Values : reverse_mapping'[v] # NoItem}
    BY <1>4 DEF Inv, PoolTypeOK, Conserved, GetFromPool, LruPut
  <2>2. Range(pool') = Values \ Range(lru')
    BY <1>2, <1>4 DEF Inv, Conserved
  <2> QED BY <1>2, <1>4, <2>1, <2>2 DEF Conserved
<1>9. InOrderOfUse'
  BY <1>4, <1>5, UseKeepsOrder DEF Inv, GetFromPool
<1> QED BY <1>6, <1>7, <1>8, <1>9 DEF Inv

\* get() that takes the least recently used value preserves the invariant.
LEMMA GetEvictingInv ==
    ASSUME Inv, NEW key \in KeyItem, NEW value \in Values, GetEvicting(key, value)
    PROVE  Inv'
<1> USE NoItemIsNoValue
<1> DEFINE rest == Tail(lru)
           old == reverse_mapping[value]
<1>1. /\ lru \in Seq(Values) /\ lru # <<>> /\ IsInjective(lru)
      /\ value = Head(lru) /\ lru' = Append(rest, value)
  BY DEF Inv, PoolTypeOK, Conserved, GetEvicting, LruPut
<1>2. /\ rest \in Seq(Values) /\ IsInjective(rest)
      /\ Range(rest) = Range(lru) \ {value} /\ value \in Range(lru)
      /\ \A i \in DOMAIN rest : i + 1 \in DOMAIN lru /\ rest[i] = lru[i + 1]
  BY <1>1, TailOfInjective
<1>3. old \in KeyItem /\ mapping[old] = value /\ old # key
  BY <1>2 DEF Inv, PoolTypeOK, Conserved, Inverses, GetEvicting
<1>4. /\ mapping' = [k \in KeyItem |-> IF k = key THEN value
                                       ELSE IF k = old THEN NoItem ELSE mapping[k]]
      /\ reverse_mapping' = [v \in Values |-> IF v = value THEN key ELSE reverse_mapping[v]]
  BY <1>3 DEF Inv, PoolTypeOK, GetEvicting, LruPut
<1> HIDE DEF rest, old
<1>5. /\ lru' \in Seq(Values) /\ IsInjective(lru')
      /\ Range(lru') = Range(lru)
      /\ \A i, j \in DOMAIN lru' :
           i < j => /\ i \in DOMAIN rest
                    /\ lru'[i] = rest[i]
                    /\ lru'[j] = value \/ (j \in DOMAIN rest /\ lru'[j] = rest[j])
  <2>1. value \notin Range(rest)
    BY <1>2
  <2>2. Range(lru') = Range(rest) \cup {value}
    BY <1>1, <1>2, <2>1, AppendToInjective
  <2>3. Range(lru') = Range(lru)
    BY <1>2, <2>2
  <2> QED BY <1>1, <1>2, <2>1, <2>3, AppendToInjective
<1>6. FollowsButForLast(lru', lru, value)
  <2> SUFFICES ASSUME NEW i \in DOMAIN lru', NEW j \in DOMAIN lru', i < j
               PROVE  /\ lru'[i] # value
                      /\ \/ lru'[j] = value
                         \/ \E a, b \in DOMAIN lru :
                              a < b /\ lru[a] = lru'[i] /\ lru[b] = lru'[j]
    BY DEF FollowsButForLast
  <2>1. i \in DOMAIN rest /\ lru'[i] = lru[i + 1] /\ i + 1 \in DOMAIN lru
    BY <1>2, <1>5
  <2>2. lru'[i] # value
    BY <2>1, <1>2, <1>5 DEF Range
  <2>3. CASE j \in DOMAIN rest /\ lru'[j] = rest[j]
    <3>1. lru'[j] = lru[j + 1] /\ j + 1 \in DOMAIN lru
      BY <2>3, <1>2
    <3>2. i \in Nat /\ j \in Nat
      BY <2>1, <2>3, <1>2, LenProperties
    <3> QED BY <2>1, <2>2, <3>1, <3>2
  <2> QED BY <2>2, <2>3, <1>5
<1>7. PoolTypeOK'
  BY <1>4, <1>5, UsedType DEF Inv, PoolTypeOK, GetEvicting
<1>8. Inverses'
  <2>1. mapping \in [KeyItem -> Values \cup {NoItem}]
        /\ reverse_mapping \in [Values -> KeyItem \cup {NoItem}]
        /\ mapping[key] = NoItem
    BY DEF Inv, PoolTypeOK, GetEvicting
  <2>2. ASSUME NEW k \in KeyItem, mapping'[k] # NoItem
        PROVE  reverse_mapping'[mapping'[k]] = k
    <3>1. CASE k = key
      BY <3>1, <1>4
    <3>2. CASE k # key
      <4>1. k # old /\ mapping'[k] = mapping[k] /\ mapping[k] \in Values
        BY <3>2, <2>1, <2>2, <1>4
      <4>2. reverse_mapping[mapping[k]] = k
        BY <4>1 DEF Inv, Inverses
      <4>3. mapping[k] # value
        BY <4>1, <4>2 DEF old
      <4> QED BY <4>1, <4>2, <4>3, <1>4
    <3> QED BY <3>1, <3>2
  <2>3. ASSUME NEW v \in Values, reverse_mapping'[v] # NoItem
        PROVE  mapping'[reverse_mapping'[v]] = v
    <3>1. CASE v = value
      BY <3>1, <1>4
    <3>2. CASE v # value
      <4>1. /\ reverse_mapping'[v] = reverse_mapping[v]
            /\ reverse_mapping[v] \in KeyItem /\ mapping[reverse_mapping[v]] = v
        BY <3>2, <2>1, <2>3, <1>4 DEF Inv, Inverses
      <4>2. reverse_mapping[v] # key /\ reverse_mapping[v] # old
        BY <4>1, <3>2, <2>1, <1>3
      <4> QED BY <4>1, <4>2, <1>4
    <3> QED BY <3>1, <3>2
  <2> QED BY <2>2, <2>3 DEF Inverses
<1>9. Conserved'
  <2>1. Range(lru') = {v \in Values : reverse_mapping'[v] # NoItem}
    BY <1>2, <1>4, <1>5 DEF Inv, Conserved
  <2> QED BY <1>5, <2>1 DEF Inv, Conserved, GetEvicting
<1>10. InOrderOfUse'
  BY <1>5, <1>6, UseKeepsOrder DEF Inv, GetEvicting
<1> QED BY <1>7, <1>8, <1>9, <1>10 DEF Inv

\* Every call preserves the invariant.
LEMMA NextInv == Inv /\ [PoolNext]_poolVars => Inv'
<1> SUFFICES ASSUME Inv, [PoolNext]_poolVars PROVE Inv'
  OBVIOUS
<1>1. CASE UNCHANGED poolVars
  BY <1>1 DEF Inv, PoolTypeOK, Inverses, Conserved, InOrderOfUse, poolVars
<1>2. ASSUME NEW key \in KeyItem, NEW value \in Values, GetSome(key, value)
      PROVE  Inv'
  BY <1>2, GetMappedInv, GetFromPoolInv, GetEvictingInv DEF GetSome
<1>3. ASSUME NEW value \in Values, NEW key \in KeyItem \cup {NoItem}, GetReverse(value, key)
      PROVE  Inv'
  BY <1>3, GetReverseInv
<1> QED BY <1>1, <1>2, <1>3 DEF PoolNext

(***************************************************************************)
(* The inductive invariant holds for every set of names and every pool of  *)
(* distinct addresses, however get and get_reverse are called.             *)
(***************************************************************************)
THEOREM InvAlways == PoolSpec => []Inv
<1>1. PoolInit => Inv
  BY InitInv
<1>2. Inv /\ [PoolNext]_poolVars => Inv'
  BY NextInv
<1> QED BY <1>1, <1>2, PTL DEF PoolSpec

(***************************************************************************)
(* get and get_reverse always agree, and no address is lost or shared.     *)
(***************************************************************************)
THEOREM MapsAgree == PoolSpec => [](Inverses /\ Conserved)
<1>1. Inv => Inverses /\ Conserved
  BY DEF Inv
<1> QED BY <1>1, InvAlways, PTL

-----------------------------------------------------------------------------
(* The lease. *)

(***************************************************************************)
(* The value that pop_lru returns once the pool is empty is one after      *)
(* whose last use every other value was used.                              *)
(***************************************************************************)
LEMMA EvictedIsLeastRecent ==
    ASSUME Inv, NEW key \in KeyItem, NEW value \in Values, GetEvicting(key, value)
    PROVE  /\ \A v \in Values : reverse_mapping[v] # NoItem
           /\ since[value] = Values \ {value}
<1>1. /\ pool = <<>> /\ lru \in Seq(Values) /\ lru # <<>> /\ value = Head(lru)
  BY DEF Inv, PoolTypeOK, GetEvicting
<1>2. Range(pool) = {}
  BY <1>1 DEF Range
<1>3. Range(lru) = Values
  BY <1>2 DEF Inv, Conserved
<1>4. \A v \in Values : reverse_mapping[v] # NoItem
  BY <1>3 DEF Inv, Conserved
<1>5. DOMAIN lru = 1 .. Len(lru) /\ Len(lru) \in Nat \ {0} /\ value = lru[1]
  BY <1>1, LenProperties, EmptySeq
<1>6. ASSUME NEW v \in Values, v # value
      PROVE  v \in since[value]
  <2>1. PICK j \in DOMAIN lru : lru[j] = v
    BY <1>3 DEF Range
  <2>2. 1 \in DOMAIN lru /\ 1 < j
    BY <1>5, <1>6, <2>1
  <2> QED BY <2>1, <2>2, <1>5 DEF Inv, InOrderOfUse
<1>7. since[value] \subseteq Values \ {value}
  BY DEF Inv, PoolTypeOK, InOrderOfUse
<1> QED BY <1>4, <1>6, <1>7

(***************************************************************************)
(* A key that the map does not hold owns no address.                       *)
(***************************************************************************)
LEMMA UnmappedIsHomeless ==
    ASSUME Inv, NEW key \in KeyItem, mapping[key] = NoItem
    PROVE  Lease!Homeless(key)
BY NoItemIsNoValue DEF Inv, Inverses, Lease!Homeless

(***************************************************************************)
(* An address changes its name only when every other address of the pool   *)
(* was used after it, for pools of every size.                             *)
(***************************************************************************)
THEOREM RenamedLast == PoolSpec => RenamedOnlyWhenLeastRecent
<1> DEFINE Rename(value) ==
             reverse_mapping[value] # NoItem /\ reverse_mapping'[value] # reverse_mapping[value]
               => since[value] = Values \ {value}
<1>1. Inv /\ [PoolNext]_poolVars => [\A value \in Values : Rename(value)]_poolVars
  <2> SUFFICES ASSUME Inv, PoolNext, NEW value \in Values, reverse_mapping[value] # NoItem,
                      reverse_mapping'[value] # reverse_mapping[value]
               PROVE  since[value] = Values \ {value}
    OBVIOUS
  <2>1. PICK key \in KeyItem, v \in Values : GetSome(key, v)
    BY DEF PoolNext, GetReverse
  <2>2. CASE GetMapped(key, v)
    BY <2>2 DEF GetMapped
  <2>3. CASE GetFromPool(key, v)
    <3>1. pool \in Seq(Values) /\ pool # <<>> /\ IsInjective(pool) /\ v = Head(pool)
      BY <2>3 DEF Inv, PoolTypeOK, Conserved, GetFromPool
    <3>2. reverse_mapping[v] = NoItem
      BY <3>1, TailOfInjective DEF Inv, Conserved
    <3> QED BY <2>3, <3>2 DEF Inv, PoolTypeOK, GetFromPool, LruPut
  <2>4. CASE GetEvicting(key, v)
    <3>1. v = value
      BY <2>4 DEF Inv, PoolTypeOK, GetEvicting, LruPut
    <3> QED BY <2>4, <3>1, EvictedIsLeastRecent
  <2> QED BY <2>1, <2>2, <2>3, <2>4 DEF GetSome
<1> QED BY <1>1, InvAlways, PTL DEF PoolSpec, RenamedOnlyWhenLeastRecent

(***************************************************************************)
(* Every step of the pool is a step of the lease or leaves it unchanged.   *)
(***************************************************************************)
LEMMA StepImplementsLease == Inv /\ [PoolNext]_poolVars => [Lease!Next]_Lease!vars
<1> SUFFICES ASSUME Inv, [PoolNext]_poolVars PROVE [Lease!Next]_Lease!vars
  OBVIOUS
<1> USE NoItemIsNoValue
<1>1. ASSUME NEW key \in KeyItem, NEW value \in Values, GetMapped(key, value)
      PROVE  Lease!Next
  <2>1. reverse_mapping[value] # NoItem
    BY <1>1 DEF Inv, Inverses, GetMapped
  <2>2. Lease!Refresh(value)
    BY <1>1, <2>1 DEF GetMapped, Used, Lease!Refresh, Lease!Use
  <2> QED BY <2>2 DEF Lease!Next
<1>2. ASSUME NEW key \in KeyItem, NEW value \in Values, GetFromPool(key, value)
      PROVE  Lease!Next
  <2>1. pool \in Seq(Values) /\ pool # <<>> /\ IsInjective(pool) /\ value = Head(pool)
    BY <1>2 DEF Inv, PoolTypeOK, Conserved, GetFromPool
  <2>2. reverse_mapping[value] = NoItem
    BY <2>1, TailOfInjective DEF Inv, Conserved
  <2>3. Lease!Assign(value, key)
    BY <1>2, <2>2, UnmappedIsHomeless
    DEF GetFromPool, LruPut, Used, Lease!Assign, Lease!Use
  <2> QED BY <2>3 DEF Lease!Next
<1>3. ASSUME NEW key \in KeyItem, NEW value \in Values, GetEvicting(key, value)
      PROVE  Lease!Next
  <2>1. Lease!Reassign(value, key)
    BY <1>3, EvictedIsLeastRecent, UnmappedIsHomeless
    DEF GetEvicting, LruPut, Used, Lease!Reassign, Lease!Use
  <2> QED BY <2>1 DEF Lease!Next
<1>4. ASSUME NEW value \in Values, NEW key \in KeyItem \cup {NoItem}, GetReverse(value, key)
      PROVE  [Lease!Next]_Lease!vars
  <2>1. CASE key # NoItem
    <3>1. Lease!Refresh(value)
      BY <1>4, <2>1 DEF GetReverse, Used, Lease!Refresh, Lease!Use
    <3> QED BY <3>1 DEF Lease!Next
  <2>2. CASE key = NoItem
    BY <1>4, <2>2 DEF GetReverse, Lease!vars
  <2> QED BY <2>1, <2>2
<1>5. CASE UNCHANGED poolVars
  BY <1>5 DEF poolVars, Lease!vars
<1> QED BY <1>1, <1>2, <1>3, <1>4, <1>5 DEF PoolNext, GetSome

(***************************************************************************)
(* PoolWithBidirectionalMapping implements the abstract lease: one owner   *)
(* per address, free addresses first, then the least recently used one.    *)
(***************************************************************************)
THEOREM PoolImplementsLease == PoolSpec => ImplementsLease
<1>1. PoolInit => Lease!Init
  BY DEF PoolInit, Lease!Init
<1>2. Inv /\ [PoolNext]_poolVars => [Lease!Next]_Lease!vars
  BY StepImplementsLease
<1> QED BY <1>1, <1>2, InvAlways, PTL DEF PoolSpec, ImplementsLease, Lease!Spec


-----------------------------------------------------------------------------
(* What a caller of get learns. *)

\* The value that get returns is one of the pool.
LEMMA GetInValues ==
    ASSUME Inv, NEW key \in KeyItem, NEW value, GetSome(key, value)
    PROVE  value \in Values
<1>1. CASE GetMapped(key, value)
  BY <1>1 DEF GetMapped, Inv, PoolTypeOK
<1>2. CASE GetFromPool(key, value)
  BY <1>2, TailOfInjective DEF GetFromPool, Inv, PoolTypeOK, Conserved
<1>3. CASE GetEvicting(key, value)
  BY <1>3, TailOfInjective DEF GetEvicting, Inv, PoolTypeOK, Conserved
<1> QED BY <1>1, <1>2, <1>3 DEF GetSome

(***************************************************************************)
(* After get(key) the value it returns stands for key, and every other     *)
(* value for what it stood for before.                                     *)
(***************************************************************************)
LEMMA GetNames ==
    ASSUME Inv, NEW key \in KeyItem, NEW value \in Values, GetSome(key, value)
    PROVE  reverse_mapping' = [reverse_mapping EXCEPT ![value] = key]
<1>1. CASE GetMapped(key, value)
  BY <1>1 DEF GetMapped, Inv, PoolTypeOK, Inverses
<1>2. CASE GetFromPool(key, value)
  BY <1>2 DEF GetFromPool, LruPut
<1>3. CASE GetEvicting(key, value)
  BY <1>3 DEF GetEvicting, LruPut
<1> QED BY <1>1, <1>2, <1>3 DEF GetSome

(***************************************************************************)
(* get returns None only in a pool that never had a value.                 *)
(***************************************************************************)
LEMMA NothingOnlyWithoutPool ==
    ASSUME Inv, NEW key, NEW value, GetNothing(key, value)
    PROVE  InitialPool = <<>>
<1>1. pool = <<>> /\ lru = <<>>
  BY DEF GetNothing
<1>2. Range(pool) = {} /\ Range(lru) = {}
  BY <1>1 DEF Range
<1>3. Values = {}
  BY <1>2 DEF Inv, Conserved
<1>4. DOMAIN InitialPool = {}
  BY <1>3 DEF Values, Range
<1> QED BY <1>4, PoolAssumption, LenProperties, EmptySeq

=============================================================================
