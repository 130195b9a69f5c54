----------------------------- MODULE AddressLease -----------------------------
(***************************************************************************)
(* What PoolWithBidirectionalMapping promises, without its lists and its   *)
(* second map: each address has at most one owner, no two addresses have   *)
(* the same one, a free address is never refused while there is one, and   *)
(* an address is taken from its owner only when it is the one that nobody  *)
(* has used for the longest time.                                          *)
(***************************************************************************)
CONSTANTS KeyItem, Values, NoItem

VARIABLES
    owner,  \* the key an address stands for
    since   \* the addresses used after the last use of an address

vars == <<owner, since>>

Init ==
    /\ owner = [value \in Values |-> NoItem]
    /\ since = [value \in Values |-> {}]

Use(value) ==
    since' = [v \in Values |-> IF v = value THEN {} ELSE since[v] \cup {value}]

Homeless(key) == \A value \in Values : owner[value] # key

\* The owner of an address, or someone who asks for the owner, uses it.
Refresh(value) ==
    /\ owner[value] # NoItem
    /\ Use(value)
    /\ UNCHANGED owner

\* A free address is given to a key that has none.
Assign(value, key) ==
    /\ owner[value] = NoItem
    /\ Homeless(key)
    /\ owner' = [owner EXCEPT ![value] = key]
    /\ Use(value)

\* No address is free: the least recently used one changes its owner.
Reassign(value, key) ==
    /\ \A v \in Values : owner[v] # NoItem
    /\ since[value] = Values \ {value}
    /\ Homeless(key)
    /\ owner' = [owner EXCEPT ![value] = key]
    /\ Use(value)

Next ==
    \E value \in Values :
        \/ Refresh(value)
        \/ \E key \in KeyItem : Assign(value, key) \/ Reassign(value, key)

Spec == Init /\ [][Next]_vars

=============================================================================
