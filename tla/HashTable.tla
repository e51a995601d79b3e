------------------------------ MODULE HashTable -----------------------------
(***************************************************************************)
(* A list as the edge and the supernode use one: entries are looked up     *)
(* before they are added, removed, given another key (a peer's MAC is      *)
(* learned, add_sn_to_list_by_mac_or_sock), and sorted by a criterion that *)
(* changes in between (sn_selection_sort, peer_tap_ip_sort,                *)
(* sort_communities).                                                      *)
(***************************************************************************)
EXTENDS UtHash

CONSTANTS Item, Key, Crit

VARIABLES
    tbl,    \* the head pointer and what hangs on it
    mem,    \* the keys in the items
    crit    \* what the items are sorted by
vars == <<tbl, mem, crit>>

In == {tbl.order[j] : j \in 1..Len(tbl.order)}
NoKey == CHOOSE k \in Key : TRUE

\* HASH_FIND_PEER, then calloc and HASH_ADD_PEER.
Insert(i, k, c) ==
    /\ i \notin In /\ HASH_FIND(tbl, mem, k) = NoItem
    /\ tbl' = HASH_ADD(tbl, i, k)
    /\ mem' = [mem EXCEPT ![i] = k]
    /\ crit' = [crit EXCEPT ![i] = c]

\* HASH_FIND_PEER and HASH_DEL, then free: the item's memory is gone.
Forget(k) ==
    LET i == HASH_FIND(tbl, mem, k)
    IN /\ i # NoItem
       /\ tbl' = HASH_DEL(tbl, i)
       /\ mem' = [mem EXCEPT ![i] = NoKey]
       /\ crit' = [crit EXCEPT ![i] = 0]

\* HASH_DEL, the new key, HASH_ADD.
Rekey(i, k) ==
    /\ i \in In /\ HASH_FIND(tbl, mem, k) = NoItem
    /\ mem' = [mem EXCEPT ![i] = k]
    /\ tbl' = HASH_ADD(HASH_DEL(tbl, i), i, k)
    /\ UNCHANGED crit

Sort ==
    /\ tbl.order # <<>>
    /\ tbl' = [tbl EXCEPT !.order = HASH_SRT(@, crit)]
    /\ UNCHANGED <<mem, crit>>

Init == tbl = NoTable /\ mem = [i \in Item |-> NoKey] /\ crit = [i \in Item |-> 0]

Next ==
    \/ \E i \in Item, k \in Key, c \in Crit : Insert(i, k, c)
    \/ \E k \in Key : Forget(k)
    \/ \E i \in Item, k \in Key : Rekey(i, k)
    \/ Sort

Spec == Init /\ [][Next]_vars

----------------------------------------------------------------------------
\* What is in the list is found by its key, and nothing else is: buckets and order
\* hold the same items whatever was added, removed, given another key and moved to
\* twice as many buckets (HASH_ADD, HASH_DELETE, HASH_EXPAND_BUCKETS, HASH_FIND).
FoundByKey ==
    \A k \in Key : LET at == {i \in In : mem[i] = k}
                   IN HASH_FIND(tbl, mem, k) = IF at = {} THEN NoItem ELSE CHOOSE i \in at : TRUE

\* An item is in one chain once, that of its hash, and in the order once: neither
\* HASH_EXPAND_BUCKETS nor a table that is freed and made anew loses or doubles one.
InOneChain ==
    /\ Len(tbl.order) = Cardinality(In)
    /\ DOMAIN tbl.hh = In
    /\ \A i \in In : {<<b, j>> \in (DOMAIN tbl.bkt) \X (1..Len(tbl.order)) :
                          j <= Len(tbl.bkt[b].chain) /\ tbl.bkt[b].chain[j] = i}
                     \in {{<<HASH_TO_BKT(tbl.hh[i].hashv, num_buckets(tbl)), j>>} : j \in 1..Len(tbl.order)}

Position(s, i) == CHOOSE j \in 1..Len(s) : s[j] = i

\* A sort changes nothing but the order; then the criterion grows, and items that
\* compare equal stay as they were (HASH_SRT, so that the supernode an edge has
\* chosen stays the first among equals).
SortedStablyStep ==
    Sort => LET o == tbl.order  n == tbl'.order
            IN /\ {n[j] : j \in 1..Len(n)} = In /\ Len(n) = Len(o)
               /\ \A a, b \in 1..Len(n) : a < b =>
                     \/ crit[n[a]] < crit[n[b]]
                     \/ crit[n[a]] = crit[n[b]] /\ Position(o, n[a]) < Position(o, n[b])
=============================================================================
