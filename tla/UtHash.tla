------------------------------- MODULE UtHash -------------------------------
(***************************************************************************)
(* The hash table behind every list of the edge and of the supernode       *)
(* (include/uthash.h): items in the order they were added, and chained in  *)
(* buckets by the hash their key had when they were added.                 *)
(*                                                                         *)
(* A table is a record: order, the doubly linked list of items; bkt, the   *)
(* buckets, each with its chain and expand_mult; hh, what an item's handle *)
(* has stored of its key; ineff and noexpand.  The key itself lies in the  *)
(* item, outside of the table: mem is that memory.                         *)
(***************************************************************************)
EXTENDS Naturals, Sequences, FiniteSets, SequencesExt

CONSTANTS
    Hash, KeyLen,   \* functions of keys: HASH_VALUE and the length
    InitialBuckets, \* HASH_INITIAL_NUM_BUCKETS, a power of two
    Capacity        \* HASH_BKT_CAPACITY_THRESH

UtHashAssumption ==
    /\ \A k \in DOMAIN Hash : Hash[k] \in Nat /\ KeyLen[k] \in Nat
    /\ InitialBuckets \in Nat \ {0} /\ Capacity \in Nat \ {0}

NoItem == "NULL"
NoTable == [order |-> <<>>, bkt |-> <<>>, hh |-> <<>>, ineff |-> 0, noexpand |-> FALSE]

HASH_MAKE_TABLE ==
    [NoTable EXCEPT !.bkt = [b \in 0..InitialBuckets - 1 |-> [chain |-> <<>>, mult |-> 0]]]

num_buckets(t) == Cardinality(DOMAIN t.bkt)
HASH_TO_BKT(h, n) == h % n

----------------------------------------------------------------------------
Matches(t, mem, i, k) == t.hh[i].hashv = Hash[k] /\ t.hh[i].keylen = KeyLen[k] /\ mem[i] = k

\* HASH_FIND with HASH_FIND_IN_BKT: the first of the bucket's chain that matches.
HASH_FIND(t, mem, k) ==
    IF t.order = <<>> THEN NoItem
    ELSE LET found == SelectSeq(t.bkt[HASH_TO_BKT(Hash[k], num_buckets(t))].chain,
                                LAMBDA i : Matches(t, mem, i, k))
         IN IF found = <<>> THEN NoItem ELSE Head(found)

\* How often expand_mult of a new bucket is raised while c items go into it.
ExpandMult(c, ideal) ==
    LET mult[n \in 0..c] ==
            IF n = 0 THEN 0
            ELSE IF n > ideal /\ n > mult[n - 1] * ideal THEN mult[n - 1] + 1 ELSE mult[n - 1]
    IN mult[c]

\* Mutant: an item stays in its old chain as well.
ExpandCopies(t) ==
    LET n == num_buckets(t)
    IN [t EXCEPT !.bkt = [b \in 0..2 * n - 1 |->
            [chain |-> IF b < n THEN t.bkt[b].chain
                       ELSE SelectSeq(t.bkt[b - n].chain, LAMBDA i : HASH_TO_BKT(t.hh[i].hashv, 2 * n) = b),
             mult |-> 1]]]

\* HASH_EXPAND_BUCKETS: twice the buckets, every item pushed to the front of its new
\* chain; two expansions in a row that leave most items crowded are the last ones.
HASH_EXPAND_BUCKETS(t) ==
    LET n == num_buckets(t)
        items == Len(t.order)
        ideal == items \div (2 * n) + (IF items % (2 * n) # 0 THEN 1 ELSE 0)
        chain(b) == Reverse(SelectSeq(t.bkt[b % n].chain, LAMBDA i : HASH_TO_BKT(t.hh[i].hashv, 2 * n) = b))
        crowded == {<<b, j>> \in (0..2 * n - 1) \X (1..items) : ideal < j /\ j <= Len(chain(b))}
        ineff == IF Cardinality(crowded) > items \div 2 THEN t.ineff + 1 ELSE 0
    IN [t EXCEPT !.bkt = [b \in 0..2 * n - 1 |-> [chain |-> chain(b), mult |-> ExpandMult(Len(chain(b)), ideal)]],
                 !.ineff = ineff,
                 !.noexpand = @ \/ ineff > 1]

\* HASH_ADD_TO_BKT
HASH_ADD_TO_BKT(t, b, i) ==
    LET added == [t EXCEPT !.bkt[b].chain = <<i>> \o @]
        full == Len(added.bkt[b].chain) >= (t.bkt[b].mult + 1) * Capacity
    IN IF full /\ ~t.noexpand THEN HASH_EXPAND_BUCKETS(added) ELSE added

\* HASH_ADD of item i, whose key is now k.
HASH_ADD(t, i, k) ==
    LET tbl == IF t.order = <<>> THEN HASH_MAKE_TABLE ELSE t
    IN HASH_ADD_TO_BKT([tbl EXCEPT !.order = Append(@, i),
                                   !.hh = [j \in DOMAIN @ \cup {i} |->
                                               IF j = i THEN [hashv |-> Hash[k], keylen |-> KeyLen[k]] ELSE @[j]]],
                       HASH_TO_BKT(Hash[k], num_buckets(tbl)), i)

Without(s, i) == SelectSeq(s, LAMBDA j : j # i)

\* HASH_DELETE: the bucket is the one of the stored hash; the last item takes the
\* table with it.
HASH_DEL(t, i) ==
    IF Len(t.order) = 1 THEN NoTable
    ELSE [t EXCEPT !.order = Without(@, i),
                   !.bkt[HASH_TO_BKT(t.hh[i].hashv, num_buckets(t))].chain = Without(@, i),
                   !.hh = [j \in DOMAIN @ \ {i} |-> @[j]]]

----------------------------------------------------------------------------
\* One merge of HASH_SRT: of p and q, p's first when they compare equal.
MergeRuns(p, q, crit) ==
    LET m[i \in 1..Len(p) + 1, j \in 1..Len(q) + 1] ==
            IF i > Len(p) THEN SubSeq(q, j, Len(q))
            ELSE IF j > Len(q) THEN SubSeq(p, i, Len(p))
            ELSE IF crit[p[i]] <= crit[q[j]] THEN <<p[i]>> \o m[i + 1, j]
            ELSE <<q[j]>> \o m[i, j + 1]
    IN m[1, 1]

Upto(a, s) == IF a < Len(s) THEN a ELSE Len(s)

\* One pass: neighbouring runs of length insize are merged.
SortPass(s, insize, crit) ==
    LET pass[a \in 0..Len(s)] ==  \* from behind the first a items on
            IF a = Len(s) THEN <<>>
            ELSE LET b == Upto(a + insize, s)
                     c == Upto(b + insize, s)
                 IN MergeRuns(SubSeq(s, a + 1, b), SubSeq(s, b + 1, c), crit) \o pass[c]
    IN pass[0]

\* HASH_SRT: passes with runs of 1, 2, 4, ... until one merge does it all.
HASH_SRT(s, crit) ==
    LET rounds[n \in 0..Len(s)] == IF n = 0 THEN s ELSE SortPass(rounds[n - 1], 2 ^ (n - 1), crit)
    IN rounds[CHOOSE n \in 0..Len(s) : 2 ^ n >= Len(s) /\ \A m \in 0..n - 1 : 2 ^ m < Len(s)]
=============================================================================
