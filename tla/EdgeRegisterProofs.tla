------------------------ MODULE EdgeRegisterProofs ------------------------
(***************************************************************************)
(* Proofs about EdgeRegister: an edge takes every answer once and for the  *)
(* request it has under way, for any lists of supernodes, any number of    *)
(* attempts, and any number of messages under way.                         *)
(***************************************************************************)
EXTENDS EdgeRegister, FiniteSetTheorems, SequenceTheorems, TLAPS

----------------------------------------------------------------------------
\* The ranks of the entries of a list (sn_selection_sort) are its positions:
\* two entries never compare as equal.
LEMMA Ranks ==
  ASSUME NEW l \in Seq(Supernode), NEW c \in [Supernode -> Nat]
  PROVE  \A k \in DOMAIN l : \E i \in DOMAIN l : Rank(l, c, i) = k
  <1> DEFINE n == Len(l)
             At(i) == {j \in DOMAIN l : Before(l, c, j, i)}
             r == [i \in 1..n |-> Rank(l, c, i)]
  <1>1. n \in Nat /\ DOMAIN l = 1..n /\ \A i \in 1..n : c[l[i]] \in Nat
    <2>1. n \in Nat /\ DOMAIN l = 1..n /\ l \in [1..n -> Supernode]
      BY Zenon, LenProperties
    <2> QED BY <2>1
  <1>2. IsFiniteSet(1..n) /\ Cardinality(1..n) = n
    BY SMTT(40), <1>1, FS_Interval
  <1> HIDE DEF n
  <1>3. ASSUME NEW i \in 1..n
        PROVE  At(i) \in SUBSET (1..n) /\ i \in At(i)
    BY <1>1, <1>3 DEF Before
  <1>4. ASSUME NEW i \in 1..n
        PROVE  IsFiniteSet(At(i)) /\ Cardinality(At(i)) \in 1..n
    <2> HIDE DEF At
    <2>1. IsFiniteSet(At(i)) /\ Cardinality(At(i)) <= n
      BY ZenonT(40), <1>2, <1>3, FS_Subset
    <2>2. Cardinality(At(i)) \in Nat /\ Cardinality(At(i)) # 0
      BY <2>1, <1>3, FS_CardinalityType, FS_EmptySet
    <2> QED BY <2>1, <2>2, <1>1
  <1>5. ASSUME NEW i \in 1..n, NEW j \in 1..n, i # j, Before(l, c, i, j)
        PROVE  Cardinality(At(i)) # Cardinality(At(j))
    <2>1. At(i) \in SUBSET At(j)
      BY <1>1, <1>5 DEF Before
    <2>2. j \in At(j) /\ j \notin At(i)
      BY <1>1, <1>5 DEF Before
    <2> HIDE DEF At
    <2> QED BY <2>1, <2>2, <1>4, FS_Subset
  <1>6. ASSUME NEW i \in 1..n, NEW j \in 1..n, i # j
        PROVE  Before(l, c, i, j) \/ Before(l, c, j, i)
    BY <1>1 DEF Before
  <1>7. \A i \in 1..n : r[i] = Cardinality(At(i))
    BY DEF Rank
  <1> HIDE DEF At
  <1>8. r \in [1..n -> 1..n]
    BY <1>4, <1>7
  <1>9. ASSUME NEW i \in 1..n, NEW j \in 1..n, r[i] = r[j]
        PROVE  i = j
    BY <1>9, <1>5, <1>6, <1>7
  <1> HIDE DEF r
  <1>10. r \in Injection(1..n, 1..n)
    BY <1>8, <1>9 DEF Injection, IsInjective
  <1>11. r \in Surjection(1..n, 1..n)
    BY <1>10, <1>2, FS_Injection
  <1> QED BY Zenon, <1>11, <1>1 DEF Surjection, r

\* sn_selection_sort reorders the list: no entry is lost or doubled.
LEMMA Sorted ==
  ASSUME NEW l \in Seq(Supernode), NEW c \in [Supernode -> Nat]
  PROVE  /\ sn_selection_sort(l, c) \in Seq(Supernode)
         /\ DOMAIN sn_selection_sort(l, c) = DOMAIN l
         /\ ToSet(sn_selection_sort(l, c)) = ToSet(l)
         /\ IsInjective(l) => IsInjective(sn_selection_sort(l, c))
  <1> DEFINE n == Len(l)
             pos == [k \in DOMAIN l |-> CHOOSE i \in DOMAIN l : Rank(l, c, i) = k]
             q == sn_selection_sort(l, c)
  <1>1. n \in Nat /\ DOMAIN l = 1..n /\ \A i \in 1..n : l[i] \in Supernode
    BY LenProperties
  <1>2. IsFiniteSet(1..n)
    BY <1>1, FS_Interval
  <1> HIDE DEF n
  <1>3. \A k \in 1..n : pos[k] \in 1..n /\ Rank(l, c, pos[k]) = k
    <2> SUFFICES ASSUME NEW k \in 1..n PROVE pos[k] \in 1..n /\ Rank(l, c, pos[k]) = k
      BY Zenon
    <2>1. \E i \in DOMAIN l : Rank(l, c, i) = k
      BY Zenon, <1>1, Ranks
    <2>2. pos[k] = CHOOSE i \in DOMAIN l : Rank(l, c, i) = k
      BY <1>1
    <2> QED BY <2>1, <2>2, <1>1
  <1>4. pos \in [1..n -> 1..n]
    BY <1>1, <1>3
  <1>5. DOMAIN q = 1..n /\ \A k \in 1..n : q[k] = l[pos[k]]
    BY <1>1 DEF sn_selection_sort
  <1>6. q = [k \in 1..n |-> q[k]]
    BY <1>1 DEF sn_selection_sort
  <1> HIDE DEF pos, q
  <1>7. \A j, k \in 1..n : pos[j] = pos[k] => j = k
    BY <1>3
  <1>8. pos \in Injection(1..n, 1..n)
    BY <1>4, <1>7 DEF Injection, IsInjective
  <1>9. \A i \in 1..n : \E k \in 1..n : pos[k] = i
    <2>1. pos \in Surjection(1..n, 1..n)
      BY <1>8, <1>2, FS_Injection
    <2> QED BY <2>1 DEF Surjection
  <1>10. q \in Seq(Supernode)
    <2>1. \A k \in 1..n : q[k] \in Supernode
      BY <1>1, <1>3, <1>5
    <2>2. q \in [1..n -> Supernode]
      BY <2>1, <1>6
    <2> QED BY <2>2, <1>1, SeqDef
  <1>11. ToSet(q) = ToSet(l)
    <2>1. ASSUME NEW k \in 1..n PROVE \E i \in 1..n : q[k] = l[i]
      BY <1>3, <1>5
    <2>2. ASSUME NEW i \in 1..n PROVE \E k \in 1..n : q[k] = l[i]
      <3>1. PICK k \in 1..n : pos[k] = i
        BY Zenon, <1>9
      <3>2. q[k] = l[i]
        BY Zenon, <3>1, <1>5
      <3> QED BY Zenon, <3>2
    <2>3. ToSet(q) = {q[k] : k \in 1..n} /\ ToSet(l) = {l[i] : i \in 1..n}
      BY <1>1, <1>5 DEF ToSet
    <2> QED BY ZenonT(40), <2>1, <2>2, <2>3
  <1>12. IsInjective(l) => IsInjective(q)
    <2> SUFFICES ASSUME IsInjective(l), NEW j \in 1..n, NEW k \in 1..n, q[j] = q[k]
                 PROVE  j = k
      BY <1>5 DEF IsInjective
    <2>1. l[pos[j]] = l[pos[k]]
      BY <1>5
    <2>2. pos[j] = pos[k]
      BY <2>1, <1>1, <1>3 DEF IsInjective
    <2> QED BY <2>2, <1>7
  <1> QED BY <1>1, <1>5, <1>10, <1>11, <1>12 DEF q

\* An entry that is deleted and added again, or a new one, comes last; the
\* others stay.
LEMMA MovedToEnd ==
  ASSUME NEW l \in Seq(Supernode), NEW s \in Supernode, IsInjective(l)
  PROVE  /\ ToEnd(l, s) \in Seq(Supernode) /\ ToEnd(l, s) # <<>>
         /\ ToSet(ToEnd(l, s)) = ToSet(l) \cup {s}
         /\ IsInjective(ToEnd(l, s))
  <1> DEFINE n == Len(l)
  <1>1. n \in Nat /\ DOMAIN l = 1..n /\ \A i \in 1..n : l[i] \in Supernode
    BY LenProperties
  <1>2. \A i, j \in 1..n : l[i] = l[j] => i = j
    BY <1>1 DEF IsInjective
  <1>3. CASE s \notin ToSet(l)
    <2> DEFINE q == Append(l, s)
    <2>1. q \in Seq(Supernode) /\ q # <<>> /\ Len(q) = n + 1
      BY AppendProperties
    <2>2. (\A i \in 1..n : q[i] = l[i]) /\ q[n + 1] = s
      BY AppendProperties
    <2>3. DOMAIN q = 1..(n + 1)
      BY <2>1, LenProperties
    <2> HIDE DEF q, n
    <2>4. \A i \in 1..n : l[i] # s
      BY <1>3, <1>1 DEF ToSet
    <2>5. ToSet(q) = ToSet(l) \cup {s}
      BY <2>2, <2>3, <1>1 DEF ToSet
    <2>6. IsInjective(q)
      BY <2>2, <2>3, <2>4, <1>1, <1>2 DEF IsInjective
    <2> QED BY <2>1, <2>5, <2>6, <1>3 DEF ToEnd, q
  <1>4. CASE s \in ToSet(l)
    <2> DEFINE p == CHOOSE i \in DOMAIN l : l[i] = s
               a == SubSeq(l, 1, p - 1)
               b == SubSeq(l, p + 1, Len(l))
               q == Append(a \o b, s)
    <2>1. p \in 1..n /\ l[p] = s
      BY <1>1, <1>4 DEF ToSet
    <2>2. ToEnd(l, s) = q
      BY Zenon, <1>4 DEF ToEnd, RemoveAt
    <2> HIDE DEF p
    <2>3. a \in Seq(Supernode) /\ Len(a) = p - 1 /\ \A i \in 1..(p - 1) : a[i] = l[i]
      <3>1. \A i \in 1..(p - 1) : l[i] \in Supernode
        BY <1>1, <2>1
      <3> HIDE DEF n
      <3>2. (p - 1) - 1 + 1 = p - 1 /\ 1 \in Int /\ p - 1 \in Int /\ (~(1 <= p - 1) => p - 1 = 0)
        BY <1>1, <2>1
      <3> QED BY <1>1, <2>1, <3>1, <3>2, SubSeqProperties
    <2>4. b \in Seq(Supernode) /\ Len(b) = n - p /\ \A i \in 1..(n - p) : b[i] = l[p + i]
      <3>1. \A i \in (p + 1)..Len(l) : l[i] \in Supernode
        BY <1>1, <2>1
      <3>2. p + 1 \in Int /\ Len(l) \in Int
        BY <1>1, <2>1
      <3>3. b \in Seq(Supernode)
        BY <3>1, <3>2, SubSeqProperties
      <3>4. Len(b) = n - p
        <4>1. Len(b) = IF p + 1 <= Len(l) THEN Len(l) - (p + 1) + 1 ELSE 0
          BY <3>1, <3>2, SubSeqProperties
        <4>2. p + 1 <= Len(l) => Len(l) - (p + 1) + 1 = n - p
          BY <1>1, <2>1
        <4> HIDE DEF b, n
        <4>3. n \in Nat /\ p \in 1..n /\ Len(l) = n
          BY <1>1, <2>1 DEF n
        <4> QED BY <4>1, <4>2, <4>3
      <3>5. \A i \in 1..(n - p) : b[i] = l[p + i]
        <4>1. \A i \in 1..(Len(l) - (p + 1) + 1) : b[i] = l[(p + 1) + i - 1]
          BY <3>1, <3>2, SubSeqProperties
        <4> HIDE DEF b
        <4>2. \A i \in 1..(n - p) : i \in 1..(Len(l) - (p + 1) + 1) /\ (p + 1) + i - 1 = p + i
          BY <1>1, <2>1
        <4> QED BY <4>1, <4>2
      <3> QED BY <3>3, <3>4, <3>5
    <2> HIDE DEF a, b
    <2>5. /\ a \o b \in Seq(Supernode) /\ Len(a \o b) = n - 1
          /\ \A i \in 1..(n - 1) : (a \o b)[i] = IF i < p THEN l[i] ELSE l[i + 1]
      <3> HIDE DEF n
      <3>1. Len(a) + Len(b) = n - 1
        BY <2>1, <2>3, <2>4, <1>1
      <3>2. /\ a \o b \in Seq(Supernode) /\ Len(a \o b) = n - 1
            /\ \A i \in 1..(n - 1) : (a \o b)[i] = IF i <= p - 1 THEN a[i] ELSE b[i - (p - 1)]
        <4>1. a \in Seq(Supernode) /\ b \in Seq(Supernode) /\ Len(a) = p - 1
          BY <2>3, <2>4
        <4>2. /\ a \o b \in Seq(Supernode) /\ Len(a \o b) = Len(a) + Len(b)
              /\ \A i \in 1..(Len(a) + Len(b)) :
                     (a \o b)[i] = IF i <= Len(a) THEN a[i] ELSE b[i - Len(a)]
          BY Zenon, <4>1, ConcatProperties
        <4> QED BY <4>1, <4>2, <3>1
      <3>3. ASSUME NEW i \in 1..(n - 1), ~(i < p)
            PROVE  i - (p - 1) \in 1..(n - p) /\ p + (i - (p - 1)) = i + 1 /\ ~(i <= p - 1)
        BY <3>3, <2>1, <1>1
      <3>4. ASSUME NEW i \in 1..(n - 1), i < p
            PROVE  i \in 1..(p - 1) /\ i <= p - 1
        BY <3>4, <2>1, <1>1
      <3>5. ASSUME NEW i \in 1..(n - 1), i < p PROVE (a \o b)[i] = l[i]
        BY Zenon, <3>2, <3>4, <3>5, <2>3
      <3>6. ASSUME NEW i \in 1..(n - 1), ~(i < p) PROVE (a \o b)[i] = l[i + 1]
        BY Zenon, <3>2, <3>3, <3>6, <2>4
      <3> QED BY Zenon, <3>2, <3>5, <3>6
    <2> DEFINE ab == a \o b
    <2> HIDE DEF n, ab
    <2>6. q \in Seq(Supernode) /\ q # <<>> /\ Len(q) = (n - 1) + 1
      <3>1. ab \in Seq(Supernode) /\ Len(ab) = n - 1 /\ q = Append(ab, s)
        BY <2>5 DEF ab
      <3> HIDE DEF q
      <3>2. q \in Seq(Supernode) /\ q # <<>> /\ Len(q) = Len(ab) + 1
        BY ZenonT(40), <3>1, AppendProperties
      <3> QED BY Zenon, <3>1, <3>2
    <2>7. (\A i \in 1..(n - 1) : q[i] = (a \o b)[i]) /\ q[(n - 1) + 1] = s
      <3>1. ab \in Seq(Supernode) /\ Len(ab) = n - 1 /\ q = Append(ab, s)
        BY <2>5 DEF ab
      <3> HIDE DEF q
      <3>2. (\A i \in 1..Len(ab) : q[i] = ab[i]) /\ q[Len(ab) + 1] = s
        BY <3>1, AppendProperties
      <3> QED BY <3>1, <3>2 DEF ab
    <2>8. DOMAIN q = 1..n
      BY <2>6, <1>1, LenProperties
    <2> HIDE DEF q
    <2>9. q[n] = s /\ \A i \in 1..(n - 1) : q[i] = IF i < p THEN l[i] ELSE l[i + 1]
      <3>1. (n - 1) + 1 = n
        BY <1>1
      <3> QED BY Zenon, <3>1, <2>5, <2>7
    <2>10. ToSet(q) = ToSet(l) \cup {s}
      <3>1. ASSUME NEW i \in 1..n
            PROVE  q[i] \in ToSet(l)
        <4>1. i = n \/ (i \in 1..(n - 1) /\ i < p) \/ (i \in 1..(n - 1) /\ ~(i < p) /\ i + 1 \in 1..n)
          BY <1>1
        <4>2. CASE i = n
          BY <4>2, <2>1, <2>9, <1>1 DEF ToSet
        <4>3. CASE i \in 1..(n - 1) /\ i < p
          <5>1. q[i] = l[i]
            BY Zenon, <4>3, <2>9
          <5> QED BY <5>1, <1>1 DEF ToSet
        <4>4. CASE i \in 1..(n - 1) /\ ~(i < p) /\ i + 1 \in 1..n
          <5>1. q[i] = l[i + 1]
            BY Zenon, <4>4, <2>9
          <5> QED BY <5>1, <4>4, <1>1 DEF ToSet
        <4> QED BY Zenon, <4>1, <4>2, <4>3, <4>4
      <3>2. ASSUME NEW i \in 1..n
            PROVE  \E j \in 1..n : q[j] = l[i]
        <4>1. CASE i < p  BY <4>1, <2>1, <2>9, <1>1
        <4>2. CASE i = p  BY <4>2, <2>1, <2>9, <1>1
        <4>3. CASE i > p
          <5>1. i - 1 \in 1..(n - 1) /\ ~(i - 1 < p) /\ (i - 1) + 1 = i /\ i - 1 \in 1..n
            BY <4>3, <2>1, <1>1
          <5> QED BY <5>1, <2>9
        <4> QED BY <4>1, <4>2, <4>3, <2>1, <1>1
      <3> QED BY ZenonT(40), <3>1, <3>2, <2>8, <1>1, <1>4 DEF ToSet
    <2>11. IsInjective(q)
      <3> DEFINE At(i) == IF i = n THEN p ELSE IF i < p THEN i ELSE i + 1
      <3>1. ASSUME NEW i \in 1..n
            PROVE  At(i) \in 1..n /\ q[i] = l[At(i)]
        <4>1. At(i) \in 1..n /\ (i = n \/ i \in 1..(n - 1))
          BY <2>1, <1>1
        <4>2. CASE i = n
          BY Zenon, <4>1, <4>2, <2>1, <2>9
        <4>3. CASE i \in 1..(n - 1)
          <5>1. i # n
            BY <4>3, <1>1
          <5> QED BY Zenon, <5>1, <4>1, <4>3, <2>9
        <4> QED BY Zenon, <4>1, <4>2, <4>3
      <3>2. ASSUME NEW i \in 1..n, NEW j \in 1..n, At(i) = At(j)
            PROVE  i = j
        BY <3>2, <2>1, <1>1
      <3> HIDE DEF At
      <3>3. ASSUME NEW i \in 1..n, NEW j \in 1..n, q[i] = q[j]
            PROVE  i = j
        <4>1. l[At(i)] = l[At(j)] /\ At(i) \in 1..n /\ At(j) \in 1..n
          BY Zenon, <3>1, <3>3
        <4>2. At(i) = At(j)
          BY Zenon, <4>1, <1>2
        <4> QED BY Zenon, <4>2, <3>2
      <3> QED BY Zenon, <3>3, <2>8 DEF IsInjective
    <2> QED BY <2>2, <2>6, <2>10, <2>11, <1>4
  <1> QED BY <1>3, <1>4

----------------------------------------------------------------------------
\* What an answer is matched with is new: a request under way has a cookie no
\* ACK was accepted with, and so has the entry of curr_sn while the edge waits.
CookieNew ==
    /\ ~active => cookie = 0
    /\ active => cookie # 0 /\ cookie # accepted
    /\ sn_wait => last_cookie[curr_sn] # accepted \/ last_cookie[curr_sn] = 0
    /\ \A m \in net : m.type # "pong" => m.cookie # 0

IInv == TypeOK /\ IsFiniteSet(net) /\ CookieOfCurrent /\ CookieNew

\* The criteria are numbers, so the list can be sorted by them.
LEMMA Criteria ==
  /\ Bad \in Nat /\ Good \in Nat /\ Default \in Nat
  /\ [Supernode -> Measured \cup {Good, Default, Bad}] \subseteq [Supernode -> Nat]
  BY EdgeRegisterAssumption DEF Bad, Good, Default, Measured

\* A list has finitely many entries, and its head is one of them.
LEMMA Entries ==
  ASSUME NEW l \in Seq(Supernode), l # <<>>
  PROVE  IsFiniteSet(ToSet(l)) /\ Head(l) \in ToSet(l) /\ ToSet(l) \subseteq Supernode
  <1>1. Len(l) \in Nat /\ DOMAIN l = 1..Len(l) /\ l \in [1..Len(l) -> Supernode]
    BY LenProperties
  <1>2. Len(l) # 0
    BY EmptySeq
  <1>3. l \in Surjection(1..Len(l), ToSet(l))
    BY <1>1 DEF Surjection, ToSet
  <1>4. IsFiniteSet(1..Len(l))
    BY <1>1, FS_Interval
  <1>5. Head(l) = l[1]
    BY <1>1
  <1> QED BY <1>1, <1>2, <1>3, <1>4, <1>5, FS_Surjection DEF ToSet

\* There is always a cookie that n2n_rand can be taken to return: one that is
\* not in any message under way and not the one of an earlier request.
LEMMA FreshCookie ==
  ASSUME TypeOK, IsFiniteSet(net), Cardinality(net) < MaxInFlight
  PROVE  Fresh \in Cookie /\ Fresh # cookie /\ Fresh # accepted
  <1> DEFINE C == {m.cookie : m \in net}
             f == [m \in net |-> m.cookie]
             C1 == C \cup {last_cookie[curr_sn]}
             C2 == C1 \cup {cookie}
             C3 == C2 \cup {accepted}
  <1>1. f \in Surjection(net, C)
    BY DEF Surjection
  <1>2. IsFiniteSet(C) /\ Cardinality(C) <= Cardinality(net)
    <2> HIDE DEF f, C
    <2> QED BY <1>1, FS_Surjection
  <1>3. Cardinality(net) \in Nat
    BY FS_CardinalityType
  <1> HIDE DEF C
  <1>4. Cardinality(C) \in Nat
    BY <1>2, FS_CardinalityType
  <1>5. IsFiniteSet(C1) /\ Cardinality(C1) \in Nat /\ Cardinality(C1) <= Cardinality(C) + 1
    BY <1>2, <1>4, FS_AddElement
  <1> HIDE DEF C1
  <1>6. IsFiniteSet(C2) /\ Cardinality(C2) \in Nat /\ Cardinality(C2) <= Cardinality(C1) + 1
    <2>1. /\ IsFiniteSet(C2)
          /\ Cardinality(C2) = IF cookie \in C1 THEN Cardinality(C1) ELSE Cardinality(C1) + 1
      BY <1>5, FS_AddElement
    <2> QED BY <2>1, <1>5
  <1> HIDE DEF C2
  <1>7. IsFiniteSet(C3) /\ Cardinality(C3) \in Nat /\ Cardinality(C3) <= Cardinality(C2) + 1
    <2>1. /\ IsFiniteSet(C3)
          /\ Cardinality(C3) = IF accepted \in C2 THEN Cardinality(C2) ELSE Cardinality(C2) + 1
      BY <1>6, FS_AddElement
    <2> QED BY <2>1, <1>6
  <1> HIDE DEF C3
  <1>8. Cardinality(Cookie) = MaxInFlight + 4
    BY FS_Interval, EdgeRegisterAssumption DEF Cookie
  <1>9. Cardinality(C3) < MaxInFlight + 4
    BY <1>2, <1>3, <1>4, <1>5, <1>6, <1>7, EdgeRegisterAssumption
  <1>10. ~(Cookie \subseteq C3)
    BY <1>7, <1>8, <1>9, FS_Subset, EdgeRegisterAssumption
  <1>11. C3 = {m.cookie : m \in net} \cup {last_cookie[curr_sn], cookie, accepted}
    BY DEF C3, C2, C1, C
  <1>12. \E x \in Cookie : x \notin C3
    BY <1>10
  <1>13. Fresh = CHOOSE x \in Cookie : x \notin C3
    BY <1>11 DEF Fresh
  <1>14. Fresh \in Cookie /\ Fresh \notin C3
    BY <1>12, <1>13
  <1> QED BY <1>14, <1>11

\* What send_register_super leaves: a request under way, whose cookie is new
\* and recorded with the entry of the supernode it went to.
LEMMA Sent ==
  ASSUME IInv, Cardinality(net) < MaxInFlight,
         NEW s \in Supernode, NEW msgs, msgs \subseteq Message, IsFiniteSet(msgs),
         \A m \in msgs : m.type = "pong",
         send_register_super(s, msgs)
  PROVE  /\ active' = TRUE /\ cookie' \in Cookie /\ cookie' # 0 /\ cookie' # accepted
         /\ last_cookie' \in [Supernode -> Cookie] /\ last_cookie'[s] = cookie'
         /\ net' \subseteq Message /\ IsFiniteSet(net')
         /\ \A m \in net' : m.type # "pong" => m.cookie # 0
  <1> DEFINE reg == [type |-> "reg", sn |-> s, cookie |-> cookie']
  <1>1. active' = TRUE /\ cookie' = RequestCookie
    BY DEF send_register_super
  <1>2. cookie' \in Cookie /\ cookie' # 0 /\ cookie' # accepted
    <2>1. CASE active
      BY <1>1, <2>1 DEF RequestCookie, IInv, TypeOK, CookieNew
    <2>2. CASE ~active
      BY <1>1, <2>2, FreshCookie DEF RequestCookie, IInv, CookieNew
    <2> QED BY <2>1, <2>2
  <1>3. last_cookie' = [last_cookie EXCEPT ![s] = cookie']
    BY DEF send_register_super
  <1>4. last_cookie' \in [Supernode -> Cookie] /\ last_cookie'[s] = cookie'
    BY <1>2, <1>3 DEF IInv, TypeOK
  <1>5. net' = (net \cup {reg}) \cup msgs
    BY DEF send_register_super
  <1>6. reg \in Message
    BY <1>2 DEF Message
  <1>7. net' \subseteq Message
    BY <1>5, <1>6 DEF IInv, TypeOK
  <1>8. reg.cookie # 0
    BY <1>2
  <1> HIDE DEF reg
  <1>9. IsFiniteSet(net')
    <2>1. IsFiniteSet(net \cup {reg})
      BY FS_AddElement DEF IInv
    <2> QED BY Zenon, <2>1, <1>5, FS_Union
  <1>10. \A m \in net' : m.type # "pong" => m.cookie # 0
    BY <1>5, <1>8 DEF IInv, CookieNew
  <1> QED BY <1>1, <1>2, <1>4, <1>7, <1>9, <1>10

----------------------------------------------------------------------------
\* The initial states satisfy the invariant.
LEMMA InitOK == Init => IInv
  <1> SUFFICES ASSUME Init PROVE IInv
    OBVIOUS
  <1>1. list \in Seq(Supernode) /\ list # <<>> /\ IsInjective(list)
    BY EdgeRegisterAssumption DEF Init
  <1>2. curr_sn \in ToSet(list)
    BY <1>1, Entries DEF Init
  <1>3. TypeOK
    <2>1. mac \in [Supernode -> Supernode \cup {NoMac}]
      BY DEF Init
    <2>2. crit \in [Supernode -> Measured \cup {Good, Default, Bad}]
      BY DEF Init
    <2>3. 0 \in Cookie /\ Attempts \in 0..Attempts /\ Ups \subseteq SUBSET Supernode
      BY EdgeRegisterAssumption DEF Cookie
    <2>4. last_cookie \in [Supernode -> Cookie]
      BY <2>3 DEF Init
    <2> QED BY Zenon, <1>1, <1>2, <2>1, <2>2, <2>3, <2>4 DEF Init, TypeOK
  <1>4. IsFiniteSet(net)
    BY FS_EmptySet DEF Init
  <1>5. last_cookie[curr_sn] = 0
    BY <1>1, <1>2, Entries DEF Init
  <1> QED BY <1>3, <1>4, <1>5 DEF Init, IInv, CookieOfCurrent, CookieNew

\* update_supernode_reg sends a REGISTER_SUPER to curr_sn.
LEMMA RegisterOK == IInv /\ Register => IInv'
  <1> SUFFICES ASSUME IInv, Register PROVE IInv'
    OBVIOUS
  <1>1. curr_sn \in Supernode
    BY Entries DEF IInv, TypeOK
  <1>2. /\ active' = TRUE /\ cookie' \in Cookie /\ cookie' # 0 /\ cookie' # accepted
        /\ last_cookie' \in [Supernode -> Cookie] /\ last_cookie'[curr_sn] = cookie'
        /\ net' \subseteq Message /\ IsFiniteSet(net')
        /\ \A m \in net' : m.type # "pong" => m.cookie # 0
    BY Zenon, <1>1, Sent, FS_EmptySet DEF Register
  <1>3. sup_attempts' \in 0..Attempts
    BY EdgeRegisterAssumption DEF Register, IInv, TypeOK
  <1>4. TypeOK'
    BY <1>2, <1>3 DEF Register, IInv, TypeOK
  <1> QED BY <1>2, <1>4 DEF Register, IInv, CookieOfCurrent, CookieNew

\* update_supernode_reg puts the registration off.
LEMMA DeferOK == IInv /\ Defer => IInv'
  <1> SUFFICES ASSUME IInv, Defer PROVE IInv'
    OBVIOUS
  <1>1. TypeOK'
    <2>1. sn_wait' \in BOOLEAN
      BY Zenon, Zenon DEF Defer
    <2>2. sup_attempts' \in 0..Attempts
      BY EdgeRegisterAssumption DEF Defer
    <2> QED BY <2>1, <2>2 DEF Defer, entries, IInv, TypeOK
  <1> QED BY <1>1 DEF Defer, entries, IInv, CookieOfCurrent, CookieNew

\* update_supernode_reg goes to the next supernode: curr_sn changes, and the
\* cookie of the request under way is recorded with the new entry.
LEMMA GiveUpOK == IInv /\ GiveUp => IInv'
  <1> SUFFICES ASSUME IInv, GiveUp PROVE IInv'
    OBVIOUS
  <1>1. crit' \in [Supernode -> Measured \cup {Good, Default, Bad}]
    BY Zenon, Zenon DEF GiveUp, IInv, TypeOK
  <1>2. crit' \in [Supernode -> Nat]
    BY <1>1, Criteria
  <1>3. list' = sn_selection_sort(list, crit')
    BY DEF GiveUp
  <1>4. /\ list' \in Seq(Supernode) /\ DOMAIN list' = DOMAIN list
        /\ ToSet(list') = ToSet(list) /\ IsInjective(list')
    BY <1>2, <1>3, Sorted DEF IInv, TypeOK
  <1>5. list' # <<>>
    BY <1>4, Entries DEF IInv, TypeOK, ToSet
  <1>6. curr_sn' \in ToSet(list') /\ curr_sn' \in Supernode
    BY <1>4, <1>5, Entries DEF GiveUp
  <1>7. /\ active' = TRUE /\ cookie' \in Cookie /\ cookie' # 0 /\ cookie' # accepted
        /\ last_cookie' \in [Supernode -> Cookie] /\ last_cookie'[curr_sn'] = cookie'
        /\ net' \subseteq Message /\ IsFiniteSet(net')
        /\ \A m \in net' : m.type # "pong" => m.cookie # 0
    BY Zenon, <1>6, Sent, FS_EmptySet DEF GiveUp
  <1>8. sup_attempts' \in 0..Attempts /\ sn_wait' \in BOOLEAN
    BY EdgeRegisterAssumption DEF GiveUp
  <1>9. TypeOK'
    BY <1>1, <1>4, <1>5, <1>6, <1>7, <1>8 DEF GiveUp, IInv, TypeOK
  <1> QED BY <1>7, <1>9 DEF GiveUp, IInv, CookieOfCurrent, CookieNew

\* sort_supernodes goes to the best supernode, or stays with it.
LEMMA SweepOK == IInv /\ Sweep => IInv'
  <1> SUFFICES ASSUME IInv, Sweep PROVE IInv'
    OBVIOUS
  <1> DEFINE best == Head(list')
             pongs == {[type |-> "pong", sn |-> s, cookie |-> 0] : s \in up \cap ToSet(list)}
             f == [s \in up \cap ToSet(list) |-> [type |-> "pong", sn |-> s, cookie |-> 0]]
  <1>1. crit \in [Supernode -> Nat]
    BY Zenon, Criteria DEF IInv, TypeOK
  <1>2. list' = IF sn_wait THEN list ELSE sn_selection_sort(list, crit)
    BY DEF Sweep
  <1>3. /\ list' \in Seq(Supernode) /\ DOMAIN list' = DOMAIN list
        /\ ToSet(list') = ToSet(list) /\ IsInjective(list')
    BY <1>1, <1>2, Sorted DEF IInv, TypeOK
  <1>4. list' # <<>>
    BY <1>3, Entries DEF IInv, TypeOK, ToSet
  <1>5. best \in ToSet(list') /\ best \in Supernode
    BY <1>3, <1>4, Entries
  <1>6. /\ curr_sn' = best
        /\ crit' = [s \in Supernode |-> IF s = best THEN Good ELSE Default]
        /\ Cardinality(net) < MaxInFlight
        /\ UNCHANGED <<mac, recent, accepted, up>>
    BY <1>2 DEF Sweep
  <1>7. \/ /\ best # curr_sn /\ sup_attempts' = Attempts /\ sn_wait' = TRUE
           /\ send_register_super(best, pongs)
        \/ /\ best = curr_sn /\ net' = net \cup pongs
           /\ UNCHANGED <<sup_attempts, sn_wait, active, cookie, last_cookie>>
    BY <1>2 DEF Sweep
  <1>8. pongs \subseteq Message /\ \A m \in pongs : m.type = "pong"
    BY Entries, EdgeRegisterAssumption DEF Message, IInv, TypeOK, Cookie
  <1>9. IsFiniteSet(pongs)
    <2>1. IsFiniteSet(ToSet(list))
      BY Entries DEF IInv, TypeOK
    <2>2. IsFiniteSet(up \cap ToSet(list))
      BY <2>1, FS_Subset
    <2>3. f \in Surjection(up \cap ToSet(list), pongs)
      BY DEF Surjection
    <2> HIDE DEF f, pongs
    <2> QED BY <2>2, <2>3, FS_Surjection
  <1>10. crit' \in [Supernode -> Measured \cup {Good, Default, Bad}]
    BY <1>6
  <1> HIDE DEF best, pongs
  <1>11. CASE /\ best # curr_sn /\ sup_attempts' = Attempts /\ sn_wait' = TRUE
              /\ send_register_super(best, pongs)
    <2>1. /\ active' = TRUE /\ cookie' \in Cookie /\ cookie' # 0 /\ cookie' # accepted
          /\ last_cookie' \in [Supernode -> Cookie] /\ last_cookie'[best] = cookie'
          /\ net' \subseteq Message /\ IsFiniteSet(net')
          /\ \A m \in net' : m.type # "pong" => m.cookie # 0
      BY Zenon, <1>5, <1>6, <1>8, <1>9, <1>11, Sent
    <2>2. TypeOK'
      BY <2>1, <1>3, <1>4, <1>5, <1>6, <1>10, <1>11, EdgeRegisterAssumption DEF IInv, TypeOK
    <2> QED BY <2>1, <2>2, <1>6, <1>11 DEF IInv, CookieOfCurrent, CookieNew
  <1>12. CASE /\ best = curr_sn /\ net' = net \cup pongs
              /\ UNCHANGED <<sup_attempts, sn_wait, active, cookie, last_cookie>>
    <2>1. TypeOK'
      BY <1>3, <1>4, <1>5, <1>6, <1>8, <1>10, <1>12 DEF IInv, TypeOK
    <2>2. IsFiniteSet(net')
      BY Zenon, <1>9, <1>12, FS_Union DEF IInv
    <2> QED BY <2>1, <2>2, <1>6, <1>8, <1>12 DEF IInv, CookieOfCurrent, CookieNew
  <1> QED BY Zenon, <1>7, <1>11, <1>12

\* A supernode answers a REGISTER_SUPER with its cookie.
LEMMA AnswersOK == ASSUME IInv, NEW msg \in net, SupernodeAnswers(msg) PROVE IInv'
  <1> PICK answer \in {"ack", "nak"} : net' = (net \ {msg}) \cup {[msg EXCEPT !.type = answer]}
    BY DEF SupernodeAnswers
  <1>1. msg \in Message /\ msg.type = "reg" /\ msg.cookie # 0
    BY DEF SupernodeAnswers, IInv, TypeOK, CookieNew
  <1> DEFINE reply == [msg EXCEPT !.type = answer]
  <1>2. reply \in Message /\ reply.cookie # 0
    BY <1>1 DEF Message
  <1> HIDE DEF reply
  <1>3. net' = (net \ {msg}) \cup {reply}
    BY DEF reply
  <1>4. IsFiniteSet(net')
    <2>1. IsFiniteSet(net \ {msg})
      BY FS_RemoveElement DEF IInv
    <2> QED BY <2>1, <1>3, FS_AddElement
  <1>5. UNCHANGED <<list, mac, crit, last_cookie, curr_sn, sn_wait, sup_attempts,
                    active, cookie, recent, accepted, up>>
    BY DEF SupernodeAnswers, entries, request
  <1>6. TypeOK'
    BY <1>2, <1>3, <1>5 DEF IInv, TypeOK
  <1> QED BY <1>2, <1>3, <1>4, <1>5, <1>6 DEF IInv, CookieOfCurrent, CookieNew

\* The messages that are left after one was received or lost.
LEMMA Consumed ==
  ASSUME IInv, NEW msg \in net, net' \in Rest(msg)
  PROVE  net' \subseteq net /\ IsFiniteSet(net')
  BY FS_RemoveElement DEF Rest, IInv

\* A REGISTER_SUPER_ACK: the list keeps curr_sn, and the accepted cookie is the
\* one of no request that may still be answered.
LEMMA RxAckOK == ASSUME IInv, NEW msg \in net, RxAck(msg) PROVE IInv'
  <1>1. net' \subseteq net /\ IsFiniteSet(net')
    BY Consumed DEF RxAck
  <1>2. msg \in Message /\ msg.type = "ack" /\ up' = up
    BY DEF RxAck, IInv, TypeOK
  <1>3. CASE sn_wait /\ msg.cookie = last_cookie[curr_sn]
    <2> DEFINE learns == mac[curr_sn] = NoMac
               l == IF learns THEN ToEnd(list, curr_sn) ELSE list
               k == IF learns THEN [mac EXCEPT ![curr_sn] = msg.sn] ELSE mac
    <2>1. /\ sn_wait' = FALSE /\ active' = FALSE /\ cookie' = 0 /\ sup_attempts' = Attempts
          /\ recent' = TRUE /\ accepted' = msg.cookie
          /\ last_cookie' = last_cookie /\ curr_sn' = curr_sn
      BY <1>3 DEF RxAck, RequestReset
    <2>2. \/ list' = l /\ mac' = k /\ crit' = crit
          \/ \E s \in Supernode :
                 /\ list' = ToEnd(l, s)
                 /\ mac' = [k EXCEPT ![s] = s]
                 /\ crit' = IF s \in ToSet(l) THEN crit ELSE [crit EXCEPT ![s] = Default]
      BY <1>3 DEF RxAck
    <2>3. curr_sn \in Supernode
      BY Entries DEF IInv, TypeOK
    <2>4. /\ l \in Seq(Supernode) /\ l # <<>> /\ IsInjective(l) /\ curr_sn \in ToSet(l)
      BY Zenon, <2>3, MovedToEnd DEF IInv, TypeOK
    <2>5. k \in [Supernode -> Supernode \cup {NoMac}]
      BY Zenon, <1>2 DEF Message, IInv, TypeOK
    <2> HIDE DEF l, k
    <2>6. /\ list' \in Seq(Supernode) /\ list' # <<>> /\ IsInjective(list')
          /\ curr_sn \in ToSet(list')
          /\ mac' \in [Supernode -> Supernode \cup {NoMac}]
          /\ crit' \in [Supernode -> Measured \cup {Good, Default, Bad}]
      <3>1. CASE list' = l /\ mac' = k /\ crit' = crit
        BY <3>1, <2>4, <2>5 DEF IInv, TypeOK
      <3>2. ASSUME NEW s \in Supernode,
                   list' = ToEnd(l, s), mac' = [k EXCEPT ![s] = s],
                   crit' = IF s \in ToSet(l) THEN crit ELSE [crit EXCEPT ![s] = Default]
            PROVE  <2>6!1 /\ <2>6!2 /\ <2>6!3 /\ <2>6!4
        BY Zenon, <3>2, <2>4, <2>5, MovedToEnd DEF IInv, TypeOK
      <3> QED BY <3>1, <3>2, <2>2
    <2>7. TypeOK'
      <3>1. sn_wait' \in BOOLEAN /\ active' \in BOOLEAN /\ recent' \in BOOLEAN
        BY Zenon, <2>1
      <3>2. cookie' \in Cookie /\ sup_attempts' \in 0..Attempts
        BY <2>1, EdgeRegisterAssumption DEF Cookie
      <3>3. accepted' \in Cookie
        BY <2>1, <1>2 DEF Message
      <3> QED BY <3>1, <3>2, <3>3, <2>1, <2>6, <1>1, <1>2 DEF IInv, TypeOK
    <2> QED BY <2>1, <2>7, <1>1 DEF IInv, CookieOfCurrent, CookieNew
  <1>4. CASE ~(sn_wait /\ msg.cookie = last_cookie[curr_sn])
    <2>1. UNCHANGED <<list, mac, crit, last_cookie, curr_sn, sn_wait, sup_attempts,
                      active, cookie, recent, accepted, up>>
      BY <1>4 DEF RxAck, entries, request
    <2>2. TypeOK'
      BY <2>1, <1>1 DEF IInv, TypeOK
    <2> QED BY <2>1, <2>2, <1>1 DEF IInv, CookieOfCurrent, CookieNew
  <1> QED BY <1>3, <1>4

\* A REGISTER_SUPER_NAK closes the request; the edge goes on waiting.
LEMMA RxNakOK == ASSUME IInv, NEW msg \in net, RxNak(msg) PROVE IInv'
  <1>1. net' \subseteq net /\ IsFiniteSet(net')
    BY Consumed DEF RxNak
  <1>2. UNCHANGED <<list, mac, crit, last_cookie, curr_sn, sn_wait, sup_attempts,
                    recent, accepted, up>>
    BY DEF RxNak, entries
  <1>3. (active' = FALSE /\ cookie' = 0) \/ (active' = active /\ cookie' = cookie)
    BY Zenon, Zenon DEF RxNak, RequestReset
  <1>4. active' \in BOOLEAN
    BY Zenon, <1>3 DEF IInv, TypeOK
  <1>5. TypeOK'
    BY <1>1, <1>2, <1>3, <1>4, EdgeRegisterAssumption DEF IInv, TypeOK, Cookie
  <1> QED BY <1>1, <1>2, <1>3, <1>5 DEF IInv, CookieOfCurrent, CookieNew

\* A PONG may give an entry its MAC or add one, at the end.
LEMMA RxPongOK == ASSUME IInv, NEW msg \in net, RxPong(msg) PROVE IInv'
  <1> DEFINE known == WithMac(list, mac, msg.sn)
  <1>1. net' \subseteq net /\ IsFiniteSet(net')
    BY FS_RemoveElement DEF RxPong, IInv
  <1>2. UNCHANGED <<last_cookie, curr_sn, sn_wait, sup_attempts, active, cookie, accepted, up>>
        /\ recent' = TRUE
    BY DEF RxPong, request
  <1>3. msg.sn \in Supernode
    BY DEF IInv, TypeOK, Message
  <1>4. /\ list' = IF known # {} THEN list ELSE ToEnd(list, msg.sn)
        /\ mac' = IF known # {} THEN mac ELSE [mac EXCEPT ![msg.sn] = msg.sn]
        /\ \E s \in IF known # {} THEN known ELSE {msg.sn}, c \in Measured :
               crit' = [crit EXCEPT ![s] = c]
    BY Zenon, Zenon DEF RxPong
  <1>5. crit' \in [Supernode -> Measured \cup {Good, Default, Bad}]
    BY Zenon, <1>4 DEF IInv, TypeOK
  <1> HIDE DEF known
  <1>6. /\ list' \in Seq(Supernode) /\ list' # <<>> /\ IsInjective(list')
        /\ curr_sn \in ToSet(list')
    BY ZenonT(40), <1>3, <1>4, MovedToEnd DEF IInv, TypeOK
  <1>7. mac' \in [Supernode -> Supernode \cup {NoMac}]
    BY <1>3, <1>4 DEF IInv, TypeOK
  <1>8. TypeOK'
    BY <1>1, <1>2, <1>5, <1>6, <1>7 DEF IInv, TypeOK
  <1> QED BY <1>1, <1>2, <1>8 DEF IInv, CookieOfCurrent, CookieNew

\* Time passes, a message is lost, or nothing changes.
LEMMA QuietOK ==
  ASSUME IInv, Silence \/ (\E msg \in net : Lose(msg)) \/ UNCHANGED vars
  PROVE  IInv'
  <1>1. UNCHANGED <<list, mac, crit, last_cookie, curr_sn, sn_wait, sup_attempts,
                    active, cookie, accepted, up>>
    BY DEF Silence, Lose, vars, entries, request
  <1>2. recent' \in BOOLEAN
    BY Zenon, Zenon DEF Silence, Lose, vars, IInv, TypeOK
  <1>3. net' \subseteq net /\ IsFiniteSet(net')
    BY FS_RemoveElement DEF Silence, Lose, vars, IInv
  <1>4. TypeOK'
    BY <1>1, <1>2, <1>3 DEF IInv, TypeOK
  <1> QED BY <1>1, <1>3, <1>4 DEF IInv, CookieOfCurrent, CookieNew

----------------------------------------------------------------------------
\* The invariant holds in every reachable state.
THEOREM Invariant == Spec => []IInv
  <1>1. IInv /\ [Next]_vars => IInv'
    BY RegisterOK, DeferOK, GiveUpOK, SweepOK, AnswersOK, RxAckOK, RxNakOK, RxPongOK, QuietOK
       DEF Next, Rx
  <1> QED BY InitOK, <1>1, PTL DEF Spec

\* The two facts RxAck compares, sn_wait and last_cookie, admit no cookie twice.
LEMMA AcceptedOnce == IInv => AcceptedOnceStep
  <1> SUFFICES ASSUME IInv, NEW msg \in net, RxAck(msg), sn_wait, ~sn_wait'
               PROVE  msg.cookie # accepted
    BY DEF AcceptedOnceStep
  <1>1. msg.cookie = last_cookie[curr_sn]
    BY Zenon, Zenon DEF RxAck, request
  <1>2. msg.cookie # 0
    BY DEF RxAck, IInv, CookieNew
  <1> QED BY <1>1, <1>2 DEF IInv, CookieNew

\* An edge takes the answer to the request it has under way and every answer
\* once, whatever it does in between (give up, sort its supernodes, learn of
\* new ones) and whatever the network does to the messages.
THEOREM AnswersCorrect == Spec => AnswersMatched
  <1>1. IInv => TypeOK /\ CookieOfCurrent
    BY DEF IInv
  <1>2. IInv => [AcceptedOnceStep]_vars
    BY AcceptedOnce
  <1> QED BY <1>1, <1>2, Invariant, PTL DEF AnswersMatched

=============================================================================
