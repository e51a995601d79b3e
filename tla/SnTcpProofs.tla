---------------------------- MODULE SnTcpProofs -----------------------------
(***************************************************************************)
(* Proofs about SnTcp: however reads, closings, acceptances and purges     *)
(* follow each other, descriptors, connections and edges stay together,    *)
(* and a connection collects one packet after the other; for any number of *)
(* edges, descriptors and packets.                                         *)
(***************************************************************************)
EXTENDS SnTcp, SequenceTheorems, FiniteSetTheorems, WellFoundedInduction, TLAPS

----------------------------------------------------------------------------
(* Facts about numbers and sequences.                                      *)

\* Among numbers there is a least one.
LEMMA Least ==
  ASSUME NEW S \in SUBSET Nat, S # {}
  PROVE  \E x \in S : \A y \in S : x <= y
  <1> DEFINE R == OpToRel(<, Nat)
  <1>1. PICK x \in S : \A y \in S : ~(<<y, x>> \in R)
    BY Zenon, NatLessThanWellFounded, WFMin
  <1>2. \A y \in S : ~(y < x)
    BY Zenon, <1>1 DEF OpToRel
  <1> QED BY <1>2

\* A list q of the elements of cs at the positions in K, each once; pos has
\* for each of its places the position in cs.
Sifted(q, cs, K, pos) ==
    /\ pos \in [DOMAIN q -> K]
    /\ \A r \in DOMAIN q : q[r] = cs[pos[r]]
    /\ \A r, t \in DOMAIN q : pos[r] = pos[t] => r = t
    /\ \A i \in K : \E r \in DOMAIN q : pos[r] = i

\* Deleting from a list (Only) keeps the others, each once.
LEMMA Others ==
  ASSUME NEW S, NEW cs \in Seq(S), NEW K \in SUBSET DOMAIN cs
  PROVE  /\ Only(cs, K) \in Seq(S)
         /\ \E pos : Sifted(Only(cs, K), cs, K, pos)
  <1> DEFINE n == Cardinality(K)
             Upto(i) == {j \in K : j <= i}
             rank == [i \in K |-> Cardinality(Upto(i))]
             pos == [r \in 1..n |-> CHOOSE i \in K : Cardinality({j \in K : j <= i}) = r]
             q == Only(cs, K)
  <1>1. Len(cs) \in Nat /\ DOMAIN cs = 1..Len(cs) /\ \A i \in 1..Len(cs) : cs[i] \in S
    BY LenProperties
  <1>2. K \in SUBSET (1..Len(cs)) /\ K \in SUBSET Nat
    BY <1>1
  <1>3. IsFiniteSet(K) /\ n \in Nat
    <2>1. IsFiniteSet(1..Len(cs))
      BY <1>1, FS_Interval
    <2> QED BY <2>1, <1>2, FS_Subset, FS_CardinalityType
  <1> HIDE DEF n
  <1>4. ASSUME NEW i \in K
        PROVE  rank[i] \in 1..n
    <2>1. Upto(i) \in SUBSET K /\ i \in Upto(i)
      BY <1>2
    <2> HIDE DEF Upto
    <2>2. IsFiniteSet(Upto(i)) /\ Cardinality(Upto(i)) <= n
      BY <2>1, <1>3, FS_Subset DEF n
    <2>3. Cardinality(Upto(i)) \in Nat /\ Cardinality(Upto(i)) # 0
      BY <2>1, <2>2, FS_CardinalityType, FS_EmptySet
    <2> QED BY <2>2, <2>3, <1>3
  <1>5. ASSUME NEW i \in K, NEW j \in K, i < j
        PROVE  rank[i] # rank[j]
    <2>1. Upto(i) \in SUBSET Upto(j) /\ j \in Upto(j) /\ j \notin Upto(i)
      BY <1>2, <1>5
    <2>2. Upto(j) \in SUBSET K
      OBVIOUS
    <2> HIDE DEF Upto
    <2>3. IsFiniteSet(Upto(j))
      BY <2>2, <1>3, FS_Subset
    <2>4. Cardinality(Upto(j)) # Cardinality(Upto(i))
      BY <2>1, <2>3, FS_Subset
    <2> QED BY <2>4
  <1>6. ASSUME NEW i \in K, NEW j \in K, rank[i] = rank[j]
        PROVE  i = j
    <2>1. i \in Nat /\ j \in Nat
      BY <1>2
    <2> HIDE DEF rank
    <2>2. ~(i < j) /\ ~(j < i)
      BY Zenon, <1>5, <1>6
    <2> QED BY <2>1, <2>2
  <1>7. \A r \in 1..n : \E i \in K : Cardinality(Upto(i)) = r
    <2>1. rank \in [K -> 1..n]
      BY <1>4
    <2> HIDE DEF rank
    <2>2. rank \in Injection(K, 1..n)
      BY <2>1, <1>6 DEF Injection, IsInjective
    <2>3. IsFiniteSet(1..n) /\ Cardinality(1..n) = n
      BY <1>3, FS_Interval
    <2>4. rank \in Surjection(K, 1..n)
      BY <2>2, <2>3, FS_Injection DEF n
    <2>5. \A r \in 1..n : \E i \in K : rank[i] = r
      BY <2>4 DEF Surjection
    <2> QED BY Zenon, <2>5 DEF rank
  <1>8. \A r \in 1..n : pos[r] \in K /\ rank[pos[r]] = r
    <2> SUFFICES ASSUME NEW r \in 1..n PROVE pos[r] \in K /\ rank[pos[r]] = r
      BY Zenon
    <2>1. \E i \in K : Cardinality({j \in K : j <= i}) = r
      BY Zenon, <1>7
    <2>2. pos[r] = CHOOSE i \in K : Cardinality({j \in K : j <= i}) = r
      BY Zenon
    <2>3. pos[r] \in K /\ Cardinality({j \in K : j <= pos[r]}) = r
      BY Zenon, <2>1, <2>2
    <2> QED BY <2>3
  <1>9. DOMAIN q = 1..n /\ q = [r \in 1..n |-> q[r]] /\ \A r \in 1..n : q[r] = cs[pos[r]]
    BY DEF Only, n
  <1> HIDE DEF rank
  <1>10. pos \in [1..n -> K]
    BY Zenon, <1>8
  <1> HIDE DEF pos, q
  <1>11. \A r, t \in 1..n : pos[r] = pos[t] => r = t
    BY <1>8
  <1>12. ASSUME NEW i \in K PROVE \E r \in 1..n : pos[r] = i
    <2>1. rank[i] \in 1..n /\ pos[rank[i]] \in K /\ rank[pos[rank[i]]] = rank[i]
      BY <1>4, <1>8
    <2> QED BY <2>1, <1>6
  <1>13. q \in Seq(S)
    <2>1. \A r \in 1..n : q[r] \in S
      BY <1>1, <1>2, <1>8, <1>9
    <2>2. q \in [1..n -> S]
      BY <2>1, <1>9
    <2> QED BY <2>2, <1>3, SeqDef
  <1>14. Sifted(q, cs, K, pos)
    BY Zenon, <1>9, <1>10, <1>11, <1>12 DEF Sifted
  <1> QED BY Zenon, <1>13, <1>14 DEF q

----------------------------------------------------------------------------
(* The stream of a connection: whole packets, one after the other, of      *)
(* which the connection has taken a part into its buffer.                  *)

\* A byte knows its packet and its place, and where the packet ends.
Byte == [of : Frames, at : Nat]
End(b) == Header + b.of.len

\* Whole packets: each byte is followed by the next of its packet, the last
\* one by the first of another.
Stream(s) ==
    /\ \A j \in 1..Len(s) : s[j].at \in 1..End(s[j])
    /\ s # <<>> => s[1].at = 1 /\ s[Len(s)].at = End(s[Len(s)])
    /\ \A j \in 1..(Len(s) - 1) :
           IF s[j].at < End(s[j]) THEN s[j + 1] = [of |-> s[j].of, at |-> s[j].at + 1]
                                  ELSE s[j + 1].at = 1

\* The fields of a byte of a stream.
LEMMA ByteType ==
  ASSUME SnTcpAssumption, NEW b \in Byte
  PROVE  /\ b.of \in Frames /\ b.of.len \in Nat /\ b.at \in Nat
         /\ End(b) \in Nat /\ End(b) >= Header
  BY DEF SnTcpAssumption, Byte, End, Header

\* What is in front and behind a place of a sequence.
LEMMA Cut ==
  ASSUME NEW b \in Seq(Byte), NEW s \in Seq(Byte), NEW n \in 1..Len(s)
  PROVE  /\ SubSeq(s, 1, n) \in Seq(Byte) /\ SubSeq(s, n + 1, Len(s)) \in Seq(Byte)
         /\ b \o SubSeq(s, 1, n) \in Seq(Byte) /\ Len(b \o SubSeq(s, 1, n)) = Len(b) + n
         /\ (b \o SubSeq(s, 1, n)) \o SubSeq(s, n + 1, Len(s)) = b \o s
  <1> DEFINE f == SubSeq(s, 1, n)
             r == SubSeq(s, n + 1, Len(s))
  <1>1. Len(s) \in Nat /\ \A i \in 1..Len(s) : s[i] \in Byte
    BY LenProperties
  <1>2. f \in Seq(Byte) /\ Len(f) = n
    BY <1>1, SubSeqProperties
  <1>3. r \in Seq(Byte)
    BY <1>1, SubSeqProperties
  <1>4. f \o r = SubSeq(s, 1, Len(s))
    BY <1>1, ConcatAdjacentSubSeq
  <1>5. f \o r = s
    BY <1>4, SubSeqFull
  <1> HIDE DEF f, r
  <1>6. (b \o f) \o r = b \o s
    <2>1. (b \o f) \o r = b \o (f \o r)
      BY SMTT(40), <1>2, <1>3, ConcatAssociative
    <2> QED BY <2>1, <1>5
  <1>7. b \o f \in Seq(Byte) /\ Len(b \o f) = Len(b) + n
    BY Zenon, <1>2, ConcatProperties
  <1> QED BY Zenon, <1>2, <1>3, <1>6, <1>7 DEF f, r

\* Streams are joined in any order.
LEMMA Associative ==
  ASSUME NEW p \in Seq(Byte), NEW q \in Seq(Byte), NEW r \in Seq(Byte)
  PROVE  (p \o q) \o r = p \o (q \o r)
  BY SMTT(40), ConcatAssociative

\* A packet that an edge sends is a stream.
LEMMA FrameIsStream ==
  ASSUME SnTcpAssumption, NEW f \in Frames
  PROVE  Bytes(f) \in Seq(Byte) /\ Bytes(f) # <<>> /\ Stream(Bytes(f))
  <1> DEFINE n == Header + f.len
             s == Bytes(f)
  <1>1. n \in Nat /\ n >= 2 /\ f.len \in Nat
    BY DEF SnTcpAssumption, Header
  <1>2. s = [i \in 1..n |-> [of |-> f, at |-> i]]
    BY DEF Bytes
  <1>3. \A i \in 1..n : s[i] = [of |-> f, at |-> i] /\ End(s[i]) = n
    BY <1>2 DEF End
  <1> HIDE DEF n
  <1>4. s \in [1..n -> Byte]
    BY <1>1, <1>2 DEF Byte
  <1>5. s \in Seq(Byte)
    BY <1>1, <1>4, SeqDef
  <1>6. Len(s) = n
    BY <1>1, <1>2, <1>5, LenProperties
  <1> HIDE DEF s
  <1>7. s # <<>>
    BY <1>1, <1>6
  <1>8. ASSUME NEW i \in 1..n PROVE s[i].at = i /\ s[i].of = f
    <2>1. s[i] = [of |-> f, at |-> i]
      BY Zenon, <1>3
    <2> QED BY <2>1
  <1>9. \A j \in 1..(n - 1) : s[j + 1] = [of |-> s[j].of, at |-> s[j].at + 1] /\ s[j].at < n
    BY <1>1, <1>3, <1>8
  <1>10. \A j \in 1..n : End(s[j]) = n
    BY Zenon, <1>3
  <1>11. s[1].at = 1 /\ s[n].at = End(s[n]) /\ \A j \in 1..n : s[j].at \in 1..End(s[j])
    <2>1. 1 \in 1..n /\ n \in 1..n /\ \A j \in 1..n : j \in 1..n
      BY <1>1
    <2> QED BY Zenon, <2>1, <1>8, <1>10
  <1>12. Stream(s)
    <2>1. \A j \in 1..(n - 1) : j \in 1..n
      BY <1>1
    <2> QED BY Zenon, <2>1, <1>6, <1>9, <1>10, <1>11 DEF Stream
  <1> QED BY <1>5, <1>7, <1>12 DEF s

\* One stream after another is a stream.
LEMMA Joined ==
  ASSUME SnTcpAssumption, NEW s \in Seq(Byte), NEW t \in Seq(Byte), Stream(s), Stream(t)
  PROVE  s \o t \in Seq(Byte) /\ Stream(s \o t)
  <1> DEFINE m == Len(s)
             n == Len(t)
             z == s \o t
  <1>1. m \in Nat /\ n \in Nat
    BY LenProperties
  <1>2. z \in Seq(Byte) /\ Len(z) = m + n
    BY ConcatProperties
  <1>3. \A j \in 1..m : z[j] = s[j]
    BY <1>1, ConcatProperties
  <1>4. \A j \in (m + 1)..(m + n) : z[j] = t[j - m]
    BY <1>1, ConcatProperties
  <1>5. CASE s = <<>>
    BY <1>5, ConcatEmptySeq
  <1>6. CASE t = <<>>
    BY <1>6, ConcatEmptySeq
  <1>7. CASE s # <<>> /\ t # <<>>
    <2>1. m >= 1 /\ n >= 1
      BY <1>7, <1>1, EmptySeq
    <2> HIDE DEF m, n, z
    <2>2. ASSUME NEW j \in 1..(m + n) PROVE z[j].at \in 1..End(z[j])
      <3>1. CASE j <= m
        BY <3>1, <1>1, <1>3 DEF Stream, m
      <3>2. CASE j > m
        <4>1. z[j] = t[j - m] /\ j - m \in 1..n
          BY <3>2, <1>1, <1>4
        <4> QED BY <4>1 DEF Stream, n
      <3> QED BY <3>1, <3>2, <1>1
    <2>3. z[1].at = 1
      BY <1>7, <2>1, <1>1, <1>3 DEF Stream
    <2>4. z[m + n].at = End(z[m + n])
      <3>1. z[m + n] = t[n]
        BY <2>1, <1>1, <1>4
      <3> QED BY <3>1, <1>7 DEF Stream, n
    <2>5. ASSUME NEW j \in 1..(m + n - 1)
          PROVE  IF z[j].at < End(z[j]) THEN z[j + 1] = [of |-> z[j].of, at |-> z[j].at + 1]
                                        ELSE z[j + 1].at = 1
      <3>1. CASE j < m
        <4>1. z[j] = s[j] /\ z[j + 1] = s[j + 1] /\ j \in 1..(m - 1)
          BY <3>1, <1>1, <1>3
        <4> QED BY <4>1 DEF Stream, m
      <3>2. CASE j = m
        <4>1. z[j] = s[m] /\ z[j + 1] = t[1]
          BY <3>2, <2>1, <1>1, <1>3, <1>4
        <4>2. s[m].at = End(s[m]) /\ t[1].at = 1
          BY <1>7 DEF Stream, m
        <4>3. s[m].at \in Nat
          BY <2>1, <1>1, ElementOfSeq, ByteType DEF m
        <4> QED BY <4>1, <4>2, <4>3
      <3>3. CASE j > m
        <4>1. /\ j \in (m + 1)..(m + n) /\ j + 1 \in (m + 1)..(m + n)
              /\ (j + 1) - m = (j - m) + 1 /\ j - m \in 1..(n - 1)
          BY <3>3, <1>1
        <4>2. z[j] = t[j - m] /\ z[j + 1] = t[(j + 1) - m]
          BY Zenon, <4>1, <1>4
        <4> QED BY ZenonT(40), <4>1, <4>2 DEF Stream, n
      <3> QED BY <3>1, <3>2, <3>3, <1>1
    <2>6. Stream(z)
      <3>1. Len(z) = m + n /\ Len(z) - 1 = m + n - 1
        BY <1>2, <1>1
      <3>2. \A j \in 1..Len(z) : z[j].at \in 1..End(z[j])
        BY Zenon, <3>1, <2>2
      <3>3. z[Len(z)].at = End(z[Len(z)])
        BY Zenon, <3>1, <2>4
      <3>4. \A j \in 1..(Len(z) - 1) :
                IF z[j].at < End(z[j]) THEN z[j + 1] = [of |-> z[j].of, at |-> z[j].at + 1]
                                       ELSE z[j + 1].at = 1
        BY Zenon, <3>1, <2>5
      <3> QED BY Zenon, <2>3, <3>2, <3>3, <3>4 DEF Stream
    <2> QED BY <1>2, <2>6 DEF z
  <1> QED BY <1>5, <1>6, <1>7

\* What comes behind the end of a packet is a stream.
LEMMA Behind ==
  ASSUME SnTcpAssumption, NEW b \in Seq(Byte), NEW r \in Seq(Byte), Stream(b \o r),
         Len(b) # 0, b[Len(b)].at = End(b[Len(b)])
  PROVE  Stream(r)
  <1> DEFINE n == Len(b)
             k == Len(r)
             s == b \o r
  <1>1. n \in Nat /\ k \in Nat /\ n # 0 /\ b[n] \in Byte
    BY LenProperties, ElementOfSeq
  <1>2. /\ Len(s) = n + k /\ s[n] = b[n]
        /\ \A i \in (n + 1)..(n + k) : s[i] = r[i - n]
    BY <1>1, ConcatProperties
  <1>3. b[n].at = End(b[n])
    OBVIOUS
  <1> HIDE DEF n, k, s
  <1>4. \A i \in 1..k : r[i] = s[n + i] /\ n + i \in 1..(n + k)
    <2> SUFFICES ASSUME NEW i \in 1..k PROVE r[i] = s[n + i] /\ n + i \in 1..(n + k)
      OBVIOUS
    <2>1. n + i \in (n + 1)..(n + k) /\ n + i \in 1..(n + k) /\ (n + i) - n = i
      BY <1>1
    <2> QED BY <2>1, <1>2
  <1>5. /\ \A j \in 1..(n + k) : s[j].at \in 1..End(s[j])
        /\ s # <<>> => s[n + k].at = End(s[n + k])
        /\ \A j \in 1..(n + k - 1) :
               IF s[j].at < End(s[j]) THEN s[j + 1] = [of |-> s[j].of, at |-> s[j].at + 1]
                                      ELSE s[j + 1].at = 1
    <2>1. Len(s) = n + k /\ Len(s) - 1 = n + k - 1
      BY <1>1, <1>2
    <2>2. Stream(s)
      BY DEF s
    <2>3. /\ \A j \in 1..Len(s) : s[j].at \in 1..End(s[j])
          /\ s # <<>> => s[Len(s)].at = End(s[Len(s)])
          /\ \A j \in 1..(Len(s) - 1) :
                 IF s[j].at < End(s[j]) THEN s[j + 1] = [of |-> s[j].of, at |-> s[j].at + 1]
                                        ELSE s[j + 1].at = 1
      BY Zenon, <2>2 DEF Stream
    <2> QED BY Zenon, <2>1, <2>3
  <1>6. \A j \in 1..k : r[j].at \in 1..End(r[j])
    BY <1>4, <1>5
  <1>7. ASSUME r # <<>> PROVE r[1].at = 1 /\ r[k].at = End(r[k])
    <2>1. k >= 1
      BY <1>7, <1>1, EmptySeq DEF k
    <2>2. r[1] = s[n + 1] /\ r[k] = s[n + k] /\ n \in 1..(n + k - 1)
      BY <2>1, <1>1, <1>4
    <2>3. ~(s[n].at < End(s[n]))
      BY <1>1, <1>2, <1>3, ByteType
    <2>4. s[n + 1].at = 1
      BY Zenon, <2>2, <2>3, <1>5
    <2>5. s # <<>>
      BY <2>1, <1>1, <1>2, EmptySeq
    <2> QED BY <2>2, <2>4, <2>5, <1>5
  <1>8. ASSUME NEW j \in 1..(k - 1)
        PROVE  IF r[j].at < End(r[j]) THEN r[j + 1] = [of |-> r[j].of, at |-> r[j].at + 1]
                                      ELSE r[j + 1].at = 1
    <2>1. j \in 1..k /\ j + 1 \in 1..k /\ n + (j + 1) = (n + j) + 1 /\ n + j \in 1..(n + k - 1)
      BY <1>1
    <2>2. r[j] = s[n + j] /\ r[j + 1] = s[(n + j) + 1]
      BY <2>1, <1>4
    <2> QED BY <2>1, <2>2, <1>5
  <1> QED BY <1>6, <1>7, <1>8 DEF Stream, k

\* The first bytes of a stream, up to the end of its first packet, are those of
\* that packet in their order.
LEMMA FirstPacket ==
  ASSUME SnTcpAssumption, NEW s \in Seq(Byte), Stream(s),
         NEW n \in 0..Len(s), n <= End(s[1])
  PROVE  \A j \in 1..n : s[j] = [of |-> s[1].of, at |-> j]
  <1> DEFINE Wrong == {j \in 1..n : s[j] # [of |-> s[1].of, at |-> j]}
  <1>1. Len(s) \in Nat /\ \A i \in 1..Len(s) : s[i] \in Byte
    BY LenProperties
  <1> SUFFICES ASSUME Wrong # {} PROVE FALSE
    BY SMTT(40)
  <1>2. Wrong \in SUBSET Nat
    BY <1>1
  <1>3. PICK k \in Wrong : \A y \in Wrong : k <= y
    BY Zenon, <1>2, Least
  <1>4. k \in 1..n /\ s[k] # [of |-> s[1].of, at |-> k]
    OBVIOUS
  <1>5. k # 1
    <2>1. s[1].at = 1 /\ s[1] \in Byte
      BY <1>1, <1>4 DEF Stream
    <2>2. s[1] = [of |-> s[1].of, at |-> 1]
      BY <2>1 DEF Byte
    <2> QED BY <2>2, <1>4
  <1>6. k - 1 \in 1..n /\ k - 1 \notin Wrong
    BY <1>1, <1>3, <1>4, <1>5
  <1>7. s[k - 1] = [of |-> s[1].of, at |-> k - 1]
    BY <1>6
  <1>8. s[k - 1].at = k - 1 /\ s[k - 1].of = s[1].of /\ End(s[k - 1]) = End(s[1])
    BY <1>7 DEF End
  <1> HIDE DEF Wrong
  <1>9. s[1] \in Byte /\ End(s[1]) \in Nat /\ k - 1 < End(s[1])
    BY <1>1, <1>4, ByteType
  <1>10. s[(k - 1) + 1] = [of |-> s[k - 1].of, at |-> s[k - 1].at + 1]
    BY <1>1, <1>4, <1>6, <1>8, <1>9 DEF Stream
  <1>11. s[k] = [of |-> s[1].of, at |-> k]
    BY <1>1, <1>4, <1>8, <1>10
  <1> QED BY <1>4, <1>11

----------------------------------------------------------------------------
(* Connections, descriptors, edges and clients: what holds of them between *)
(* two steps of any handler.                                               *)

Conn == [fd : Fd, inactive : BOOLEAN, expected : Nat, buffer : Seq(Byte)]
Socket == [mac : Mac, in : Seq(Byte), eof : BOOLEAN]

\* The types of the connections, descriptors, edges and clients.
Typed(cs, s, e, cl) ==
    /\ cs \in Seq(Conn) /\ s \in [Fd -> Socket \cup {Closed}]
    /\ e \in [Mac -> Fd \cup {NoFd, UdpFd}] /\ cl \in [Mac -> Fd \cup {NoFd, Waits}]

\* A descriptor is open while its connection is active, and has one.
Linked(cs, s) ==
    /\ \A i, j \in DOMAIN cs : cs[i].fd = cs[j].fd => i = j
    /\ \A i \in DOMAIN cs : cs[i].inactive <=> s[cs[i].fd] = Closed
    /\ \A fd \in Fd : s[fd] # Closed => \E i \in DOMAIN cs : cs[i].fd = fd

\* An edge is reached through a descriptor that is open and its own; a client
\* holds one that is open.
Served(s, e, cl) ==
    /\ \A m \in Mac : e[m] \in Fd => s[e[m]] # Closed /\ s[e[m]].mac = m
    /\ \A m \in Mac : cl[m] \in Fd => s[cl[m]] # Closed

\* What a connection waits for is the length of a packet or, once that is
\* there, the packet whose first bytes it has.
Collected(x, b) ==
    /\ x \in Header..BufSize /\ Len(b) <= x
    /\ x = Header \/ (Len(b) >= Header /\ x = Header + b[1].of.len)
    /\ \A j \in 1..Len(b) : b[j] = [of |-> b[1].of, at |-> j]

\* Each connection, and the rest of the stream behind its buffer.
Framed(cs, s) ==
    \A i \in DOMAIN cs :
        /\ Collected(cs[i].expected, cs[i].buffer)
        /\ ~cs[i].inactive => Stream(cs[i].buffer \o s[cs[i].fd].in)

Good(cs, s, e, cl) == Typed(cs, s, e, cl) /\ Linked(cs, s) /\ Served(s, e, cl) /\ Framed(cs, s)

\* A descriptor with a stream is not closed.
LEMMA SocketOpen ==
  ASSUME NEW x \in Socket
  PROVE  x # Closed
  <1>1. DOMAIN x = {"mac", "in", "eof"} /\ DOMAIN Closed = {"mac"}
    BY DEF Socket, Closed
  <1> QED BY <1>1

\* What a sequence consists of.
LEMMA Elements ==
  ASSUME NEW S, NEW q \in Seq(S)
  PROVE  Len(q) \in Nat /\ DOMAIN q = 1..Len(q) /\ \A i \in DOMAIN q : q[i] \in S
  BY LenProperties, ElementOfSeq

\* What the list of connections consists of.
LEMMA OfConn ==
  ASSUME NEW cs \in Seq(Conn)
  PROVE  /\ Len(cs) \in Nat /\ DOMAIN cs = 1..Len(cs)
         /\ \A i \in DOMAIN cs : /\ cs[i] \in Conn /\ cs[i].fd \in Fd /\ cs[i].inactive \in BOOLEAN
                                 /\ cs[i].expected \in Nat /\ cs[i].buffer \in Seq(Byte)
  <1>1. Len(cs) \in Nat /\ DOMAIN cs = 1..Len(cs) /\ \A i \in DOMAIN cs : cs[i] \in Conn
    BY Elements
  <1>2. ASSUME NEW i \in DOMAIN cs
        PROVE  /\ cs[i].fd \in Fd /\ cs[i].inactive \in BOOLEAN
               /\ cs[i].expected \in Nat /\ cs[i].buffer \in Seq(Byte)
    <2>1. cs[i] \in Conn
      BY <1>1
    <2> QED BY <2>1 DEF Conn
  <1> QED BY <1>1, <1>2

\* A list that is rewritten in place.
LEMMA Rewritten ==
  ASSUME NEW S, NEW q \in Seq(S), NEW p \in [DOMAIN q -> S]
  PROVE  p \in Seq(S) /\ DOMAIN p = DOMAIN q
  <1>1. Len(q) \in Nat /\ DOMAIN q = 1..Len(q)
    BY Elements
  <1>2. p \in [1..Len(q) -> S]
    BY <1>1
  <1> QED BY <1>1, <1>2, SeqDef

\* close_tcp_connection marks the connections of some descriptors and leaves
\* the list and everything else in it as it is.
LEMMA Deactivated ==
  ASSUME NEW cs \in Seq(Conn), NEW fds
  PROVE  LET ds == Deactivate(cs, fds)
         IN /\ ds \in Seq(Conn) /\ DOMAIN ds = DOMAIN cs
            /\ \A i \in DOMAIN cs :
                   /\ ds[i].fd = cs[i].fd /\ ds[i].expected = cs[i].expected /\ ds[i].buffer = cs[i].buffer
                   /\ cs[i].fd \in fds => ds[i].inactive
                   /\ cs[i].fd \notin fds => ds[i] = cs[i]
  <1> DEFINE ds == Deactivate(cs, fds)
  <1>1. \A i \in DOMAIN cs : cs[i] \in Conn
    BY Elements
  <1>2. /\ ds = [i \in DOMAIN cs |-> ds[i]]
        /\ \A i \in DOMAIN cs :
               ds[i] = IF cs[i].fd \in fds THEN [cs[i] EXCEPT !.inactive = TRUE] ELSE cs[i]
    BY DEF Deactivate
  <1> HIDE DEF ds
  <1>3. ASSUME NEW i \in DOMAIN cs
        PROVE  /\ ds[i] \in Conn /\ ds[i].fd = cs[i].fd
               /\ ds[i].expected = cs[i].expected /\ ds[i].buffer = cs[i].buffer
               /\ cs[i].fd \in fds => ds[i].inactive
               /\ cs[i].fd \notin fds => ds[i] = cs[i]
    <2>1. cs[i] \in Conn
      BY <1>1
    <2>2. CASE cs[i].fd \in fds
      <3>1. ds[i] = [cs[i] EXCEPT !.inactive = TRUE]
        BY <2>2, <1>2
      <3> QED BY Zenon, <3>1, <2>1, <2>2 DEF Conn
    <2>3. CASE cs[i].fd \notin fds
      BY <2>1, <2>3, <1>2
    <2> QED BY <2>2, <2>3
  <1>4. ds \in Seq(Conn) /\ DOMAIN ds = DOMAIN cs
    <2>1. ds \in [DOMAIN cs -> Conn]
      BY <1>2, <1>3
    <2> QED BY Zenon, <2>1, Rewritten
  <1> QED BY <1>3, <1>4 DEF ds

\* close_tcp_connection for some descriptors, wherever a handler calls it.
LEMMA Closing ==
  ASSUME SnTcpAssumption, NEW cs, NEW s, NEW e, NEW cl, Good(cs, s, e, cl), NEW fds \in SUBSET Fd,
         NEW t, t = [fd \in Fd |-> IF fd \in fds THEN Closed ELSE s[fd]],
         NEW f, f = [m \in Mac |-> IF e[m] \in fds THEN NoFd ELSE e[m]],
         NEW cm, cm = [m \in Mac |-> IF cl[m] \in fds THEN NoFd ELSE cl[m]]
  PROVE  Good(Deactivate(cs, fds), t, f, cm)
  <1> DEFINE ds == Deactivate(cs, fds)
  <1>1. /\ cs \in Seq(Conn) /\ s \in [Fd -> Socket \cup {Closed}]
        /\ e \in [Mac -> Fd \cup {NoFd, UdpFd}] /\ cl \in [Mac -> Fd \cup {NoFd, Waits}]
    BY DEF Good, Typed
  <1>2. \A i \in DOMAIN cs : cs[i].fd \in Fd /\ cs[i].inactive \in BOOLEAN
    BY Zenon, <1>1, OfConn
  <1>3. /\ ds \in Seq(Conn) /\ DOMAIN ds = DOMAIN cs
        /\ \A i \in DOMAIN cs :
               /\ ds[i].fd = cs[i].fd /\ ds[i].expected = cs[i].expected /\ ds[i].buffer = cs[i].buffer
               /\ cs[i].fd \in fds => ds[i].inactive
               /\ cs[i].fd \notin fds => ds[i] = cs[i]
    BY <1>1, Deactivated
  <1>4. \A fd \in Fd : (fd \in fds => t[fd] = Closed) /\ (fd \notin fds => t[fd] = s[fd])
    OBVIOUS
  <1>5. \A m \in Mac : (f[m] \in Fd => f[m] = e[m] /\ e[m] \notin fds) /\ (cm[m] \in Fd => cm[m] = cl[m] /\ cl[m] \notin fds)
    <2>1. NoFd \notin Fd
      BY DEF SnTcpAssumption, NoFd
    <2> QED BY <2>1
  <1> HIDE DEF ds
  <1>6. Typed(ds, t, f, cm)
    <2>1. t \in [Fd -> Socket \cup {Closed}]
      BY <1>1
    <2>2. f \in [Mac -> Fd \cup {NoFd, UdpFd}] /\ cm \in [Mac -> Fd \cup {NoFd, Waits}]
      BY <1>1
    <2> QED BY <1>3, <2>1, <2>2 DEF Typed
  <1>7. Linked(ds, t)
    <2>1. /\ \A i, j \in DOMAIN cs : cs[i].fd = cs[j].fd => i = j
          /\ \A i \in DOMAIN cs : cs[i].inactive <=> s[cs[i].fd] = Closed
          /\ \A fd \in Fd : s[fd] # Closed => \E i \in DOMAIN cs : cs[i].fd = fd
      BY DEF Good, Linked
    <2>2. \A i, j \in DOMAIN ds : ds[i].fd = ds[j].fd => i = j
      BY <2>1, <1>3
    <2>3. ASSUME NEW i \in DOMAIN ds PROVE ds[i].inactive <=> t[ds[i].fd] = Closed
      <3>1. i \in DOMAIN cs /\ ds[i].fd = cs[i].fd /\ cs[i].fd \in Fd
        BY Zenon, <1>2, <1>3
      <3>2. CASE cs[i].fd \in fds
        BY Zenon, <3>1, <3>2, <1>3, <1>4
      <3>3. CASE cs[i].fd \notin fds
        BY <3>1, <3>3, <2>1, <1>3, <1>4
      <3> QED BY Zenon, <3>2, <3>3
    <2>4. ASSUME NEW fd \in Fd, t[fd] # Closed PROVE \E i \in DOMAIN ds : ds[i].fd = fd
      BY <2>1, <2>4, <1>3, <1>4
    <2> QED BY Zenon, <2>2, <2>3, <2>4 DEF Linked
  <1>8. Served(t, f, cm)
    BY Zenon, <1>4, <1>5 DEF Good, Served
  <1>9. Framed(ds, t)
    <2> SUFFICES ASSUME NEW i \in DOMAIN cs
                 PROVE  Collected(ds[i].expected, ds[i].buffer) /\ (~ds[i].inactive => Stream(ds[i].buffer \o t[ds[i].fd].in))
      BY Zenon, <1>3 DEF Framed
    <2>1. Collected(cs[i].expected, cs[i].buffer) /\ (~cs[i].inactive => Stream(cs[i].buffer \o s[cs[i].fd].in))
      BY Zenon DEF Good, Framed
    <2>2. Collected(ds[i].expected, ds[i].buffer)
      BY Zenon, <2>1, <1>3
    <2>3. ASSUME ~ds[i].inactive PROVE Stream(ds[i].buffer \o t[ds[i].fd].in)
      <3>1. cs[i].fd \notin fds /\ ds[i] = cs[i] /\ t[cs[i].fd] = s[cs[i].fd]
        BY Zenon, <2>3, <1>2, <1>3, <1>4
      <3> QED BY Zenon, <3>1, <2>1, <2>3
    <2> QED BY Zenon, <2>2, <2>3
  <1> QED BY <1>6, <1>7, <1>8, <1>9 DEF Good, ds

\* Other edges may be reached, of which those on a connection are on their own.
LEMMA OtherEdges ==
  ASSUME NEW cs, NEW s, NEW e, NEW cl, Good(cs, s, e, cl),
         NEW f \in [Mac -> Fd \cup {NoFd, UdpFd}],
         \A m \in Mac : f[m] \in Fd => s[f[m]] # Closed /\ s[f[m]].mac = m
  PROVE  Good(cs, s, f, cl)
  BY Zenon DEF Good, Typed, Served

\* Connections and descriptors may be rewritten in place.
LEMMA InPlace ==
  ASSUME NEW cs, NEW s, NEW e, NEW cl, Good(cs, s, e, cl),
         NEW ds \in Seq(Conn), NEW t \in [Fd -> Socket \cup {Closed}], DOMAIN ds = DOMAIN cs,
         \A i \in DOMAIN cs : ds[i].fd = cs[i].fd /\ ds[i].inactive = cs[i].inactive,
         \A fd \in Fd : (t[fd] = Closed <=> s[fd] = Closed) /\ (s[fd] # Closed => t[fd].mac = s[fd].mac),
         Framed(ds, t)
  PROVE  Good(ds, t, e, cl)
  <1>1. Typed(ds, t, e, cl)
    BY Zenon DEF Good, Typed
  <1>2. \A i \in DOMAIN cs : cs[i].fd \in Fd
    BY OfConn DEF Good, Typed
  <1>3. Linked(ds, t)
    <2>1. /\ \A i, j \in DOMAIN cs : cs[i].fd = cs[j].fd => i = j
          /\ \A i \in DOMAIN cs : cs[i].inactive <=> s[cs[i].fd] = Closed
          /\ \A fd \in Fd : s[fd] # Closed => \E i \in DOMAIN cs : cs[i].fd = fd
      BY DEF Good, Linked
    <2>2. \A i, j \in DOMAIN ds : ds[i].fd = ds[j].fd => i = j
      BY Zenon, <2>1
    <2>3. \A i \in DOMAIN ds : ds[i].inactive <=> t[ds[i].fd] = Closed
      BY <2>1, <1>2
    <2>4. \A fd \in Fd : t[fd] # Closed => \E i \in DOMAIN ds : ds[i].fd = fd
      BY <2>1
    <2> QED BY Zenon, <2>2, <2>3, <2>4 DEF Linked
  <1>4. Served(t, e, cl)
    BY Zenon DEF Good, Served
  <1> QED BY Zenon, <1>1, <1>3, <1>4 DEF Good

\* Inactive connections may be deleted from the list.
LEMMA Removing ==
  ASSUME NEW cs, NEW s, NEW e, NEW cl, Good(cs, s, e, cl),
         NEW q \in Seq(Conn), NEW K \in SUBSET DOMAIN cs, NEW pos, Sifted(q, cs, K, pos),
         \A i \in DOMAIN cs : ~cs[i].inactive => i \in K
  PROVE  Good(q, s, e, cl)
  <1>1. Typed(q, s, e, cl)
    BY Zenon DEF Good, Typed
  <1>2. /\ \A r \in DOMAIN q : pos[r] \in DOMAIN cs /\ q[r] = cs[pos[r]]
        /\ \A r, t \in DOMAIN q : pos[r] = pos[t] => r = t
        /\ \A i \in DOMAIN cs : ~cs[i].inactive => \E r \in DOMAIN q : pos[r] = i
    BY DEF Sifted
  <1>3. Linked(q, s)
    <2>1. /\ \A i, j \in DOMAIN cs : cs[i].fd = cs[j].fd => i = j
          /\ \A i \in DOMAIN cs : cs[i].inactive <=> s[cs[i].fd] = Closed
          /\ \A fd \in Fd : s[fd] # Closed => \E i \in DOMAIN cs : cs[i].fd = fd
      BY DEF Good, Linked
    <2>2. \A i, j \in DOMAIN q : q[i].fd = q[j].fd => i = j
      BY <2>1, <1>2
    <2>3. \A i \in DOMAIN q : q[i].inactive <=> s[q[i].fd] = Closed
      BY <2>1, <1>2
    <2>4. ASSUME NEW fd \in Fd, s[fd] # Closed PROVE \E r \in DOMAIN q : q[r].fd = fd
      <3>1. PICK i \in DOMAIN cs : cs[i].fd = fd
        BY Zenon, <2>1, <2>4
      <3>2. ~cs[i].inactive
        BY Zenon, <2>1, <2>4, <3>1
      <3> QED BY <3>1, <3>2, <1>2
    <2> QED BY Zenon, <2>2, <2>3, <2>4 DEF Linked
  <1>4. Framed(q, s)
    BY <1>2 DEF Good, Framed
  <1> QED BY Zenon, <1>1, <1>3, <1>4 DEF Good

----------------------------------------------------------------------------
(* The handlers.                                                           *)

\* process_udp, for a packet that came in over UDP or on the sender's own
\* connection, deletes nothing from the list of connections.
LEMMA ProcessOK ==
  ASSUME SnTcpAssumption, NEW cs, NEW s, Good(cs, s, edges, client), NEW m \in Mac, NEW k, NEW fd,
         fd = UdpFd \/ (fd \in Fd /\ s[fd] # Closed /\ s[fd].mac = m),
         Process(m, k, fd, cs, s)
  PROVE  /\ Good(conns', sock', edges', client') /\ DOMAIN conns' = DOMAIN cs
         /\ \A i \in DOMAIN cs : conns'[i].fd = cs[i].fd
  <1>1. edges \in [Mac -> Fd \cup {NoFd, UdpFd}] /\ cs \in Seq(Conn)
    BY DEF Good, Typed
  <1>2. \A n \in Mac : edges[n] \in Fd => s[edges[n]] # Closed /\ s[edges[n]].mac = n
    BY DEF Good, Served
  <1>3. NoFd \notin Fd /\ UdpFd \notin Fd
    BY DEF SnTcpAssumption, NoFd, UdpFd
  <1>4. ASSUME NEW fds \in SUBSET Fd, NEW e, Good(cs, s, e, client),
               conns' = Deactivate(cs, fds), CloseConnections(fds, e, s)
        PROVE  /\ Good(conns', sock', edges', client') /\ DOMAIN conns' = DOMAIN cs
               /\ \A i \in DOMAIN cs : conns'[i].fd = cs[i].fd
    <2>1. Good(conns', sock', edges', client')
      BY <1>4, Closing DEF CloseConnections
    <2>2. DOMAIN conns' = DOMAIN cs /\ \A i \in DOMAIN cs : conns'[i].fd = cs[i].fd
      BY ZenonT(40), <1>1, <1>4, Deactivated
    <2> QED BY <2>1, <2>2
  <1>5. \A ms, e : MayFail(ms, e) \in SUBSET Fd
    BY DEF MayFail, IsTcp
  <1>6. CASE k = "REGISTER_SUPER"
    <2> DEFINE e == [edges EXCEPT ![m] = fd]
    <2>1. /\ e \in [Mac -> Fd \cup {NoFd, UdpFd}]
          /\ \A n \in Mac : e[n] = IF n = m THEN fd ELSE edges[n]
      BY <1>1
    <2>2. PICK fds \in SUBSET MayFail({m}, e) : conns' = Deactivate(cs, fds) /\ CloseConnections(fds, e, s)
      BY Zenon, <1>6 DEF Process
    <2> HIDE DEF e
    <2>3. \A n \in Mac : e[n] \in Fd => s[e[n]] # Closed /\ s[e[n]].mac = n
      BY <2>1, <1>2, <1>3
    <2>4. Good(cs, s, e, client)
      BY Zenon, <2>1, <2>3, OtherEdges
    <2>5. fds \in SUBSET Fd
      BY Zenon, <2>2, <1>5
    <2> QED BY Zenon, <2>2, <2>4, <2>5, <1>4
  <1>7. CASE k = "PACKET"
    <2>1. PICK fds \in SUBSET MayFail(Mac \ {m}, edges) : conns' = Deactivate(cs, fds) /\ CloseConnections(fds, edges, s)
      BY <1>7 DEF Process
    <2>2. fds \in SUBSET Fd
      BY Zenon, <2>1, <1>5
    <2> QED BY Zenon, <2>1, <2>2, <1>4
  <1>8. CASE k \in {"UNREGISTER_SUPER", "ELSEWHERE"}
    <2> DEFINE e == [edges EXCEPT ![m] = NoFd]
               fds == {edges[m]} \cap Fd
    <2>1. /\ e \in [Mac -> Fd \cup {NoFd, UdpFd}]
          /\ \A n \in Mac : e[n] = IF n = m THEN NoFd ELSE edges[n]
      BY <1>1
    <2>2. conns' = Deactivate(cs, fds) /\ CloseConnections(fds, e, s)
      BY <1>8 DEF Process
    <2>3. fds \in SUBSET Fd
      OBVIOUS
    <2> HIDE DEF e, fds
    <2>4. \A n \in Mac : e[n] \in Fd => s[e[n]] # Closed /\ s[e[n]].mac = n
      BY Zenon, <2>1, <1>2, <1>3
    <2>5. Good(cs, s, e, client)
      BY Zenon, <2>1, <2>4, OtherEdges
    <2> QED BY Zenon, <2>2, <2>3, <2>5, <1>4
  <1> QED BY <1>6, <1>7, <1>8 DEF Process

\* What a read changes in the list of connections and at the descriptor.
Rewrites(ds, cs, i, n, b) == ds = [cs EXCEPT ![i].expected = n, ![i].buffer = b]
Consumes(t, s, fd, r) == t = [s EXCEPT ![fd].in = r]

\* The connection and its descriptor are still there, and all is well.
HasRead(cs, s, e, cl, i, ds, t) ==
    /\ Good(ds, t, e, cl) /\ DOMAIN ds = DOMAIN cs
    /\ \A j \in DOMAIN cs : ds[j].fd = cs[j].fd
    /\ t[cs[i].fd] # Closed /\ t[cs[i].fd].mac = s[cs[i].fd].mac

\* A connection takes on bytes of its stream.
LEMMA Taken ==
  ASSUME NEW cs, NEW s, NEW e, NEW cl, Good(cs, s, e, cl), NEW i \in DOMAIN cs, ~cs[i].inactive,
         NEW n \in Nat, NEW b \in Seq(Byte), NEW r \in Seq(Byte), Stream(b \o r),
         NEW ds, Rewrites(ds, cs, i, n, b), NEW t, Consumes(t, s, cs[i].fd, r), Collected(n, b)
  PROVE  HasRead(cs, s, e, cl, i, ds, t)
  <1> DEFINE c == cs[i]
             x == s[c.fd]
             y == [x EXCEPT !.in = r]
             d == [c EXCEPT !.expected = n, !.buffer = b]
  <1>1. cs \in Seq(Conn) /\ s \in [Fd -> Socket \cup {Closed}] /\ \A j \in DOMAIN cs : cs[j] \in Conn
    BY Elements DEF Good, Typed
  <1>2. c.fd \in Fd /\ c \in Conn
    BY <1>1 DEF Conn
  <1>3. x \in Socket
    <2>1. x # Closed
      BY <1>2 DEF Good, Linked
    <2> QED BY <2>1, <1>1, <1>2
  <1>4. y \in Socket /\ y.mac = x.mac /\ y.in = r /\ y # Closed
    <2>1. y \in Socket /\ y.mac = x.mac /\ y.in = r
      BY Zenon, <1>3 DEF Socket
    <2> QED BY <2>1, SocketOpen
  <1>5. d \in Conn /\ d.fd = c.fd /\ d.inactive = c.inactive /\ d.expected = n /\ d.buffer = b
    BY Zenon, <1>2 DEF Conn
  <1>6. /\ DOMAIN ds = DOMAIN cs /\ ds = [j \in DOMAIN cs |-> ds[j]]
        /\ \A j \in DOMAIN cs : ds[j] = IF j = i THEN d ELSE cs[j]
    BY Zenon, <1>1 DEF Rewrites
  <1>7. t \in [Fd -> Socket \cup {Closed}] /\ \A fd \in Fd : t[fd] = IF fd = c.fd THEN y ELSE s[fd]
    BY <1>1, <1>2, <1>4 DEF Consumes
  <1>9. x # Closed
    BY <1>3, SocketOpen
  <1> HIDE DEF d, y
  <1>8. ds \in Seq(Conn)
    <2>1. \A j \in DOMAIN cs : ds[j] \in Conn
      BY Zenon, <1>1, <1>5, <1>6
    <2>2. ds \in [DOMAIN cs -> Conn]
      BY <2>1, <1>6
    <2> QED BY Zenon, <2>2, <1>1, Rewritten
  <1>10. \A j \in DOMAIN cs : ds[j].fd = cs[j].fd /\ ds[j].inactive = cs[j].inactive
    BY Zenon, <1>5, <1>6
  <1>11. \A fd \in Fd : (t[fd] = Closed <=> s[fd] = Closed) /\ (s[fd] # Closed => t[fd].mac = s[fd].mac)
    BY Zenon, <1>4, <1>7, <1>9
  <1>12. Framed(ds, t)
    <2> SUFFICES ASSUME NEW j \in DOMAIN cs
                 PROVE  Collected(ds[j].expected, ds[j].buffer) /\ (~ds[j].inactive => Stream(ds[j].buffer \o t[ds[j].fd].in))
      BY Zenon, <1>6 DEF Framed
    <2>1. CASE j = i
      <3>1. ds[j] = d /\ t[d.fd] = y
        BY Zenon, <2>1, <1>2, <1>5, <1>6, <1>7
      <3> QED BY Zenon, <3>1, <2>1, <1>4, <1>5
    <2>2. CASE j # i
      <3>1. cs[j].fd # c.fd /\ cs[j].fd \in Fd
        BY <2>2, <1>1 DEF Good, Linked, Conn
      <3>2. ds[j] = cs[j] /\ t[cs[j].fd] = s[cs[j].fd]
        BY Zenon, <3>1, <2>2, <1>6, <1>7
      <3> QED BY Zenon, <3>2 DEF Good, Framed
    <2> QED BY Zenon, <2>1, <2>2
  <1>13. Good(ds, t, e, cl)
    <2>1. DOMAIN ds = DOMAIN cs /\ t \in [Fd -> Socket \cup {Closed}]
      BY Zenon, <1>6, <1>7
    <2> QED BY Zenon, <2>1, <1>8, <1>10, <1>11, <1>12, InPlace
  <1> QED BY Zenon, <1>2, <1>4, <1>6, <1>7, <1>10, <1>13 DEF HasRead

\* The smaller of two numbers, as recvfrom gets at most what is asked for.
LEMMA LeastOfTwo ==
  ASSUME NEW p \in Nat, NEW q \in Nat
  PROVE  Min({p, q}) \in {p, q} /\ Min({p, q}) <= p /\ Min({p, q}) <= q
  <1>1. \E x \in {p, q} : \A y \in {p, q} : x <= y
    OBVIOUS
  <1> QED BY <1>1 DEF Min

\* With n more bytes, b has become a and r is what has not been read.
Gathered(b, a, r, n, x) ==
    /\ a \in Seq(Byte) /\ r \in Seq(Byte) /\ Stream(a \o r) /\ Len(a) = Len(b) + n /\ Len(a) >= 1
    /\ a[1] \in Byte /\ x <= End(a[1])
    /\ \A j \in 1..Len(a) : a[j] = [of |-> a[1].of, at |-> j]
    /\ Len(b) >= 1 => a[1] = b[1]

\* What a connection reads next, of which it has asked for no more than it
\* needs, is still of the same packet.
LEMMA Collecting ==
  ASSUME SnTcpAssumption, NEW b \in Seq(Byte), NEW in \in Seq(Byte), Stream(b \o in),
         NEW n \in 1..Len(in), NEW x \in Nat, Header <= x, Len(b) + n <= x,
         x = Header \/ (Len(b) >= Header /\ x = Header + b[1].of.len)
  PROVE  Gathered(b, b \o SubSeq(in, 1, n), SubSeq(in, n + 1, Len(in)), n, x)
  <1> DEFINE a == b \o SubSeq(in, 1, n)
             r == SubSeq(in, n + 1, Len(in))
             z == a \o r
  <1>1. Len(b) \in Nat /\ Len(in) \in Nat /\ n \in Nat /\ n >= 1
    BY LenProperties
  <1>2. a \in Seq(Byte) /\ r \in Seq(Byte) /\ Len(a) = Len(b) + n /\ z = b \o in /\ SubSeq(in, 1, n) \in Seq(Byte)
    BY Zenon, Cut
  <1>3. Len(b) >= 1 => a[1] = b[1]
    BY <1>1, <1>2, ConcatProperties
  <1> HIDE DEF a, r
  <1>4. Len(a) >= 1 /\ Len(a) \in Nat /\ a[1] \in Byte
    BY <1>1, <1>2, ElementOfSeq
  <1>5. x <= End(a[1])
    <2>1. End(a[1]) \in Nat /\ End(a[1]) >= Header
      BY <1>4, ByteType
    <2>2. CASE x = Header
      BY <2>1, <2>2 DEF Header
    <2>3. CASE Len(b) >= Header /\ x = Header + b[1].of.len
      <3>1. a[1] = b[1]
        BY <2>3, <1>1, <1>3 DEF Header
      <3> QED BY <3>1, <2>1, <2>3 DEF End
    <2> QED BY <2>2, <2>3
  <1>6. Len(a) <= End(a[1])
    <2>1. End(a[1]) \in Nat
      BY <1>4, ByteType
    <2> QED BY <2>1, <1>4, <1>5, <1>2
  <1>7. z \in Seq(Byte) /\ Len(a) \in 0..Len(z) /\ (\A j \in 1..Len(a) : z[j] = a[j])
    <2>1. Len(r) \in Nat /\ z \in Seq(Byte) /\ Len(z) = Len(a) + Len(r)
      BY Zenon, <1>2, ConcatProperties, LenProperties
    <2>2. \A j \in 1..Len(a) : z[j] = a[j]
      <3>1. \A j \in 1..(Len(a) + Len(r)) : (a \o r)[j] = IF j <= Len(a) THEN a[j] ELSE r[j - Len(a)]
        BY Zenon, <1>2, ConcatProperties
      <3>2. \A j \in 1..Len(a) : j \in 1..(Len(a) + Len(r)) /\ j <= Len(a)
        BY <1>4, <2>1
      <3> QED BY Zenon, <3>1, <3>2
    <2> QED BY <1>4, <2>1, <2>2
  <1>8. Stream(z)
    BY <1>2
  <1> HIDE DEF z
  <1>9. z[1] = a[1]
    BY <1>4, <1>7
  <1>10. \A j \in 1..Len(a) : z[j] = [of |-> z[1].of, at |-> j]
    BY Zenon, <1>6, <1>7, <1>8, <1>9, FirstPacket
  <1>11. \A j \in 1..Len(a) : a[j] = [of |-> a[1].of, at |-> j]
    BY Zenon, <1>7, <1>9, <1>10
  <1>12. Gathered(b, a, r, n, x)
    BY Zenon, <1>2, <1>3, <1>4, <1>5, <1>8, <1>11 DEF Gathered, z
  <1> QED BY <1>12 DEF a, r

\* The loop over the readable connections: closing, a part of a packet, the
\* length of a packet, or a packet and its handler.
LEMMA ReadOK ==
  ASSUME SnTcpAssumption, Good(conns, sock, edges, client), NEW i \in DOMAIN conns, ~conns[i].inactive, TcpRead(i)
  PROVE  /\ Good(conns', sock', edges', client') /\ DOMAIN conns' = DOMAIN conns
         /\ \A j \in DOMAIN conns : conns'[j].fd = conns[j].fd
  <1> DEFINE c == conns[i]
             in == sock[c.fd].in
             Done == /\ Good(conns', sock', edges', client') /\ DOMAIN conns' = DOMAIN conns
                     /\ \A j \in DOMAIN conns : conns'[j].fd = conns[j].fd
  <1>1. /\ conns \in Seq(Conn) /\ sock \in [Fd -> Socket \cup {Closed}]
        /\ c \in Conn /\ edges \in [Mac -> Fd \cup {NoFd, UdpFd}]
    BY Elements DEF Good, Typed
  <1>2. c.fd \in Fd /\ c.expected \in Nat /\ c.buffer \in Seq(Byte)
    BY <1>1 DEF Conn
  <1>3. sock[c.fd] \in Socket /\ in \in Seq(Byte) /\ sock[c.fd].mac \in Mac /\ sock[c.fd] # Closed
    <2>1. sock[c.fd] # Closed
      BY DEF Good, Linked
    <2>2. sock[c.fd] \in Socket
      BY <2>1, <1>1, <1>2
    <2> QED BY <2>1, <2>2 DEF Socket
  <1>4. Collected(c.expected, c.buffer) /\ Stream(c.buffer \o in)
    BY DEF Good, Framed
  <1>5. ASSUME conns' = Deactivate(conns, {c.fd}), CloseConnections({c.fd}, edges, sock)
        PROVE  Done
    <2>1. {c.fd} \in SUBSET Fd
      BY <1>2
    <2>2. Good(conns', sock', edges', client')
      BY <2>1, <1>5, Closing DEF CloseConnections
    <2>3. DOMAIN conns' = DOMAIN conns /\ \A j \in DOMAIN conns : conns'[j].fd = conns[j].fd
      <3>1. /\ DOMAIN Deactivate(conns, {c.fd}) = DOMAIN conns
            /\ \A j \in DOMAIN conns : Deactivate(conns, {c.fd})[j].fd = conns[j].fd
        BY <1>1, Deactivated
      <3> QED BY Zenon, <3>1, <1>5
    <2> QED BY Zenon, <2>2, <2>3
  <1>6. CASE in = <<>> \/ Needed(c) = 0
    BY Zenon, <1>5, <1>6 DEF TcpRead
  <1>7. CASE ~(in = <<>> \/ Needed(c) = 0)
    <2> DEFINE a(n) == c.buffer \o SubSeq(in, 1, n)
               r(n) == SubSeq(in, n + 1, Len(in))
               t(n) == [sock EXCEPT ![c.fd].in = SubSeq(in, n + 1, Len(in))]
               ds(x, b) == [conns EXCEPT ![i].expected = x, ![i].buffer = b]
               Keep(n, x) == conns' = ds(x, a(n)) /\ sock' = t(n) /\ UNCHANGED <<edges, client>>
    <2>1. PICK n \in 1..Min({Len(in), Needed(c)}) :
              IF Len(a(n)) # c.expected THEN Keep(n, c.expected)
              ELSE IF Len(a(n)) > Header
              THEN Process(sock[c.fd].mac, a(n)[1].of.kind, c.fd, ds(Header, <<>>), t(n))
              ELSE IF TooLong(c.expected + a(n)[1].of.len)
              THEN conns' = Deactivate(conns, {c.fd}) /\ CloseConnections({c.fd}, edges, sock)
              ELSE Keep(n, c.expected + a(n)[1].of.len)
      BY Zenon, <1>7 DEF TcpRead
    <2>2. /\ Len(c.buffer) \in Nat /\ Len(in) \in Nat /\ BufSize \in Nat
          /\ c.expected \in Header..BufSize /\ Len(c.buffer) <= c.expected
          /\ c.expected = Header \/ (Len(c.buffer) >= Header /\ c.expected = Header + c.buffer[1].of.len)
      BY <1>2, <1>3, <1>4, LenProperties DEF Collected, SnTcpAssumption
    <2>3. n \in 1..Len(in) /\ Len(c.buffer) + n <= c.expected
      <3> DEFINE p == Len(in)
                 q == Needed(c)
      <3>1. p \in Nat /\ q \in Nat /\ q + Len(c.buffer) = c.expected
        BY <2>2 DEF Needed, Header
      <3> HIDE DEF p, q
      <3>2. Min({p, q}) \in {p, q} /\ Min({p, q}) <= p /\ Min({p, q}) <= q
        BY <3>1, LeastOfTwo
      <3>3. n \in 1..Min({p, q})
        BY Zenon, <2>1 DEF p, q
      <3>4. n \in Nat /\ 1 <= n /\ n <= p /\ n <= q
        BY <3>1, <3>2, <3>3
      <3>5. Len(c.buffer) + n <= c.expected
        BY <3>1, <3>4, <2>2
      <3> QED BY <3>1, <3>4, <3>5 DEF p
    <2>4. /\ a(n) \in Seq(Byte) /\ r(n) \in Seq(Byte) /\ Stream(a(n) \o r(n))
          /\ Len(a(n)) = Len(c.buffer) + n /\ Len(a(n)) >= 1
          /\ a(n)[1] \in Byte /\ c.expected <= End(a(n)[1])
          /\ \A j \in 1..Len(a(n)) : a(n)[j] = [of |-> a(n)[1].of, at |-> j]
          /\ Len(c.buffer) >= 1 => a(n)[1] = c.buffer[1]
      <3>1. Header <= c.expected
        BY <2>2 DEF Header
      <3>2. Gathered(c.buffer, a(n), r(n), n, c.expected)
        BY Zenon, <3>1, <2>2, <2>3, <1>2, <1>3, <1>4, Collecting
      <3> HIDE DEF a, r
      <3> QED BY Zenon, <3>2 DEF Gathered
    <2>5. ASSUME NEW x \in Nat, NEW b \in Seq(Byte), Stream(b \o r(n)), Collected(x, b)
          PROVE  /\ Good(ds(x, b), t(n), edges, client) /\ DOMAIN ds(x, b) = DOMAIN conns
                 /\ \A j \in DOMAIN conns : ds(x, b)[j].fd = conns[j].fd
                 /\ t(n)[c.fd] # Closed /\ t(n)[c.fd].mac = sock[c.fd].mac
      <3>1. Rewrites(ds(x, b), conns, i, x, b) /\ Consumes(t(n), sock, c.fd, r(n))
        BY DEF Rewrites, Consumes
      <3>2. r(n) \in Seq(Byte)
        BY Zenon, <2>4
      <3> HIDE DEF ds, t, a, r
      <3>3. HasRead(conns, sock, edges, client, i, ds(x, b), t(n))
        BY Zenon, <3>1, <3>2, <2>5, Taken
      <3> QED BY Zenon, <3>3 DEF HasRead
    <2> HIDE DEF ds, t
    <2>6. ASSUME NEW x \in Nat, Collected(x, a(n)), Keep(n, x) PROVE Done
      <3>1. /\ Good(ds(x, a(n)), t(n), edges, client) /\ DOMAIN ds(x, a(n)) = DOMAIN conns
            /\ \A j \in DOMAIN conns : ds(x, a(n))[j].fd = conns[j].fd
        BY Zenon, <2>4, <2>5, <2>6
      <3>2. conns' = ds(x, a(n)) /\ sock' = t(n) /\ edges' = edges /\ client' = client
        BY <2>6
      <3> QED BY Zenon, <3>1, <3>2
    <2> HIDE DEF a, r
    <2>7. a(n)[1].of.len \in Nat
      BY Zenon, <2>4, ByteType
    <2>8. CASE Len(a(n)) # c.expected
      <3>1. Collected(c.expected, a(n))
        <4>1. Len(a(n)) <= c.expected
          BY <2>2, <2>3, <2>4
        <4>2. c.expected = Header \/ (Len(a(n)) >= Header /\ c.expected = Header + a(n)[1].of.len)
          BY <2>2, <2>3, <2>4 DEF Header
        <4> QED BY Zenon, <4>1, <4>2, <2>2, <2>4 DEF Collected
      <3>2. Keep(n, c.expected)
        BY Zenon, <2>1, <2>8
      <3> QED BY Zenon, <3>1, <3>2, <1>2, <2>6
    <2>9. CASE Len(a(n)) = c.expected /\ Len(a(n)) > Header
      <3>1. Process(sock[c.fd].mac, a(n)[1].of.kind, c.fd, ds(Header, <<>>), t(n))
        BY Zenon, <2>1, <2>9
      <3>2. Stream(r(n))
        <4> DEFINE k == Len(a(n))
        <4>1. k \in Nat /\ k # 0 /\ a(n)[k] = [of |-> a(n)[1].of, at |-> k]
          BY <2>2, <2>4, <2>9, <1>2
        <4>2. c.expected = Header + c.buffer[1].of.len /\ a(n)[1] = c.buffer[1]
          BY <2>2, <2>3, <2>4, <2>9 DEF Header
        <4>3. a(n)[k].at = End(a(n)[k])
          BY <4>1, <4>2, <2>9 DEF End
        <4> QED BY <4>1, <4>3, <2>4, Behind
      <3>3. <<>> \in Seq(Byte) /\ <<>> \o r(n) = r(n) /\ Header \in Nat /\ Collected(Header, <<>>)
        <4>1. <<>> \in Seq(Byte) /\ <<>> \o r(n) = r(n) /\ Len(<<>>) = 0
          BY <2>4, ConcatEmptySeq, EmptySeq
        <4> QED BY <4>1, <2>2 DEF Collected, Header
      <3>4. /\ Good(ds(Header, <<>>), t(n), edges, client) /\ DOMAIN ds(Header, <<>>) = DOMAIN conns
            /\ \A j \in DOMAIN conns : ds(Header, <<>>)[j].fd = conns[j].fd
            /\ t(n)[c.fd] # Closed /\ t(n)[c.fd].mac = sock[c.fd].mac
        BY Zenon, <3>2, <3>3, <2>5
      <3>5. /\ Good(conns', sock', edges', client') /\ DOMAIN conns' = DOMAIN ds(Header, <<>>)
            /\ \A j \in DOMAIN ds(Header, <<>>) : conns'[j].fd = ds(Header, <<>>)[j].fd
        BY Zenon, <3>1, <3>4, <1>2, <1>3, ProcessOK
      <3> QED BY Zenon, <3>4, <3>5
    <2>10. CASE Len(a(n)) = c.expected /\ ~(Len(a(n)) > Header)
      <3> DEFINE x == c.expected + a(n)[1].of.len
      <3>1. c.expected = Header /\ x \in Nat /\ Len(a(n)) = Header
        BY <2>2, <2>7, <2>10 DEF Header
      <3>2. CASE TooLong(x)
        <4>1. conns' = Deactivate(conns, {c.fd}) /\ CloseConnections({c.fd}, edges, sock)
          BY Zenon, <2>1, <2>10, <3>2
        <4> QED BY Zenon, <4>1, <1>5
      <3>3. CASE ~TooLong(x)
        <4>1. Keep(n, x)
          BY Zenon, <2>1, <2>10, <3>3
        <4>2. x \in Header..BufSize /\ Len(a(n)) <= x /\ Len(a(n)) >= Header /\ x = Header + a(n)[1].of.len
          BY <3>1, <3>3, <2>2, <2>7 DEF TooLong, Header
        <4>3. Collected(x, a(n))
          BY Zenon, <4>2, <2>4 DEF Collected
        <4> QED BY Zenon, <4>1, <4>3, <3>1, <2>6
      <3> QED BY Zenon, <3>2, <3>3
    <2> QED BY Zenon, <2>8, <2>9, <2>10
  <1> QED BY Zenon, <1>6, <1>7

----------------------------------------------------------------------------
(* The inductive invariant, and one lemma for each action.                 *)

\* What the phases of run_sn_loop rely on: the connections to visit are in the
\* list, none to be deleted is left when accept is called, and then somebody
\* waits.
LoopOK ==
    /\ backlog \in Seq(Mac) /\ todo \in Seq(Fd) /\ mask \in SUBSET (Fd \cup {UdpFd, ListenFd, MgmtFd})
    /\ pc \in {"select", "udp", "tcp", "accept", "mgmt", "failed", "tail"}
    /\ pc \in {"udp", "tcp"} => \A k \in DOMAIN todo : \E i \in DOMAIN conns : conns[i].fd = todo[k]
    /\ pc = "accept" => \A i \in DOMAIN conns : ~conns[i].inactive
    /\ pc \in {"udp", "tcp", "accept"} /\ ListenFd \in mask => backlog # <<>>

IInv == Good(conns, sock, edges, client) /\ LoopOK

\* No descriptor of a connection is one of the other values.
LEMMA Distinct ==
  ASSUME SnTcpAssumption
  PROVE  NoFd \notin Fd /\ UdpFd \notin Fd /\ Waits \notin Fd /\ ListenFd \notin Fd /\ MgmtFd \notin Fd
  BY DEF SnTcpAssumption, NoFd, UdpFd, Waits, ListenFd, MgmtFd

\* Clients may change as long as they hold descriptors that are open.
LEMMA OtherClients ==
  ASSUME NEW cs, NEW s, NEW e, NEW cl, Good(cs, s, e, cl),
         NEW cm \in [Mac -> Fd \cup {NoFd, Waits}],
         \A m \in Mac : cm[m] \in Fd => s[cm[m]] # Closed
  PROVE  Good(cs, s, e, cm)
  BY Zenon DEF Good, Typed, Served

\* Wherever p may come, q may come as well.
Continues(p, q) == \A b \in Seq(Byte) : Stream(b \o p) => Stream(b \o q)
Put(t, s, fd, y) == t = [s EXCEPT ![fd] = y]

\* Bytes or the end of the stream arrive at a descriptor.
LEMMA Arriving ==
  ASSUME NEW cs, NEW s, NEW e, NEW cl, Good(cs, s, e, cl),
         NEW fd \in Fd, s[fd] # Closed, NEW y \in Socket, y.mac = s[fd].mac,
         Continues(s[fd].in, y.in), NEW t, Put(t, s, fd, y)
  PROVE  Good(cs, t, e, cl)
  <1>1. cs \in Seq(Conn) /\ s \in [Fd -> Socket \cup {Closed}]
    BY DEF Good, Typed
  <1>2. \A j \in DOMAIN cs : cs[j].fd \in Fd /\ cs[j].buffer \in Seq(Byte)
    BY Zenon, <1>1, OfConn
  <1>3. y # Closed
    BY SocketOpen
  <1>4. t \in [Fd -> Socket \cup {Closed}] /\ \A x \in Fd : t[x] = IF x = fd THEN y ELSE s[x]
    BY <1>1 DEF Put
  <1>5. \A x \in Fd : (t[x] = Closed <=> s[x] = Closed) /\ (s[x] # Closed => t[x].mac = s[x].mac)
    BY Zenon, <1>3, <1>4
  <1>6. Framed(cs, t)
    <2> SUFFICES ASSUME NEW j \in DOMAIN cs, ~cs[j].inactive
                 PROVE  Stream(cs[j].buffer \o t[cs[j].fd].in)
      BY Zenon DEF Good, Framed
    <2>1. Stream(cs[j].buffer \o s[cs[j].fd].in)
      BY Zenon DEF Good, Framed
    <2>2. CASE cs[j].fd = fd
      BY Zenon, <2>1, <2>2, <1>2, <1>4 DEF Continues
    <2>3. CASE cs[j].fd # fd
      BY Zenon, <2>1, <2>3, <1>2, <1>4
    <2> QED BY Zenon, <2>2, <2>3
  <1> QED BY Zenon, <1>1, <1>4, <1>5, <1>6, InPlace

\* The loop starts without connections.
LEMMA InitOK ==
  ASSUME SnTcpAssumption, Init
  PROVE  IInv
  <1>1. conns = <<>> /\ DOMAIN conns = {} /\ todo = <<>> /\ backlog = <<>>
    BY DEF Init
  <1>2. conns \in Seq(Conn) /\ todo \in Seq(Fd) /\ backlog \in Seq(Mac)
    BY <1>1, EmptySeq
  <1>3. Typed(conns, sock, edges, client)
    BY <1>2 DEF Init, Typed
  <1>4. Linked(conns, sock) /\ Framed(conns, sock)
    BY <1>1 DEF Init, Linked, Framed
  <1>5. Served(sock, edges, client)
    BY Distinct DEF Init, Served
  <1>6. LoopOK
    BY <1>1, <1>2 DEF Init, LoopOK
  <1> QED BY <1>3, <1>4, <1>5, <1>6 DEF IInv, Good

\* An edge connects and waits to be accepted.
LEMMA ConnectOK ==
  ASSUME SnTcpAssumption, IInv, NEW m \in Mac, Connect(m)
  PROVE  IInv'
  <1>1. client \in [Mac -> Fd \cup {NoFd, Waits}] /\ backlog \in Seq(Mac)
    BY DEF IInv, Good, Typed, LoopOK
  <1>2. /\ client' = [client EXCEPT ![m] = Waits] /\ backlog' = Append(backlog, m)
        /\ UNCHANGED <<conns, edges, sock, pc, mask, todo>>
    BY DEF Connect
  <1>3. client' \in [Mac -> Fd \cup {NoFd, Waits}] /\ \A x \in Mac : client'[x] = IF x = m THEN Waits ELSE client[x]
    BY <1>1, <1>2
  <1>4. \A x \in Mac : client'[x] \in Fd => sock[client'[x]] # Closed
    BY Zenon, <1>3, Distinct DEF IInv, Good, Served
  <1>5. Good(conns, sock, edges, client')
    BY Zenon, <1>3, <1>4, OtherClients DEF IInv
  <1>6. backlog' \in Seq(Mac) /\ backlog' # <<>>
    BY <1>1, <1>2, AppendProperties
  <1>7. LoopOK'
    BY Zenon, <1>2, <1>6 DEF IInv, LoopOK
  <1> QED BY Zenon, <1>2, <1>5, <1>7 DEF IInv

\* An edge closes its end of a connection.
LEMMA HangupOK ==
  ASSUME SnTcpAssumption, IInv, NEW m \in Mac, Hangup(m)
  PROVE  IInv'
  <1> DEFINE fd == client[m]
             x == sock[fd]
             y == [x EXCEPT !.eof = TRUE]
  <1>1. client \in [Mac -> Fd \cup {NoFd, Waits}] /\ sock \in [Fd -> Socket \cup {Closed}]
    BY DEF IInv, Good, Typed
  <1>2. /\ client' = [client EXCEPT ![m] = NoFd] /\ sock' = [sock EXCEPT ![fd].eof = TRUE] /\ fd \in Fd
        /\ UNCHANGED <<conns, edges, backlog, pc, mask, todo>>
    BY DEF Hangup, IsTcp
  <1>3. x # Closed /\ x \in Socket
    BY <1>1, <1>2 DEF IInv, Good, Served
  <1>4. y \in Socket /\ y.mac = x.mac /\ y.in = x.in
    BY Zenon, <1>3 DEF Socket
  <1>5. Put(sock', sock, fd, y)
    BY <1>2 DEF Put
  <1> HIDE DEF y
  <1>6. Continues(x.in, y.in)
    BY Zenon, <1>4 DEF Continues
  <1>7. Good(conns, sock', edges, client)
    <2>1. Good(conns, sock, edges, client) /\ fd \in Fd
      BY <1>2 DEF IInv
    <2> QED BY Zenon, <2>1, <1>3, <1>4, <1>5, <1>6, Arriving
  <1>8. client' \in [Mac -> Fd \cup {NoFd, Waits}] /\ \A n \in Mac : client'[n] = IF n = m THEN NoFd ELSE client[n]
    BY <1>1, <1>2
  <1>9. \A n \in Mac : client'[n] \in Fd => sock'[client'[n]] # Closed
    BY Zenon, <1>7, <1>8, Distinct DEF Good, Served
  <1>10. Good(conns, sock', edges, client')
    BY Zenon, <1>7, <1>8, <1>9, OtherClients
  <1>11. LoopOK'
    BY Zenon, <1>2 DEF IInv, LoopOK
  <1> QED BY Zenon, <1>2, <1>10, <1>11 DEF IInv

\* An edge sends a packet over its connection.
LEMMA SendFrameOK ==
  ASSUME SnTcpAssumption, IInv, NEW m \in Mac, NEW f \in Frames, SendFrame(m, f)
  PROVE  IInv'
  <1> DEFINE fd == client[m]
             x == sock[fd]
             y == [x EXCEPT !.in = x.in \o Bytes(f)]
  <1>1. client \in [Mac -> Fd \cup {NoFd, Waits}] /\ sock \in [Fd -> Socket \cup {Closed}]
    BY DEF IInv, Good, Typed
  <1>2. /\ sock' = [sock EXCEPT ![fd].in = @ \o Bytes(f)] /\ fd \in Fd
        /\ UNCHANGED <<conns, edges, backlog, client, pc, mask, todo>>
    BY DEF SendFrame, IsTcp
  <1>3. x # Closed /\ x \in Socket /\ x.in \in Seq(Byte)
    BY <1>1, <1>2 DEF IInv, Good, Served, Socket
  <1>4. Bytes(f) \in Seq(Byte) /\ Stream(Bytes(f))
    BY FrameIsStream
  <1>5. x.in \o Bytes(f) \in Seq(Byte)
    BY <1>3, <1>4, ConcatProperties
  <1>6. y \in Socket /\ y.mac = x.mac /\ y.in = x.in \o Bytes(f)
    BY Zenon, <1>3, <1>5 DEF Socket
  <1>7. Put(sock', sock, fd, y)
    BY <1>2 DEF Put
  <1> HIDE DEF y
  <1>8. ASSUME NEW b \in Seq(Byte), Stream(b \o x.in) PROVE Stream(b \o y.in)
    <2>1. b \o x.in \in Seq(Byte)
      BY <1>3, ConcatProperties
    <2>2. Stream((b \o x.in) \o Bytes(f))
      BY Zenon, <2>1, <1>4, <1>8, Joined
    <2>3. (b \o x.in) \o Bytes(f) = b \o (x.in \o Bytes(f))
      <3>1. x.in \in Seq(Byte) /\ Bytes(f) \in Seq(Byte)
        BY <1>3, <1>4
      <3> HIDE DEF x
      <3> QED BY Zenon, <3>1, Associative
    <2> QED BY <2>2, <2>3, <1>6
  <1>9. Good(conns, sock', edges, client)
    <2>1. Good(conns, sock, edges, client) /\ fd \in Fd
      BY <1>2 DEF IInv
    <2>2. Continues(x.in, y.in)
      BY Zenon, <1>8 DEF Continues
    <2> QED BY Zenon, <2>1, <2>2, <1>3, <1>6, <1>7, Arriving
  <1>10. LoopOK'
    BY Zenon, <1>2 DEF IInv, LoopOK
  <1> QED BY Zenon, <1>2, <1>9, <1>10 DEF IInv

\* select: the descriptors that are ready, or an error.
LEMMA SelectOK ==
  ASSUME SnTcpAssumption, IInv, Select
  PROVE  IInv'
  <1>1. UNCHANGED <<conns, edges, sock, backlog, client>> /\ Good(conns', sock', edges', client')
    BY DEF Select, IInv
  <1>2. /\ mask' \in SUBSET (Fd \cup {UdpFd, ListenFd, MgmtFd}) /\ pc' \in {"failed", "tail", "udp"}
        /\ ListenFd \in mask' => backlog # <<>>
    <2>1. CASE \E i \in DOMAIN conns : sock[conns[i].fd] = Closed
      BY <2>1 DEF Select
    <2>2. CASE ~(\E i \in DOMAIN conns : sock[conns[i].fd] = Closed)
      <3> DEFINE ready == {fd \in Fd : sock[fd] # Closed /\ (sock[fd].in # <<>> \/ sock[fd].eof)}
                 other == {x \in {UdpFd, MgmtFd} :
                             IF x = UdpFd THEN used.udp < MaxUdp ELSE used.reloads < MaxReloads}
      <3>1. PICK more \in SUBSET other :
                /\ mask' = ready \cup more \cup (IF backlog = <<>> THEN {} ELSE {ListenFd})
                /\ pc' = IF mask' = {} THEN "tail" ELSE "udp"
        BY Zenon, <2>2 DEF Select
      <3>2. ready \in SUBSET Fd /\ more \in SUBSET {UdpFd, MgmtFd}
        OBVIOUS
      <3>3. ListenFd \notin {UdpFd, MgmtFd} /\ ListenFd \notin Fd
        BY Distinct DEF ListenFd, UdpFd, MgmtFd
      <3> HIDE DEF ready, other
      <3>4. pc' \in {"tail", "udp"}
        BY <3>1
      <3>5. mask' \in SUBSET (Fd \cup {UdpFd, ListenFd, MgmtFd})
        BY Zenon, <3>1, <3>2
      <3>6. ListenFd \in mask' => backlog # <<>>
        BY Zenon, <3>1, <3>2, <3>3
      <3> QED BY <3>4, <3>5, <3>6
    <2> QED BY <2>1, <2>2
  <1>3. todo' = IF pc' = "udp" THEN [i \in DOMAIN conns |-> conns[i].fd] ELSE <<>>
    BY DEF Select
  <1>4. todo' \in Seq(Fd) /\ (pc' = "udp" => DOMAIN todo' = DOMAIN conns /\ \A i \in DOMAIN conns : todo'[i] = conns[i].fd)
    <2>1. conns \in Seq(Conn)
      BY DEF IInv, Good, Typed
    <2>2. Len(conns) \in Nat /\ DOMAIN conns = 1..Len(conns) /\ \A i \in DOMAIN conns : conns[i].fd \in Fd
      BY Zenon, <2>1, OfConn
    <2>3. [i \in DOMAIN conns |-> conns[i].fd] \in Seq(Fd)
      <3>1. [i \in DOMAIN conns |-> conns[i].fd] \in [1..Len(conns) -> Fd]
        BY <2>2
      <3> QED BY <3>1, <2>2, SeqDef
    <2>4. <<>> \in Seq(Fd)
      BY EmptySeq
    <2> QED BY <2>3, <2>4, <1>3
  <1>5. LoopOK'
    <2>1. backlog' \in Seq(Mac)
      BY <1>1 DEF IInv, LoopOK
    <2>2. pc' = "udp" => \A k \in DOMAIN todo' : \E i \in DOMAIN conns' : conns'[i].fd = todo'[k]
      BY <1>1, <1>4
    <2> QED BY <1>1, <1>2, <1>4, <2>1, <2>2 DEF LoopOK
  <1> QED BY <1>1, <1>5 DEF IInv

\* UDP input and a turn of the loop over the connections delete none.
LEMMA VisitOK ==
  ASSUME IInv, pc \in {"udp", "tcp"}, pc' = "tcp", UNCHANGED <<backlog, mask>>, todo' = todo \/ (todo # <<>> /\ todo' = Tail(todo)),
         Good(conns', sock', edges', client'), DOMAIN conns' = DOMAIN conns,
         \A j \in DOMAIN conns : conns'[j].fd = conns[j].fd
  PROVE  IInv'
  <1>1. todo \in Seq(Fd) /\ \A k \in DOMAIN todo : \E i \in DOMAIN conns : conns[i].fd = todo[k]
    BY DEF IInv, LoopOK
  <1>2. todo' \in Seq(Fd) /\ \A k \in DOMAIN todo' : \E j \in DOMAIN todo : todo'[k] = todo[j]
    <2>1. CASE todo' = todo
      BY <2>1, <1>1
    <2>2. CASE todo # <<>> /\ todo' = Tail(todo)
      <3>1. /\ todo' \in Seq(Fd) /\ Len(todo') = Len(todo) - 1 /\ Len(todo) \in Nat
            /\ \A k \in 1..Len(todo') : todo'[k] = todo[k + 1]
        BY <2>2, <1>1, HeadTailProperties, LenProperties
      <3>2. DOMAIN todo' = 1..Len(todo') /\ DOMAIN todo = 1..Len(todo)
        BY <3>1, <1>1, LenProperties
      <3>3. \A k \in 1..Len(todo') : k + 1 \in 1..Len(todo)
        BY <3>1
      <3> QED BY Zenon, <3>1, <3>2, <3>3
    <2> QED BY <2>1, <2>2
  <1>3. \A k \in DOMAIN todo' : \E i \in DOMAIN conns' : conns'[i].fd = todo'[k]
    BY <1>1, <1>2
  <1>4. LoopOK'
    BY Zenon, <1>2, <1>3 DEF IInv, LoopOK
  <1> QED BY Zenon, <1>4 DEF IInv

\* The datagram on the UDP socket.
LEMMA UdpInputOK ==
  ASSUME SnTcpAssumption, IInv, UdpInput
  PROVE  IInv'
  <1>1. pc = "udp" /\ pc' = "tcp" /\ UNCHANGED <<backlog, mask, todo>>
    BY DEF UdpInput
  <1>2. /\ Good(conns', sock', edges', client') /\ DOMAIN conns' = DOMAIN conns
        /\ \A j \in DOMAIN conns : conns'[j].fd = conns[j].fd
    <2>1. CASE UdpFd \in mask
      <3>1. PICK m \in Mac, k \in {"REGISTER_SUPER", "PACKET", "UNREGISTER_SUPER", "ELSEWHERE"} :
                Process(m, k, UdpFd, conns, sock)
        BY <2>1 DEF UdpInput
      <3> QED BY Zenon, <3>1, ProcessOK DEF IInv
    <2>2. CASE UdpFd \notin mask
      <3>1. UNCHANGED <<conns, edges, sock, client>>
        BY <2>2 DEF UdpInput
      <3> QED BY <3>1 DEF IInv
    <2> QED BY <2>1, <2>2
  <1> QED BY Zenon, <1>1, <1>2, VisitOK

\* The next of the connections that the loop visits.
LEMMA TcpInputOK ==
  ASSUME SnTcpAssumption, IInv, TcpInput
  PROVE  IInv'
  <1> DEFINE i == CHOOSE j \in DOMAIN conns : conns[j].fd = Head(todo)
  <1>1. pc = "tcp" /\ pc' = "tcp" /\ todo # <<>> /\ todo' = Tail(todo) /\ UNCHANGED <<backlog, mask>>
    BY DEF TcpInput
  <1>2. \/ UNCHANGED <<conns, edges, sock, client>>
        \/ ~conns[i].inactive /\ TcpRead(i)
    BY DEF TcpInput
  <1>3. i \in DOMAIN conns
    <2>1. todo \in Seq(Fd) /\ \A k \in DOMAIN todo : \E j \in DOMAIN conns : conns[j].fd = todo[k]
      BY <1>1 DEF IInv, LoopOK
    <2>2. 1 \in DOMAIN todo /\ Head(todo) = todo[1]
      <3>1. Len(todo) \in Nat /\ Len(todo) # 0 /\ DOMAIN todo = 1..Len(todo)
        BY <2>1, <1>1, LenProperties, EmptySeq
      <3> QED BY <3>1, <2>1, <1>1, HeadTailProperties
    <2> QED BY <2>1, <2>2
  <1> HIDE DEF i
  <1>4. /\ Good(conns', sock', edges', client') /\ DOMAIN conns' = DOMAIN conns
        /\ \A j \in DOMAIN conns : conns'[j].fd = conns[j].fd
    <2>1. CASE UNCHANGED <<conns, edges, sock, client>>
      BY <2>1 DEF IInv
    <2>2. CASE ~conns[i].inactive /\ TcpRead(i)
      BY Zenon, <2>2, <1>3, ReadOK DEF IInv
    <2> QED BY <2>1, <2>2, <1>2
  <1> QED BY Zenon, <1>1, <1>4, VisitOK

\* The deletion of the connections that were marked during the visits.
LEMMA ReapOK ==
  ASSUME SnTcpAssumption, IInv, Reap
  PROVE  IInv'
  <1> DEFINE K == {i \in DOMAIN conns : ~conns[i].inactive}
  <1>1. /\ pc = "tcp" /\ pc' = "accept" /\ conns' = Only(conns, K)
        /\ UNCHANGED <<edges, sock, backlog, client, mask, todo>>
    BY DEF Reap
  <1>2. conns \in Seq(Conn) /\ K \in SUBSET DOMAIN conns /\ \A i \in K : ~conns[i].inactive
    BY DEF IInv, Good, Typed
  <1>3. \A i \in DOMAIN conns : ~conns[i].inactive => i \in K
    OBVIOUS
  <1> HIDE DEF K
  <1>4. conns' \in Seq(Conn) /\ \E pos : Sifted(conns', conns, K, pos)
    <2>1. Only(conns, K) \in Seq(Conn) /\ \E pos : Sifted(Only(conns, K), conns, K, pos)
      BY Zenon, <1>2, Others
    <2> QED BY Zenon, <2>1, <1>1
  <1>5. PICK pos : Sifted(conns', conns, K, pos)
    BY Zenon, <1>4
  <1>6. \A r \in DOMAIN conns' : pos[r] \in K /\ conns'[r] = conns[pos[r]]
    BY <1>5 DEF Sifted
  <1>7. Good(conns', sock, edges, client)
    BY Zenon, <1>2, <1>3, <1>4, <1>5, Removing DEF IInv
  <1>8. \A r \in DOMAIN conns' : ~conns'[r].inactive
    BY Zenon, <1>2, <1>5, <1>6
  <1>9. LoopOK'
    BY <1>1, <1>8 DEF IInv, LoopOK
  <1> QED BY <1>1, <1>7, <1>9 DEF IInv

\* Below the limit a descriptor is free.
LEMMA FreeFd ==
  ASSUME SnTcpAssumption, Good(conns, sock, edges, client), Len(conns) < ConnLimit
  PROVE  \E fd \in Fd : sock[fd] = Closed
  <1> SUFFICES ASSUME \A fd \in Fd : sock[fd] # Closed PROVE FALSE
    OBVIOUS
  <1> DEFINE n == Len(conns)
             g == [i \in 1..n |-> conns[i].fd]
  <1>1. n \in Nat /\ DOMAIN conns = 1..n /\ \A i \in 1..n : conns[i].fd \in Fd
    BY OfConn DEF Good, Typed
  <1>2. \A fd \in Fd : \E i \in 1..n : conns[i].fd = fd
    BY <1>1 DEF Good, Linked
  <1>3. IsFiniteSet(Fd) /\ ConnLimit \in 0..Cardinality(Fd) /\ n < ConnLimit
    BY DEF SnTcpAssumption
  <1>4. IsFiniteSet(1..n) /\ Cardinality(1..n) = n
    BY <1>1, FS_Interval
  <1> HIDE DEF n
  <1>5. g \in Surjection(1..n, Fd)
    BY <1>1, <1>2 DEF Surjection
  <1> HIDE DEF g
  <1>6. Cardinality(Fd) <= n
    BY <1>4, <1>5, FS_Surjection
  <1>7. Cardinality(Fd) \in Nat
    BY <1>3, FS_CardinalityType
  <1> QED BY <1>1, <1>3, <1>6, <1>7

\* A new connection at a free descriptor.
LEMMA Accepted ==
  ASSUME SnTcpAssumption, NEW cs, NEW s, NEW e, NEW cl, Good(cs, s, e, cl),
         \A i \in DOMAIN cs : ~cs[i].inactive,
         NEW fd \in Fd, s[fd] = Closed, NEW m \in Mac,
         NEW ds, ds = Append(cs, [fd |-> fd, inactive |-> FALSE, expected |-> Header, buffer |-> <<>>]),
         NEW t, t = [s EXCEPT ![fd] = [mac |-> m, in |-> <<>>, eof |-> FALSE]],
         NEW cm, cm = [cl EXCEPT ![m] = fd]
  PROVE  Good(ds, t, e, cm)
  <1> DEFINE d == [fd |-> fd, inactive |-> FALSE, expected |-> Header, buffer |-> <<>>]
             x == [mac |-> m, in |-> <<>>, eof |-> FALSE]
             n == Len(cs)
  <1>1. /\ cs \in Seq(Conn) /\ s \in [Fd -> Socket \cup {Closed}]
        /\ e \in [Mac -> Fd \cup {NoFd, UdpFd}] /\ cl \in [Mac -> Fd \cup {NoFd, Waits}]
    BY DEF Good, Typed
  <1>2. n \in Nat /\ DOMAIN cs = 1..n /\ \A i \in 1..n : cs[i] \in Conn /\ cs[i].fd \in Fd
    BY Zenon, <1>1, OfConn
  <1>3. <<>> \in Seq(Byte) /\ Header \in Nat
    BY EmptySeq DEF Header
  <1>4. d \in Conn /\ d.fd = fd /\ ~d.inactive /\ d.expected = Header /\ d.buffer = <<>>
    BY <1>3 DEF Conn
  <1>5. x \in Socket /\ x.mac = m /\ x.in = <<>> /\ x # Closed
    <2>1. x \in Socket /\ x.mac = m /\ x.in = <<>>
      BY <1>3 DEF Socket
    <2> QED BY Zenon, <2>1, SocketOpen
  <1> HIDE DEF d, x
  <1>6. ds = Append(cs, d) /\ t = [s EXCEPT ![fd] = x]
    BY DEF d, x
  <1>7. /\ ds \in Seq(Conn) /\ DOMAIN ds = 1..(n + 1) /\ ds[n + 1] = d
        /\ \A i \in 1..n : ds[i] = cs[i]
    <2>1. /\ ds \in Seq(Conn) /\ Len(ds) = n + 1 /\ ds[n + 1] = d /\ \A i \in 1..n : ds[i] = cs[i]
      BY <1>1, <1>4, <1>6, AppendProperties
    <2> QED BY <2>1, LenProperties
  <1>8. \A i \in 1..(n + 1) : i \in 1..n \/ i = n + 1
    BY <1>2
  <1>9. 1..n \subseteq 1..(n + 1) /\ n + 1 \in 1..(n + 1)
    BY <1>2
  <1> HIDE DEF n
  <1>10. t \in [Fd -> Socket \cup {Closed}] /\ \A y \in Fd : t[y] = IF y = fd THEN x ELSE s[y]
    BY Zenon, <1>1, <1>5, <1>6
  <1>11. cm \in [Mac -> Fd \cup {NoFd, Waits}] /\ \A k \in Mac : cm[k] = IF k = m THEN fd ELSE cl[k]
    BY <1>1
  <1>12. Typed(ds, t, e, cm)
    BY Zenon, <1>1, <1>7, <1>10, <1>11 DEF Typed
  <1>13. \A i \in 1..n : s[cs[i].fd] # Closed /\ cs[i].fd # fd /\ ~cs[i].inactive
    BY Zenon, <1>2 DEF Good, Linked
  <1>14. Linked(ds, t)
    <2>1. /\ \A i, j \in 1..n : cs[i].fd = cs[j].fd => i = j
          /\ \A y \in Fd : s[y] # Closed => \E i \in 1..n : cs[i].fd = y
      BY <1>2 DEF Good, Linked
    <2>2. \A i, j \in 1..(n + 1) : ds[i].fd = ds[j].fd => i = j
      <3>1. ds[n + 1].fd = fd /\ \A i \in 1..n : ds[i].fd = cs[i].fd /\ ds[i].fd # fd
        BY Zenon, <1>4, <1>7, <1>13
      <3> SUFFICES ASSUME NEW i \in 1..(n + 1), NEW j \in 1..(n + 1), ds[i].fd = ds[j].fd PROVE i = j
        BY Zenon
      <3>2. (i \in 1..n \/ i = n + 1) /\ (j \in 1..n \/ j = n + 1)
        BY Zenon, <1>8
      <3> QED BY ZenonT(40), <2>1, <3>1, <3>2
    <2>3. \A i \in 1..(n + 1) : ~ds[i].inactive /\ t[ds[i].fd] # Closed
      <3>1. ~ds[n + 1].inactive /\ t[ds[n + 1].fd] # Closed
        BY Zenon, <1>4, <1>5, <1>7, <1>10
      <3>2. \A i \in 1..n : ~ds[i].inactive /\ t[ds[i].fd] # Closed
        BY Zenon, <1>2, <1>7, <1>10, <1>13
      <3> QED BY Zenon, <3>1, <3>2, <1>8
    <2>4. ASSUME NEW y \in Fd, t[y] # Closed PROVE \E i \in 1..(n + 1) : ds[i].fd = y
      <3>1. CASE y = fd
        BY Zenon, <3>1, <1>4, <1>7, <1>9
      <3>2. CASE y # fd
        <4>1. s[y] # Closed
          BY Zenon, <3>2, <2>4, <1>10
        <4>2. PICK i \in 1..n : cs[i].fd = y
          BY Zenon, <4>1, <2>1
        <4>3. i \in 1..(n + 1) /\ ds[i].fd = y
          BY Zenon, <4>2, <1>7, <1>9
        <4> QED BY Zenon, <4>3
      <3> QED BY Zenon, <3>1, <3>2
    <2> QED BY Zenon, <2>2, <2>3, <2>4, <1>7 DEF Linked
  <1>15. Served(t, e, cm)
    <2>1. ASSUME NEW k \in Mac, e[k] \in Fd PROVE t[e[k]] # Closed /\ t[e[k]].mac = k
      BY Zenon, <2>1, <1>10 DEF Good, Served
    <2>2. ASSUME NEW k \in Mac, cm[k] \in Fd PROVE t[cm[k]] # Closed
      BY Zenon, <2>2, <1>5, <1>10, <1>11 DEF Good, Served
    <2> QED BY Zenon, <2>1, <2>2 DEF Served
  <1>16. Framed(ds, t)
    <2> SUFFICES ASSUME NEW i \in 1..(n + 1)
                 PROVE  Collected(ds[i].expected, ds[i].buffer) /\ Stream(ds[i].buffer \o t[ds[i].fd].in)
      BY Zenon, <1>7 DEF Framed
    <2>1. CASE i = n + 1
      <3>1. ds[i] = d /\ t[d.fd] = x
        BY Zenon, <2>1, <1>4, <1>7, <1>10
      <3>2. Len(<<>>) = 0 /\ <<>> \o <<>> = <<>>
        BY <1>3, EmptySeq, ConcatEmptySeq
      <3>3. Collected(Header, <<>>)
        BY <3>2 DEF Collected, SnTcpAssumption, Header
      <3>4. Stream(<<>>)
        BY <3>2 DEF Stream
      <3> QED BY Zenon, <3>1, <3>2, <3>3, <3>4, <1>4, <1>5
    <2>2. CASE i \in 1..n
      <3>1. ds[i] = cs[i] /\ t[cs[i].fd] = s[cs[i].fd]
        BY Zenon, <2>2, <1>2, <1>7, <1>10, <1>13
      <3> QED BY Zenon, <3>1, <2>2, <1>2, <1>13 DEF Good, Framed
    <2> QED BY Zenon, <2>1, <2>2, <1>8
  <1> QED BY Zenon, <1>12, <1>14, <1>15, <1>16 DEF Good

\* accept, with a new connection below the limit.
LEMMA AcceptOK ==
  ASSUME SnTcpAssumption, IInv, Accept
  PROVE  IInv'
  <1>1. pc = "accept" /\ pc' = "mgmt" /\ UNCHANGED <<edges, mask, todo>>
    BY DEF Accept
  <1>2. CASE ListenFd \in mask /\ Len(conns) < ConnLimit
    <2> DEFINE S == {x \in Fd : sock[x] = Closed}
               fd == Min(S)
               m == Head(backlog)
    <2>1. /\ conns' = Append(conns, [fd |-> fd, inactive |-> FALSE, expected |-> Header, buffer |-> <<>>])
          /\ sock' = [sock EXCEPT ![fd] = [mac |-> m, in |-> <<>>, eof |-> FALSE]]
          /\ client' = [client EXCEPT ![m] = fd] /\ backlog' = Tail(backlog)
      BY <1>2 DEF Accept
    <2>2. S # {} /\ S \in SUBSET Nat /\ S \in SUBSET Fd
      BY Zenon, <1>2, FreeFd DEF IInv, SnTcpAssumption
    <2>3. \A x \in S : sock[x] = Closed
      OBVIOUS
    <2> HIDE DEF S
    <2>4. fd \in S
      BY Zenon, <2>2, Least DEF Min
    <2>5. backlog \in Seq(Mac) /\ backlog # <<>>
      BY <1>1, <1>2 DEF IInv, LoopOK
    <2>6. m \in Mac /\ backlog' \in Seq(Mac)
      BY <2>1, <2>5, HeadTailProperties
    <2>7. \A i \in DOMAIN conns : ~conns[i].inactive
      BY <1>1 DEF IInv, LoopOK
    <2> HIDE DEF fd, m
    <2>8. fd \in Fd /\ sock[fd] = Closed
      BY Zenon, <2>2, <2>3, <2>4
    <2>9. Good(conns', sock', edges, client')
      BY Zenon, <2>1, <2>6, <2>7, <2>8, Accepted DEF IInv
    <2>10. LoopOK'
      BY <1>1, <2>6 DEF IInv, LoopOK
    <2> QED BY <1>1, <2>9, <2>10 DEF IInv
  <1>3. CASE ~(ListenFd \in mask /\ Len(conns) < ConnLimit)
    <2>1. UNCHANGED <<conns, sock, client, backlog>>
      BY <1>3 DEF Accept
    <2>2. LoopOK'
      BY <1>1, <2>1 DEF IInv, LoopOK
    <2> QED BY <1>1, <2>1, <2>2 DEF IInv
  <1> QED BY <1>2, <1>3

\* A request on the management port, which may reload the communities.
LEMMA MgmtOK ==
  ASSUME SnTcpAssumption, IInv, Mgmt
  PROVE  IInv'
  <1>1. pc = "mgmt" /\ pc' = "tail" /\ mask' = {} /\ UNCHANGED <<backlog, todo>>
    BY DEF Mgmt
  <1>2. Good(conns', sock', edges', client')
    <2>1. CASE MgmtFd \in mask
      <3> DEFINE fds == {edges[m] : m \in Mac} \cap Fd
                 e == [m \in Mac |-> NoFd]
      <3>1. conns' = Deactivate(conns, fds) /\ CloseConnections(fds, e, sock)
        BY <2>1 DEF Mgmt
      <3>2. fds \in SUBSET Fd /\ e \in [Mac -> Fd \cup {NoFd, UdpFd}] /\ \A m \in Mac : e[m] \notin Fd
        BY Distinct
      <3> HIDE DEF fds, e
      <3>3. Good(conns, sock, e, client)
        BY Zenon, <3>2, OtherEdges DEF IInv
      <3> QED BY <3>1, <3>2, <3>3, Closing DEF CloseConnections
    <2>2. CASE MgmtFd \notin mask
      <3>1. UNCHANGED <<conns, edges, sock, client>>
        BY <2>2 DEF Mgmt
      <3> QED BY <3>1 DEF IInv
    <2> QED BY <2>1, <2>2
  <1>3. LoopOK'
    BY <1>1 DEF IInv, LoopOK
  <1> QED BY <1>2, <1>3 DEF IInv

\* The connections closed after an error of select.
LEMMA SelectFailedOK ==
  ASSUME SnTcpAssumption, IInv, SelectFailed
  PROVE  IInv'
  <1>1. pc' = "tail" /\ UNCHANGED <<backlog, mask, todo>>
    BY DEF SelectFailed
  <1>2. Good(conns', sock', edges', client')
    <2> DEFINE fds == {conns[i].fd : i \in DOMAIN conns}
    <2>1. \/ conns' = Deactivate(conns, fds) /\ CloseConnections(fds, edges, sock)
          \/ UNCHANGED <<conns, edges, sock, client>>
      BY DEF SelectFailed
    <2>2. fds \in SUBSET Fd
      BY OfConn DEF IInv, Good, Typed
    <2> HIDE DEF fds
    <2>3. CASE conns' = Deactivate(conns, fds) /\ CloseConnections(fds, edges, sock)
      BY <2>2, <2>3, Closing DEF CloseConnections, IInv
    <2>4. CASE UNCHANGED <<conns, edges, sock, client>>
      BY <2>4 DEF IInv
    <2> QED BY <2>1, <2>3, <2>4
  <1>3. LoopOK'
    BY <1>1 DEF IInv, LoopOK
  <1> QED BY <1>2, <1>3 DEF IInv

\* The purge at the end of a round, which deletes connections itself.
LEMMA HousekeepingOK ==
  ASSUME SnTcpAssumption, IInv, Housekeeping
  PROVE  IInv'
  <1>1. pc' = "select" /\ UNCHANGED <<backlog, mask, todo>>
    BY DEF Housekeeping
  <1>2. PICK ms \in SUBSET {m \in Mac : edges[m] # NoFd} : Purge(ms)
    BY DEF Housekeeping
  <1> DEFINE fds == {edges[m] : m \in ms} \cap Fd
             e == [m \in Mac |-> IF m \in ms THEN NoFd ELSE edges[m]]
             K == {i \in DOMAIN conns : conns[i].fd \notin fds}
             ds == Deactivate(conns, fds)
  <1>3. CloseConnections(fds, e, sock) /\ conns' = Only(conns, K)
    BY <1>2 DEF Purge
  <1>4. conns \in Seq(Conn) /\ edges \in [Mac -> Fd \cup {NoFd, UdpFd}]
    BY DEF IInv, Good, Typed
  <1>5. /\ fds \in SUBSET Fd /\ e \in [Mac -> Fd \cup {NoFd, UdpFd}]
        /\ \A m \in Mac : e[m] \in Fd => e[m] = edges[m]
    BY <1>4, Distinct
  <1>6. /\ K \in SUBSET DOMAIN conns /\ \A i \in K : conns[i].fd \notin fds
        /\ \A i \in DOMAIN conns : i \notin K => conns[i].fd \in fds
    OBVIOUS
  <1> HIDE DEF fds, e, K
  <1>7. Good(conns, sock, e, client)
    <2>1. \A m \in Mac : e[m] \in Fd => sock[e[m]] # Closed /\ sock[e[m]].mac = m
      BY Zenon, <1>5 DEF IInv, Good, Served
    <2> QED BY Zenon, <2>1, <1>5, OtherEdges DEF IInv
  <1>8. Good(ds, sock', edges', client')
    BY <1>3, <1>5, <1>7, Closing DEF CloseConnections
  <1>9. /\ DOMAIN ds = DOMAIN conns
        /\ \A i \in DOMAIN conns : (conns[i].fd \in fds => ds[i].inactive) /\ (conns[i].fd \notin fds => ds[i] = conns[i])
    BY <1>4, Deactivated
  <1> HIDE DEF ds
  <1>10. conns' \in Seq(Conn) /\ \E pos : Sifted(conns', conns, K, pos)
    <2>1. Only(conns, K) \in Seq(Conn) /\ \E pos : Sifted(Only(conns, K), conns, K, pos)
      BY Zenon, <1>4, <1>6, Others
    <2> QED BY Zenon, <2>1, <1>3
  <1>11. PICK pos : Sifted(conns', conns, K, pos)
    BY Zenon, <1>10
  <1>12. \A i \in K : ds[i] = conns[i]
    BY <1>6, <1>9
  <1>13. Sifted(conns', ds, K, pos) /\ K \in SUBSET DOMAIN ds
    BY <1>6, <1>9, <1>11, <1>12 DEF Sifted
  <1>14. \A i \in DOMAIN ds : ~ds[i].inactive => i \in K
    BY Zenon, <1>6, <1>9
  <1>15. Good(conns', sock', edges', client')
    BY Zenon, <1>8, <1>10, <1>13, <1>14, Removing
  <1>16. LoopOK'
    BY <1>1 DEF IInv, LoopOK
  <1> QED BY <1>15, <1>16 DEF IInv

----------------------------------------------------------------------------
\* Every step preserves the invariant.
LEMMA NextOK ==
  ASSUME SnTcpAssumption, IInv, [Next]_vars
  PROVE  IInv'
  <1>1. CASE Loop
    BY <1>1, SelectOK, UdpInputOK, TcpInputOK, ReapOK, AcceptOK, MgmtOK, SelectFailedOK, HousekeepingOK DEF Loop
  <1>2. ASSUME NEW m \in Mac, Connect(m) \/ Hangup(m) \/ \E f \in Frames : SendFrame(m, f)
        PROVE  IInv'
    BY Zenon, <1>2, ConnectOK, HangupOK, SendFrameOK
  <1>3. CASE UNCHANGED vars
    BY Zenon, <1>3 DEF vars, IInv, LoopOK
  <1> QED BY Zenon, <1>1, <1>2, <1>3 DEF Next

\* The invariant has the properties that matter.
LEMMA InvariantImplies ==
  ASSUME SnTcpAssumption, IInv
  PROVE  TypeOK /\ EdgeOnOwnConnection /\ DescriptorsOwned /\ WholePackets
  <1>1. /\ conns \in Seq(Conn) /\ sock \in [Fd -> Socket \cup {Closed}]
        /\ \A i \in DOMAIN conns : conns[i] \in Conn
    BY Elements DEF IInv, Good, Typed
  <1>2. \A i \in DOMAIN conns : /\ conns[i].fd \in Fd /\ conns[i].inactive \in BOOLEAN
                                /\ conns[i].buffer \in Seq(Byte) /\ Len(conns[i].buffer) \in Nat
                                /\ DOMAIN conns[i].buffer = 1..Len(conns[i].buffer)
    BY <1>1, LenProperties DEF Conn
  <1>3. \A i \in DOMAIN conns : Collected(conns[i].expected, conns[i].buffer)
    BY DEF IInv, Good, Framed
  <1>4. TypeOK
    <2>1. \A i \in DOMAIN conns : conns[i].expected \in Header..BufSize /\ Len(conns[i].buffer) \in 0..BufSize
      BY <1>2, <1>3 DEF Collected, SnTcpAssumption, Header
    <2>2. \A fd \in Fd : sock[fd] # Closed => sock[fd].mac \in Mac /\ sock[fd].eof \in BOOLEAN
      BY <1>1 DEF Socket
    <2> QED BY <1>2, <2>1, <2>2 DEF IInv, Good, Typed, LoopOK, TypeOK
  <1>5. EdgeOnOwnConnection
    BY DEF IInv, Good, Served, EdgeOnOwnConnection, IsTcp
  <1>6. DescriptorsOwned
    <2> DEFINE active == {i \in DOMAIN conns : ~conns[i].inactive}
    <2>1. \A fd \in Fd : sock[fd] # Closed => \E i \in active : conns[i].fd = fd
      BY DEF IInv, Good, Linked
    <2>2. \A i \in active : conns[i].fd \in Fd /\ sock[conns[i].fd] # Closed
      BY <1>2 DEF IInv, Good, Linked
    <2>3. {fd \in Fd : sock[fd] # Closed} = {conns[i].fd : i \in active}
      BY <2>1, <2>2
    <2> QED BY <2>3 DEF IInv, Good, Linked, DescriptorsOwned
  <1>7. WholePackets
    BY <1>2, <1>3 DEF Collected, WholePackets
  <1> QED BY <1>4, <1>5, <1>6, <1>7

\* The TCP connections of run_sn_loop, for any number of edges, descriptors and
\* packets and in every order of connecting, sending, closing, purging and
\* reloading: an open descriptor belongs to one active connection and each
\* active connection has one, an edge is reached through its own connection,
\* and a connection collects one packet, from its first byte, within its buffer.
THEOREM ConnectionsCorrect ==
  ASSUME SnTcpAssumption
  PROVE  Spec => [](TypeOK /\ EdgeOnOwnConnection /\ DescriptorsOwned /\ WholePackets)
  <1>1. Init => IInv
    BY InitOK
  <1>2. IInv /\ [Next]_vars => IInv'
    BY NextOK
  <1>3. IInv => TypeOK /\ EdgeOnOwnConnection /\ DescriptorsOwned /\ WholePackets
    BY InvariantImplies
  <1> QED BY <1>1, <1>2, <1>3, PTL DEF Spec

=============================================================================
