--------------------------- MODULE WintunIoProofs ---------------------------
(***************************************************************************)
(* Proofs about WintunIo, for any addresses and any sizes of the cache and *)
(* of the queues.                                                          *)
(***************************************************************************)
EXTENDS WintunIo, SequenceTheorems, TLAPS

CacheEntry == [ip : Ip, mac : Mac]

\* The inductive invariant: the cache as a sequence with a bounded length.
IInv ==
    /\ cache \in Seq(CacheEntry) /\ Len(cache) <= CacheSize
    /\ ring \in Seq({Data, Icmp}) /\ Len(ring) <= RingSize
    /\ outq \in Seq(Packets)
    /\ arp \in Mac \cup {None} /\ writer \in {None, Data}
    /\ reader \in {"start", "receive", "waiting", "signaled"}
    /\ learned \in [Ip -> Mac \cup {None}]
    /\ CacheLatest

\* A sequence that is not too long is a bounded sequence.
LEMMA Bounded ==
    ASSUME NEW S, NEW n \in Nat, NEW q \in Seq(S), Len(q) <= n
    PROVE  q \in BoundedSeq(S, n)
<1>1. q \in [1..Len(q) -> S] /\ Len(q) \in 0..n
  BY LenProperties
<1> QED
  BY <1>1 DEF BoundedSeq, SeqOf

\* neighbor_learn keeps one entry for an address, the latest, and the rest.
LEMMA Learns ==
    ASSUME SizesPositive, IInv, NEW i \in Ip, NEW m \in Mac, WriteIpv4(i, m)
    PROVE  /\ cache' \in Seq(CacheEntry) /\ Len(cache') <= CacheSize
           /\ CacheLatest'
<1>1. /\ cache \in Seq(CacheEntry) /\ Len(cache) <= CacheSize /\ CacheSize \in Nat \ {0}
      /\ learned' = [learned EXCEPT ![i] = m] /\ cache' = neighbor_learn(i, m)
      /\ learned \in [Ip -> Mac \cup {None}]
  BY DEF IInv, SizesPositive, WriteIpv4
<1>2. ASSUME NEW n \in DOMAIN cache
      PROVE  /\ cache[n] \in CacheEntry /\ cache[n].mac = learned[cache[n].ip] /\ cache[n].ip # Own
             /\ \A k \in DOMAIN cache : cache[k].ip = cache[n].ip => k = n
  <2>1. cache[n] \in CacheEntry
    BY <1>1, ElementOfSeq, LenProperties
  <2> QED
    BY <2>1 DEF IInv, CacheLatest, Entries
<1>3. SUFFICES /\ cache' \in Seq(CacheEntry) /\ Len(cache') <= CacheSize
               /\ \A n \in DOMAIN cache' :
                      /\ cache'[n].mac = learned'[cache'[n].ip] /\ cache'[n].ip # Own
                      /\ \A k \in DOMAIN cache' : cache'[k].ip = cache'[n].ip => k = n
  BY DEF CacheLatest, Entries
<1>4. CASE i = Own
  BY <1>1, <1>2, <1>4 DEF neighbor_learn, CacheEntry
<1>5. CASE i # Own /\ Entries(i) # {}
  <2>1. cache' = [n \in 1..Len(cache) |-> IF cache[n].ip = i THEN [ip |-> i, mac |-> m] ELSE cache[n]]
    BY <1>1, <1>5, LenProperties DEF neighbor_learn, Entries
  <2>2. \A n \in 1..Len(cache) : cache'[n] \in CacheEntry
    BY <1>1, <1>2, <2>1, LenProperties DEF CacheEntry
  <2>3. cache' \in Seq(CacheEntry) /\ Len(cache') = Len(cache) /\ DOMAIN cache' = DOMAIN cache
    BY <1>1, <2>1, <2>2, LenProperties, IsASeq
  <2>4. ASSUME NEW n \in DOMAIN cache
        PROVE  cache'[n].ip = cache[n].ip /\ cache'[n].mac = learned'[cache'[n].ip]
    BY <1>1, <1>2, <2>1, <2>4, LenProperties DEF CacheEntry
  <2> QED
    BY <1>1, <1>2, <2>3, <2>4
<1>6. CASE i # Own /\ Entries(i) = {}
  <2> DEFINE old == IF Len(cache) < CacheSize THEN cache ELSE Tail(cache)
             d == IF Len(cache) < CacheSize THEN 0 ELSE 1
             new == [ip |-> i, mac |-> m]
  <2>1. cache' = Append(old, new) /\ new \in CacheEntry
    BY <1>1, <1>6 DEF neighbor_learn, CacheEntry
  <2>2. /\ old \in Seq(CacheEntry) /\ Len(old) < CacheSize /\ Len(old) = Len(cache) - d
        /\ \A n \in 1..Len(old) : old[n] = cache[n + d] /\ n + d \in 1..Len(cache)
    BY <1>1, LenProperties, HeadTailProperties
  <2>3. d \in 0..1
    OBVIOUS
  <2> HIDE DEF old, d, new
  <2>4. /\ cache' \in Seq(CacheEntry) /\ Len(cache') = Len(old) + 1 /\ cache'[Len(old) + 1] = new
        /\ \A n \in 1..Len(old) : cache'[n] = old[n]
        /\ DOMAIN cache' = 1..(Len(old) + 1) /\ Len(old) \in Nat
    BY <2>1, <2>2, AppendProperties, LenProperties
  <2>5. ASSUME NEW n \in 1..Len(old)
        PROVE  /\ cache'[n] = cache[n + d] /\ n + d \in DOMAIN cache
               /\ cache'[n].ip # i /\ cache'[n].mac = learned'[cache'[n].ip] /\ cache'[n].ip # Own
    <3>1. cache'[n] = cache[n + d] /\ n + d \in DOMAIN cache
      BY <1>1, <2>2, <2>4, LenProperties
    <3>2. cache[n + d].ip # i
      BY <1>6, <3>1 DEF Entries
    <3> QED
      BY <1>1, <1>2, <3>1, <3>2 DEF CacheEntry
  <2>6. new.ip = i /\ new.mac = learned'[i]
    BY <1>1 DEF new
  <2>7. ASSUME NEW n \in DOMAIN cache', NEW k \in DOMAIN cache', cache'[k].ip = cache'[n].ip
        PROVE  k = n
    <3>1. CASE n \in 1..Len(old) /\ k \in 1..Len(old)
      <4>1. k + d = n + d
        BY <1>2, <2>5, <2>7, <3>1
      <4> QED
        BY <2>3, <2>4, <3>1, <4>1
    <3>2. CASE n = Len(old) + 1 \/ k = Len(old) + 1
      BY <2>4, <2>5, <2>6, <2>7, <3>2
    <3> QED
      BY <2>4, <3>1, <3>2
  <2> QED
    BY <1>1, <1>6, <2>2, <2>4, <2>5, <2>6, <2>7
<1> QED
  BY <1>4, <1>5, <1>6

\* The device starts with empty tables.
LEMMA InitInv ==
    ASSUME SizesPositive
    PROVE  Init => IInv
<1> SUFFICES ASSUME Init PROVE IInv
  OBVIOUS
<1>1. DOMAIN cache = {}
  BY DEF Init
<1> QED
  BY <1>1 DEF Init, IInv, CacheLatest, SizesPositive

\* Every step of the two threads and of the system keeps the invariant.
LEMMA NextInv ==
    ASSUME SizesPositive
    PROVE  IInv /\ [Next]_vars => IInv'
<1> SUFFICES ASSUME IInv, [Next]_vars PROVE IInv'
  OBVIOUS
<1> DEFINE Unlearned == UNCHANGED <<cache, learned>>
<1>1. ASSUME Unlearned PROVE CacheLatest'
  BY <1>1 DEF IInv, CacheLatest, Entries
<1>2. ASSUME NEW m \in Mac, WriteArp(m) PROVE IInv'
  BY <1>1, <1>2 DEF WriteArp, IInv
<1>3. ASSUME NEW m \in Mac, NEW i \in Ip, WriteIpv4(i, m) PROVE IInv'
  BY Zenon, <1>3, Learns DEF WriteIpv4, IInv
<1>4. CASE WriteIpv6
  BY <1>1, <1>4 DEF WriteIpv6, IInv
<1>5. CASE WriteRing
  <2>1. ring' \in Seq({Data, Icmp}) /\ Len(ring') <= RingSize
    BY <1>5, SizesPositive, AppendProperties, LenProperties DEF WriteRing, IInv, SizesPositive
  <2> QED
    BY <1>1, <1>5, <2>1 DEF WriteRing, IInv
<1>6. CASE ReadArp \/ NoArp \/ Empty \/ Signaled \/ Timeout
  BY <1>1, <1>6 DEF ReadArp, NoArp, Empty, Signaled, Timeout, IInv
<1>7. CASE Receive
  <2>1. ring' \in Seq({Data, Icmp}) /\ Len(ring') <= RingSize
    BY <1>7, SizesPositive, AppendProperties, LenProperties DEF Receive, IInv, SizesPositive
  <2>2. outq' \in Seq(Packets)
    BY <1>7, HeadTailProperties DEF Receive, IInv
  <2> QED
    BY <1>1, <1>7, <2>1, <2>2 DEF Receive, IInv
<1>8. CASE SystemReceives
  <2>1. ring' \in Seq({Data, Icmp}) /\ Len(ring') <= RingSize
    BY <1>8, SizesPositive, HeadTailProperties, LenProperties DEF SystemReceives, IInv, SizesPositive
  <2> QED
    BY <1>1, <1>8, <2>1 DEF SystemReceives, IInv
<1>9. ASSUME NEW p \in Packets, SystemSends(p) PROVE IInv'
  <2>1. outq' \in Seq(Packets)
    BY <1>9, AppendProperties DEF SystemSends, IInv
  <2> QED
    BY <1>1, <1>9, <2>1 DEF SystemSends, IInv
<1>10. CASE UNCHANGED vars
  BY <1>1, <1>10 DEF vars, IInv
<1> QED
  BY <1>2, <1>3, <1>4, <1>5, <1>6, <1>7, <1>8, <1>9, <1>10 DEF Next, Write, Read

\* A frame leaves with the address that neighbor_learn recorded last.
LEMMA StepSends ==
    ASSUME IInv, [Next]_vars
    PROVE  [SentToLatestStep]_vars
<1> SUFFICES ASSUME got' # got, got'.v = "ipv4"
             PROVE  got'.to \in {Broadcast, learned[got'.ip]}
  BY DEF SentToLatestStep
<1>1. CASE Receive
  <2> DEFINE p == Head(outq)
  <2>1. p.v = 4 /\ got' = [to |-> neighbor_lookup(p.ip), ip |-> p.ip, v |-> "ipv4"]
    BY <1>1 DEF Receive, NoFrame
  <2>2. CASE Entries(p.ip) = {}
    BY <2>1, <2>2 DEF neighbor_lookup
  <2>3. CASE Entries(p.ip) # {}
    <3> DEFINE n == CHOOSE n \in Entries(p.ip) : TRUE
    <3>1. n \in Entries(p.ip)
      BY <2>3
    <3>2. neighbor_lookup(p.ip) = cache[n].mac
      BY <2>3 DEF neighbor_lookup
    <3>3. cache[n].mac = learned[p.ip]
      BY <3>1 DEF Entries, IInv, CacheLatest
    <3> QED
      BY <2>1, <3>2, <3>3
  <2> QED
    BY <2>2, <2>3
<1>2. CASE ReadArp \/ NoArp
  BY <1>2 DEF ReadArp, NoArp, NoFrame
<1>3. CASE ~(Receive \/ ReadArp \/ NoArp)
  BY <1>3 DEF Next, Write, Read, WriteArp, WriteIpv4, WriteIpv6, WriteRing, Empty, Signaled, Timeout,
              SystemReceives, SystemSends, vars
<1> QED
  BY <1>1, <1>2, <1>3

\* wintun_read and wintun_write, on their two threads, agree on the neighbors:
\* however entries are updated in place or pushed out of a full cache, a frame
\* goes to everybody or to the MAC address last seen with its destination.
THEOREM NeighborsCorrect ==
    ASSUME SizesPositive
    PROVE  Spec => SentToLatest
<1>1. IInv => TypeOK /\ CacheLatest
  <2> SUFFICES ASSUME IInv PROVE TypeOK
    BY DEF IInv
  <2>1. cache \in BoundedSeq([ip : Ip, mac : Mac], CacheSize)
    BY Bounded DEF IInv, CacheEntry, SizesPositive
  <2>2. ring \in BoundedSeq({Data, Icmp}, RingSize)
    BY Bounded DEF IInv, SizesPositive
  <2> QED
    BY <2>1, <2>2 DEF IInv, TypeOK
<1>2. IInv /\ [Next]_vars => [SentToLatestStep]_vars
  BY StepSends
<1> QED
  BY <1>1, <1>2, InitInv, NextInv, PTL DEF Spec, SentToLatest

=============================================================================
