-------------------------- MODULE TapTxQueueProofs --------------------------
(***************************************************************************)
(* Proofs about TapTxQueue, for any limits and lengths of packets: its     *)
(* counters, the wake-up of the main thread, and that it implements the    *)
(* queue that displaces the oldest packets.                                *)
(***************************************************************************)
EXTENDS TapTxQueue, SequenceTheorems, WellFoundedInduction, TLAPS

----------------------------------------------------------------------------
(* Lengths of packets added up.  Induction is by the least counterexample. *)

\* A set of natural numbers has a least element.
LEMMA Least ==
    ASSUME NEW T, T \subseteq Nat, T # {}
    PROVE  \E n \in T : \A m \in T : n <= m
<1>1. PICK n \in T : \A m \in T : ~(<<m, n>> \in OpToRel(<, Nat))
  BY WFMin, NatLessThanWellFounded
<1>2. \A m \in T : ~(m < n)
  BY Zenon, <1>1 DEF OpToRel
<1> QED
  BY <1>2

\* The sums of a sequence of packets, up to its n-th.
IsSums(f, s, n) == f = [i \in 0..n |-> IF i = 0 THEN 0 ELSE f[i - 1] + s[i].len]

\* They exist for every n.
LEMMA SumsExist ==
    ASSUME NEW s, NEW n \in Nat
    PROVE  \E f : IsSums(f, s, n)
<1> DEFINE T == {k \in Nat : ~\E f : IsSums(f, s, k)}
<1>1. SUFFICES ASSUME T # {} PROVE FALSE
  OBVIOUS
<1>2. PICK k \in T : \A m \in T : k <= m
  BY Zenon, <1>1, Least
<1>3. CASE k = 0
  <2> DEFINE f == [i \in 0..0 |-> 0]
  <2>1. IsSums(f, s, 0)
    BY DEF IsSums
  <2> QED
    BY <1>2, <1>3, <2>1
<1>4. CASE k # 0
  <2>1. k \in Nat /\ k - 1 \in Nat /\ k - 1 \notin T
    BY <1>2, <1>4
  <2>2. PICK f : IsSums(f, s, k - 1)
    BY <2>1
  <2> DEFINE g == [i \in 0..k |-> IF i = k THEN f[k - 1] + s[k].len ELSE f[i]]
  <2>3. ASSUME NEW i \in 0..k PROVE g[i] = IF i = 0 THEN 0 ELSE g[i - 1] + s[i].len
    <3>1. CASE i = k
      BY <1>4, <2>1, <3>1
    <3>2. CASE i # k
      <4>1. i \in 0..(k - 1) /\ (i # 0 => i - 1 \in 0..k /\ i - 1 # k)
        BY <2>1, <3>2
      <4>2. f[i] = IF i = 0 THEN 0 ELSE f[i - 1] + s[i].len
        BY <2>2, <4>1 DEF IsSums
      <4> QED
        BY <3>2, <4>1, <4>2
    <3> QED
      BY <3>1, <3>2
  <2>4. IsSums(g, s, k)
    BY <2>3 DEF IsSums
  <2> QED
    BY <1>2, <2>4
<1> QED
  BY <1>3, <1>4

\* Sums(s) adds up the lengths from the left.
LEMMA SumsDef ==
    ASSUME NEW s \in Seq(Packet)
    PROVE  /\ Queue!Sums(s)[0] = 0
           /\ \A i \in 1..Len(s) : Queue!Sums(s)[i] = Queue!Sums(s)[i - 1] + s[i].len
<1>1. Queue!Sums(s) = CHOOSE f : IsSums(f, s, Len(s))
  BY DEF Queue!Sums, IsSums
<1>2. Len(s) \in Nat
  BY LenProperties
<1>3. IsSums(Queue!Sums(s), s, Len(s))
  BY <1>1, <1>2, SumsExist
<1> DEFINE f == Queue!Sums(s)
<1>4. \A i \in 0..Len(s) : f[i] = IF i = 0 THEN 0 ELSE f[i - 1] + s[i].len
  BY <1>3 DEF IsSums
<1> HIDE DEF f
<1>5. f[0] = 0 /\ \A i \in 1..Len(s) : f[i] = f[i - 1] + s[i].len
  BY <1>2, <1>4
<1> QED
  BY <1>5 DEF f

\* A packet has a positive length.
LEMMA Lengths ==
    ASSUME NEW s \in Seq(Packet), NEW i \in 1..Len(s)
    PROVE  s[i] \in Packet /\ s[i].len \in Nat \ {0}
<1>1. s[i] \in Packet
  BY ElementOfSeq
<1> QED
  BY Zenon, <1>1, TapTxAssumption DEF Packet

\* The sums are natural numbers.
LEMMA SumsType ==
    ASSUME NEW s \in Seq(Packet), NEW n \in 0..Len(s)
    PROVE  Queue!Sums(s)[n] \in Nat
<1> DEFINE f == Queue!Sums(s)
           T == {k \in 0..Len(s) : f[k] \notin Nat}
<1>1. SUFFICES ASSUME T # {} PROVE FALSE
  OBVIOUS
<1>2. Len(s) \in Nat
  BY LenProperties
<1>3. PICK k \in T : \A m \in T : k <= m
  <2>1. T \subseteq Nat
    BY <1>2
  <2> QED
    BY Zenon, <1>1, <2>1, Least
<1>4. f[0] = 0 /\ \A i \in 1..Len(s) : f[i] = f[i - 1] + s[i].len
  BY SumsDef
<1> HIDE DEF f
<1>5. k # 0
  BY <1>3, <1>4
<1>6. k \in 1..Len(s) /\ k - 1 \in 0..Len(s) /\ k - 1 \notin T
  BY <1>2, <1>3, <1>5
<1>7. f[k - 1] \in Nat /\ s[k].len \in Nat
  BY <1>6, Lengths
<1> QED
  BY <1>3, <1>4, <1>6, <1>7

\* A part of a sequence, shifted by k, has the same lengths added up.
LEMMA Window ==
    ASSUME NEW s \in Seq(Packet), NEW t \in Seq(Packet), NEW k \in Nat, NEW n \in 0..Len(t),
           k + n <= Len(s), \A i \in 1..n : t[i] = s[k + i]
    PROVE  Queue!Sums(s)[k + n] = Queue!Sums(s)[k] + Queue!Sums(t)[n]
<1> DEFINE f == Queue!Sums(s)
           g == Queue!Sums(t)
           T == {j \in 0..n : f[k + j] # f[k] + g[j]}
<1>1. SUFFICES ASSUME T # {} PROVE FALSE
  <2>1. n \in 0..n /\ n \notin T
    BY <1>1, LenProperties
  <2> QED
    BY <2>1
<1>2. Len(s) \in Nat /\ Len(t) \in Nat /\ n \in Nat
  BY LenProperties
<1>3. PICK j \in T : \A m \in T : j <= m
  <2>1. T \subseteq Nat
    BY <1>2
  <2> QED
    BY Zenon, <1>1, <2>1, Least
<1>4. /\ f[0] = 0 /\ \A i \in 1..Len(s) : f[i] = f[i - 1] + s[i].len
      /\ g[0] = 0 /\ \A i \in 1..Len(t) : g[i] = g[i - 1] + t[i].len
  BY SumsDef
<1>5. /\ \A i \in 0..Len(s) : f[i] \in Nat
      /\ \A i \in 0..Len(t) : g[i] \in Nat
  BY SumsType
<1> HIDE DEF f, g
<1>6. j # 0
  <2>1. k \in 0..Len(s) /\ k + 0 = k
    BY <1>2
  <2>2. f[k] \in Nat
    BY <1>5, <2>1
  <2>3. f[k + 0] = f[k] + g[0]
    BY <1>4, <2>1, <2>2
  <2> QED
    BY <1>3, <2>3
<1>7. /\ j \in 1..n /\ j \in 1..Len(t) /\ k + j \in 1..Len(s) /\ k + j - 1 \in 0..Len(s) /\ k \in 0..Len(s)
      /\ j - 1 \in 0..n /\ j - 1 \notin T /\ j - 1 \in 0..Len(t) /\ k + (j - 1) = (k + j) - 1
  BY <1>2, <1>3, <1>6
<1>8. f[(k + j) - 1] = f[k] + g[j - 1]
  <2>1. f[k + (j - 1)] = f[k] + g[j - 1]
    BY Zenon, <1>7
  <2> QED
    BY Zenon, <2>1, <1>7
<1>9. f[k + j] = f[(k + j) - 1] + s[k + j].len /\ g[j] = g[j - 1] + t[j].len /\ t[j] = s[k + j]
  BY <1>4, <1>7
<1>10. t[j].len \in Nat
  BY <1>7, Lengths
<1>11. f[k + j] = f[k] + g[j]
  <2>1. f[k] \in Nat /\ g[j - 1] \in Nat
    BY Zenon, <1>5, <1>7
  <2>2. f[k + j] = (f[k] + g[j - 1]) + t[j].len /\ g[j] = g[j - 1] + t[j].len
    BY Zenon, <1>8, <1>9
  <2>3. \A x, y, z \in Nat : (x + y) + z = x + (y + z)
    OBVIOUS
  <2>4. (f[k] + g[j - 1]) + t[j].len = f[k] + (g[j - 1] + t[j].len)
    BY ZenonT(40), <2>1, <2>3, <1>10
  <2> QED
    BY Zenon, <2>2, <2>4
<1> QED
  BY <1>3, <1>11

\* A packet at the end adds its length.
LEMMA BytesAppend ==
    ASSUME NEW s \in Seq(Packet), NEW p \in Packet
    PROVE  /\ Queue!Bytes(Append(s, p)) = Queue!Bytes(s) + p.len
           /\ Queue!Bytes(s) \in Nat
<1> DEFINE t == Append(s, p)
<1>1. /\ t \in Seq(Packet) /\ Len(t) = Len(s) + 1 /\ t[Len(s) + 1] = p
      /\ \A i \in 1..Len(s) : t[i] = s[i]
  BY AppendProperties
<1>2. Len(s) \in Nat
  BY LenProperties
<1> HIDE DEF t
<1>3. Queue!Sums(t)[0 + Len(s)] = Queue!Sums(t)[0] + Queue!Sums(s)[Len(s)]
  <2>1. 0 + Len(s) <= Len(t) /\ Len(s) \in 0..Len(s) /\ \A i \in 1..Len(s) : s[i] = t[0 + i]
    BY <1>1, <1>2
  <2> QED
    BY ZenonT(40), <1>1, <2>1, Window
<1>4. Queue!Sums(t)[0] = 0 /\ Queue!Sums(t)[Len(s) + 1] = Queue!Sums(t)[(Len(s) + 1) - 1] + t[Len(s) + 1].len
  <2>1. Len(s) + 1 \in 1..Len(t)
    BY <1>1, <1>2
  <2> QED
    BY <1>1, <2>1, SumsDef
<1>5. Queue!Sums(s)[Len(s)] \in Nat
  BY <1>2, SumsType
<1>6. 0 + Len(s) = Len(s) /\ (Len(s) + 1) - 1 = Len(s)
  BY <1>2
<1>7. Queue!Sums(t)[Len(t)] = Queue!Sums(s)[Len(s)] + p.len
  BY <1>1, <1>3, <1>4, <1>5, <1>6
<1> QED
  BY <1>5, <1>7 DEF Queue!Bytes, t

\* The first k packets, and the rest of them as a sequence of its own.
LEMMA BytesRest ==
    ASSUME NEW s \in Seq(Packet), NEW t \in Seq(Packet), NEW k \in Nat,
           Len(s) = k + Len(t), \A i \in 1..Len(t) : t[i] = s[k + i]
    PROVE  Queue!Bytes(s) = Queue!Sums(s)[k] + Queue!Bytes(t)
<1>1. Len(t) \in Nat /\ Len(t) \in 0..Len(t) /\ k + Len(t) <= Len(s)
  BY LenProperties
<1>2. Queue!Sums(s)[k + Len(t)] = Queue!Sums(s)[k] + Queue!Sums(t)[Len(t)]
  BY Zenon, <1>1, Window
<1> QED
  BY <1>2 DEF Queue!Bytes

\* Removing the head takes its length away.
LEMMA BytesTail ==
    ASSUME NEW s \in Seq(Packet), s # <<>>
    PROVE  /\ Queue!Bytes(s) = Head(s).len + Queue!Bytes(Tail(s))
           /\ Head(s) \in Packet /\ Head(s).len \in Nat /\ Queue!Bytes(Tail(s)) \in Nat
<1> DEFINE t == Tail(s)
<1>1. /\ t \in Seq(Packet) /\ Len(s) = 1 + Len(t) /\ Len(t) \in Nat /\ Head(s) = s[1]
      /\ \A i \in 1..Len(t) : t[i] = s[1 + i]
  BY HeadTailProperties, LenProperties
<1> HIDE DEF t
<1>2. Queue!Bytes(s) = Queue!Sums(s)[1] + Queue!Bytes(t)
  BY <1>1, BytesRest
<1>3. 1 \in 1..Len(s)
  BY <1>1
<1>4. Queue!Sums(s)[1] = Queue!Sums(s)[1 - 1] + s[1].len /\ Queue!Sums(s)[0] = 0
  BY <1>3, SumsDef
<1>5. s[1] \in Packet /\ s[1].len \in Nat
  BY <1>3, Lengths
<1>6. Queue!Bytes(t) \in Nat
  BY <1>1, SumsType DEF Queue!Bytes
<1>7. Queue!Sums(s)[1] = s[1].len
  BY <1>4, <1>5
<1> QED
  BY <1>1, <1>2, <1>5, <1>6, <1>7 DEF t

\* Nothing to add up.
LEMMA BytesEmpty == Queue!Bytes(<<>>) = 0
<1>1. <<>> \in Seq(Packet) /\ Len(<<>>) = 0
  OBVIOUS
<1> QED
  BY Zenon, <1>1, SumsDef DEF Queue!Bytes

\* More packets are not shorter together.
LEMMA SumsGrow ==
    ASSUME NEW s \in Seq(Packet), NEW k \in Nat, NEW m \in Nat, k <= m, m <= Len(s)
    PROVE  Queue!Sums(s)[k] <= Queue!Sums(s)[m]
<1> DEFINE t == SubSeq(s, k + 1, m)
           n == m - k
<1>1. Len(s) \in Nat /\ n \in Nat /\ k + n = m /\ k + n <= Len(s)
  BY LenProperties
<1>2. /\ t \in Seq(Packet) /\ Len(t) = n
      /\ \A i \in 1..n : t[i] = s[k + i]
  BY <1>1, SubSeqProperties
<1> HIDE DEF t, n
<1>3. n \in 0..Len(t)
  BY <1>1, <1>2
<1>4. Queue!Sums(s)[k + n] = Queue!Sums(s)[k] + Queue!Sums(t)[n]
  BY Zenon, <1>1, <1>2, <1>3, Window
<1>5. Queue!Sums(t)[n] \in Nat /\ Queue!Sums(s)[k] \in Nat
  BY <1>1, <1>2, <1>3, SumsType
<1> QED
  BY <1>1, <1>4, <1>5

----------------------------------------------------------------------------
(* The inductive invariant.                                                *)

\* The spin lock is held by the thread that is between taking and releasing
\* it; the main thread takes it to dequeue only within its budget, and has
\* waited for the reader when it ends.
LockOK ==
    /\ lock = "reader" <=> reader = "locked"
    /\ lock = "main" <=> main \in {"checking", "dequeue"}
    /\ main = "dequeue" => budget > 0
    /\ main = "end" => reader = "done"

\* The packet to be enqueued has passed the test of its length.
EntryOK == reader \in {"acquire", "locked"} => entry \in Packet /\ entry.len <= MaxBytes

\* tap_tx_wake_pending says whether there are packets.
PendingOK == wake_pending <=> queue # <<>>

\* Packets are displaced only under the lock, and the last one had to be:
\* with it the new packet would have found no room.
DroppedOK ==
    dropped # <<>> =>
        /\ reader = "locked"
        /\ \/ Len(queue) + 1 >= MaxPackets
           \/ dropped[Len(dropped)].len + bytes + entry.len > MaxBytes

IInv ==
    /\ TypeOK /\ LockOK /\ EntryOK /\ PendingOK /\ DroppedOK
    /\ CountersMatch /\ NoSleepOnPackets

\* It holds when the queue has been initialised.
LEMMA InitInv == Init => IInv
<1> SUFFICES ASSUME Init PROVE IInv
  OBVIOUS
<1>1. TypeOK
  <2>1. 0 \in 0..MaxReads /\ 0 \in 0..Budget /\ 0 \in Nat
    BY TapTxAssumption
  <2>2. <<>> \in Seq(Packet)
    OBVIOUS
  <2> QED
    BY <2>1, <2>2, Zenon DEF Init, TypeOK
<1>2. CountersMatch
  BY BytesEmpty, TapTxAssumption DEF Init, CountersMatch
<1> QED
  BY <1>1, <1>2 DEF Init, IInv, LockOK, EntryOK, PendingOK, DroppedOK, NoSleepOnPackets

\* Removing the head keeps the counters and tap_tx_wake_pending right.
LEMMA Removes ==
    ASSUME IInv, RemoveHead, queue # <<>>
    PROVE  /\ queue' \in Seq(Packet) /\ count' \in Nat /\ bytes' \in Nat /\ wake_pending' \in BOOLEAN
           /\ Head(queue) \in Packet /\ bytes = Head(queue).len + bytes' /\ Head(queue).len \in Nat
           /\ Len(queue) = Len(queue') + 1 /\ PendingOK' /\ CountersMatch'
<1>1. /\ queue \in Seq(Packet) /\ count = Len(queue) /\ bytes = Queue!Bytes(queue)
      /\ count <= MaxPackets /\ bytes <= MaxBytes /\ (wake_pending <=> queue # <<>>)
      /\ wake_pending \in BOOLEAN
  BY DEF IInv, TypeOK, CountersMatch, PendingOK
<1>2. /\ Tail(queue) \in Seq(Packet) /\ Len(Tail(queue)) = Len(queue) - 1 /\ Len(queue) \in Nat \ {0}
  BY <1>1, HeadTailProperties, LenProperties, EmptySeq
<1>3. /\ bytes = Head(queue).len + Queue!Bytes(Tail(queue))
      /\ Head(queue) \in Packet /\ Head(queue).len \in Nat /\ Queue!Bytes(Tail(queue)) \in Nat
  BY <1>1, BytesTail
<1>4. /\ queue' = Tail(queue) /\ count' = count - 1
      /\ bytes' = Queue!Bytes(Tail(queue))
      /\ wake_pending' = (Tail(queue) # <<>>)
  BY SMTT(40), <1>1, <1>2, <1>3 DEF RemoveHead
<1>5. CountersMatch'
  BY <1>1, <1>2, <1>3, <1>4, TapTxAssumption DEF CountersMatch
<1>6. wake_pending' \in BOOLEAN /\ PendingOK'
  BY Zenon, <1>4 DEF PendingOK
<1>7. /\ queue' \in Seq(Packet) /\ count' \in Nat /\ bytes' \in Nat
      /\ bytes = Head(queue).len + bytes' /\ Len(queue) = Len(queue') + 1
  BY <1>1, <1>2, <1>3, <1>4
<1> QED
  BY <1>3, <1>5, <1>6, <1>7

\* Every step of the two threads keeps the invariant.
LEMMA NextInv == IInv /\ [Next]_vars => IInv'
<1> SUFFICES ASSUME IInv, [Next]_vars PROVE IInv'
  OBVIOUS
<1>a. ASSUME UNCHANGED shared PROVE CountersMatch' /\ PendingOK'
  BY <1>a DEF IInv, CountersMatch, PendingOK, shared
<1> USE DEF shared
<1>1. CASE ReadTap
  <2>1. PICK len \in Lens :
            \/ len <= MaxBytes /\ entry' = [id |-> reads', len |-> len] /\ reader' = "acquire"
            \/ UNCHANGED <<entry, reader>>
    BY <1>1 DEF ReadTap
  <2>2. reads' \in 1..MaxReads
    BY <1>1, TapTxAssumption DEF ReadTap, IInv, TypeOK
  <2>3. [id |-> reads', len |-> len] \in Packet
    BY <2>2 DEF Packet
  <2>4. TypeOK' /\ EntryOK'
    BY <1>1, <2>1, <2>2, <2>3 DEF ReadTap, IInv, TypeOK, EntryOK
  <2> QED
    BY <1>1, <1>a, <2>1, <2>4 DEF ReadTap, IInv, LockOK, DroppedOK, NoSleepOnPackets
<1>2. CASE tunReadThreadEnds
  BY <1>2, <1>a DEF tunReadThreadEnds, IInv, TypeOK, LockOK, EntryOK, DroppedOK, NoSleepOnPackets
<1>3. CASE ReaderLocks
  BY <1>3, <1>a DEF ReaderLocks, IInv, TypeOK, LockOK, EntryOK, DroppedOK, NoSleepOnPackets
<1>4. CASE ReaderDropsOldest
  <2>1. /\ queue' \in Seq(Packet) /\ count' \in Nat /\ bytes' \in Nat /\ wake_pending' \in BOOLEAN
        /\ Head(queue) \in Packet /\ bytes = Head(queue).len + bytes' /\ Head(queue).len \in Nat
        /\ Len(queue) = Len(queue') + 1 /\ PendingOK' /\ CountersMatch'
    BY <1>4, Removes DEF ReaderDropsOldest
  <2>2. /\ dropped' \in Seq(Packet) /\ Len(dropped') = Len(dropped) + 1
        /\ dropped'[Len(dropped) + 1] = Head(queue)
    BY <1>4, <2>1, AppendProperties DEF ReaderDropsOldest, IInv, TypeOK
  <2>3. DroppedOK'
    BY <1>4, <2>1, <2>2 DEF ReaderDropsOldest, NoRoom, DroppedOK, IInv, CountersMatch
  <2>4. NoSleepOnPackets'
    BY <1>4, <2>1 DEF ReaderDropsOldest, IInv, NoSleepOnPackets
  <2> QED
    BY <1>4, <2>1, <2>2, <2>3, <2>4 DEF ReaderDropsOldest, IInv, TypeOK, LockOK, EntryOK
<1>5. CASE ReaderAppends
  <2>1. /\ queue \in Seq(Packet) /\ entry \in Packet /\ entry.len <= MaxBytes /\ entry.len \in Nat
        /\ count = Len(queue) /\ bytes = Queue!Bytes(queue) /\ Len(queue) \in Nat /\ bytes \in Nat
    BY Zenon, <1>5, TapTxAssumption, LenProperties DEF ReaderAppends, IInv, EntryOK, TypeOK, CountersMatch, Packet
  <2>2. ~NoRoom
    <3> SUFFICES ASSUME queue = <<>> PROVE ~NoRoom
      BY <1>5 DEF ReaderAppends
    <3>1. count = 0 /\ bytes = 0
      BY <2>1, BytesEmpty
    <3> QED
      BY <2>1, <3>1, TapTxAssumption DEF NoRoom
  <2>3. /\ queue' = Append(queue, entry) /\ count' = count + 1 /\ bytes' = bytes + entry.len
        /\ wake_pending' = (wake_pending \/ queue = <<>>)
        /\ reader' = IF queue = <<>> /\ ~wake_pending THEN "signal" ELSE "read"
    BY <1>5, <2>2 DEF ReaderAppends
  <2>4. queue' \in Seq(Packet) /\ Len(queue') = Len(queue) + 1 /\ queue' # <<>>
    BY <2>1, <2>3, AppendProperties
  <2>5. CountersMatch'
    <3>1. bytes' = Queue!Bytes(queue')
      BY <2>1, <2>3, BytesAppend
    <3> QED
      BY <2>1, <2>2, <2>3, <2>4, <3>1, TapTxAssumption DEF CountersMatch, NoRoom
  <2>6. wake_pending' = TRUE
    BY Zenon, <2>3 DEF IInv, PendingOK
  <2>7. TypeOK'
    BY <1>5, <2>1, <2>3, <2>4, <2>6 DEF ReaderAppends, IInv, TypeOK
  <2>8. NoSleepOnPackets'
    BY <1>5, <2>3 DEF ReaderAppends, IInv, NoSleepOnPackets, PendingOK
  <2> QED
    BY <1>5, <2>3, <2>4, <2>5, <2>6, <2>7, <2>8 DEF ReaderAppends, IInv, LockOK, EntryOK, DroppedOK, PendingOK
<1>6. CASE edge_tap_tx_signal_main_thread
  <2>1. TypeOK'
    <3>1. wake' \in Nat
      BY <1>6 DEF edge_tap_tx_signal_main_thread, IInv, TypeOK
    <3>2. unsent' \in BOOLEAN
      BY <1>6, Zenon DEF edge_tap_tx_signal_main_thread, IInv, TypeOK
    <3> QED
      BY <1>6, <3>1, <3>2 DEF edge_tap_tx_signal_main_thread, IInv, TypeOK
  <2>2. NoSleepOnPackets'
    <3>1. CASE wake' = wake + 1
      <4>1. wake' > 0
        BY <3>1 DEF IInv, TypeOK
      <4> QED
        BY <4>1 DEF NoSleepOnPackets
    <3>2. CASE unsent'
      BY <3>2 DEF NoSleepOnPackets
    <3> QED
      BY <1>6, <3>1, <3>2 DEF edge_tap_tx_signal_main_thread
  <2> QED
    BY <1>6, <1>a, <2>1, <2>2 DEF edge_tap_tx_signal_main_thread, IInv, LockOK, EntryOK, DroppedOK
<1>7. CASE RunStarts \/ LoopTest \/ FlushEnds
  <2>1. TypeOK'
    BY ZenonT(40), <1>7 DEF RunStarts, LoopTest, FlushEnds, IInv, TypeOK
  <2> QED
    BY <1>7, <1>a, <2>1 DEF RunStarts, LoopTest, FlushEnds, IInv, LockOK, EntryOK, DroppedOK, NoSleepOnPackets
<1>8. CASE CheckLocks \/ FlushLocks
  <2>1. TypeOK' /\ LockOK'
    BY ZenonT(40), <1>8 DEF CheckLocks, FlushLocks, MainLocks, IInv, TypeOK, LockOK
  <2>2. NoSleepOnPackets'
    BY Zenon, <1>8 DEF CheckLocks, FlushLocks, MainLocks, IInv, NoSleepOnPackets
  <2> QED
    BY Zenon, <1>8, <1>a, <2>1, <2>2 DEF CheckLocks, FlushLocks, MainLocks, IInv, EntryOK, DroppedOK
<1>9. CASE edge_tap_tx_queue_has_pending
  BY Zenon, <1>9, <1>a DEF edge_tap_tx_queue_has_pending, IInv, TypeOK, LockOK, EntryOK, DroppedOK, NoSleepOnPackets
<1>10. CASE SelectReturns \/ edge_tap_tx_drain_wake_socket
  BY SMTT(40), <1>10, <1>a, TapTxAssumption
     DEF SelectReturns, edge_tap_tx_drain_wake_socket, IInv, TypeOK, LockOK, EntryOK, DroppedOK, NoSleepOnPackets
<1>11. CASE edge_tap_tx_dequeue_packet
  <2>1. /\ queue' \in Seq(Packet) /\ count' \in Nat /\ bytes' \in Nat /\ wake_pending' \in BOOLEAN
        /\ PendingOK' /\ CountersMatch'
    <3>1. CASE queue = <<>>
      BY <1>11, <1>a, <3>1 DEF edge_tap_tx_dequeue_packet, IInv, TypeOK
    <3>2. CASE queue # <<>>
      BY <1>11, <3>2, Removes DEF edge_tap_tx_dequeue_packet
    <3> QED
      BY <3>1, <3>2
  <2>2. budget' \in 0..Budget /\ main' \in {"loop", "flush"}
    BY <1>11, TapTxAssumption DEF edge_tap_tx_dequeue_packet, IInv, TypeOK, LockOK
  <2>3. TypeOK'
    BY <1>11, <2>1, <2>2 DEF edge_tap_tx_dequeue_packet, IInv, TypeOK
  <2> QED
    BY <1>11, <2>1, <2>2, <2>3
       DEF edge_tap_tx_dequeue_packet, IInv, LockOK, EntryOK, DroppedOK, NoSleepOnPackets
<1>12. CASE StopByMgmt \/ StopBySignal
  <2>1. TypeOK'
    BY ZenonT(40), <1>12 DEF StopByMgmt, StopBySignal, IInv, TypeOK
  <2> QED
    BY <1>12, <1>a, <2>1 DEF StopByMgmt, StopBySignal, IInv, LockOK, EntryOK, DroppedOK, NoSleepOnPackets
<1>13. CASE edge_term
  <2>1. CountersMatch'
    BY <1>13, BytesEmpty, TapTxAssumption DEF edge_term, CountersMatch
  <2> QED
    BY Zenon, <1>13, <2>1 DEF edge_term, IInv, TypeOK, LockOK, EntryOK, DroppedOK, PendingOK, NoSleepOnPackets
<1>14. CASE UNCHANGED vars
  BY <1>14, <1>a DEF vars, IInv, TypeOK, LockOK, EntryOK, DroppedOK, NoSleepOnPackets
<1> QED
  BY <1>1, <1>2, <1>3, <1>4, <1>5, <1>6, <1>7, <1>8, <1>9, <1>10, <1>11, <1>12, <1>13, <1>14
     DEF Next, Reader, Main, Ended

----------------------------------------------------------------------------
(* What follows from it.                                                   *)

\* The invariant holds in every reachable state.
LEMMA Invariance == Spec => []IInv
BY InitInv, NextInv, PTL DEF Spec

\* The counters edge_tap_tx_enqueue and edge_tap_tx_dequeue_packet keep by hand
\* are the number of packets and of their bytes, and neither passes its limit.
THEOREM CountersCorrect == Spec => []CountersMatch
<1>1. IInv => CountersMatch
  BY DEF IInv
<1> QED
  BY <1>1, Invariance, PTL

\* run_edge_loop never sleeps in select on packets it has not seen, unless the
\* datagram that should wake it could not be sent.
THEOREM NoLostWakeup == Spec => []NoSleepOnPackets
<1>1. IInv => NoSleepOnPackets
  BY DEF IInv
<1> QED
  BY <1>1, Invariance, PTL

\* The displaced packets and the queue, from a packet i on.
LEMMA Suffix ==
    ASSUME IInv, NEW i \in 1..(Len(dropped \o queue) + 1)
    PROVE  LET dq == dropped \o queue
               t == SubSeq(dq, i, Len(dq))
           IN /\ dq \in Seq(Packet) /\ Len(dq) = Len(dropped) + Len(queue)
              /\ t \in Seq(Packet) /\ Len(t) = Len(dq) - (i - 1)
              /\ Queue!Bytes(dq) = Queue!Sums(dq)[i - 1] + Queue!Bytes(t)
              /\ i = Len(dropped) + 1 => t = queue
<1> DEFINE dq == dropped \o queue
           t == SubSeq(dq, i, Len(dq))
<1>1. dropped \in Seq(Packet) /\ queue \in Seq(Packet) /\ Len(dropped) \in Nat /\ Len(queue) \in Nat
  BY LenProperties DEF IInv, TypeOK
<1>2. /\ dq \in Seq(Packet) /\ Len(dq) = Len(dropped) + Len(queue) /\ Len(dq) \in Nat
      /\ \A j \in 1..Len(queue) : dq[Len(dropped) + j] = queue[j]
  BY <1>1, ConcatProperties
<1> HIDE DEF dq
<1>3. i \in Nat /\ i - 1 \in Nat /\ i <= Len(dq) + 1 /\ i >= 1
  BY <1>2 DEF dq
<1>4. /\ t \in Seq(Packet) /\ Len(t) = Len(dq) - (i - 1)
      /\ \A j \in 1..Len(t) : t[j] = dq[(i - 1) + j]
  BY <1>2, <1>3, SubSeqProperties
<1> HIDE DEF t
<1>5. Queue!Bytes(dq) = Queue!Sums(dq)[i - 1] + Queue!Bytes(t)
  <2> DEFINE k == i - 1
  <2>1. k \in Nat /\ Len(dq) = k + Len(t) /\ \A j \in 1..Len(t) : t[j] = dq[k + j]
    BY <1>2, <1>3, <1>4
  <2> HIDE DEF k
  <2>2. Queue!Bytes(dq) = Queue!Sums(dq)[k] + Queue!Bytes(t)
    BY Zenon, <1>2, <1>4, <2>1, BytesRest
  <2> QED
    BY <2>2 DEF k
<1>6. ASSUME i = Len(dropped) + 1 PROVE t = queue
  <2>1. Len(t) = Len(queue) /\ \A j \in 1..Len(t) : t[j] = queue[j]
    BY <1>1, <1>2, <1>4, <1>6
  <2> QED
    BY <1>1, <1>4, <2>1, SeqEqual
<1> QED
  BY SMTT(40), <1>2, <1>4, <1>5, <1>6 DEF dq, t

\* With a displaced packet there would have been no room for the new one.
LEMMA TooMany ==
    ASSUME IInv, reader = "locked", NEW i \in 1..Len(dropped)
    PROVE  LET dq == dropped \o queue
           IN ~Queue!Fits(Append(SubSeq(dq, i, Len(dq)), entry))
<1> DEFINE dq == dropped \o queue
           t == SubSeq(dq, i, Len(dq))
           d == Len(dropped)
           from == Append(t, entry)
<1>1. /\ dropped \in Seq(Packet) /\ queue \in Seq(Packet) /\ d \in Nat \ {0} /\ Len(queue) \in Nat
      /\ i \in Nat /\ 1 <= i /\ i <= d
      /\ entry \in Packet /\ entry.len \in Nat /\ bytes = Queue!Bytes(queue) /\ bytes \in Nat
  <2>1. dropped \in Seq(Packet) /\ queue \in Seq(Packet) /\ d \in Nat /\ Len(queue) \in Nat
    BY LenProperties DEF IInv, TypeOK
  <2>2. i \in Nat /\ 1 <= i /\ i <= d /\ d # 0
    BY <2>1
  <2>3. entry \in Packet /\ bytes = Queue!Bytes(queue) /\ bytes \in Nat
    BY DEF IInv, TypeOK, EntryOK, CountersMatch
  <2>4. entry.len \in Nat
    BY Zenon, <2>3, TapTxAssumption DEF Packet
  <2> QED
    BY <2>1, <2>2, <2>3, <2>4
<1>2. Len(dq) = d + Len(queue) /\ dq[d] = dropped[d] /\ dq \in Seq(Packet)
  BY <1>1, ConcatProperties
<1>3. i \in 1..(Len(dq) + 1) /\ d + 1 \in 1..(Len(dq) + 1) /\ d \in 1..Len(dq)
  BY <1>1, <1>2
<1>4. /\ t \in Seq(Packet) /\ Len(t) = Len(dq) - (i - 1)
      /\ Queue!Bytes(dq) = Queue!Sums(dq)[i - 1] + Queue!Bytes(t)
  BY <1>3, Suffix
<1>5. Queue!Bytes(dq) = Queue!Sums(dq)[(d + 1) - 1] + Queue!Bytes(queue)
  BY Zenon, <1>3, Suffix
<1>6. Queue!Sums(dq)[d] = Queue!Sums(dq)[d - 1] + dropped[d].len
  BY Zenon, <1>2, <1>3, SumsDef
<1> HIDE DEF dq, t
<1>7. /\ Len(from) = Len(t) + 1 /\ Queue!Bytes(from) = Queue!Bytes(t) + entry.len /\ Queue!Bytes(t) \in Nat
  BY <1>1, <1>4, AppendProperties, BytesAppend
<1> HIDE DEF from
<1>8. CASE Len(queue) + 1 >= MaxPackets
  <2>1. Len(from) > MaxPackets
    BY <1>1, <1>2, <1>4, <1>7, <1>8, TapTxAssumption
  <2>2. Len(from) \in Nat
    BY <1>1, <1>2, <1>4, <1>7
  <2>3. ~(Len(from) <= MaxPackets)
    BY <2>1, <2>2, TapTxAssumption
  <2> QED
    BY <2>3 DEF Queue!Fits, dq, t, from
<1>9. CASE dropped[d].len + bytes + entry.len > MaxBytes
  <2>1. /\ Queue!Sums(dq)[i - 1] <= Queue!Sums(dq)[d - 1]
    <3>1. i - 1 \in Nat /\ d - 1 \in Nat /\ i - 1 <= d - 1 /\ d - 1 <= Len(dq)
      BY <1>1, <1>2
    <3> QED
      BY <1>2, <3>1, SumsGrow
  <2>2. Queue!Sums(dq)[i - 1] \in Nat /\ Queue!Sums(dq)[d - 1] \in Nat /\ Queue!Sums(dq)[d] \in Nat
    <3>1. i - 1 \in 0..Len(dq) /\ d - 1 \in 0..Len(dq) /\ d \in 0..Len(dq)
      BY <1>1, <1>2
    <3> QED
      BY <1>2, <3>1, SumsType
  <2>3. dropped[d].len \in Nat
    BY <1>1, Lengths
  <2>4. (d + 1) - 1 = d
    BY <1>1
  <2>5. Queue!Bytes(t) >= dropped[d].len + bytes
    <3> DEFINE a == Queue!Sums(dq)[i - 1]
               b == Queue!Sums(dq)[d - 1]
               l == dropped[d].len
               r == Queue!Bytes(t)
    <3>1. a + r = (b + l) + bytes
      BY <1>1, <1>4, <1>5, <1>6, <2>4
    <3>2. a \in Nat /\ b \in Nat /\ l \in Nat /\ r \in Nat /\ a <= b
      BY <1>7, <2>1, <2>2, <2>3
    <3> HIDE DEF a, b, l, r
    <3>3. r >= l + bytes
      BY <1>1, <3>1, <3>2
    <3> QED
      BY <3>3 DEF l, r
  <2>6. ~(Queue!Bytes(from) <= MaxBytes)
    <3> DEFINE a == Queue!Bytes(from)
               b == Queue!Bytes(t)
               l == dropped[d].len
               e == entry.len
    <3>1. a = b + e /\ b >= l + bytes /\ l + bytes + e > MaxBytes
      BY Zenon, <1>7, <1>9, <2>5
    <3>2. a \in Nat /\ b \in Nat /\ l \in Nat /\ e \in Nat /\ bytes \in Nat /\ MaxBytes \in Nat
      <4>1. b + e \in Nat
        BY <1>1, <1>7
      <4> QED
        BY Zenon, <1>1, <1>7, <2>3, <4>1, TapTxAssumption
    <3> HIDE DEF a, b, l, e
    <3>3. ~(a <= MaxBytes)
      BY <3>1, <3>2
    <3> QED
      BY <3>3 DEF a
  <2> QED
    BY <2>6 DEF Queue!Fits, dq, t, from
<1> QED
  BY <1>1, <1>8, <1>9 DEF IInv, DroppedOK

\* The enqueue as a whole, from taking the lock to releasing it, displaces as
\* many packets as necessary and no more.
LEMMA AppendPuts ==
    ASSUME IInv, ReaderAppends
    PROVE  Queue!Put(entry) /\ entry \in Packet
<1> DEFINE dq == dropped \o queue
           From(i) == Append(SubSeq(dq, i, Len(dq)), entry)
           S == {i \in 1..(Len(dq) + 1) : Queue!Fits(From(i))}
           n == Len(dropped) + 1
<1>1. /\ dropped \in Seq(Packet) /\ queue \in Seq(Packet) /\ Len(dropped) \in Nat /\ Len(queue) \in Nat
      /\ entry \in Packet /\ entry.len \in Nat /\ entry.len <= MaxBytes
      /\ count = Len(queue) /\ bytes = Queue!Bytes(queue) /\ reader = "locked" /\ bytes \in Nat
  BY Zenon, LenProperties, TapTxAssumption DEF ReaderAppends, IInv, TypeOK, EntryOK, CountersMatch, Packet
<1>2. Len(dq) = Len(dropped) + Len(queue)
  BY <1>1, ConcatProperties
<1>3. n \in 1..(Len(dq) + 1)
  BY <1>1, <1>2
<1>4. From(n) = Append(queue, entry)
  BY Zenon, <1>3, Suffix
<1>5. ~NoRoom
  <2> SUFFICES ASSUME queue = <<>> PROVE ~NoRoom
    BY DEF ReaderAppends
  <2>1. count = 0 /\ bytes = 0
    BY <1>1, BytesEmpty
  <2> QED
    BY <1>1, <2>1, TapTxAssumption DEF NoRoom
<1>6. Queue!Fits(Append(queue, entry))
  <2>1. Len(Append(queue, entry)) = count + 1 /\ Queue!Bytes(Append(queue, entry)) = bytes + entry.len
    BY <1>1, AppendProperties, BytesAppend
  <2>2. count + 1 <= MaxPackets /\ bytes + entry.len <= MaxBytes
    BY <1>1, <1>5, TapTxAssumption DEF NoRoom
  <2> QED
    BY <2>1, <2>2 DEF Queue!Fits
<1>7. \A i \in 1..Len(dropped) : ~Queue!Fits(From(i))
  BY <1>1, TooMany
<1>8. n \in S /\ \A i \in S : n <= i
  <2>1. n \in S
    BY Zenon, <1>3, <1>4, <1>6
  <2>2. ASSUME NEW i \in S PROVE n <= i
    <3>1. i \in 1..(Len(dq) + 1) /\ i \notin 1..Len(dropped)
      BY <1>7
    <3> QED
      BY <1>1, <1>2, <3>1
  <2> QED
    BY <2>1, <2>2
<1>9. Queue!Min(S) = n
  <2>1. \A i \in S : i \in Nat
    BY <1>1, <1>2
  <2> HIDE DEF S
  <2>2. \A x \in S : (\A y \in S : x <= y) => x = n
    BY <1>1, <1>8, <2>1
  <2> QED
    BY <1>8, <2>2 DEF Queue!Min
<1>10. (dropped \o queue)' = Append(queue, entry)
  <2>1. queue' = Append(queue, entry) /\ dropped' = <<>>
    BY <1>5 DEF ReaderAppends
  <2>2. queue' \in Seq(Packet)
    BY <1>1, <2>1, AppendProperties
  <2> QED
    BY <2>1, <2>2, ConcatEmptySeq
<1>11. (dropped \o queue)' = From(Queue!Min(S))
  BY Zenon, <1>4, <1>9, <1>10
<1>12. main # "end" /\ main' = main
  BY DEF ReaderAppends, IInv, TypeOK, LockOK
<1> QED
  BY <1>1, <1>11, <1>12 DEF Queue!Put

\* A step of the threads is a step of the abstract queue, or none.
LEMMA StepImplements ==
    ASSUME IInv, IInv', [Next]_vars
    PROVE  [Queue!Next]_(Queue!vars)
<1>1. dropped \in Seq(Packet) /\ queue \in Seq(Packet)
  BY DEF IInv, TypeOK
<1>2. ASSUME UNCHANGED <<queue, dropped>>, UNCHANGED (main # "end") PROVE UNCHANGED Queue!vars
  BY <1>2 DEF Queue!vars
<1>3. CASE ReaderDropsOldest
  <2>1. /\ queue' = Tail(queue) /\ dropped' = Append(dropped, Head(queue)) /\ main' = main
        /\ queue # <<>>
    BY <1>3 DEF ReaderDropsOldest, RemoveHead
  <2>2. /\ Tail(queue) \in Seq(Packet) /\ Head(queue) \in Packet /\ queue = <<Head(queue)>> \o Tail(queue)
    BY <1>1, <2>1, HeadTailProperties
  <2>3. Append(dropped, Head(queue)) = dropped \o <<Head(queue)>>
    BY <1>1, <2>2, AppendIsConcat
  <2>4. (dropped \o <<Head(queue)>>) \o Tail(queue) = dropped \o (<<Head(queue)>> \o Tail(queue))
    <3>1. <<Head(queue)>> \in Seq(Packet)
      BY <2>2
    <3> QED
      BY <1>1, <2>2, <3>1, ConcatAssociative
  <2>5. (dropped \o queue)' = dropped \o queue
    BY <2>1, <2>2, <2>3, <2>4
  <2> QED
    BY <2>1, <2>5 DEF Queue!vars
<1>4. CASE ReaderAppends
  BY <1>4, AppendPuts DEF Queue!Next
<1>5. CASE edge_tap_tx_dequeue_packet
  <2>1. dropped = <<>> /\ dropped' = <<>> /\ main # "end" /\ main' # "end"
    BY <1>5 DEF edge_tap_tx_dequeue_packet, IInv, DroppedOK, LockOK
  <2>2. CASE queue = <<>>
    BY <1>2, <1>5, <2>1, <2>2 DEF edge_tap_tx_dequeue_packet, shared
  <2>3. CASE queue # <<>>
    <3>1. queue' = Tail(queue) /\ queue' \in Seq(Packet)
      BY <1>5, <2>3 DEF edge_tap_tx_dequeue_packet, RemoveHead, IInv, TypeOK
    <3>2. dropped \o queue = queue /\ (dropped \o queue)' = queue'
      BY <1>1, <2>1, <3>1, ConcatEmptySeq
    <3>3. Queue!Get
      BY <2>1, <2>3, <3>1, <3>2 DEF Queue!Get
    <3> QED
      BY <3>3 DEF Queue!Next
  <2> QED
    BY <2>2, <2>3
<1>6. CASE edge_term
  <2>1. queue' = <<>> /\ dropped' = <<>> /\ main # "end" /\ main' = "end"
    BY <1>6 DEF edge_term, IInv, DroppedOK
  <2>2. (dropped \o queue)' = <<>>
    BY <2>1, ConcatEmptySeq
  <2>3. Queue!Close
    BY <2>1, <2>2 DEF Queue!Close
  <2> QED
    BY <2>3 DEF Queue!Next
<1>7. CASE ~(ReaderDropsOldest \/ ReaderAppends \/ edge_tap_tx_dequeue_packet \/ edge_term)
  <2>1. UNCHANGED <<queue, dropped>> /\ UNCHANGED (main # "end")
    BY <1>7 DEF Next, Reader, Main, Ended, vars, shared, ReadTap, tunReadThreadEnds, ReaderLocks,
                edge_tap_tx_signal_main_thread, RunStarts, CheckLocks, FlushLocks, MainLocks,
                edge_tap_tx_queue_has_pending, SelectReturns, edge_tap_tx_drain_wake_socket,
                FlushEnds, LoopTest, StopByMgmt, StopBySignal
  <2> QED
    BY <1>2, <2>1
<1> QED
  BY <1>3, <1>4, <1>5, <1>6, <1>7

\* The two threads with their spin lock, counters and loop of drops implement
\* the atomic queue that displaces the oldest packets: nothing is reordered,
\* duplicated or lost except what has to make room or is cleared at the end.
THEOREM Refinement == Spec => ImplementsDropOldest
<1>1. Init => Queue!Init
  <2> SUFFICES ASSUME Init PROVE Queue!Init
    OBVIOUS
  <2>1. dropped \o queue = <<>> /\ main # "end"
    BY ConcatEmptySeq DEF Init
  <2> QED
    BY <2>1 DEF Queue!Init
<1>2. IInv /\ IInv' /\ [Next]_vars => [Queue!Next]_(Queue!vars)
  BY StepImplements
<1> QED
  BY <1>1, <1>2, Invariance, PTL DEF Spec, ImplementsDropOldest, Queue!Spec

=============================================================================
