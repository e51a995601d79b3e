------------------------- MODULE FederationProofs -------------------------
(***************************************************************************)
(* Proofs about Federation: the associations of every supernode are        *)
(* distinct and in the order of age, so that a purge that only looks at    *)
(* the head of the list removes exactly the expired ones.  Any number of   *)
(* supernodes and edges, any messages lost, duplicated or reordered.       *)
(***************************************************************************)
EXTENDS Federation, SequenceTheorems, WellFoundedInduction, TLAPS

----------------------------------------------------------------------------
\* A list of associations at supernode s as it should be.
ListOK(q, s) ==
    /\ q \in Seq(Assoc)
    /\ \A i, j \in 1..Len(q) : i < j => q[i].age >= q[j].age
    /\ \A i, j \in 1..Len(q) : q[i].mac = q[j].mac => i = j
    /\ \A i \in 1..Len(q) : q[i].sn # s

\* A table of registrations.
TableOK(t) == DOMAIN t \subseteq Mac /\ \A m \in DOMAIN t : t[m] \in Entry

EdgesOK == DOMAIN edges = Supernode /\ \A s \in Supernode : TableOK(edges[s])
AssocOK == assoc \in [Supernode -> Seq(Assoc)] /\ \A s \in Supernode : ListOK(assoc[s], s)
EmptyOK == \A s \in Supernode : s \notin comm => DOMAIN edges[s] = {} /\ assoc[s] = <<>>
SidesOK ==
    /\ home \in [Mac -> Supernode] /\ token \in [Mac -> Token]
    /\ moves \in 0..MaxMoves /\ restarts \in 0..MaxRestarts
    /\ comm \subseteq Supernode

IInv == SidesOK /\ net \subseteq Message /\ EdgesOK /\ AssocOK /\ EmptyOK

\* The inductive invariant is what the runs check, sorted by variables.
LEMMA WhatItSays == IInv <=> TypeOK /\ AssociationsInOrder
  <1>1. IInv => TypeOK
    BY DEF IInv, TypeOK, SidesOK, EdgesOK, AssocOK, TableOK
  <1>2. IInv => AssociationsInOrder
    BY DEF IInv, AssociationsInOrder, OldestFirst, AssociationsDistinct, AssocOK, ListOK, EmptyOK
  <1>3. TypeOK /\ AssociationsInOrder => IInv
    BY DEF IInv, TypeOK, SidesOK, EdgesOK, AssocOK, TableOK, AssociationsInOrder, OldestFirst,
           AssociationsDistinct, ListOK, EmptyOK
  <1> QED BY <1>1, <1>2, <1>3

----------------------------------------------------------------------------
\* A set of numbers that is not empty has a least element.
LEMMA Least ==
  ASSUME NEW T, T \subseteq Nat, T # {}
  PROVE  \E k \in T : \A j \in T : k <= j
  <1>1. PICK k \in T : \A j \in T : ~(<<j, k>> \in OpToRel(<, Nat))
    BY NatLessThanWellFounded, WFMin
  <1>2. \A j \in T : ~(j < k)
    BY Zenon, <1>1 DEF OpToRel
  <1> QED BY <1>2

LEMMA NoAssociations == \A s : ListOK(<<>>, s)
  <1>1. <<>> \in Seq(Assoc) /\ Len(<<>>) = 0
    BY EmptySeq
  <1> QED BY <1>1 DEF ListOK

\* update_node_supernode_association keeps a list in order: it appends the
\* youngest association, and only for an edge that has none.
LEMMA Associated ==
  ASSUME NEW s, NEW q, ListOK(q, s), NEW m \in Mac, NEW r \in Supernode, r # s
  PROVE  ListOK(update_node_supernode_association(q, m, r), s)
  <1>1. CASE \E i \in 1..Len(q) : q[i].mac = m
    BY <1>1 DEF update_node_supernode_association
  <1>2. CASE ~ \E i \in 1..Len(q) : q[i].mac = m
    <2> DEFINE a == [mac |-> m, sn |-> r, age |-> 0]
               n == Len(q)
               p == Append(q, a)
    <2>1. a \in Assoc /\ a.mac = m /\ a.sn = r /\ a.age = 0
      BY FederationAssumption DEF Assoc
    <2>2. update_node_supernode_association(q, m, r) = p
      BY <1>2 DEF update_node_supernode_association
    <2>3. q \in Seq(Assoc) /\ n \in Nat
      BY LenProperties DEF ListOK
    <2> HIDE DEF a
    <2>4. /\ p \in Seq(Assoc) /\ Len(p) = n + 1
          /\ \A i \in 1..n : p[i] = q[i]
          /\ p[n + 1] = a
      BY <2>1, <2>3, AppendProperties
    <2>5. \A i \in 1..n : q[i] \in Assoc /\ q[i].age \in Nat
      <3>1. \A i \in 1..n : q[i] \in Assoc
        BY <2>3, ElementOfSeq
      <3> QED BY <3>1, FederationAssumption DEF Assoc
    <2> HIDE DEF p
    <2>6. ASSUME NEW i \in 1..(n + 1), NEW j \in 1..(n + 1), i < j
          PROVE  p[i].age >= p[j].age
      <3>1. i \in 1..n
        BY <2>6, <2>3
      <3>2. CASE j = n + 1
        BY <3>1, <3>2, <2>1, <2>4, <2>5
      <3>3. CASE j \in 1..n
        BY <3>1, <3>3, <2>4, <2>6 DEF ListOK
      <3> QED BY <3>2, <3>3, <2>3
    <2>7. ASSUME NEW i \in 1..(n + 1), NEW j \in 1..(n + 1), p[i].mac = p[j].mac
          PROVE  i = j
      BY <2>1, <2>3, <2>4, <2>7, <1>2 DEF ListOK
    <2>8. ASSUME NEW i \in 1..(n + 1)
          PROVE  p[i].sn # s
      BY <2>1, <2>3, <2>4 DEF ListOK
    <2> QED BY <2>2, <2>4, <2>6, <2>7, <2>8 DEF ListOK
  <1> QED BY <1>1, <1>2

\* What purge_expired_communities leaves of a list in order: its end, after
\* the associations that have expired.
LEMMA Purged ==
  ASSUME NEW s, NEW q, ListOK(q, s)
  PROVE  /\ ListOK(purge_assoc(q), s)
         /\ \E k \in 0..Len(q) :
                /\ \A i \in 1..Len(q) : q[i].age = AssocExpired <=> i <= k
                /\ purge_assoc(q) = SubSeq(q, k + 1, Len(q))
  <1> DEFINE n == Len(q)
             fresh == {i \in 1..n : q[i].age < AssocExpired}
  <1>1. q \in Seq(Assoc) /\ n \in Nat
    BY LenProperties DEF ListOK
  <1>2. \A i \in 1..n : q[i] \in Assoc /\ q[i].age \in 0..AssocExpired
    <2>1. \A i \in 1..n : q[i] \in Assoc
      BY <1>1, ElementOfSeq
    <2> QED BY <2>1 DEF Assoc
  <1>3. AssocExpired \in Nat
    BY FederationAssumption
  <1>4. \A i, j \in 1..n : i < j => q[i].age >= q[j].age
    BY DEF ListOK
  <1>5. CASE fresh = {}
    <2>1. purge_assoc(q) = <<>>
      BY <1>5 DEF purge_assoc
    <2>2. SubSeq(q, n + 1, n) = <<>>
      BY <1>1, SubSeqEmpty
    <2> HIDE DEF n
    <2>3. \A i \in 1..n : q[i].age = AssocExpired <=> i <= n
      BY <1>1, <1>2, <1>3, <1>5
    <2>4. n \in 0..n
      BY <1>1
    <2> QED BY <2>1, <2>2, <2>3, <2>4, NoAssociations DEF n
  <1>6. CASE fresh # {}
    <2> DEFINE f == CHOOSE i \in fresh : \A j \in fresh : i <= j
               p == SubSeq(q, f, n)
    <2>1. fresh \subseteq Nat
      BY <1>1
    <2>2. purge_assoc(q) = p
      BY Zenon, <1>6 DEF purge_assoc
    <2> HIDE DEF n
    <2>3. f \in fresh /\ \A j \in fresh : f <= j
      <3> HIDE DEF fresh
      <3> QED BY Zenon, <1>6, <2>1, Least
    <2>4. f \in 1..n /\ q[f].age < AssocExpired
      BY <2>3
    <2> HIDE DEF f
    <2>5. \A i \in 1..n : q[i].age < AssocExpired <=> i >= f
      <3>1. ASSUME NEW i \in 1..n, q[i].age < AssocExpired
            PROVE  i >= f
        BY <3>1, <2>3
      <3>2. ASSUME NEW i \in 1..n, i >= f
            PROVE  q[i].age < AssocExpired
        <4>1. CASE i = f  BY <4>1, <2>4
        <4>2. CASE f < i
          <5>1. q[f].age >= q[i].age
            BY <4>2, <2>4, <1>4
          <5> QED BY <5>1, <2>4, <1>2, <1>3
        <4> QED BY <4>1, <4>2, <3>2, <2>4, <1>1
      <3> QED BY <3>1, <3>2
    <2>6. \A i \in 1..n : q[i].age = AssocExpired <=> i <= f - 1
      BY <2>4, <2>5, <1>1, <1>2, <1>3
    <2>7. f - 1 \in 0..n /\ (f - 1) + 1 = f
      BY <2>4, <1>1
    <2>8. \A i \in f..n : q[i] \in Assoc
      BY <2>4, <1>2, <1>1
    <2>9. /\ p \in Seq(Assoc) /\ Len(p) = n - f + 1
          /\ \A i \in 1..(n - f + 1) : p[i] = q[f + i - 1]
      BY <2>4, <2>8, <1>1, SubSeqProperties
    <2> HIDE DEF p
    <2>10. \A i \in 1..(n - f + 1) : f + i - 1 \in 1..n
      BY <2>4, <1>1
    <2>11. ASSUME NEW i \in 1..(n - f + 1), NEW j \in 1..(n - f + 1)
           PROVE  /\ i < j => f + i - 1 < f + j - 1
                  /\ f + i - 1 = f + j - 1 => i = j
      BY <2>4, <1>1
    <2>12. ListOK(p, s)
      <3> DEFINE at(i) == f + i - 1
                 m == n - f + 1
      <3>1. /\ p \in Seq(Assoc) /\ Len(p) = m
            /\ \A i \in 1..m : p[i] = q[at(i)] /\ at(i) \in 1..n
        BY <2>9, <2>10
      <3>2. \A i, j \in 1..m : /\ i < j => at(i) < at(j)
                               /\ at(i) = at(j) => i = j
        BY <2>11
      <3>3. /\ \A i, j \in 1..n : i < j => q[i].age >= q[j].age
            /\ \A i, j \in 1..n : q[i].mac = q[j].mac => i = j
            /\ \A i \in 1..n : q[i].sn # s
        BY DEF ListOK, n
      <3> HIDE DEF at, m
      <3>4. \A i, j \in 1..m : i < j => p[i].age >= p[j].age
        BY <3>1, <3>2, <3>3
      <3>5. \A i, j \in 1..m : p[i].mac = p[j].mac => i = j
        BY <3>1, <3>2, <3>3
      <3>6. \A i \in 1..m : p[i].sn # s
        BY <3>1, <3>3
      <3> QED BY <3>1, <3>4, <3>5, <3>6 DEF ListOK
    <2> QED BY Zenon, <2>2, <2>6, <2>7, <2>12 DEF n, p
  <1> QED BY <1>5, <1>6

\* Time does not change the order: what is expired stays the oldest.
LEMMA Aged ==
  ASSUME NEW s, NEW q, ListOK(q, s)
  PROVE  ListOK([i \in 1..Len(q) |-> [q[i] EXCEPT !.age = Older(@, AssocExpired)]], s)
  <1> DEFINE n == Len(q)
             e(i) == [q[i] EXCEPT !.age = Older(q[i].age, AssocExpired)]
             p == [i \in 1..n |-> e(i)]
  <1>1. q \in Seq(Assoc) /\ n \in Nat
    BY LenProperties DEF ListOK
  <1>2. \A i \in 1..n : q[i] \in Assoc
    BY <1>1, ElementOfSeq
  <1>3. AssocExpired \in Nat
    BY FederationAssumption
  <1> HIDE DEF n
  <1>4. \A i \in 1..n : /\ e(i) \in Assoc /\ e(i).mac = q[i].mac /\ e(i).sn = q[i].sn
                        /\ e(i).age = Older(q[i].age, AssocExpired)
                        /\ q[i].age \in 0..AssocExpired
    BY <1>2, <1>3 DEF Assoc, Older
  <1>5. \A a, b \in 0..AssocExpired : a >= b => Older(a, AssocExpired) >= Older(b, AssocExpired)
    BY <1>3 DEF Older
  <1> HIDE DEF e
  <1>6. p \in Seq(Assoc)
    <2>1. p \in [1..n -> Assoc]
      BY <1>4
    <2> QED BY <2>1, <1>1, SeqDef
  <1>7. Len(p) = n /\ \A i \in 1..n : p[i] = e(i)
    BY <1>1, <1>6, LenProperties
  <1> HIDE DEF p
  <1>8. ListOK(p, s)
    BY SMTT(40), <1>4, <1>5, <1>6, <1>7 DEF ListOK, n
  <1> QED BY <1>8 DEF p, e, n

----------------------------------------------------------------------------
\* The operations on a table of registrations.
LEMMA Tables ==
  ASSUME NEW t, TableOK(t), NEW m \in Mac, NEW tok \in Token
  PROVE  /\ TableOK(Without(t, m)) /\ DOMAIN Without(t, m) \subseteq DOMAIN t
         /\ TableOK(update_edge(t, m, tok, TRUE))
         /\ TableOK(Without(update_edge(t, m, tok, FALSE), m))
         /\ DOMAIN Without(update_edge(t, m, tok, FALSE), m) \subseteq DOMAIN t
         /\ TableOK(purge_edges(t))
  <1>1. 0 \in 0..EdgeExpired
    BY FederationAssumption
  <1>2. TableOK(Without(t, m)) /\ DOMAIN Without(t, m) \subseteq DOMAIN t
    BY DEF TableOK, Without
  <1>3. TableOK(purge_edges(t))
    BY DEF TableOK, purge_edges
  <1>4. CASE m \in DOMAIN t
    <2> DEFINE u == [t EXCEPT ![m].age = 0]
    <2>1. update_edge(t, m, tok, TRUE) = u /\ update_edge(t, m, tok, FALSE) = u
      BY <1>4 DEF update_edge
    <2>2. TableOK(u) /\ DOMAIN u = DOMAIN t
      BY <1>1, <1>4 DEF TableOK, Entry
    <2> HIDE DEF u
    <2>3. TableOK(Without(u, m)) /\ DOMAIN Without(u, m) \subseteq DOMAIN t
      BY <2>2 DEF TableOK, Without
    <2> QED BY Zenon, <2>1, <2>2, <2>3, <1>2, <1>3
  <1>5. CASE m \notin DOMAIN t
    <2>1. /\ update_edge(t, m, tok, TRUE) = With(t, m, [auth |-> tok, age |-> 0])
          /\ update_edge(t, m, tok, FALSE) = t
      BY <1>5 DEF update_edge
    <2>2. [auth |-> tok, age |-> 0] \in Entry
      BY <1>1 DEF Entry
    <2>3. TableOK(With(t, m, [auth |-> tok, age |-> 0]))
      BY <2>2 DEF TableOK, With
    <2> QED BY Zenon, <2>1, <2>3, <1>2, <1>3
  <1> QED BY Zenon, <1>4, <1>5

\* Registrations get older.
LEMMA TableAged ==
  ASSUME NEW t, TableOK(t)
  PROVE  TableOK([m \in DOMAIN t |-> [t[m] EXCEPT !.age = Older(@, EdgeExpired)]])
  BY FederationAssumption DEF TableOK, Entry, Older

\* What an edge sends, and what supernodes make of a message, are messages.
LEMMA Messages ==
  /\ \A type \in {"reg", "unreg"}, m \in Mac, tok \in Token, s \in Supernode :
         FromEdge(type, m, tok, s) \in Message
  /\ \A msg \in Message, s \in Supernode : \A r \in Federated(s) :
         msg.type = "reg" => [msg EXCEPT !.type = "fwd", !.from = s, !.to = r] \in Message
  /\ \A msg \in Message :
         msg.type = "fwd" => [msg EXCEPT !.type = "nak", !.from = msg.to, !.to = msg.from] \in Message
  /\ \A msg \in Message :
         msg.type = "query" => [msg EXCEPT !.type = "info", !.from = msg.to, !.to = msg.from] \in Message
  <1>1. NoSn \notin Supernode
    BY FederationAssumption
  <1>2. ASSUME NEW type \in {"reg", "unreg"}, NEW m \in Mac, NEW tok \in Token, NEW s \in Supernode
        PROVE  FromEdge(type, m, tok, s) \in Message
    BY <1>1 DEF FromEdge, Message
  <1>3. ASSUME NEW msg \in Message, NEW s \in Supernode, NEW r \in Federated(s), msg.type = "reg"
        PROVE  [msg EXCEPT !.type = "fwd", !.from = s, !.to = r] \in Message
    BY Zenon, <1>1, <1>3 DEF Message, Federated
  <1>4. ASSUME NEW msg \in Message, msg.type = "fwd"
        PROVE  [msg EXCEPT !.type = "nak", !.from = msg.to, !.to = msg.from] \in Message
    BY Zenon, <1>1, <1>4 DEF Message
  <1>5. ASSUME NEW msg \in Message, msg.type = "query"
        PROVE  [msg EXCEPT !.type = "info", !.from = msg.to, !.to = msg.from] \in Message
    BY Zenon, <1>1, <1>5 DEF Message
  <1> QED BY <1>2, <1>3, <1>4, <1>5

\* What is known of a message under way.
LEMMA Sender ==
  ASSUME NEW msg \in Message
  PROVE  /\ msg.to \in Supernode /\ msg.mac \in Mac /\ msg.tok \in Token /\ msg.from # msg.to
         /\ msg.type \notin {"reg", "unreg"} => msg.from \in Supernode
  BY FederationAssumption DEF Message

----------------------------------------------------------------------------
\* At the start all tables are empty.
LEMMA InitOK == Init => IInv
  <1> SUFFICES ASSUME Init PROVE IInv
    OBVIOUS
  <1>1. SidesOK
    BY FederationAssumption DEF Init, SidesOK, Token
  <1>2. EdgesOK
    BY DEF Init, EdgesOK, TableOK
  <1>3. AssocOK
    BY NoAssociations DEF Init, AssocOK, ListOK
  <1>4. EmptyOK
    BY DEF Init, EmptyOK
  <1> QED BY <1>1, <1>2, <1>3, <1>4 DEF Init, IInv

\* What edges do themselves leaves the tables of the supernodes alone.
LEMMA EdgeStepOK ==
  ASSUME IInv,
         \/ \E m \in Mac : SendRegister(m)
         \/ \E m \in Mac, s \in Supernode, u \in BOOLEAN : Move(m, s, u)
         \/ \E m \in Mac, s \in Supernode : Restart(m, s)
         \/ \E m, target \in Mac : Query(m, target)
         \/ \E msg \in net : Lose(msg)
         \/ UNCHANGED vars
  PROVE  IInv'
  <1>1. comm' = comm /\ edges' = edges /\ assoc' = assoc
    BY Zenon, Zenon DEF SendRegister, Move, Restart, Query, Lose, vars, snVars
  <1>2. EdgesOK' /\ AssocOK' /\ EmptyOK'
    BY <1>1 DEF IInv, EdgesOK, AssocOK, EmptyOK
  <1>3. SidesOK'
    <2>1. CASE UNCHANGED edgeVars
      BY <1>1, <2>1 DEF IInv, SidesOK, edgeVars
    <2>2. ASSUME NEW m \in Mac, NEW s \in Supernode, NEW u \in BOOLEAN, Move(m, s, u)
          PROVE  SidesOK'
      BY <1>1, <2>2, FederationAssumption DEF IInv, SidesOK, Move
    <2>3. ASSUME NEW m \in Mac, NEW s \in Supernode, Restart(m, s)
          PROVE  SidesOK'
      BY <1>1, <2>3, FederationAssumption DEF IInv, SidesOK, Restart, Token
    <2> QED BY Zenon, <2>1, <2>2, <2>3 DEF SendRegister, Query, Lose, vars
  <1>4. net' \subseteq Message
    <2>1. net \subseteq Message /\ home \in [Mac -> Supernode] /\ token \in [Mac -> Token]
      BY DEF IInv, SidesOK
    <2>2. ASSUME NEW m \in Mac, SendRegister(m)
          PROVE  net' \subseteq Message
      <3>1. FromEdge("reg", m, token[m], home[m]) \in Message
        BY <2>1, Messages
      <3> QED BY <2>1, <2>2, <3>1 DEF SendRegister, EdgeSends
    <2>3. ASSUME NEW m \in Mac, NEW s \in Supernode, NEW u \in BOOLEAN, Move(m, s, u)
          PROVE  net' \subseteq Message
      <3>1. /\ FromEdge("reg", m, token[m], s) \in Message
            /\ FromEdge("unreg", m, token[m], home[m]) \in Message
        BY <2>1, Messages
      <3> QED BY <2>1, <2>3, <3>1 DEF Move
    <2>4. ASSUME NEW m \in Mac, NEW target \in Mac, Query(m, target)
          PROVE  net' \subseteq Message
      <3>1. home[m] \in Supernode /\ m # target
        BY <2>1, <2>4 DEF Query
      <3>2. 0 \in Token
        BY FederationAssumption DEF Token
      <3>3. ASSUME NEW r \in Federated(home[m])
            PROVE  [type |-> "query", mac |-> target, src |-> m, tok |-> 0,
                    from |-> home[m], to |-> r] \in Message
        BY <3>1, <3>2, FederationAssumption DEF Message, Federated
      <3> QED BY <2>1, <2>4, <3>3 DEF Query, EdgeSends
    <2> QED BY <2>1, <2>2, <2>3, <2>4 DEF Restart, Lose, vars
  <1> QED BY <1>2, <1>3, <1>4 DEF IInv

\* A supernode that starts again knows nothing.
LEMMA RestartOK == ASSUME IInv, NEW s \in Supernode, SupernodeRestart(s) PROVE IInv'
  <1>1. SidesOK' /\ net' \subseteq Message
    BY FederationAssumption DEF SupernodeRestart, IInv, SidesOK
  <1>2. edges' = [edges EXCEPT ![s] = <<>>] /\ assoc' = [assoc EXCEPT ![s] = <<>>]
    BY DEF SupernodeRestart
  <1>3. EdgesOK'
    BY <1>2 DEF IInv, EdgesOK, TableOK
  <1>4. AssocOK'
    <2>1. <<>> \in Seq(Assoc)
      BY EmptySeq
    <2> QED BY <1>2, <2>1, NoAssociations DEF IInv, AssocOK
  <1>5. EmptyOK'
    BY <1>2 DEF SupernodeRestart, IInv, EmptyOK, EdgesOK, AssocOK
  <1> QED BY <1>1, <1>3, <1>4, <1>5 DEF IInv

\* A registration from an edge.
LEMMA RxRegisterOK == ASSUME IInv, NEW msg \in net, RxRegister(msg) PROVE IInv'
  <1> DEFINE s == msg.to
             t == update_edge(edges[s], msg.mac, msg.tok, TRUE)
  <1>1. msg \in Message /\ s \in Supernode /\ msg.mac \in Mac /\ msg.tok \in Token
    BY Sender DEF IInv
  <1>2. assoc' = assoc /\ comm' = comm \cup {s} /\ UNCHANGED edgeVars
    BY DEF RxRegister
  <1>3. edges' = [edges EXCEPT ![s] = t] \/ edges' = edges
    BY DEF RxRegister
  <1>4. TableOK(t)
    BY Zenon, <1>1, Tables DEF IInv, EdgesOK
  <1>5. net' \subseteq Message
    <2>1. \A r \in Federated(s) : [msg EXCEPT !.type = "fwd", !.from = s, !.to = r] \in Message
      BY <1>1, Messages DEF RxRegister
    <2> QED BY <2>1 DEF RxRegister, Rest, IInv
  <1> HIDE DEF t
  <1>6. EdgesOK'
    BY <1>1, <1>3, <1>4 DEF IInv, EdgesOK
  <1>7. SidesOK'
    BY <1>1, <1>2 DEF IInv, SidesOK, edgeVars
  <1>8. AssocOK'
    BY <1>2 DEF IInv, AssocOK
  <1>9. EmptyOK'
    BY <1>1, <1>2, <1>3 DEF IInv, EmptyOK, EdgesOK
  <1> QED BY <1>5, <1>6, <1>7, <1>8, <1>9 DEF IInv

\* A registration another supernode forwards: an association.
LEMMA RxForwardedOK == ASSUME IInv, NEW msg \in net, RxForwarded(msg) PROVE IInv'
  <1> DEFINE s == msg.to
             t == Without(update_edge(edges[s], msg.mac, msg.tok, FALSE), msg.mac)
             q == update_node_supernode_association(assoc[s], msg.mac, msg.from)
  <1>1. /\ msg \in Message /\ s \in Supernode /\ msg.mac \in Mac /\ msg.tok \in Token
        /\ msg.from \in Supernode /\ msg.from # s
    BY Sender DEF IInv, RxForwarded
  <1>2. comm' = comm \cup {s} /\ UNCHANGED edgeVars
    BY DEF RxForwarded
  <1>3. edges' = [edges EXCEPT ![s] = t] \/ edges' = edges
    BY DEF RxForwarded
  <1>4. assoc' = [assoc EXCEPT ![s] = q] \/ assoc' = assoc
    BY DEF RxForwarded
  <1>5. TableOK(t)
    BY Zenon, <1>1, Tables DEF IInv, EdgesOK
  <1>6. ListOK(q, s)
    BY <1>1, Associated DEF IInv, AssocOK
  <1>7. net' \subseteq Message
    BY <1>1, Messages DEF RxForwarded, Rest, IInv
  <1> HIDE DEF t, q
  <1>8. EdgesOK'
    BY <1>1, <1>3, <1>5 DEF IInv, EdgesOK
  <1>9. SidesOK'
    BY <1>1, <1>2 DEF IInv, SidesOK, edgeVars
  <1>10. AssocOK'
    <2>1. q \in Seq(Assoc)
      BY <1>6 DEF ListOK
    <2> QED BY Zenon, <1>1, <1>4, <1>6, <2>1 DEF IInv, AssocOK
  <1>11. EmptyOK'
    BY <1>1, <1>2, <1>3, <1>4 DEF IInv, EmptyOK, EdgesOK, AssocOK
  <1> QED BY <1>7, <1>8, <1>9, <1>10, <1>11 DEF IInv

\* A NAK of another supernode, or the edge itself, ends a registration.
LEMMA RxEndOK ==
  ASSUME IInv, NEW msg \in net, RxNak(msg) \/ RxUnregister(msg)
  PROVE  IInv'
  <1> DEFINE s == msg.to
             t == Without(edges[s], msg.mac)
  <1>1. s \in Supernode /\ msg.mac \in Mac /\ msg.tok \in Token
    BY Sender DEF IInv
  <1>2. comm' = comm /\ assoc' = assoc /\ UNCHANGED edgeVars
    BY DEF RxNak, RxUnregister
  <1>3. edges' = [edges EXCEPT ![s] = t] \/ edges' = edges
    BY DEF RxNak, RxUnregister
  <1>4. TableOK(t) /\ DOMAIN t \subseteq DOMAIN edges[s]
    BY Zenon, <1>1, Tables DEF IInv, EdgesOK
  <1>5. net' \subseteq Message
    BY DEF RxNak, RxUnregister, Rest, IInv
  <1> HIDE DEF t
  <1>6. EdgesOK'
    BY <1>1, <1>3, <1>4 DEF IInv, EdgesOK
  <1>7. EmptyOK'
    BY <1>1, <1>2, <1>3, <1>4 DEF IInv, EmptyOK, EdgesOK
  <1> QED BY <1>2, <1>5, <1>6, <1>7 DEF IInv, SidesOK, AssocOK, edgeVars

\* A question about an edge from another supernode, and the answer to ours.
LEMMA RxQueryOK ==
  ASSUME IInv, NEW msg \in net, RxQuery(msg) \/ RxPeerInfo(msg)
  PROVE  IInv'
  <1> DEFINE s == msg.to
             q == update_node_supernode_association(assoc[s], msg.mac, msg.from)
  <1>1. /\ msg \in Message /\ s \in Supernode /\ msg.mac \in Mac
        /\ msg.from \in Supernode /\ msg.from # s
    BY Sender DEF IInv, RxQuery, RxPeerInfo
  <1>2. comm' = comm /\ edges' = edges /\ UNCHANGED edgeVars
    BY DEF RxQuery, RxPeerInfo, snVars
  <1>3. \/ assoc' = assoc
        \/ msg.src \in DOMAIN edges[s] /\ assoc' = [assoc EXCEPT ![s] = q]
    BY DEF RxQuery, RxPeerInfo, snVars
  <1>4. ListOK(q, s)
    BY <1>1, Associated DEF IInv, AssocOK
  <1>5. net' \subseteq Message
    BY ZenonT(40), <1>1, Messages DEF RxQuery, RxPeerInfo, Rest, IInv
  <1> HIDE DEF q
  <1>6. AssocOK'
    <2>1. q \in Seq(Assoc)
      BY <1>4 DEF ListOK
    <2> QED BY Zenon, <1>1, <1>3, <1>4, <2>1 DEF IInv, AssocOK
  <1>7. EmptyOK'
    BY <1>1, <1>2, <1>3 DEF IInv, EmptyOK, AssocOK
  <1> QED BY <1>2, <1>5, <1>6, <1>7 DEF IInv, SidesOK, EdgesOK, edgeVars

\* The periodic purge: registrations, then associations from the head.
LEMMA PurgeOK == ASSUME IInv, NEW s \in Supernode, Purge(s) PROVE IInv'
  <1> DEFINE t == purge_edges(edges[s])
             gone == Purgeable /\ DOMAIN t = {}
             q == IF gone THEN <<>> ELSE purge_assoc(assoc[s])
  <1>1. UNCHANGED edgeVars /\ net' = net /\ comm' = IF gone THEN comm \ {s} ELSE comm
    BY DEF Purge
  <1>2. edges' = [edges EXCEPT ![s] = t] /\ assoc' = [assoc EXCEPT ![s] = q]
    BY DEF Purge
  <1>3. TableOK(t) /\ DOMAIN t \subseteq DOMAIN edges[s]
    BY DEF IInv, EdgesOK, TableOK, purge_edges
  <1>4. ListOK(q, s)
    BY Purged, NoAssociations DEF IInv, AssocOK
  <1>5. gone => q = <<>>
    OBVIOUS
  <1>6. assoc[s] = <<>> => q = <<>>
    <2>1. Len(<<>>) = 0 /\ {i \in 1..0 : <<>>[i].age < AssocExpired} = {}
      OBVIOUS
    <2> QED BY <2>1 DEF purge_assoc
  <1>7. s \notin comm' => DOMAIN t = {} /\ q = <<>>
    BY Zenon, <1>1, <1>3, <1>5, <1>6 DEF IInv, EmptyOK
  <1> HIDE DEF t, q
  <1>8. EdgesOK'
    BY <1>2, <1>3 DEF IInv, EdgesOK
  <1>9. AssocOK'
    <2>1. q \in Seq(Assoc)
      BY <1>4 DEF ListOK
    <2> QED BY <1>2, <1>4, <2>1 DEF IInv, AssocOK
  <1>10. EmptyOK'
    BY <1>1, <1>2, <1>7 DEF IInv, EmptyOK, EdgesOK, AssocOK
  <1>11. SidesOK'
    BY <1>1 DEF IInv, SidesOK, edgeVars
  <1> QED BY <1>1, <1>8, <1>9, <1>10, <1>11 DEF IInv

\* Everything gets older.
LEMMA TickOK == IInv /\ Tick => IInv'
  <1> SUFFICES ASSUME IInv, Tick PROVE IInv'
    OBVIOUS
  <1> DEFINE t(s) == [m \in DOMAIN edges[s] |->
                         [edges[s][m] EXCEPT !.age = Older(@, EdgeExpired)]]
             q(s) == [i \in 1..Len(assoc[s]) |->
                         [assoc[s][i] EXCEPT !.age = Older(@, AssocExpired)]]
  <1>1. UNCHANGED edgeVars /\ net' = net /\ comm' = comm
    BY DEF Tick
  <1>2. edges' = [s \in Supernode |-> t(s)] /\ assoc' = [s \in Supernode |-> q(s)]
    BY DEF Tick
  <1>3. \A s \in Supernode : TableOK(t(s)) /\ DOMAIN t(s) = DOMAIN edges[s]
    BY TableAged DEF IInv, EdgesOK
  <1>4. \A s \in Supernode : ListOK(q(s), s)
    BY Aged DEF IInv, AssocOK
  <1>5. \A s \in Supernode : assoc[s] = <<>> => q(s) = <<>>
    <2> SUFFICES ASSUME NEW s \in Supernode, assoc[s] = <<>> PROVE q(s) = <<>>
      OBVIOUS
    <2>1. q(s) \in Seq(Assoc) /\ DOMAIN q(s) = 1..0
      BY <1>4 DEF ListOK
    <2> QED BY <2>1, LenProperties, EmptySeq
  <1> HIDE DEF t, q
  <1>6. EdgesOK'
    BY <1>2, <1>3 DEF EdgesOK
  <1>7. AssocOK'
    BY <1>2, <1>4 DEF AssocOK, ListOK
  <1>8. EmptyOK'
    BY Zenon, <1>1, <1>2, <1>3, <1>5 DEF IInv, EmptyOK
  <1> QED BY <1>1, <1>6, <1>7, <1>8 DEF IInv, SidesOK, edgeVars

----------------------------------------------------------------------------
\* The invariant holds in every reachable state.
LEMMA Invariant == Spec => []IInv
  <1>1. IInv /\ [Next]_vars => IInv'
    BY EdgeStepOK, RestartOK, RxRegisterOK, RxForwardedOK, RxEndOK, RxQueryOK, PurgeOK, TickOK
       DEF Next, Rx
  <1> QED BY InitOK, <1>1, PTL DEF Spec

\* In every supernode the associations (update_node_supernode_association) are
\* distinct, with other supernodes, and oldest first, and a community it does
\* not have has left nothing behind.
THEOREM AssociationsCorrect == Spec => [](TypeOK /\ AssociationsInOrder)
  BY Invariant, WhatItSays, PTL

\* Although it tests only the head of the list, purge_expired_communities
\* removes exactly the associations that have expired.
THEOREM PurgeCorrect == Spec => PurgeRemovesExpired
  <1>1. IInv => PurgeRemovesExpiredStep
    <2> SUFFICES ASSUME IInv, NEW s \in Supernode, Purge(s), s \in comm'
                 PROVE  \E k \in 0..Len(assoc[s]) :
                            /\ \A i \in 1..Len(assoc[s]) : assoc[s][i].age = AssocExpired <=> i <= k
                            /\ assoc'[s] = SubSeq(assoc[s], k + 1, Len(assoc[s]))
      BY DEF PurgeRemovesExpiredStep
    <2>1. assoc'[s] = purge_assoc(assoc[s])
      BY DEF Purge, IInv, AssocOK
    <2> QED BY Zenon, <2>1, Purged DEF IInv, AssocOK
  <1>2. IInv => [PurgeRemovesExpiredStep]_vars
    BY <1>1
  <1> QED BY <1>2, Invariant, PTL DEF PurgeRemovesExpired

=============================================================================
