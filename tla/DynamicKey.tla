----------------------------- MODULE DynamicKey -----------------------------
(***************************************************************************)
(* The dynamic header key of a community with user/password                *)
(* authentication.  Every supernode of the federation derives it from its  *)
(* dynamic_key_time, so that a key is the key time it comes from.  A       *)
(* supernode that reads its list of users again takes a new key time,      *)
(* which spreads with the REGISTER_SUPER and REGISTER_SUPER_ACK among the  *)
(* supernodes; edges are told to register again and get the key with the   *)
(* answer.  Between two supernodes there is one place for each type of     *)
(* message, and one for each edge: what is not read is lost when the next  *)
(* one is sent, or before.  Regular registrations are far apart: they are  *)
(* sent when nothing is on its way.                                        *)
(***************************************************************************)
EXTENDS Integers, TLAPS

CONSTANTS Supernodes, Edges,
          Removable,        \* edges whose user may be deleted from the list
          Skew,             \* the clock of each supernode is ahead by that much
          MaxTime           \* bound: of the clock

DynamicKeyAssumption == Skew \in [Supernodes -> Nat] /\ Edges # {} /\ Supernodes # {} /\ MaxTime \in Nat

\* The supernodes have the same time.
ClocksAgree == \A s, p \in Supernodes : Skew[s] = Skew[p]

VARIABLES clock,
          file,             \* which edges have a user in community.list, the same for all
                            \* supernodes; there are other users, too
          users,            \* comm->allowed_users, per supernode
          key_time,         \* sss->dynamic_key_time
          edges,            \* comm->edges, per supernode
          cookie,           \* last_cookie of a supernode's entry for another
          key,              \* the edge's dynamic key; 0 is the random one it starts with
          challenge,        \* in the edge's auth token
          sent,             \* REGISTER_SUPER among supernodes
          acked,            \* ... and its answer
          reg, ack,         \* REGISTER_SUPER of an edge, and its answer
          rereg             \* RE_REGISTER_SUPER

vars == <<clock, file, users, key_time, edges, cookie, key, challenge, sent, acked, reg, ack, rereg>>

edgeVars == <<key, challenge>>

Empty == [none |-> TRUE]

Others(s) == Supernodes \ {s}

Init ==
    /\ clock = 1 /\ file = Edges /\ users = [s \in Supernodes |-> Edges]
    /\ key_time = [s \in Supernodes |-> 1]
    /\ edges = [s \in Supernodes |-> {}]
    /\ cookie = [s \in Supernodes |-> [p \in Supernodes |-> FALSE]]
    /\ key = [e \in Edges |-> 0] /\ challenge = [e \in Edges |-> FALSE]
    /\ sent = [s \in Supernodes |-> [p \in Supernodes |-> Empty]]
    /\ acked = [s \in Supernodes |-> [p \in Supernodes |-> Empty]]
    /\ reg = [e \in Edges |-> Empty]
    /\ ack = [e \in Edges |-> Empty]
    /\ rereg = [e \in Edges |-> Empty]

-----------------------------------------------------------------------------
(* Supernodes.                                                             *)

\* send_re_register_super: encrypted with the key that the supernode has
ReRegister(s) ==
    rereg' = [e \in Edges |-> IF e \in edges[s] THEN [from |-> s, key |-> key_time[s]] ELSE rereg[e]]

\* re_register_and_purge_supernodes for the supernodes in P, each with a new cookie
\* (one that differs from the last)
RegisterWith(s, P, time) ==
    /\ cookie' = [cookie EXCEPT ![s] = [p \in Supernodes |-> IF p \in P THEN ~cookie[s][p] ELSE cookie[s][p]]]
    /\ sent' = [sent EXCEPT ![s] = [p \in Supernodes |->
                   IF p \in P THEN [cookie |-> ~cookie[s][p], key_time |-> time] ELSE sent[s][p]]]

\* a newer key time: the edges are told with the old key, then everything is calculated
\* anew, and all supernodes hear of it
NewKey(s, time) ==
    /\ ReRegister(s)
    /\ key_time' = [key_time EXCEPT ![s] = time]
    /\ RegisterWith(s, Others(s), time)

\* the wrong version that keeps the key time
ReloadSameKey(s) ==
    /\ clock < MaxTime /\ clock' = clock + 1
    /\ NewKey(s, key_time[s])
    /\ users' = [users EXCEPT ![s] = file] /\ edges' = [edges EXCEPT ![s] = {}]
    /\ UNCHANGED <<file, edgeVars, acked, reg, ack>>

\* load_allowed_sn_community: the edges of the community are forgotten; two
\* supernodes do not do this within the same second
Reload(s) ==
    /\ clock < MaxTime /\ clock' = clock + 1
    /\ NewKey(s, clock' + Skew[s])
    /\ users' = [users EXCEPT ![s] = file] /\ edges' = [edges EXCEPT ![s] = {}]
    /\ UNCHANGED <<file, edgeVars, acked, reg, ack>>

\* the operator deletes a user
Remove(e) ==
    /\ e \in file \cap Removable /\ file' = file \ {e}
    /\ UNCHANGED <<clock, users, key_time, edges, cookie, edgeVars, sent, acked, reg, ack, rereg>>

\* re_register_and_purge_supernodes, every now and then
Periodic(s) ==
    /\ \A p \in Others(s) : sent[s][p] = Empty /\ acked[p][s] = Empty
    /\ RegisterWith(s, Others(s), key_time[s])
    /\ UNCHANGED <<clock, file, users, key_time, edges, edgeVars, acked, reg, ack, rereg>>

\* REGISTER_SUPER of supernode p at s: the answer has the time that s has then
RxRegister(s, p) ==
    /\ sent[p][s] # Empty
    /\ LET m == sent[p][s]
           time == IF m.key_time > key_time[s] THEN m.key_time ELSE key_time[s]
       IN /\ \/ m.key_time <= key_time[s] /\ sent' = [sent EXCEPT ![p][s] = Empty]
                /\ UNCHANGED <<key_time, cookie, rereg>>
             \/ /\ m.key_time > key_time[s] /\ ReRegister(s)
                /\ key_time' = [key_time EXCEPT ![s] = time]
                /\ cookie' = [cookie EXCEPT ![s] = [q \in Supernodes |-> IF q = s THEN cookie[s][q] ELSE ~cookie[s][q]]]
                /\ sent' = [sent EXCEPT ![p][s] = Empty,
                                        ![s] = [q \in Supernodes |-> IF q = s THEN sent[s][q]
                                                ELSE [cookie |-> ~cookie[s][q], key_time |-> time]]]
          /\ acked' = [acked EXCEPT ![s][p] = [cookie |-> m.cookie, key_time |-> time]]
    /\ UNCHANGED <<clock, file, users, edges, edgeVars, reg, ack>>

\* REGISTER_SUPER_ACK of supernode p at s; not with an old cookie
RxAck(s, p) ==
    /\ acked[p][s] # Empty /\ acked' = [acked EXCEPT ![p][s] = Empty]
    /\ IF acked[p][s].cookie = cookie[s][p] /\ acked[p][s].key_time > key_time[s]
       THEN NewKey(s, acked[p][s].key_time)
       ELSE UNCHANGED <<key_time, cookie, sent, rereg>>
    /\ UNCHANGED <<clock, file, users, edges, edgeVars, reg, ack>>

\* handle_remote_auth and auth_edge
Auth(s, e) == e \in users[s]

\* REGISTER_SUPER of an edge: the answer has the challenge and, wrapped in it, the key;
\* an unknown user gets a NAK
RxEdge(s, e) ==
    /\ reg[e] # Empty /\ reg[e].to = s /\ reg' = [reg EXCEPT ![e] = Empty]
    /\ \/ /\ Auth(s, e)
          /\ edges' = [edges EXCEPT ![s] = @ \cup {e}]
          /\ ack' = [ack EXCEPT ![e] = [challenge |-> reg[e].challenge, key |-> key_time[s]]]
       \/ ~Auth(s, e) /\ UNCHANGED <<edges, ack>>
    /\ UNCHANGED <<clock, file, users, key_time, cookie, edgeVars, sent, acked, rereg>>

\* purge_expired_communities: an edge that was not heard of
PurgeEdge(s, e) ==
    /\ e \in edges[s] /\ edges' = [edges EXCEPT ![s] = @ \ {e}]
    /\ UNCHANGED <<clock, file, users, key_time, cookie, edgeVars, sent, acked, reg, ack, rereg>>

-----------------------------------------------------------------------------
(* Edges.                                                                  *)

\* update_supernode_reg with get_local_auth: with every REGISTER_SUPER a new challenge
\* (one that differs from the last)
Register(e, s) ==
    /\ reg[e] = Empty /\ ack[e] = Empty
    /\ challenge' = [challenge EXCEPT ![e] = ~@]
    /\ reg' = [reg EXCEPT ![e] = [to |-> s, challenge |-> ~challenge[e]]]
    /\ UNCHANGED <<clock, file, users, key_time, edges, cookie, key, sent, acked, ack, rereg>>

\* handle_remote_auth: the key of an answer to the last challenge
RxEdgeAck(e) ==
    /\ ack[e] # Empty /\ ack' = [ack EXCEPT ![e] = Empty]
    /\ key' = IF ack[e].challenge = challenge[e] THEN [key EXCEPT ![e] = ack[e].key] ELSE key
    /\ UNCHANGED <<clock, file, users, key_time, edges, cookie, challenge, sent, acked, reg, rereg>>

\* RE_REGISTER_SUPER, only with the key that the edge has: it registers at once
RxReRegister(e) ==
    /\ rereg[e] # Empty /\ rereg' = [rereg EXCEPT ![e] = Empty]
    /\ \/ /\ rereg[e].key = key[e]
          /\ challenge' = [challenge EXCEPT ![e] = ~@]
          /\ reg' = [reg EXCEPT ![e] = [to |-> rereg[e].from, challenge |-> ~challenge[e]]]
       \/ rereg[e].key # key[e] /\ UNCHANGED <<challenge, reg>>
    /\ UNCHANGED <<clock, file, users, key_time, edges, cookie, key, sent, acked, ack>>

-----------------------------------------------------------------------------
\* a message is lost
Lose ==
    /\ \/ \E s, p \in Supernodes :
             \/ sent[s][p] # Empty /\ sent' = [sent EXCEPT ![s][p] = Empty] /\ UNCHANGED <<acked, reg, ack, rereg>>
             \/ acked[s][p] # Empty /\ acked' = [acked EXCEPT ![s][p] = Empty] /\ UNCHANGED <<sent, reg, ack, rereg>>
       \/ \E e \in Edges :
             \/ reg[e] # Empty /\ reg' = [reg EXCEPT ![e] = Empty] /\ UNCHANGED <<sent, acked, ack, rereg>>
             \/ ack[e] # Empty /\ ack' = [ack EXCEPT ![e] = Empty] /\ UNCHANGED <<sent, acked, reg, rereg>>
             \/ rereg[e] # Empty /\ rereg' = [rereg EXCEPT ![e] = Empty] /\ UNCHANGED <<sent, acked, reg, ack>>
    /\ UNCHANGED <<clock, file, users, key_time, edges, cookie, edgeVars>>

SupernodeStep(s) ==
    \/ Reload(s) \/ Periodic(s)
    \/ \E p \in Others(s) : RxRegister(s, p) \/ RxAck(s, p)
    \/ \E e \in Edges : RxEdge(s, e) \/ PurgeEdge(s, e)

EdgeStep(e) ==
    \/ Remove(e) \/ RxEdgeAck(e) \/ RxReRegister(e)
    \/ \E s \in Supernodes : Register(e, s)

Next == Lose \/ (\E s \in Supernodes : SupernodeStep(s)) \/ (\E e \in Edges : EdgeStep(e))

Spec == Init /\ [][Next]_vars

-----------------------------------------------------------------------------
(* What is checked.                                                        *)

TypeOK ==
    /\ \A s \in Supernodes : users[s] \subseteq Edges /\ edges[s] \subseteq Edges /\ key_time[s] \in Nat \ {0}
    /\ \A e \in Edges : key[e] \in Nat

\* An edge that no supernode of the federation lists any more has not the newest key:
\* as soon as the others have heard of it, none of its packets is read.  The
\* documentation has users excluded by deleting them and reloading the lists.
RemovedHasOldKey ==
    \A e \in Edges : (\A s \in Supernodes : e \notin users[s]) => \E s \in Supernodes : key[e] < key_time[s]

\* When a supernode changes its key, every edge registered with it that can read what
\* it sends is sent a RE_REGISTER_SUPER that it can read: otherwise its packets are
\* dropped until its next regular registration.
ToldWithOldKeyStep ==
    \A s \in Supernodes : key_time'[s] # key_time[s] =>
        \A e \in edges[s] : key[e] = key_time[s] => rereg'[e] = [from |-> s, key |-> key[e]]

\* A supernode never goes back to an older key.
KeyTimeGrowsStep == \A s \in Supernodes : key_time'[s] >= key_time[s]

\* fairness: the supernodes keep registering, and what is sent again and again
\* arrives at some time
Fairness ==
    /\ \A s \in Supernodes : SF_vars(Periodic(s))
    /\ \A s, p \in Supernodes : SF_vars(RxRegister(s, p)) /\ WF_vars(RxAck(s, p))

FairSpec == Spec /\ Fairness

-----------------------------------------------------------------------------
(* Proofs, for any number of supernodes and edges.  No key time is ahead   *)
(* of the clock; and what an edge without a user has, or is about to be    *)
(* given, is older than the newest key.                                    *)

\* A key time from some supernode's clock, when the time is c.
Known(t, c) == t \in Nat /\ \A s \in Supernodes : t <= c + Skew[s]
KnownIn(m, c) == m = Empty \/ (m.key_time # 0 /\ Known(m.key_time, c))

TimesKnown == \A s \in Supernodes : key_time[s] # 0 /\ Known(key_time[s], clock)
KeysKnown == \A e \in Edges : Known(key[e], clock) /\ (ack[e] = Empty \/ Known(ack[e].key, clock))
MessagesKnown == \A s, p \in Supernodes : KnownIn(sent[s][p], clock) /\ KnownIn(acked[s][p], clock)

\* An edge whose user is gone everywhere.
Gone(e) == \A s \in Supernodes : e \notin users[s]

\* An answer to it that is on its way has an old key.
AnswerOld == \A e \in Edges : Gone(e) /\ ack[e] # Empty => \E s \in Supernodes : ack[e].key < key_time[s]

Shape ==
    /\ clock \in Nat /\ file \subseteq Edges
    /\ users \in [Supernodes -> SUBSET Edges] /\ edges \in [Supernodes -> SUBSET Edges]
    /\ DOMAIN key_time = Supernodes /\ DOMAIN key = Edges /\ DOMAIN ack = Edges
    /\ DOMAIN sent = Supernodes /\ DOMAIN acked = Supernodes
    /\ \A s \in Supernodes : DOMAIN sent[s] = Supernodes /\ DOMAIN acked[s] = Supernodes

IInv == Shape /\ TimesKnown /\ KeysKnown /\ MessagesKnown /\ AnswerOld /\ RemovedHasOldKey

\* What was known stays so.
LEMMA StillKnown ==
  ASSUME DynamicKeyAssumption, NEW c \in Nat, NEW d \in Nat, c <= d
  PROVE  /\ \A t : Known(t, c) => Known(t, d)
         /\ \A m : KnownIn(m, c) => KnownIn(m, d)
  <1>1. \A s \in Supernodes : Skew[s] \in Nat
    BY DEF DynamicKeyAssumption
  <1>2. ASSUME NEW t, Known(t, c) PROVE Known(t, d)
    BY <1>1, <1>2 DEF Known
  <1> QED BY <1>2 DEF KnownIn

\* While no list of users changes, an edge whose user is gone gets no key but
\* one that was on its way, and the newest key gets no older.
LEMMA StaysOld ==
  ASSUME IInv, UNCHANGED users, TimesKnown',
         \A s \in Supernodes : key_time'[s] >= key_time[s],
         \A e \in Edges : key'[e] = key[e] \/ (ack[e] # Empty /\ key'[e] = ack[e].key),
         \A e \in Edges : ack'[e] = ack[e] \/ ack'[e] = Empty \/ \E s \in Supernodes : e \in users[s]
  PROVE  AnswerOld' /\ RemovedHasOldKey'
  <1>1. \A s \in Supernodes : key_time[s] \in Nat /\ key_time'[s] \in Nat
    BY DEF IInv, TimesKnown, Known
  <1>2. \A e \in Edges : Gone(e)' <=> Gone(e)
    BY DEF Gone
  <1>3. \A e \in Edges : key[e] \in Nat /\ (ack[e] # Empty => ack[e].key \in Nat)
    BY DEF IInv, KeysKnown, Known
  <1>4. ASSUME NEW e \in Edges, Gone(e)', ack'[e] # Empty
        PROVE  \E s \in Supernodes : ack'[e].key < key_time'[s]
    <2>1. ack'[e] = ack[e]
      BY <1>2, <1>4 DEF Gone
    <2>2. PICK s \in Supernodes : ack[e].key < key_time[s]
      BY <2>1, <1>2, <1>4 DEF IInv, AnswerOld
    <2>3. ack[e].key < key_time'[s]
      BY <2>1, <2>2, <1>1, <1>3, <1>4
    <2> QED BY <2>1, <2>3
  <1>5. ASSUME NEW e \in Edges, Gone(e)'
        PROVE  \E s \in Supernodes : key'[e] < key_time'[s]
    <2>1. CASE key'[e] = key[e]
      <3>1. PICK s \in Supernodes : key[e] < key_time[s]
        BY <1>2, <1>5 DEF IInv, RemovedHasOldKey, Gone
      <3>2. key[e] < key_time'[s]
        BY <3>1, <1>1, <1>3
      <3> QED BY <2>1, <3>2
    <2>2. CASE ack[e] # Empty /\ key'[e] = ack[e].key
      <3>1. PICK s \in Supernodes : ack[e].key < key_time[s]
        BY <2>2, <1>2, <1>5 DEF IInv, AnswerOld
      <3>2. ack[e].key < key_time'[s]
        BY <2>2, <3>1, <1>1, <1>3
      <3> QED BY <2>2, <3>2
    <2> QED BY <2>1, <2>2
  <1> QED BY <1>4, <1>5 DEF AnswerOld, RemovedHasOldKey, Gone

\* A step as it should be.
Good == IInv' /\ KeyTimeGrowsStep /\ ToldWithOldKeyStep

\* A supernode takes a key time that is not older (NewKey): its edges were
\* told with the key they may have.
LEMMA Renewed ==
  ASSUME DynamicKeyAssumption, IInv, NEW s \in Supernodes, NEW time, time # 0, time >= key_time[s],
         clock' \in Nat, clock <= clock', Known(time, clock'),
         ReRegister(s), key_time' = [key_time EXCEPT ![s] = time]
  PROVE  TimesKnown' /\ KeyTimeGrowsStep /\ ToldWithOldKeyStep
  <1>1. /\ DOMAIN key_time = Supernodes /\ key_time'[s] = time
        /\ \A p \in Supernodes : p # s => key_time'[p] = key_time[p]
    BY DEF IInv, Shape
  <1>2. \A p \in Supernodes : key_time[p] # 0 /\ Known(key_time[p], clock')
    BY StillKnown DEF IInv, TimesKnown, Shape
  <1>3. TimesKnown'
    BY <1>1, <1>2 DEF TimesKnown
  <1>4. KeyTimeGrowsStep
    <2>1. ASSUME NEW p \in Supernodes PROVE key_time'[p] >= key_time[p]
      <3>1. CASE p = s  BY <1>1, <3>1
      <3>2. CASE p # s  BY <1>1, <1>2, <3>2 DEF Known
      <3> QED BY <3>1, <3>2
    <2> QED BY <2>1 DEF KeyTimeGrowsStep
  <1>5. ToldWithOldKeyStep
    <2> SUFFICES ASSUME NEW p \in Supernodes, key_time'[p] # key_time[p],
                        NEW e \in edges[p], key[e] = key_time[p]
                 PROVE  rereg'[e] = [from |-> p, key |-> key[e]]
      BY DEF ToldWithOldKeyStep
    <2>1. p = s
      BY <1>1
    <2>2. e \in Edges
      BY DEF IInv, Shape
    <2> QED BY <2>1, <2>2 DEF ReRegister
  <1> QED BY <1>3, <1>4, <1>5

\* What re_register_and_purge_supernodes sends.
LEMMA Told ==
  ASSUME DynamicKeyAssumption, IInv, NEW s \in Supernodes, NEW P, NEW time, time # 0,
         clock' \in Nat, clock <= clock', Known(time, clock'), RegisterWith(s, P, time)
  PROVE  /\ DOMAIN sent' = Supernodes
         /\ \A a \in Supernodes : DOMAIN sent'[a] = Supernodes
         /\ \A a, b \in Supernodes : KnownIn(sent'[a][b], clock')
  <1> DEFINE m(p) == [cookie |-> ~cookie[s][p], key_time |-> time]
             new == [p \in Supernodes |-> IF p \in P THEN m(p) ELSE sent[s][p]]
  <1>1. sent' = [sent EXCEPT ![s] = new]
    BY DEF RegisterWith
  <1>2. \A p : KnownIn(m(p), clock')
    BY DEF KnownIn
  <1>3. \A a, b \in Supernodes : KnownIn(sent[a][b], clock')
    BY StillKnown DEF IInv, MessagesKnown, Shape
  <1> HIDE DEF m
  <1>4. \A p \in Supernodes : KnownIn(new[p], clock')
    BY <1>2, <1>3
  <1>5. DOMAIN new = Supernodes
    OBVIOUS
  <1> HIDE DEF new
  <1>6. DOMAIN sent = Supernodes /\ \A a \in Supernodes : DOMAIN sent[a] = Supernodes
    BY DEF IInv, Shape
  <1> QED BY <1>1, <1>3, <1>4, <1>5, <1>6

\* Steps that leave keys and messages among supernodes alone.
LEMMA QuietOK ==
  ASSUME IInv, UNCHANGED <<clock, users, key_time, key, sent, acked, ack>>,
         file' \subseteq Edges, edges' \in [Supernodes -> SUBSET Edges]
  PROVE  Good
  <1>1. \A s \in Supernodes : key_time[s] \in Nat
    BY DEF IInv, TimesKnown, Known
  <1>2. KeyTimeGrowsStep /\ ToldWithOldKeyStep
    BY <1>1 DEF KeyTimeGrowsStep, ToldWithOldKeyStep
  <1>3. Shape'
    BY DEF IInv, Shape
  <1>4. TimesKnown' /\ KeysKnown' /\ MessagesKnown'
    BY DEF IInv, TimesKnown, KeysKnown, MessagesKnown
  <1>5. AnswerOld' /\ RemovedHasOldKey'
    BY DEF IInv, AnswerOld, RemovedHasOldKey, Gone
  <1> QED BY <1>2, <1>3, <1>4, <1>5 DEF Good, IInv

\* load_allowed_sn_community takes a key time nobody has had, so that every
\* key and every answer on its way is old.
LEMMA ReloadOK ==
  ASSUME DynamicKeyAssumption, ClocksAgree, IInv, NEW s \in Supernodes, Reload(s)
  PROVE  Good
  <1> DEFINE time == clock' + Skew[s]
  <1>1. /\ clock \in Nat /\ clock' = clock + 1 /\ NewKey(s, time)
        /\ users' = [users EXCEPT ![s] = file] /\ edges' = [edges EXCEPT ![s] = {}]
        /\ UNCHANGED <<file, key, acked, ack>>
    BY DEF Reload, edgeVars, IInv, Shape
  <1>2. \A p \in Supernodes : Skew[p] \in Nat /\ Skew[p] = Skew[s]
    BY DEF DynamicKeyAssumption, ClocksAgree
  <1>3. \A t : Known(t, clock) => t < time
    BY <1>1, <1>2 DEF Known
  <1>4. Known(time, clock') /\ time # 0 /\ clock' \in Nat /\ clock <= clock'
    BY <1>1, <1>2 DEF Known
  <1> HIDE DEF time
  <1>5. key_time[s] \in Nat /\ key_time[s] < time /\ time \in Nat
    BY <1>3, <1>4 DEF IInv, TimesKnown, Known
  <1>6. TimesKnown' /\ KeyTimeGrowsStep /\ ToldWithOldKeyStep
    <2>1. time >= key_time[s]
      BY <1>5
    <2> QED BY Zenon, <1>1, <1>4, <2>1, Renewed DEF NewKey
  <1>7. key_time'[s] = time
    BY <1>1 DEF NewKey, IInv, Shape
  <1>8. /\ DOMAIN sent' = Supernodes
        /\ \A a \in Supernodes : DOMAIN sent'[a] = Supernodes
        /\ \A a, b \in Supernodes : KnownIn(sent'[a][b], clock')
    BY <1>1, <1>4, Told DEF NewKey
  <1>9. Shape'
    BY <1>1, <1>4, <1>8 DEF NewKey, IInv, Shape
  <1>10. KeysKnown' /\ MessagesKnown'
    BY <1>1, <1>4, <1>8, StillKnown DEF IInv, KeysKnown, MessagesKnown
  <1>11. AnswerOld'
    BY <1>1, <1>3, <1>7 DEF IInv, KeysKnown, AnswerOld
  <1>12. RemovedHasOldKey'
    BY <1>1, <1>3, <1>7 DEF IInv, KeysKnown, RemovedHasOldKey
  <1> QED BY <1>6, <1>9, <1>10, <1>11, <1>12 DEF Good, IInv

\* What is left to show when a step leaves the clock and the users alone.
LEMMA Enough ==
  ASSUME IInv, UNCHANGED <<clock, file, users>>, edges' \in [Supernodes -> SUBSET Edges],
         DOMAIN key_time' = Supernodes, DOMAIN key' = Edges, DOMAIN ack' = Edges,
         DOMAIN sent' = Supernodes, DOMAIN acked' = Supernodes,
         \A s \in Supernodes : DOMAIN sent'[s] = Supernodes /\ DOMAIN acked'[s] = Supernodes,
         TimesKnown', KeyTimeGrowsStep, ToldWithOldKeyStep,
         \A s, p \in Supernodes : KnownIn(sent'[s][p], clock) /\ KnownIn(acked'[s][p], clock),
         \A e \in Edges : key'[e] = key[e] \/ (ack[e] # Empty /\ key'[e] = ack[e].key),
         \A e \in Edges : \/ ack'[e] = ack[e] \/ ack'[e] = Empty
                          \/ Known(ack'[e].key, clock) /\ \E s \in Supernodes : e \in users[s]
  PROVE  Good
  <1>1. AnswerOld' /\ RemovedHasOldKey'
    BY StaysOld DEF KeyTimeGrowsStep
  <1>2. KeysKnown'
    BY DEF IInv, KeysKnown
  <1>3. MessagesKnown'
    BY DEF MessagesKnown
  <1>4. Shape'
    BY DEF IInv, Shape
  <1> QED BY <1>1, <1>2, <1>3, <1>4 DEF Good, IInv

\* No supernode changes its key.
LEMMA SameTimes == IInv /\ UNCHANGED <<clock, key_time>> => TimesKnown' /\ KeyTimeGrowsStep /\ ToldWithOldKeyStep
  BY DEF IInv, TimesKnown, Known, KeyTimeGrowsStep, ToldWithOldKeyStep

\* The regular registration with the other supernodes.
LEMMA PeriodicOK == ASSUME DynamicKeyAssumption, IInv, NEW s \in Supernodes, Periodic(s) PROVE Good
  <1>1. /\ RegisterWith(s, Others(s), key_time[s])
        /\ UNCHANGED <<clock, file, users, key_time, edges, key, acked, ack>>
    BY DEF Periodic, edgeVars
  <1>2. clock' \in Nat /\ clock <= clock' /\ key_time[s] # 0 /\ Known(key_time[s], clock')
    BY <1>1 DEF IInv, Shape, TimesKnown
  <1>3. /\ DOMAIN sent' = Supernodes
        /\ \A a \in Supernodes : DOMAIN sent'[a] = Supernodes
        /\ \A a, b \in Supernodes : KnownIn(sent'[a][b], clock)
    BY <1>1, <1>2, Told
  <1>4. TimesKnown' /\ KeyTimeGrowsStep /\ ToldWithOldKeyStep
    BY <1>1, SameTimes
  <1> QED BY <1>1, <1>3, <1>4, Enough DEF IInv, Shape, MessagesKnown

\* A REGISTER_SUPER of another supernode, with an older or a newer key time.
LEMMA RxRegisterOK ==
  ASSUME DynamicKeyAssumption, IInv, NEW s \in Supernodes, NEW p \in Others(s), RxRegister(s, p)
  PROVE  Good
  <1> DEFINE m == sent[p][s]
             time == IF m.key_time > key_time[s] THEN m.key_time ELSE key_time[s]
             answer == [cookie |-> m.cookie, key_time |-> time]
             told == [q \in Supernodes |-> IF q = s THEN sent[s][q]
                                           ELSE [cookie |-> ~cookie[s][q], key_time |-> time]]
  <1>1. p \in Supernodes /\ p # s
    BY DEF Others
  <1>2. /\ acked' = [acked EXCEPT ![s][p] = answer]
        /\ UNCHANGED <<clock, file, users, edges, key, ack>>
    BY DEF RxRegister, edgeVars
  <1>3. \/ UNCHANGED key_time /\ sent' = [sent EXCEPT ![p][s] = Empty]
        \/ /\ m.key_time > key_time[s] /\ ReRegister(s) /\ key_time' = [key_time EXCEPT ![s] = time]
           /\ sent' = [sent EXCEPT ![p][s] = Empty, ![s] = told]
    BY DEF RxRegister
  <1>4. m # Empty /\ m.key_time # 0 /\ Known(m.key_time, clock)
    BY <1>1 DEF RxRegister, IInv, MessagesKnown, KnownIn
  <1>5. key_time[s] # 0 /\ Known(key_time[s], clock)
    BY DEF IInv, TimesKnown
  <1>6. time # 0 /\ Known(time, clock) /\ time >= key_time[s]
    BY <1>4, <1>5 DEF Known
  <1> HIDE DEF time
  <1>7. KnownIn(answer, clock) /\ KnownIn(Empty, clock)
    BY <1>6 DEF KnownIn
  <1>8. /\ DOMAIN told = Supernodes
        /\ \A q \in Supernodes : KnownIn(told[q], clock)
    <2>1. \A q : KnownIn([cookie |-> ~cookie[s][q], key_time |-> time], clock)
      BY <1>6 DEF KnownIn
    <2> QED BY <2>1 DEF IInv, MessagesKnown
  <1> HIDE DEF answer, told, m
  <1>9. /\ DOMAIN sent = Supernodes /\ DOMAIN acked = Supernodes
        /\ \A a \in Supernodes : DOMAIN sent[a] = Supernodes /\ DOMAIN acked[a] = Supernodes
        /\ \A a, b \in Supernodes : KnownIn(sent[a][b], clock) /\ KnownIn(acked[a][b], clock)
    BY DEF IInv, Shape, MessagesKnown
  <1>10. /\ DOMAIN acked' = Supernodes
         /\ \A a \in Supernodes : DOMAIN acked'[a] = Supernodes
         /\ \A a, b \in Supernodes : KnownIn(acked'[a][b], clock)
    BY <1>1, <1>2, <1>7, <1>9
  <1>11. /\ DOMAIN sent' = Supernodes
         /\ \A a \in Supernodes : DOMAIN sent'[a] = Supernodes
         /\ \A a, b \in Supernodes : KnownIn(sent'[a][b], clock)
    BY <1>1, <1>3, <1>7, <1>8, <1>9
  <1>12. TimesKnown' /\ KeyTimeGrowsStep /\ ToldWithOldKeyStep /\ DOMAIN key_time' = Supernodes
    <2>1. CASE UNCHANGED key_time
      BY <1>2, <2>1, SameTimes DEF IInv, Shape
    <2>2. CASE ReRegister(s) /\ key_time' = [key_time EXCEPT ![s] = time]
      <3>1. clock' \in Nat /\ clock <= clock' /\ Known(time, clock')
        BY <1>2, <1>6 DEF IInv, Shape
      <3> QED BY Zenon, <2>2, <3>1, <1>6, Renewed DEF IInv, Shape
    <2> QED BY <2>1, <2>2, <1>3
  <1> QED BY <1>2, <1>10, <1>11, <1>12, Enough DEF IInv, Shape

\* Its answer: an old cookie or an old key time is passed over.
LEMMA RxAckOK ==
  ASSUME DynamicKeyAssumption, IInv, NEW s \in Supernodes, NEW p \in Others(s), RxAck(s, p)
  PROVE  Good
  <1> DEFINE m == acked[p][s]
  <1>1. p \in Supernodes /\ m # Empty
    BY DEF Others, RxAck
  <1>2. acked' = [acked EXCEPT ![p][s] = Empty] /\ UNCHANGED <<clock, file, users, edges, key, ack>>
    BY DEF RxAck, edgeVars
  <1>3. UNCHANGED <<key_time, sent>> \/ (m.key_time > key_time[s] /\ NewKey(s, m.key_time))
    BY DEF RxAck
  <1>4. m.key_time # 0 /\ Known(m.key_time, clock')
    BY <1>1, <1>2 DEF IInv, MessagesKnown, KnownIn
  <1>5. /\ DOMAIN acked' = Supernodes
        /\ \A a \in Supernodes : DOMAIN acked'[a] = Supernodes
        /\ \A a, b \in Supernodes : KnownIn(acked'[a][b], clock)
    <2>1. KnownIn(Empty, clock)
      BY DEF KnownIn
    <2> QED BY <2>1, <1>1, <1>2 DEF IInv, Shape, MessagesKnown
  <1>6. CASE UNCHANGED <<key_time, sent>>
    <2>1. TimesKnown' /\ KeyTimeGrowsStep /\ ToldWithOldKeyStep
      BY <1>2, <1>6, SameTimes
    <2> QED BY <2>1, <1>2, <1>5, <1>6, Enough DEF IInv, Shape, MessagesKnown
  <1>7. CASE m.key_time > key_time[s] /\ NewKey(s, m.key_time)
    <2>1. clock' \in Nat /\ clock <= clock'
      BY <1>2 DEF IInv, Shape
    <2>2. m.key_time >= key_time[s]
      BY <1>4, <1>7 DEF IInv, TimesKnown, Known
    <2>3. TimesKnown' /\ KeyTimeGrowsStep /\ ToldWithOldKeyStep
      BY Zenon, <2>1, <2>2, <1>4, <1>7, Renewed DEF NewKey
    <2>4. /\ DOMAIN sent' = Supernodes
          /\ \A a \in Supernodes : DOMAIN sent'[a] = Supernodes
          /\ \A a, b \in Supernodes : KnownIn(sent'[a][b], clock)
      BY <2>1, <1>2, <1>4, <1>7, Told DEF NewKey
    <2>5. DOMAIN key_time' = Supernodes
      BY <1>7 DEF NewKey, IInv, Shape
    <2> QED BY <2>3, <2>4, <2>5, <1>2, <1>5, Enough DEF IInv, Shape
  <1> QED BY <1>3, <1>6, <1>7

\* The REGISTER_SUPER of an edge: one that has a user gets the key.
LEMMA RxEdgeOK ==
  ASSUME IInv, NEW s \in Supernodes, NEW e \in Edges, RxEdge(s, e)
  PROVE  Good
  <1> DEFINE answer == [challenge |-> reg[e].challenge, key |-> key_time[s]]
  <1>1. UNCHANGED <<clock, file, users, key_time, key, sent, acked>>
    BY DEF RxEdge, edgeVars
  <1>2. \/ UNCHANGED <<edges, ack>>
        \/ e \in users[s] /\ edges' = [edges EXCEPT ![s] = @ \cup {e}] /\ ack' = [ack EXCEPT ![e] = answer]
    BY DEF RxEdge, Auth
  <1>3. Known(answer.key, clock)
    BY DEF IInv, TimesKnown
  <1> HIDE DEF answer
  <1>4. DOMAIN ack' = Edges /\ edges' \in [Supernodes -> SUBSET Edges]
    BY <1>2 DEF IInv, Shape
  <1>5. \A x \in Edges : \/ ack'[x] = ack[x]
                         \/ Known(ack'[x].key, clock) /\ \E p \in Supernodes : x \in users[p]
    BY <1>2, <1>3 DEF IInv, Shape
  <1>6. TimesKnown' /\ KeyTimeGrowsStep /\ ToldWithOldKeyStep
    BY <1>1, SameTimes
  <1> QED BY <1>1, <1>4, <1>5, <1>6, Enough DEF IInv, Shape, MessagesKnown

\* An edge takes the key of an answer.
LEMMA RxEdgeAckOK == ASSUME IInv, NEW e \in Edges, RxEdgeAck(e) PROVE Good
  <1>1. /\ UNCHANGED <<clock, file, users, key_time, edges, sent, acked>>
        /\ ack[e] # Empty /\ ack' = [ack EXCEPT ![e] = Empty]
        /\ key' = key \/ key' = [key EXCEPT ![e] = ack[e].key]
    BY DEF RxEdgeAck
  <1>2. TimesKnown' /\ KeyTimeGrowsStep /\ ToldWithOldKeyStep
    BY <1>1, SameTimes
  <1> QED BY <1>1, <1>2, Enough DEF IInv, Shape, MessagesKnown

\* Messages get lost.
LEMMA LoseOK == ASSUME IInv, Lose PROVE Good
  <1>1. UNCHANGED <<clock, file, users, key_time, edges, key>>
    BY DEF Lose, edgeVars
  <1>2. TimesKnown' /\ KeyTimeGrowsStep /\ ToldWithOldKeyStep
    BY <1>1, SameTimes
  <1>3. KnownIn(Empty, clock)
    BY DEF KnownIn
  <1>4. /\ sent' = sent \/ \E s, p \in Supernodes : sent' = [sent EXCEPT ![s][p] = Empty]
        /\ acked' = acked \/ \E s, p \in Supernodes : acked' = [acked EXCEPT ![s][p] = Empty]
        /\ ack' = ack \/ \E e \in Edges : ack' = [ack EXCEPT ![e] = Empty]
    BY DEF Lose
  <1>5. /\ DOMAIN sent' = Supernodes
        /\ \A a \in Supernodes : DOMAIN sent'[a] = Supernodes
        /\ \A a, b \in Supernodes : KnownIn(sent'[a][b], clock)
    BY <1>3, <1>4 DEF IInv, Shape, MessagesKnown
  <1>6. /\ DOMAIN acked' = Supernodes
        /\ \A a \in Supernodes : DOMAIN acked'[a] = Supernodes
        /\ \A a, b \in Supernodes : KnownIn(acked'[a][b], clock)
    BY <1>3, <1>4 DEF IInv, Shape, MessagesKnown
  <1>7. DOMAIN ack' = Edges /\ \A e \in Edges : ack'[e] = ack[e] \/ ack'[e] = Empty
    BY <1>4 DEF IInv, Shape
  <1> QED BY <1>1, <1>2, <1>5, <1>6, <1>7, Enough DEF IInv, Shape

LEMMA InitOK == ASSUME DynamicKeyAssumption, Init PROVE IInv
  <1>1. Shape
    BY DEF Init, Shape
  <1>2. Known(0, 1) /\ Known(1, 1)
    BY DEF DynamicKeyAssumption, Known
  <1>3. TimesKnown /\ KeysKnown /\ MessagesKnown
    BY <1>2 DEF Init, TimesKnown, KeysKnown, MessagesKnown, KnownIn
  <1>4. AnswerOld /\ RemovedHasOldKey
    BY DEF DynamicKeyAssumption, Init, AnswerOld, RemovedHasOldKey, Gone
  <1> QED BY <1>1, <1>3, <1>4 DEF IInv

LEMMA StepOK == ASSUME DynamicKeyAssumption, ClocksAgree, IInv, [Next]_vars PROVE Good
  <1>1. CASE Lose
    BY <1>1, LoseOK
  <1>2. ASSUME NEW s \in Supernodes, SupernodeStep(s) PROVE Good
    <2>1. ASSUME NEW e \in Edges, PurgeEdge(s, e) PROVE Good
      BY <2>1, QuietOK DEF PurgeEdge, edgeVars, IInv, Shape
    <2> QED BY <1>2, <2>1, ReloadOK, PeriodicOK, RxRegisterOK, RxAckOK, RxEdgeOK DEF SupernodeStep
  <1>3. ASSUME NEW e \in Edges, EdgeStep(e) PROVE Good
    <2>1. CASE Remove(e)
      BY <2>1, QuietOK DEF Remove, edgeVars, IInv, Shape
    <2>2. CASE RxReRegister(e)
      BY <2>2, QuietOK DEF RxReRegister, IInv, Shape
    <2>3. ASSUME NEW s \in Supernodes, Register(e, s) PROVE Good
      BY <2>3, QuietOK DEF Register, IInv, Shape
    <2> QED BY <1>3, <2>1, <2>2, <2>3, RxEdgeAckOK DEF EdgeStep
  <1>4. CASE UNCHANGED vars
    BY <1>4, QuietOK DEF vars, edgeVars, IInv, Shape
  <1> QED BY <1>1, <1>2, <1>3, <1>4 DEF Next

\* However the messages among supernodes and edges are delayed, overtaken or
\* lost, an edge whose user no supernode lists any more has not the newest
\* key (load_allowed_sn_community, calculate_dynamic_keys).
THEOREM RemovedKept ==
  ASSUME DynamicKeyAssumption, ClocksAgree
  PROVE  Spec => [](TypeOK /\ RemovedHasOldKey)
  <1>1. Init => IInv
    BY InitOK
  <1>2. IInv /\ [Next]_vars => IInv'
    BY StepOK DEF Good
  <1>3. IInv => TypeOK /\ RemovedHasOldKey
    BY DEF IInv, TypeOK, Shape, TimesKnown, KeysKnown, Known
  <1> QED BY <1>1, <1>2, <1>3, PTL DEF Spec

\* No supernode goes back to an older key, and with every new key its edges
\* are told to register again in a message that they can read.
THEOREM NewKeysTold ==
  ASSUME DynamicKeyAssumption, ClocksAgree
  PROVE  Spec => [][KeyTimeGrowsStep /\ ToldWithOldKeyStep]_vars
  <1>1. Init => IInv
    BY InitOK
  <1>2. IInv /\ [Next]_vars => IInv' /\ [KeyTimeGrowsStep /\ ToldWithOldKeyStep]_vars
    BY StepOK DEF Good
  <1> QED BY <1>1, <1>2, PTL DEF Spec

==================================================
