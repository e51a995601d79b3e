----------------------------- MODULE EdgePeers -----------------------------
(***************************************************************************)
(* How an edge finds its peers: the tables pending_peers (a REGISTER was   *)
(* sent, or the supernode asked) and known_peers (a REGISTER_ACK came      *)
(* back), the packets that move an entry from one to the other, and        *)
(* find_peer_destination, which decides between a peer's own socket and    *)
(* the supernode for every packet to be sent.                              *)
(*                                                                         *)
(* Both tables are uthash tables keyed by the MAC address; nothing keeps   *)
(* two entries with one key apart, so they are sequences in the order of   *)
(* insertion.  Times are ages, counted in steps of Tick up to MaxAge.  The *)
(* edge is past its first registration with the supernode.                 *)
(*                                                                         *)
(* The peers and the network are the environment: a peer hears what is     *)
(* sent to the sockets home[m]; pub[m] is the socket that the supernode    *)
(* sees for it, which need not be one of those.  Packets get lost,         *)
(* delayed and reordered.                                                  *)
(***************************************************************************)
EXTENDS Integers, Sequences, SequencesExt, FiniteSetsExt

CONSTANTS Mac,            \* the peers
          Sock,           \* sockets of peers
          SnSock,         \* the supernode's
          Localhost,      \* what the supernode reports for an edge on its own host
          NoSock,         \* a socket of zeros
          Predicted,      \* the sockets at a socket's next ports
          RegisterTtl,    \* conf.register_ttl
          Multicast,      \* the multicast group was joined and no local socket is preferred
          Refresh,        \* register_interval / 2
          Quarter,        \* REGISTRATION_TIMEOUT / 4
          Interval,       \* register_interval
          Expire,         \* REGISTRATION_TIMEOUT
          Cookies,        \* the ways that REGISTERs of peers come straight to the edge
          MaxMoves,       \* how often peers change their sockets
          MaxMacs         \* how often a peer comes back with another MAC address

AgesOrdered == /\ {Refresh, Quarter, Interval, Expire} \subseteq Nat
                      /\ 0 < Refresh /\ Refresh <= Quarter /\ Quarter <= Interval
                      /\ Interval <= Expire

VARIABLES known, pending,  \* the tables
          snWait,          \* sn_wait: the supernode does not answer
          acks, infos,     \* REGISTER_ACKs and PEER_INFOs on their way to the edge
          home, pub, pref, \* where the peers are, appear to be, and say that they are
          moves, macs,     \* changes so far
          acked, told      \* sockets each peer acknowledged from, or that a PEER_INFO gave

tables == <<known, pending>>
net == <<acks, infos>>
peers == <<home, pub, pref, moves, macs>>
history == <<acked, told>>
vars == <<tables, snWait, net, peers, history>>

\* how reliable the way is that a REGISTER went
NoCookie == 0
ForwardedCookie == 1
PortCookie == 2
RegularCookie == 3
McastCookie == 4
LocalCookie == 5

MaxAge == Expire + 1
Age == 0..MaxAge
Addr == Sock \cup {SnSock, Localhost, NoSock}

Entry(m, s) == [mac |-> m, sock |-> s, cookie |-> NoCookie, seen |-> 0, p2p |-> MaxAge, query |-> MaxAge]

\* the position of m's entry, of the latest one if there are more
Find(list, m) ==
    LET I == {i \in DOMAIN list : list[i].mac = m}
    IN IF I = {} THEN 0 ELSE Max(I)

find_peer_by_sock(list, s) ==
    LET I == {i \in DOMAIN list : list[i].sock = s}
    IN IF I = {} THEN 0 ELSE Min(I)

find_and_remove_peer(list, m) ==
    IF Find(list, m) = 0 THEN list ELSE RemoveAt(list, Find(list, m))

\* the socket a packet that came through the supernode is taken to be from
OrigSender(s) == IF s = Localhost THEN SnSock ELSE s

-----------------------------------------------------------------------------
(* The operators below take and return the tables and the REGISTERs sent   *)
(* so far by the handler: [known, pending, regs].                          *)

Register(m, s, c) == [mac |-> m, sock |-> s, cookie |-> c]

\* to the multicast group: every peer that listens there hears it
register_with_local_peers ==
    IF Multicast THEN {Register(m, pref[m], McastCookie) : m \in {n \in Mac : pref[n] # NoSock}} ELSE {}

\* the first REGISTERs to a peer; the one that the supernode forwards makes
\* the peer send one of its own, which DirectRegister covers
FirstRegisters(fromSn, m, s) ==
    register_with_local_peers \cup
        (IF ~fromSn \/ RegisterTtl <= 0 THEN {Register(m, s, RegularCookie)}
         ELSE IF RegisterTtl = 1 THEN {}
         ELSE {Register(m, p, PortCookie) : p \in Predicted[s]})

register_with_new_peer(t, fromSn, m, s) ==
    LET i == Find(t.pending, m)
    IN IF i = 0
       THEN [t EXCEPT !.pending = Append(@, Entry(m, s)), !.regs = @ \cup FirstRegisters(fromSn, m, s)]
       ELSE [t EXCEPT !.pending[i].sock = s, !.pending[i].seen = 0]

check_known_peer_sock_change(t, fromSn, m, s) ==
    LET i == Find(t.known, m)
    IN IF s = NoSock \/ i = 0 THEN t
       ELSE IF t.known[i].sock = s THEN [t EXCEPT !.known[i].seen = 0]
       ELSE IF fromSn THEN t
       ELSE register_with_new_peer([t EXCEPT !.known = RemoveAt(@, i)], fromSn, m, s)

\* known_peers after the search for a sender, by MAC address or by socket
Rekeyed(list, m, s) ==
    LET i == find_peer_by_sock(list, s)
    IN IF Find(list, m) # 0 \/ i = 0 THEN list
       ELSE Append(RemoveAt(list, i), [list[i] EXCEPT !.mac = m, !.cookie = NoCookie])

check_peer_registration_needed(t, fromSn, m, c, s) ==
    LET list == Rekeyed(t.known, m, s)
        i == Find(list, m)
        u == [t EXCEPT !.known = [list EXCEPT ![i].p2p = IF fromSn THEN @ ELSE 0]]
    IN IF i = 0 THEN register_with_new_peer(t, fromSn, m, s)
       ELSE IF list[i].seen > 0 \/ c > list[i].cookie THEN check_known_peer_sock_change(u, fromSn, m, s)
       ELSE u

\* the wrong version that leaves the confirmed entry among the pending ones
ConfirmKeepingPending(t, m, c, s) ==
    LET i == Find(t.pending, m)
    IN IF i = 0 THEN t
       ELSE [t EXCEPT !.known = Append(@, [t.pending[i] EXCEPT !.sock = s, !.cookie = c, !.p2p = 0])]

peer_set_p2p_confirmed(t, m, c, s) ==
    LET byMac == Find(t.pending, m)
        i == IF byMac # 0 THEN byMac ELSE find_peer_by_sock(t.pending, s)
        k == find_peer_by_sock(t.known, s)
        e == IF k # 0 THEN [t.known[k] EXCEPT !.mac = m, !.cookie = NoCookie]
             ELSE IF byMac = 0 \/ t.pending[i].seen > Quarter \/ c > t.pending[i].cookie
             THEN [t.pending[i] EXCEPT !.sock = s, !.cookie = c]
             ELSE t.pending[i]
    IN IF i = 0 THEN t
       ELSE [t EXCEPT !.pending = RemoveAt(@, i),
                      !.known = Append(IF k # 0 THEN RemoveAt(@, k) ELSE @,
                                       [e EXCEPT !.p2p = 0, !.seen = 0, !.query = MaxAge])]

\* the acknowledgements that REGISTERs bring about
Answers(regs) ==
    {[mac |-> r.mac, sock |-> r.sock, cookie |-> r.cookie] : r \in {q \in regs : q.sock \in home[q.mac]}}

Tables == [known |-> known, pending |-> pending, regs |-> {}]

Becomes(t) ==
    /\ known' = t.known
    /\ pending' = t.pending
    /\ acks' = acks \cup Answers(t.regs)

-----------------------------------------------------------------------------
Init ==
    /\ known = <<>> /\ pending = <<>>
    /\ snWait = FALSE
    /\ acks = {} /\ infos = {}
    /\ home \in [Mac -> SUBSET Sock]
    /\ pub \in [Mac -> Sock \cup {Localhost}]
    /\ \A m, n \in Mac : m # n => (home[m] \cup {pub[m]}) \cap (home[n] \cup ({pub[n]} \ {Localhost})) = {}
    /\ pref \in [Mac -> Sock \cup {NoSock}]
    /\ \A m \in Mac : pref[m] \in home[m] \cup {NoSock}
    /\ moves = 0 /\ macs = 0
    /\ acked = {} /\ told = {}

\* a PACKET or a REGISTER straight from the peer; the REGISTER is acknowledged
\* (nothing in the edge's state says so)
DirectPacket(m, s, c) ==
    /\ s \in home[m]
    /\ Becomes(check_peer_registration_needed(
                   [Tables EXCEPT !.pending = find_and_remove_peer(@, m)], FALSE, m, c, s))
    /\ UNCHANGED <<snWait, infos, peers, history>>

\* a PACKET or a REGISTER of the peer that the supernode forwarded
ForwardedPacket(m) ==
    /\ home[m] # {}
    /\ Becomes(check_peer_registration_needed(Tables, TRUE, m, ForwardedCookie, OrigSender(pub[m])))
    /\ UNCHANGED <<snWait, infos, peers, history>>

RegisterAck(a) ==
    /\ LET t == peer_set_p2p_confirmed(Tables, a.mac, a.cookie, a.sock)
       IN known' = t.known /\ pending' = t.pending
    /\ acks' = acks \ {a}
    /\ acked' = acked \cup {<<a.mac, a.sock>>}
    /\ UNCHANGED <<snWait, infos, peers, told>>

\* the supernode's answer to a query: an entry's socket is replaced, and
\* REGISTERs are sent there and to the socket that the peer prefers
PeerInfo(p) ==
    LET i == Find(pending, p.mac)
        k == Find(known, p.mac)
        taken == (i # 0 \/ k # 0) /\ ~(p.pref # NoSock /\ p.sock = Localhost)
        regs == {Register(p.mac, p.sock, RegularCookie)}
                    \cup (IF p.pref = NoSock THEN {} ELSE {Register(p.mac, p.pref, LocalCookie)})
    IN /\ Becomes(IF ~taken THEN Tables
                  ELSE IF i # 0 THEN [Tables EXCEPT !.pending[i].sock = p.sock, !.regs = regs]
                  ELSE [Tables EXCEPT !.known[k].sock = p.sock, !.regs = regs])
       /\ infos' = infos \ {p}
       /\ told' = told \cup {<<p.mac, p.sock>>}
       /\ UNCHANGED <<snWait, peers, acked>>

\* the wrong version that never looks at the time of the last direct packet
NeverIdle(e) == FALSE

Idle(e) == e.p2p >= Refresh

\* find_peer_destination
Usable(m) == Find(known, m) # 0 /\ ~Idle(known[Find(known, m)])

\* check_query_peer_info
Asked(m) == IF Find(pending, m) = 0 THEN Append(pending, Entry(m, NoSock)) ELSE pending
Query(m) == Asked(m)[Find(Asked(m), m)].query > Interval

\* a packet for the peer: straight to it, or to the supernode, which is asked
\* for the peer's socket
SendPacket(m) ==
    /\ \/ Usable(m) /\ UNCHANGED <<tables, infos>>
       \/ /\ ~Usable(m)
          /\ known' = find_and_remove_peer(known, m)
          /\ pending' = IF Query(m) THEN [Asked(m) EXCEPT ![Find(Asked(m), m)].query = 0] ELSE Asked(m)
          /\ infos' = IF Query(m) /\ home[m] # {}
                      THEN infos \cup {[mac |-> m, sock |-> pub[m], pref |-> pref[m]]} ELSE infos
    /\ UNCHANGED <<snWait, acks, peers, history>>

\* every registration with the supernode; while it does not answer, known
\* peers are sent REGISTERs as well
ReRegister ==
    /\ LET again == IF snWait THEN {e \in Range(known) : e.seen > Interval} ELSE {}
       IN acks' = acks \cup Answers(register_with_local_peers
                                        \cup {Register(e.mac, e.sock, e.cookie) : e \in again})
    /\ snWait' = TRUE
    /\ UNCHANGED <<tables, infos, peers, history>>

SupernodeAnswers ==
    /\ snWait
    /\ snWait' = FALSE
    /\ UNCHANGED <<tables, net, peers, history>>

\* purge_expired_nodes, for both tables
Young(e) == e.seen <= Expire
Purge ==
    /\ pending' = SelectSeq(pending, Young)
    /\ known' = IF snWait THEN known ELSE SelectSeq(known, Young)
    /\ UNCHANGED <<snWait, net, peers, history>>

Older(a) == Min({a + 1, MaxAge})
Aged(list) == [i \in DOMAIN list |-> [list[i] EXCEPT !.seen = Older(@), !.p2p = Older(@), !.query = Older(@)]]
Tick ==
    /\ known' = Aged(known) /\ pending' = Aged(pending)
    /\ UNCHANGED <<snWait, net, peers, history>>

-----------------------------------------------------------------------------
(* The environment.                                                        *)

Lose ==
    /\ \/ \E a \in acks : acks' = acks \ {a} /\ UNCHANGED infos
       \/ \E p \in infos : infos' = infos \ {p} /\ UNCHANGED acks
    /\ UNCHANGED <<tables, snWait, peers, history>>

\* a peer changes its public socket
Move(m, s) ==
    /\ moves < MaxMoves
    /\ home[m] # {} /\ \A n \in Mac : s \notin home[n]
    /\ moves' = moves + 1
    /\ home' = [home EXCEPT ![m] = {s}]
    /\ pub' = [pub EXCEPT ![m] = s]
    /\ pref' = [pref EXCEPT ![m] = NoSock]
    /\ UNCHANGED <<tables, snWait, net, macs, history>>

\* a peer starts again with another MAC address at the same sockets
NewMac(m, n) ==
    /\ macs < MaxMacs
    /\ home[m] # {} /\ home[n] = {}
    /\ macs' = macs + 1
    /\ home' = [home EXCEPT ![n] = home[m], ![m] = {}]
    /\ pub' = [pub EXCEPT ![n] = pub[m]]
    /\ pref' = [pref EXCEPT ![n] = pref[m], ![m] = NoSock]
    /\ UNCHANGED <<tables, snWait, net, moves, history>>

Next ==
    \/ \E m \in Mac : \E s \in Sock, c \in Cookies : DirectPacket(m, s, c)
    \/ \E m \in Mac : ForwardedPacket(m)
    \/ \E a \in acks : RegisterAck(a)
    \/ \E p \in infos : PeerInfo(p)
    \/ \E m \in Mac : SendPacket(m)
    \/ ReRegister
    \/ SupernodeAnswers
    \/ Purge
    \/ Tick
    \/ Lose
    \/ \E m \in Mac : \E s \in Sock : Move(m, s)
    \/ \E m, n \in Mac : NewMac(m, n)

Spec == Init /\ [][Next]_vars

-----------------------------------------------------------------------------
(* What is checked.                                                        *)

TypeOK ==
    /\ \A e \in Range(known) \cup Range(pending) :
          e \in [mac : Mac, sock : Addr, cookie : NoCookie..LocalCookie, seen : Age, p2p : Age, query : Age]
    /\ \A e \in Range(pending) : e.cookie = NoCookie /\ e.p2p = MaxAge
    /\ \A a \in acks : a.mac \in Mac /\ a.sock \in Sock /\ a.cookie \in NoCookie..LocalCookie
    /\ \A p \in infos : p.mac \in Mac
    /\ snWait \in BOOLEAN

Macs(list) == {list[i].mac : i \in DOMAIN list}
Once(list) == \A i, j \in DOMAIN list : list[i].mac = list[j].mac => i = j

\* While MAC addresses stay where they are, a peer has at most one entry in
\* pending_peers and known_peers together, whatever the order in which its
\* packets, acknowledgements and the supernode's answers arrive: an entry
\* that HASH_FIND does not return would escape every update.
OneEntry == Once(known) /\ Once(pending) /\ Macs(known) \cap Macs(pending) = {}

\* A socket in known_peers is one that this peer acknowledged a REGISTER
\* from, or that the supernode gave in answer to a query: the sockets that
\* forwarded packets report start a registration and no more.
KnownJustified == \A e \in Range(known) : <<e.mac, e.sock>> \in acked \cup told

\* A socket leads to one known peer, unless the supernode gave it for another
\* one: a peer that comes back with another MAC address takes over the entry.
SocketOnce ==
    \A i, j \in DOMAIN known :
        i # j /\ known[i].sock = known[j].sock
            => {<<known[i].mac, known[i].sock>>, <<known[j].mac, known[j].sock>>} \cap told # {}

LiveSpec == Spec /\ WF_vars(Tick) /\ \A m \in Mac : WF_vars(SendPacket(m))

Elsewhere(e) == e.sock \notin home[e.mac] /\ (home[e.mac] = {} \/ e.sock # pub[e.mac])

\* Packets do not go on for ever to a socket that the peer has left, or that
\* a peer had which is gone: the direct packets of the peer correct the
\* entry, and without any it is dropped by the next packet after half an
\* interval.  (A socket at which the supernode sees the peer is excepted:
\* forwarded packets renew last_seen of such an entry.)
NotStale(m) == \A e \in Range(known) : e.mac = m => ~Elsewhere(e)

=============================================================================
