----------------------------- MODULE SnForward -----------------------------
(***************************************************************************)
(* How the supernodes of a federation pass on what the edges of one        *)
(* community send to each other: process_udp up to and including PACKET    *)
(* and REGISTER, try_forward, try_broadcast and the sending below them     *)
(* (sn_utils.c).                                                           *)
(*                                                                         *)
(* The tables follow the edges with a delay: an edge that moves is known   *)
(* to its new supernode at once (Move), the others hear of it one by one   *)
(* (Learn); Federation has the messages that do so.  Time stamps are left  *)
(* to TimeStamp, dynamic keys to DynamicKey, what edges do with a packet   *)
(* they are sent to EdgeBridge.                                            *)
(***************************************************************************)
EXTENDS Naturals, Sequences, FiniteSets, SequencesExt

CONSTANTS
    Sn, NoSn,
    Mac,
    Everyone,       \* a destination that is_multi_broadcast
    Encrypting,     \* the edges that encrypt their headers
    Transports,     \* how edges are reached: "udp", "kcp" (udp with a session), "tcp"
    Kinds,          \* MSG_TYPE_PACKET and MSG_TYPE_REGISTER
    Sizes,          \* whether a packet exceeds N2N_SN_LEGACY_SAFE_UDP_SIZE
    Views,          \* how a supernode may see another: "unknown", "inactive", "active"
    Locks,          \* comm->header_encryption at the start
    Purgeable,      \* a community the last edge of which left is deleted
    N2N_DEFAULT_TTL,
    MaxPackets, MaxMoves, MaxBreaks     \* bounds on what the edges do

SnForwardAssumption ==
    /\ NoSn \notin Sn /\ Everyone \notin Mac /\ Encrypting \subseteq Mac
    /\ Views \subseteq {"unknown", "inactive", "active"} /\ Purgeable \in BOOLEAN
    /\ Locks \subseteq {"absent", "unknown", "none", "enabled"}
    /\ N2N_DEFAULT_TTL \in Nat \ {0} /\ {MaxPackets, MaxMoves, MaxBreaks} \subseteq Nat

VARIABLES
    home,       \* the supernode each edge is registered with
    reach,      \* how its supernode reaches it
    broken,     \* edges whose connection is gone without their supernode knowing
    edges,      \* comm->edges of each supernode: a transport, or "no"
    assoc,      \* comm->assoc of each supernode
    lock,       \* comm->header_encryption of each supernode
    view,       \* view[s][t]: sss->federation->edges of s
    net,        \* packets under way
    got,        \* what the edges have received
    calm,       \* packets that found the tables settled so far, and whom they are due
    used        \* the bounds' counters
vars == <<home, reach, broken, edges, assoc, lock, view, net, got, calm, used>>

HeaderOf(m) == IF m \in Encrypting THEN "enabled" ELSE "none"

\* Those still under way.
Disturbed == {c \in calm : \E q \in net : q.id = c.p.id}

----------------------------------------------------------------------------
\* process_udp before the switch.

\* A clear header is taken unless the community is locked to encrypted ones; an
\* encrypted one needs a community with a key, that is not locked to clear ones.
HeaderTaken(s, p) == lock[s] \in {"unknown", p.header}

\* Only REGISTER_SUPER is taken from unknown supernodes.
SenderTaken(s, p) == p.from_supernode => view[s][p.via[Len(p.via)]] # "unknown"

TtlLeft(p) == p.ttl >= 1

----------------------------------------------------------------------------
\* A packet of an edge gets a new header; one of a supernode goes out as it came.
Recoded(s, p) ==
    IF p.from_supernode THEN [p EXCEPT !.via = Append(@, s)]
    ELSE [p EXCEPT !.ttl = @ - 1, !.from_supernode = TRUE, !.via = Append(@, s)]

\* sendto_peer to an edge: one that is too large for plain datagrams is
\* dropped, and so is what a broken connection takes.
peer_has_active_kcp(s, m) == edges[s][m] = "kcp"

Oversized(s, m, p) ==
    p.kind = "PACKET" /\ p.large /\ edges[s][m] # "tcp" /\ ~peer_has_active_kcp(s, m)
Fails(s, m) == edges[s][m] = "tcp" /\ (m \in broken \/ home[m] # s)
sendto_peer(s, m, p) ==
    IF Oversized(s, m, p) \/ Fails(s, m) THEN {} ELSE {[p EXCEPT !.to = m]}

\* try_broadcast: the edges it sends to, and the supernodes.
BroadcastEdges(s, p) == {m \in Mac : edges[s][m] # "no" /\ m # p.src}

BroadcastSupernodes(s, from_supernode) ==
    IF from_supernode THEN {} ELSE {t \in Sn : view[s][t] = "active"}

\* try_forward: the edge if it is known, else the supernode it is associated
\* with, else all of them; a supernode's packet for an unknown edge is dropped.
ForwardEdges(s, p) == {p.dst} \cap {m \in Mac : edges[s][m] # "no"}

\* Mutant: other supernodes are only asked about edges associated with them.
ForwardToKnown(s, p) ==
    IF ForwardEdges(s, p) # {} \/ p.from_supernode THEN {} ELSE {assoc[s][p.dst]} \ {NoSn}

ForwardSupernodes(s, p) ==
    IF ForwardEdges(s, p) # {} \/ p.from_supernode THEN {}
    ELSE IF assoc[s][p.dst] # NoSn THEN {assoc[s][p.dst]}
    ELSE BroadcastSupernodes(s, p.from_supernode)

\* The whole of process_udp for PACKET and REGISTER; a REGISTER to everyone is
\* reported and dropped.
process_udp(s, p) ==
    LET taken == HeaderTaken(s, p) /\ SenderTaken(s, p) /\ TtlLeft(p)
        unicast == p.dst # Everyone
        none == p.kind = "REGISTER" /\ ~unicast
        out == Recoded(s, p)
        toEdges == IF ~taken \/ none THEN {}
                   ELSE IF unicast THEN ForwardEdges(s, p) ELSE BroadcastEdges(s, p)
        toSns == IF ~taken \/ none THEN {}
                 ELSE IF unicast THEN ForwardSupernodes(s, p)
                 ELSE BroadcastSupernodes(s, p.from_supernode)
        failed == {m \in toEdges : Fails(s, m)}
    IN /\ p \in net /\ p.to = s
       /\ net' = (net \ {p}) \cup {[out EXCEPT !.to = t] : t \in toSns}
       /\ got' = got \cup UNION {sendto_peer(s, m, out) : m \in toEdges}
       /\ lock' = IF HeaderTaken(s, p) THEN [lock EXCEPT ![s] = p.header] ELSE lock
          \* sendto_fd: "forget about the corresponding peer and the connection"
       /\ edges' = [edges EXCEPT ![s] = [m \in Mac |-> IF m \in failed THEN "no" ELSE @[m]]]
       /\ calm' = IF failed # {} THEN calm \ Disturbed ELSE calm
       /\ UNCHANGED <<home, reach, broken, assoc, view, used>>

----------------------------------------------------------------------------
\* The edges.

Settled ==
    /\ broken = {}
    /\ \A s \in Sn, m \in Mac : /\ edges[s][m] = IF home[m] = s THEN reach[m] ELSE "no"
                                /\ assoc[s][m] \in {NoSn, home[m]}
    /\ \A s, t \in Sn : s = t \/ view[s][t] = "active"

\* Whom a packet is meant for and can be brought to.
Due(p) ==
    {m \in Mac \ {p.src} :
        /\ m = p.dst \/ (p.dst = Everyone /\ p.kind # "REGISTER")
        /\ HeaderOf(m) = p.header
        /\ ~(p.kind = "PACKET" /\ p.large /\ reach[m] = "udp")}

Use(what, limit) == used[what] < limit /\ used' = [used EXCEPT ![what] = @ + 1]

Send(m, kind, dst, large) ==
    LET p == [id |-> used.packets, kind |-> kind, src |-> m, dst |-> dst, large |-> large,
              ttl |-> N2N_DEFAULT_TTL, header |-> HeaderOf(m), from_supernode |-> FALSE,
              via |-> <<>>, to |-> home[m]]
    IN /\ m # dst
       /\ Use("packets", MaxPackets)
       /\ net' = net \cup {p}
       /\ calm' = IF Settled THEN calm \cup {[p |-> p, due |-> Due(p)]} ELSE calm
       /\ UNCHANGED <<home, reach, broken, edges, assoc, lock, view, got>>

\* A REGISTER_SUPER that arrives at t creates the community, unless its header
\* is encrypted, and locks it.
Admitted(m, t) ==
    \/ lock[t] \in {"unknown", HeaderOf(m)}
    \/ lock[t] = "absent" /\ m \notin Encrypting

\* An edge registers with another supernode.
Registers(m, t, how) ==
    IF Admitted(m, t)
    THEN /\ lock' = [lock EXCEPT ![t] = HeaderOf(m)]
         /\ edges' = [edges EXCEPT ![t][m] = how]
         /\ home' = [home EXCEPT ![m] = t] /\ reach' = [reach EXCEPT ![m] = how]
    ELSE UNCHANGED <<lock, edges, home, reach>>

Move(m, t, how) ==
    /\ home[m] # t /\ Use("moves", MaxMoves)
    /\ Registers(m, t, how)
    /\ broken' = broken \ {m}
    /\ calm' = calm \ Disturbed
    /\ UNCHANGED <<assoc, view, net, got>>

\* The forwarded REGISTER_SUPER reaches s: an association is made unless there
\* is one (an old one has to expire first), and a registration is deleted.
Learn(s, m) ==
    /\ home[m] # s /\ Admitted(m, s)
    /\ lock' = [lock EXCEPT ![s] = HeaderOf(m)]
    /\ assoc[s][m] # home[m] \/ edges[s][m] # "no"
    /\ \E a \in {assoc[s][m], NoSn} :   \* NoSn: it has expired
           assoc' = [assoc EXCEPT ![s][m] = IF a = NoSn THEN home[m] ELSE a]
    /\ edges' = [edges EXCEPT ![s][m] = "no"]
    /\ calm' = calm \ Disturbed
    /\ UNCHANGED <<home, reach, broken, view, net, got, used>>

\* purge_expired_communities, where no edge is left.
Purge(s) ==
    /\ Purgeable /\ lock[s] = "none" /\ \A m \in Mac : edges[s][m] = "no"
    /\ lock' = [lock EXCEPT ![s] = "absent"]
    /\ assoc' = [assoc EXCEPT ![s] = [m \in Mac |-> NoSn]]
    /\ calm' = calm \ Disturbed
    /\ UNCHANGED <<home, reach, broken, edges, view, net, got, used>>

\* A connection ends.
Break(m) ==
    /\ reach[m] = "tcp" /\ m \notin broken /\ Use("breaks", MaxBreaks)
    /\ broken' = broken \cup {m}
    /\ calm' = calm \ Disturbed
    /\ UNCHANGED <<home, reach, edges, assoc, lock, view, net, got>>

----------------------------------------------------------------------------
\* Every edge has registered with a supernode; nobody has heard of it there.
Init ==
    /\ home \in [Mac -> Sn] /\ reach \in [Mac -> Transports]
    /\ broken = {}
    /\ edges = [s \in Sn |-> [m \in Mac |-> IF home[m] = s THEN reach[m] ELSE "no"]]
    /\ assoc = [s \in Sn |-> [m \in Mac |-> NoSn]]
    /\ lock \in [Sn -> Locks]
    /\ \A m \in Mac : lock[home[m]] = HeaderOf(m)
    /\ view \in {v \in [Sn -> [Sn -> Views \cup {"unknown"}]] :
                     \A s, t \in Sn : v[s][t] \in IF s = t THEN {"unknown"} ELSE Views}
    /\ net = {} /\ got = {} /\ calm = {}
    /\ used = [packets |-> 0, moves |-> 0, breaks |-> 0]

Next ==
    \/ \E m \in Mac, kind \in Kinds, dst \in Mac \cup {Everyone}, large \in Sizes :
           Send(m, kind, dst, large)
    \/ \E s \in Sn, p \in net : process_udp(s, p)
    \/ \E m \in Mac : Break(m)
    \/ \E m \in Mac, t \in Sn, how \in Transports : Move(m, t, how)
    \/ \E s \in Sn, m \in Mac : Learn(s, m)
    \/ \E s \in Sn : Purge(s)

Spec == Init /\ [][Next]_vars

----------------------------------------------------------------------------
Copies(m, id) == {p \in got : p.to = m /\ p.id = id}

\* With tables that are settled, try_forward and try_broadcast together bring
\* a packet to each edge it is meant for, once, and to no other, whichever
\* supernodes the edges have and whether or not associations are known.  What
\* is too large for a peer on plain datagrams is dropped, and a REGISTER to
\* everyone goes nowhere.
ExactlyOnce ==
    net = {} => \A c \in calm, m \in Mac :
                    Cardinality(Copies(m, c.p.id)) = IF m \in c.due THEN 1 ELSE 0

\* While edges move and the tables lag behind, from_supernode still keeps a
\* packet from going round: it passes two supernodes at most, and never comes
\* back to the edge that sent it.
NeverRound ==
    \A p \in net \cup got : /\ Len(p.via) <= 2 /\ IsInjective(p.via)
                            /\ p.to # p.src

\* process_udp locks a community to the kind of header it sees first, at each
\* supernode for itself: no edge is given a packet with a header of the other
\* kind, wherever the supernodes disagree.
SameHeader == \A p \in got : p.header = HeaderOf(p.to)

=============================================================================
