---------------------------- MODULE KcpBridge ----------------------------
(***************************************************************************)
(* The control KCP session between an edge and its supernode, both ends    *)
(* (kcp_bridge.c) together with what drives them: the registration of the  *)
(* edge (update_supernode_reg, edge_utils.c) and the answer of the         *)
(* supernode (process_udp and sendto_fd, sn_utils.c).  EdgeTransport takes *)
(* the session for a flag; here it has sequence numbers, and the two ends  *)
(* can disagree about them: the edge keeps its session when the supernode  *)
(* restarts, forgets an idle session or sees the edge at another address.  *)
(*                                                                         *)
(* Both channels of the bridge are one table each with the same code; the  *)
(* edge never opens the data channel, so the table of the control channel  *)
(* is the only one here.  The edge runs with -S1: no TCP fallback.         *)
(***************************************************************************)
EXTENDS Integers, FiniteSets

CONSTANTS
    Addr,           \* socket addresses the supernode can see the edge at
    Wnd,            \* N2N_KCP_RCVBUF_WND (96)
    DeadLink,       \* kcp->dead_link (15)
    Attempts,       \* N2N_EDGE_SUP_ATTEMPTS (3)
    CloseMax,       \* unanswered rounds before the socket is reopened (3)
    MaxBefore,      \* bound: messages of a session before a fault
    FixedPort,      \* local_port # 0
    MaxSn,          \* bound: messages of a session
    MaxFault,       \* bound: restarts, expiries and changes of address
    MaxStray        \* bound: datagrams that are lost, late or duplicated

BoundAssumption == MaxSn >= MaxBefore + Wnd + 1

VARIABLES
    e,              \* the edge
    sn,             \* udp_kcp_ctrl_connections: address -> session
    net,            \* datagrams under way
    late,           \* datagrams that may still arrive, at any time
    heard,          \* a registration from the edge's address was processed
    asked,          \* the edge registered and has not been answered since
    faults, strays  \* used up of the bounds

vars == <<e, sn, net, late, heard, asked, faults, strays>>

----------------------------------------------------------------------------
\* KCP itself, with a congestion window of one: it starts there, and both
\* ends set it back on every timeout (n2n_kcp_apply_default_timeout_congestion).
\* Segment nxt - 1 is unacknowledged if it was transmitted, xmit times; queue
\* messages wait for it.  rcv is the number expected next, buf holds what
\* arrived ahead of it.  A mirrored registration is answered twice.
Number == 0..(2 * MaxSn + 1)
Session == [conv : Nat, nxt : Number, xmit : 0..DeadLink, queue : Number,
            rcv : Number, buf : SUBSET Number, dead : BOOLEAN]

ikcp_create(conv) ==
    [conv |-> conv, nxt |-> 0, xmit |-> 0, queue |-> 0, rcv |-> 0, buf |-> {}, dead |-> FALSE]
None == ikcp_create(0)
Active(s) == s.conv # 0

Datagram(to, addr, conv, kind, n) ==
    [to |-> to, addr |-> addr, conv |-> conv, kind |-> kind, sn |-> n]
Raw(to, addr) == Datagram(to, addr, 0, "raw", 0)
Push(to, addr, s, n) == Datagram(to, addr, s.conv, "push", n)
Ack(to, addr, s, n) == Datagram(to, addr, s.conv, "ack", n)

\* The next message leaves the queue when the last one is acknowledged.
Started(s) ==
    IF s.xmit = 0 /\ s.queue > 0
    THEN [s EXCEPT !.nxt = @ + 1, !.xmit = 1, !.queue = @ - 1] ELSE s

ikcp_send(s, k) == Started([s EXCEPT !.queue = @ + k])

\* What is transmitted when s becomes r.
Out(to, addr, s, r) == IF r.nxt > s.nxt THEN {Push(to, addr, r, s.nxt)} ELSE {}

\* An acknowledgement, or a segment: refused and not acknowledged beyond the
\* window, acknowledged and ignored below it.
ikcp_input(s, p) ==
    LET inside == p.sn < s.rcv + Wnd
        buf == IF inside /\ p.sn >= s.rcv THEN s.buf \cup {p.sn} ELSE s.buf
        rcv == CHOOSE n \in s.rcv..(2 * MaxSn + 2) :
                   n \notin buf /\ \A m \in s.rcv..(n - 1) : m \in buf
    IN IF p.kind = "ack"
       THEN Started([s EXCEPT !.xmit = IF p.sn = s.nxt - 1 THEN 0 ELSE @])
       ELSE [s EXCEPT !.rcv = rcv, !.buf = {n \in buf : n >= rcv}]
Replied(to, addr, s, p) ==
    Out(to, addr, s, ikcp_input(s, p)) \cup
    IF p.kind = "push" /\ p.sn < s.rcv + Wnd THEN {Ack(to, addr, s, p.sn)} ELSE {}

\* Mutant: a link is never declared dead.
DiedNever(s) == FALSE

Died(s) == s.xmit >= DeadLink

\* Timeouts: an unacknowledged segment is sent again when nothing is under
\* way any more (the retransmission timeout is long compared to the network,
\* except for what is late).
ikcp_flush(s) ==
    LET r == [s EXCEPT !.xmit = IF @ \in 1..(DeadLink - 1) THEN @ + 1 ELSE @]
    IN [r EXCEPT !.dead = @ \/ Died(r)]
Resent(to, addr, s) == IF s.xmit > 0 THEN {Push(to, addr, s, s.nxt - 1)} ELSE {}

----------------------------------------------------------------------------
\* The edge: its session, sn_kcp_ctrl_confirmed with the count that leads to
\* it, whether the supernode was heard in the last seconds, sn_wait # 0,
\* sup_attempts and close_socket_counter.  known: the supernode has made a
\* session of this conv, for ConfirmedKnown.
IsEdge(x) ==
    /\ x.s \in Session /\ x.addr \in Addr /\ x.rx \in 0..2
    /\ {x.confirmed, x.recent, x.wait, x.known} \subseteq BOOLEAN
    /\ x.attempts \in 0..Attempts /\ x.counter \in 0..CloseMax

\* n2n_kcp_generate_conv draws 31 bits: a number nothing refers to any more.
n2n_kcp_generate_conv(x) ==
    LET used == {x.s.conv} \cup {sn[a].conv : a \in Addr} \cup {p.conv : p \in net \cup late}
    IN CHOOSE c \in 1..(Cardinality(used) + 1) : c \notin used

edge_reset_supernode_kcp_state(x) ==
    [x EXCEPT !.s = None, !.confirmed = FALSE, !.rx = 0, !.known = FALSE]

n2n_kcp_edge_setup(x) ==
    IF Active(x.s) /\ ~x.s.dead THEN x
    ELSE [edge_reset_supernode_kcp_state(x)
              EXCEPT !.s = ikcp_create(n2n_kcp_generate_conv(x))]

\* n2n_kcp_edge_send in sendto_fd: only over KCP once the session was
\* confirmed, before that over KCP and in a plain datagram.  The ikcp_update
\* that follows may find older segments timed out.
SendRegister(x) ==
    LET y == n2n_kcp_edge_setup(x)
        s == ikcp_send(y.s, 1)
        mirrored == ~(Active(x.s) /\ x.confirmed)
        first == Out("sn", y.addr, y.s, s) \cup IF mirrored THEN {Raw("sn", y.addr)} ELSE {}
    IN {[edge |-> [y EXCEPT !.s = s, !.wait = TRUE], out |-> first],
        [edge |-> [y EXCEPT !.s = ikcp_send(ikcp_flush(y.s), 1),
                            !.wait = TRUE],
         out |-> first \cup Resent("sn", y.addr, y.s)]}

reset_sup_attempts(x) == [x EXCEPT !.attempts = Attempts]

\* The socket is closed and opened again: with a port of its own choice
\* (local_port = 0) the edge turns up at another address.
Reopened(x) ==
    {[edge_reset_supernode_kcp_state(x) EXCEPT !.addr = a] :
         a \in IF FixedPort THEN {x.addr} ELSE Addr}

\* supernode_connect keeps socket and session of an unchanged supernode.
GiveUp(x) ==
    LET y == [reset_sup_attempts(x) EXCEPT !.counter = @ + 1]
    IN IF y.counter >= CloseMax THEN Reopened([y EXCEPT !.counter = 0]) ELSE {y}

\* Where an edge that moves leaves the datagrams sent to its old address, and
\* what the supernode knows of it.
Becomes(x, out) ==
    /\ e' = x
    /\ net' = {p \in net : p.to = "sn" \/ p.addr = x.addr} \cup out
    /\ heard' = (heard /\ x.addr = e.addr)

\* "deferring TCP fallback": the supernode is taken to be alive.
DeferFallback(x) == [reset_sup_attempts(x) EXCEPT !.wait = FALSE]

\* update_supernode_reg when a registration is due.  The retry interval (300
\* ms and more) is long compared to the network and to the first timeout of
\* KCP (30 ms and more), though not to the last.  Without an open question the edge asks
\* again only as often as MaxBefore admits.
update_supernode_reg ==
    /\ net = {} /\ e.s.xmit # 1 /\ sn[e.addr].xmit # 1
    /\ e.s.nxt + e.s.queue < MaxSn
    /\ asked \/ ~heard \/ e.s.nxt < MaxBefore
    /\ \/ /\ e.attempts > 0
          /\ \E r \in SendRegister([e EXCEPT !.attempts = @ - 1]) : Becomes(r.edge, r.out)
          /\ asked' = TRUE
       \/ /\ e.attempts = 0 /\ e.recent
          /\ e' = DeferFallback(e)
          /\ UNCHANGED <<net, heard, asked>>
       \/ /\ e.attempts = 0
          /\ \E x \in GiveUp([e EXCEPT !.recent = FALSE]) :
                 \E r \in SendRegister(x) : Becomes(r.edge, r.out)
          /\ asked' = TRUE
    /\ UNCHANGED <<sn, late, faults, strays>>

REGISTER_SUPER_ACK(x) ==
    IF x.wait THEN [reset_sup_attempts(x) EXCEPT !.wait = FALSE, !.counter = 0] ELSE x

n2n_kcp_edge_input(x, p) ==
    IF ~Active(x.s) \/ x.s.conv # p.conv THEN x
    ELSE LET rx == IF x.confirmed THEN x.rx ELSE x.rx + 1
             s == ikcp_input(x.s, p)
             y == [x EXCEPT !.s = s, !.rx = rx, !.confirmed = @ \/ rx >= 2, !.recent = TRUE]
         IN IF s.rcv > x.s.rcv THEN REGISTER_SUPER_ACK(y) ELSE y

\* A timeout that ikcp_update finds here is left to n2n_kcp_edge_update, which
\* follows in the same round of the loop.
EdgeTakes(p, rest) ==
    LET raw == p.kind = "raw"
        y == IF raw THEN REGISTER_SUPER_ACK([e EXCEPT !.recent = TRUE])
             ELSE n2n_kcp_edge_input(e, p)
        mine == Active(e.s) /\ e.s.conv = p.conv
        answered == e.wait /\ ~y.wait
    IN /\ e' = y
       /\ net' = rest \cup IF ~raw /\ mine THEN Replied("sn", e.addr, e.s, p) ELSE {}
       /\ asked' = (asked /\ ~answered)
       /\ UNCHANGED <<sn, heard>>

----------------------------------------------------------------------------
\* The supernode.

n2n_kcp_sn_find_or_create(a, conv) ==
    IF Active(sn[a]) /\ ~sn[a].dead /\ sn[a].conv = conv THEN sn[a] ELSE ikcp_create(conv)

\* n2n_kcp_sn_send for k answers: over the session of that address; without
\* one, or with a dead one, which is dropped, in plain datagrams.
Answer(a, s, k) ==
    IF Active(s) /\ ~s.dead
    THEN [s |-> ikcp_send(s, k), out |-> Out("edge", a, s, ikcp_send(s, k))]
    ELSE [s |-> None, out |-> IF k > 0 THEN {Raw("edge", a)} ELSE {}]

\* The datagram is KCP's (n2n_kcp_sn_process_input) or a plain message; each
\* message it completes is a registration, and is answered.
SnTakes(p, rest) ==
    LET raw == p.kind = "raw"
        old == IF raw THEN sn[p.addr] ELSE n2n_kcp_sn_find_or_create(p.addr, p.conv)
        new == IF raw THEN old ELSE ikcp_input(old, p)
        k == IF raw THEN 1 ELSE new.rcv - old.rcv
        r == Answer(p.addr, new, k)
        Arrives(q) == q.addr = e.addr
    IN /\ sn' = [sn EXCEPT ![p.addr] = r.s]
       /\ net' = rest \cup {q \in r.out \cup (IF raw THEN {} ELSE Replied("edge", p.addr, old, p)) :
                                Arrives(q)}
       /\ heard' = (heard \/ (k > 0 /\ p.addr = e.addr))
       /\ e' = [e EXCEPT !.known = @ \/ (~raw /\ Active(e.s) /\ new.conv = e.s.conv)]
       /\ UNCHANGED asked

Takes(p, rest) == IF p.to = "sn" THEN SnTakes(p, rest) ELSE EdgeTakes(p, rest)

----------------------------------------------------------------------------
\* The network.

Receive ==
    \E p \in net : Takes(p, net \ {p}) /\ UNCHANGED <<late, faults, strays>>

ReceiveLate ==
    \E p \in late :
        /\ net = {} /\ e.s.nxt <= MaxBefore
        /\ p.to = "edge" => p.addr = e.addr
        /\ Takes(p, net)
        /\ late' = late \ {p}
        /\ UNCHANGED <<faults, strays>>

\* A datagram is delayed for any time, which may be forever, or duplicated.
Stray ==
    /\ strays < MaxStray
    /\ strays' = strays + 1
    /\ \E p \in net \ late : late' = late \cup {p} /\ net' \in {net, net \ {p}}
    /\ UNCHANGED <<e, sn, heard, asked, faults>>

----------------------------------------------------------------------------
\* Time.

\* n2n_kcp_edge_update followed by edge_handle_dead_kcp_session.
n2n_kcp_edge_update ==
    LET s == ikcp_flush(e.s)
    IN /\ net = {}
       /\ Active(e.s) /\ (e.s.xmit > 0 \/ e.s.dead)
       /\ \E x \in IF s.dead
                   THEN Reopened([reset_sup_attempts(e) EXCEPT !.wait = TRUE])
                   ELSE {[e EXCEPT !.s = s]} :
              Becomes(x, IF s.dead THEN {} ELSE Resent("sn", e.addr, e.s))
       /\ UNCHANGED <<sn, late, asked, faults, strays>>

\* 120 seconds pass for the session of an address the edge has left.
SnUpdated(a) ==
    LET s == ikcp_flush(sn[a])
    IN IF s.dead THEN {None} ELSE IF a = e.addr THEN {s} ELSE {s, None}

n2n_kcp_sn_update(a) ==
    /\ net = {}
    /\ Active(sn[a]) /\ (sn[a].xmit > 0 \/ a # e.addr)
    /\ \E s \in SnUpdated(a) : sn' = [sn EXCEPT ![a] = s]
    /\ net' = net \cup IF a = e.addr /\ Active(sn'[a]) THEN Resent("edge", a, sn[a]) ELSE {}
    /\ UNCHANGED <<e, late, heard, asked, faults, strays>>

\* The supernode restarts, drops a session it has heard nothing of for 120
\* seconds, or a NAT gives the edge another address.
Fault ==
    /\ faults < MaxFault /\ e.s.nxt <= MaxBefore
    /\ faults' = faults + 1
    /\ \/ /\ sn' = [a \in Addr |-> None]
          /\ heard' = FALSE
          /\ UNCHANGED <<e, net>>
       \/ /\ net = {}
          /\ sn' = [sn EXCEPT ![e.addr] = None]
          /\ UNCHANGED <<e, net, heard>>
       \/ /\ \E a \in Addr \ {e.addr} : Becomes([e EXCEPT !.addr = a], {})
          /\ UNCHANGED sn
    /\ UNCHANGED <<late, asked, strays>>

Init ==
    /\ e = [s |-> None, addr |-> CHOOSE a \in Addr : TRUE, rx |-> 0, confirmed |-> FALSE,
            recent |-> FALSE, wait |-> TRUE, attempts |-> Attempts, counter |-> 0, known |-> FALSE]
    /\ sn = [a \in Addr |-> None]
    /\ net = {} /\ late = {}
    /\ heard = FALSE /\ asked = FALSE
    /\ faults = 0 /\ strays = 0

Next ==
    \/ update_supernode_reg
    \/ Receive
    \/ ReceiveLate
    \/ Stray
    \/ n2n_kcp_edge_update
    \/ \E a \in Addr : n2n_kcp_sn_update(a)
    \/ Fault

Spec == Init /\ [][Next]_vars

\* Both loops run n2n_kcp_*_update in every round, the edge registers at its
\* interval, and a datagram arrives unless it strays.
Fairness ==
    /\ WF_vars(update_supernode_reg)
    /\ WF_vars(Receive)
    /\ WF_vars(n2n_kcp_edge_update)
    /\ \A a \in Addr : WF_vars(n2n_kcp_sn_update(a))
FairSpec == Spec /\ Fairness

----------------------------------------------------------------------------
TypeOK ==
    /\ IsEdge(e)
    /\ \A a \in Addr : sn[a] \in Session
    /\ \A p \in net \cup late :
           /\ p.to \in {"sn", "edge"} /\ p.addr \in Addr /\ p.conv \in Nat
           /\ p.kind \in {"push", "ack", "raw"} /\ p.sn \in Number
    /\ {heard, asked} \subseteq BOOLEAN
    /\ faults \in 0..MaxFault /\ strays \in 0..MaxStray

\* The edge stops mirroring its control messages in plain datagrams
\* (sn_kcp_ctrl_confirmed, sendto_fd) only for a session the supernode has
\* had: two datagrams of that very conversation came back, none of an older
\* one and none left over from before the session was set up again.
ConfirmedKnown == e.confirmed => e.known

\* n2n_kcp_sn_update forgets the session of an address the edge has left.
LeftBehind(a) == Active(sn[a]) /\ a # e.addr
==========================================================================
