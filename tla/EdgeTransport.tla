--------------------------- MODULE EdgeTransport ---------------------------
(***************************************************************************)
(* The edge's leg to its supernode: which transport is active (UDP with a  *)
(* control KCP session on top, or TCP), which sockets are open, and how    *)
(* registration timeouts, dead KCP sessions, failed sends and broken TCP   *)
(* streams move the edge between them (edge_utils.c, kcp_bridge.c).        *)
(*                                                                         *)
(* The fields of n2n_edge_t that take part form one record, e.  A C        *)
(* function that cannot fail is an operator from records to records; one   *)
(* that opens, connects or sends returns the set of records it can end in. *)
(* Clock values are abstracted: "due", "recent" and "expired" are free.    *)
(* The edge's data KCP session is absent: edge_transport_policy_from_flags *)
(* always answers FORCE_RAW_UDP, so no code path ever creates it.          *)
(***************************************************************************)
EXTENDS Naturals, FiniteSets

CONSTANTS
    Supernode,                      \* socket addresses of supernodes
    NoSn,                           \* no address: a closed TCP socket, no KCP session
    Confs,                          \* the -S modes considered
    Envs,                           \* what the network and the OS may answer
    SharedSecret,                   \* conf.shared_secret: user/password mode
    N2N_EDGE_SUP_ATTEMPTS,
    N2N_TCP_REGISTER_SOFT_RETRIES,
    N2N_CLOSE_SOCKET_COUNTER_MAX,   \* limit when TCP fallback is allowed
    CloseMaxNoFallback              \* limit when it is not (3 in the code)

\* edge.c, case 'S', and edge_init_conf_defaults: the three combinations.  The
\* default is that of S3, and the only one in which allow_p2p is set.
SMode == [S1 |-> [connect_tcp |-> FALSE, prefer_kcp |-> TRUE,  allow_tcp_fallback |-> FALSE],
          S2 |-> [connect_tcp |-> TRUE,  prefer_kcp |-> FALSE, allow_tcp_fallback |-> FALSE],
          S3 |-> [connect_tcp |-> FALSE, prefer_kcp |-> TRUE,  allow_tcp_fallback |-> TRUE]]

\* What the surroundings may do: the outcomes of opening a UDP socket, of
\* starting a TCP connection and of sending on one, and the transports over
\* which the supernode answers.
Env == [udpOpen : SUBSET BOOLEAN, tcpOpen : SUBSET BOOLEAN,
        tcpSend : SUBSET BOOLEAN, answers : SUBSET {"UDP", "TCP"}]

ASSUME SupernodeAssumption == Supernode # {} /\ NoSn \notin Supernode
ASSUME ConfAssumption == Confs \subseteq {SMode.S1, SMode.S2, SMode.S3}
ASSUME EnvAssumption == Envs \subseteq Env /\ SharedSecret \in BOOLEAN
ASSUME CountAssumption ==
    /\ N2N_EDGE_SUP_ATTEMPTS \in Nat /\ N2N_EDGE_SUP_ATTEMPTS >= 1
    /\ N2N_TCP_REGISTER_SOFT_RETRIES \in Nat
    /\ N2N_CLOSE_SOCKET_COUNTER_MAX \in Nat /\ N2N_CLOSE_SOCKET_COUNTER_MAX >= 1
    /\ CloseMaxNoFallback \in Nat /\ CloseMaxNoFallback >= 1

VARIABLES conf,     \* eee->conf: connect_tcp, prefer_kcp, allow_tcp_fallback
          env,      \* the surroundings of this run
          e         \* the transport fields of n2n_edge_t
vars == <<conf, env, e>>

----------------------------------------------------------------------------
\* The control KCP session: sn_kcp_ctrl and sn_kcp_ctrl_confirmed.
NoKcp == [state |-> "none", remote |-> NoSn, rx |-> 0, confirmed |-> FALSE, recent |-> FALSE]
Kcp == {k \in [state : {"none", "live", "dead"}, remote : Supernode \cup {NoSn},
               rx : 0..2, confirmed : BOOLEAN, recent : BOOLEAN] : k.confirmed <=> k.rx = 2}

\* sock names the descriptor eee->sock holds: that of udp_sock, that of
\* tcp_sock, none (-1), or "closed": a number that was closed since.
\* tcp_sock names the supernode address the stream leads to (tcp_sn_sock).
\* rx is the state of expected/position in run_edge_loop: at the start of a
\* frame, inside one, or "skewed", left over from another stream.
\* asked records where a REGISTER_SUPER went that can still be answered.
Edge == [transport : {"UDP", "TCP"}, udp_sock : BOOLEAN,
         tcp_sock : Supernode \cup {NoSn}, sock : {"udp", "tcp", "none", "closed"},
         curr_sn : Supernode, kcp : Kcp,
         tcp_fallback_active : BOOLEAN, tcp_sticky_after_fallback : BOOLEAN,
         soft_retry_budget : 0..N2N_TCP_REGISTER_SOFT_RETRIES,
         sn_wait : 0..2, sup_attempts : 0..N2N_EDGE_SUP_ATTEMPTS,
         register_fast_retry_count : 0..3, close_socket_counter : Nat,
         udp_recent : BOOLEAN, rx : {"start", "mid", "skewed"},
         asked : SUBSET {"UDP", "TCP"}, running : BOOLEAN]

UsesTcp(x) == x.transport = "TCP"

reset_sup_attempts(x) ==
    [x EXCEPT !.sup_attempts = IF UsesTcp(x) THEN 1 ELSE N2N_EDGE_SUP_ATTEMPTS]

edge_reset_supernode_kcp_state(x) == [x EXCEPT !.kcp = NoKcp]

edge_sync_active_socket(x) ==
    [x EXCEPT !.sock = IF UsesTcp(x)
                       THEN IF x.tcp_sock # NoSn THEN "tcp" ELSE "none"
                       ELSE IF x.udp_sock THEN "udp" ELSE "none"]

\* Mutant: eee->sock is left as it was.
SetTransportNoSync(x, t) == [x EXCEPT !.transport = t]

edge_set_active_transport(x, t) ==
    edge_sync_active_socket([x EXCEPT !.transport = t])

supernode_disconnect_udp(x) ==
    edge_reset_supernode_kcp_state(
        [x EXCEPT !.udp_sock = FALSE,
                  !.sock = IF @ = "udp" THEN "closed" ELSE @,
                  !.asked = @ \ {"UDP"}])

supernode_disconnect_tcp(x) ==
    [x EXCEPT !.tcp_sock = NoSn,
              !.sock = IF @ = "tcp" THEN "closed" ELSE @,
              !.asked = @ \ {"TCP"}]

supernode_disconnect(x) ==
    [supernode_disconnect_udp(supernode_disconnect_tcp(x)) EXCEPT !.sock = "none"]

\* Mutant: the sticky flag is forgotten.
ReleaseKeepsSticky(x) ==
    IF conf.connect_tcp \/ ~x.tcp_sticky_after_fallback THEN x
    ELSE reset_sup_attempts(edge_set_active_transport(
             edge_reset_supernode_kcp_state(
                 [x EXCEPT !.tcp_fallback_active = FALSE,
                           !.register_fast_retry_count = 0,
                           !.soft_retry_budget = 0]), "UDP"))

edge_release_tcp_sticky_after_disconnect(x) ==
    IF conf.connect_tcp \/ ~x.tcp_sticky_after_fallback THEN x
    ELSE reset_sup_attempts(edge_set_active_transport(
             edge_reset_supernode_kcp_state(
                 [x EXCEPT !.tcp_sticky_after_fallback = FALSE,
                           !.tcp_fallback_active = FALSE,
                           !.register_fast_retry_count = 0,
                           !.soft_retry_budget = 0]), "UDP"))

edge_mark_udp_recovered(x) ==
    IF conf.connect_tcp \/ ~x.tcp_fallback_active \/ x.tcp_sticky_after_fallback THEN x
    ELSE reset_sup_attempts(edge_set_active_transport(
             [x EXCEPT !.tcp_fallback_active = FALSE,
                       !.register_fast_retry_count = 0,
                       !.soft_retry_budget = 0], "UDP"))

----------------------------------------------------------------------------
\* Opening sockets.  Success shows in udp_sock, or in tcp_sock # NoSn.

supernode_connect_udp_socket(x) ==
    IF x.udp_sock THEN {x} ELSE {[x EXCEPT !.udp_sock = ok] : ok \in env.udpOpen}

\* A new stream starts with whatever expected/position the last one left.
supernode_connect_tcp_socket(x) ==
    IF x.tcp_sock = x.curr_sn THEN {x}
    ELSE LET d == supernode_disconnect_tcp(x)
         IN {IF ok THEN [d EXCEPT !.tcp_sock = d.curr_sn,
                                  !.rx = IF @ = "start" THEN "start" ELSE "skewed"]
                   ELSE d : ok \in env.tcpOpen}

supernode_connect(x) ==
    LET k == IF x.kcp.state # "none" /\ x.kcp.remote # x.curr_sn
             THEN edge_reset_supernode_kcp_state(x) ELSE x
        c == IF k.tcp_sock \notin {NoSn, k.curr_sn} THEN supernode_disconnect_tcp(k) ELSE k
        Tcp(u) == {IF t.tcp_sock = NoSn THEN t ELSE edge_set_active_transport(t, "TCP") :
                       t \in supernode_connect_tcp_socket(u)}
    IN IF conf.connect_tcp THEN Tcp(c)
       ELSE UNION {IF ~u.udp_sock THEN {u}
                   ELSE IF u.tcp_fallback_active THEN Tcp(u)
                   ELSE {edge_set_active_transport(u, "UDP")} :
                       u \in supernode_connect_udp_socket(c)}

\* Mutant: the test of allow_tcp_fallback is inverted.
SwitchUnlessAllowed(x) ==
    IF conf.connect_tcp \/ UsesTcp(x) \/ conf.allow_tcp_fallback THEN {x}
    ELSE {edge_set_active_transport(t, "TCP") : t \in supernode_connect_tcp_socket(x)}

\* Returns 1 exactly when the transport changes from UDP to TCP.
edge_switch_to_tcp_supernode(x) ==
    IF conf.connect_tcp \/ UsesTcp(x) \/ ~conf.allow_tcp_fallback THEN {x}
    ELSE {IF t.tcp_sock = NoSn
          THEN [t EXCEPT !.tcp_fallback_active = FALSE,
                         !.tcp_sticky_after_fallback = FALSE,
                         !.soft_retry_budget = 0]
          ELSE [reset_sup_attempts(edge_set_active_transport(t, "TCP")) EXCEPT !.sn_wait = 0] :
              t \in supernode_connect_tcp_socket(
                        [x EXCEPT !.tcp_fallback_active = TRUE,
                                  !.tcp_sticky_after_fallback = TRUE,
                                  !.register_fast_retry_count = 0,
                                  !.soft_retry_budget = N2N_TCP_REGISTER_SOFT_RETRIES])}

\* A failed reopen returns before eee->sock is synchronised.
edge_recycle_udp_supernode_socket(x) ==
    IF conf.connect_tcp THEN {x}
    ELSE {IF u.udp_sock THEN edge_sync_active_socket(u) ELSE u :
              u \in supernode_connect_udp_socket(supernode_disconnect_udp(x))}

----------------------------------------------------------------------------
\* Sending to the supernode (sendto_sock, sendto_fd, n2n_kcp_edge_send).

\* A control message over the KCP session, created or recreated if need be.
n2n_kcp_edge_send(x) ==
    IF ~x.udp_sock \/ (x.kcp.state = "live" /\ x.kcp.remote = x.curr_sn) THEN x
    ELSE [x EXCEPT !.kcp = [state |-> "live", remote |-> x.curr_sn, rx |-> 0,
                            confirmed |-> FALSE, recent |-> TRUE]]

\* Mutant: the fallback is released without closing its stream.
SendFailedNoDisconnect(x, register) ==
    {edge_sync_active_socket(
         [edge_release_tcp_sticky_after_disconnect(x) EXCEPT !.sn_wait = 1])}

\* err_out in sendto_fd: a REGISTER_SUPER of a fallback that is still being
\* established may retry on a new stream; anything else gives TCP up.
TcpSendFailed(x, register) ==
    IF register /\ x.tcp_fallback_active /\ x.soft_retry_budget > 0
    THEN {edge_sync_active_socket([t EXCEPT !.sn_wait = 2]) :
              t \in supernode_connect_tcp_socket(
                        supernode_disconnect_tcp([x EXCEPT !.soft_retry_budget = @ - 1]))}
    ELSE {edge_sync_active_socket(
              [edge_release_tcp_sticky_after_disconnect(supernode_disconnect_tcp(x))
                   EXCEPT !.sn_wait = 1])}

\* Length prefix and payload may each fail, with the same consequence.  A
\* closed descriptor always fails.
TcpSend(x, register) ==
    (IF x.sock = "tcp" /\ TRUE \in env.tcpSend THEN {x} ELSE {})
        \cup (IF x.sock = "closed" \/ FALSE \in env.tcpSend THEN TcpSendFailed(x, register) ELSE {})

sendto_sock(x, control, register) ==
    CASE x.sock = "none" -> {x}
      [] x.sock # "none" /\ UsesTcp(x) ->
            IF x.tcp_fallback_active /\ x.sn_wait # 0 /\ ~control THEN {x}
            ELSE TcpSend(x, register)
      [] x.sock # "none" /\ ~UsesTcp(x) ->
            {IF control /\ ((x.kcp.state # "none" /\ x.kcp.confirmed)
                               \/ (conf.prefer_kcp /\ ~x.kcp.confirmed))
             THEN n2n_kcp_edge_send(x) ELSE x}

\* A TCP send that succeeds changes nothing, one that fails always does.
send_register_super(x) ==
    LET Asked(y) == IF y.sock \in {"none", "closed"} \/ (UsesTcp(x) /\ y # x)
                    THEN y ELSE [y EXCEPT !.asked = @ \cup {x.transport}]
    IN {Asked(y) : y \in sendto_sock(x, TRUE, TRUE)}

\* UNREGISTER_SUPER, QUERY_PEER, PING and a REGISTER that the supernode
\* forwards: control, but no registration.
send_control(x) == sendto_sock(x, TRUE, FALSE)
send_peer(x) == sendto_sock(x, FALSE, FALSE)

\* REGISTERs to peers, if there are any to send; none without allow_p2p.
send_register(x) == IF conf.allow_tcp_fallback THEN {x} \cup send_peer(x) ELSE {x}

\* Any number of messages of both kinds.  Two are enough: one that breaks the
\* TCP stream, and one that opens a KCP session.
Sends(x) ==
    LET Once(y) == {y} \cup send_peer(y) \cup send_control(y)
    IN UNION {Once(y) : y \in Once(x)}

\* A PACKET, preceded by QUERY_PEER and REGISTER if its destination is not a
\* known peer.
send_packet(x) ==
    IF UsesTcp(x) /\ x.tcp_fallback_active /\ x.sn_wait # 0 THEN {x} ELSE Sends(x)

----------------------------------------------------------------------------
\* update_supernode_reg, from the point where a registration is due.

edge_recent_activity(x) ==
    x.udp_recent \/ (x.kcp.state # "none" /\ x.kcp.confirmed /\ x.kcp.recent)

DeferFallback(x) ==
    reset_sup_attempts([x EXCEPT !.sn_wait = 0, !.register_fast_retry_count = 0,
                                 !.soft_retry_budget = 0])

close_socket_counter_max ==
    IF conf.allow_tcp_fallback THEN N2N_CLOSE_SOCKET_COUNTER_MAX ELSE CloseMaxNoFallback

\* The next supernode is the head of the list sn_selection_sort leaves; the
\* counter is kept only without external peers and on unprivileged ports.
GiveUp(x) ==
    LET Next_sn(s) == reset_sup_attempts([x EXCEPT !.curr_sn = s])
        Count(y) == IF y.close_socket_counter + 1 >= close_socket_counter_max
                    THEN supernode_disconnect([y EXCEPT !.close_socket_counter = 0])
                    ELSE [y EXCEPT !.close_socket_counter = @ + 1]
    IN UNION {supernode_connect(Next_sn(s)) \cup supernode_connect(Count(Next_sn(s))) :
                  s \in Supernode}

\* The tail: reconnect TCP if it is down, register, refresh the peers.
Register(x, waiting) ==
    LET FastRetry(n) == IF n < 3 THEN n + 1 ELSE n
        down == UsesTcp(x) /\ x.tcp_sock = NoSn
        NotReady(y) == [y EXCEPT !.sn_wait = 1,
                                 !.register_fast_retry_count = IF waiting THEN FastRetry(@) ELSE @]
        Done(y) == [y EXCEPT !.sn_wait = 1,
                             !.register_fast_retry_count = IF waiting THEN FastRetry(@) ELSE 0]
        Send(y) == {Done(p) : p \in UNION {send_register(r) : r \in send_register_super(y)}}
    IN IF ~down THEN Send(x)
       ELSE UNION {IF t.tcp_sock = NoSn THEN {NotReady(t)}
                   ELSE Send(edge_set_active_transport(t, "TCP")) :
                       t \in supernode_connect_tcp_socket(x)}

\* On TCP fallback the attempt counter is pinned; the UDP probe before that
\* is only sent when the fallback is not sticky.
FallbackAttempts(x) ==
    LET Probe(y) == {edge_set_active_transport(p, "TCP") :
                         p \in send_register_super(edge_set_active_transport(y, "UDP"))}
    IN IF ~(x.tcp_fallback_active /\ UsesTcp(x)) THEN {x}
       ELSE {[y EXCEPT !.sup_attempts = 1] :
                 y \in IF x.tcp_sticky_after_fallback THEN {x} ELSE {x} \cup Probe(x)}

update_supernode_reg(x) ==
    LET waiting == x.sn_wait # 0
        Attempt(y) ==
            IF y.sup_attempts > 0 THEN Register([y EXCEPT !.sup_attempts = @ - 1], waiting)
            ELSE IF ~conf.connect_tcp /\ ~UsesTcp(y) /\ edge_recent_activity(y)
            THEN {DeferFallback(y)}
            ELSE UNION {IF UsesTcp(s) /\ ~UsesTcp(y) THEN Register(s, waiting)
                        ELSE UNION {Register(g, waiting) : g \in GiveUp(s)} :
                            s \in edge_switch_to_tcp_supernode(y)}
    IN UNION {Attempt(y) : y \in FallbackAttempts(x)}

----------------------------------------------------------------------------
\* Other handlers of the main loop.

\* edge_handle_dead_kcp_session, called right after n2n_kcp_edge_update found
\* the session dead.
edge_handle_dead_kcp_session(x) ==
    IF conf.connect_tcp \/ UsesTcp(x) \/ x.kcp.state # "dead" THEN {x}
    ELSE UNION {IF UsesTcp(s) THEN {[s EXCEPT !.sn_wait = 2]}
                ELSE {[reset_sup_attempts(u) EXCEPT !.sn_wait = 2] :
                          u \in edge_recycle_udp_supernode_socket(s)} :
                    s \in edge_switch_to_tcp_supernode(edge_reset_supernode_kcp_state(x))}

\* sort_supernodes once SWEEP_TIME has passed; head is the best supernode.
sort_supernodes(x, head) ==
    LET Move(u) == reset_sup_attempts([u EXCEPT !.curr_sn = head])
        moved == UNION {UNION {{[r EXCEPT !.sn_wait = 1] : r \in send_register_super(c)} :
                                   c \in supernode_connect(Move(u))} :
                            u \in send_control(x)}
    IN UNION {IF conf.connect_tcp THEN {y} ELSE send_control(y) :
                  y \in IF head = x.curr_sn THEN {x} ELSE moved}

REGISTER_SUPER_ACK(x, via) ==
    IF x.sn_wait = 0 THEN x
    ELSE LET c == [x EXCEPT !.close_socket_counter = 0]
             r == IF via = "TCP" THEN c ELSE edge_mark_udp_recovered(c)
         IN reset_sup_attempts([r EXCEPT !.sn_wait = 0, !.register_fast_retry_count = 0,
                                         !.soft_retry_budget = 0,
                                         !.udp_recent = @ \/ via = "UDP"])

PEER_INFO(x, via) == [x EXCEPT !.udp_recent = @ \/ via = "UDP"]

RE_REGISTER_SUPER(x) == IF SharedSecret THEN [x EXCEPT !.sn_wait = 2] ELSE x

\* Gratuitous ARPs follow the first ACK; a PACKET, a PEER_INFO or a REGISTER
\* of a peer makes the edge register with it.
Replies(x, msg) ==
    CASE msg = "ack" -> {x} \cup send_peer(x)
      [] msg \in {"info", "other"} -> IF conf.allow_tcp_fallback THEN Sends(x) ELSE {x}
      [] msg = "reregister" -> {x}

\* process_udp.  "info" is a PEER_INFO or PACKET that is accepted, "other"
\* whatever leaves the transport as it is.
Msg == {"ack", "info", "reregister", "other"}
process_udp(x, msg, via) ==
    LET y == CASE msg = "ack" -> REGISTER_SUPER_ACK(x, via)
               [] msg = "info" -> PEER_INFO(x, via)
               [] msg = "reregister" -> RE_REGISTER_SUPER(x)
               [] msg = "other" -> x
    IN Replies(y, msg)

\* n2n_kcp_edge_input on a datagram of the session: two of them confirm it.
n2n_kcp_edge_input(x) ==
    LET n == IF x.kcp.confirmed THEN x.kcp.rx ELSE x.kcp.rx + 1
    IN [x EXCEPT !.kcp.rx = n, !.kcp.confirmed = @ \/ n >= 2, !.kcp.recent = TRUE]

\* Mutant: no registration is scheduled.
TcpClosedNoRetry(x) ==
    edge_sync_active_socket(edge_release_tcp_sticky_after_disconnect(supernode_disconnect_tcp(x)))

\* fetch_and_eventually_process_data: the TCP stream failed or was closed.
TcpClosed(x) ==
    edge_sync_active_socket(
        [edge_release_tcp_sticky_after_disconnect(supernode_disconnect_tcp(x))
             EXCEPT !.sn_wait = 1])

\* It announced a frame larger than the buffer.  run_edge_loop resets
\* expected/position afterwards, but only with conf.connect_tcp.
TcpOversize(x) ==
    [edge_release_tcp_sticky_after_disconnect(supernode_disconnect(x))
         EXCEPT !.sn_wait = 1, !.rx = IF conf.connect_tcp THEN "start" ELSE "mid"]

----------------------------------------------------------------------------
\* What the bootstrap in main() leaves: connected or not, on TCP already if
\* the REGISTER_SUPER for an IP address timed out, with counters reset.
Bootstrap(s) ==
    LET start == [transport |-> IF conf.connect_tcp THEN "TCP" ELSE "UDP",
                  udp_sock |-> FALSE, tcp_sock |-> NoSn, sock |-> "none",
                  curr_sn |-> s, kcp |-> NoKcp,
                  tcp_fallback_active |-> FALSE, tcp_sticky_after_fallback |-> FALSE,
                  soft_retry_budget |-> 0, sn_wait |-> 1,
                  sup_attempts |-> N2N_EDGE_SUP_ATTEMPTS,
                  register_fast_retry_count |-> 0, close_socket_counter |-> 0,
                  udp_recent |-> FALSE, rx |-> "start", asked |-> {}, running |-> TRUE]
        connected == supernode_connect(start)
        fallback == UNION {edge_switch_to_tcp_supernode(c) : c \in connected}
    IN {[x EXCEPT !.sn_wait = 1, !.register_fast_retry_count = 0,
                  !.soft_retry_budget = 0] : x \in connected \cup fallback}

\* run_edge_loop registers before its first select.
Init ==
    /\ conf \in Confs
    /\ env \in Envs
    /\ \E s \in Supernode : \E x \in Bootstrap(s) : e \in update_supernode_reg(x)

\* A closed descriptor in the mask makes select fail, so nothing is read.
Readable(fd) == e.running /\ e.sock = fd

UpdateSupernodeReg ==
    /\ e.running
    /\ e' \in update_supernode_reg(e)
    /\ UNCHANGED <<conf, env>>

SortSupernodes ==
    /\ e.running
    /\ \E head \in Supernode : e' \in sort_supernodes(e, head)
    /\ UNCHANGED <<conf, env>>

\* n2n_kcp_edge_update reaches the dead_link threshold.  Its 15
\* retransmissions outlast every retry interval, so a registration has been
\* sent since the socket was opened.
KcpDead ==
    /\ e.running
    /\ e.kcp.state = "live"
    /\ "UDP" \in e.asked
    /\ e' \in edge_handle_dead_kcp_session([e EXCEPT !.kcp.state = "dead"])
    /\ UNCHANGED <<conf, env>>

SendPacket ==
    /\ e.running
    /\ e' \in send_packet(e)
    /\ UNCHANGED <<conf, env>>

RxUdp(msg) ==
    /\ Readable("udp")
    /\ "UDP" \in env.answers
    /\ msg = "ack" => "UDP" \in e.asked
    /\ e' \in process_udp(e, msg, "UDP")
    /\ UNCHANGED <<conf, env>>

\* The datagram may complete a message or not ("other" stands for none too).
RxKcp(msg) ==
    /\ Readable("udp")
    /\ "UDP" \in env.answers
    /\ msg = "ack" => "UDP" \in e.asked
    /\ e.kcp.state # "none" /\ e.kcp.remote = e.curr_sn
    /\ LET k == edge_mark_udp_recovered(n2n_kcp_edge_input(e))
       IN e' \in process_udp(k, msg, "KCP")
    /\ UNCHANGED <<conf, env>>

RxTcpFrame(msg) ==
    /\ Readable("tcp")
    /\ "TCP" \in env.answers
    /\ e.rx # "skewed"
    /\ msg = "ack" => "TCP" \in e.asked
    /\ \E y \in process_udp(e, msg, "TCP") : e' = [y EXCEPT !.rx = "start"]
    /\ UNCHANGED <<conf, env>>

RxTcpPart ==
    /\ Readable("tcp")
    /\ "TCP" \in env.answers
    /\ e.rx = "start"
    /\ e' = [e EXCEPT !.rx = "mid"]
    /\ UNCHANGED <<conf, env>>

\* Reading on with a frame position of another stream: bytes are taken for a
\* packet that does not decode, until the position happens to fit again.
RxTcpSkewed ==
    /\ Readable("tcp")
    /\ "TCP" \in env.answers
    /\ e.rx = "skewed"
    /\ e' = [e EXCEPT !.rx = "start"]
    /\ UNCHANGED <<conf, env>>

RxTcpOversize ==
    /\ Readable("tcp")
    /\ "TCP" \in env.answers
    /\ e.rx = "skewed"
    /\ e' = TcpOversize(e)
    /\ UNCHANGED <<conf, env>>

RxTcpClosed ==
    /\ Readable("tcp")
    /\ FALSE \in env.tcpSend
    /\ e' = TcpClosed(e)
    /\ UNCHANGED <<conf, env>>

\* resolve_check gives the current supernode a new address.
Resolved ==
    /\ e.running
    /\ \E s \in Supernode \ {e.curr_sn} : e' = [e EXCEPT !.curr_sn = s]
    /\ UNCHANGED <<conf, env>>

\* Two seconds without traffic (N2N_SUPERNODE_UDP_ACTIVITY_GRACE_SECS).
UdpQuiet ==
    /\ e.udp_recent
    /\ e' = [e EXCEPT !.udp_recent = FALSE]
    /\ UNCHANGED <<conf, env>>
KcpQuiet ==
    /\ e.kcp.recent
    /\ e' = [e EXCEPT !.kcp.recent = FALSE]
    /\ UNCHANGED <<conf, env>>

\* The loop ends: management stop, or recvfrom failed on the UDP socket.
Stop ==
    /\ e.running
    /\ \E u \in send_control(e) : e' = [supernode_disconnect(u) EXCEPT !.running = FALSE]
    /\ UNCHANGED <<conf, env>>

Next ==
    \/ UpdateSupernodeReg
    \/ SortSupernodes
    \/ KcpDead
    \/ SendPacket
    \/ \E msg \in Msg : RxUdp(msg) \/ RxKcp(msg) \/ RxTcpFrame(msg)
    \/ RxTcpPart
    \/ RxTcpSkewed
    \/ RxTcpOversize
    \/ RxTcpClosed
    \/ Resolved
    \/ UdpQuiet
    \/ KcpQuiet
    \/ Stop

Spec == Init /\ [][Next]_vars

\* The loop calls update_supernode_reg in every round and time passes; a
\* registration that is answered again and again is eventually answered in
\* time, bytes on a TCP stream are read, and a UDP port that is requested
\* again and again can be had.
RxAck == e.sn_wait # 0 /\ (RxUdp("ack") \/ RxKcp("ack") \/ RxTcpFrame("ack"))
ReopenUdp == ~e.udp_sock /\ UpdateSupernodeReg /\ e'.udp_sock
Fairness ==
    /\ WF_vars(UpdateSupernodeReg) /\ WF_vars(UdpQuiet)
    /\ SF_vars(RxAck) /\ SF_vars(ReopenUdp)
    /\ SF_vars(RxTcpSkewed \/ RxTcpOversize)
FairSpec == Spec /\ Fairness

----------------------------------------------------------------------------
\* Types of all variables.
TypeOK == conf \in Confs /\ env \in Envs /\ e \in Edge

\* TCP is used exactly when -S2 forces it or a fallback is in force, and a
\* fallback exists only where it is allowed and is always a sticky one: no
\* failed connect, dead session or give-up leaves the flags half set.
PolicyOK(x) ==
    /\ UsesTcp(x) <=> (conf.connect_tcp \/ x.tcp_fallback_active)
    /\ x.tcp_fallback_active => conf.allow_tcp_fallback
    /\ x.tcp_sticky_after_fallback = x.tcp_fallback_active
FallbackFollowsPolicy == PolicyOK(e)

\* eee->sock is the open socket of the active transport whenever there is
\* one: it never lags behind on the socket of the transport just left, and a
\* closed descriptor stays in it only while no replacement is open.
SocketOK(x) ==
    /\ x.sock = "udp" <=> x.running /\ ~UsesTcp(x) /\ x.udp_sock
    /\ x.sock = "tcp" <=> x.running /\ UsesTcp(x) /\ x.tcp_sock # NoSn

\* A TCP stream is open only while it is the transport in use: whatever ends
\* a fallback has closed its stream.
StreamOK(x) == x.tcp_sock # NoSn => UsesTcp(x)

\* A control KCP session lives on an open UDP socket, and -S2 has none.
KcpOK(x) == x.kcp.state # "none" => x.udp_sock /\ ~conf.connect_tcp

\* The descriptors, the transport in use and the KCP session of an edge agree
\* with each other, whatever was closed and reopened.
SocketsMatch == SocketOK(e) /\ KcpOK(e)

\* While the TCP stream the edge relies on is down, a registration round is
\* in progress, so update_supernode_reg reopens it within a retry interval.
Retried(x) == x.running /\ UsesTcp(x) /\ x.tcp_sock = NoSn => x.sn_wait # 0

\* Soft retries belong to a fallback that waits for its first answer: none
\* are left over for a later fallback or for an edge that is registered.
SoftOK(x) == x.soft_retry_budget > 0 => x.tcp_fallback_active /\ x.sn_wait # 0

\* Both: whoever waits for a supernode is in a registration round, and only
\* such an edge has retries left.
RetriesMatch == Retried(e) /\ SoftOK(e)

\* "whether TCP fallback should remain active until TCP disconnects": a
\* running edge leaves a fallback only in a step that closes the stream.
StickyStep == e.tcp_fallback_active /\ ~e'.tcp_fallback_active => e'.tcp_sock = NoSn
StickyUntilTcpLost == [][StickyStep]_vars

\* Some transport of the mode works: UDP can be opened and answers, or TCP
\* connects, stays up and answers.
Reachable ==
    \/ ~conf.connect_tcp /\ env.udpOpen = {TRUE} /\ "UDP" \in env.answers
    \/ /\ conf.connect_tcp \/ conf.allow_tcp_fallback
       /\ env.tcpOpen = {TRUE} /\ env.tcpSend = {TRUE} /\ "TCP" \in env.answers

\* Whatever the mode, an edge whose supernode can be reached over some
\* transport of that mode registers with it again and again: UDP that fails
\* leads to TCP, a fallback whose sends fail leads back to UDP.
Registers == Reachable => []<><<RxAck>>_vars \/ <>(~e.running)

\* An edge on UDP whose socket is closed (a failed recycle, an oversized TCP
\* frame) does not stay deaf: it reopens the socket or moves to TCP.
DeafOnUdp == e.running /\ ~UsesTcp(e) /\ ~e.udp_sock

\* supernode_transport_modes.md on -S3: "TCP 断开后，会重新尝试回到 UDP/KCP"
\* (after TCP breaks, UDP/KCP is tried again).  So the edge does not go from
\* one fallback to the next without a UDP socket it could have tried.
UdpTriedBetweenFallbacks ==
    [][~e.tcp_fallback_active /\ e'.tcp_fallback_active => e.udp_sock]_vars

=============================================================================
