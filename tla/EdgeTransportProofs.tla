------------------------ MODULE EdgeTransportProofs ------------------------
(***************************************************************************)
(* The safety invariants of EdgeTransport, for every set of supernodes,    *)
(* every mode, every environment and every value of the counters.          *)
(***************************************************************************)
EXTENDS EdgeTransport, TLAPS

\* The surroundings of a handler: conf and env are those of the run.
Context == conf \in Confs /\ env \in Envs

\* What every helper keeps once eee->sock is synchronised.
Good(x) ==
    /\ x \in Edge /\ x.running
    /\ PolicyOK(x) /\ SocketOK(x) /\ StreamOK(x) /\ KcpOK(x)
    /\ x.soft_retry_budget > 0 => x.tcp_fallback_active

\* What holds besides when a handler returns.
Settled(x) == Retried(x) /\ (x.soft_retry_budget > 0 => x.sn_wait # 0)

\* The modes of -S: forced TCP excludes a fallback.
LEMMA ConfFacts ==
    ASSUME Context
    PROVE  /\ conf.connect_tcp \in BOOLEAN /\ conf.allow_tcp_fallback \in BOOLEAN
           /\ conf.prefer_kcp \in BOOLEAN
           /\ conf.connect_tcp => ~conf.allow_tcp_fallback
           /\ env.udpOpen \subseteq BOOLEAN /\ env.tcpOpen \subseteq BOOLEAN
<1>1. CASE conf = SMode.S1
  BY Zenon, <1>1, EnvAssumption DEF Context, SMode, Env
<1>2. CASE conf = SMode.S2
  BY Zenon, <1>2, EnvAssumption DEF Context, SMode, Env
<1>3. CASE conf = SMode.S3
  BY Zenon, <1>3, EnvAssumption DEF Context, SMode, Env
<1> QED
  BY <1>1, <1>2, <1>3, ConfAssumption DEF Context

\* No session is a session record.
LEMMA NoKcpType == NoKcp \in Kcp /\ NoKcp.state = "none"
BY DEF NoKcp, Kcp

\* The fields that decide on retries and fallback are the same.
Keeps(x, y) ==
    /\ y.sn_wait = x.sn_wait /\ y.transport = x.transport /\ y.curr_sn = x.curr_sn
    /\ y.tcp_fallback_active = x.tcp_fallback_active
    /\ y.tcp_sticky_after_fallback = x.tcp_sticky_after_fallback
    /\ y.soft_retry_budget = x.soft_retry_budget

\* supernode_disconnect_tcp closes the stream; eee->sock becomes a closed
\* descriptor if it was the stream's.
LEMMA DisconnectTcp ==
    ASSUME NEW x, Good(x)
    PROVE  /\ Good(supernode_disconnect_tcp(x))
           /\ supernode_disconnect_tcp(x).tcp_sock = NoSn
           /\ Keeps(x, supernode_disconnect_tcp(x))
BY ZenonT(40), SupernodeAssumption
   DEF Good, supernode_disconnect_tcp, Edge, PolicyOK, SocketOK, StreamOK, KcpOK, UsesTcp, Keeps

\* supernode_disconnect_udp closes the socket and the KCP session on it.
LEMMA DisconnectUdp ==
    ASSUME NEW x, Good(x)
    PROVE  /\ Good(supernode_disconnect_udp(x))
           /\ supernode_disconnect_udp(x).udp_sock = FALSE
           /\ supernode_disconnect_udp(x).tcp_sock = x.tcp_sock
           /\ Keeps(x, supernode_disconnect_udp(x))
BY ZenonT(40), NoKcpType
   DEF Good, supernode_disconnect_udp, edge_reset_supernode_kcp_state,
       Edge, PolicyOK, SocketOK, StreamOK, KcpOK, UsesTcp, Keeps

\* supernode_disconnect closes both and clears eee->sock.
LEMMA Disconnect ==
    ASSUME NEW x, Good(x)
    PROVE  /\ Good(supernode_disconnect(x))
           /\ supernode_disconnect(x).tcp_sock = NoSn
           /\ supernode_disconnect(x).udp_sock = FALSE
           /\ supernode_disconnect(x).sock = "none"
           /\ Keeps(x, supernode_disconnect(x))
<1> DEFINE t == supernode_disconnect_tcp(x)
           u == supernode_disconnect_udp(t)
<1>1. Good(t) /\ t.tcp_sock = NoSn /\ Keeps(x, t)
  BY DisconnectTcp
<1>2. Good(u) /\ u.udp_sock = FALSE /\ u.tcp_sock = NoSn /\ Keeps(x, u)
  BY Zenon, <1>1, DisconnectUdp DEF Keeps
<1>3. supernode_disconnect(x) = [u EXCEPT !.sock = "none"]
  BY DEF supernode_disconnect
<1> HIDE DEF t, u
<1> QED
  BY <1>2, <1>3 DEF Good, Edge, PolicyOK, SocketOK, StreamOK, KcpOK, UsesTcp, Keeps

\* The KCP session is dropped, nothing else.
LEMMA ResetKcp ==
    ASSUME NEW x \in Edge
    PROVE  LET y == edge_reset_supernode_kcp_state(x)
           IN /\ y \in Edge /\ KcpOK(y) /\ y.running = x.running
              /\ y.tcp_sock = x.tcp_sock /\ y.udp_sock = x.udp_sock /\ y.sock = x.sock
              /\ Keeps(x, y)
              /\ Good(x) => Good(y)
BY NoKcpType
   DEF Good, edge_reset_supernode_kcp_state,
       Edge, PolicyOK, SocketOK, StreamOK, KcpOK, UsesTcp, Keeps

\* The attempts are refreshed, nothing else.
LEMMA ResetAttempts ==
    ASSUME NEW x, Good(x)
    PROVE  /\ Good(reset_sup_attempts(x))
           /\ reset_sup_attempts(x).tcp_sock = x.tcp_sock
           /\ reset_sup_attempts(x).udp_sock = x.udp_sock
           /\ Keeps(x, reset_sup_attempts(x))
BY CountAssumption
   DEF Good, reset_sup_attempts, Edge, PolicyOK, SocketOK, StreamOK, KcpOK, UsesTcp, Keeps

\* Setting the transport brings eee->sock back in line with it, whatever it
\* held before.
LEMMA SetTransport ==
    ASSUME NEW x \in Edge, x.running, KcpOK(x), NEW t \in {"UDP", "TCP"}
    PROVE  LET y == edge_set_active_transport(x, t)
           IN /\ y \in Edge /\ y.running /\ KcpOK(y) /\ SocketOK(y)
              /\ y.transport = t
              /\ Keeps([x EXCEPT !.transport = t], y)
              /\ y.tcp_sock = x.tcp_sock /\ y.udp_sock = x.udp_sock
BY ZenonT(40), SupernodeAssumption
   DEF edge_set_active_transport, edge_sync_active_socket, Edge, SocketOK, StreamOK, KcpOK, UsesTcp, Keeps

\* Releasing a sticky fallback after its stream was closed: back on UDP with
\* no soft retries left.  Other edges are left alone.
LEMMA Release ==
    ASSUME Context, NEW x, Good(x), x.tcp_sock = NoSn
    PROVE  LET y == edge_release_tcp_sticky_after_disconnect(x)
           IN /\ Good(y) /\ y.tcp_sock = NoSn /\ y.udp_sock = x.udp_sock
              /\ y.sn_wait = x.sn_wait
              /\ y.soft_retry_budget = 0
<1> DEFINE r == [x EXCEPT !.tcp_sticky_after_fallback = FALSE,
                          !.tcp_fallback_active = FALSE,
                          !.register_fast_retry_count = 0,
                          !.soft_retry_budget = 0]
           k == edge_reset_supernode_kcp_state(r)
           t == edge_set_active_transport(k, "UDP")
<1>1. CASE conf.connect_tcp \/ ~x.tcp_sticky_after_fallback
  <2>1. edge_release_tcp_sticky_after_disconnect(x) = x
    BY <1>1 DEF edge_release_tcp_sticky_after_disconnect
  <2>2. x.tcp_fallback_active = FALSE
    BY <1>1, ConfFacts DEF Good, PolicyOK, Edge
  <2> QED
    BY <2>1, <2>2 DEF Good, Edge
<1>2. CASE ~(conf.connect_tcp \/ ~x.tcp_sticky_after_fallback)
  <2>1. edge_release_tcp_sticky_after_disconnect(x) = reset_sup_attempts(t)
    BY <1>2 DEF edge_release_tcp_sticky_after_disconnect
  <2>2. /\ k \in Edge /\ k.running /\ KcpOK(k) /\ k.tcp_sock = NoSn
        /\ k.udp_sock = x.udp_sock /\ k.sn_wait = x.sn_wait
        /\ k.soft_retry_budget = 0
        /\ ~k.tcp_fallback_active /\ ~k.tcp_sticky_after_fallback
    <3>1. /\ r \in Edge /\ r.running /\ r.tcp_sock = NoSn /\ r.udp_sock = x.udp_sock
          /\ r.sn_wait = x.sn_wait /\ r.soft_retry_budget = 0
          /\ ~r.tcp_fallback_active /\ ~r.tcp_sticky_after_fallback
      <4>1. 0 \in 0..N2N_TCP_REGISTER_SOFT_RETRIES /\ 0 \in 0..3
        BY CountAssumption
      <4>2. r \in Edge
        BY ZenonT(40), <4>1 DEF Good, Edge
      <4> QED
        BY <4>2 DEF Good, Edge
    <3> HIDE DEF r
    <3> QED
      BY <3>1, ResetKcp DEF Keeps
  <2> HIDE DEF k
  <2>3. /\ t \in Edge /\ t.running /\ KcpOK(t) /\ SocketOK(t) /\ t.transport = "UDP"
        /\ t.tcp_sock = NoSn /\ t.udp_sock = x.udp_sock /\ t.sn_wait = x.sn_wait
        /\ t.soft_retry_budget = 0
        /\ ~t.tcp_fallback_active /\ ~t.tcp_sticky_after_fallback
    BY <2>2, SetTransport DEF Keeps, Edge
  <2> HIDE DEF t
  <2>4. Good(t)
    BY <1>2, <2>3, ConfFacts DEF Good, PolicyOK, StreamOK, UsesTcp, Edge
  <2> QED
    BY <2>1, <2>3, <2>4, ResetAttempts DEF Keeps
<1> QED
  BY <1>1, <1>2

----------------------------------------------------------------------------
\* Opening the UDP socket: a failure leaves a good state, a success needs
\* eee->sock to be set.
LEMMA ConnectUdp ==
    ASSUME Context, NEW x, Good(x), NEW u \in supernode_connect_udp_socket(x)
    PROVE  /\ u \in Edge /\ u.running /\ PolicyOK(u) /\ StreamOK(u) /\ KcpOK(u)
           /\ Keeps(x, u) /\ u.tcp_sock = x.tcp_sock
           /\ ~u.udp_sock \/ UsesTcp(x) => Good(u)
<1>1. CASE u = x
  BY <1>1 DEF Good, Keeps
<1>2. ASSUME ~x.udp_sock, NEW ok \in BOOLEAN, u = [x EXCEPT !.udp_sock = ok]
      PROVE  /\ u \in Edge /\ u.running /\ PolicyOK(u) /\ StreamOK(u) /\ KcpOK(u)
             /\ Keeps(x, u) /\ u.tcp_sock = x.tcp_sock
             /\ ~u.udp_sock \/ UsesTcp(x) => Good(u)
  BY <1>2 DEF Good, Edge, PolicyOK, SocketOK, StreamOK, KcpOK, UsesTcp, Keeps
<1> QED
  BY <1>1, <1>2, ConfFacts DEF supernode_connect_udp_socket

\* Starting a TCP connection: a failure leaves the stream closed and
\* eee->sock not pointing to it, a success needs eee->sock to be set.
LEMMA ConnectTcp ==
    ASSUME Context, NEW x \in Edge, x.running, KcpOK(x), SocketOK(x),
           NEW t \in supernode_connect_tcp_socket(x)
    PROVE  /\ t \in Edge /\ t.running /\ KcpOK(t)
           /\ Keeps(x, t) /\ t.udp_sock = x.udp_sock
           /\ t.tcp_sock = NoSn => SocketOK(t)
<1> DEFINE d == supernode_disconnect_tcp(x)
           s == [d EXCEPT !.tcp_sock = d.curr_sn,
                          !.rx = IF @ = "start" THEN "start" ELSE "skewed"]
<1>1. CASE t = x
  BY <1>1, SupernodeAssumption DEF Keeps, Edge
<1>2. /\ d \in Edge /\ d.running /\ KcpOK(d) /\ Keeps(x, d)
      /\ d.udp_sock = x.udp_sock /\ SocketOK(d)
  BY ZenonT(40), SupernodeAssumption
     DEF supernode_disconnect_tcp, Edge, SocketOK, StreamOK, KcpOK, UsesTcp, Keeps
<1> HIDE DEF d
<1>3. CASE t = d
  BY <1>2, <1>3
<1>4. CASE t = s
  <2>1. s \in Edge /\ s.tcp_sock = d.curr_sn /\ d.curr_sn # NoSn
    BY ZenonT(40), <1>2, SupernodeAssumption DEF Edge
  <2>2. /\ s.running = d.running /\ s.kcp = d.kcp /\ s.udp_sock = d.udp_sock
        /\ Keeps(d, s)
    BY Zenon, <1>2 DEF Edge, Keeps
  <2> HIDE DEF s
  <2> QED
    BY <1>2, <1>4, <2>1, <2>2 DEF KcpOK, Keeps
<1>5. t = x \/ t = d \/ t = s
  BY DEF supernode_connect_tcp_socket, d
<1> QED
  BY <1>1, <1>3, <1>4, <1>5

\* A TCP connection on behalf of a policy that wants it ends in a good state
\* once the transport is set.
LEMMA TcpUp ==
    ASSUME Context, NEW t \in Edge, t.running, KcpOK(t),
           conf.connect_tcp \/ t.tcp_fallback_active,
           t.tcp_fallback_active => conf.allow_tcp_fallback,
           t.tcp_sticky_after_fallback = t.tcp_fallback_active,
           t.soft_retry_budget > 0 => t.tcp_fallback_active
    PROVE  LET y == edge_set_active_transport(t, "TCP")
           IN /\ Good(y) /\ y.transport = "TCP"
              /\ y.tcp_sock = t.tcp_sock /\ y.udp_sock = t.udp_sock
              /\ y.sn_wait = t.sn_wait /\ y.curr_sn = t.curr_sn
              /\ y.tcp_fallback_active = t.tcp_fallback_active
              /\ y.soft_retry_budget = t.soft_retry_budget
<1> DEFINE y == edge_set_active_transport(t, "TCP")
<1>1. /\ y \in Edge /\ y.running /\ KcpOK(y) /\ SocketOK(y) /\ y.transport = "TCP"
      /\ Keeps([t EXCEPT !.transport = "TCP"], y)
      /\ y.tcp_sock = t.tcp_sock /\ y.udp_sock = t.udp_sock
  BY Zenon, SetTransport
<1> HIDE DEF y
<1>2. /\ y.sn_wait = t.sn_wait /\ y.curr_sn = t.curr_sn
      /\ y.tcp_fallback_active = t.tcp_fallback_active
      /\ y.tcp_sticky_after_fallback = t.tcp_sticky_after_fallback
      /\ y.soft_retry_budget = t.soft_retry_budget
  BY <1>1 DEF Keeps, Edge
<1>3. Good(y)
  BY <1>1, <1>2 DEF Good, PolicyOK, StreamOK, UsesTcp
<1> QED
  BY <1>1, <1>2, <1>3 DEF y

\* Connecting TCP in a good state that wants it ends in a good state.
LEMMA ConnectTcpUp ==
    ASSUME Context, NEW x, Good(x), UsesTcp(x), NEW t \in supernode_connect_tcp_socket(x)
    PROVE  LET y == IF t.tcp_sock = NoSn THEN t ELSE edge_set_active_transport(t, "TCP")
           IN /\ Good(y) /\ Keeps(x, y) /\ y.udp_sock = x.udp_sock
              /\ y.tcp_sock = t.tcp_sock
<1>1. /\ t \in Edge /\ t.running /\ KcpOK(t) /\ Keeps(x, t) /\ t.udp_sock = x.udp_sock
      /\ t.tcp_sock = NoSn => SocketOK(t)
  BY ConnectTcp DEF Good
<1>2. PolicyOK(t) /\ (t.soft_retry_budget > 0 => t.tcp_fallback_active)
  BY <1>1 DEF Good, PolicyOK, UsesTcp, Keeps
<1>3. CASE t.tcp_sock = NoSn
  BY <1>1, <1>2, <1>3 DEF Good, StreamOK
<1>4. CASE t.tcp_sock # NoSn
  <2> DEFINE y == edge_set_active_transport(t, "TCP")
  <2>1. conf.connect_tcp \/ t.tcp_fallback_active
    BY <1>1 DEF Good, PolicyOK, Keeps
  <2>2. /\ Good(y) /\ y.transport = "TCP"
        /\ y.tcp_sock = t.tcp_sock /\ y.udp_sock = t.udp_sock
        /\ y.sn_wait = t.sn_wait /\ y.curr_sn = t.curr_sn
        /\ y.tcp_fallback_active = t.tcp_fallback_active
        /\ y.soft_retry_budget = t.soft_retry_budget
    BY <1>1, <1>2, <2>1, TcpUp DEF PolicyOK
  <2> HIDE DEF y
  <2>3. Keeps(x, y)
    BY <1>1, <2>2 DEF Good, PolicyOK, Keeps, UsesTcp
  <2> QED
    BY <1>1, <1>4, <2>2, <2>3 DEF y
<1> QED
  BY <1>3, <1>4

\* supernode_connect keeps everything but the sockets and the KCP session.
LEMMA Connect ==
    ASSUME Context, NEW x, Good(x), NEW y \in supernode_connect(x)
    PROVE  Good(y) /\ Keeps(x, y)
<1> DEFINE k == IF x.kcp.state # "none" /\ x.kcp.remote # x.curr_sn
                THEN edge_reset_supernode_kcp_state(x) ELSE x
           c == IF k.tcp_sock \notin {NoSn, k.curr_sn} THEN supernode_disconnect_tcp(k) ELSE k
           Tcp(u) == {IF t.tcp_sock = NoSn THEN t ELSE edge_set_active_transport(t, "TCP") :
                          t \in supernode_connect_tcp_socket(u)}
<1>1. Good(k) /\ Keeps(x, k)
  BY ResetKcp DEF Good, Keeps
<1>2. Good(c) /\ Keeps(x, c)
  BY <1>1, DisconnectTcp DEF Keeps
<1>3. ASSUME NEW u, Good(u), Keeps(x, u), UsesTcp(u), y \in Tcp(u)
      PROVE  Good(y) /\ Keeps(x, y)
  BY <1>3, ConnectTcpUp DEF Keeps
<1>4. \/ conf.connect_tcp /\ y \in Tcp(c)
      \/ /\ ~conf.connect_tcp
         /\ \E u \in supernode_connect_udp_socket(c) :
                \/ ~u.udp_sock /\ y = u
                \/ u.udp_sock /\ u.tcp_fallback_active /\ y \in Tcp(u)
                \/ u.udp_sock /\ ~u.tcp_fallback_active /\ y = edge_set_active_transport(u, "UDP")
  BY DEF supernode_connect
<1> HIDE DEF k, c, Tcp
<1>5. CASE conf.connect_tcp /\ y \in Tcp(c)
  BY <1>2, <1>3, <1>5 DEF Good, PolicyOK
<1>6. ASSUME ~conf.connect_tcp, NEW u \in supernode_connect_udp_socket(c)
      PROVE  /\ ~u.udp_sock /\ y = u => Good(y) /\ Keeps(x, y)
             /\ u.udp_sock /\ u.tcp_fallback_active /\ y \in Tcp(u) => Good(y) /\ Keeps(x, y)
             /\ u.udp_sock /\ ~u.tcp_fallback_active /\ y = edge_set_active_transport(u, "UDP")
                    => Good(y) /\ Keeps(x, y)
  <2>1. /\ u \in Edge /\ u.running /\ PolicyOK(u) /\ StreamOK(u) /\ KcpOK(u) /\ Keeps(x, u)
        /\ ~u.udp_sock \/ UsesTcp(c) => Good(u)
        /\ UsesTcp(c) = UsesTcp(u)
    BY <1>2, <1>6, ConnectUdp DEF Keeps, UsesTcp
  <2>2. u.tcp_fallback_active => UsesTcp(u)
    BY <2>1 DEF PolicyOK
  <2>3. u.soft_retry_budget > 0 => u.tcp_fallback_active
    BY <2>1 DEF Good, Keeps
  <2>4. ASSUME ~u.tcp_fallback_active, y = edge_set_active_transport(u, "UDP")
        PROVE  Good(y) /\ Keeps(x, y)
    <3>1. ~UsesTcp(u) /\ u.transport = "UDP"
      BY <1>6, <2>1, <2>4 DEF PolicyOK, UsesTcp, Edge
    <3>2. /\ y \in Edge /\ y.running /\ KcpOK(y) /\ SocketOK(y) /\ y.transport = "UDP"
          /\ Keeps([u EXCEPT !.transport = "UDP"], y) /\ y.tcp_sock = u.tcp_sock
      BY Zenon, <2>1, <2>4, SetTransport
    <3>3. Keeps(u, y)
      BY <3>1, <3>2, <2>1 DEF Keeps, Edge
    <3> QED
      BY <2>1, <2>3, <2>4, <3>2, <3>3 DEF Good, PolicyOK, StreamOK, UsesTcp, Keeps
  <2> QED
    BY <1>3, <2>1, <2>2, <2>4
<1> QED
  BY <1>4, <1>5, <1>6

\* Synchronising eee->sock makes a state good that is good in everything else.
LEMMA Sync ==
    ASSUME NEW x \in Edge, x.running, PolicyOK(x), StreamOK(x), KcpOK(x),
           x.soft_retry_budget > 0 => x.tcp_fallback_active
    PROVE  Good(edge_sync_active_socket(x)) /\ Keeps(x, edge_sync_active_socket(x))
<1> DEFINE y == edge_sync_active_socket(x)
<1>1. /\ y \in Edge /\ y.running /\ SocketOK(y) /\ KcpOK(y) /\ Keeps(x, y)
      /\ y.tcp_sock = x.tcp_sock
  BY SupernodeAssumption
     DEF edge_sync_active_socket, Edge, SocketOK, StreamOK, KcpOK, UsesTcp, Keeps
<1> HIDE DEF y
<1> QED
  BY <1>1 DEF Good, PolicyOK, StreamOK, UsesTcp, Keeps, y

\* Starting another wait leaves a good state good.
LEMMA SetWait ==
    ASSUME NEW x, Good(x), NEW w \in 0..2
    PROVE  /\ Good([x EXCEPT !.sn_wait = w])
           /\ [x EXCEPT !.sn_wait = w].sn_wait = w
BY DEF Good, Edge, PolicyOK, SocketOK, StreamOK, KcpOK, UsesTcp

\* The switch to TCP keeps or sets both fallback flags, never one of them.
LEMMA Switch ==
    ASSUME Context, NEW x, Good(x), NEW s \in edge_switch_to_tcp_supernode(x)
    PROVE  Good(s)
<1> DEFINE f == [x EXCEPT !.tcp_fallback_active = TRUE,
                          !.tcp_sticky_after_fallback = TRUE,
                          !.register_fast_retry_count = 0,
                          !.soft_retry_budget = N2N_TCP_REGISTER_SOFT_RETRIES]
<1>1. CASE conf.connect_tcp \/ UsesTcp(x) \/ ~conf.allow_tcp_fallback
  BY <1>1 DEF edge_switch_to_tcp_supernode
<1>2. CASE ~(conf.connect_tcp \/ UsesTcp(x) \/ ~conf.allow_tcp_fallback)
  <2>0. N2N_TCP_REGISTER_SOFT_RETRIES \in 0..N2N_TCP_REGISTER_SOFT_RETRIES /\ 0 \in 0..3
    BY CountAssumption
  <2>1. /\ f \in Edge /\ f.running /\ KcpOK(f) /\ SocketOK(f)
        /\ f.tcp_fallback_active /\ f.tcp_sticky_after_fallback
        /\ f.transport = x.transport
    BY ZenonT(40), <2>0 DEF Good, Edge, KcpOK, SocketOK, UsesTcp
  <2>2. PICK t \in supernode_connect_tcp_socket(f) :
            s = IF t.tcp_sock = NoSn
                THEN [t EXCEPT !.tcp_fallback_active = FALSE,
                               !.tcp_sticky_after_fallback = FALSE,
                               !.soft_retry_budget = 0]
                ELSE [reset_sup_attempts(edge_set_active_transport(t, "TCP"))
                          EXCEPT !.sn_wait = 0]
    BY <1>2 DEF edge_switch_to_tcp_supernode
  <2> HIDE DEF f
  <2>3. /\ t \in Edge /\ t.running /\ KcpOK(t) /\ Keeps(f, t)
        /\ t.tcp_sock = NoSn => SocketOK(t)
    BY <2>1, ConnectTcp
  <2>4. CASE t.tcp_sock = NoSn
    <3>1. t.transport # "TCP"
      BY <1>2, <2>1, <2>3 DEF Keeps, UsesTcp
    <3>2. 0 \in 0..N2N_TCP_REGISTER_SOFT_RETRIES
      BY CountAssumption
    <3>3. /\ s \in Edge /\ s.running /\ s.kcp = t.kcp /\ s.udp_sock = t.udp_sock
          /\ s.tcp_sock = t.tcp_sock /\ s.sock = t.sock /\ s.transport = t.transport
          /\ s.tcp_fallback_active = FALSE /\ s.tcp_sticky_after_fallback = FALSE
          /\ s.soft_retry_budget = 0
      BY ZenonT(40), <2>2, <2>3, <2>4, <3>2 DEF Edge
    <3>4. PolicyOK(s)
      BY Zenon, <1>2, <3>1, <3>3 DEF PolicyOK, UsesTcp
    <3>5. SocketOK(s) /\ KcpOK(s)
      BY <2>3, <2>4, <3>3 DEF SocketOK, StreamOK, KcpOK, UsesTcp
    <3> QED
      BY <2>4, <3>3, <3>4, <3>5 DEF Good, StreamOK
  <2>5. CASE t.tcp_sock # NoSn
    <3> DEFINE g == edge_set_active_transport(t, "TCP")
    <3>1. Good(g)
      <4>1. /\ t.tcp_fallback_active /\ t.tcp_sticky_after_fallback
        BY <2>1, <2>3 DEF Keeps
      <4> QED
        BY <1>2, <2>3, <4>1, TcpUp DEF Edge
    <3> HIDE DEF g
    <3>2. Good(reset_sup_attempts(g))
      BY <3>1, ResetAttempts
    <3>3. s = [reset_sup_attempts(g) EXCEPT !.sn_wait = 0]
      BY <2>2, <2>5 DEF g
    <3>4. 0 \in 0..2
      OBVIOUS
    <3> HIDE DEF g
    <3> QED
      BY <3>2, <3>3, <3>4, SetWait, Zenon
  <2> QED
    BY <2>4, <2>5
<1> QED
  BY <1>1, <1>2

\* Recycling the UDP socket ends with a new one, or with none and eee->sock
\* not on it.
LEMMA Recycle ==
    ASSUME Context, NEW x, Good(x), NEW y \in edge_recycle_udp_supernode_socket(x)
    PROVE  Good(y)
<1>1. CASE conf.connect_tcp
  BY <1>1 DEF edge_recycle_udp_supernode_socket
<1>2. CASE ~conf.connect_tcp
  <2> DEFINE d == supernode_disconnect_udp(x)
  <2>1. PICK u \in supernode_connect_udp_socket(d) :
            y = IF u.udp_sock THEN edge_sync_active_socket(u) ELSE u
    BY <1>2 DEF edge_recycle_udp_supernode_socket
  <2>2. Good(d) /\ Keeps(x, d)
    BY Zenon, DisconnectUdp
  <2> HIDE DEF d
  <2>3. /\ u \in Edge /\ u.running /\ PolicyOK(u) /\ StreamOK(u) /\ KcpOK(u) /\ Keeps(d, u)
        /\ ~u.udp_sock => Good(u)
    BY <2>2, ConnectUdp
  <2>4. u.soft_retry_budget > 0 => u.tcp_fallback_active
    BY <2>2, <2>3 DEF Good, Keeps
  <2> QED
    BY <2>1, <2>3, <2>4, Sync
<1> QED
  BY <1>1, <1>2

----------------------------------------------------------------------------
\* A message over the control KCP session needs an open UDP socket.
LEMMA KcpSend ==
    ASSUME Context, NEW x, Good(x), ~UsesTcp(x)
    PROVE  Good(n2n_kcp_edge_send(x)) /\ Keeps(x, n2n_kcp_edge_send(x))
<1> DEFINE k == [state |-> "live", remote |-> x.curr_sn, rx |-> 0,
                 confirmed |-> FALSE, recent |-> TRUE]
           y == [x EXCEPT !.kcp = k]
<1>1. x.udp_sock => Good(y) /\ Keeps(x, y)
  <2>1. k \in Kcp
    BY DEF Good, Edge, Kcp
  <2>2. ~conf.connect_tcp
    BY DEF Good, PolicyOK
  <2> HIDE DEF k
  <2> QED
    BY <2>1, <2>2 DEF Good, Edge, PolicyOK, SocketOK, StreamOK, KcpOK, UsesTcp, Keeps
<1>2. n2n_kcp_edge_send(x) \in {x, y} /\ (~x.udp_sock => n2n_kcp_edge_send(x) = x)
  BY DEF n2n_kcp_edge_send
<1> HIDE DEF y
<1> QED
  BY <1>1, <1>2 DEF Keeps

\* A failed TCP send leaves a good state in which a registration is due.
LEMMA SendFailed ==
    ASSUME Context, NEW x, Good(x), UsesTcp(x), NEW register,
           NEW y \in TcpSendFailed(x, register)
    PROVE  Good(y) /\ y.sn_wait # 0
<1> DEFINE soft == register /\ x.tcp_fallback_active /\ x.soft_retry_budget > 0
<1>1. CASE soft
  <2> DEFINE b == [x EXCEPT !.soft_retry_budget = @ - 1]
             d == supernode_disconnect_tcp(b)
  <2>1. PICK t \in supernode_connect_tcp_socket(d) :
            y = edge_sync_active_socket([t EXCEPT !.sn_wait = 2])
    BY SMTT(40), <1>1 DEF TcpSendFailed
  <2>2. x.soft_retry_budget - 1 \in 0..N2N_TCP_REGISTER_SOFT_RETRIES
    BY <1>1, CountAssumption DEF Good, Edge
  <2>3. Good(b) /\ UsesTcp(b)
    BY Zenon, <1>1, <2>2 DEF Good, Edge, PolicyOK, SocketOK, StreamOK, KcpOK, UsesTcp
  <2> HIDE DEF b
  <2>4. Good(d) /\ UsesTcp(d)
    BY <2>3, DisconnectTcp DEF Keeps, UsesTcp
  <2> HIDE DEF d
  <2>5. /\ t \in Edge /\ t.running /\ KcpOK(t) /\ Keeps(d, t)
    BY <2>4, ConnectTcp DEF Good
  <2> DEFINE w == [t EXCEPT !.sn_wait = 2]
  <2>6. /\ w \in Edge /\ w.running /\ KcpOK(w) /\ PolicyOK(w) /\ StreamOK(w) /\ w.sn_wait = 2
        /\ w.soft_retry_budget > 0 => w.tcp_fallback_active
    <3>1. PolicyOK(t) /\ UsesTcp(t) /\ (t.soft_retry_budget > 0 => t.tcp_fallback_active)
      BY <2>4, <2>5 DEF Good, PolicyOK, UsesTcp, Keeps
    <3>2. 2 \in 0..2
      OBVIOUS
    <3> QED
      BY <2>5, <3>1, <3>2 DEF Edge, KcpOK, PolicyOK, StreamOK, UsesTcp
  <2> HIDE DEF w
  <2>7. y = edge_sync_active_socket(w)
    BY <2>1 DEF w
  <2> QED
    BY <2>6, <2>7, Sync DEF Keeps
<1>2. CASE ~soft
  <2> DEFINE d == supernode_disconnect_tcp(x)
             r == edge_release_tcp_sticky_after_disconnect(d)
             w == [r EXCEPT !.sn_wait = 1]
  <2>1. y = edge_sync_active_socket(w)
    BY <1>2 DEF TcpSendFailed
  <2>2. Good(d) /\ d.tcp_sock = NoSn
    BY DisconnectTcp
  <2> HIDE DEF d
  <2>3. Good(r)
    BY <2>2, Release
  <2> HIDE DEF r
  <2>4. Good(w) /\ w.sn_wait = 1
    <3>1. 1 \in 0..2
      OBVIOUS
    <3> QED
      BY Zenon, <2>3, <3>1, SetWait
  <2> HIDE DEF w
  <2> QED
    BY <2>1, <2>4, Sync DEF Good, Keeps
<1> QED
  BY <1>1, <1>2

\* Whatever happens to a message, the edge stays good and settled; only a
\* failed TCP send moves it, and that starts a registration round.
LEMMA Sendto ==
    ASSUME Context, NEW x, Good(x), NEW control, NEW register,
           NEW y \in sendto_sock(x, control, register)
    PROVE  Good(y) /\ (y.sn_wait # 0 \/ (Keeps(x, y) /\ y.tcp_sock = x.tcp_sock))
<1>1. CASE y = x
  BY <1>1 DEF Keeps
<1>2. CASE UsesTcp(x) /\ y \in TcpSendFailed(x, register)
  BY <1>2, SendFailed
<1>3. CASE ~UsesTcp(x) /\ y = n2n_kcp_edge_send(x)
  <2>1. y.tcp_sock = x.tcp_sock
    BY <1>3 DEF n2n_kcp_edge_send, Good, Edge
  <2> QED
    BY <1>3, <2>1, KcpSend
<1>4. \/ y = x
      \/ UsesTcp(x) /\ y \in TcpSendFailed(x, register)
      \/ ~UsesTcp(x) /\ y = n2n_kcp_edge_send(x)
  BY Zenon, Zenon DEF sendto_sock, TcpSend
<1> QED
  BY <1>1, <1>2, <1>3, <1>4

\* A state that keeps these fields is settled if the other one was.
LEMMA StaysSettled ==
    ASSUME NEW x, NEW y, y.running = x.running,
           y.sn_wait # 0 \/ (Keeps(x, y) /\ y.tcp_sock = x.tcp_sock), Settled(x)
    PROVE  Settled(y)
BY DEF Settled, Retried, UsesTcp, Keeps

\* Nor do several messages, or REGISTERs to peers, unsettle it.
LEMMA SendsGood ==
    ASSUME Context, NEW x, Good(x), Settled(x),
           NEW y, y \in Sends(x) \/ y \in send_register(x) \/ y \in send_peer(x)
    PROVE  Good(y) /\ Settled(y)
<1>1. ASSUME NEW g, Good(g), Settled(g),
             NEW z, z = g \/ z \in send_peer(g) \/ z \in send_control(g)
      PROVE  Good(z) /\ Settled(z)
  <2>1. CASE z = g
    BY <1>1, <2>1
  <2>2. CASE z \in send_peer(g) \/ z \in send_control(g)
    <3>1. \E control \in BOOLEAN : z \in sendto_sock(g, control, FALSE)
      BY Zenon, <2>2 DEF send_peer, send_control
    <3>2. Good(z) /\ (z.sn_wait # 0 \/ (Keeps(g, z) /\ z.tcp_sock = g.tcp_sock))
      BY Zenon, <1>1, <3>1, Sendto
    <3> QED
      BY Zenon, <1>1, <3>2, StaysSettled DEF Good
  <2> QED
    BY <1>1, <2>1, <2>2
<1>2. CASE y \in Sends(x)
  <2> DEFINE Once(g) == {g} \cup send_peer(g) \cup send_control(g)
  <2>1. PICK z \in Once(x) : y \in Once(z)
    BY <1>2 DEF Sends
  <2>2. Good(z) /\ Settled(z)
    BY <1>1, <2>1
  <2> QED
    BY <1>1, <2>1, <2>2
<1>3. CASE y \in send_register(x) \/ y \in send_peer(x)
  BY <1>1, <1>3 DEF send_register
<1> QED
  BY <1>2, <1>3

\* Sending REGISTER_SUPER is sending a message.
LEMMA SendRegister ==
    ASSUME Context, NEW x, Good(x), NEW y \in send_register_super(x)
    PROVE  Good(y) /\ (y.sn_wait # 0 \/ (Keeps(x, y) /\ y.tcp_sock = x.tcp_sock))
<1>1. PICK z \in sendto_sock(x, TRUE, TRUE) :
          y = z \/ y = [z EXCEPT !.asked = @ \cup {x.transport}]
  BY Zenon, Zenon DEF send_register_super
<1>2. Good(z) /\ (z.sn_wait # 0 \/ (Keeps(x, z) /\ z.tcp_sock = x.tcp_sock))
  BY Zenon, Sendto
<1>3. ASSUME y = [z EXCEPT !.asked = @ \cup {x.transport}]
      PROVE  Good(y) /\ Keeps(z, y) /\ y.tcp_sock = z.tcp_sock
  BY <1>2, <1>3 DEF Good, Edge, PolicyOK, SocketOK, StreamOK, KcpOK, UsesTcp, Keeps
<1> QED
  BY <1>1, <1>2, <1>3 DEF Keeps

\* The bookkeeping after a registration.
LEMMA Registered ==
    ASSUME NEW x, Good(x), NEW n \in 0..3, NEW y,
           y = [x EXCEPT !.sn_wait = 1, !.register_fast_retry_count = n]
    PROVE  Good(y) /\ y.sn_wait = 1
<1>1. 1 \in 0..2
  OBVIOUS
<1> QED
  BY Zenon, <1>1 DEF Good, Edge, PolicyOK, SocketOK, StreamOK, KcpOK, UsesTcp

\* Registering, with a reconnect of TCP before it if need be.
LEMMA RegisterGood ==
    ASSUME Context, NEW x, Good(x), NEW waiting \in BOOLEAN, NEW y \in Register(x, waiting)
    PROVE  Good(y) /\ y.sn_wait = 1
<1> DEFINE FastRetry(n) == IF n < 3 THEN n + 1 ELSE n
           Send(g) == UNION {send_register(r) : r \in send_register_super(g)}
<1>1. ASSUME NEW n \in 0..3
      PROVE  FastRetry(n) \in 0..3 /\ 0 \in 0..3
  OBVIOUS
<1>2. ASSUME NEW g, Good(g),
             y = [g EXCEPT !.sn_wait = 1,
                           !.register_fast_retry_count = IF waiting THEN FastRetry(@) ELSE @]
      PROVE  Good(y) /\ y.sn_wait = 1
  <2> DEFINE m == IF waiting THEN FastRetry(g.register_fast_retry_count)
                  ELSE g.register_fast_retry_count
  <2>1. g.register_fast_retry_count \in 0..3
    BY <1>2 DEF Good, Edge
  <2>2. m \in 0..3 /\ y = [g EXCEPT !.sn_wait = 1, !.register_fast_retry_count = m]
    BY <1>1, <1>2, <2>1
  <2> HIDE DEF m
  <2>3. Good(g)
    BY <1>2
  <2> QED
    BY <2>2, <2>3, Registered
<1>3. ASSUME NEW g, Good(g),
             y = [g EXCEPT !.sn_wait = 1,
                           !.register_fast_retry_count = IF waiting THEN FastRetry(@) ELSE 0]
      PROVE  Good(y) /\ y.sn_wait = 1
  <2> DEFINE m == IF waiting THEN FastRetry(g.register_fast_retry_count) ELSE 0
  <2>1. g.register_fast_retry_count \in 0..3
    BY <1>3 DEF Good, Edge
  <2>2. m \in 0..3 /\ y = [g EXCEPT !.sn_wait = 1, !.register_fast_retry_count = m]
    BY <1>1, <1>3, <2>1
  <2> HIDE DEF m
  <2>3. Good(g)
    BY <1>3
  <2> QED
    BY <2>2, <2>3, Registered
<1>4. ASSUME NEW g, Good(g), NEW p \in Send(g)
      PROVE  Good(p)
  <2>1. PICK r \in send_register_super(g) : p = r \/ p \in send_peer(r)
    BY <1>4 DEF send_register
  <2>2. Good(r)
    BY <1>4, SendRegister
  <2> QED
    BY Zenon, <2>1, <2>2, Sendto DEF send_peer
<1>5. CASE ~(UsesTcp(x) /\ x.tcp_sock = NoSn)
  <2>1. PICK p \in Send(x) :
            y = [p EXCEPT !.sn_wait = 1,
                          !.register_fast_retry_count = IF waiting THEN FastRetry(@) ELSE 0]
    BY <1>5 DEF Register
  <2> QED
    BY <1>3, <1>4, <2>1
<1>6. CASE UsesTcp(x) /\ x.tcp_sock = NoSn
  <2>1. PICK t \in supernode_connect_tcp_socket(x) :
            \/ /\ t.tcp_sock = NoSn
               /\ y = [t EXCEPT !.sn_wait = 1,
                         !.register_fast_retry_count = IF waiting THEN FastRetry(@) ELSE @]
            \/ /\ t.tcp_sock # NoSn
               /\ \E p \in Send(edge_set_active_transport(t, "TCP")) :
                     y = [p EXCEPT !.sn_wait = 1,
                            !.register_fast_retry_count = IF waiting THEN FastRetry(@) ELSE 0]
    BY <1>6 DEF Register
  <2> HIDE DEF Send, FastRetry
  <2>2. CASE t.tcp_sock = NoSn
    BY <1>2, <1>6, <2>1, <2>2, ConnectTcpUp
  <2>3. CASE t.tcp_sock # NoSn
    <3>1. Good(edge_set_active_transport(t, "TCP"))
      BY <1>6, <2>3, ConnectTcpUp
    <3> QED
      BY <1>3, <1>4, <2>1, <2>3, <3>1
  <2> QED
    BY <2>2, <2>3
<1> QED
  BY <1>5, <1>6

----------------------------------------------------------------------------
\* Moving to another supernode.
LEMMA MoveTo ==
    ASSUME NEW x, Good(x), NEW s \in Supernode
    PROVE  Good(reset_sup_attempts([x EXCEPT !.curr_sn = s]))
<1>1. Good([x EXCEPT !.curr_sn = s])
  BY DEF Good, Edge, PolicyOK, SocketOK, StreamOK, KcpOK, UsesTcp
<1> QED
  BY <1>1, ResetAttempts

\* Giving up on a supernode: the next one is connected.
LEMMA GiveUpGood ==
    ASSUME Context, NEW x, Good(x), NEW y \in GiveUp(x)
    PROVE  Good(y)
<1> DEFINE Next_sn(s) == reset_sup_attempts([x EXCEPT !.curr_sn = s])
           Reset(n) == supernode_disconnect([n EXCEPT !.close_socket_counter = 0])
           Inc(n) == [n EXCEPT !.close_socket_counter = @ + 1]
<1>1. PICK s \in Supernode : \/ y \in supernode_connect(Next_sn(s))
                             \/ y \in supernode_connect(Reset(Next_sn(s)))
                             \/ y \in supernode_connect(Inc(Next_sn(s)))
  BY Zenon, Zenon DEF GiveUp
<1>2. Good(Next_sn(s))
  BY MoveTo
<1> HIDE DEF Next_sn
<1>3. ASSUME NEW n, Good(n)
      PROVE  Good(Reset(n)) /\ Good(Inc(n))
  <2>1. Good([n EXCEPT !.close_socket_counter = 0])
    BY <1>3 DEF Good, Edge, PolicyOK, SocketOK, StreamOK, KcpOK, UsesTcp
  <2>2. Good(Inc(n))
    BY <1>3 DEF Good, Edge, PolicyOK, SocketOK, StreamOK, KcpOK, UsesTcp
  <2> QED
    BY Zenon, <2>1, <2>2, Disconnect
<1> HIDE DEF Reset, Inc
<1> QED
  BY <1>1, <1>2, <1>3, Connect

\* On a fallback the attempts are pinned, and no probe is sent over UDP: a
\* fallback is always sticky.
LEMMA FallbackGood ==
    ASSUME Context, NEW x, Good(x), NEW y \in FallbackAttempts(x)
    PROVE  Good(y)
<1>1. y = x \/ y = [x EXCEPT !.sup_attempts = 1]
  BY DEF FallbackAttempts, Good, PolicyOK
<1>2. 1 \in 0..N2N_EDGE_SUP_ATTEMPTS
  BY CountAssumption
<1>3. Good([x EXCEPT !.sup_attempts = 1])
  BY <1>2 DEF Good, Edge, PolicyOK, SocketOK, StreamOK, KcpOK, UsesTcp
<1> QED
  BY <1>1, <1>3

\* A registration round ends with a registration that waits for its answer,
\* or with the fallback deferred on a UDP transport that is alive.
LEMMA UpdateGood ==
    ASSUME Context, NEW x, Good(x), NEW z \in update_supernode_reg(x)
    PROVE  Good(z) /\ Settled(z)
<1> DEFINE waiting == x.sn_wait # 0
<1>1. waiting \in BOOLEAN
  OBVIOUS
<1>2. PICK y \in FallbackAttempts(x) :
          \/ /\ y.sup_attempts > 0
             /\ z \in Register([y EXCEPT !.sup_attempts = @ - 1], waiting)
          \/ ~conf.connect_tcp /\ ~UsesTcp(y) /\ z = DeferFallback(y)
          \/ \E s \in edge_switch_to_tcp_supernode(y) :
                 \/ z \in Register(s, waiting)
                 \/ \E g \in GiveUp(s) : z \in Register(g, waiting)
  BY DEF update_supernode_reg
<1> HIDE DEF waiting
<1>3. Good(y)
  BY FallbackGood
<1>4. ASSUME z.sn_wait = 1
      PROVE  Settled(z)
  BY <1>4 DEF Settled, Retried
<1>5. CASE y.sup_attempts > 0 /\ z \in Register([y EXCEPT !.sup_attempts = @ - 1], waiting)
  <2>1. y.sup_attempts - 1 \in 0..N2N_EDGE_SUP_ATTEMPTS
    BY <1>3, <1>5, CountAssumption DEF Good, Edge
  <2>2. Good([y EXCEPT !.sup_attempts = @ - 1])
    BY <1>3, <2>1 DEF Good, Edge, PolicyOK, SocketOK, StreamOK, KcpOK, UsesTcp
  <2> QED
    BY <1>1, <1>4, <1>5, <2>2, RegisterGood
<1>6. CASE ~conf.connect_tcp /\ ~UsesTcp(y) /\ z = DeferFallback(y)
  <2> DEFINE d == [y EXCEPT !.sn_wait = 0, !.register_fast_retry_count = 0,
                            !.soft_retry_budget = 0]
  <2>1. 0 \in 0..3 /\ 0 \in 0..2 /\ 0 \in 0..N2N_TCP_REGISTER_SOFT_RETRIES
    BY CountAssumption
  <2>2. d \in Edge
    BY Zenon, <1>3, <2>1 DEF Good, Edge
  <2>3. /\ d.running = y.running /\ d.transport = y.transport /\ d.kcp = y.kcp
        /\ d.sock = y.sock /\ d.udp_sock = y.udp_sock /\ d.tcp_sock = y.tcp_sock
        /\ d.tcp_fallback_active = y.tcp_fallback_active
        /\ d.tcp_sticky_after_fallback = y.tcp_sticky_after_fallback
        /\ d.soft_retry_budget = 0
    BY Zenon, <1>3, CountAssumption DEF Good, Edge
  <2> HIDE DEF d
  <2>4. Good(d) /\ ~UsesTcp(d)
    BY <1>3, <1>6, <2>2, <2>3 DEF Good, PolicyOK, SocketOK, StreamOK, KcpOK, UsesTcp
  <2>5. Good(z) /\ Keeps(d, z)
    BY <1>6, <2>4, ResetAttempts DEF DeferFallback, d
  <2> QED
    BY <2>3, <2>4, <2>5 DEF Settled, Retried, UsesTcp, Keeps
<1>7. ASSUME NEW s \in edge_switch_to_tcp_supernode(y)
      PROVE  /\ z \in Register(s, waiting) => Good(z) /\ Settled(z)
             /\ \A g \in GiveUp(s) : z \in Register(g, waiting) => Good(z) /\ Settled(z)
  <2>1. Good(s)
    BY <1>3, Switch
  <2> QED
    BY <1>1, <1>4, <2>1, GiveUpGood, RegisterGood
<1> QED
  BY <1>2, <1>5, <1>6, <1>7

\* A dead control session ends in a registration round, over TCP or over a
\* new UDP socket.
LEMMA DeadGood ==
    ASSUME Context, NEW x, Good(x), NEW y \in edge_handle_dead_kcp_session(x)
    PROVE  Good(y) /\ (y = x \/ y.sn_wait = 2)
<1>1. CASE y = x
  BY <1>1
<1>2. ASSUME NEW s \in edge_switch_to_tcp_supernode(edge_reset_supernode_kcp_state(x))
      PROVE  /\ Good(s)
             /\ \A u \in edge_recycle_udp_supernode_socket(s) : Good(reset_sup_attempts(u))
  <2>1. Good(s)
    BY <1>2, ResetKcp, Switch DEF Good
  <2> QED
    BY <2>1, Recycle, ResetAttempts
<1>3. \/ y = x
      \/ \E s \in edge_switch_to_tcp_supernode(edge_reset_supernode_kcp_state(x)) :
            \/ y = [s EXCEPT !.sn_wait = 2]
            \/ \E u \in edge_recycle_udp_supernode_socket(s) :
                  y = [reset_sup_attempts(u) EXCEPT !.sn_wait = 2]
  BY DEF edge_handle_dead_kcp_session
<1>4. ASSUME NEW g, Good(g), y = [g EXCEPT !.sn_wait = 2]
      PROVE  Good(y) /\ y.sn_wait = 2
  <2>1. 2 \in 0..2
    OBVIOUS
  <2> QED
    BY Zenon, <1>4, <2>1, SetWait
<1> QED
  BY <1>1, <1>2, <1>3, <1>4

\* The periodic sort: a move registers with the new supernode at once.
LEMMA SortGood ==
    ASSUME Context, NEW x, Good(x), Settled(x), NEW head \in Supernode,
           NEW z \in sort_supernodes(x, head)
    PROVE  Good(z) /\ Settled(z)
<1> DEFINE Move(u) == reset_sup_attempts([u EXCEPT !.curr_sn = head])
           moved == UNION {UNION {{[r EXCEPT !.sn_wait = 1] : r \in send_register_super(c)} :
                                      c \in supernode_connect(Move(u))} :
                               u \in send_control(x)}
           sorted == IF head = x.curr_sn THEN {x} ELSE moved
<1>0. PICK y \in sorted : z = y \/ z \in send_control(y)
  BY Zenon, Zenon DEF sort_supernodes
<1>1. \/ y = x
      \/ \E u \in send_control(x) : \E c \in supernode_connect(Move(u)) :
            \E r \in send_register_super(c) : y = [r EXCEPT !.sn_wait = 1]
  BY <1>0
<1> HIDE DEF sorted
<1>2. Good(y) /\ Settled(y)
  <2>1. ASSUME NEW u \in send_control(x), NEW c \in supernode_connect(Move(u)),
               NEW r \in send_register_super(c), y = [r EXCEPT !.sn_wait = 1]
        PROVE  Good(y) /\ Settled(y)
    <3>1. Good(u)
      BY Zenon, <2>1, Sendto DEF send_control
    <3>2. Good(Move(u))
      BY <3>1, MoveTo
    <3> HIDE DEF Move
    <3>3. Good(c)
      BY <3>2, Connect
    <3>4. Good(r)
      BY <3>3, SendRegister
    <3>5. 1 \in 0..2
      OBVIOUS
    <3>6. Good(y) /\ y.sn_wait = 1
      BY Zenon, <2>1, <3>4, <3>5, SetWait
    <3> QED
      BY <3>6 DEF Settled, Retried
  <2> QED
    BY Zenon, <1>1, <2>1
<1>3. CASE z = y
  BY <1>2, <1>3
<1>4. CASE z \in send_control(y)
  <2>1. Good(z) /\ (z.sn_wait # 0 \/ (Keeps(y, z) /\ z.tcp_sock = y.tcp_sock))
    BY Zenon, <1>2, <1>4, Sendto DEF send_control
  <2> QED
    BY Zenon, <1>2, <2>1, StaysSettled DEF Good
<1> QED
  BY <1>0, <1>3, <1>4

\* An acknowledgement, on whatever transport it came, ends the round; the
\* stream it came on, or the UDP socket, is open.
LEMMA AckGood ==
    ASSUME Context, NEW x, Good(x), Settled(x), ~(UsesTcp(x) /\ x.tcp_sock = NoSn),
           NEW via
    PROVE  LET y == REGISTER_SUPER_ACK(x, via) IN Good(y) /\ Settled(y)
<1> DEFINE y == REGISTER_SUPER_ACK(x, via)
           c == [x EXCEPT !.close_socket_counter = 0]
           b == (c.udp_recent \/ via = "UDP")
           a == [c EXCEPT !.sn_wait = 0, !.register_fast_retry_count = 0,
                          !.soft_retry_budget = 0, !.udp_recent = b]
<1>1. CASE x.sn_wait = 0
  BY <1>1 DEF REGISTER_SUPER_ACK
<1>2. CASE x.sn_wait # 0
  <2>1. Good(c) /\ c.transport = x.transport /\ c.tcp_sock = x.tcp_sock
    BY DEF Good, Edge, PolicyOK, SocketOK, StreamOK, KcpOK, UsesTcp
  <2>2. edge_mark_udp_recovered(c) = c
    BY <2>1 DEF edge_mark_udp_recovered, Good, PolicyOK
  <2>3. y = reset_sup_attempts(a)
    BY Zenon, <1>2, <2>2 DEF REGISTER_SUPER_ACK
  <2> HIDE DEF c, y
  <2>4. 0 \in 0..3 /\ 0 \in 0..2 /\ 0 \in 0..N2N_TCP_REGISTER_SOFT_RETRIES
    BY CountAssumption
  <2>5. b \in BOOLEAN
    BY <2>1 DEF Good, Edge
  <2> HIDE DEF b
  <2>6. a \in Edge
    BY Zenon, <2>1, <2>4, <2>5 DEF Good, Edge
  <2>7. /\ a.running = c.running /\ a.transport = c.transport /\ a.kcp = c.kcp
        /\ a.sock = c.sock /\ a.udp_sock = c.udp_sock /\ a.tcp_sock = c.tcp_sock
        /\ a.tcp_fallback_active = c.tcp_fallback_active
        /\ a.tcp_sticky_after_fallback = c.tcp_sticky_after_fallback
        /\ a.soft_retry_budget = 0
    BY Zenon, <2>1, CountAssumption DEF Good, Edge
  <2> HIDE DEF a
  <2>8. Good(a)
    BY <2>1, <2>6, <2>7 DEF Good, PolicyOK, SocketOK, StreamOK, KcpOK, UsesTcp
  <2>9. Good(y) /\ Keeps(a, y) /\ y.tcp_sock = a.tcp_sock
    BY <2>3, <2>8, ResetAttempts
  <2>10. Settled(y)
    BY <2>1, <2>7, <2>9 DEF Settled, Retried, UsesTcp, Keeps
  <2> QED
    BY <2>9, <2>10 DEF y
<1> QED
  BY <1>1, <1>2

\* The messages of process_udp, and what the edge sends in reply.
LEMMA ProcessGood ==
    ASSUME Context, NEW x, Good(x), Settled(x), ~(UsesTcp(x) /\ x.tcp_sock = NoSn),
           NEW msg \in Msg, NEW via, NEW z \in process_udp(x, msg, via)
    PROVE  Good(z) /\ Settled(z)
<1> DEFINE b == (x.udp_recent \/ via = "UDP")
<1>1. ASSUME NEW y, z \in Replies(y, msg), Good(y), Settled(y)
      PROVE  Good(z) /\ Settled(z)
  <2>1. z = y \/ z \in Sends(y) \/ z \in send_peer(y)
    BY <1>1 DEF Replies, Msg
  <2> QED
    BY <1>1, <2>1, SendsGood
<1>2. CASE msg = "ack"
  <2>1. z \in Replies(REGISTER_SUPER_ACK(x, via), msg)
    BY <1>2 DEF process_udp
  <2> QED
    BY <1>1, <2>1, AckGood
<1>3. CASE msg = "info"
  <2> DEFINE y == PEER_INFO(x, via)
  <2>1. y = [x EXCEPT !.udp_recent = b] /\ b \in BOOLEAN
    BY DEF PEER_INFO, Good, Edge
  <2>2. z \in Replies(y, msg)
    BY <1>3 DEF process_udp
  <2> HIDE DEF b, y
  <2>3. Good(y) /\ Keeps(x, y) /\ y.tcp_sock = x.tcp_sock
    BY <2>1 DEF Good, Edge, PolicyOK, SocketOK, StreamOK, KcpOK, UsesTcp, Keeps
  <2> QED
    BY Zenon, <1>1, <2>2, <2>3, StaysSettled DEF Good
<1>4. CASE msg = "reregister"
  <2> DEFINE y == RE_REGISTER_SUPER(x)
  <2>1. y = x \/ y = [x EXCEPT !.sn_wait = 2]
    BY DEF RE_REGISTER_SUPER
  <2>2. 2 \in 0..2
    OBVIOUS
  <2>3. z \in Replies(y, msg)
    BY <1>4 DEF process_udp
  <2> HIDE DEF y
  <2>4. ASSUME y = [x EXCEPT !.sn_wait = 2]
        PROVE  Good(y) /\ Settled(y)
    <3>1. Good(y) /\ y.sn_wait = 2
      BY Zenon, <2>2, <2>4, SetWait
    <3> QED
      BY <3>1 DEF Settled, Retried
  <2> QED
    BY <1>1, <2>1, <2>3, <2>4
<1>5. CASE msg = "other"
  <2>1. z \in Replies(x, msg)
    BY <1>5 DEF process_udp
  <2> QED
    BY <1>1, <2>1
<1> QED
  BY <1>2, <1>3, <1>4, <1>5 DEF Msg

\* A broken TCP stream, and one that announced too large a frame.
LEMMA TcpLostGood ==
    ASSUME Context, NEW x, Good(x)
    PROVE  /\ Good(TcpClosed(x)) /\ TcpClosed(x).sn_wait = 1
           /\ Good(TcpOversize(x)) /\ TcpOversize(x).sn_wait = 1
<1>0. 1 \in 0..2
  OBVIOUS
<1>1. Good(TcpClosed(x)) /\ TcpClosed(x).sn_wait = 1
  <2> DEFINE d == supernode_disconnect_tcp(x)
             r == edge_release_tcp_sticky_after_disconnect(d)
             w == [r EXCEPT !.sn_wait = 1]
  <2>1. Good(d) /\ d.tcp_sock = NoSn
    BY DisconnectTcp
  <2> HIDE DEF d
  <2>2. Good(r)
    BY <2>1, Release
  <2> HIDE DEF r
  <2>3. Good(w) /\ w.sn_wait = 1
    BY Zenon, <1>0, <2>2, SetWait
  <2> HIDE DEF w
  <2>4. Good(edge_sync_active_socket(w)) /\ Keeps(w, edge_sync_active_socket(w))
    BY <2>3, Sync DEF Good
  <2> QED
    BY <2>3, <2>4 DEF Keeps, TcpClosed, w, r, d
<1>2. Good(TcpOversize(x)) /\ TcpOversize(x).sn_wait = 1
  <2> DEFINE d == supernode_disconnect(x)
             r == edge_release_tcp_sticky_after_disconnect(d)
             p == IF conf.connect_tcp THEN "start" ELSE "mid"
             w == [r EXCEPT !.sn_wait = 1, !.rx = p]
  <2>1. Good(d) /\ d.tcp_sock = NoSn
    BY Zenon, Disconnect
  <2> HIDE DEF d
  <2>2. Good(r)
    BY <2>1, Release
  <2> HIDE DEF r
  <2>3. p \in {"start", "mid", "skewed"}
    OBVIOUS
  <2> HIDE DEF p
  <2>4. Good(w) /\ w.sn_wait = 1
    <3>1. w \in Edge /\ w.sn_wait = 1
      BY Zenon, <1>0, <2>2, <2>3 DEF Good, Edge
    <3>2. /\ w.running = r.running /\ w.transport = r.transport /\ w.kcp = r.kcp
          /\ w.sock = r.sock /\ w.udp_sock = r.udp_sock /\ w.tcp_sock = r.tcp_sock
          /\ w.tcp_fallback_active = r.tcp_fallback_active
          /\ w.tcp_sticky_after_fallback = r.tcp_sticky_after_fallback
          /\ w.soft_retry_budget = r.soft_retry_budget
      BY Zenon, <2>2 DEF Good, Edge
    <3> HIDE DEF w
    <3> QED
      BY <2>2, <3>1, <3>2 DEF Good, PolicyOK, SocketOK, StreamOK, KcpOK, UsesTcp
  <2> QED
    BY <2>4 DEF TcpOversize, d, r, p, w
<1> QED
  BY <1>1, <1>2

----------------------------------------------------------------------------
\* The inductive invariant: the properties together, for a stopped edge too.
IInv == /\ TypeOK /\ PolicyOK(e) /\ SocketOK(e) /\ StreamOK(e) /\ KcpOK(e)
        /\ Retried(e) /\ SoftOK(e)

\* For a running edge it is what the lemmas on the handlers are about.
LEMMA Running ==
    ASSUME conf \in Confs, env \in Envs
    PROVE  /\ IInv /\ e.running => Good(e) /\ Settled(e)
           /\ Good(e) /\ Settled(e) => IInv
BY DEF IInv, TypeOK, Good, Settled, SoftOK

LEMMA RunningNext ==
    ASSUME IInv, UNCHANGED <<conf, env>>, Good(e') /\ Settled(e')
    PROVE  IInv'
BY DEF IInv, TypeOK, Good, Settled, SoftOK, PolicyOK, SocketOK, StreamOK, KcpOK, Retried, UsesTcp

\* The state the bootstrap hands to run_edge_loop is good.
LEMMA BootstrapGood ==
    ASSUME Context, NEW s \in Supernode, NEW x \in Bootstrap(s)
    PROVE  Good(x)
<1> DEFINE start == [transport |-> IF conf.connect_tcp THEN "TCP" ELSE "UDP",
                     udp_sock |-> FALSE, tcp_sock |-> NoSn, sock |-> "none",
                     curr_sn |-> s, kcp |-> NoKcp,
                     tcp_fallback_active |-> FALSE, tcp_sticky_after_fallback |-> FALSE,
                     soft_retry_budget |-> 0, sn_wait |-> 1,
                     sup_attempts |-> N2N_EDGE_SUP_ATTEMPTS,
                     register_fast_retry_count |-> 0, close_socket_counter |-> 0,
                     udp_recent |-> FALSE, rx |-> "start", asked |-> {}, running |-> TRUE]
           connected == supernode_connect(start)
           fallback == UNION {edge_switch_to_tcp_supernode(c) : c \in connected}
<1>0. /\ 0 \in 0..3 /\ 1 \in 0..2 /\ 0 \in 0..N2N_TCP_REGISTER_SOFT_RETRIES
      /\ N2N_EDGE_SUP_ATTEMPTS \in 0..N2N_EDGE_SUP_ATTEMPTS /\ 0 \in Nat
  BY CountAssumption
<1>1. Good(start)
  <2>1. start \in Edge
    BY <1>0, NoKcpType DEF Edge
  <2>2. /\ start.running /\ start.soft_retry_budget = 0 /\ start.kcp.state = "none"
        /\ start.sock = "none" /\ ~start.udp_sock /\ start.tcp_sock = NoSn
        /\ ~start.tcp_fallback_active /\ ~start.tcp_sticky_after_fallback
        /\ (start.transport = "TCP") = conf.connect_tcp
    BY NoKcpType, ConfFacts
  <2> HIDE DEF start
  <2> QED
    BY <2>1, <2>2, ConfFacts DEF Good, PolicyOK, SocketOK, StreamOK, KcpOK, UsesTcp, Edge
<1> HIDE DEF start
<1>2. PICK g \in connected \cup fallback :
          x = [g EXCEPT !.sn_wait = 1, !.register_fast_retry_count = 0,
                        !.soft_retry_budget = 0]
  BY DEF Bootstrap, start
<1>3. Good(g)
  <2>1. \A c \in connected : Good(c)
    BY <1>1, Connect
  <2> HIDE DEF connected
  <2> QED
    BY <1>2, <2>1, Switch
<1> HIDE DEF connected, fallback
<1>4. x \in Edge
  BY Zenon, <1>0, <1>2, <1>3 DEF Good, Edge
<1>5. /\ x.running = g.running /\ x.transport = g.transport /\ x.kcp = g.kcp
      /\ x.sock = g.sock /\ x.udp_sock = g.udp_sock /\ x.tcp_sock = g.tcp_sock
      /\ x.tcp_fallback_active = g.tcp_fallback_active
      /\ x.tcp_sticky_after_fallback = g.tcp_sticky_after_fallback
      /\ x.soft_retry_budget = 0
  BY Zenon, <1>2, <1>3 DEF Good, Edge
<1> QED
  BY <1>3, <1>4, <1>5 DEF Good, PolicyOK, SocketOK, StreamOK, KcpOK, UsesTcp

\* The first registration of run_edge_loop establishes the invariant.
LEMMA InitInv == Init => IInv
<1> SUFFICES ASSUME Init PROVE IInv
  OBVIOUS
<1>1. Context
  BY DEF Init, Context
<1>2. PICK s \in Supernode : \E x \in Bootstrap(s) : e \in update_supernode_reg(x)
  BY DEF Init
<1>3. PICK x \in Bootstrap(s) : e \in update_supernode_reg(x)
  BY <1>2
<1> QED
  BY <1>1, <1>3, BootstrapGood, UpdateGood, Running DEF Context

\* A field outside the invariant changes.
LEMMA Quiet ==
    ASSUME IInv, UdpQuiet \/ KcpQuiet
    PROVE  IInv'
<1> DEFINE k == [e.kcp EXCEPT !.recent = FALSE]
<1>k. k \in Kcp /\ k.state = e.kcp.state
  BY Zenon, Zenon DEF IInv, TypeOK, Edge, Kcp
<1>1. /\ e' \in Edge /\ conf' = conf /\ env' = env
      /\ e'.running = e.running /\ e'.transport = e.transport /\ e'.kcp.state = e.kcp.state
      /\ e'.sock = e.sock /\ e'.udp_sock = e.udp_sock /\ e'.tcp_sock = e.tcp_sock
      /\ Keeps(e, e')
  <2>1. CASE UdpQuiet
    BY Zenon, <2>1 DEF IInv, TypeOK, UdpQuiet, Edge, Keeps
  <2>2. CASE KcpQuiet
    <3>1. e' = [e EXCEPT !.kcp = k] /\ UNCHANGED <<conf, env>>
      BY <2>2 DEF KcpQuiet
    <3> HIDE DEF k
    <3> QED
      BY <1>k, <3>1 DEF IInv, TypeOK, Edge, Keeps
  <2> QED
    BY <2>1, <2>2
<1> QED
  BY <1>1 DEF IInv, TypeOK, PolicyOK, SocketOK, StreamOK, KcpOK, Retried, SoftOK, UsesTcp, Keeps

\* Every step keeps the invariant.
LEMMA NextInv == IInv /\ [Next]_vars => IInv'
<1> SUFFICES ASSUME IInv, [Next]_vars PROVE IInv'
  OBVIOUS
<1>c. Context
  BY DEF IInv, TypeOK, Context
<1>g. e.running => Good(e) /\ Settled(e)
  BY Running DEF IInv, TypeOK
<1>s. ASSUME NEW y, Good(y), y.sn_wait # 0
      PROVE  Settled(y)
  BY <1>s DEF Settled, Retried
<1>1. CASE UpdateSupernodeReg
  BY <1>c, <1>g, <1>1, UpdateGood, RunningNext DEF UpdateSupernodeReg
<1>2. CASE SortSupernodes
  BY <1>c, <1>g, <1>2, SortGood, RunningNext DEF SortSupernodes
<1>3. CASE KcpDead
  <2> DEFINE x == [e EXCEPT !.kcp.state = "dead"]
  <2>1. Good(x) /\ Keeps(e, x) /\ x.tcp_sock = e.tcp_sock
    BY <1>g, <1>3
       DEF KcpDead, Good, Edge, Kcp, PolicyOK, SocketOK, StreamOK, KcpOK, UsesTcp, Keeps
  <2>2. e' \in edge_handle_dead_kcp_session(x) /\ UNCHANGED <<conf, env>>
    BY <1>3 DEF KcpDead
  <2>3. Settled(x)
    BY Zenon, <1>g, <1>3, <2>1, StaysSettled DEF KcpDead, Good
  <2> HIDE DEF x
  <2>4. Good(e') /\ (e' = x \/ e'.sn_wait = 2)
    BY <1>c, <2>1, <2>2, DeadGood
  <2> QED
    BY <1>s, <2>2, <2>3, <2>4, RunningNext
<1>4. CASE SendPacket
  <2>1. e.running /\ UNCHANGED <<conf, env>> /\ (e' = e \/ e' \in Sends(e))
    BY <1>4 DEF SendPacket, send_packet
  <2>2. Good(e') /\ Settled(e')
    BY <1>c, <1>g, <2>1, SendsGood
  <2> QED
    BY <2>1, <2>2, RunningNext
<1>5. ASSUME NEW msg \in Msg, RxUdp(msg)
      PROVE  IInv'
  <2>1. e.running /\ ~UsesTcp(e)
    BY <1>5 DEF RxUdp, Readable, IInv, SocketOK
  <2> QED
    BY <1>c, <1>g, <1>5, <2>1, ProcessGood, RunningNext DEF RxUdp
<1>6. ASSUME NEW msg \in Msg, RxKcp(msg)
      PROVE  IInv'
  <2> DEFINE n == IF e.kcp.confirmed THEN e.kcp.rx ELSE e.kcp.rx + 1
             i == n2n_kcp_edge_input(e)
  <2>1. e.running /\ ~UsesTcp(e) /\ e.kcp.state # "none"
    BY <1>6 DEF RxKcp, Readable, IInv, SocketOK
  <2>2. e.kcp \in Kcp
    BY DEF IInv, TypeOK, Edge
  <2>3. /\ n \in 0..2
        /\ (e.kcp.confirmed \/ n >= 2) <=> n = 2
    BY <2>2 DEF Kcp
  <2> DEFINE k == [e.kcp EXCEPT !.rx = n, !.confirmed = @ \/ n >= 2, !.recent = TRUE]
  <2>4. i = [e EXCEPT !.kcp = k]
    BY Zenon, Zenon DEF n2n_kcp_edge_input, IInv, TypeOK, Edge
  <2>5. k \in Kcp /\ k.state = e.kcp.state
    BY Zenon, <2>2, <2>3 DEF Kcp
  <2> HIDE DEF n, k
  <2>6. Good(i) /\ Keeps(e, i) /\ i.tcp_sock = e.tcp_sock
    BY <1>g, <2>1, <2>4, <2>5 DEF Good, Edge, PolicyOK, SocketOK, StreamOK, KcpOK, UsesTcp, Keeps
  <2>7. edge_mark_udp_recovered(i) = i
    BY <2>6 DEF edge_mark_udp_recovered, Good, PolicyOK
  <2>8. e' \in process_udp(i, msg, "KCP") /\ UNCHANGED <<conf, env>>
    BY <1>6, <2>7 DEF RxKcp
  <2> HIDE DEF i
  <2>9. Settled(i) /\ ~UsesTcp(i)
    BY Zenon, <1>g, <2>1, <2>6, StaysSettled DEF Good, UsesTcp, Keeps
  <2> QED
    BY <1>c, <2>6, <2>8, <2>9, ProcessGood, RunningNext
<1>7. ASSUME NEW msg \in Msg, RxTcpFrame(msg)
      PROVE  IInv'
  <2>1. e.running /\ ~(UsesTcp(e) /\ e.tcp_sock = NoSn)
    BY <1>7 DEF RxTcpFrame, Readable, IInv, SocketOK
  <2>2. PICK p \in process_udp(e, msg, "TCP") : e' = [p EXCEPT !.rx = "start"]
    BY <1>7 DEF RxTcpFrame
  <2>3. Good(p) /\ Settled(p) /\ UNCHANGED <<conf, env>>
    BY <1>c, <1>g, <1>7, <2>1, ProcessGood DEF RxTcpFrame
  <2>4. Good(e') /\ Keeps(p, e') /\ e'.tcp_sock = p.tcp_sock
    BY <2>2, <2>3 DEF Good, Edge, PolicyOK, SocketOK, StreamOK, KcpOK, UsesTcp, Keeps
  <2> QED
    BY Zenon, <2>2, <2>3, <2>4, StaysSettled, RunningNext DEF Good
<1>8. CASE RxTcpPart \/ RxTcpSkewed \/ Resolved
  <2>1. e.running /\ UNCHANGED <<conf, env>>
    BY <1>8 DEF RxTcpPart, RxTcpSkewed, Resolved, Readable
  <2>2. /\ Good(e') /\ e'.tcp_sock = e.tcp_sock /\ e'.sn_wait = e.sn_wait
        /\ e'.transport = e.transport /\ e'.soft_retry_budget = e.soft_retry_budget
    BY <1>g, <1>8, <2>1
       DEF RxTcpPart, RxTcpSkewed, Resolved, Good, Edge, PolicyOK, SocketOK, StreamOK, KcpOK, UsesTcp
  <2>3. Settled(e')
    BY <1>g, <2>1, <2>2 DEF Settled, Retried, UsesTcp
  <2> QED
    BY <2>1, <2>2, <2>3, RunningNext
<1>9. CASE RxTcpOversize \/ RxTcpClosed
  <2>1. /\ e.running /\ UNCHANGED <<conf, env>>
        /\ e' = TcpOversize(e) \/ e' = TcpClosed(e)
    BY Zenon, <1>9 DEF RxTcpOversize, RxTcpClosed, Readable
  <2>2. Good(e') /\ e'.sn_wait = 1
    BY <1>c, <1>g, <2>1, TcpLostGood
  <2> QED
    BY <1>s, <2>1, <2>2, RunningNext
<1>10. CASE Stop
  <2>1. PICK u \in send_control(e) :
            e.running /\ e' = [supernode_disconnect(u) EXCEPT !.running = FALSE]
    BY Zenon, <1>10 DEF Stop
  <2>2. Good(u) /\ Settled(u)
    BY Zenon, <1>c, <1>g, <2>1, Sendto, StaysSettled DEF send_control, Good
  <2> DEFINE d == supernode_disconnect(u)
  <2>3. /\ Good(d) /\ d.tcp_sock = NoSn /\ d.udp_sock = FALSE /\ d.sock = "none"
        /\ Keeps(u, d)
    BY Zenon, <2>2, Disconnect
  <2> HIDE DEF d
  <2>4. /\ e' \in Edge /\ e'.running = FALSE /\ e'.sock = "none" /\ e'.kcp = d.kcp
        /\ e'.udp_sock = FALSE /\ e'.tcp_sock = NoSn /\ Keeps(d, e')
    BY ZenonT(40), <2>1, <2>3 DEF Good, Edge, Keeps, d
  <2>5. UNCHANGED <<conf, env>>
    BY <1>10 DEF Stop
  <2> QED
    BY <1>c, <2>2, <2>3, <2>4, <2>5
       DEF IInv, TypeOK, Context, Good, Settled, PolicyOK, SocketOK, StreamOK, KcpOK, Retried, SoftOK,
           UsesTcp, Keeps
<1>11. CASE UNCHANGED vars
  BY <1>11 DEF vars, IInv, TypeOK, PolicyOK, SocketOK, StreamOK, KcpOK, Retried, SoftOK, UsesTcp
<1>12. CASE UdpQuiet \/ KcpQuiet
  BY <1>12, Quiet
<1> QED
  BY <1>1, <1>2, <1>3, <1>4, <1>5, <1>6, <1>7, <1>8, <1>9, <1>10, <1>11, <1>12 DEF Next

----------------------------------------------------------------------------
\* The invariant holds in every reachable state.
LEMMA Invariance == Spec => []IInv
BY InitInv, NextInv, PTL DEF Spec

\* Types of all variables.
THEOREM TypeCorrect == Spec => []TypeOK
<1>1. IInv => TypeOK
  BY DEF IInv
<1> QED
  BY <1>1, Invariance, PTL

\* TCP is used exactly when -S2 forces it or a sticky fallback is in force:
\* edge_switch_to_tcp_supernode and edge_release_tcp_sticky_after_disconnect
\* always change transport and flags together, on every path that calls them.
THEOREM FallbackCorrect == Spec => []FallbackFollowsPolicy
<1>1. IInv => FallbackFollowsPolicy
  BY DEF IInv, FallbackFollowsPolicy
<1> QED
  BY <1>1, Invariance, PTL

\* eee->sock is the open socket of the active transport whenever there is
\* one, and the control KCP session never outlives the UDP socket it runs on.
THEOREM SocketsCorrect == Spec => []SocketsMatch
<1>1. IInv => SocketsMatch
  BY DEF IInv, SocketsMatch
<1> QED
  BY <1>1, Invariance, PTL

\* While the TCP stream in use is down a registration round is in progress, so
\* that update_supernode_reg reopens it; and the soft retry budget of sendto_fd
\* is only left over while a fallback waits for its first answer.
THEOREM RetriesCorrect == Spec => []RetriesMatch
<1>1. IInv => RetriesMatch
  BY DEF IInv, RetriesMatch
<1> QED
  BY <1>1, Invariance, PTL

\* n2n.h: "whether TCP fallback should remain active until TCP disconnects":
\* no step of any handler ends a fallback and leaves its stream open.
THEOREM StickyCorrect == Spec => StickyUntilTcpLost
<1>1. IInv /\ IInv' /\ [Next]_vars => [StickyStep]_vars
  <2> SUFFICES ASSUME IInv, IInv', [Next]_vars, ~UNCHANGED vars PROVE StickyStep
    OBVIOUS
  <2> SUFFICES ASSUME e.tcp_fallback_active, ~e'.tcp_fallback_active PROVE e'.tcp_sock = NoSn
    BY DEF StickyStep
  <2>1. ~conf.connect_tcp
    BY ConfFacts DEF IInv, TypeOK, Context, PolicyOK
  <2>2. conf' = conf
    BY Zenon, Zenon DEF Next, UpdateSupernodeReg, SortSupernodes, KcpDead, SendPacket, RxUdp, RxKcp, RxTcpFrame,
           RxTcpPart, RxTcpSkewed, RxTcpOversize, RxTcpClosed, Resolved, UdpQuiet, KcpQuiet, Stop, vars
  <2> QED
    BY <2>1, <2>2 DEF IInv, PolicyOK, StreamOK
<1> QED
  BY <1>1, Invariance, PTL DEF Spec, StickyUntilTcpLost

=============================================================================
