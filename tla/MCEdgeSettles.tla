--------------------------- MODULE MCEdgeSettles ----------------------------
(***************************************************************************)
(* What becomes right again at an edge after something has changed, in     *)
(* three components side by side for TLC.  A behaviour belongs to one of   *)
(* the scenes, that is to one component with the values below for its      *)
(* constants, and only that component moves; its variables are the first   *)
(* ones of v1, v2, ...                                                     *)
(***************************************************************************)
EXTENDS Integers, Sequences, FiniteSets

CONSTANTS m1, s1, s2, SnSock, Localhost, NoSock,   \* EdgePeers
          e1, e2, h1, h2, h4, Everyone, Group,     \* EdgeBridge
          a1, a2,                                  \* KcpBridge
          Off                                      \* an unused variable

VARIABLES scene, v1, v2, v3, v4, v5, v6, v7, v8, v9, v10, v11, v12

from9 == <<v9, v10, v11, v12>>
mcvars == <<scene, v1, v2, v3, v4, v5, v6, v7, v8, from9>>

Off9 == v9 = Off /\ v10 = Off /\ v11 = Off /\ v12 = Off

-----------------------------------------------------------------------------
(* EdgePeers: one peer that moves between two sockets.                     *)

Peers == INSTANCE EdgePeers WITH
    Mac <- {m1}, Sock <- {s1, s2}, Predicted <- [s \in {s1, s2, SnSock, Localhost, NoSock} |-> {s}],
    RegisterTtl <- 0, Multicast <- FALSE, Refresh <- 1, Quarter <- 1, Interval <- 1, Expire <- 1,
    Cookies <- {3}, MaxMoves <- 1, MaxMacs <- 0,
    known <- v1, pending <- v2, snWait <- v3, acks <- v4, infos <- v5, home <- v6, pub <- v7,
    pref <- v8, moves <- v9, macs <- v10, acked <- v11, told <- v12

\* It starts at one of them, which its supernode sees, or sees as its own host.
AtFirst == v6[m1] = {s1} /\ v8[m1] = NoSock /\ v7[m1] \in {s1, Localhost}

(* EdgeBridge: two edges and a host that moves between them once.          *)

Bridge == INSTANCE EdgeBridge WITH
    Edge <- {e1, e2}, Host <- {h1, h2, h4}, Device <- [e \in {e1, e2} |-> IF e = e1 THEN h1 ELSE h2],
    Routing <- {e1, e2}, NoMulticast <- {}, Transop <- [e \in {e1, e2} |-> "aes"],
    HOSTINFO_TIMEOUT <- 1, SWEEP_TIME <- 1, Talking <- {h1, h4}, Destinations <- {h1, h4, Everyone},
    Ip <- {TRUE}, Mobile <- {h4}, MaxFrames <- 2, MaxMoves <- 1,
    at <- v1, known <- v2, silent <- v3, swept <- v4, net <- v5, got <- v6, calm <- v7, moves <- v8

(* KcpBridge: an edge that is seen at a second address, a supernode that   *)
(* restarts or forgets the session; or an edge with a fixed port, one such *)
(* fault and one stray datagram.                                           *)

Kcp == INSTANCE KcpBridge WITH
    Addr <- {a1, a2}, Wnd <- 2, DeadLink <- 3, Attempts <- 1, CloseMax <- 2, MaxBefore <- 2,
    FixedPort <- FALSE, MaxSn <- 6, MaxFault <- 1, MaxStray <- 0,
    e <- v1, sn <- v2, net <- v3, late <- v4, heard <- v5, asked <- v6, faults <- v7, strays <- v8

Late == INSTANCE KcpBridge WITH
    Addr <- {a1}, Wnd <- 2, DeadLink <- 3, Attempts <- 1, CloseMax <- 2, MaxBefore <- 2,
    FixedPort <- TRUE, MaxSn <- 6, MaxFault <- 1, MaxStray <- 1,
    e <- v1, sn <- v2, net <- v3, late <- v4, heard <- v5, asked <- v6, faults <- v7, strays <- v8

ASSUME EdgeSettlesConstants ==
    /\ Peers!AgesOrdered /\ Bridge!EdgeBridgeAssumption
    /\ Kcp!BoundAssumption /\ Late!BoundAssumption

-----------------------------------------------------------------------------
MCInit ==
    \/ scene = "peers" /\ Peers!Init /\ AtFirst
    \/ scene = "bridge" /\ Bridge!Init /\ Off9
    \/ scene = "kcp" /\ Kcp!Init /\ Off9
    \/ scene = "late" /\ Late!Init /\ Off9

\* a step of the component in its scene
PeersStep(A) == scene = "peers" /\ A /\ UNCHANGED scene
BridgeStep(A) == scene = "bridge" /\ A /\ UNCHANGED <<scene, from9>>
KcpStep(A) == scene = "kcp" /\ A /\ UNCHANGED <<scene, from9>>
LateStep(A) == scene = "late" /\ A /\ UNCHANGED <<scene, from9>>

\* The messages of a KCP session are bounded.
Rests == scene \in {"kcp", "late"} /\ UNCHANGED mcvars

MCNext ==
    \/ scene = "peers" /\ Peers!Next /\ UNCHANGED scene
    \/ scene = "bridge" /\ Bridge!Next /\ UNCHANGED <<scene, from9>>
    \/ scene = "kcp" /\ Kcp!Next /\ UNCHANGED <<scene, from9>>
    \/ scene = "late" /\ Late!Next /\ UNCHANGED <<scene, from9>>
    \/ Rests

\* The fairness of each component, in its scene: a scene never changes, so
\* the fairness of several actions of different scenes can be stated as one.
MCFairness ==
    /\ WF_mcvars(\/ PeersStep(Peers!Tick) \/ BridgeStep(Bridge!RunLoop)
                 \/ KcpStep(Kcp!update_supernode_reg) \/ LateStep(Late!update_supernode_reg))
    /\ WF_mcvars(\/ PeersStep(Peers!SendPacket(m1)) \/ BridgeStep(Bridge!Arrives(0))
                 \/ KcpStep(Kcp!Receive) \/ LateStep(Late!Receive))
    /\ WF_mcvars(\/ BridgeStep(Bridge!Arrives(1))
                 \/ KcpStep(Kcp!n2n_kcp_edge_update) \/ LateStep(Late!n2n_kcp_edge_update))
    /\ WF_mcvars(KcpStep(Kcp!n2n_kcp_sn_update(a1)) \/ LateStep(Late!n2n_kcp_sn_update(a1)))
    /\ WF_mcvars(KcpStep(Kcp!n2n_kcp_sn_update(a2)))

MCSpec == MCInit /\ [][MCNext]_mcvars /\ MCFairness

-----------------------------------------------------------------------------
(* What is checked, of every component in its scenes.                      *)

\* EdgePeers: packets do not go on for ever to a socket the peer has left.
StaleForgotten == []<>(scene = "peers" => Peers!NotStale(m1))

\* EdgeBridge: after a host has been plugged in elsewhere every edge comes to
\* look for it there, or not at all.
Settles ==
    \A e \in {e1, e2}, h \in {h1, h2, h4} : <>[](scene = "bridge" => Bridge!LooksThere(e, h))

\* KcpBridge: control messages stop being mirrored only for a session that the
\* supernode has had; a supernode that restarted, or sees the edge at another address,
\* hears a registration from there in the end; a registration is answered in
\* the end; and the session of an address the edge has left is forgotten.
Unheard == scene \in {"kcp", "late"} /\ ~v5
Asking == scene \in {"kcp", "late"} /\ v6
Left(x) == scene = "kcp" /\ Kcp!LeftBehind(x)
SessionRecovers ==
    /\ []((scene = "kcp" => Kcp!TypeOK /\ Kcp!ConfirmedKnown) /\ (scene = "late" => Late!ConfirmedKnown))
    /\ Unheard ~> ~Unheard
    /\ Asking ~> ~Asking
    /\ \A x \in {a1, a2} : Left(x) ~> ~Left(x)

=============================================================================
