------------------------------- MODULE MCEdge -------------------------------
(***************************************************************************)
(* The tables and the clocks of an edge, checked side by side for TLC.  A  *)
(* behaviour belongs to one of the scenes, that is to one component with   *)
(* the values below for its constants, and only that component moves; its  *)
(* variables are the first ones of v1, v2, ...                             *)
(***************************************************************************)
EXTENDS Integers, Sequences, FiniteSets, TLC

CONSTANTS s1, s2, m1, m2, SnSock, Localhost, NoSock,       \* EdgePeers
          e1, e2, e3, h1, h2, h3, h4, Everyone, Group,     \* EdgeBridge
          i1, i2, i3, own, Broadcast, NoIp,                \* WintunIo
          Off                                              \* an unused variable

VARIABLES scene, v1, v2, v3, v4, v5, v6, v7, v8, v9, v10, v11, v12

slots == <<v1, v2, v3, v4, v5, v6, v7, v8, v9, v10, v11, v12>>
mcvars == <<scene, slots>>

Off6to8 == v6 = Off /\ v7 = Off /\ v8 = Off
Off9to12 == v9 = Off /\ v10 = Off /\ v11 = Off /\ v12 = Off

-----------------------------------------------------------------------------
(* EdgePeers: one peer that moves between two sockets, and two peers that  *)
(* exchange MAC addresses.  Port prediction reaches the socket itself.     *)

Peers == INSTANCE EdgePeers WITH
    Mac <- {m1}, Sock <- {s1, s2}, Predicted <- [s \in {s1, s2, SnSock, Localhost, NoSock} |-> {s}],
    RegisterTtl <- 0, Multicast <- TRUE, Refresh <- 1, Quarter <- 1, Interval <- 1, Expire <- 2,
    Cookies <- {3}, MaxMoves <- 1, MaxMacs <- 0,
    known <- v1, pending <- v2, snWait <- v3, acks <- v4, infos <- v5, home <- v6, pub <- v7,
    pref <- v8, moves <- v9, macs <- v10, acked <- v11, told <- v12

Macs == INSTANCE EdgePeers WITH
    Mac <- {m1, m2}, Sock <- {s1}, Predicted <- [s \in {s1, SnSock, Localhost, NoSock} |-> {s}],
    RegisterTtl <- 2, Multicast <- FALSE, Refresh <- 1, Quarter <- 1, Interval <- 1, Expire <- 1,
    Cookies <- {3}, MaxMoves <- 0, MaxMacs <- 1,
    known <- v1, pending <- v2, snWait <- v3, acks <- v4, infos <- v5, home <- v6, pub <- v7,
    pref <- v8, moves <- v9, macs <- v10, acked <- v11, told <- v12

\* at most one packet on their way to the edge, in the scene with two peers
FewPackets == scene = "macs" => Cardinality(v4) + Cardinality(v5) <= 1

(* EdgeBridge: two edges that bridge and a host that moves between them;   *)
(* three edges, one of which does not bridge and uses another transform.   *)

Table == INSTANCE EdgeBridge WITH
    Edge <- {e1, e2}, Host <- {h1, h2, h4}, Device <- [e \in {e1, e2} |-> IF e = e1 THEN h1 ELSE h2],
    Routing <- {e1, e2}, NoMulticast <- {}, Transop <- [e \in {e1, e2} |-> "aes"],
    HOSTINFO_TIMEOUT <- 2, SWEEP_TIME <- 1, Talking <- {h1, h4}, Destinations <- {h1, h4, Everyone},
    Ip <- {TRUE}, Mobile <- {h4}, MaxFrames <- 2, MaxMoves <- 2,
    at <- v1, known <- v2, silent <- v3, swept <- v4, net <- v5, got <- v6, calm <- v7, moves <- v8

Mixed == INSTANCE EdgeBridge WITH
    Edge <- {e1, e2, e3}, Host <- {h1, h2, h3, h4},
    Device <- [e \in {e1, e2, e3} |-> CASE e = e1 -> h1 [] e = e2 -> h2 [] OTHER -> h3],
    Routing <- {e1, e2}, NoMulticast <- {e2},
    Transop <- [e \in {e1, e2, e3} |-> IF e = e3 THEN "speck" ELSE "aes"],
    HOSTINFO_TIMEOUT <- 2, SWEEP_TIME <- 1, Talking <- {h1, h2, h3, h4},
    Destinations <- {h1, h2, h3, h4, Everyone, Group}, Ip <- BOOLEAN, Mobile <- {},
    MaxFrames <- 1, MaxMoves <- 0,
    at <- v1, known <- v2, silent <- v3, swept <- v4, net <- v5, got <- v6, calm <- v7, moves <- v8

(* LoopWait: a clock of 24 milliseconds.  TimeStamp: four microseconds a   *)
(* second, two values of the counter, and a jitter of an eighth of a       *)
(* second.                                                                 *)

Wait == INSTANCE LoopWait WITH
    Modulus <- 24, retry_schedule_ms <- <<2, 3, 5, 8>>, KcpDefault <- 3, RetryDefault <- 6,
    Interval <- 4, now_ms <- v1, due <- v2, last <- v3, stage <- v4, sn_wait <- v5

Stamp == INSTANCE TimeStamp WITH
    Micros <- 4, Counters <- 2, Frame <- 256, Jitter <- 1, MaxClock <- 5, MaxIssued <- 4,
    clock <- v1, issued <- v2, own <- v3, net <- v4, last <- v5, accepted <- v6, verdict <- v7

(* WintunIo: three neighbors, a cache with room for two of them.  What     *)
(* wintun_read returned last has no influence on what follows.             *)

Wintun == INSTANCE WintunIo WITH
    Ip <- {i1, i2, i3, own}, Own <- own, Mac <- {m1, m2}, CacheSize <- 2, RingSize <- 1, MaxQueued <- 1, None <- NoIp,
    cache <- v1, arp <- v2, ring <- v3, outq <- v4, reader <- v5, writer <- v6, learned <- v7, got <- v8

MCView == IF scene = "wintun" THEN <<scene, v1, v2, v3, v4, v5, v6, v7>> ELSE mcvars

ASSUME EdgeConstants ==
    /\ Peers!AgesOrdered /\ Macs!AgesOrdered
    /\ Table!EdgeBridgeAssumption /\ Mixed!EdgeBridgeAssumption
    /\ Wait!ScheduleAssumption /\ Stamp!SizesPositive
    /\ Wintun!SizesPositive

-----------------------------------------------------------------------------
MCInit ==
    \/ scene = "peers" /\ Peers!Init
    \/ scene = "macs" /\ Macs!Init
    \/ scene = "table" /\ Table!Init /\ Off9to12
    \/ scene = "mixed" /\ Mixed!Init /\ Off9to12
    \/ scene = "wait" /\ Wait!Init /\ Off6to8 /\ Off9to12
    \/ scene = "stamp" /\ Stamp!Init /\ v8 = Off /\ Off9to12
    \/ scene = "wintun" /\ Wintun!Init /\ Off9to12

\* The bound on the stamps is reached.
Rests == scene = "stamp" /\ UNCHANGED mcvars

MCNext ==
    \/ scene = "peers" /\ Peers!Next /\ UNCHANGED scene
    \/ scene = "macs" /\ Macs!Next /\ UNCHANGED scene
    \/ scene = "table" /\ Table!Next /\ UNCHANGED <<scene, v9, v10, v11, v12>>
    \/ scene = "mixed" /\ Mixed!Next /\ UNCHANGED <<scene, v9, v10, v11, v12>>
    \/ scene = "wait" /\ Wait!Next /\ UNCHANGED <<scene, v6, v7, v8, v9, v10, v11, v12>>
    \/ scene = "stamp" /\ Stamp!Next /\ UNCHANGED <<scene, v8, v9, v10, v11, v12>>
    \/ scene = "wintun" /\ Wintun!Next /\ UNCHANGED <<scene, v9, v10, v11, v12>>
    \/ Rests

MCSpec == MCInit /\ [][MCNext]_mcvars

Symmetric == Permutations({m1, m2}) \cup Permutations({s1, s2})

-----------------------------------------------------------------------------
(* What is checked, of every component in its scenes.                      *)

\* EdgePeers: a peer has one entry in known_peers and pending_peers together,
\* its socket was acknowledged or given by the supernode, and no socket leads
\* to two known peers, also when a MAC address changes.
PeersConsistent ==
    /\ scene = "peers" => Peers!TypeOK /\ Peers!OneEntry /\ Peers!KnownJustified
    /\ scene = "macs" => Macs!TypeOK /\ Macs!SocketOnce

\* EdgeBridge: a frame comes out behind the edge its sender knew, only there,
\* and no edge relies on what it heard of a host too long ago.
BroughtThere ==
    /\ scene = "table" => Table!BroughtThere /\ Table!HeardLately
    /\ scene = "mixed" => Mixed!BroughtThere

\* LoopWait: run_edge_loop sleeps no longer than until a session is due for
\* its update, and until the retry of a registration is due, not shorter.
WaitsInTime == scene = "wait" => Wait!KcpInTime /\ Wait!RetryAgreed

\* TimeStamp: no stamp is issued twice, a packet without jitter is accepted
\* only above all others, and one that arrives in order and in time is.
StampsOrdered ==
    /\ [](scene = "stamp" => Stamp!TypeOK /\ Stamp!StampsDistinct /\ Stamp!LastIsHighest)
    /\ [][scene = "stamp" => Stamp!StrictHigherStep /\ Stamp!InOrderAcceptedStep]_mcvars

\* WintunIo: a frame that wintun_read returns goes to everybody or to the MAC
\* address that was last seen with the packet's destination, which is the one
\* neighbor_learn has left in the cache.
SentToLatest ==
    /\ [](scene = "wintun" => Wintun!TypeOK /\ Wintun!CacheLatest)
    /\ [][scene = "wintun" => Wintun!SentToLatestStep]_mcvars

=============================================================================
