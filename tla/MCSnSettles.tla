---------------------------- MODULE MCSnSettles -----------------------------
(***************************************************************************)
(* The connections of a supernode, the hash tables it uses, the names of   *)
(* communities it lets in, and what becomes right again there and in the   *)
(* tools after something has changed, checked side by side for TLC.  A     *)
(* behaviour belongs to one of the scenes, that is to one component with   *)
(* the values below for its constants, and only that component moves; its  *)
(* variables are the first ones of v1, v2, ...                             *)
(***************************************************************************)
EXTENDS Integers, Sequences, FiniteSets, TLC

CONSTANTS m1, m2,            \* edges
          i1, i2, i3, i4,    \* items of a hash table
          Off                \* an unused variable

VARIABLES scene, v1, v2, v3, v4, v5, v6, v7, v8, v9, v10, v11, v12, v13, v14, v15

from13 == <<v13, v14, v15>>
from10 == <<v10, v11, v12, from13>>
from6 == <<v6, v7, v8, v9, from10>>
from4 == <<v4, v5, from6>>
mcvars == <<scene, v1, v2, v3, from4>>

Off13 == v13 = Off /\ v14 = Off /\ v15 = Off
Off10 == v10 = Off /\ v11 = Off /\ v12 = Off /\ Off13
Off6 == v6 = Off /\ v7 = Off /\ v8 = Off /\ v9 = Off /\ Off10
Off4 == v4 = Off /\ v5 = Off /\ Off6

-----------------------------------------------------------------------------
(* SnTcp: packets of one and two bytes, and one that is too large; edges   *)
(* that connect again and again.                                           *)

Frame(kind, len) == [kind |-> kind, len |-> len]

Reads == INSTANCE SnTcp WITH
    Mac <- {m1, m2}, Fd <- 4..6, ConnLimit <- 2, BufSize <- 5,
    Frames <- {Frame("REGISTER_SUPER", 1), Frame("PACKET", 2), Frame("UNREGISTER_SUPER", 1), Frame("PACKET", 4)},
    MaxConnects <- 1, MaxFrames <- 2, MaxUdp <- 0, MaxReloads <- 1,
    conns <- v1, edges <- v2, sock <- v3, backlog <- v4, client <- v5, pc <- v6, mask <- v7,
    todo <- v8, used <- v9

Connections == INSTANCE SnTcp WITH
    Mac <- {m1, m2}, Fd <- 4..6, ConnLimit <- 2, BufSize <- 5,
    Frames <- {Frame("REGISTER_SUPER", 1), Frame("PACKET", 1)},
    MaxConnects <- 2, MaxFrames <- 2, MaxUdp <- 1, MaxReloads <- 1,
    conns <- v1, edges <- v2, sock <- v3, backlog <- v4, client <- v5, pc <- v6, mask <- v7,
    todo <- v8, used <- v9

(* ... and with room for all of them.                                      *)

Tcp == INSTANCE SnTcp WITH
    Mac <- {m1, m2}, Fd <- 4..6, ConnLimit <- 3, BufSize <- 5,
    Frames <- {Frame("REGISTER_SUPER", 1), Frame("PACKET", 1)},
    MaxConnects <- 2, MaxFrames <- 1, MaxUdp <- 1, MaxReloads <- 0,
    conns <- v1, edges <- v2, sock <- v3, backlog <- v4, client <- v5, pc <- v6, mask <- v7,
    todo <- v8, used <- v9

(* HashTable: keys that share a bucket of small tables, and keys that      *)
(* always do; at most MaxBuckets buckets.                                  *)

KeyHash == ("a" :> 0) @@ ("b" :> 4) @@ ("c" :> 2) @@ ("d" :> 4) @@ ("e" :> 4)
MaxBuckets == 8

Find == INSTANCE HashTable WITH
    Hash <- KeyHash, KeyLen <- [k \in DOMAIN KeyHash |-> 6], InitialBuckets <- 1, Capacity <- 1,
    Item <- {i1, i2, i3, i4}, Key <- {"a", "b", "c", "d", "e"}, Crit <- {0},
    tbl <- v1, mem <- v2, crit <- v3

Sorting == INSTANCE HashTable WITH
    Hash <- KeyHash, KeyLen <- [k \in DOMAIN KeyHash |-> 6], InitialBuckets <- 2, Capacity <- 10,
    Item <- {i1, i2, i3, i4}, Key <- {"a", "b", "c", "d"}, Crit <- {0, 1},
    tbl <- v1, mem <- v2, crit <- v3

FewBuckets == Cardinality(DOMAIN v1'.bkt) <= MaxBuckets

(* CommunityRegex: the patterns of two elements, each with or without a    *)
(* repetition, and some longer ones, on all names of up to four letters    *)
(* and some with digits.                                                   *)

A == 97
B == 98
Sym(t, c) == [type |-> t, c |-> c, class |-> <<>>]
Class(t, s) == [type |-> t, c |-> 0, class |-> s]
With(y) == {<<y>>} \cup {<<y, Sym(q, 0)>> : q \in {"star", "plus", "question"}}
Pieces == UNION {With(y) : y \in {Sym("char", A), Sym("dot", 0), Sym("digit", 0),
                                  Class("class", <<A, 45, B>>), Class("inverse", <<B>>)}}
Letters == With(Sym("char", A)) \cup {<<Sym("char", B)>>}

Rules == INSTANCE CommunityRegex WITH
    Patterns <- Pieces \cup {p \o q : p \in Pieces, q \in Pieces}
                \cup {p \o q \o r : p \in With(Class("class", <<A, B>>)), q \in Letters, r \in Letters}
                \cup {[i \in 1..7 |-> Sym("char", IF i \in {2, 4} THEN B ELSE A)]},
    Texts <- UNION {[1..n -> {A, B}] : n \in 1..4}
             \cup {<<A, 99>>, <<49>>, <<B, 49, A>>, <<99, A, 49>>, <<49, 49>>},
    MaxRules <- 1, MaxObjects <- 7, MaxClass <- 12,
    lines <- v1, rules <- v2, ccl_buf <- v3, text <- v4, answer <- v5

(* RouteTool: two changes of the network and the edge.  PortForward: any   *)
(* build, two changes of the edge.                                         *)

Routes == INSTANCE RouteTool WITH
    Platform <- "linux", Gateways <- {"g1", "g2"}, Vpn <- "vpn", Hosts <- {"h1", "h2"}, EdgeIp <- "edge",
    OptionLists <- {<<>>, <<[key |-> "g", addr |-> "none"]>>}, Foreign <- {},
    InfoTags <- {1}, RouteTags <- {2}, GatewayInterval <- 1, InfoInterval <- 1, RefreshInterval <- 1,
    PurgeInterval <- 2, RemoveRouteAge <- 3, Faults <- {"up", "peers", "edge"}, MaxChanges <- 2, MaxInbox <- 1,
    conf <- v1, routes <- v2, age <- v3, tag <- v4, edge <- v5, addr_tmp <- v6, inbox <- v7, keep_running <- v8,
    pc <- v9, sys <- v10, default <- v11, link <- v12, peers <- v13, edge_up <- v14, changes <- v15

Forward == INSTANCE PortForward WITH
    Ports <- {0, 1, 2}, Tags <- {1, 2}, Builds <- SUBSET {"pmp", "upnp"}, Garbage <- FALSE, RouterChanges <- FALSE,
    InfoInterval <- 1, MaxChanges <- 2, MaxInbox <- 3,
    current_port <- v1, tag_info <- v2, age <- v3, inbox <- v4, keep_running <- v5, pc <- v6, compiled <- v7,
    serves <- v8, mapped <- v9, edge_port <- v10, edge_up <- v11, changes <- v12

ASSUME SnSettlesConstants ==
    /\ Reads!SnTcpAssumption /\ Connections!SnTcpAssumption /\ Tcp!SnTcpAssumption
    /\ Find!UtHashAssumption /\ Sorting!UtHashAssumption

-----------------------------------------------------------------------------
MCInit ==
    \/ scene = "reads" /\ Reads!Init /\ Off10
    \/ scene = "connections" /\ Connections!Init /\ Off10
    \/ scene = "tcp" /\ Tcp!Init /\ Off10
    \/ scene = "find" /\ Find!Init /\ Off4
    \/ scene = "sort" /\ Sorting!Init /\ Off4
    \/ scene = "rules" /\ Rules!Init /\ Off6
    \/ scene = "routes" /\ Routes!Init
    \/ scene = "forward" /\ Forward!Init /\ Off13

\* a step of the component in its scene
TcpStep(step) == scene = "tcp" /\ step /\ UNCHANGED <<scene, from10>>
RoutesStep(step) == scene = "routes" /\ step /\ UNCHANGED scene
ForwardStep(step) == scene = "forward" /\ step /\ UNCHANGED <<scene, from13>>

\* The tools end, and the bounds are reached.
Rests == scene \in {"routes", "forward", "find", "sort", "rules"} /\ UNCHANGED mcvars

MCNext ==
    \/ scene = "reads" /\ Reads!Next /\ UNCHANGED <<scene, from10>>
    \/ scene = "connections" /\ Connections!Next /\ UNCHANGED <<scene, from10>>
    \/ scene = "tcp" /\ Tcp!Next /\ UNCHANGED <<scene, from10>>
    \/ scene = "find" /\ Find!Next /\ FewBuckets /\ UNCHANGED <<scene, from4>>
    \/ scene = "sort" /\ Sorting!Next /\ UNCHANGED <<scene, from4>>
    \/ scene = "rules" /\ Rules!Next /\ UNCHANGED <<scene, from6>>
    \/ scene = "routes" /\ Routes!Next /\ UNCHANGED scene
    \/ scene = "forward" /\ Forward!Next /\ UNCHANGED <<scene, from13>>
    \/ Rests

\* The fairness of each component, in its scene: a scene never changes, so
\* the fairness of several actions of different scenes can be stated as one.
MCFairness ==
    WF_mcvars(TcpStep(Tcp!Loop) \/ RoutesStep(Routes!Tool) \/ ForwardStep(Forward!Tool))

MCSpec == MCInit /\ [][MCNext]_mcvars /\ MCFairness

-----------------------------------------------------------------------------
(* What is checked, of every component in its scenes.                      *)

Inactive(fd) == scene = "tcp" /\ Tcp!Inactive(fd)
Waiting(m) == scene = "tcp" /\ Tcp!Waiting(m)

\* SnTcp: however reads cut the stream, a connection collects one packet; an
\* edge on TCP is reached through its own open connection, and the open
\* descriptors are those of the active connections.
ConnectionsConsistent ==
    /\ scene = "reads" => Reads!TypeOK /\ Reads!WholePackets
    /\ scene = "connections" => Connections!EdgeOnOwnConnection /\ Connections!DescriptorsOwned

\* SnTcp: "forget about the connection, will be deleted later": a connection
\* marked inactive leaves the list; and an edge that connects is accepted or
\* refused, it does not wait.
ConnectionsSettle ==
    /\ \A fd \in 4..6 : Inactive(fd) ~> ~Inactive(fd)
    /\ \A m \in {m1, m2} : Waiting(m) ~> ~Waiting(m)

\* HashTable: what is in the list is found by its key, and nothing else is; an
\* item is in one chain and in the order once, also after HASH_EXPAND_BUCKETS;
\* and HASH_SRT sorts and keeps the order of equals.
FoundByKey ==
    /\ [](scene = "find" => Find!FoundByKey /\ Find!InOneChain)
    /\ [][scene = "sort" => Sorting!SortedStablyStep]_mcvars

\* CommunityRegex: re_matchp finds a pattern exactly where it is first, and a
\* simple line lets in what matches it from end to end.
FoundFirst == scene = "rules" => Rules!TypeOK /\ Rules!FoundFirst /\ Rules!SimpleExact

\* RouteTool: while the tool, the edge and the network are up, each peer gets
\* and keeps a route via the default gateway.  PortForward: while tool and edge
\* run and the router serves a protocol of the tool, the edge's port gets
\* forwarded and stays so.
ToolsFollow ==
    /\ <>[](scene = "routes" /\ Routes!AllUp) => <>[](scene = "routes" => Routes!AllRouted)
    /\ <>[](scene = "forward" /\ Forward!CanForward) => <>[](scene = "forward" => Forward!Forwarded)

=============================================================================
