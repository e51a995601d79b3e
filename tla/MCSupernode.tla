---------------------------- MODULE MCSupernode -----------------------------
(***************************************************************************)
(* The tables and lists of a supernode, checked side by side for TLC.  A   *)
(* behaviour belongs to one of the scenes, that is to one component with   *)
(* the values below for its constants, and only that component moves; its  *)
(* variables are the first ones of v1, v2, ...                             *)
(***************************************************************************)
EXTENDS Integers, Sequences, FiniteSets, TLC

CONSTANTS m1, m2, m3, Everyone,     \* edges
          s1, s2, s3, NoSn,         \* supernodes
          c1, c2, c3,               \* communities, and a client
          Off                       \* an unused variable

VARIABLES scene, v1, v2, v3, v4, v5, v6, v7, v8, v9, v10, v11, v12, v13

slots == <<v1, v2, v3, v4, v5, v6, v7, v8, v9, v10, v11, v12, v13>>
mcvars == <<scene, slots>>

\* The variables from the n-th on are not used.
Off12 == v12 = Off /\ v13 = Off
Off10 == v10 = Off /\ v11 = Off /\ Off12
Off9 == v9 = Off /\ Off10
Off7 == v7 = Off /\ v8 = Off /\ Off9

-----------------------------------------------------------------------------
(* SnForward: three edges anywhere at three supernodes; connections that   *)
(* break; supernodes that do not know each other, or the kind of header.   *)

Moves == INSTANCE SnForward WITH
    Sn <- {s1, s2, s3}, Mac <- {m1, m2, m3}, Encrypting <- {}, Transports <- {"udp"},
    Kinds <- {"PACKET"}, Sizes <- {FALSE}, Views <- {"active"}, Locks <- {"none"}, Purgeable <- FALSE,
    N2N_DEFAULT_TTL <- 2, MaxPackets <- 1, MaxMoves <- 1, MaxBreaks <- 0,
    home <- v1, reach <- v2, broken <- v3, edges <- v4, assoc <- v5, lock <- v6, view <- v7, net <- v8,
    got <- v9, calm <- v10, used <- v11

Breaks == INSTANCE SnForward WITH
    Sn <- {s1, s2}, Mac <- {m1, m2, m3}, Encrypting <- {}, Transports <- {"udp", "tcp"},
    Kinds <- {"PACKET"}, Sizes <- BOOLEAN, Views <- {"active"}, Locks <- {"none"}, Purgeable <- FALSE,
    N2N_DEFAULT_TTL <- 2, MaxPackets <- 1, MaxMoves <- 0, MaxBreaks <- 1,
    home <- v1, reach <- v2, broken <- v3, edges <- v4, assoc <- v5, lock <- v6, view <- v7, net <- v8,
    got <- v9, calm <- v10, used <- v11

Headers == INSTANCE SnForward WITH
    Sn <- {s1, s2, s3}, Mac <- {m1, m3}, Encrypting <- {m3}, Transports <- {"kcp"},
    Kinds <- {"REGISTER", "PACKET"}, Sizes <- {TRUE}, Views <- {"unknown", "inactive", "active"},
    Locks <- {"absent", "unknown", "none", "enabled"}, Purgeable <- TRUE,
    N2N_DEFAULT_TTL <- 2, MaxPackets <- 1, MaxMoves <- 1, MaxBreaks <- 0,
    home <- v1, reach <- v2, broken <- v3, edges <- v4, assoc <- v5, lock <- v6, view <- v7, net <- v8,
    got <- v9, calm <- v10, used <- v11

(* DynamicKey: two supernodes with the same time, and an edge whose user   *)
(* may be deleted.  AutoIp: sixteen addresses in networks of eight or four *)
(* of them, and a file that gives one network away.                        *)

Keys == INSTANCE DynamicKey WITH
    Supernodes <- {s1, s2}, Edges <- {m1}, Removable <- {m1}, Skew <- [s \in {s1, s2} |-> 0], MaxTime <- 3,
    clock <- v1, file <- v2, users <- v3, key_time <- v4, edges <- v5, cookie <- v6, key <- v7,
    challenge <- v8, sent <- v9, acked <- v10, reg <- v11, ack <- v12, rereg <- v13

Pool == INSTANCE AutoIp WITH
    Community <- {c1}, Mac <- {m1, m2, m3}, CommunityOf <- [m \in {m1, m2, m3} |-> c1],
    Space <- 16, NetSize <- 8, MinNet <- 8, MaxNet <- 8, File <- <<>>, Static <- {[addr |-> 10, size |-> 8]},
    line <- v1, comms <- v2, net <- v3, edges <- v4, drawn <- v5, taken <- v6

Nets == INSTANCE AutoIp WITH
    Community <- {c1, c2, c3}, Mac <- {m1, m2, m3}, CommunityOf <- [m \in {m1, m2, m3} |-> c1],
    Space <- 16, NetSize <- 4, MinNet <- 4, MaxNet <- 12,
    File <- <<[community |-> c2, net |-> [addr |-> 8, size |-> 8]],
              [community |-> c1, net |-> [addr |-> 0, size |-> 16]]>>,
    Static <- {},
    line <- v1, comms <- v2, net <- v3, edges <- v4, drawn <- v5, taken <- v6

(* SnManagement: a client with requests of every type, with and without    *)
(* the password; two communities and an edge.                              *)

Request(type, fields, flags, key, cmd) ==
    [from |-> c1, type |-> type, fields |-> fields, tag |-> [name |-> "0", len |-> 1], flags |-> flags,
     key |-> key, cmd |-> cmd, arg |-> 1]

Mgmt == INSTANCE SnManagement WITH
    Clients <- {c1}, Names <- {"n1", "n2"}, Edges <- {"e1"}, Federation <- "*fed", Password <- "n2n",
    TagSize <- 9, MaxErrors <- 1,
    Requests <- {Request(type, 3, flags, key, cmd) :
                     type \in {"r", "w", "s"}, flags \in {0, 1}, key \in {"wrong", "n2n"},
                     cmd \in {"supernodes", "stop", "verbose", "reload_communities", "communities", "edges",
                              "timestamps", "packetstats", "help", "unknown"}}
                \cup {Request(type, fields, 0, "none", "help") : type \in {"r", "x"}, fields \in {1, 2}},
    community_file <- v1, keep_running <- v2, traceLevel <- v3, file <- v4, communities <- v5, lock <- v6,
    errors <- v7, request <- v8, sent <- v9

(* Federation: two edges of one supernode; an edge that moves or restarts, *)
(* or a supernode that restarts, once.                                     *)

Tables == INSTANCE Federation WITH
    Supernode <- {s1, s2}, Mac <- {m1, m2}, Homes <- {[m \in {m1, m2} |-> s1]},
    Purgeable <- TRUE, EdgeExpired <- 1, AssocExpired <- 2, MaxMoves <- 1, MaxRestarts <- 1, MaxInFlight <- 1,
    home <- v1, token <- v2, moves <- v3, restarts <- v4, comm <- v5, edges <- v6, assoc <- v7, net <- v8

OneChange == v3' + v4' <= 1

ASSUME SupernodeConstants ==
    /\ Moves!SnForwardAssumption /\ Breaks!SnForwardAssumption /\ Headers!SnForwardAssumption
    /\ Keys!DynamicKeyAssumption /\ Keys!ClocksAgree
    /\ Pool!RangeAligned /\ Nets!RangeAligned

-----------------------------------------------------------------------------
\* The names of the supernodes do not matter where the edges are at first, nor
\* those of m2 and m3 where they are alike.
Somewhere == v1[m1] = s1 /\ v1[m3] # s3

\* A supernode without edges at first and the others see each other alike.
ThirdMutual == \A s \in {s1, s2} : v7[s3][s] = v7[s][s3]

MCInit ==
    \/ scene = "moves" /\ Moves!Init /\ Somewhere /\ (v1[m3] = s1 => v1[m2] = s1) /\ Off12
    \/ scene = "breaks" /\ Breaks!Init /\ Somewhere /\ Off12
    \/ scene = "headers" /\ Headers!Init /\ Somewhere /\ ThirdMutual /\ Off12
    \/ scene = "keys" /\ Keys!Init
    \/ scene = "pool" /\ Pool!Init /\ Off7
    \/ scene = "nets" /\ Nets!Init /\ Off7
    \/ scene = "management" /\ Mgmt!Init /\ Off10
    \/ scene = "tables" /\ Tables!Init /\ Off9

\* Edges, users and clients may do no more, and the bounds are reached.
Rests == scene \notin {"keys", "tables"} /\ UNCHANGED mcvars

MCNext ==
    \/ scene = "moves" /\ Moves!Next /\ UNCHANGED <<scene, v12, v13>>
    \/ scene = "breaks" /\ Breaks!Next /\ UNCHANGED <<scene, v12, v13>>
    \/ scene = "headers" /\ Headers!Next /\ UNCHANGED <<scene, v12, v13>>
    \/ scene = "keys" /\ Keys!Next /\ UNCHANGED scene
    \/ scene = "pool" /\ Pool!Next /\ UNCHANGED <<scene, v7, v8, v9, v10, v11, v12, v13>>
    \/ scene = "nets" /\ Nets!Next /\ UNCHANGED <<scene, v7, v8, v9, v10, v11, v12, v13>>
    \/ scene = "management" /\ Mgmt!Next /\ UNCHANGED <<scene, v10, v11, v12, v13>>
    \/ scene = "tables" /\ Tables!Next /\ OneChange /\ UNCHANGED <<scene, v9, v10, v11, v12, v13>>
    \/ Rests

MCSpec == MCInit /\ [][MCNext]_mcvars

\* request and sent of SnManagement tell of the last step only; of the cookies
\* and challenges of DynamicKey only matters whether they are the last ones.
IsLast(msg, field, last) == IF field \in DOMAIN msg THEN [msg EXCEPT ![field] = @ = last] ELSE msg
KeysView ==
    LET S == {s1, s2}
    IN <<v1, v2, v3, v4, v5, v7, v13,
         [s \in S |-> [p \in S |-> <<IsLast(v9[s][p], "cookie", v6[s][p]), IsLast(v10[s][p], "cookie", v6[p][s])>>]],
         IsLast(v11[m1], "challenge", v8[m1]), IsLast(v12[m1], "challenge", v8[m1])>>
MCView == CASE scene = "management" -> <<scene, v1, v2, v3, v4, v5, v6, v7>>
            [] scene = "keys" -> <<scene, KeysView>>
            [] OTHER -> mcvars

-----------------------------------------------------------------------------
(* What is checked, of every component in its scenes.                      *)

\* SnForward: with settled tables try_forward and try_broadcast bring a packet
\* to everyone it is meant for, once, also past broken connections; and
\* from_supernode keeps it from going round, whatever the tables say.  No edge
\* is given a packet with the other kind of header.
ExactlyOnce ==
    /\ scene = "moves" => Moves!ExactlyOnce /\ Moves!NeverRound
    /\ scene = "breaks" => Breaks!ExactlyOnce
    /\ scene = "headers" => Headers!SameHeader

\* DynamicKey: an edge whose user is gone everywhere has not the newest key; no
\* supernode goes back to an older key, and with a new one the edges are told
\* so in a way they can still read.
RemovedHasOldKey ==
    /\ [](scene = "keys" => Keys!TypeOK /\ Keys!RemovedHasOldKey)
    /\ [][scene = "keys" => Keys!ToldWithOldKeyStep /\ Keys!KeyTimeGrowsStep]_mcvars

\* AutoIp: while addresses are left an edge gets one that nobody has, neither
\* the network's nor the broadcast one; the networks that communities get from
\* the range meet neither each other nor those of the file of communities.
AddressesFree ==
    /\ scene = "pool" => Pool!TypeOK /\ Pool!AssignedFree /\ Pool!AssignedIsHost
    /\ scene = "nets" => Nets!SubnetsDistinct /\ Nets!FileAvoided

\* SnManagement: only a reload changes the communities, its answer says whether
\* they are those of the file, and locked communities stay those of the file;
\* the name of the federation is not shown, and answers are complete.
ReloadTold ==
    /\ [](scene = "management" => Mgmt!TypeOK)
    /\ [][scene = "management" => /\ Mgmt!ReloadToldStep /\ Mgmt!LockedStaysStep
                                  /\ Mgmt!FederationHiddenStep /\ Mgmt!AnswerFramedStep]_mcvars

\* Federation: an edge is associated with one other supernode at most, the
\* associations are in the order of age, and so purging from the head removes
\* exactly those that have expired.
AssociationsInOrder ==
    /\ [](scene = "tables" => Tables!TypeOK /\ Tables!AssociationsInOrder)
    /\ [][scene = "tables" => Tables!PurgeRemovesExpiredStep]_mcvars

=============================================================================
