------------------------------ MODULE MCInputs ------------------------------
(***************************************************************************)
(* What the programs are given to read, checked side by side for TLC:      *)
(* packets, frames, filter rules, requests and options; and the tools that *)
(* talk to the management port.  A behaviour belongs to one of the scenes, *)
(* that is to one component with the values below for its constants, and   *)
(* only that component moves; its variables are the first ones of v1, v2.. *)
(***************************************************************************)
EXTENDS Integers, Sequences, FiniteSets, TLC

CONSTANTS c1, c2, m1, m2,   \* clients, and peers
          filterer,         \* the thread that filters
          Off               \* an unused variable

VARIABLES scene, v1, v2, v3, v4, v5, v6, v7, v8, v9, v10, v11, v12, v13, v14, v15

slots == <<v1, v2, v3, v4, v5, v6, v7, v8, v9, v10, v11, v12, v13, v14, v15>>
mcvars == <<scene, slots>>

\* The variables from the n-th on are not used.
Off13 == v13 = Off /\ v14 = Off /\ v15 = Off
Off10 == v10 = Off /\ v11 = Off /\ v12 = Off /\ Off13
Off9 == v9 = Off /\ Off10
Off8 == v8 = Off /\ Off9
Off5 == v5 = Off /\ v6 = Off /\ v7 = Off /\ Off8

-----------------------------------------------------------------------------
(* Wire: messages of all types, with and without a socket, with sockets of *)
(* both families, tokens and lists of several lengths; the same cut off    *)
(* anywhere.                                                               *)

Bytes(n, first) == [i \in 1..n |-> (first + i) % 256]
Sock4(type) == [family |-> "v4", type |-> type, port |-> 258, addr |-> Bytes(4, 9) \o [i \in 1..12 |-> 0]]
Sock6(type) == [family |-> "v6", type |-> type, port |-> 65281, addr |-> Bytes(16, 20)]

\* The fields of all message types; a message uses those of its type.
Message(pc, flags, sock, tokens, sns) ==
    [pc |-> pc, flags |-> flags, ttl |-> 2, community |-> Bytes(20, 200),
     cookie |-> 305419896, srcMac |-> Bytes(6, 10), dstMac |-> Bytes(6, 30),
     edgeMac |-> Bytes(6, 50), mac |-> Bytes(6, 70), targetMac |-> Bytes(6, 90),
     sock |-> sock, preferred_sock |-> Sock6("udp"), net_addr |-> 167772417,
     net_bitlen |-> 24, dev_desc |-> Bytes(16, 0), scheme |-> 1, token_size |-> tokens,
     token |-> Bytes(tokens, 130), key_time |-> 1700000000, lifetime |-> 60, num_sn |-> sns,
     sns |-> [i \in 1..sns |-> [sock |-> IF i = 1 THEN Sock4("udp") ELSE Sock6("udp"), mac |-> Bytes(6, 100 + i)]],
     compression |-> 2, transform |-> 3, aflags |-> 513, load |-> 66051, uptime |-> 16909060,
     version |-> Bytes(20, 180)]

PacketTypes == {1, 3, 4, 5, 6, 7, 8, 10, 11}

\* Flags: none, FROM_SUPERNODE, SOCKET, both, and inner transport with SOCKET.
Whole == INSTANCE Wire WITH
    Messages <- {Message(pc, flags, sock, tokens, sns) :
                    pc \in PacketTypes, flags \in {0, 32, 64, 96, 320},
                    sock \in {Sock4("tcp"), Sock4("udp"), Sock6("tcp"), Sock6("udp")},
                    tokens \in {0, 16}, sns \in {0, 2}},
    Cut <- FALSE, Types <- {"udp", "tcp", "unset"},
    msg <- v1, todo <- v2, base <- v3, ret <- v4, idx <- v5, rem <- v6, out <- v7, phase <- v8

CutOff == INSTANCE Wire WITH
    Messages <- {Message(pc, 64, Sock4("udp"), 3, 1) : pc \in PacketTypes},
    Cut <- TRUE, Types <- {"udp", "tcp", "unset"},
    msg <- v1, todo <- v2, base <- v3, ret <- v4, idx <- v5, rem <- v6, out <- v7, phase <- v8

(* Transform: blocks of two bytes and all 24 keys for them; frames of up   *)
(* to five bytes, and some that are longer than fits.                      *)

Blocks == [1..2 -> {0, 1}]

Payload == INSTANCE Transform WITH
    Block <- 2, N2N_PKT_BUF_SIZE <- 11, Header <- 2, LzoRoom <- 2, ZstdRoom <- 3,
    Keys <- {k \in [Blocks -> Blocks] : \A b \in Blocks : \E a \in Blocks : k[a] = b},
    Frames <- UNION {[1..n -> {0, 1}] : n \in 1..4}
              \cup {[i \in 1..n |-> i % 2] : n \in 5..10} \cup {[i \in 1..n |-> 1] : n \in 5..10},
    Transforms <- {"null", "aes", "tf", "speck", "cc20"}, Compressions <- {"none", "lzo", "zstd"},
    conf <- v1, sent <- v2, packet <- v3, tapped <- v4

(* FilterRule: the rules over an address, two numbers and two protocols in *)
(* all ways to write them, and all strings of up to five characters.       *)

Rule == INSTANCE FilterRule WITH
    Addresses <- {7}, Numbers <- {2, 3}, Protocols <- {11, 12}, MaxPort <- 9, MaxLen <- 3, LenOfStrings <- 4,
    str <- v1, meant <- v2, pos <- v3, begin <- v4, stage <- v5, rule <- v6, result <- v7

(* TrafficFilter: addresses of one bit and two ports.  Every pair of rules *)
(* over all blocks for the matching, one pair and all kinds of packets for *)
(* the cache.                                                              *)

Net(b, from, to) == [addr |-> b[1], len |-> b[2], from |-> from, to |-> to]
Filter(src, dst, configured, accept) ==
    [src |-> src, dst |-> dst, configured |-> configured, accept |-> accept]
Filters == {Filter(Net(s, 0, 1), Net(d, from, 1), c[1], c[2]) :
               s \in {<<0, 0>>, <<0, 1>>, <<1, 1>>}, d \in {<<0, 0>>, <<0, 1>>, <<1, 1>>}, from \in 0..1,
               c \in {<<{"TCP"}, {"TCP"}>>, <<{"TCP", "ICMP"}, {}>>, <<{"ICMP", "UDP"}, {"ICMP"}>>}}
Packet(k, s, d, p, c) == [kind |-> k, src |-> s, dst |-> d, sport |-> 0, dport |-> p, cut |-> c]

Match == INSTANCE TrafficFilter WITH
    Bits <- 1, RuleLists <- {<<r, q>> : r \in Filters, q \in Filters},
    Frames <- {Packet(k, s, d, 1, c) : k \in {"TCP", "UDP"}, s \in 0..1, d \in 0..1, c \in BOOLEAN}
              \cup {Packet("ICMP", 0, d, 0, FALSE) : d \in 0..1}
              \cup {Packet(k, 0, 0, 0, FALSE) : k \in {"IGMP", "ARP", "ip6"}},
    Threads <- {filterer}, Places <- 1, ClearEvery <- 10, ActiveCount <- 2, MaxCalls <- 1,
    rules <- v1, memory <- v2, work <- v3, pc <- v4, packet <- v5, entry <- v6, verdict <- v7, calls <- v8

Cache == INSTANCE TrafficFilter WITH
    Bits <- 1,
    RuleLists <- {<<Filter(Net(<<0, 0>>, 0, 1), Net(<<0, 0>>, 0, 1), {"TCP", "UDP", "ICMP"}, {}),
                    Filter(Net(<<0, 1>>, 0, 1), Net(<<1, 1>>, 1, 1), {"TCP", "UDP"}, {"TCP"})>>},
    Frames <- {Packet("TCP", 0, 1, 1, FALSE), Packet("TCP", 0, 1, 0, FALSE), Packet("UDP", 0, 1, 1, FALSE),
               Packet("ICMP", 0, 0, 0, FALSE), Packet("ARP", 0, 0, 0, FALSE)},
    Threads <- {filterer}, Places <- 4, ClearEvery <- 4, ActiveCount <- 2, MaxCalls <- 0,
    rules <- v1, memory <- v2, work <- v3, pc <- v4, packet <- v5, entry <- v6, verdict <- v7, calls <- v8

(* EdgeManagement: two clients with requests of every type, two peers, one *)
(* of them with two sockets, one supernode.                                *)

Request(c, type, fields, tag, flags, key, cmd, arg) ==
    [from |-> c, type |-> type, fields |-> fields, tag |-> tag, flags |-> flags, key |-> key, cmd |-> cmd, arg |-> arg]
Sockets == {<<m1, 1>>, <<m1, 2>>, <<m2, 1>>}
Tag(n) == [name |-> n, len |-> 1]

\* reads of every command, writes and subscriptions with and without the password, and
\* requests that are not complete
Mgmt == INSTANCE EdgeManagement WITH
    Clients <- {c1, c2}, Supernodes <- {1}, Macs <- {m1, m2}, Socks <- Sockets, SockLen <- [s \in Sockets |-> 19],
    MacChange <- FALSE, HeaderEncryption <- TRUE, Password <- "n2n", TagSize <- 9, BufSize <- 92, MaxTrace <- 2,
    Requests <- {Request(c1, "r", 3, Tag("0"), 0, "none", cmd, -1) :
                    cmd \in {"reload_communities", "stop", "verbose", "communities", "edges", "supernodes", "info",
                             "timestamps", "packetstats", "post.test", "help", "help.events", "unknown"}}
                \cup {Request(c1, type, 3, Tag("0"), flags, key, cmd, 1) :
                        type \in {"r", "w"}, flags \in {0, 1}, key \in {"none", "wrong", "n2n"},
                        cmd \in {"stop", "verbose", "edges"}}
                \cup {Request(c, "s", 3, Tag(t), flags, "n2n", topic, -1) :
                        c \in {c1, c2}, t \in {"0", "1"}, flags \in {0, 1}, topic \in {"debug", "peer", "unknown"}}
                \cup {Request(c1, "s", 3, Tag("1"), 1, "n2n", "test", -1)}
                \cup {Request(c1, type, fields, Tag("0"), 0, "none", "help", -1) :
                        type \in {"r", "x"}, fields \in {1, 2}}
                \cup {Request(c1, "r", 3, [name |-> "0", len |-> 12], 0, "none", "post.test", 10)},
    keep_running <- v1, traceLevel <- v2, subscriber <- v3, known <- v4, pending <- v5,
    view <- v6, belief <- v7, request <- v8, sent <- v9

(* EdgeOptions: options for the keys, for the transport, and for names.    *)

NoEnvironment == [key |-> "none", community |-> "none", password |-> "none"]

Crypto == INSTANCE EdgeOptions WITH
    Options <- {<<"l", "h1">>, <<"c", "x">>, <<"k", "key">>, <<"A", "1">>, <<"A", "4">>, <<"A", "none">>,
                <<"I", "user">>, <<"J", "pw">>, <<"P", "fed">>, <<"H", "">>},
    Environments <- {NoEnvironment, [key |-> "env", community |-> "env", password |-> "env"]},
    Host <- {"h1"}, Address <- {"a1"}, MaxOptions <- 4,
    env <- v1, dns <- v2, phase <- v3, deaf <- v4, rc <- v5, conf <- v6, given <- v7, heard <- v8

Transport == INSTANCE EdgeOptions WITH
    Options <- {<<"l", "h1">>, <<"S", "0">>, <<"S", "1">>, <<"S", "2">>, <<"S", "3">>, <<"p", "7654">>,
                <<"p", "127.0.0.1">>, <<"p", "127.0.0.1:7777">>, <<"e", "auto">>, <<"e", "bad">>,
                <<"[", "">>, <<"]", "">>, <<"z", "1">>, <<"z", "7">>, <<"A", "7">>,
                <<"h", "">>, <<"P", "too long">>, <<"i", "0">>, <<"t", "5646">>},
    Environments <- {[NoEnvironment EXCEPT !.community = "env"]},
    Host <- {"h1"}, Address <- {"a1"}, MaxOptions <- 3,
    env <- v1, dns <- v2, phase <- v3, deaf <- v4, rc <- v5, conf <- v6, given <- v7, heard <- v8

Naming == INSTANCE EdgeOptions WITH
    Options <- {<<"l", "h1">>, <<"l", "h2">>, <<"l", "h3">>, <<"l", "no port">>},
    Environments <- {[NoEnvironment EXCEPT !.community = "env"]},
    Host <- {"h1", "h2", "h3"}, Address <- {"a1", "a2"}, MaxOptions <- 4,
    env <- v1, dns <- v2, phase <- v3, deaf <- v4, rc <- v5, conf <- v6, given <- v7, heard <- v8

(* RouteTool: no options; a given gateway; a refused one; networks with    *)
(* and without a gateway; a bad network.  The administrator has a static   *)
(* route on Linux.                                                         *)

Network(net, gateway) == [key |-> "n", net |-> net, mask |-> 24, addr |-> gateway]
Gateway(addr) == [key |-> "g", addr |-> addr]
RouteOptions == {<<>>, <<Gateway("g1")>>, <<Gateway("none")>>, <<Network("n1", "none"), Network("n2", "g2")>>,
                 <<Network("none", "none")>>}

Routes == INSTANCE RouteTool WITH
    Platform <- "linux", Gateways <- {"g1", "g2"}, Vpn <- "vpn", Hosts <- {"h1", "h2"}, EdgeIp <- "edge",
    OptionLists <- RouteOptions, Foreign <- {[net |-> "128.0.0.0", mask |-> 8, gateway |-> "g1"]},
    InfoTags <- {1}, RouteTags <- {2}, GatewayInterval <- 1, InfoInterval <- 1, RefreshInterval <- 1,
    PurgeInterval <- 2, RemoveRouteAge <- 3, Faults <- {"down", "up", "peers", "edge"}, MaxChanges <- 2, MaxInbox <- 2,
    conf <- v1, routes <- v2, age <- v3, tag <- v4, edge <- v5, addr_tmp <- v6, inbox <- v7, keep_running <- v8,
    pc <- v9, sys <- v10, default <- v11, link <- v12, peers <- v13, edge_up <- v14, changes <- v15

Windows == INSTANCE RouteTool WITH
    Platform <- "windows", Gateways <- {"g1", "g2"}, Vpn <- "vpn", Hosts <- {"h1", "h2"}, EdgeIp <- "edge",
    OptionLists <- RouteOptions, Foreign <- {},
    InfoTags <- {1}, RouteTags <- {2}, GatewayInterval <- 1, InfoInterval <- 1, RefreshInterval <- 1,
    PurgeInterval <- 2, RemoveRouteAge <- 3, Faults <- {"down", "up", "peers", "edge"}, MaxChanges <- 2, MaxInbox <- 1,
    conf <- v1, routes <- v2, age <- v3, tag <- v4, edge <- v5, addr_tmp <- v6, inbox <- v7, keep_running <- v8,
    pc <- v9, sys <- v10, default <- v11, link <- v12, peers <- v13, edge_up <- v14, changes <- v15

(* PortForward: any build with a router that stays as it is, and a build   *)
(* for one protocol with a router that changes.                            *)

Forward == INSTANCE PortForward WITH
    Ports <- {0, 1, 2}, Tags <- {1, 2}, Builds <- SUBSET {"pmp", "upnp"}, Garbage <- FALSE, RouterChanges <- FALSE,
    InfoInterval <- 1, MaxChanges <- 4, MaxInbox <- 3,
    current_port <- v1, tag_info <- v2, age <- v3, inbox <- v4, keep_running <- v5, pc <- v6, compiled <- v7,
    serves <- v8, mapped <- v9, edge_port <- v10, edge_up <- v11, changes <- v12

Single == INSTANCE PortForward WITH
    Ports <- {0, 1, 2}, Tags <- {1, 2}, Builds <- {{"pmp"}, {"upnp"}}, Garbage <- FALSE, RouterChanges <- TRUE,
    InfoInterval <- 1, MaxChanges <- 4, MaxInbox <- 3,
    current_port <- v1, tag_info <- v2, age <- v3, inbox <- v4, keep_running <- v5, pc <- v6, compiled <- v7,
    serves <- v8, mapped <- v9, edge_port <- v10, edge_up <- v11, changes <- v12

ASSUME InputConstants ==
    /\ Payload!TransformAssumption
    /\ Crypto!EdgeOptionsAssumption /\ Transport!EdgeOptionsAssumption /\ Naming!EdgeOptionsAssumption

-----------------------------------------------------------------------------
MCInit ==
    \/ scene = "whole" /\ Whole!Init /\ Off9
    \/ scene = "cut" /\ CutOff!Init /\ Off9
    \/ scene = "payload" /\ Payload!Init /\ Off5
    \/ scene = "rule" /\ Rule!Init /\ Off8
    \/ scene = "match" /\ Match!Init /\ Off9
    \/ scene = "cache" /\ Cache!Init /\ Off9
    \/ scene = "management" /\ Mgmt!Init /\ Off10
    \/ scene = "crypto" /\ Crypto!Init /\ Off9
    \/ scene = "transport" /\ Transport!Init /\ Off9
    \/ scene = "naming" /\ Naming!Init /\ Off9
    \/ scene = "routes" /\ Routes!Init
    \/ scene = "windows" /\ Windows!Init
    \/ scene = "forward" /\ Forward!Init /\ Off13
    \/ scene = "single" /\ Single!Init /\ Off13

\* A message is read, an option list ends, a tool has stopped.
Rests == scene # "cache" /\ UNCHANGED mcvars

MCNext ==
    \/ scene = "whole" /\ Whole!Next /\ UNCHANGED <<scene, v9, v10, v11, v12, v13, v14, v15>>
    \/ scene = "cut" /\ CutOff!Next /\ UNCHANGED <<scene, v9, v10, v11, v12, v13, v14, v15>>
    \/ scene = "payload" /\ Payload!Next /\ UNCHANGED <<scene, v5, v6, v7, v8, v9, v10, v11, v12, v13, v14, v15>>
    \/ scene = "rule" /\ Rule!Next /\ UNCHANGED <<scene, v8, v9, v10, v11, v12, v13, v14, v15>>
    \/ scene = "match" /\ Match!Next /\ UNCHANGED <<scene, v9, v10, v11, v12, v13, v14, v15>>
    \/ scene = "cache" /\ Cache!Next /\ UNCHANGED <<scene, v9, v10, v11, v12, v13, v14, v15>>
    \/ scene = "management" /\ Mgmt!Next /\ UNCHANGED <<scene, v10, v11, v12, v13, v14, v15>>
    \/ scene = "crypto" /\ Crypto!Next /\ UNCHANGED <<scene, v9, v10, v11, v12, v13, v14, v15>>
    \/ scene = "transport" /\ Transport!Next /\ UNCHANGED <<scene, v9, v10, v11, v12, v13, v14, v15>>
    \/ scene = "naming" /\ Naming!Next /\ UNCHANGED <<scene, v9, v10, v11, v12, v13, v14, v15>>
    \/ scene = "routes" /\ Routes!Next /\ UNCHANGED scene
    \/ scene = "windows" /\ Windows!Next /\ UNCHANGED scene
    \/ scene = "forward" /\ Forward!Next /\ UNCHANGED <<scene, v13, v14, v15>>
    \/ scene = "single" /\ Single!Next /\ UNCHANGED <<scene, v13, v14, v15>>
    \/ Rests

MCSpec == MCInit /\ [][MCNext]_mcvars

\* request and sent of EdgeManagement tell of the last step only.
MCView == IF scene = "management" THEN <<scene, v1, v2, v3, v4, v5, v6, v7>> ELSE mcvars

-----------------------------------------------------------------------------
(* What is checked, of every component in its scenes.                      *)

\* Wire: decode_X gives back what encode_X wrote, to the last byte, and the
\* addresses lead where the encoded ones did; of a datagram cut off, the fields
\* in front are decoded right and nothing is read behind its end.
DecodedRight ==
    /\ scene = "whole" => Whole!RoundTrip /\ Whole!SameAddresses
    /\ scene = "cut" => CutOff!TypeOK /\ CutOff!PrefixRight

\* FilterRule: a rule is read as it was meant, however it is written, and no
\* string is read beyond its end.
RuleRead == scene = "rule" => Rule!TypeOK /\ Rule!RoundTrip /\ Rule!NotBeyond

\* TrafficFilter: a packet gets the verdict of the narrowest rule that fits,
\* from the rules as from the cache, where a kind of packet has one entry at
\* most and hits and lookups are counted over the same time.
VerdictOfRules ==
    /\ scene = "match" => Match!VerdictOfRules
    /\ scene = "cache" => Cache!TypeOK /\ Cache!VerdictOfRules /\ Cache!CountedTogether /\ Cache!OneEntry

\* EdgeManagement: the edge and its clients agree on who is subscribed, from
\* the events a subscriber knows the known_peers, a request without the password
\* changes nothing, and the answer to a JSON request is complete.
ClientsAgree ==
    /\ [](scene = "management" => Mgmt!TypeOK /\ Mgmt!SubscriberKnows /\ Mgmt!FollowerAgrees)
    /\ [][scene = "management" => Mgmt!ChangeNeedsPasswordStep /\ Mgmt!AnswerFramedStep]_mcvars

\* EdgeOptions: the order of the options does not matter for what is used, and
\* each supernode that resolves is in the list, once.
OptionsKept ==
    /\ scene = "crypto" => Crypto!OrderDoesNotMatter
    /\ scene = "transport" => Transport!OrderDoesNotMatter
    /\ scene = "naming" => Naming!ResolvedKept

\* RouteTool: routes to peers use the default gateway in force, which is never
\* that of the VPN; a route of somebody else is not removed, and the routes into
\* the VPN stay until the tool ends.  PortForward: one port is forwarded, by one
\* protocol.  When a tool ends, none of its routes or mappings is left.
ToolsTidyUp ==
    /\ [](/\ scene = "routes" => Routes!TypeOK /\ Routes!ViaOriginal /\ Routes!Restored
          /\ scene = "windows" => Windows!GatewayNotVpn
          /\ scene = "forward" => Forward!TypeOK /\ Forward!OnePort /\ Forward!CleanEnd
          /\ scene = "single" => Single!OnePort /\ Single!CleanEnd)
    /\ [][scene = "routes" => Routes!ForeignKeptStep /\ Routes!VpnRoutesStayStep]_mcvars

\* Transform: a frame that fits comes out of the other TAP device as it was,
\* for all ciphers, compressions and keys; of one that does not, nothing else.
ComesThrough == [][scene = "payload" => Payload!ComesThroughStep /\ Payload!NothingElseStep]_mcvars

=============================================================================
