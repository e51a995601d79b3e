----------------------------- MODULE EdgeBridge -----------------------------
(***************************************************************************)
(* Frames between hosts behind different edges: edge_read_from_tap and     *)
(* edge_send_packet2net on one side, handle_PACKET on the other, and the   *)
(* table known_hosts in which a bridging edge (-r) remembers behind which  *)
(* edge it has heard a host (edge_utils.c).                                *)
(*                                                                         *)
(* A packet goes to the edge whose MAC address it has, or to all others;   *)
(* one for the address of a host reaches nobody.  EdgePeers and SnForward  *)
(* have the ways it takes.  The network loses and reorders packets.        *)
(***************************************************************************)
EXTENDS Naturals, FiniteSets

CONSTANTS
    Edge, Host,
    Everyone,           \* the broadcast address
    Group,              \* a multicast address
    Device,             \* Device[e]: the host that is the edge's own interface
    Routing,            \* the edges with conf.allow_routing
    NoMulticast,        \* the edges with conf.drop_multicast
    Transop,            \* conf.transop_id of each edge
    HOSTINFO_TIMEOUT, SWEEP_TIME,
    Talking,            \* the hosts that send
    Destinations, Ip,   \* to whom, and whether IP packets
    Mobile,             \* the hosts that may be plugged in elsewhere
    MaxFrames, MaxMoves \* bounds on what the hosts do; MaxFrames at a time

Nobody == "nobody"      \* not in the table
Longest == HOSTINFO_TIMEOUT + SWEEP_TIME + 2

EdgeBridgeAssumption ==
    /\ {Everyone, Group} \cap Host = {} /\ Device \in [Edge -> Host] /\ Nobody \notin Edge
    /\ Routing \subseteq Edge /\ NoMulticast \subseteq Edge
    /\ {HOSTINFO_TIMEOUT, SWEEP_TIME, MaxFrames, MaxMoves} \subseteq Nat

VARIABLES
    at,         \* the edge behind which a host is
    known,      \* known_hosts of each edge: [edge, age]
    silent,     \* how long an edge has not heard a host
    swept,      \* time since last_purge_host
    net,        \* packets under way
    got,        \* frames that came out behind an edge
    calm,       \* frames whose sender knew where they had to go, so far
    moves
vars == <<at, known, silent, swept, net, got, calm, moves>>

\* is_multi_broadcast and is_ethMulticast / is_ip6_discovery
is_multi_broadcast(d) == d \in {Everyone, Group}
is_multicast(d) == d = Group

Unused == (0..(MaxFrames - 1)) \ {x.f.id : x \in net \cup got \cup calm}

----------------------------------------------------------------------------
\* Mutant: the table is not asked.
DestinationPlain(e, f) == f.dst

\* The address in the PACKET: of the edge the host is behind, if it is known.
destMac(e, f) ==
    IF e \in Routing /\ ~is_multi_broadcast(f.dst) /\ known[e][f.dst].edge # Nobody
    THEN known[e][f.dst].edge ELSE f.dst

\* The edges a packet with that address comes to; those of edges are those of
\* their interfaces.
Reached(e, d) ==
    IF is_multi_broadcast(d) THEN Edge \ {e} ELSE {x \in Edge \ {e} : d \in {x, Device[x]}}

\* edge_read_from_tap and edge_send_packet2net: multicasts may be unwanted, and
\* without routing only the interface's own IP packets go out.
Dropped(e, f) ==
    \/ e \in NoMulticast /\ is_multicast(f.dst)
    \/ e \notin Routing /\ f.ip /\ f.src # Device[e]

edge_send_packet2net(e, f) ==
    IF Dropped(e, f) THEN {}
    ELSE {[f |-> f, from |-> e, to |-> x, transform |-> Transop[e]] : x \in Reached(e, destMac(e, f))}

\* A host puts a frame on its network, and the edge there reads it.
Send(h, d, ip) ==
    LET e == at[h]
        f == [id |-> CHOOSE i \in Unused : TRUE, src |-> h, dst |-> d, ip |-> ip]
        sure == d \in Host /\ e \in Routing /\ known[e][d].edge = at[d]
    IN /\ h # d /\ Unused # {}
       /\ net' = net \cup edge_send_packet2net(e, f)
       /\ calm' = IF sure /\ at[d] \in Routing /\ Transop[e] = Transop[at[d]]
                  THEN calm \cup {[f |-> f, at |-> at[d]]} ELSE calm
       /\ UNCHANGED <<at, known, silent, swept, got, moves>>

----------------------------------------------------------------------------
Learned(e, h, x) == [edge |-> x, age |-> 0]

\* Unwanted multicasts, and without routing IP packets for others, are dropped.
Refused(e, f) ==
    \/ e \in NoMulticast /\ is_multicast(f.dst)
    \/ e \notin Routing /\ ~is_multicast(f.dst) /\ f.ip /\ f.dst \notin {Everyone, Device[e]}

handle_PACKET(p) ==
    LET e == p.to
        taken == p.transform = Transop[e] /\ ~Refused(e, p.f)
    IN /\ p \in net
       /\ net' = net \ {p}
       /\ IF taken /\ e \in Routing
          THEN /\ known' = [known EXCEPT ![e][p.f.src] = Learned(e, p.f.src, p.from)]
               /\ silent' = [silent EXCEPT ![e][p.f.src] = 0]
          ELSE UNCHANGED <<known, silent>>
       /\ got' = IF taken THEN got \cup {[f |-> p.f, at |-> e]} ELSE got
       /\ UNCHANGED <<at, swept, calm, moves>>

\* The frames that came out are forgotten, and their numbers used again.
Forget ==
    /\ net = {} /\ got \cup calm # {}
    /\ got' = {} /\ calm' = {}
    /\ UNCHANGED <<at, known, silent, swept, net, moves>>

----------------------------------------------------------------------------
Min2(a, b) == IF a < b THEN a ELSE b

\* Mutant: entries do not expire.
NeverExpired(age) == FALSE

Expired(age) == age > HOSTINFO_TIMEOUT

\* run_edge_loop, once a unit of time: the table is swept now and then.
RunLoop ==
    LET older == [e \in Edge |-> [h \in Host |->
                     [known[e][h] EXCEPT !.age = IF known[e][h].edge = Nobody THEN 0 ELSE Min2(@ + 1, Longest)]]]
        sweep == swept + 1 > SWEEP_TIME
    IN /\ swept' = IF sweep THEN 0 ELSE swept + 1
       /\ known' = IF sweep
                   THEN [e \in Edge |-> [h \in Host |->
                            IF Expired(older[e][h].age) THEN [edge |-> Nobody, age |-> 0] ELSE older[e][h]]]
                   ELSE older
       /\ silent' = [e \in Edge |-> [h \in Host |-> Min2(silent[e][h] + 1, Longest)]]
       /\ UNCHANGED <<at, net, got, calm, moves>>

\* A host is plugged in behind another edge.
Move(h, e) ==
    /\ h \in Mobile /\ at[h] # e /\ moves < MaxMoves
    /\ at' = [at EXCEPT ![h] = e] /\ moves' = moves + 1
    /\ calm' = {c \in calm : c.f.dst # h}
    /\ UNCHANGED <<known, silent, swept, net, got>>

Lose == \E p \in net : /\ net' = net \ {p}
                       /\ calm' = {c \in calm : c.f # p.f}
                       /\ UNCHANGED <<at, known, silent, swept, got, moves>>

Init ==
    /\ at \in {a \in [Host -> Edge] : \A e \in Edge : a[Device[e]] = e}
    /\ known = [e \in Edge |-> [h \in Host |-> [edge |-> Nobody, age |-> 0]]]
    /\ silent = [e \in Edge |-> [h \in Host |-> Longest]]
    /\ swept = 0 /\ net = {} /\ got = {} /\ calm = {} /\ moves = 0

Next ==
    \/ \E h \in Talking, d \in Destinations, ip \in Ip : Send(h, d, ip)
    \/ \E p \in net : handle_PACKET(p)
    \/ Forget \/ RunLoop \/ Lose
    \/ \E h \in Host, e \in Edge : Move(h, e)

Spec == Init /\ [][Next]_vars

Arrives(i) == \E p \in net : p.f.id = i /\ handle_PACKET(p)

\* Packets do not stay under way, and the loop goes round.
FairSpec ==
    /\ Spec /\ WF_vars(RunLoop)
    /\ \A i \in 0..(MaxFrames - 1) : WF_vars(Arrives(i))

----------------------------------------------------------------------------
\* A frame whose sender knows behind which edge its destination is comes out
\* there and nowhere else: edge_send_packet2net replaces the address of the
\* host by that of the edge, and the frame itself still has the host's.
BroughtThere ==
    net = {} => \A c \in calm : {g \in got : g.f = c.f} = {c}

\* run_edge_loop sweeps the table every SWEEP_TIME: no edge relies on what it
\* heard of a host longer than HOSTINFO_TIMEOUT and one sweep ago.
HeardLately ==
    \A e \in Edge, h \in Host :
        known[e][h].edge # Nobody => silent[e][h] <= HOSTINFO_TIMEOUT + SWEEP_TIME

\* After a host has been plugged in elsewhere every edge comes to look for it
\* there, or not at all: by what it sends, even if older packets arrive late,
\* or by the sweep if it is silent.
LooksThere(e, h) == known[e][h].edge \in {Nobody, at[h]}
=============================================================================
