------------------------------- MODULE AutoIp -------------------------------
(***************************************************************************)
(* The supernode's address service: a sub-network for every community      *)
(* (assign_one_ip_subnet), taken from the community file or from a range,  *)
(* and an address for every edge that asks for one (assign_one_ip_addr),   *)
(* with the registrations that follow.                                     *)
(*                                                                         *)
(* Addresses are the numbers below Space, and a network is its first       *)
(* address and its size.  A community without a network has the prefix of  *)
(* length 0, which is the network of all addresses.  The hash values from  *)
(* which the searches start are arbitrary.                                 *)
(***************************************************************************)
EXTENDS Integers, Sequences, SequencesExt, FiniteSetsExt, TLC

CONSTANTS Community, Mac,
          CommunityOf,      \* each edge's community
          Space,            \* 2^32
          NetSize,          \* the size of the networks of the range
          MinNet, MaxNet,   \* min_auto_ip_net and max_auto_ip_net
          File,             \* lines of the community file: [community, net]
          Static            \* addresses that edges give themselves: [addr, size]

RangeAligned == /\ {Space, NetSize, MinNet, MaxNet} \subseteq Nat
                       /\ MinNet % NetSize = 0 /\ MaxNet % NetSize = 0
                       /\ 0 < MinNet /\ MinNet <= MaxNet /\ MaxNet + NetSize <= Space

VARIABLES line,      \* lines of the file that are loaded
          comms,     \* the communities, in the order of the table
          net,       \* their networks
          edges,     \* each community's edges: [mac, auth, addr, size], in the order of the table
          drawn,     \* the address that each edge has been given, or has given itself
          taken      \* whether another edge of the community had it when it was given

vars == <<line, comms, net, edges, drawn, taken>>

NoNet == [addr |-> 0, size |-> Space]
NoAddr == [addr |-> 0, size |-> 0]

Top(n) == n.addr + n.size - 1
Meet(m, n) == m.addr <= Top(n) /\ Top(m) >= n.addr

\* the wrong version that only looks at the communities of the file
SubnetNotOfFile(c, n) == \A l \in Range(File) : l.community = c \/ l.net = NoNet \/ ~Meet(n, l.net)

subnet_available(c, n) == \A d \in Range(comms) \ {c} : ~Meet(n, net[d])

Subnet(a) == [addr |-> a, size |-> NetSize]
Subnets == {Subnet(a) : a \in {b \in MinNet..MaxNet : b % NetSize = 0}}

\* downwards from the start, then upwards
assign_one_ip_subnet(c, start) ==
    LET free == {n.addr : n \in {m \in Subnets : subnet_available(c, m)}}
        below == {a \in free : a <= start}
    IN IF free = {} THEN NoNet
       ELSE Subnet(IF below # {} THEN Max(below) ELSE Min(free))

Starts == {n.addr : n \in Subnets}

-----------------------------------------------------------------------------
HostId(e) == e.addr % e.size

\* HASH_SORT with peer_tap_ip_sort
Sorted(list) == SortSeq(list, LAMBDA a, b : HostId(a) < HostId(b))

\* the walk ends at the first higher address
ip_addr_available(list, a) ==
    LET higher == {i \in DOMAIN list : list[i].addr > a}
        seen == IF higher = {} THEN DOMAIN list ELSE 1..(Min(higher) - 1)
    IN \A i \in seen : list[i].addr # a

\* the first candidate: neither the network's address nor its broadcast address
Proposal(n, hash) ==
    n.addr + (IF hash = 0 THEN 1 ELSE IF hash = n.size - 1 THEN hash - 1 ELSE hash)

\* downwards from the proposal, then upwards; when nothing is available the
\* last candidate is the answer all the same
assign_one_ip_addr(list, n, hash) ==
    LET tmp == Proposal(n, hash)
        below == {a \in (n.addr + 1)..tmp : ip_addr_available(list, a)}
        above == {a \in (tmp + 1)..(Top(n) - 1) : ip_addr_available(list, a)}
        last == IF tmp + 1 < Top(n) THEN Top(n) - 1 ELSE n.addr + 1
    IN IF below # {} THEN Max(below) ELSE IF above # {} THEN Min(above) ELSE last

-----------------------------------------------------------------------------
Init ==
    /\ line = 0 /\ comms = <<>>
    /\ net = [c \in Community |-> NoNet]
    /\ edges = [c \in Community |-> <<>>]
    /\ drawn = [m \in Mac |-> NoAddr]
    /\ taken = [m \in Mac |-> FALSE]

\* load_allowed_sn_community, one line; nothing else happens before the last
LoadLine ==
    /\ line < Len(File)
    /\ line' = line + 1
    /\ LET c == File[line'].community
       IN /\ comms' = Append(comms, c)
          /\ \/ File[line'].net # NoNet /\ net' = [net EXCEPT ![c] = File[line'].net]
             \/ /\ File[line'].net = NoNet
                /\ \E start \in Starts : net' = [net EXCEPT ![c] = assign_one_ip_subnet(c, start)]
    /\ UNCHANGED <<edges, drawn, taken>>

Running == line = Len(File)

\* REGISTER_SUPER of a community that does not exist yet
NewCommunity(c) ==
    /\ Running /\ c \notin Range(comms)
    /\ comms' = Append(comms, c)
    /\ \E start \in Starts : net' = [net EXCEPT ![c] = assign_one_ip_subnet(c, start)]
    /\ UNCHANGED <<line, edges, drawn, taken>>

\* purge_expired_communities; communities of the file stay
PurgeCommunity(c) ==
    /\ Running /\ c \in Range(comms) /\ edges[c] = <<>>
    /\ \A l \in Range(File) : l.community # c
    /\ comms' = SelectSeq(comms, LAMBDA d : d # c)
    /\ net' = [net EXCEPT ![c] = NoNet]
    /\ UNCHANGED <<line, edges, drawn, taken>>

Used(c, m, a) == \E e \in Range(edges[c]) : e.auth # m /\ e.addr = a

\* an edge without an address asks for one; it is not registered by that
Draw(m, hash) ==
    LET c == CommunityOf[m]
        list == Sorted(edges[c])
        a == assign_one_ip_addr(list, net[c], hash)
    IN /\ Running /\ c \in Range(comms) /\ drawn[m] = NoAddr /\ hash < net[c].size
       /\ edges' = [edges EXCEPT ![c] = list]
       /\ drawn' = [drawn EXCEPT ![m] = [addr |-> a, size |-> net[c].size]]
       /\ taken' = [taken EXCEPT ![m] = Used(c, m, a)]
       /\ UNCHANGED <<line, comms, net>>

\* an edge that was started with an address of its own
Configure(m, s) ==
    /\ drawn[m] = NoAddr
    /\ drawn' = [drawn EXCEPT ![m] = s]
    /\ UNCHANGED <<line, comms, net, edges, taken>>

\* update_edge: an unknown edge is also looked for by its address, and its
\* entry gets the new MAC address before its authentication is checked; the
\* address of a known edge is only updated when its socket is another one
Register(m, moved) ==
    LET c == CommunityOf[m]
        list == edges[c]
        byMac == {i \in DOMAIN list : list[i].mac = m}
        byIp == {i \in DOMAIN list : list[i].addr = drawn[m].addr}
        new == [mac |-> m, auth |-> m, addr |-> drawn[m].addr, size |-> drawn[m].size]
        updated(e) == IF e.auth = m /\ moved THEN new ELSE [e EXCEPT !.mac = m]
    IN /\ Running /\ c \in Range(comms) /\ drawn[m] # NoAddr
       /\ edges' = [edges EXCEPT ![c] =
                      IF byMac # {} THEN [i \in DOMAIN list |-> IF i \in byMac THEN updated(list[i]) ELSE list[i]]
                      ELSE IF byIp # {} THEN Append(RemoveAt(list, Min(byIp)), updated(list[Min(byIp)]))
                      ELSE Append(list, new)]
       /\ UNCHANGED <<line, comms, net, drawn, taken>>

\* the edge unregisters, or is purged; it may start again later
Leave(m) ==
    LET c == CommunityOf[m]
    IN /\ \E e \in Range(edges[c]) : e.auth = m
       /\ edges' = [edges EXCEPT ![c] = SelectSeq(@, LAMBDA e : e.auth # m)]
       /\ drawn' = [drawn EXCEPT ![m] = NoAddr]
       /\ taken' = [taken EXCEPT ![m] = FALSE]
       /\ UNCHANGED <<line, comms, net>>

Next ==
    \/ LoadLine
    \/ \E c \in Community : NewCommunity(c) \/ PurgeCommunity(c)
    \/ \E m \in Mac : (\E hash \in 0..(Space - 1) : Draw(m, hash)) \/ Leave(m)
    \/ \E m \in Mac, moved \in BOOLEAN : Register(m, moved)
    \/ \E m \in Mac, s \in Static : Configure(m, s)

Spec == Init /\ [][Next]_vars

-----------------------------------------------------------------------------
(* What is checked.                                                        *)

TypeOK ==
    /\ line \in 0..Len(File)
    /\ \A c \in Community : net[c].addr \in 0..(Space - 1) /\ net[c].size \in 1..Space
    /\ \A m \in Mac : drawn[m].addr \in 0..(Space - 1)
    /\ \A c \in Community : IsInjective([i \in DOMAIN edges[c] |-> edges[c][i].mac])

FromRange(c) == c \in Range(comms) /\ net[c] \in Subnets

\* Networks that assign_one_ip_subnet takes from the range do not meet each
\* other, in whatever order communities come, go and come back.
SubnetsDistinct ==
    \A c, d \in Community : c # d /\ FromRange(c) /\ FromRange(d) => ~Meet(net[c], net[d])

\* As long as there are fewer edges than addresses, an edge that asks gets
\* one of its community's network that no other registered edge uses.
AssignedFree == \A m \in Mac : ~taken[m]

\* ... and it is a host's address: not the network's, not the broadcast one.
AssignedIsHost ==
    \A m \in Mac : LET n == net[CommunityOf[m]]
                   IN CommunityOf[m] \in Range(comms) /\ n # NoNet /\ drawn[m].size = n.size /\ drawn[m] \notin Static
                        => drawn[m].addr > n.addr /\ drawn[m].addr < Top(n)

\* What community.list says: the networks that the file gives are avoided.
FileAvoided ==
    \A c \in Range(comms), l \in Range(File) :
        Running /\ l.net # NoNet /\ l.community # c /\ FromRange(c)
            /\ (\A k \in Range(File) : k.community = c => k.net = NoNet)
        => ~Meet(net[c], l.net)

=============================================================================
