------------------------------ MODULE WintunIo ------------------------------
(***************************************************************************)
(* The data path of a wintun device: wintun_read in the tap reader thread, *)
(* wintun_write in the main thread.  The device carries IP packets, n2n    *)
(* Ethernet frames: the two invent the link layer, with one slot for an    *)
(* ARP reply and a neighbor cache learned from arriving frames.  Packets   *)
(* that do not fit are answered with an ICMP message.                      *)
(***************************************************************************)
EXTENDS Integers, Sequences, SequencesExt, FiniteSets

CONSTANTS Ip, Own, Mac,
          Broadcast, None,
          CacheSize,      \* N2N_NEIGHBOR_CACHE_SIZE
          RingSize,       \* packets the driver's send ring holds
          MaxQueued       \* bound: packets of the system that wait

\* what is assumed of the constants
SizesPositive == {CacheSize, RingSize, MaxQueued} \subseteq Nat \ {0}

VARIABLES cache,       \* sequence of [ip, mac]
          arp,         \* the cached ARP reply: its destination, or None
          ring,        \* packets for the operating system
          outq,        \* packets of the operating system
          reader,      \* where wintun_read is
          got,         \* the frame it returned last: [to, ip, v], or NoFrame
          writer,      \* the IP packet between learning and sending, or None
          learned      \* the MAC address that each IP address had last

vars == <<cache, arp, ring, outq, reader, got, writer, learned>>

\* v: IP version; big: with the Ethernet header it exceeds the frame buffer;
\* frag: it has a fragment header, which only matters to a big one of version 6
Packets == {p \in [v : {4, 6, 0}, ip : Ip, big : BOOLEAN, frag : BOOLEAN] : p.frag => p.big /\ p.v = 6}
Icmp == "icmp"
Data == "data"
NoFrame == [to |-> None, ip |-> None, v |-> "none"]

Init ==
    /\ cache = <<>> /\ arp = None /\ ring = <<>> /\ outq = <<>>
    /\ reader = "start" /\ got = NoFrame /\ writer = None
    /\ learned = [i \in Ip |-> None]

-----------------------------------------------------------------------------
(* The main thread.                                                        *)

Entries(i) == {n \in DOMAIN cache : cache[n].ip = i}

\* an entry is updated in its place, a new one goes to the end
neighbor_learn(i, m) ==
    IF i = Own THEN cache
    ELSE IF Entries(i) # {} THEN [n \in DOMAIN cache |-> IF n \in Entries(i) THEN [ip |-> i, mac |-> m] ELSE cache[n]]
    ELSE Append(IF Len(cache) < CacheSize THEN cache ELSE Tail(cache), [ip |-> i, mac |-> m])

\* wintun_write of an IPv4 frame, up to the send lock
WriteIpv4(i, m) ==
    /\ writer = None
    /\ cache' = neighbor_learn(i, m)
    /\ learned' = [learned EXCEPT ![i] = m]
    /\ writer' = Data
    /\ UNCHANGED <<arp, ring, outq, reader, got>>

\* ... of an IPv6 frame
WriteIpv6 ==
    /\ writer = None /\ writer' = Data
    /\ UNCHANGED <<cache, arp, ring, outq, reader, got, learned>>

\* the packet goes to the ring, or is lost when there is no room
WriteRing ==
    /\ writer # None /\ writer' = None
    /\ ring' = IF Len(ring) < RingSize THEN Append(ring, writer) ELSE ring
    /\ UNCHANGED <<cache, arp, outq, reader, got, learned>>

\* ... of an ARP frame: a request for the own address; other frames change nothing
WriteArp(m) ==
    /\ writer = None
    /\ arp' = m
    /\ UNCHANGED <<cache, ring, outq, reader, got, writer, learned>>

-----------------------------------------------------------------------------
(* The tap reader thread.                                                  *)

ReadArp ==
    /\ reader = "start" /\ arp # None
    /\ got' = [to |-> arp, ip |-> Own, v |-> "arp"]
    /\ arp' = None
    /\ UNCHANGED <<cache, ring, outq, reader, writer, learned>>

NoArp ==
    /\ reader = "start" /\ arp = None
    /\ reader' = "receive" /\ got' = NoFrame
    /\ UNCHANGED <<cache, arp, ring, outq, writer, learned>>

\* the wrong version that takes any entry
LookupFirst(i) == IF cache # <<>> THEN cache[1].mac ELSE Broadcast

neighbor_lookup(i) ==
    IF Entries(i) # {} THEN cache[CHOOSE n \in Entries(i) : TRUE].mac ELSE Broadcast

\* whether handle_oversized_ip_packet sends an ICMP message
Answered(p) == p.v = 4 \/ (p.v = 6 /\ ~p.frag)

\* process_wintun_received_packet
Receive ==
    /\ reader \in {"receive", "signaled"} /\ outq # <<>>
    /\ LET p == Head(outq)
       IN /\ got' = IF p.big \/ p.v = 0 THEN NoFrame
                    ELSE [to |-> IF p.v = 4 THEN neighbor_lookup(p.ip) ELSE Broadcast, ip |-> p.ip, v |-> IF p.v = 4 THEN "ipv4" ELSE "ipv6"]
          /\ ring' = IF p.big /\ Answered(p) /\ Len(ring) < RingSize THEN Append(ring, Icmp) ELSE ring
    /\ outq' = Tail(outq)
    /\ reader' = "start"
    /\ UNCHANGED <<cache, arp, writer, learned>>

Empty ==
    /\ reader = "receive" /\ outq = <<>>
    /\ reader' = "waiting"
    /\ UNCHANGED <<cache, arp, ring, outq, got, writer, learned>>

\* the read event
Signaled ==
    /\ reader = "waiting" /\ outq # <<>>
    /\ reader' = "signaled"
    /\ UNCHANGED <<cache, arp, ring, outq, got, writer, learned>>

\* 100 ms without one
Timeout ==
    /\ reader = "waiting"
    /\ reader' = "start"
    /\ UNCHANGED <<cache, arp, ring, outq, got, writer, learned>>

\* the operating system
SystemSends(p) ==
    /\ Len(outq) < MaxQueued
    /\ outq' = Append(outq, p)
    /\ UNCHANGED <<cache, arp, ring, reader, got, writer, learned>>

SystemReceives ==
    /\ ring # <<>> /\ ring' = Tail(ring)
    /\ UNCHANGED <<cache, arp, outq, reader, got, writer, learned>>

Write ==
    \/ \E m \in Mac : WriteArp(m) \/ \E i \in Ip : WriteIpv4(i, m)
    \/ WriteIpv6 \/ WriteRing

Read == ReadArp \/ NoArp \/ Receive \/ Empty \/ Signaled \/ Timeout

Next == Write \/ Read \/ SystemReceives \/ \E p \in Packets : SystemSends(p)

Spec == Init /\ [][Next]_vars /\ WF_vars(Read)

-----------------------------------------------------------------------------
(* What is checked.                                                        *)

TypeOK ==
    /\ cache \in BoundedSeq([ip : Ip, mac : Mac], CacheSize)
    /\ arp \in Mac \cup {None}
    /\ ring \in BoundedSeq({Data, Icmp}, RingSize)
    /\ reader \in {"start", "receive", "waiting", "signaled"}
    /\ writer \in {None, Data}

\* neighbor_learn leaves at most one entry for an address, and it holds the
\* MAC address that the last frame from there had.
CacheLatest ==
    \A n \in DOMAIN cache : /\ cache[n].mac = learned[cache[n].ip]
                            /\ Entries(cache[n].ip) = {n}
                            /\ cache[n].ip # Own

\* A frame that wintun_read returns goes to everybody or to the MAC address
\* that was last seen with the packet's destination.
SentToLatestStep ==
    got' # got /\ got'.v = "ipv4" => got'.to \in {Broadcast, learned[got'.ip]}

\* Both: what neighbor_learn has left in the cache is what wintun_read uses.
SentToLatest == [](TypeOK /\ CacheLatest) /\ [][SentToLatestStep]_vars

\* The reply that is pending is read, however many packets the system sends.
ReplyPending == arp # None
ReplyReturned == got.v = "arp"

=============================================================================
