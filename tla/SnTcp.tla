-------------------------------- MODULE SnTcp --------------------------------
(***************************************************************************)
(* The supernode's TCP connections: run_sn_loop with its select, its list  *)
(* of connections, the reassembly of packets from the stream, the deferred *)
(* deletion of closed connections, and the edges that are reached through  *)
(* them (sn_utils.c).                                                      *)
(***************************************************************************)
EXTENDS Naturals, Sequences, FiniteSets, FiniteSetsExt

CONSTANTS
    Mac,            \* edges
    Fd,             \* descriptors the supernode can have for connections
    ConnLimit,      \* FD_SETSIZE - 4: as many connections are kept
    BufSize,        \* N2N_SN_PKTBUF_SIZE
    Frames,         \* what edges send: [kind, len]
    MaxConnects, MaxFrames, MaxUdp, MaxReloads     \* bounds on the inputs

Header == 2         \* sizeof(uint16_t), the length in front of each packet

SnTcpAssumption ==
    /\ Fd \subseteq Nat \ (0..3) /\ IsFiniteSet(Fd) /\ ConnLimit \in 0..Cardinality(Fd)
    /\ BufSize \in Nat /\ Header <= BufSize
    /\ Frames \subseteq [kind : STRING, len : Nat]

NoFd == 0           \* not registered, not connected
UdpFd == 1          \* sss->sock
ListenFd == 2       \* sss->tcp_sock
MgmtFd == 3         \* sss->mgmt_sock
Waits == 1          \* an edge in the backlog
Closed == [mac |-> "closed"]

\* A packet on the stream, byte for byte: a byte knows its packet and place.
Bytes(f) == [i \in 1..(Header + f.len) |-> [of |-> f, at |-> i]]

VARIABLES
    conns,          \* tcp_connections, in order of insertion
    edges,          \* socket_fd of each edge that is registered
    sock,           \* the descriptors: unread bytes, end of stream, whose it is
    backlog,        \* connections that wait to be accepted
    client,         \* what each edge has: nothing, a place in the backlog, a connection
    pc, mask, todo, \* the loop: its phase, the ready descriptors, those left to visit
    used            \* the bounds' counters
vars == <<conns, edges, sock, backlog, client, pc, mask, todo, used>>

Init ==
    /\ conns = <<>> /\ edges = [m \in Mac |-> NoFd] /\ sock = [fd \in Fd |-> Closed]
    /\ backlog = <<>> /\ client = [m \in Mac |-> NoFd]
    /\ pc = "select" /\ mask = {} /\ todo = <<>>
    /\ used = [connects |-> 0, frames |-> 0, udp |-> 0, reloads |-> 0]

IsTcp(fd) == fd \in Fd
Use(what, limit) == used[what] < limit /\ used' = [used EXCEPT ![what] = @ + 1]

----------------------------------------------------------------------------
\* The edges' side of the connections (external).
Connect(m) ==
    /\ client[m] = NoFd /\ Use("connects", MaxConnects)
    /\ backlog' = Append(backlog, m) /\ client' = [client EXCEPT ![m] = Waits]
    /\ UNCHANGED <<conns, edges, sock, pc, mask, todo>>
SendFrame(m, f) ==
    /\ IsTcp(client[m]) /\ Use("frames", MaxFrames)
    /\ sock' = [sock EXCEPT ![client[m]].in = @ \o Bytes(f)]
    /\ UNCHANGED <<conns, edges, backlog, client, pc, mask, todo>>
Hangup(m) ==
    /\ IsTcp(client[m])
    /\ sock' = [sock EXCEPT ![client[m]].eof = TRUE]
    /\ client' = [client EXCEPT ![m] = NoFd]
    /\ UNCHANGED <<conns, edges, backlog, pc, mask, todo, used>>

----------------------------------------------------------------------------
\* Mutant: the connection is closed, its edge stays.
CloseKeepingEdges(fds, e, s) ==
    /\ edges' = e
    /\ sock' = [fd \in Fd |-> IF fd \in fds THEN Closed ELSE s[fd]]
    /\ client' = [m \in Mac |-> IF client[m] \in fds THEN NoFd ELSE client[m]]

\* close_tcp_connection for each of fds, from the table e of edges and the
\* descriptors s: the edge on the connection is deleted, the descriptor
\* closed (the other end sees it).
CloseConnections(fds, e, s) ==
    /\ edges' = [m \in Mac |-> IF e[m] \in fds THEN NoFd ELSE e[m]]
    /\ sock' = [fd \in Fd |-> IF fd \in fds THEN Closed ELSE s[fd]]
    /\ client' = [m \in Mac |-> IF client[m] \in fds THEN NoFd ELSE client[m]]

\* ... and the connection marked for deletion.
Deactivate(cs, fds) ==
    [i \in DOMAIN cs |-> IF cs[i].fd \in fds THEN [cs[i] EXCEPT !.inactive = TRUE] ELSE cs[i]]

\* The connections at the places K, in their order: the others are deleted
\* from the list.
Only(cs, K) ==
    [r \in 1..Cardinality(K) |-> cs[CHOOSE i \in K : Cardinality({j \in K : j <= i}) = r]]

\* sendto_fd fails on a connection that the edge has closed, with the length
\* or the data of a packet to one of the edges ms.
MayFail(ms, e) == {e[m] : m \in {x \in ms : IsTcp(e[x]) /\ sock[e[x]].eof}}

\* process_udp on a packet of kind k from edge m that came in on fd, as far
\* as connections are concerned; cs and s are the connections so far.
Process(m, k, fd, cs, s) ==
    LET registered == [edges EXCEPT ![m] = fd]
        Close(fds, e) == conns' = Deactivate(cs, fds) /\ CloseConnections(fds, e, s)
    IN \/ /\ k = "REGISTER_SUPER"
          /\ \E fds \in SUBSET MayFail({m}, registered) : Close(fds, registered)
       \/ /\ k = "PACKET"
          /\ \E fds \in SUBSET MayFail(Mac \ {m}, edges) : Close(fds, edges)
       \/ /\ k \in {"UNREGISTER_SUPER", "ELSEWHERE"}
          /\ Close({edges[m]} \cap Fd, [edges EXCEPT ![m] = NoFd])

\* select.  A closed descriptor in its set makes it fail.
Select ==
    /\ pc = "select"
    /\ IF \E i \in DOMAIN conns : sock[conns[i].fd] = Closed
       THEN pc' = "failed" /\ mask' = {}
       ELSE LET ready == {fd \in Fd : sock[fd] # Closed /\ (sock[fd].in # <<>> \/ sock[fd].eof)}
                other == {x \in {UdpFd, MgmtFd} :
                             IF x = UdpFd THEN used.udp < MaxUdp ELSE used.reloads < MaxReloads}
            IN \E more \in SUBSET other :
                   /\ mask' = ready \cup more \cup (IF backlog = <<>> THEN {} ELSE {ListenFd})
                   /\ pc' = IF mask' = {} THEN "tail" ELSE "udp"
    /\ todo' = IF pc' = "udp" THEN [i \in DOMAIN conns |-> conns[i].fd] ELSE <<>>
    /\ UNCHANGED <<conns, edges, sock, backlog, client, used>>

\* The UDP socket: an edge's packet, or another supernode's report that an
\* edge is registered elsewhere.
UdpInput ==
    /\ pc = "udp" /\ pc' = "tcp"
    /\ IF UdpFd \in mask
       THEN /\ Use("udp", MaxUdp)
            /\ \E m \in Mac, k \in {"REGISTER_SUPER", "PACKET", "UNREGISTER_SUPER", "ELSEWHERE"} :
                   Process(m, k, UdpFd, conns, sock)
       ELSE UNCHANGED <<conns, edges, sock, client, used>>
    /\ UNCHANGED <<backlog, mask, todo>>

\* The third argument of recvfrom: expected - position.
Needed(c) == c.expected - Len(c.buffer)

TooLong(expected) == expected > BufSize

\* The connection at place i is readable: recvfrom returns any part of what
\* is needed.  When the expected bytes are there, either the length is known
\* or the packet is complete.
TcpRead(i) ==
    LET c == conns[i]
        in == sock[c.fd].in
        Close == conns' = Deactivate(conns, {c.fd}) /\ CloseConnections({c.fd}, edges, sock)
    IN IF in = <<>> \/ Needed(c) = 0 THEN Close
       ELSE \E n \in 1..Min({Len(in), Needed(c)}) :
              LET buf == c.buffer \o SubSeq(in, 1, n)
                  rest == [sock EXCEPT ![c.fd].in = SubSeq(in, n + 1, Len(in))]
                  More(e, b) == [conns EXCEPT ![i].expected = e, ![i].buffer = b]
                  KeepReading(e) ==
                      conns' = More(e, buf) /\ sock' = rest /\ UNCHANGED <<edges, client>>
                  total == c.expected + buf[1].of.len
              IN IF Len(buf) # c.expected THEN KeepReading(c.expected)
                 ELSE IF Len(buf) > Header
                 THEN Process(sock[c.fd].mac, buf[1].of.kind, c.fd, More(Header, <<>>), rest)
                 ELSE IF TooLong(total) THEN Close
                 ELSE KeepReading(total)

\* One turn of the loop over the connections; the inactive are passed over.
TcpInput ==
    /\ pc = "tcp" /\ todo # <<>>
    /\ LET i == CHOOSE j \in DOMAIN conns : conns[j].fd = Head(todo)
       IN IF conns[i].inactive \/ Head(todo) \notin mask
          THEN UNCHANGED <<conns, edges, sock, client>>
          ELSE TcpRead(i)
    /\ todo' = Tail(todo)
    /\ UNCHANGED <<backlog, pc, mask, used>>

\* Mutant: the connections marked for deletion stay in the list.
ReapNothing ==
    /\ pc = "tcp" /\ todo = <<>>
    /\ pc' = "accept"
    /\ UNCHANGED <<conns, edges, sock, backlog, client, mask, todo, used>>

\* Removal of the inactive connections.
Reap ==
    /\ pc = "tcp" /\ todo = <<>>
    /\ conns' = Only(conns, {i \in DOMAIN conns : ~conns[i].inactive})
    /\ pc' = "accept"
    /\ UNCHANGED <<edges, sock, backlog, client, mask, todo, used>>

\* A new connection gets the lowest descriptor.  At the limit it is left in
\* the backlog.
Accept ==
    /\ pc = "accept" /\ pc' = "mgmt"
    /\ IF ListenFd \in mask /\ Len(conns) < ConnLimit
       THEN LET fd == Min({x \in Fd : sock[x] = Closed})
                m == Head(backlog)
            IN /\ conns' = Append(conns, [fd |-> fd, inactive |-> FALSE,
                                          expected |-> Header, buffer |-> <<>>])
               /\ sock' = [sock EXCEPT ![fd] = [mac |-> m, in |-> <<>>, eof |-> FALSE]]
               /\ client' = [client EXCEPT ![m] = fd]
               /\ backlog' = Tail(backlog)
       ELSE UNCHANGED <<conns, sock, client, backlog>>
    /\ UNCHANGED <<edges, mask, todo, used>>

\* The management port: reload_communities closes the connection of every
\* edge (load_allowed_sn_community); other commands do not concern them.
Mgmt ==
    /\ pc = "mgmt" /\ pc' = "tail"
    /\ IF MgmtFd \in mask
       THEN LET fds == {edges[m] : m \in Mac} \cap Fd
            IN /\ Use("reloads", MaxReloads)
               /\ conns' = Deactivate(conns, fds)
               /\ CloseConnections(fds, [m \in Mac |-> NoFd], sock)
       ELSE UNCHANGED <<conns, edges, sock, client, used>>
    /\ mask' = {}
    /\ UNCHANGED <<backlog, todo>>

\* select failed: all connections are closed, unless KCP sessions made the
\* timeout shorter than a second.
SelectFailed ==
    /\ pc = "failed" /\ pc' = "tail"
    /\ \/ LET fds == {conns[i].fd : i \in DOMAIN conns}
          IN conns' = Deactivate(conns, fds) /\ CloseConnections(fds, edges, sock)
       \/ UNCHANGED <<conns, edges, sock, client>>
    /\ UNCHANGED <<backlog, mask, todo, used>>

\* purge_peer_list: edges not seen for REGISTRATION_TIMEOUT go, with their
\* connections, which are deleted at once.
Purge(ms) ==
    LET fds == {edges[m] : m \in ms} \cap Fd
    IN /\ CloseConnections(fds, [m \in Mac |-> IF m \in ms THEN NoFd ELSE edges[m]], sock)
       /\ conns' = Only(conns, {i \in DOMAIN conns : conns[i].fd \notin fds})
Housekeeping ==
    /\ pc = "tail" /\ pc' = "select"
    /\ \E ms \in SUBSET {m \in Mac : edges[m] # NoFd} : Purge(ms)
    /\ UNCHANGED <<backlog, mask, todo, used>>

Loop == Select \/ UdpInput \/ TcpInput \/ Reap \/ Accept \/ Mgmt \/ SelectFailed \/ Housekeeping
Next ==
    \/ Loop
    \/ \E m \in Mac : Connect(m) \/ Hangup(m) \/ \E f \in Frames : SendFrame(m, f)

Spec == Init /\ [][Next]_vars

\* The loop never blocks for longer than the timeout of select, and a packet
\* on the stream is read when its connection is readable.
FairSpec == Spec /\ WF_vars(Loop)

----------------------------------------------------------------------------
TypeOK ==
    /\ \A i \in DOMAIN conns :
           /\ conns[i].fd \in Fd /\ conns[i].inactive \in BOOLEAN
           /\ conns[i].expected \in Header..BufSize /\ Len(conns[i].buffer) \in 0..BufSize
    /\ edges \in [Mac -> Fd \cup {NoFd, UdpFd}]
    /\ \A fd \in Fd : sock[fd] # Closed => sock[fd].mac \in Mac /\ sock[fd].eof \in BOOLEAN
    /\ backlog \in Seq(Mac) /\ client \in [Mac -> Fd \cup {NoFd, Waits}]
    /\ pc \in {"select", "udp", "tcp", "accept", "mgmt", "failed", "tail"}
    /\ mask \subseteq Fd \cup {UdpFd, ListenFd, MgmtFd} /\ todo \in Seq(Fd)

\* An edge that is reached through a connection is reached through its own:
\* neither a closed descriptor nor one that accept has given to another edge
\* since stays behind in the table of edges.
EdgeOnOwnConnection ==
    \A m \in Mac : IsTcp(edges[m]) => sock[edges[m]] # Closed /\ sock[edges[m]].mac = m

\* The open descriptors are those of the active connections, one each: none
\* is leaked, used after it was closed, or listed twice.
DescriptorsOwned ==
    LET active == {i \in DOMAIN conns : ~conns[i].inactive}
    IN /\ {fd \in Fd : sock[fd] # Closed} = {conns[i].fd : i \in active}
       /\ \A i, j \in DOMAIN conns : i # j => conns[i].fd # conns[j].fd

\* However the stream is cut into reads, what a connection has collected is
\* the beginning of one packet, from its first byte on.
WholePackets ==
    \A i \in DOMAIN conns :
        LET b == conns[i].buffer
        IN \A j \in DOMAIN b : b[j] = [of |-> b[1].of, at |-> j]

\* "forget about the connection, will be deleted later": a connection marked
\* inactive leaves the list.
Inactive(fd) == \E i \in DOMAIN conns : conns[i].fd = fd /\ conns[i].inactive

\* An edge that connects is accepted, or refused by closing its connection
\* ("close immediately"): it does not wait forever.
Waiting(m) == client[m] = Waits

=============================================================================
