---------------------------- MODULE Federation ----------------------------
(***************************************************************************)
(* What the supernodes of a federation know about the edges of one         *)
(* community: the local registrations (comm->edges), the associations of   *)
(* edges with other supernodes (comm->assoc), and the messages that keep   *)
(* them up to date (process_udp and the periodic purge in sn_utils.c).     *)
(*                                                                         *)
(* The network loses, duplicates, delays and reorders datagrams.  An entry *)
(* has an age, the time since its last_seen.  Edges authenticate by the    *)
(* random token they draw at start (n2n_auth_simple_id), have addresses of *)
(* their own, and the headers are not encrypted: no time stamp is checked. *)
(***************************************************************************)
EXTENDS Naturals, Sequences, FiniteSets

CONSTANTS
    Supernode,
    NoSn,           \* the sender of what an edge sends
    Mac,            \* the edges
    Homes,          \* the assignments of supernodes the edges may start with
    Purgeable,      \* comm->purgeable: not loaded from the community file
    EdgeExpired,    \* the age past REGISTRATION_TIMEOUT
    AssocExpired,   \* the age past 3 * REGISTRATION_TIMEOUT
    MaxMoves,       \* bound: changes of supernode by edges
    MaxRestarts,    \* bound: restarts of edges and supernodes
    MaxInFlight     \* bound: messages under way when an edge registers or asks

ASSUME FederationAssumption ==
    /\ NoSn \notin Supernode /\ Homes \subseteq [Mac -> Supernode] /\ Purgeable \in BOOLEAN
    /\ EdgeExpired \in Nat \ {0} /\ AssocExpired \in Nat \ {0}
    /\ MaxMoves \in Nat /\ MaxRestarts \in Nat /\ MaxInFlight \in Nat

VARIABLES
    home,       \* home[m]: the supernode edge m registers with (eee->curr_sn)
    token,      \* token[m]: its authentication token
    moves,      \* changes of supernode so far
    restarts,   \* restarts of edges and supernodes so far
    comm,       \* the supernodes that have the community
    edges,      \* edges[s]: registrations at s, a function on known MACs
    assoc,      \* assoc[s]: associations at s, in the order of insertion
    net         \* messages under way
edgeVars == <<home, token, moves, restarts>>
snVars == <<comm, edges, assoc>>
vars == <<edgeVars, snVars, net>>

Token == 0..MaxRestarts
Entry == [auth : Token, age : 0..EdgeExpired]
Assoc == [mac : Mac, sn : Supernode, age : 0..AssocExpired]
Message ==
    {msg \in [type : {"reg", "fwd", "nak", "unreg", "query", "info"},
              mac : Mac,    \* the edge it is about
              src : Mac,    \* in a query and its answer: the edge that asks
              tok : Token, from : Supernode \cup {NoSn}, to : Supernode] :
         /\ msg.from # msg.to
         /\ msg.from = NoSn <=> msg.type \in {"reg", "unreg"}
         /\ msg.src # msg.mac <=> msg.type \in {"query", "info"}}

FromEdge(type, m, tok, s) ==
    [type |-> type, mac |-> m, src |-> m, tok |-> tok, from |-> NoSn, to |-> s]

Without(t, m) == [x \in DOMAIN t \ {m} |-> t[x]]
With(t, m, v) == [x \in DOMAIN t \cup {m} |-> IF x = m THEN v ELSE t[x]]

----------------------------------------------------------------------------
\* auth_edge, for the stored token of a known edge.
auth_edge(t, m, tok) == m \in DOMAIN t => t[m].auth = tok

\* update_edge after a successful authentication.
update_edge(t, m, tok, add) ==
    IF m \in DOMAIN t THEN [t EXCEPT ![m].age = 0]
    ELSE IF add THEN With(t, m, [auth |-> tok, age |-> 0]) ELSE t

\* Mutant: what the comment in its last branch says.
AssociationRefreshed(q, m, s) ==
    IF \E i \in 1..Len(q) : q[i].mac = m
    THEN [i \in 1..Len(q) |-> IF q[i].mac = m THEN [mac |-> m, sn |-> s, age |-> 0] ELSE q[i]]
    ELSE Append(q, [mac |-> m, sn |-> s, age |-> 0])

\* An existing association stays as it is.
update_node_supernode_association(q, m, s) ==
    IF \E i \in 1..Len(q) : q[i].mac = m THEN q
    ELSE Append(q, [mac |-> m, sn |-> s, age |-> 0])

\* Mutant: associations do not expire.
AssociationsStay(q) == q

\* Every round of the loop tests the head of the list, and deletes the
\* current element: the head, as long as only heads were deleted.
purge_assoc(q) ==
    LET fresh == {i \in 1..Len(q) : q[i].age < AssocExpired}
    IN IF fresh = {} THEN <<>>
       ELSE SubSeq(q, CHOOSE i \in fresh : \A j \in fresh : i <= j, Len(q))

\* purge_peer_list on comm->edges.
purge_edges(t) == [m \in {x \in DOMAIN t : t[x].age < EdgeExpired} |-> t[m]]

\* try_broadcast to the supernodes sss->federation lists.
Federated(s) == Supernode \ {s}

\* try_forward: where a unicast packet for m goes next.  A packet that comes
\* from a supernode is not passed on to another one.
try_forward(s, m, from_supernode) ==
    IF m \in DOMAIN edges[s] \/ from_supernode THEN {}
    ELSE LET known == {i \in 1..Len(assoc[s]) : assoc[s][i].mac = m}
         IN IF known # {} THEN {assoc[s][i].sn : i \in known} ELSE Federated(s)

----------------------------------------------------------------------------
Init ==
    /\ home \in Homes
    /\ token = [m \in Mac |-> 0]
    /\ moves = 0 /\ restarts = 0
    /\ comm = IF Purgeable THEN {} ELSE Supernode
    /\ edges = [s \in Supernode |-> <<>>]
    /\ assoc = [s \in Supernode |-> <<>>]
    /\ net = {}

\* An edge sends when few messages are under way.
EdgeSends(msgs) ==
    /\ Cardinality(net) < MaxInFlight
    /\ net' = net \cup msgs

\* update_supernode_reg: an edge registers again and again.
SendRegister(m) ==
    /\ EdgeSends({FromEdge("reg", m, token[m], home[m])})
    /\ UNCHANGED <<edgeVars, snVars>>

\* sort_supernodes unregisters from the old supernode, update_supernode_reg
\* gives it up without a word; both register with the new one.
Move(m, s, unregister) ==
    /\ moves < MaxMoves
    /\ s # home[m]
    /\ moves' = moves + 1
    /\ home' = [home EXCEPT ![m] = s]
    /\ net' = net \cup {FromEdge("reg", m, token[m], s)}
                  \cup IF unregister THEN {FromEdge("unreg", m, token[m], home[m])} ELSE {}
    /\ UNCHANGED <<token, restarts, snVars>>

\* An edge ends without unregistering and starts again, with a new token.
Restart(m, s) ==
    /\ restarts < MaxRestarts
    /\ restarts' = restarts + 1
    /\ token' = [token EXCEPT ![m] = restarts']
    /\ home' = [home EXCEPT ![m] = s]
    /\ UNCHANGED <<moves, snVars, net>>

\* A supernode starts again with empty tables.
SupernodeRestart(s) ==
    /\ restarts < MaxRestarts
    /\ restarts' = restarts + 1
    /\ comm' = IF Purgeable THEN comm \ {s} ELSE comm
    /\ edges' = [edges EXCEPT ![s] = <<>>]
    /\ assoc' = [assoc EXCEPT ![s] = <<>>]
    /\ UNCHANGED <<home, token, moves, net>>

\* A message is consumed, unless the network duplicated it.
Rest(msg) == {net, net \ {msg}}

\* MSG_TYPE_REGISTER_SUPER from an edge: registered and forwarded to the other
\* supernodes, or answered by a NAK to the edge, which keeps trying.
RxRegister(msg) ==
    LET s == msg.to
        ok == auth_edge(edges[s], msg.mac, msg.tok)
    IN /\ msg.type = "reg"
       /\ comm' = comm \cup {s}
       /\ edges' = IF ok THEN [edges EXCEPT ![s] = update_edge(@, msg.mac, msg.tok, TRUE)]
                   ELSE edges
       /\ \E rest \in Rest(msg) :
              net' = rest \cup (IF ok THEN {[msg EXCEPT !.type = "fwd", !.from = s, !.to = r] :
                                         r \in Federated(s)} ELSE {})
       /\ UNCHANGED <<edgeVars, assoc>>

\* MSG_TYPE_REGISTER_SUPER from a supernode: the edge is associated with it
\* and no longer ours, or a NAK goes back.
RxForwarded(msg) ==
    LET s == msg.to
        ok == auth_edge(edges[s], msg.mac, msg.tok)
    IN /\ msg.type = "fwd"
       /\ comm' = comm \cup {s}
       /\ edges' = IF ok THEN [edges EXCEPT ![s] =
                                   Without(update_edge(@, msg.mac, msg.tok, FALSE), msg.mac)]
                   ELSE edges
       /\ assoc' = IF ok THEN [assoc EXCEPT ![s] =
                                   update_node_supernode_association(@, msg.mac, msg.from)]
                   ELSE assoc
       /\ \E rest \in Rest(msg) :
              net' = rest \cup (IF ok THEN {}
                         ELSE {[msg EXCEPT !.type = "nak", !.from = s, !.to = msg.from]})
       /\ UNCHANGED edgeVars

\* MSG_TYPE_REGISTER_SUPER_NAK from another supernode: passed on to the edge,
\* which is dropped.
RxNak(msg) ==
    /\ msg.type = "nak"
    /\ edges' = [edges EXCEPT ![msg.to] = Without(@, msg.mac)]
    /\ net' \in Rest(msg)
    /\ UNCHANGED <<edgeVars, comm, assoc>>

\* MSG_TYPE_UNREGISTER_SUPER.
RxUnregister(msg) ==
    /\ msg.type = "unreg"
    /\ edges' = IF auth_edge(edges[msg.to], msg.mac, msg.tok)
                THEN [edges EXCEPT ![msg.to] = Without(@, msg.mac)] ELSE edges
    /\ net' \in Rest(msg)
    /\ UNCHANGED <<edgeVars, comm, assoc>>

\* MSG_TYPE_QUERY_PEER from an edge: not one of ours, the other supernodes
\* are asked.  (An answer to the edge itself changes nothing here.)
Query(m, target) ==
    LET s == home[m]
    IN /\ m # target
       /\ s \in comm /\ target \notin DOMAIN edges[s]
       /\ EdgeSends({[type |-> "query", mac |-> target, src |-> m, tok |-> 0,
                      from |-> s, to |-> r] : r \in Federated(s)})
       /\ UNCHANGED <<edgeVars, snVars>>

\* MSG_TYPE_QUERY_PEER from a supernode: only a local edge is answered for.
RxQuery(msg) ==
    /\ msg.type = "query"
    /\ \E rest \in Rest(msg) :
           net' = rest \cup (IF msg.mac \in DOMAIN edges[msg.to]
                      THEN {[msg EXCEPT !.type = "info", !.from = msg.to, !.to = msg.from]}
                      ELSE {})
    /\ UNCHANGED <<edgeVars, snVars>>

\* MSG_TYPE_PEER_INFO: snooped on, if the edge that asked is still here.
RxPeerInfo(msg) ==
    /\ msg.type = "info"
    /\ assoc' = IF msg.src \in DOMAIN edges[msg.to]
                THEN [assoc EXCEPT ![msg.to] =
                          update_node_supernode_association(@, msg.mac, msg.from)]
                ELSE assoc
    /\ net' \in Rest(msg)
    /\ UNCHANGED <<edgeVars, comm, edges>>

Lose(msg) ==
    /\ net' = net \ {msg}
    /\ UNCHANGED <<edgeVars, snVars>>

\* purge_expired_communities: a purgeable community without local edges is
\* removed with its associations.
Purge(s) ==
    LET t == purge_edges(edges[s])
        gone == Purgeable /\ DOMAIN t = {}
    IN /\ comm' = IF gone THEN comm \ {s} ELSE comm
       /\ edges' = [edges EXCEPT ![s] = t]
       /\ assoc' = [assoc EXCEPT ![s] = IF gone THEN <<>> ELSE purge_assoc(@)]
       /\ UNCHANGED <<edgeVars, net>>

\* Time passes.
Older(age, limit) == IF age < limit THEN age + 1 ELSE age
Tick ==
    /\ edges' = [s \in Supernode |-> [m \in DOMAIN edges[s] |->
                     [edges[s][m] EXCEPT !.age = Older(@, EdgeExpired)]]]
    /\ assoc' = [s \in Supernode |-> [i \in 1..Len(assoc[s]) |->
                     [assoc[s][i] EXCEPT !.age = Older(@, AssocExpired)]]]
    /\ UNCHANGED <<edgeVars, comm, net>>

Rx(msg) ==
    \/ RxRegister(msg) \/ RxForwarded(msg) \/ RxNak(msg) \/ RxUnregister(msg)
    \/ RxQuery(msg) \/ RxPeerInfo(msg)

Next ==
    \/ \E m \in Mac : SendRegister(m)
    \/ \E m \in Mac, s \in Supernode, u \in BOOLEAN : Move(m, s, u)
    \/ \E m \in Mac, s \in Supernode : Restart(m, s)
    \/ \E m, target \in Mac : Query(m, target)
    \/ \E msg \in net : Rx(msg) \/ Lose(msg)
    \/ \E s \in Supernode : SupernodeRestart(s) \/ Purge(s)
    \/ Tick

Spec == Init /\ [][Next]_vars

\* The edges and the main loops of the supernodes keep running, so does time.
\* From some time on the network loses nothing and every copy of a message
\* is delivered sooner or later.
Deliver(msg) == msg \in net /\ Rx(msg) /\ msg \notin net'

Fairness ==
    /\ \A m \in Mac : WF_vars(SendRegister(m))
    /\ \A msg \in Message : WF_vars(Deliver(msg))
    /\ \A s \in Supernode : WF_vars(Purge(s))
    /\ WF_vars(Tick)
    /\ <>[][\A msg \in net : Lose(msg) => Rx(msg)]_vars

LiveSpec == Spec /\ Fairness

----------------------------------------------------------------------------
TypeOK ==
    /\ home \in [Mac -> Supernode] /\ token \in [Mac -> Token]
    /\ moves \in 0..MaxMoves /\ restarts \in 0..MaxRestarts
    /\ comm \subseteq Supernode
    /\ DOMAIN edges = Supernode /\ assoc \in [Supernode -> Seq(Assoc)]
    /\ \A s \in Supernode : /\ DOMAIN edges[s] \subseteq Mac
                            /\ \A m \in DOMAIN edges[s] : edges[s][m] \in Entry
    /\ net \subseteq Message

\* purge_expired_communities looks only at the head of comm->assoc.  That is
\* enough because the list is in the order of age, oldest first: no message,
\* in whatever order, renews or moves an association.
OldestFirst ==
    \A s \in Supernode : \A i, j \in 1..Len(assoc[s]) :
        i < j => assoc[s][i].age >= assoc[s][j].age

\* A supernode associates an edge with another supernode only, and with one
\* only, however often it is forwarded, moved or snooped on; and it knows
\* nothing of a community it has purged.
AssociationsDistinct ==
    \A s \in Supernode :
        /\ \A i, j \in 1..Len(assoc[s]) : assoc[s][i].mac = assoc[s][j].mac => i = j
        /\ \A i \in 1..Len(assoc[s]) : assoc[s][i].sn # s
        /\ s \notin comm => DOMAIN edges[s] = {} /\ assoc[s] = <<>>

\* Both, which purge_expired_communities and try_forward rely on.
AssociationsInOrder == OldestFirst /\ AssociationsDistinct

\* purge_expired_communities removes exactly the expired associations, the
\* first k of the list, unless it removes the community.
PurgeRemovesExpiredStep ==
    \A s \in Supernode : Purge(s) /\ s \in comm' =>
        \E k \in 0..Len(assoc[s]) :
            /\ \A i \in 1..Len(assoc[s]) : assoc[s][i].age = AssocExpired <=> i <= k
            /\ assoc'[s] = SubSeq(assoc[s], k + 1, Len(assoc[s]))

PurgeRemovesExpired == [][PurgeRemovesExpiredStep]_vars

\* A packet for edge m that its sender hands to supernode s gets to m.
Reaches(s, m) ==
    LET h == home[m]
    IN /\ m \in DOMAIN edges[h] /\ edges[h][m].auth = token[m]
       /\ s = h \/ (m \notin DOMAIN edges[s] /\ h \in try_forward(s, m, FALSE))

\* Whatever an edge's moves and restarts left behind (registrations that
\* reject its new token, associations with a supernode it has left, late
\* messages), it becomes reachable from every supernode again.
ReachableAgain == \A s \in Supernode, m \in Mac : []<>Reaches(s, m)

\* What the comment in update_node_supernode_association says, "already there,
\* update socket and time only": a forwarded registration that was accepted
\* leaves the edge associated with the supernode it came from, as of now.
AssociationFollowsRegistration ==
    [][\A msg \in net : RxForwarded(msg) /\ auth_edge(edges[msg.to], msg.mac, msg.tok) =>
           \E i \in 1..Len(assoc'[msg.to]) :
               assoc'[msg.to][i] = [mac |-> msg.mac, sn |-> msg.from, age |-> 0]]_vars

=============================================================================
