--------------------------- MODULE EdgeRegister ---------------------------
(***************************************************************************)
(* How an edge chooses and keeps a supernode: its list of supernodes       *)
(* (conf.supernodes) with what it knows of each, the one it registers with *)
(* (curr_sn), and the cookies that match REGISTER_SUPER and its answers    *)
(* (update_supernode_reg, sort_supernodes, process_udp in edge_utils.c).   *)
(*                                                                         *)
(* The edge registers over UDP and may not fall back to TCP; the choice of *)
(* the transport is the subject of EdgeTransport.  A supernode is named by *)
(* its address; it is also the value of its MAC.  Headers are not          *)
(* encrypted.  Datagrams are lost, duplicated, delayed and reordered.      *)
(***************************************************************************)
EXTENDS Naturals, Sequences, FiniteSets, SequencesExt

CONSTANTS
    Supernode,
    NoMac,          \* null_mac: the MAC is not known yet
    Lists,          \* the lists of supernodes the edge may start with
    Ups,            \* the sets of supernodes that may be the ones that answer
    Attempts,       \* N2N_EDGE_SUP_ATTEMPTS
    Measures,       \* the different criteria that PONGs yield
    MaxInFlight     \* bound: messages under way when the edge sends

ASSUME EdgeRegisterAssumption ==
    /\ NoMac \notin Supernode
    /\ Lists \subseteq Seq(Supernode) /\ \A l \in Lists : l # <<>> /\ IsInjective(l)
    /\ Ups \subseteq SUBSET Supernode
    /\ Attempts \in Nat /\ Measures \in Nat \ {0} /\ MaxInFlight \in Nat

\* selection_criterion: what a PONG yields, and the values of
\* sn_selection_criterion_good, _default and _bad, in ascending order.
Measured == 1..Measures
Good == Measures + 1
Default == Measures + 2
Bad == Measures + 3

\* Enough for a fresh one at any time.
Cookie == 0..(MaxInFlight + 3)

VARIABLES
    list,           \* conf.supernodes in the order of iteration
    mac,            \* mac[s]: the MAC recorded for the entry of address s
    crit,           \* selection_criterion of the entry
    last_cookie,    \* last_cookie of the entry
    curr_sn,
    sn_wait,
    sup_attempts,
    active,         \* register_super_request_active
    cookie,         \* register_super_cookie
    recent,         \* edge_recent_supernode_udp_activity
    accepted,       \* the cookie of the last accepted ACK (history)
    up,             \* the supernodes that answer
    net             \* messages under way
entries == <<list, mac, crit, last_cookie>>
request == <<curr_sn, sn_wait, sup_attempts, active, cookie>>
vars == <<entries, request, recent, accepted, up, net>>

Message == [type : {"reg", "ack", "nak", "pong"}, sn : Supernode, cookie : Cookie]

----------------------------------------------------------------------------

\* HASH_DEL and HASH_ADD of an entry: it comes last.
ToEnd(l, s) ==
    IF s \in ToSet(l)
    THEN Append(RemoveAt(l, CHOOSE i \in DOMAIN l : l[i] = s), s)
    ELSE Append(l, s)

\* The place of the entry l[i] in the sorted list: after the entries of lower
\* criterion and after those of the same one that precede it.
Before(l, c, j, i) == c[l[j]] < c[l[i]] \/ (c[l[j]] = c[l[i]] /\ j <= i)
Rank(l, c, i) == Cardinality({j \in DOMAIN l : Before(l, c, j, i)})

\* Mutant: the comparison is the wrong way round.
SortDescending(l, c) ==
    [k \in DOMAIN l |-> l[CHOOSE i \in DOMAIN l :
                              Rank(l, [s \in Supernode |-> Bad - c[s]], i) = k]]

\* sn_selection_sort: ascending, entries of the same criterion keep their order.
sn_selection_sort(l, c) ==
    [k \in DOMAIN l |-> l[CHOOSE i \in DOMAIN l : Rank(l, c, i) = k]]

\* n2n_rand: not a cookie that could be mistaken for another one.
Fresh ==
    LET used == {m.cookie : m \in net} \cup {last_cookie[curr_sn], cookie, accepted}
    IN CHOOSE c \in Cookie : c \notin used

\* A request is continued with its cookie.
RequestCookie == IF active THEN cookie ELSE Fresh

\* send_register_super, to s; other messages go out with it.
send_register_super(s, msgs) ==
    /\ active' = TRUE
    /\ cookie' = RequestCookie
    /\ last_cookie' = [last_cookie EXCEPT ![s] = cookie']
    /\ net' = net \cup {[type |-> "reg", sn |-> s, cookie |-> cookie']} \cup msgs

----------------------------------------------------------------------------
Init ==
    /\ list \in Lists
    /\ mac = [s \in Supernode |-> NoMac]
    /\ crit = [s \in Supernode |-> Default]
    /\ last_cookie = [s \in Supernode |-> 0]
    /\ curr_sn = Head(list)
    /\ sn_wait = TRUE
    /\ sup_attempts = Attempts
    /\ active = FALSE /\ cookie = 0
    /\ recent = FALSE
    /\ accepted = 0
    /\ up \in Ups
    /\ net = {}

\* update_supernode_reg with attempts left.
Register ==
    /\ Cardinality(net) < MaxInFlight
    /\ sup_attempts > 0
    /\ sup_attempts' = sup_attempts - 1
    /\ sn_wait' = TRUE
    /\ send_register_super(curr_sn, {})
    /\ UNCHANGED <<list, mac, crit, curr_sn, recent, accepted, up>>

\* update_supernode_reg without: there was traffic over UDP, though.
Defer ==
    /\ sup_attempts = 0 /\ recent
    /\ sn_wait' = FALSE
    /\ sup_attempts' = Attempts
    /\ UNCHANGED <<entries, curr_sn, active, cookie, recent, accepted, up, net>>

\* update_supernode_reg gives up on curr_sn and registers with the next one.
GiveUp ==
    /\ Cardinality(net) < MaxInFlight
    /\ sup_attempts = 0 /\ ~recent
    /\ crit' = [crit EXCEPT ![curr_sn] = Bad]
    /\ list' = sn_selection_sort(list, crit')
    /\ curr_sn' = Head(list')
    /\ sup_attempts' = Attempts
    /\ sn_wait' = TRUE
    /\ send_register_super(curr_sn', {})
    /\ UNCHANGED <<mac, recent, accepted, up>>

\* sort_supernodes: go to the best supernode, set the criteria back, and ping.
\* The answers of the supernodes that are up are under way at once.
Sweep ==
    LET sorted == IF sn_wait THEN list ELSE sn_selection_sort(list, crit)
        best == Head(sorted)
        pongs == {[type |-> "pong", sn |-> s, cookie |-> 0] : s \in up \cap ToSet(list)}
    IN /\ Cardinality(net) < MaxInFlight
       /\ list' = sorted
       /\ crit' = [s \in Supernode |-> IF s = best THEN Good ELSE Default]
       /\ curr_sn' = best
       /\ IF best # curr_sn
          THEN /\ sup_attempts' = Attempts
               /\ sn_wait' = TRUE
               /\ send_register_super(best, pongs)
          ELSE /\ net' = net \cup pongs
               /\ UNCHANGED <<sup_attempts, sn_wait, active, cookie, last_cookie>>
       /\ UNCHANGED <<mac, recent, accepted, up>>

\* The supernode answers with the cookie of the REGISTER_SUPER.
SupernodeAnswers(msg) ==
    /\ msg.type = "reg" /\ msg.sn \in up
    /\ \E answer \in {"ack", "nak"} :
           net' = (net \ {msg}) \cup {[msg EXCEPT !.type = answer]}
    /\ UNCHANGED <<entries, request, recent, accepted, up>>

\* An answer is consumed, unless the network duplicated it.
Rest(msg) == {net, net \ {msg}}

\* add_sn_to_list_by_mac_or_sock finds an entry by the MAC s: one of these.
WithMac(l, k, s) == {x \in ToSet(l) : k[x] = s}

\* Mutant: the ACK leaves the request open.
RequestStaysOpen == [active |-> active, cookie |-> cookie]

\* edge_reset_register_super_request.
RequestReset == [active |-> FALSE, cookie |-> 0]

\* MSG_TYPE_REGISTER_SUPER_ACK.  It lists other supernodes, one at most: one
\* the edge knows by its MAC changes nothing, another one is found by its
\* address or added, and comes last.
RxAck(msg) ==
    /\ msg.type = "ack"
    /\ net' \in Rest(msg)
    /\ IF sn_wait /\ msg.cookie = last_cookie[curr_sn]
       THEN LET learns == mac[curr_sn] = NoMac
                l == IF learns THEN ToEnd(list, curr_sn) ELSE list
                k == IF learns THEN [mac EXCEPT ![curr_sn] = msg.sn] ELSE mac
            IN /\ \/ list' = l /\ mac' = k /\ crit' = crit
                  \/ \E s \in Supernode \ {msg.sn} :
                         /\ WithMac(l, k, s) = {}
                         /\ list' = ToEnd(l, s)
                         /\ mac' = [k EXCEPT ![s] = s]
                         /\ crit' = IF s \in ToSet(l) THEN crit ELSE [crit EXCEPT ![s] = Default]
               /\ sn_wait' = FALSE
               /\ active' = RequestReset.active /\ cookie' = RequestReset.cookie
               /\ sup_attempts' = Attempts
               /\ recent' = TRUE
               /\ accepted' = msg.cookie
               /\ UNCHANGED <<last_cookie, curr_sn>>
       ELSE UNCHANGED <<entries, request, recent, accepted>>
    /\ UNCHANGED up

\* MSG_TYPE_REGISTER_SUPER_NAK.
RxNak(msg) ==
    /\ msg.type = "nak"
    /\ net' \in Rest(msg)
    /\ IF sn_wait /\ msg.cookie = last_cookie[curr_sn]
       THEN active' = RequestReset.active /\ cookie' = RequestReset.cookie
       ELSE UNCHANGED <<active, cookie>>
    /\ UNCHANGED <<entries, curr_sn, sn_wait, sup_attempts, recent, accepted, up>>

\* MSG_TYPE_PEER_INFO with the null MAC: the entry is found by the MAC of the
\* supernode, or by its address, which then gets the MAC and comes last.
RxPong(msg) ==
    LET known == WithMac(list, mac, msg.sn)
    IN /\ msg.type = "pong"
       /\ net' = net \ {msg}
       /\ \E s \in IF known # {} THEN known ELSE {msg.sn}, c \in Measured :
              crit' = [crit EXCEPT ![s] = c]
       /\ list' = IF known # {} THEN list ELSE ToEnd(list, msg.sn)
       /\ mac' = IF known # {} THEN mac ELSE [mac EXCEPT ![msg.sn] = msg.sn]
       /\ recent' = TRUE
       /\ UNCHANGED <<last_cookie, request, accepted, up>>

\* Silence for N2N_SUPERNODE_UDP_ACTIVITY_GRACE_SECS.
Silence ==
    /\ recent
    /\ recent' = FALSE
    /\ UNCHANGED <<entries, request, accepted, up, net>>

Lose(msg) ==
    /\ net' = net \ {msg}
    /\ UNCHANGED <<entries, request, recent, accepted, up>>

Rx(msg) == SupernodeAnswers(msg) \/ RxAck(msg) \/ RxNak(msg) \/ RxPong(msg)

Next ==
    \/ Register \/ Defer \/ GiveUp \/ Sweep \/ Silence
    \/ \E msg \in net : Rx(msg) \/ Lose(msg)

Spec == Init /\ [][Next]_vars

\* The edge's main loop runs and time passes.  A message is delivered or lost;
\* from some time on, those of the supernodes that are up are not lost, and
\* they are ACKs.  The sweeps, one every SWEEP_TIME, do not always
\* fall into the times between a REGISTER_SUPER and its answer.
Fairness ==
    /\ SF_vars(Register \/ Defer \/ GiveUp) /\ SF_vars(Sweep) /\ SF_vars(~sn_wait /\ Sweep)
    /\ WF_vars(Silence)
    /\ WF_vars(\E msg \in net : net' = net \ {msg} /\ (Rx(msg) \/ Lose(msg)))
    /\ WF_vars(\E msg \in net : SupernodeAnswers(msg))
    /\ <>[][\A msg \in net : /\ Lose(msg) => Rx(msg) \/ msg.sn \notin up
                             /\ msg.type = "reg" => [msg EXCEPT !.type = "nak"] \notin net']_vars

LiveSpec == Spec /\ Fairness

----------------------------------------------------------------------------
TypeOK ==
    /\ list \in Seq(Supernode) /\ list # <<>> /\ IsInjective(list)
    /\ curr_sn \in ToSet(list)
    /\ mac \in [Supernode -> Supernode \cup {NoMac}]
    /\ crit \in [Supernode -> Measured \cup {Good, Default, Bad}]
    /\ last_cookie \in [Supernode -> Cookie]
    /\ sn_wait \in BOOLEAN /\ sup_attempts \in 0..Attempts
    /\ active \in BOOLEAN /\ cookie \in Cookie
    /\ recent \in BOOLEAN /\ accepted \in Cookie
    /\ up \subseteq Supernode /\ net \subseteq Message

\* The answer to the request under way is recognised: whatever made the edge
\* change its supernode (give-up or sort_supernodes), the entry it compares
\* answers with holds the cookie of the request.
CookieOfCurrent == active => last_cookie[curr_sn] = cookie

\* An ACK completes a registration once: late copies of it, and ACKs that
\* other supernodes gave to the same request, are not taken for the answer
\* to a later one.
AcceptedOnceStep == \A msg \in net : RxAck(msg) /\ sn_wait /\ ~sn_wait' => msg.cookie # accepted

\* Both: an edge takes the answer to the request it has under way, and every
\* answer once.
AnswersMatched == [](TypeOK /\ CookieOfCurrent) /\ [][AcceptedOnceStep]_vars

\* As long as one supernode of the list answers, the edge keeps being
\* registered with one that does: give-ups, sorts, and the criteria that are
\* set back by every sweep do not make it stay with silent ones.
RegistersWithLive ==
    [](up \cap ToSet(list) # {} => <>(~sn_wait /\ curr_sn \in up))

=============================================================================
