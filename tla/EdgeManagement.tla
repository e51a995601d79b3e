--------------------------- MODULE EdgeManagement ---------------------------
(***************************************************************************)
(* The management port of the edge with its subscriptions, and the changes *)
(* of the lists of peers that post events to them.  All of it runs in the  *)
(* edge's one thread.  request is the JSON request that was handled in the *)
(* last step, if any, and sent are the packets of that step.  view and     *)
(* belief are what a client has in mind that reads the list of peers when  *)
(* it subscribes and follows what it is sent from then on.                 *)
(***************************************************************************)
EXTENDS Management

CONSTANTS Clients, Requests, Supernodes, Macs, Socks,
          SockLen,          \* length of a socket as text
          MacChange,        \* whether another MAC address may show up at the socket of a peer
          HeaderEncryption,
          BufSize,          \* of mgmt_event_post2, without the size field
          MaxTrace          \* bound: of the trace level

VARIABLES keep_running, traceLevel,
          subscriber,       \* mgmt_event_subscribers
          known, pending,   \* known_peers and pending_peers
          request, sent, view, belief

state == <<keep_running, traceLevel, subscriber, known, pending, view, belief>>

vars == <<state, request, sent>>

Topics == {"debug", "test", "peer"}

NoSub == [from |-> None, tag |-> NoTag]

NoReq == [type |-> None]

MacsOf(list) == {p.mac : p \in list}

Init ==
    /\ keep_running = TRUE /\ traceLevel = 2
    /\ subscriber = [t \in Topics |-> NoSub]
    /\ known = {} /\ pending = {} /\ request = NoReq /\ sent = <<>>
    /\ view = [c \in Clients |-> {}]
    /\ belief = [c \in Clients |-> [t \in Topics |-> NoTag]]

-----------------------------------------------------------------------------
(* Events.                                                                 *)

\* length of the text of event_test and of event_peer (N2N_EVENT_PEER_... is one digit)
EventLen(tag, val) ==
    tag.len + (IF val[1] = "test" THEN 38 + val[2] ELSE 65 + 1 + 17 + SockLen[val[3]])

\* mgmt_event_post2: the debug topic gets a copy, with the tag of the other
mgmt_event_post(topic, val) ==
    LET to == {t \in {topic, "debug"} : subscriber[t] # NoSub}
        tag == subscriber[IF topic \in to THEN topic ELSE "debug"].tag
        copy(t) == IF t \in to
                   THEN <<[to |-> subscriber[t].from, tag |-> tag, type |-> "event", val |-> val,
                           whole |-> EventLen(tag, val) < BufSize]>>
                   ELSE <<>>
    IN copy(topic) \o copy("debug")

\* what the subscriber of peer knows after the events in evs
Following(V, evs) ==
    LET step(S, e) == IF e[2] = "add" THEN S \cup {e[4]} ELSE S \ {e[4]}
    IN FoldLeft(step, V, evs)

\* events about peers are sent, and followed by the client that has subscribed
PostPeers(evs) ==
    /\ sent' = FlattenSeq([i \in DOMAIN evs |-> mgmt_event_post("peer", evs[i])])
    /\ view' = IF subscriber["peer"] = NoSub THEN view
               ELSE [view EXCEPT ![subscriber["peer"].from] = Following(@, evs)]

Event(action, p) == <<"peer", action, p.sock, p.mac>>

\* register_with_new_peer
WithNewPeer(list, p) == IF p.mac \in MacsOf(list) THEN list ELSE list \cup {p}

PeerStep == request' = NoReq /\ UNCHANGED <<keep_running, traceLevel, subscriber, belief>>

\* check_known_peer_sock_change for a packet that came directly
SockChange(p) ==
    /\ \E q \in known : q.mac = p.mac /\ q.sock # p.sock
         /\ known' = known \ {q} /\ pending' = WithNewPeer(pending, p) /\ PostPeers(<<Event("del", q)>>)
    /\ PeerStep

\* check_peer_registration_needed for a peer that is not known by its MAC address
NewPeer(p) ==
    /\ p.mac \notin MacsOf(known)
    /\ LET same == {q \in known : q.sock = p.sock}
       IN \/ same # {} /\ known' = (known \ same) \cup {p} /\ UNCHANGED pending
          \/ same = {} /\ pending' = WithNewPeer(pending, p) /\ UNCHANGED known
    /\ PostPeers(<<>>) /\ PeerStep

\* peer_set_p2p_confirmed: the answer of a pending peer.  A peer known at the same
\* socket is replaced; the event about it tells of the pending one.
Confirmed(p) ==
    /\ \E scan \in pending :
         /\ scan.mac = p.mac \/ (p.mac \notin MacsOf(pending) /\ scan.sock = p.sock)
         /\ pending' = pending \ {scan}
         /\ \/ \E old \in known : old.sock = p.sock
                 /\ known' = (known \ {old}) \cup {p}
                 /\ PostPeers(<<Event("del", scan), Event("add", p)>>)
            \/ /\ \A old \in known : old.sock # p.sock
               /\ \E sock \in {scan.sock, p.sock} :
                     LET new == [mac |-> scan.mac, sock |-> sock]
                     IN known' = known \cup {new} /\ PostPeers(<<Event("add", new)>>)
    /\ PeerStep

\* find_peer_destination: a known peer that was idle
Idle(p) ==
    /\ p \in known /\ known' = known \ {p} /\ PostPeers(<<Event("del", p)>>)
    /\ UNCHANGED pending /\ PeerStep

\* the wrong version without the event
PurgeQuietly ==
    /\ \E old \in SUBSET known : old # {} /\ known' = known \ old
    /\ PostPeers(<<>>) /\ UNCHANGED pending /\ PeerStep

\* purge_peer_list on known_peers, then on pending_peers
Purge ==
    /\ \E oldKnown \in SUBSET known, oldPending \in SUBSET pending :
          /\ oldKnown \cup oldPending # {}
          /\ known' = known \ oldKnown /\ pending' = pending \ oldPending
          /\ LET purged(S) == [i \in DOMAIN SetToSeq(S) |-> Event("purge", SetToSeq(S)[i])]
             IN PostPeers(purged(oldKnown) \o purged(oldPending))
    /\ PeerStep

-----------------------------------------------------------------------------
(* Requests.                                                               *)

\* mgmt_verbose
NewLevel(req) == IF req.type = "w" /\ req.arg # NoArg THEN req.arg ELSE traceLevel

Cmds == <<"reload_communities", "stop", "verbose", "communities", "edges", "supernodes", "info",
          "timestamps", "packetstats", "post.test", "help", "help.events">>

mgmt_communities(req, tag) ==
    IF HeaderEncryption THEN mgmt_error(req, tag, "noaccess") ELSE Row(req, tag, <<"community">>)

mgmt_supernodes(req, tag) ==
    FlattenSeq([i \in DOMAIN SetToSeq(Supernodes) |-> Row(req, tag, <<"supernode", SetToSeq(Supernodes)[i]>>)])

mgmt_edges_row(req, tag, p, mode) == Row(req, tag, <<"edge", mode, p.mac>>)

mgmt_edges(req, tag) ==
    LET rows(list, mode) == FlattenSeq([i \in DOMAIN SetToSeq(list) |-> mgmt_edges_row(req, tag, SetToSeq(list)[i], mode)])
    IN rows(pending, "pSp") \o rows(known, "p2p")

mgmt_edge_info(req, tag) == Row(req, tag, <<"info">>)

mgmt_timestamps(req, tag) == Row(req, tag, <<"timestamps">>)

mgmt_packetstats(req, tag) ==
    Row(req, tag, <<"transop">>) \o Row(req, tag, <<"p2p">>)
        \o Row(req, tag, <<"super">>) \o Row(req, tag, <<"super_broadcast">>)

\* the length of the text (null) stands for a text that is not there
mgmt_post_test(req, tag) ==
    Row(req, tag, <<"sending">>) \o mgmt_event_post("test", <<"test", IF req.arg = NoArg THEN 6 ELSE req.arg>>)

mgmt_help_events(req, tag) ==
    LET row(t) == Row(req, tag, <<"topic", t, subscriber[t].tag>>)
    IN row("debug") \o row("test") \o row("peer")

\* mgmt_handlers: the commands that may be written, and what the functions send, with
\* the new state for those that change it
Writable == {"reload_communities", "stop", "verbose", "help"}

Rows(req, tag) ==
    CASE req.cmd = "reload_communities" -> mgmt_error(req, tag, "unimplemented")
      [] req.cmd = "stop" -> Row(req, tag, <<"keep_running", req.type # "w" /\ keep_running>>)
      [] req.cmd = "verbose" -> Row(req, tag, <<"traceLevel", NewLevel(req)>>)
      [] req.cmd = "communities" -> mgmt_communities(req, tag)
      [] req.cmd = "edges" -> mgmt_edges(req, tag)
      [] req.cmd = "supernodes" -> mgmt_supernodes(req, tag)
      [] req.cmd = "info" -> mgmt_edge_info(req, tag)
      [] req.cmd = "timestamps" -> mgmt_timestamps(req, tag)
      [] req.cmd = "packetstats" -> mgmt_packetstats(req, tag)
      [] req.cmd = "post.test" -> mgmt_post_test(req, tag)
      [] req.cmd = "help" -> mgmt_help(req, tag, Cmds)
      [] req.cmd = "help.events" -> mgmt_help_events(req, tag)

\* what a client thinks of its subscriptions after the packets it is sent for a request
Believing(B, packets) ==
    LET step(b, p) == IF p.type = "unsubscribed" THEN [b EXCEPT ![p.to][p.val] = NoTag]
                      ELSE IF p.type = "subscribe" THEN [b EXCEPT ![p.to][p.val] = p.tag] ELSE b
    IN FoldLeft(step, B, packets)

\* a new subscription: the client it replaces, which may be the same, is told
SubscribePackets(req, tag) ==
    LET old == subscriber[req.cmd]
    IN (IF old = NoSub THEN <<>>
        ELSE Reply(old, old.tag, "unsubscribed", req.cmd) \o Reply(req, tag, "replacing", req.cmd))
       \o Reply(req, tag, "subscribe", req.cmd)

\* handleMgmtJson for type s
Subscribe(req) ==
    LET init == mgmt_req_init2(req)
    IN /\ init.error = None /\ req.type = "s" /\ req.cmd \in Topics
       /\ request' = req /\ sent' = SubscribePackets(req, init.tag)
       /\ subscriber' = [subscriber EXCEPT ![req.cmd] = [from |-> req.from, tag |-> init.tag]]
       /\ belief' = Believing(belief, sent')
       /\ view' = IF req.cmd = "peer" THEN [view EXCEPT ![req.from] = MacsOf(known)] ELSE view
       /\ UNCHANGED <<keep_running, traceLevel, known, pending>>

\* handleMgmtJson for what is not a subscription
Json(req) ==
    LET init == mgmt_req_init2(req)
    IN /\ ~(init.error = None /\ req.type = "s" /\ req.cmd \in Topics)
       /\ request' = req
       /\ sent' = IF init.error # None THEN mgmt_error(req, init.tag, init.error)
                  ELSE IF req.type = "s" THEN mgmt_error(req, init.tag, "unknowntopic")
                  ELSE IF Refused(req, Range(Cmds), Writable) # None
                       THEN mgmt_error(req, init.tag, Refused(req, Range(Cmds), Writable))
                  ELSE Framed(req, init.tag, Rows(req, init.tag))
       /\ keep_running' = (keep_running /\ ~(Called(req, "stop") /\ req.type = "w"))
       /\ traceLevel' = IF Called(req, "verbose") /\ req.type = "w" /\ req.arg # NoArg THEN req.arg ELSE traceLevel
       /\ UNCHANGED <<subscriber, known, pending, view, belief>>

Text(c, val) == <<Packet(c, NoTag, "text", val)>>

\* stop in clear text, without a reply
TextStop ==
    /\ keep_running' = FALSE /\ request' = NoReq /\ sent' = <<>>
    /\ UNCHANGED <<traceLevel, subscriber, known, pending, view, belief>>

\* +verb and -verb
TextVerb(c) ==
    /\ \/ traceLevel < MaxTrace /\ traceLevel' = traceLevel + 1
       \/ traceLevel' = IF traceLevel > 0 THEN traceLevel - 1 ELSE traceLevel
    /\ request' = NoReq /\ sent' = Text(c, <<"traceLevel", traceLevel'>>)
    /\ UNCHANGED <<keep_running, subscriber, known, pending, view, belief>>

\* help or ?, and the status, with one packet for each peer and each supernode and one
\* for the statistics
TextStatus(c) ==
    /\ request' = NoReq
    /\ \/ sent' = Text(c, <<"help">>)
       \/ sent' = FlattenSeq([i \in DOMAIN SetToSeq(pending) |-> Text(c, <<"pending", SetToSeq(pending)[i].mac>>)])
                  \o FlattenSeq([i \in DOMAIN SetToSeq(known) |-> Text(c, <<"known", SetToSeq(known)[i].mac>>)])
                  \o FlattenSeq([i \in DOMAIN SetToSeq(Supernodes) |-> Text(c, <<"supernode">>)])
                  \o Text(c, <<"peers", pending, known>>)
    /\ UNCHANGED <<keep_running, traceLevel, subscriber, known, pending, view, belief>>

\* readFromMgmtSocket, as long as the main loop runs
Receive ==
    /\ keep_running
    /\ \/ \E req \in Requests : Subscribe(req) \/ Json(req)
       \/ TextStop
       \/ \E c \in Clients : TextVerb(c) \/ TextStatus(c)

\* packets of peers; without MacChange every MAC address has sockets of its own
Peers == {p \in [mac : Macs, sock : Socks] : MacChange \/ p.sock[1] = p.mac}

Next ==
    \/ Receive
    \/ keep_running /\ ((\E p \in Peers : SockChange(p) \/ NewPeer(p) \/ Confirmed(p) \/ Idle(p)) \/ Purge)

Spec == Init /\ [][Next]_vars

-----------------------------------------------------------------------------
(* What is checked.                                                        *)

TypeOK ==
    /\ keep_running \in BOOLEAN /\ traceLevel \in 0 .. MaxTrace
    /\ \A t \in Topics : subscriber[t].from \in Clients \cup {None}
    /\ known \subseteq [mac : Macs, sock : Socks] /\ pending \subseteq [mac : Macs, sock : Socks]
    /\ \A c \in Clients : view[c] \subseteq Macs

\* A client holds itself for the subscriber of a topic exactly if the edge does, with
\* the same tag: whoever is replaced is told so (and gets no more events), whoever
\* replaces itself ends up subscribed.
SubscriberKnows ==
    \A c \in Clients, t \in Topics :
        /\ subscriber[t].from = c => belief[c][t] = subscriber[t].tag
        /\ subscriber[t].from # c => belief[c][t] = NoTag

\* The subscriber of the topic peer, which promises the changes to the peer list, can
\* tell from the events which peers the edge talks to directly.
FollowerAgrees ==
    \A c \in Clients : subscriber["peer"].from = c => view[c] = MacsOf(known)

\* A JSON request changes something only with the password.
ChangeNeedsPasswordStep ==
    request' # NoReq /\ <<keep_running, traceLevel, subscriber>>' # <<keep_running, traceLevel, subscriber>>
        => Key(request') = Password

\* The answer to a JSON request is complete for its client, with the events of other
\* topics in between, and shows the state after the change.
AnswerFramedStep ==
    request' # NoReq =>
        /\ IsFramed(SelectSeq(sent', LAMBDA p : p.type \notin {"event", "unsubscribed"}))
        /\ \A i \in DOMAIN sent' :
              sent'[i].type = "row" =>
                 /\ sent'[i].val[1] = "traceLevel" => sent'[i].val[2] = traceLevel'
                 /\ sent'[i].val[1] = "keep_running" => sent'[i].val[2] = keep_running'

=============================================================================
