----------------------------- MODULE RouteTool -----------------------------
(***************************************************************************)
(* The tool n2n-route (src/tools/n2n-route.c).  It routes all traffic, or  *)
(* the networks of its options, via a VPN gateway.  Traffic to the peers   *)
(* and supernodes of the local edge must not take that way: the tool asks  *)
(* the management port of the edge for their addresses, and adds a host    *)
(* route via the original default gateway for each.  When the tool ends it *)
(* removes what it added.                                                  *)
(*                                                                         *)
(* The system's routing table, the edge and the network are external.      *)
(* Times are ages in ticks, which stop growing once they are past their    *)
(* interval.                                                               *)
(***************************************************************************)
EXTENDS Integers, Sequences, SequencesExt, FiniteSets

CONSTANTS Platform,          \* "linux" or "windows"
          Gateways,          \* default gateways of the local network
          Vpn,               \* the VPN gateway
          Hosts,             \* addresses of peers and supernodes
          EdgeIp,            \* the edge's address in the VPN
          OptionLists,       \* command lines
          Foreign,           \* routes of others in the system's table
          InfoTags,          \* tags drawn for the info request
          RouteTags,         \* tags drawn for the edges and supernodes requests
          GatewayInterval, InfoInterval, RefreshInterval, PurgeInterval,
          RemoveRouteAge,    \* the intervals of the tool, in ticks
          Faults,            \* what may change: "down", "up", "peers", "edge"
          MaxChanges,        \* bound: changes of the network and the edge
          MaxInbox           \* bound: answers that wait at the tool's socket

VARIABLES conf,      \* n2n_route_conf_t without the list of routes
          routes,    \* rrr.routes
          age,       \* time since each of the last_... of main
          tag,       \* tag_info and tag_route_ip
          edge,      \* the edge's address as far as known
          addr_tmp,  \* result of the last search for the default gateway
          inbox,     \* answers at the socket, not received yet
          keep_running,
          pc,
          sys,       \* the system's routing table but for the default route
          default,   \* gateway of the system's default route, or NoAddr
          link,      \* the network is up
          peers,     \* addresses that the edge lists
          edge_up,   \* the edge runs
          changes

vars == <<conf, routes, age, tag, edge, addr_tmp, inbox, keep_running, pc,
          sys, default, link, peers, edge_up, changes>>

env == <<default, link, peers, edge_up, changes>>

----------------------------------------------------------------------------
(* Addresses, routes and the system's table.                               *)

NoAddr == "none"          \* INADDR_NONE
Lower == "0.0.0.0"        \* LOWER_HALF, also what an unset socket prints as
Upper == "128.0.0.0"      \* UPPER_HALF
Never == -1               \* last_seen of a route no answer has named

inet_address_valid(a) == a # NoAddr

\* fill_route, for a route that is still unpurgeable and not seen.
Route(net, mask, gateway) ==
    [net |-> net, mask |-> mask, gateway |-> gateway, purgeable |-> FALSE, seen |-> Never]

Entry(r) == [net |-> r.net, mask |-> r.mask, gateway |-> r.gateway]

\* The kernel refuses a second route to a network, and one via a gateway that
\* it cannot reach.
Reachable(g) == g = Vpn \/ (link /\ g \in Gateways)

Add(table, r) ==
    IF Reachable(r.gateway) /\ ~ \E e \in table : e.net = r.net /\ e.mask = r.mask
    THEN table \union {Entry(r)} ELSE table

\* handle_route of every route of a set; failures are only reported.
AddAll(table, rs) == FoldSet(LAMBDA r, t : Add(t, r), table, rs)

DelAll(table, rs) == table \ {Entry(r) : r \in rs}

----------------------------------------------------------------------------
(* Options.                                                                *)

\* Mutant: an invalid gateway also ends the detection.
set_optionAny(c, o) ==
    CASE o.key = "g" -> [c EXCEPT !.gateway_org = o.addr, !.gateway_detect = FALSE]
      [] o.key = "n" /\ inet_address_valid(o.net) ->
            [c EXCEPT !.nets = @ \union {Route(o.net, o.mask, o.addr)}]
      [] OTHER -> [c EXCEPT !.help = TRUE]

\* The options of the tool: -g with an address, -n with a network and maybe a
\* gateway, or one whose value is refused.
set_option(c, o) ==
    CASE o.key = "g" -> [c EXCEPT !.gateway_org = o.addr,
                                  !.gateway_detect = @ /\ ~ inet_address_valid(o.addr)]
      [] o.key = "n" /\ inet_address_valid(o.net) ->
            [c EXCEPT !.nets = @ \union {Route(o.net, o.mask, o.addr)}]
      [] OTHER -> [c EXCEPT !.help = TRUE]

InitConf == [gateway_org |-> NoAddr, gateway_detect |-> TRUE, nets |-> {}, help |-> FALSE]

Expired(interval) == interval + 1

Init == /\ conf \in {FoldLeft(set_option, InitConf, o) : o \in OptionLists}
        /\ routes = {}
        /\ age = [gateway |-> Expired(GatewayInterval), info |-> Expired(InfoInterval),
                  read |-> Expired(RefreshInterval), purge |-> Expired(PurgeInterval)]
        /\ tag = [info |-> 0, route |-> 0]
        /\ edge = NoAddr
        /\ addr_tmp = NoAddr
        /\ inbox = <<>>
        /\ keep_running = TRUE
        /\ pc = "start"
        /\ sys = Foreign
        /\ default \in Gateways \union {NoAddr}
        /\ link = (default # NoAddr)
        /\ peers = Hosts
        /\ edge_up = TRUE
        /\ changes = 0

----------------------------------------------------------------------------
(* main.                                                                   *)

\* If nothing else is set, both halves of the addresses go via the VPN.
FirstRoutes ==
    IF conf.nets = {} THEN {Route(Lower, 1, Vpn), Route(Upper, 1, Vpn)}
    ELSE {[r EXCEPT !.gateway = IF inet_address_valid(@) THEN @ ELSE Vpn] : r \in conf.nets}

Start ==
    /\ pc = "start"
    /\ IF conf.help
       THEN pc' = "done" /\ UNCHANGED <<routes, sys>>
       ELSE /\ routes' = FirstRoutes
            /\ sys' = AddAll(sys, FirstRoutes)
            /\ pc' \in {"loop", "end"}        \* connect_to_management_port may fail
    /\ UNCHANGED <<conf, age, tag, edge, addr_tmp, inbox, keep_running, env>>

\* The search on Linux when there is no default route: any route with a gateway
\* will do, and the excluded one is left in the result when nothing follows.
SearchLinux ==
    LET others == {e.gateway : e \in sys} \ {Vpn}
    IN CASE others # {} -> others
         [] sys # {} /\ others = {} -> {Vpn}
         [] OTHER -> {addr_tmp}

\* On Windows only routes to 0.0.0.0 count.
SearchWindows ==
    LET others == {e.gateway : e \in {x \in sys : x.net = Lower}} \ {Vpn}
    IN IF others # {} THEN others ELSE {addr_tmp}

\* The default route comes first in the table.
find_default_gateway ==
    IF inet_address_valid(default) THEN {default}
    ELSE IF Platform = "linux" THEN SearchLinux ELSE SearchWindows

Purgeable == {r \in routes : r.purgeable}

\* A changed default gateway makes all routes to peers void.
CheckGateway ==
    /\ pc = "loop" /\ keep_running
    /\ pc' = "info"
    /\ IF conf.gateway_detect /\ age.gateway > GatewayInterval
       THEN \E g \in find_default_gateway :
              /\ addr_tmp' = g
              /\ IF g # conf.gateway_org
                 THEN /\ conf' = [conf EXCEPT !.gateway_org = g]
                      /\ sys' = DelAll(sys, Purgeable)
                      /\ routes' = routes \ Purgeable
                      /\ age' = [age EXCEPT !.gateway = 0, !.info = Expired(InfoInterval),
                                            !.read = Expired(RefreshInterval)]
                 ELSE /\ age' = [age EXCEPT !.gateway = 0]
                      /\ UNCHANGED <<conf, sys, routes>>
       ELSE UNCHANGED <<conf, routes, age, addr_tmp, sys>>
    /\ UNCHANGED <<tag, edge, inbox, keep_running, env>>

\* The rows of the edge's answers, with the fields that the tool looks for.
InfoRow(t) == [tag |-> t, ip4addr |-> EdgeIp, sockaddr |-> Lower]
PeerRow(t, h) == [tag |-> t, ip4addr |-> NoAddr, sockaddr |-> h]

Answered(rows) == inbox' = IF edge_up THEN inbox \o rows ELSE inbox

SendInfo ==
    /\ pc = "info"
    /\ pc' = "read"
    /\ IF age.info > InfoInterval
       THEN /\ \E t \in InfoTags :
                  tag' = [tag EXCEPT !.info = t] /\ Answered(<<InfoRow(t)>>)
            /\ age' = [age EXCEPT !.info = 0]
       ELSE UNCHANGED <<tag, age, inbox>>
    /\ UNCHANGED <<conf, routes, edge, addr_tmp, keep_running, sys, env>>

\* Peers are asked for only once the address of the edge is known.
SendRead ==
    /\ pc = "read"
    /\ pc' = "purge"
    /\ IF age.read > RefreshInterval /\ inet_address_valid(edge)
       THEN /\ \E t \in RouteTags :
                  /\ tag' = [tag EXCEPT !.route = t]
                  /\ Answered(SetToSeq({PeerRow(t, h) : h \in peers}))
            /\ age' = [age EXCEPT !.read = 0]
       ELSE UNCHANGED <<tag, age, inbox>>
    /\ UNCHANGED <<conf, routes, edge, addr_tmp, keep_running, sys, env>>

Old == {r \in Purgeable : r.seen > RemoveRouteAge}

Purge ==
    /\ pc = "purge"
    /\ pc' = "select"
    /\ IF age.purge > PurgeInterval
       THEN /\ age' = [age EXCEPT !.purge = 0]
            /\ sys' = DelAll(sys, Old)
            /\ routes' = routes \ Old
       ELSE UNCHANGED <<age, routes, sys>>
    /\ UNCHANGED <<conf, tag, edge, addr_tmp, inbox, keep_running, env>>

\* get_addr_from_json finds the address and the tag asked for.
Matches(row, t) == t # 0 /\ row.tag = t

\* An answer to the info request tells the edge's address.
EdgeSeen(row) == IF Matches(row, tag.info) THEN row.ip4addr ELSE edge

Found(a) == {r \in routes : r.net = a}

\* A row with the tag of the read requests tells an address to be routed via
\* the default gateway; the system is told only of addresses not seen before.
Routed(a) ==
    \E old \in IF Found(a) = {} THEN {Route(a, 32, conf.gateway_org)} ELSE Found(a) :
        LET new == [old EXCEPT !.mask = 32, !.gateway = conf.gateway_org,
                               !.purgeable = TRUE, !.seen = 0]
        IN /\ routes' = (routes \ {old}) \union {new}
           /\ sys' = IF old.seen = Never THEN Add(sys, new) ELSE sys

Receive ==
    /\ pc \in {"select", "late"} /\ inbox # <<>>
    /\ LET row == Head(inbox)
       IN /\ edge' = EdgeSeen(row)
          /\ IF Matches(row, tag.route)
             THEN Routed(row.sockaddr) ELSE UNCHANGED <<routes, sys>>
    /\ inbox' = Tail(inbox)
    /\ pc' = "loop"
    /\ UNCHANGED <<conf, age, tag, addr_tmp, keep_running, env>>

Older(a, interval) == IF a > interval THEN a ELSE a + 1

\* select waits, for its timeout or for an answer that is late.
Wait ==
    /\ pc = "select" /\ Len(inbox) < MaxInbox
    /\ age' = [gateway |-> Older(age.gateway, GatewayInterval),
               info |-> Older(age.info, InfoInterval),
               read |-> Older(age.read, RefreshInterval),
               purge |-> Older(age.purge, PurgeInterval)]
    /\ routes' = {[r EXCEPT !.seen = IF @ = Never THEN @ ELSE Older(@, RemoveRouteAge)]
                  : r \in routes}
    /\ pc' = IF inbox = <<>> THEN "loop" ELSE "late"
    /\ UNCHANGED <<conf, tag, edge, addr_tmp, inbox, keep_running, sys, env>>

\* A key was hit, or the loop was told to stop.
Leave ==
    /\ pc = "loop"
    /\ pc' = "end"
    /\ UNCHANGED <<conf, routes, age, tag, edge, addr_tmp, inbox, keep_running, sys, env>>

\* Mutant: only the routes of the options are deleted.
EndUnpurgeable ==
    /\ pc = "end"
    /\ sys' = DelAll(sys, routes \ Purgeable)
    /\ routes' = {}
    /\ pc' = "done"
    /\ UNCHANGED <<conf, age, tag, edge, addr_tmp, inbox, keep_running, env>>

End ==
    /\ pc = "end"
    /\ sys' = DelAll(sys, routes)
    /\ routes' = {}
    /\ pc' = "done"
    /\ UNCHANGED <<conf, age, tag, edge, addr_tmp, inbox, keep_running, env>>

\* term_handler: the second signal ends the tool on the spot.
Signal ==
    /\ pc \notin {"start", "done", "killed"}
    /\ keep_running' = FALSE
    /\ pc' = IF keep_running THEN pc ELSE "killed"
    /\ UNCHANGED <<conf, routes, age, tag, edge, addr_tmp, inbox, sys, env>>

----------------------------------------------------------------------------
(* The network and the edge.                                               *)

Change(what) ==
    /\ what \in Faults /\ pc \notin {"done", "killed"}
    /\ changes < MaxChanges /\ changes' = changes + 1

ToolUnchanged == UNCHANGED <<conf, routes, age, tag, edge, addr_tmp, inbox, keep_running, pc>>

\* With the link the system loses the routes that use it; the VPN stays.
LinkDown ==
    /\ Change("down") /\ link
    /\ link' = FALSE /\ default' = NoAddr
    /\ sys' = {e \in sys : e.gateway = Vpn}
    /\ ToolUnchanged /\ UNCHANGED <<peers, edge_up>>

LinkUp ==
    /\ Change("up") /\ ~ link
    /\ link' = TRUE /\ default' \in Gateways
    /\ ToolUnchanged /\ UNCHANGED <<sys, peers, edge_up>>

PeersChange ==
    /\ Change("peers")
    /\ peers' \in SUBSET Hosts \ {peers}
    /\ ToolUnchanged /\ UNCHANGED <<sys, default, link, edge_up>>

EdgeToggle ==
    /\ Change("edge")
    /\ edge_up' = ~ edge_up
    /\ ToolUnchanged /\ UNCHANGED <<sys, default, link, peers>>

Tool == Start \/ CheckGateway \/ SendInfo \/ SendRead \/ Purge \/ Receive \/ Wait

Next == Tool \/ Leave \/ End \/ Signal
        \/ LinkDown \/ LinkUp \/ PeersChange \/ EdgeToggle

Spec == Init /\ [][Next]_vars

\* The loop goes on, and select returns at the latest with its timeout.
FairSpec == Spec /\ WF_vars(Tool)

----------------------------------------------------------------------------
(* Properties.                                                             *)

Addrs == Gateways \union {Vpn, NoAddr}

\* The state is made of the values that the tool and the system store.
TypeOK ==
    /\ conf.gateway_org \in Addrs /\ conf.gateway_detect \in BOOLEAN
    /\ \A r \in routes : r.gateway \in Addrs /\ r.seen \in -1 .. Expired(RemoveRouteAge)
    /\ age.gateway \in 0 .. Expired(GatewayInterval) /\ age.info \in 0 .. Expired(InfoInterval)
    /\ age.read \in 0 .. Expired(RefreshInterval) /\ age.purge \in 0 .. Expired(PurgeInterval)
    /\ edge \in {NoAddr, EdgeIp}
    /\ addr_tmp \in Addrs
    /\ default \in Addrs

\* All routes to peers use the default gateway in force: routes added before
\* it changed never stay in the list (main, the check of the gateway).
ViaOriginal == \A r \in Purgeable : r.gateway = conf.gateway_org

\* When the tool has ended properly, none of the routes it added is left in
\* the system's table (end_route_tool in main).
Restored == pc = "done" => sys \subseteq Foreign

\* A route that was in the system's table before is removed by no step of
\* the tool (handle_route); a link that goes down takes its routes with it.
ForeignKeptStep ==
    link' = link => (sys \intersect Foreign) \subseteq sys'

\* The unpurgeable routes, those of the options or the two halves, stay in
\* the list unchanged until the tool ends (purgeable in n2n_route_t).
VpnRoutesStayStep ==
    pc # "end" => \A r \in routes : r.purgeable \/ r \in routes'

\* The VPN gateway never becomes the original default gateway, through which
\* the traffic of the VPN itself is routed (find_default_gateway).
GatewayNotVpn == conf.gateway_org # Vpn

\* While the tool, the edge and the network are up, each peer gets and keeps
\* a route via the default gateway (main loop).
AllUp == link /\ edge_up /\ keep_running /\ pc \notin {"start", "end", "done"}
AllRouted == \A h \in peers : [net |-> h, mask |-> 32, gateway |-> conf.gateway_org] \in sys

=============================================================================
