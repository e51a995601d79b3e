---------------------------- MODULE PortForward ----------------------------
(***************************************************************************)
(* The tool n2n-portfwd (src/tools/n2n-portfwd.c) with the port mapping of *)
(* src/src/n2n_port_mapping.c.  The tool polls the management port of the  *)
(* local edge for the edge's port and has a router forward that port, by   *)
(* NAT-PMP or, if that fails, by UPnP.  It takes the forwarding back when  *)
(* the port changes and when the tool ends.                                *)
(*                                                                         *)
(* The router is external: a set of forwardings, each owned by the         *)
(* protocol it was requested with.                                         *)
(***************************************************************************)
EXTENDS Integers, Sequences

CONSTANTS Ports,          \* ports of the edge, 0 for none
          Tags,           \* tags that requests draw
          Garbage,        \* a NAT-PMP response that was never filled may look valid
          Builds,         \* sets of protocols the tool may be compiled with
          RouterChanges,  \* the router may start to serve a protocol
          InfoInterval,   \* INFO_INTERVAL in ticks
          MaxChanges,     \* bound: changes of the edge and the router
          MaxInbox        \* bound: answers that wait at the tool's socket

VARIABLES current_port,   \* the port last asked to be forwarded
          tag_info,
          age,            \* time since last_info_req
          inbox,          \* answers at the socket
          keep_running,
          pc,
          compiled,       \* protocols the tool was compiled with
          serves,         \* protocols the router serves
          mapped,         \* forwardings of the router
          edge_port,      \* port of the edge
          edge_up,
          changes

vars == <<current_port, tag_info, age, inbox, keep_running, pc, compiled,
          serves, mapped, edge_port, edge_up, changes>>

env == <<compiled, serves, edge_port, edge_up, changes>>

Protocols == {"pmp", "upnp"}

Init == /\ current_port = 0
        /\ tag_info = 0
        /\ age = InfoInterval + 1
        /\ inbox = <<>>
        /\ keep_running = TRUE
        /\ pc = "start"
        /\ compiled \in Builds
        /\ serves \in SUBSET Protocols
        /\ mapped = {}
        /\ edge_port \in Ports
        /\ edge_up = TRUE
        /\ changes = 0

----------------------------------------------------------------------------
(* Port mapping.  An operation yields the possible results, each with the  *)
(* router's forwardings and whether the operation reports an error.        *)

Forwarding(by, port, l4) == [by |-> by, port |-> port, l4 |-> l4]

\* The outcomes of a single request.  The type of a NAT-PMP response is tested
\* even if reading the response failed, when it was never filled.
Outcomes(by) ==
    IF by \in serves THEN {[done |-> TRUE, ok |-> TRUE]}
    ELSE {[done |-> FALSE, ok |-> FALSE]}
         \union (IF by = "pmp" /\ Garbage THEN {[done |-> FALSE, ok |-> TRUE]} ELSE {})

\* n2n_natpmp_port_mapping_request, and UPNP_AddPortMapping or
\* UPNP_DeletePortMapping.
Request(table, o, f, set) ==
    IF ~ o.done THEN table ELSE IF set THEN table \union {f} ELSE table \ {f}

n2n_UPNP_GetValidIGD == Outcomes("upnp")

n2n_natpmp_initialization == Outcomes("pmp")

\* Set or delete the forwardings of both TCP and UDP, after the protocol found
\* the router; an error of one does not stop the other.
PortMapping(by, found, table, port, set) ==
    {[table |-> IF i.ok THEN Request(Request(table, t, Forwarding(by, port, "tcp"), set),
                                     u, Forwarding(by, port, "udp"), set)
                ELSE table,
      err |-> ~ (i.ok /\ t.ok /\ u.ok)] : i \in found, t, u \in Outcomes(by)}

n2n_upnp_set_port_mapping(table, port) ==
    PortMapping("upnp", n2n_UPNP_GetValidIGD, table, port, TRUE)

n2n_upnp_del_port_mapping(table, port) ==
    PortMapping("upnp", n2n_UPNP_GetValidIGD, table, port, FALSE)

n2n_natpmp_set_port_mapping(table, port) ==
    PortMapping("pmp", n2n_natpmp_initialization, table, port, TRUE)

n2n_natpmp_del_port_mapping(table, port) ==
    PortMapping("pmp", n2n_natpmp_initialization, table, port, FALSE)

\* NAT-PMP is preferred; UPnP is used if it fails or was not compiled.
Preferred(table, pmp, Upnp(_)) ==
    LET Second(t) == IF "upnp" \in compiled THEN {r.table : r \in Upnp(t)} ELSE {t}
    IN IF "pmp" \in compiled
       THEN UNION {IF r.err THEN Second(r.table) ELSE {r.table} : r \in pmp}
       ELSE Second(table)

n2n_set_port_mapping(table, port) ==
    Preferred(table, n2n_natpmp_set_port_mapping(table, port),
              LAMBDA t : n2n_upnp_set_port_mapping(t, port))

n2n_del_port_mapping(table, port) ==
    Preferred(table, n2n_natpmp_del_port_mapping(table, port),
              LAMBDA t : n2n_upnp_del_port_mapping(t, port))

----------------------------------------------------------------------------
(* main.                                                                   *)

\* Without any protocol the tool ends; connecting to the management port may
\* fail.
Start == /\ pc = "start"
         /\ pc' \in IF compiled = {} THEN {"done"} ELSE {"loop", "end"}
         /\ UNCHANGED <<current_port, tag_info, age, inbox, keep_running, mapped, env>>

SendInfo ==
    /\ pc = "loop" /\ keep_running
    /\ pc' = "select"
    /\ IF age > InfoInterval
       THEN /\ tag_info' \in Tags
            /\ age' = 0
            /\ inbox' = IF edge_up THEN Append(inbox, [tag |-> tag_info', port |-> edge_port])
                        ELSE inbox
       ELSE UNCHANGED <<tag_info, age, inbox>>
    /\ UNCHANGED <<current_port, keep_running, mapped, env>>

\* get_port_from_json: only an answer to the last request counts.
Matches(row) == tag_info # 0 /\ row.tag = tag_info

\* The old port is given up before the new one is asked for.
Remapped(port) ==
    LET without == IF current_port # 0 THEN n2n_del_port_mapping(mapped, current_port)
                   ELSE {mapped}
    IN IF port # 0 THEN UNION {n2n_set_port_mapping(t, port) : t \in without} ELSE without

Receive ==
    /\ pc \in {"select", "late"} /\ inbox # <<>>
    /\ pc' = "loop"
    /\ inbox' = Tail(inbox)
    /\ LET row == Head(inbox)
       IN IF Matches(row) /\ row.port # current_port
          THEN mapped' \in Remapped(row.port) /\ current_port' = row.port
          ELSE UNCHANGED <<mapped, current_port>>
    /\ UNCHANGED <<tag_info, age, keep_running, env>>

\* select waits, for its timeout or for an answer that is late.
Wait ==
    /\ pc = "select" /\ Len(inbox) < MaxInbox
    /\ pc' = IF inbox = <<>> THEN "loop" ELSE "late"
    /\ age' = IF age > InfoInterval THEN age ELSE age + 1
    /\ UNCHANGED <<current_port, tag_info, inbox, keep_running, mapped, env>>

Leave ==
    /\ pc = "loop"
    /\ pc' = "end"
    /\ UNCHANGED <<current_port, tag_info, age, inbox, keep_running, mapped, env>>

\* end_route_tool.
End ==
    /\ pc = "end"
    /\ pc' = "done"
    /\ IF current_port # 0 THEN mapped' \in n2n_del_port_mapping(mapped, current_port)
       ELSE UNCHANGED mapped
    /\ UNCHANGED <<current_port, tag_info, age, inbox, keep_running, env>>

\* term_handler: the second signal ends the tool on the spot.
Signal ==
    /\ pc \notin {"start", "done", "killed"}
    /\ keep_running' = FALSE
    /\ pc' = IF keep_running THEN pc ELSE "killed"
    /\ UNCHANGED <<current_port, tag_info, age, inbox, mapped, env>>

----------------------------------------------------------------------------
(* The edge and the router.                                                *)

Change == /\ changes < MaxChanges /\ changes' = changes + 1
          /\ pc \notin {"done", "killed"}
          /\ UNCHANGED <<current_port, tag_info, age, inbox, keep_running, pc,
                         compiled, mapped>>

\* The edge stops, or starts, maybe at another port.
EdgeStop == Change /\ edge_up /\ edge_up' = FALSE /\ UNCHANGED <<serves, edge_port>>

EdgeStart == /\ Change /\ ~ edge_up /\ edge_up' = TRUE /\ edge_port' \in Ports
             /\ UNCHANGED serves

\* The router starts to serve a protocol.
RouterChange == /\ Change /\ RouterChanges
                /\ \E p \in Protocols \ serves : serves' = serves \union {p}
                /\ UNCHANGED <<edge_port, edge_up>>

Tool == Start \/ SendInfo \/ Receive \/ Wait

Next == Tool \/ Leave \/ End \/ Signal \/ EdgeStop \/ EdgeStart \/ RouterChange

Spec == Init /\ [][Next]_vars

\* The loop goes on, and select returns at the latest with its timeout.
FairSpec == Spec /\ WF_vars(Tool)

----------------------------------------------------------------------------
(* Properties.                                                             *)

\* The state is made of the values that the tool, the edge and the router store.
TypeOK == /\ current_port \in Ports /\ edge_port \in Ports
          /\ tag_info \in Tags \union {0}
          /\ age \in 0 .. InfoInterval + 1
          /\ Len(inbox) <= MaxInbox
          /\ \A f \in mapped : f.by \in compiled /\ f.port \in Ports \ {0}

\* No port but the one the tool knows of is forwarded, and by one protocol
\* only: what was set is found again and deleted (main, the change of ports).
OnePort == \A f, g \in mapped : f.port = current_port /\ f.by = g.by

\* When the tool has ended properly the router forwards nothing for it
\* (main, "delete port forwarding if any").
CleanEnd == pc = "done" => mapped = {}

\* While the tool and the edge run and the router serves a protocol that the
\* tool speaks, both TCP and UDP of the edge's port get forwarded and stay so,
\* also after the edge restarts at another port (main loop).
CanForward ==
    /\ edge_up /\ edge_port # 0 /\ keep_running /\ pc \notin {"start", "end", "done"}
    /\ serves \intersect compiled # {}
Forwarded ==
    \E by \in Protocols : \A l4 \in {"tcp", "udp"} : Forwarding(by, edge_port, l4) \in mapped

=============================================================================
