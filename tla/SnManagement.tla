---------------------------- MODULE SnManagement ----------------------------
(***************************************************************************)
(* The management port of the supernode.  The communities of the file are  *)
(* read again at a request in clear text or in JSON; what is in the file   *)
(* changes in between.  request is the JSON request that was handled in    *)
(* the last step, if any, and sent are the packets of that step.           *)
(***************************************************************************)
EXTENDS Management, FiniteSets

CONSTANTS Clients, Requests, Names, Edges,
          Federation,       \* the name of the federation
          MaxErrors         \* bound: on the counter of errors

VARIABLES community_file,   \* whether there is one (-c)
          keep_running, traceLevel, file, communities,
          lock,             \* lock_communities
          errors,           \* stats.errors
          request, sent

state == <<community_file, keep_running, traceLevel, file, communities, lock, errors>>

vars == <<state, request, sent>>

NoReq == [type |-> None]

\* a file that cannot be opened
NoFile == {Federation}

\* communities are a function from their names to their edges
Init ==
    /\ community_file \in BOOLEAN
    /\ keep_running = TRUE /\ traceLevel = 2 /\ errors = 0
    /\ file \in SUBSET Names \ {{}}
    /\ communities = [n \in {Federation} \cup (IF community_file THEN file ELSE {}) |-> {}]
    /\ lock = community_file
    /\ request = NoReq /\ sent = <<>>

-----------------------------------------------------------------------------

\* the name is kept back
ShownName(n) == IF n = Federation THEN "-/-" ELSE n

\* the wrong version for which only a missing file is an error
LoadResultOk == IF file = NoFile THEN -1 ELSE 0

\* what load_allowed_sn_community returns
LoadResult == IF file = NoFile THEN -1 ELSE IF file = {} THEN -2 ELSE 0

\* load_allowed_sn_community: a file without communities leaves the federation alone,
\* and what may register is as locked as before
Load ==
    /\ communities' = IF LoadResult = -1 THEN communities
                      ELSE [n \in {Federation} \cup file |-> IF n = Federation THEN communities[n] ELSE {}]
    /\ lock' = (lock \/ LoadResult = 0)

\* the low byte of an int as unsigned int
AsUint(n) == n % 256

\* mgmt_reload_communities
ReloadRows(req, tag) ==
    IF req.type # "w" THEN mgmt_error(req, tag, "writeonly")
    ELSE IF ~community_file THEN mgmt_error(req, tag, "nofile")
    ELSE Row(req, tag, <<"ok", AsUint(LoadResult)>>)

mgmt_timestamps(req, tag) == Row(req, tag, <<"timestamps">>)

mgmt_packetstats(req, tag) ==
    Row(req, tag, <<"forward">>) \o Row(req, tag, <<"broadcast">>)
        \o Row(req, tag, <<"reg_super">>) \o Row(req, tag, <<"errors", errors>>)

mgmt_communities(req, tag) ==
    LET names == SetToSeq(DOMAIN communities)
    IN FlattenSeq([i \in DOMAIN names |-> Row(req, tag, <<"community", ShownName(names[i])>>)])

mgmt_edges(req, tag) ==
    LET names == SetToSeq(DOMAIN communities)
        rows(n) == LET edges == SetToSeq(communities[n])
                   IN FlattenSeq([i \in DOMAIN edges |-> Row(req, tag, <<"edge", ShownName(n), edges[i]>>)])
    IN FlattenSeq([i \in DOMAIN names |-> rows(names[i])])

Cmds == <<"supernodes", "stop", "verbose", "reload_communities", "communities", "edges", "timestamps",
          "packetstats", "help">>

Writable == {"stop", "verbose", "reload_communities", "help"}

Rows(req, tag) ==
    CASE req.cmd = "supernodes" -> mgmt_error(req, tag, "unimplemented")
      [] req.cmd = "stop" -> Row(req, tag, <<"keep_running", req.type # "w" /\ keep_running>>)
      [] req.cmd = "verbose" -> Row(req, tag, <<"traceLevel", IF req.type = "w" /\ req.arg # NoArg THEN req.arg ELSE traceLevel>>)
      [] req.cmd = "reload_communities" -> ReloadRows(req, tag)
      [] req.cmd = "communities" -> mgmt_communities(req, tag)
      [] req.cmd = "edges" -> mgmt_edges(req, tag)
      [] req.cmd = "timestamps" -> mgmt_timestamps(req, tag)
      [] req.cmd = "packetstats" -> mgmt_packetstats(req, tag)
      [] req.cmd = "help" -> mgmt_help(req, tag, Cmds)

\* handleMgmtJson; there is nothing to subscribe to, and a subscription is looked up
\* among the commands
Json(req) ==
    LET init == mgmt_req_init2(req)
        writes(cmd) == Called(req, cmd) /\ req.type = "w"
    IN /\ request' = req
       /\ sent' = IF init.error # None THEN mgmt_error(req, init.tag, init.error)
                  ELSE IF Refused(req, Range(Cmds), Writable) # None
                       THEN mgmt_error(req, init.tag, Refused(req, Range(Cmds), Writable))
                  ELSE Framed(req, init.tag, Rows(req, init.tag))
       /\ keep_running' = (keep_running /\ ~writes("stop"))
       /\ traceLevel' = IF writes("verbose") /\ req.arg # NoArg THEN req.arg ELSE traceLevel
       /\ IF writes("reload_communities") /\ community_file THEN Load ELSE UNCHANGED <<communities, lock>>
       /\ UNCHANGED <<community_file, file, errors>>

Text(c, val) == <<Packet(c, NoTag, "text", val)>>

\* sendto_mgmt, for each packet
Sendto(packets) ==
    /\ sent' = packets
    /\ errors' \in {n \in {errors, errors + 1} : n <= MaxErrors}

\* reload_communities in clear text
TextReload(c) ==
    /\ request' = NoReq
    /\ IF community_file
       THEN Load /\ Sendto(Text(c, <<IF LoadResult = 0 THEN "OK" ELSE "Error">>))
       ELSE UNCHANGED <<communities, lock>> /\ Sendto(Text(c, <<"No community file">>))
    /\ UNCHANGED <<community_file, keep_running, traceLevel, file>>

\* help or ?, and the status with a packet for each community and for each edge
TextStatus(c) ==
    LET names == SetToSeq(DOMAIN communities)
        community(n) == Text(c, <<"community", ShownName(n)>>)
                        \o LET edges == SetToSeq(communities[n])
                           IN FlattenSeq([i \in DOMAIN edges |-> Text(c, <<"edge", edges[i]>>)])
    IN /\ request' = NoReq
       /\ \/ Sendto(Text(c, <<"help">>))
          \/ Sendto(FlattenSeq([i \in DOMAIN names |-> community(names[i])]) \o Text(c, <<"statistics">>))
       /\ UNCHANGED <<community_file, keep_running, traceLevel, file, communities, lock>>

\* process_mgmt, as long as the main loop runs
Receive ==
    /\ keep_running
    /\ \/ \E req \in Requests : Json(req)
       \/ \E c \in Clients : TextReload(c) \/ TextStatus(c)

\* an edge registers; a community that is not there is made when the communities are
\* not locked
Register(n, e) ==
    /\ n \in DOMAIN communities \/ ~lock
    /\ communities' = [m \in DOMAIN communities \cup {n} |->
                          (IF m \in DOMAIN communities THEN communities[m] ELSE {})
                          \cup (IF m = n THEN {e} ELSE {})]
    /\ request' = NoReq /\ sent' = <<>>
    /\ UNCHANGED <<community_file, keep_running, traceLevel, file, lock, errors>>

\* the file is edited, emptied or moved away
Edit ==
    /\ file' \in SUBSET Names \cup {NoFile} /\ file' # file
    /\ request' = NoReq /\ sent' = <<>>
    /\ UNCHANGED <<community_file, keep_running, traceLevel, communities, lock, errors>>

Next ==
    \/ Receive
    \/ keep_running /\ (Edit \/ \E n \in Names, e \in Edges : Register(n, e))

Spec == Init /\ [][Next]_vars

-----------------------------------------------------------------------------
(* What is checked.                                                        *)

TypeOK ==
    /\ Federation \in DOMAIN communities
    /\ \A n \in DOMAIN communities : n \in Names \cup {Federation} /\ communities[n] \subseteq Edges
    /\ lock \in BOOLEAN /\ errors \in 0 .. MaxErrors

\* The name of the federation, which its members are told apart by, is not shown.
FederationHiddenStep ==
    \A i \in DOMAIN sent' : sent'[i].type \in {"row", "text"} =>
        (sent'[i].val[1] \in {"community", "edge"} => sent'[i].val[2] # Federation)

\* Only a reload, and in JSON only one with the password, changes which communities are
\* there; whoever asked for it is told whether all of the file's communities are.
ReloadToldStep ==
    communities' # communities /\ sent' # <<>> =>
        /\ request' # NoReq => Key(request') = Password /\ request'.cmd = "reload_communities"
        /\ (DOMAIN communities' = {Federation} \cup file /\ file # {})
              <=> \E i \in DOMAIN sent' : sent'[i].val \in {<<"OK">>, <<"ok", 0>>}

\* The answer to a JSON request is complete for its client.
AnswerFramedStep ==
    request' # NoReq => IsFramed(sent')

\* Once the communities are locked no other community comes up than those of the file
\* as it was read last.
LockedStaysStep ==
    lock => lock' /\ (sent' = <<>> => DOMAIN communities' = DOMAIN communities)

=============================================================================
