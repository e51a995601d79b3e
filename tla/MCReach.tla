------------------------------ MODULE MCReach ------------------------------
(***************************************************************************)
(* How an edge reaches its supernode in the end, in two components side by *)
(* side for TLC: the choice of a transport and the resolution of names.  A *)
(* behaviour belongs to one of the scenes, and only that component moves;  *)
(* its variables are the first ones of v1, v2, ...                         *)
(***************************************************************************)
EXTENDS Integers, FiniteSets

CONSTANTS a, NoSn,                                 \* EdgeTransport
          a1, a2, n1, n2, Fail,                    \* Resolver
          Off                                      \* an unused variable

VARIABLES scene, v1, v2, v3, v4, v5, v6, v7, v8, v9, v10, v11, v12, v13, v14

from4 == <<v4, v5, v6, v7, v8, v9, v10, v11, v12, v13, v14>>
mcvars == <<scene, v1, v2, v3, from4>>

Off4to8 == v4 = Off /\ v5 = Off /\ v6 = Off /\ v7 = Off /\ v8 = Off
Off9to14 == v9 = Off /\ v10 = Off /\ v11 = Off /\ v12 = Off /\ v13 = Off /\ v14 = Off

-----------------------------------------------------------------------------
(* EdgeTransport: one supernode.  Either UDP and TCP work or not, TCP up,  *)
(* refused or filtered (the connection starts and every send times out);   *)
(* or everything may fail at any time.                                     *)

Steady == {[udpOpen |-> {TRUE}, tcpOpen |-> {t.open}, tcpSend |-> {t.send},
            answers |-> u \cup (IF t.open /\ t.send THEN {"TCP"} ELSE {})] :
               t \in [open : BOOLEAN, send : BOOLEAN], u \in {{}, {"UDP"}}}
Hostile == {[udpOpen |-> BOOLEAN, tcpOpen |-> BOOLEAN, tcpSend |-> BOOLEAN,
             answers |-> {"UDP", "TCP"}]}

\* the three combinations of -S1, -S2 and -S3
Modes == {[connect_tcp |-> FALSE, prefer_kcp |-> TRUE, allow_tcp_fallback |-> FALSE],
          [connect_tcp |-> TRUE, prefer_kcp |-> FALSE, allow_tcp_fallback |-> FALSE],
          [connect_tcp |-> FALSE, prefer_kcp |-> TRUE, allow_tcp_fallback |-> TRUE]}

Transport == INSTANCE EdgeTransport WITH
    Supernode <- {a}, Confs <- Modes, Envs <- Steady \cup Hostile, SharedSecret <- TRUE,
    N2N_EDGE_SUP_ATTEMPTS <- 2, N2N_TCP_REGISTER_SOFT_RETRIES <- 2,
    N2N_CLOSE_SOCKET_COUNTER_MAX <- 2, CloseMaxNoFallback <- 2,
    conf <- v1, env <- v2, e <- v3

(* Resolver: two names, two addresses, two changes of an answer.           *)

Names == INSTANCE Resolver WITH
    Name <- {n1, n2}, Addr <- {a1, a2}, Long <- 2, Short <- 1, CheckLong <- 1, CheckShort <- 0,
    MaxChanges <- 2,
    dns <- v1, changes <- v2, org <- v3, sock <- v4, error <- v5, changed <- v6, request <- v7,
    lock <- v8, todo <- v9, rep <- v10, sinceRes <- v11, interval <- v12, sinceCheck <- v13,
    wanted <- v14

ASSUME ReachConstants == Names!IntervalsOrdered

-----------------------------------------------------------------------------
MCInit ==
    \/ scene = "transport" /\ Transport!Init /\ Off4to8 /\ Off9to14
    \/ scene = "names" /\ Names!Init

\* a step of the component in its scene
TransportStep(A) == scene = "transport" /\ A /\ UNCHANGED <<scene, from4>>
NamesStep(A) == scene = "names" /\ A /\ UNCHANGED scene

\* An edge may be stopped.
Rests == scene # "names" /\ UNCHANGED mcvars

MCNext ==
    \/ scene = "transport" /\ Transport!Next /\ UNCHANGED <<scene, from4>>
    \/ scene = "names" /\ Names!Next /\ UNCHANGED scene
    \/ Rests

\* The fairness of each component, in its scene: a scene never changes, so
\* the fairness of several actions of different scenes can be stated as one.
MCFairness ==
    /\ SF_mcvars(TransportStep(Transport!RxAck) \/ NamesStep(Names!resolve_check))
    /\ SF_mcvars(TransportStep(Transport!ReopenUdp))
    /\ SF_mcvars(TransportStep(Transport!RxTcpSkewed \/ Transport!RxTcpOversize))
    /\ WF_mcvars(TransportStep(Transport!UpdateSupernodeReg) \/ NamesStep(Names!Tick))
    /\ WF_mcvars(TransportStep(Transport!UdpQuiet) \/ NamesStep(Names!WakeUp))
    /\ WF_mcvars(NamesStep(Names!Finish))
    /\ WF_mcvars(NamesStep(Names!Resolve(n1)))
    /\ WF_mcvars(NamesStep(Names!Resolve(n2)))

MCSpec == MCInit /\ [][MCNext]_mcvars /\ MCFairness

-----------------------------------------------------------------------------
(* What is checked, of every component in its scenes.                      *)

\* EdgeTransport: whatever the mode, an edge whose supernode can be reached
\* over some transport of that mode registers with it again and again, and an
\* edge on UDP whose socket is closed does not stay deaf.
Deaf == scene = "transport" /\ Transport!DeafOnUdp
Registers ==
    /\ scene = "transport" /\ Transport!Reachable
           => []<><<TransportStep(Transport!RxAck)>>_mcvars \/ <>(scene = "transport" /\ ~v3.running)
    /\ Deaf ~> ~Deaf

\* Resolver: a new address stays flagged until the main loop has copied it, and
\* after an error the names are resolved again soon.
NoMissedChange == scene = "names" => Names!TypeOK /\ Names!NoMissedChange /\ Names!RetriedSoon

\* Resolver: the main loop ends up using the address that stays; the wish for a
\* resolution leads to a request, and that to a round that starts afterwards.
Asked == scene = "names" /\ v7
AddressAdopted ==
    /\ \A n \in {n1, n2}, x \in {a1, a2} :
           <>[](scene = "names" /\ v1[n] = x) => <>(scene = "names" /\ v3[n] = x)
    /\ (scene = "names" /\ v14) ~> Asked
    /\ Asked ~> ~Asked

=============================================================================
