------------------------------- MODULE MCTap -------------------------------
(***************************************************************************)
(* The threads of the Windows data path, one scene for each question: the  *)
(* queue between the TAP reader thread and the main thread, the pending    *)
(* ARP reply of a wintun device, and the opening of a device.  The queue   *)
(* has its own variables, the other two share the slots v1 to v15; Off     *)
(* marks a slot that a scene does not use.                                 *)
(*                                                                         *)
(* In the queue three small packets or one large and one small one fill    *)
(* it, and a packet of 9 never fits.                                       *)
(***************************************************************************)
EXTENDS TapTxQueue, TLC

CONSTANTS Off, None, Broadcast, own, i1, m1, m2

VARIABLES scene, v1, v2, v3, v4, v5, v6, v7, v8, v9, v10, v11, v12, v13, v14, v15
ioslots == <<v1, v2, v3, v4, v5, v6, v7, v8>>
slots == <<ioslots, v9, v10, v11, v12, v13, v14, v15>>
mcvars == <<vars, scene, slots>>

MCLens == {1, 3, 9}

Io == INSTANCE WintunIo
    WITH Ip <- {i1, own}, Own <- own, Mac <- {m1, m2}, CacheSize <- 1,
         RingSize <- 1, MaxQueued <- 1, cache <- v1, arp <- v2, ring <- v3, outq <- v4,
         reader <- v5, got <- v6, writer <- v7, learned <- v8
Open == INSTANCE WintunOpen
    WITH Tries <- 2, MaxContexts <- 3, started <- v1, tapNamed <- v2, prefer <- v3,
         present <- v4, handle <- v5, using <- v6, live <- v7, used <- v8, pc <- v9,
         luid <- v10, ctx <- v11, idx <- v12, opened <- v13, try <- v14, cur <- v15

\* In every scene but the first the queue stays as it is.
QueueRests == UNCHANGED vars
OffFrom9 ==
    /\ v9 = Off /\ v10 = Off /\ v11 = Off /\ v12 = Off /\ v13 = Off /\ v14 = Off /\ v15 = Off
OffFrom1 ==
    /\ v1 = Off /\ v2 = Off /\ v3 = Off /\ v4 = Off /\ v5 = Off /\ v6 = Off /\ v7 = Off /\ v8 = Off
    /\ OffFrom9

ASSUME WindowsConstants == Io!SizesPositive /\ Open!BoundsPositive

MCInit ==
    /\ Init
    /\ \/ scene = "queue" /\ OffFrom1
       \/ scene = "reply" /\ Io!Init /\ OffFrom9
       \/ scene = "opening" /\ Open!Init

\* the bound on contexts, or an edge that did not start, ends the last scene
Rests == scene = "opening" /\ UNCHANGED mcvars

MCNext ==
    \/ scene = "queue" /\ Next /\ UNCHANGED <<scene, slots>>
    \/ scene = "reply" /\ Io!Next /\ QueueRests /\ UNCHANGED <<scene, v9, v10, v11, v12, v13, v14, v15>>
    \/ scene = "opening" /\ Open!Next /\ QueueRests /\ UNCHANGED scene
    \/ Rests

\* The fairness of each component, in its scene.
MCFairness ==
    /\ WF_vars(scene = "queue" /\ Main)
    /\ SF_vars(scene = "queue" /\ (CheckLocks \/ FlushLocks \/ edge_term))
    /\ WF_vars(scene = "queue" /\ ReaderGoesOn)
    /\ SF_vars(scene = "queue" /\ ReaderLocks)
    /\ WF_ioslots(scene = "reply" /\ Io!Read)
    /\ WF_slots(scene = "opening" /\ Open!Reader)

MCSpec == MCInit /\ [][MCNext]_mcvars /\ MCFairness

----------------------------------------------------------------------------
(* What is checked beside the properties of TapTxQueue.                    *)

\* WintunOpen: when tuntap_open has succeeded, the flag that chooses between
\* the drivers fits the handle, whichever driver was used before; a failed
\* wintun_open leaves neither session nor adapter open; with the LUID an adapter
\* that is there is found, whatever else has its name; and however often the
\* configuration of the address fails, tuntap_open ends.  WintunIo: the ARP
\* reply that wintun_write cached is read, however many packets are sent.
DeviceUsable ==
    /\ [](scene = "opening" => Open!TypeOK /\ Open!DriverMatches /\ Open!FailureCloses)
    /\ [][scene = "opening" => Open!LuidFirstStep]_mcvars
    /\ Open!OpenEnds
    /\ (scene = "reply" /\ Io!ReplyPending) ~> (scene = "reply" => Io!ReplyReturned)

=============================================================================
