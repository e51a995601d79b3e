----------------------------- MODULE TapTxQueue -----------------------------
(***************************************************************************)
(* On Windows a thread of its own reads the TAP device and hands packets   *)
(* to the main thread through a queue that a spin lock protects.  The main *)
(* thread sleeps in select; a datagram to a loopback socket wakes it       *)
(* (edge_tap_tx_* in edge_utils.c, tunReadThread, run_edge_loop).          *)
(***************************************************************************)
EXTENDS Naturals, Sequences, FiniteSets, SequencesExt

CONSTANTS
    Lens,           \* lengths of packets
    MaxPackets,     \* N2N_TAP_TX_QUEUE_MAX_PACKETS
    MaxBytes,       \* N2N_TAP_TX_QUEUE_MAX_BYTES
    Budget,         \* N2N_TAP_TX_DRAIN_BUDGET
    SendMayFail,    \* the datagram to the wake socket may fail
    MaxReads        \* bound: packets read from the device

ASSUME TapTxAssumption ==
    /\ Lens \subseteq Nat \ {0} /\ SendMayFail \in BOOLEAN /\ MaxReads \in Nat
    /\ MaxPackets \in Nat \ {0} /\ MaxBytes \in Nat /\ Budget \in Nat \ {0}

Packet == [id : 1..MaxReads, len : Lens]

VARIABLES
    queue,          \* tap_tx_queue_head ... tail
    count,          \* tap_tx_queue_count
    bytes,          \* tap_tx_queue_bytes
    wake_pending,   \* tap_tx_wake_pending
    lock,           \* tap_tx_queue_lock: who holds it
    wake,           \* datagrams in the wake socket
    keep_running,
    reads,          \* packets read so far
    reader,         \* where the reader thread is
    entry,          \* the packet it enqueues
    main,           \* where the main thread is
    has_pending,    \* what it saw before select
    budget,
    unsent,         \* history: a wake datagram failed that is still needed
    dropped         \* history: what the current enqueue has displaced
shared == <<queue, count, bytes, wake_pending>>
vars == <<shared, lock, wake, keep_running, reads, reader, entry,
          main, has_pending, budget, unsent, dropped>>

NoPacket == [id |-> 0, len |-> 0]

Init ==
    /\ queue = <<>> /\ count = 0 /\ bytes = 0 /\ wake_pending = FALSE
    /\ lock = "free" /\ wake = 0 /\ keep_running = TRUE /\ reads = 0
    /\ reader = "read" /\ entry = NoPacket
    /\ main = "start" /\ has_pending = FALSE /\ budget = 0
    /\ unsent = FALSE /\ dropped = <<>>

----------------------------------------------------------------------------
\* Removing the head, in edge_tap_tx_drop_oldest_locked and in
\* edge_tap_tx_dequeue_packet.
RemoveHead ==
    /\ queue' = Tail(queue)
    /\ count' = IF count > 0 THEN count - 1 ELSE count
    /\ bytes' = IF bytes >= Head(queue).len THEN bytes - Head(queue).len ELSE 0
    /\ wake_pending' = (wake_pending /\ Tail(queue) # <<>>)

\* The reader thread.  The device may have nothing to read, or the entry not
\* be allocated: it looks at keep_running again.
ReadTap ==
    /\ reader = "read" /\ keep_running /\ reads < MaxReads
    /\ reads' = reads + 1
    /\ \E len \in Lens :
           \/ /\ len <= MaxBytes
              /\ entry' = [id |-> reads', len |-> len]
              /\ reader' = "acquire"
           \/ UNCHANGED <<entry, reader>>
    /\ UNCHANGED <<shared, lock, wake, keep_running, main, has_pending, budget, unsent, dropped>>

tunReadThreadEnds ==
    /\ reader = "read" /\ ~keep_running
    /\ reader' = "done"
    /\ UNCHANGED <<shared, lock, wake, keep_running, reads, entry, main, has_pending, budget, unsent, dropped>>

ReaderLocks ==
    /\ reader = "acquire" /\ lock = "free"
    /\ lock' = "reader" /\ reader' = "locked"
    /\ UNCHANGED <<shared, wake, keep_running, reads, entry, main, has_pending, budget, unsent, dropped>>

NoRoom == count >= MaxPackets \/ bytes + entry.len > MaxBytes

\* Mutant: the newest packet makes room.
DropNewest ==
    /\ reader = "locked" /\ queue # <<>> /\ NoRoom
    /\ queue' = Front(queue) /\ count' = count - 1 /\ bytes' = bytes - Last(queue).len
    /\ wake_pending' = (wake_pending /\ Front(queue) # <<>>)
    /\ dropped' = Append(dropped, Last(queue))
    /\ UNCHANGED <<lock, wake, keep_running, reads, reader, entry, main, has_pending, budget, unsent>>

ReaderDropsOldest ==
    /\ reader = "locked" /\ queue # <<>> /\ NoRoom
    /\ RemoveHead
    /\ dropped' = Append(dropped, Head(queue))
    /\ UNCHANGED <<lock, wake, keep_running, reads, reader, entry, main, has_pending, budget, unsent>>

\* Mutant: the limit on bytes is looked at without the new packet.
AppendIgnoringLen ==
    /\ reader = "locked" /\ (queue = <<>> \/ count < MaxPackets)
    /\ queue' = Append(queue, entry) /\ count' = count + 1 /\ bytes' = bytes + entry.len
    /\ wake_pending' = TRUE
    /\ reader' = IF queue = <<>> /\ ~wake_pending THEN "signal" ELSE "read"
    /\ entry' = NoPacket /\ dropped' = <<>> /\ lock' = "free"
    /\ UNCHANGED <<wake, keep_running, reads, main, has_pending, budget, unsent>>

ReaderAppends ==
    /\ reader = "locked" /\ (queue = <<>> \/ ~NoRoom)
    /\ IF NoRoom THEN UNCHANGED shared /\ reader' = "read"
       ELSE /\ queue' = Append(queue, entry)
            /\ count' = count + 1
            /\ bytes' = bytes + entry.len
            /\ wake_pending' = (wake_pending \/ queue = <<>>)
            /\ reader' = IF queue = <<>> /\ ~wake_pending THEN "signal" ELSE "read"
    /\ entry' = NoPacket /\ dropped' = <<>>
    /\ lock' = "free"
    /\ UNCHANGED <<wake, keep_running, reads, main, has_pending, budget, unsent>>

edge_tap_tx_signal_main_thread ==
    /\ reader = "signal"
    /\ \/ wake' = wake + 1 /\ UNCHANGED unsent
       \/ SendMayFail /\ unsent' = TRUE /\ UNCHANGED wake
    /\ reader' = "read"
    /\ UNCHANGED <<shared, lock, keep_running, reads, entry, main, has_pending, budget, dropped>>

----------------------------------------------------------------------------
\* The main thread has started the reader and enters its loop.
RunStarts ==
    /\ main = "start"
    /\ keep_running' = TRUE /\ main' = "check"
    /\ UNCHANGED <<shared, lock, wake, reads, reader, entry, has_pending, budget, unsent, dropped>>

\* One round of run_edge_loop.
MainLocks(from, to) ==
    /\ main = from /\ lock = "free"
    /\ lock' = "main" /\ main' = to
    /\ UNCHANGED <<shared, wake, keep_running, reads, reader, entry, has_pending, budget, unsent, dropped>>
CheckLocks == MainLocks("check", "checking")
FlushLocks == budget > 0 /\ MainLocks("flush", "dequeue")

edge_tap_tx_queue_has_pending ==
    /\ main = "checking"
    /\ has_pending' = (queue # <<>>)
    /\ lock' = "free" /\ main' = "select"
    /\ unsent' = FALSE
    /\ UNCHANGED <<shared, wake, keep_running, reads, reader, entry, budget, dropped>>

\* select returns: at once, on a datagram, on a timeout, or on other input.
\* The wake socket is emptied only if it was seen to be readable.
SelectReturns ==
    /\ main = "select"
    /\ \/ main' = "drain" /\ wake > 0
       \/ main' = "flush" /\ wake = 0
    /\ budget' = Budget
    /\ UNCHANGED <<shared, lock, wake, keep_running, reads, reader, entry, has_pending, unsent, dropped>>

edge_tap_tx_drain_wake_socket ==
    /\ main = "drain"
    /\ wake' = 0
    /\ main' = "flush"
    /\ UNCHANGED <<shared, lock, keep_running, reads, reader, entry, has_pending, budget, unsent, dropped>>

\* Mutant: wake_pending survives the last packet.
DequeueKeepsPending ==
    /\ main = "dequeue"
    /\ IF queue = <<>> THEN UNCHANGED shared /\ main' = "loop"
       ELSE /\ queue' = Tail(queue) /\ count' = count - 1
            /\ bytes' = bytes - Head(queue).len /\ UNCHANGED wake_pending
            /\ main' = "flush"
    /\ budget' = budget - 1 /\ lock' = "free"
    /\ UNCHANGED <<wake, keep_running, reads, reader, entry, has_pending, unsent, dropped>>

edge_tap_tx_dequeue_packet ==
    /\ main = "dequeue"
    /\ IF queue = <<>> THEN UNCHANGED shared /\ main' = "loop"
       ELSE RemoveHead /\ main' = "flush"
    /\ budget' = budget - 1
    /\ lock' = "free"
    /\ UNCHANGED <<wake, keep_running, reads, reader, entry, has_pending, unsent, dropped>>

FlushEnds ==
    /\ main = "flush" /\ budget = 0
    /\ main' = "loop"
    /\ UNCHANGED <<shared, lock, wake, keep_running, reads, reader, entry, has_pending, budget, unsent, dropped>>

\* Mutant: nothing ends the loop.
LoopGoesOn ==
    /\ main = "loop"
    /\ main' = "check"
    /\ UNCHANGED <<shared, lock, wake, keep_running, reads, reader, entry, has_pending, budget, unsent, dropped>>

\* The rest of the round, and the test of keep_running.
LoopTest ==
    /\ main = "loop"
    /\ main' = IF keep_running THEN "check" ELSE "join"
    /\ UNCHANGED <<shared, lock, wake, keep_running, reads, reader, entry, has_pending, budget, unsent, dropped>>

\* The management port, or a socket that fails, stops the main thread at once;
\* the console handler sets keep_running at any time.
StopByMgmt ==
    /\ main = "select"
    /\ keep_running' = FALSE /\ main' = "join"
    /\ UNCHANGED <<shared, lock, wake, reads, reader, entry, has_pending, budget, unsent, dropped>>
StopBySignal ==
    /\ keep_running /\ main # "end"
    /\ keep_running' = FALSE
    /\ UNCHANGED <<shared, lock, wake, reads, reader, entry, main, has_pending, budget, unsent, dropped>>

\* run_edge_loop waits for the reader to end; then edge_term_tap_tx_queue
\* clears the queue under the lock, closes the sockets and resets the lock.
edge_term ==
    /\ main = "join" /\ reader = "done" /\ lock = "free"
    /\ queue' = <<>> /\ count' = 0 /\ bytes' = 0 /\ wake_pending' = FALSE
    /\ wake' = 0 /\ lock' = "free" /\ main' = "end"
    /\ UNCHANGED <<keep_running, reads, reader, entry, has_pending, budget, unsent, dropped>>

Reader ==
    \/ ReadTap \/ tunReadThreadEnds \/ ReaderLocks \/ ReaderDropsOldest \/ ReaderAppends
    \/ edge_tap_tx_signal_main_thread
Main ==
    \/ RunStarts \/ CheckLocks \/ edge_tap_tx_queue_has_pending
    \/ SelectReturns \/ edge_tap_tx_drain_wake_socket
    \/ FlushLocks \/ edge_tap_tx_dequeue_packet
    \/ FlushEnds \/ LoopTest \/ edge_term
Ended == main = "end" /\ UNCHANGED vars
Next == Reader \/ Main \/ StopByMgmt \/ StopBySignal \/ Ended

Spec == Init /\ [][Next]_vars

\* What the reader does by itself: no packet has to be there.
ReaderGoesOn ==
    tunReadThreadEnds \/ ReaderDropsOldest \/ ReaderAppends \/ edge_tap_tx_signal_main_thread

\* Both threads are scheduled, select has a timeout and the device's reads
\* return; the spin lock is taken in the end by a thread that keeps trying.
Fairness ==
    /\ WF_vars(Main) /\ SF_vars(CheckLocks \/ FlushLocks \/ edge_term)
    /\ WF_vars(ReaderGoesOn)
    /\ SF_vars(ReaderLocks)
FairSpec == Spec /\ Fairness

----------------------------------------------------------------------------
TypeOK ==
    /\ queue \in Seq(Packet) /\ count \in Nat /\ bytes \in Nat
    /\ wake_pending \in BOOLEAN /\ lock \in {"free", "reader", "main"}
    /\ wake \in Nat /\ keep_running \in BOOLEAN /\ reads \in 0..MaxReads
    /\ reader \in {"read", "acquire", "locked", "signal", "done"}
    /\ entry \in Packet \cup {NoPacket}
    /\ main \in {"start", "check", "checking", "select", "drain", "flush", "dequeue",
                 "loop", "join", "end"}
    /\ has_pending \in BOOLEAN /\ budget \in 0..Budget
    /\ unsent \in BOOLEAN /\ dropped \in Seq(Packet)

\* The queue as it was before the enqueue that is under way.
Queue == INSTANCE DropOldestQueue WITH queue <- dropped \o queue, open <- main # "end"

\* The counters that both threads keep by hand never drift from the list,
\* and the list never grows past either limit.
CountersMatch ==
    /\ count = Len(queue) /\ bytes = Queue!Bytes(queue)
    /\ count <= MaxPackets /\ bytes <= MaxBytes

\* No lost wake-up: while the main thread sleeps in select, having seen an
\* empty queue, a packet in the queue means that a datagram is in the wake
\* socket or about to be sent to it; only a failed sendto leaves the packet
\* to the select timeout.
NoSleepOnPackets ==
    main = "select" /\ ~has_pending /\ queue # <<>>
        => wake > 0 \/ reader = "signal" \/ unsent

\* The queue with its lock, loop of drops and two threads implements the
\* atomic queue that displaces the oldest packets.
ImplementsDropOldest == Queue!Spec

\* Every packet in the queue leaves it: it is sent, displaced or cleared.
PacketsLeave ==
    \A i \in 1..MaxReads :
        (\E n \in DOMAIN queue : queue[n].id = i)
            ~> ~(\E n \in DOMAIN queue : queue[n].id = i)

\* A stop, from the management port or from the console handler, ends both
\* threads and empties the queue, wherever they are when it comes.  Only one
\* that comes before run_edge_loop starts is undone there.
StopEnds ==
    ~keep_running /\ main # "start" ~> (main = "end" /\ reader = "done" /\ queue = <<>>)

\* Both: whatever the threads do, packets and stops get through.
QueueProgress == PacketsLeave /\ StopEnds

=============================================================================
