-------------------------- MODULE DropOldestQueue --------------------------
(***************************************************************************)
(* What the queue between the TAP reader thread and the edge's main thread *)
(* promises: first in, first out; a packet that finds no room displaces as *)
(* many of the oldest ones as necessary and no more.                       *)
(***************************************************************************)
EXTENDS Naturals, Sequences, FiniteSetsExt

CONSTANTS Packet,       \* records with a length len
          MaxPackets, MaxBytes

VARIABLES queue,    \* the packets that wait, oldest first
          open      \* FALSE after the shutdown
vars == <<queue, open>>

\* Sums(s)[i]: the length of the first i packets of s.
Sums(s) ==
    LET sum[i \in 0..Len(s)] == IF i = 0 THEN 0 ELSE sum[i - 1] + s[i].len
    IN sum
Bytes(s) == Sums(s)[Len(s)]
Fits(s) == Len(s) <= MaxPackets /\ Bytes(s) <= MaxBytes

Init == queue = <<>> /\ open = TRUE

\* The longest suffix of the queue that leaves room for p.
Put(p) ==
    /\ open /\ p.len <= MaxBytes
    /\ LET From(i) == Append(SubSeq(queue, i, Len(queue)), p)
           first == Min({i \in 1..(Len(queue) + 1) : Fits(From(i))})
       IN queue' = From(first)
    /\ UNCHANGED open

Get == open /\ queue # <<>> /\ queue' = Tail(queue) /\ UNCHANGED open

Close == open /\ queue' = <<>> /\ open' = FALSE

Next == (\E p \in Packet : Put(p)) \/ Get \/ Close

Spec == Init /\ [][Next]_vars

=============================================================================
