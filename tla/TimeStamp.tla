----------------------------- MODULE TimeStamp -----------------------------
(***************************************************************************)
(* The time stamps of encrypted headers: time_stamp issues them, and       *)
(* time_stamp_verify_and_update compares those of arriving packets with    *)
(* the clock and with the last valid one of the sender.                    *)
(*                                                                         *)
(* A stamp is a number with the fields (from the left) second,             *)
(* microsecond, counter and flag; once more stamps were needed within a    *)
(* microsecond than the counter holds, the flag is set and the field of    *)
(* the microseconds counts as well.  The sizes of the fields are           *)
(* constants; the flag is a single bit.                                    *)
(*                                                                         *)
(* One sender, one receiver, and a network that delays, duplicates and     *)
(* reorders.  Both clocks move together.                                   *)
(***************************************************************************)
EXTENDS Integers, FiniteSets

CONSTANTS Micros,     \* microseconds in a second (2^20 in the field)
          Counters,   \* values of the counter (2^8)
          Frame,      \* TIME_STAMP_FRAME
          Jitter,     \* TIME_STAMP_JITTER
          MaxClock,   \* how long the run is, in microseconds
          MaxIssued   \* how many packets are sent

SizesPositive == {Micros, Counters, Frame, Jitter} \subseteq Nat \ {0}

VARIABLES clock,      \* microseconds since the start
          issued,     \* previously_issued_time_stamp of the sender
          own,        \* and of the receiver, which takes a stamp for every check
          net,        \* packets sent: [no, stamp, strict]
          last,       \* last_valid_time_stamp of the sender at the receiver
          accepted,   \* the packets that were accepted
          verdict     \* of the last packet: whether it was accepted, and the value of last before

vars == <<clock, issued, own, net, last, accepted, verdict>>

UsUnit == 2 * Counters
SecUnit == Micros * UsUnit

\* the part of a stamp that counts
Low(co) == IF co = 1 THEN SecUnit ELSE UsUnit

time_stamp(previous, now) ==
    LET micro == now * UsUnit
        co == previous % 2
        low == Low(co)
        unchanged == previous \div low = micro \div low
        counter == IF unchanged THEN 2 * ((previous % low) \div 2 + 1) ELSE 0
        new == IF co = 1 \/ (unchanged /\ counter % low = 0) THEN 1 ELSE 0
    IN micro - (micro % Low(new)) + counter + new

initial_time_stamp(previous, now) == time_stamp(previous, now) - Frame

\* TIME_STAMP_JITTER << (co << 3)
Allowed(stamp) == IF stamp % 2 = 1 THEN Jitter * 256 ELSE Jitter

Abs(n) == IF n < 0 THEN -n ELSE n

\* the wrong version that takes equal stamps for new ones
ValidOrEqual(stamp, now, previous, jitter) ==
    /\ Abs(stamp - now) < Frame
    /\ stamp - previous + (IF jitter THEN Allowed(stamp) ELSE 0) >= 0

\* time_stamp_verify_and_update
Valid(stamp, now, previous, jitter) ==
    /\ Abs(stamp - now) < Frame
    /\ stamp - previous + (IF jitter THEN Allowed(stamp) ELSE 0) > 0

Updated(stamp, previous) == IF stamp > previous THEN stamp ELSE previous

-----------------------------------------------------------------------------
Init ==
    /\ clock = Micros /\ issued = 0
    /\ own = time_stamp(0, clock)
    /\ last = initial_time_stamp(0, clock)
    /\ net = {} /\ accepted = {}
    /\ verdict = [ok |-> TRUE, packet |-> 0, before |-> last]

Tick ==
    /\ clock < MaxClock
    /\ clock' = clock + 1
    /\ UNCHANGED <<issued, own, net, last, accepted, verdict>>

\* a packet is sent; registrations are strict, which allows no jitter
Send(strict) ==
    /\ Cardinality(net) < MaxIssued
    /\ issued' = time_stamp(issued, clock)
    /\ net' = net \cup {[no |-> Cardinality(net) + 1, stamp |-> issued', strict |-> strict]}
    /\ UNCHANGED <<clock, own, last, accepted, verdict>>

\* find_peer_time_stamp_and_verify for a packet, which may come again
Receive(p) ==
    /\ own' = time_stamp(own, clock)
    /\ LET ok == Valid(p.stamp, own', last, ~p.strict)
       IN /\ last' = IF ok THEN Updated(p.stamp, last) ELSE last
          /\ accepted' = IF ok THEN accepted \cup {p} ELSE accepted
          /\ verdict' = [ok |-> ok, packet |-> p.no, before |-> last]
    /\ UNCHANGED <<clock, issued, net>>

Next == Tick \/ (\E strict \in BOOLEAN : Send(strict)) \/ \E p \in net : Receive(p)

Spec == Init /\ [][Next]_vars

-----------------------------------------------------------------------------
(* What is checked.                                                        *)

TypeOK ==
    /\ clock \in Micros..MaxClock
    /\ issued \div SecUnit <= clock \div Micros
    /\ \A p \in net : p.stamp <= issued \/ issued % 2 = 1
    /\ last \in Int /\ own > 0

\* time_stamp never issues a stamp twice, the change to counting included:
\* the initialisation vector of a header relies on it.
StampsDistinct == \A p, q \in net : p.stamp = q.stamp => p = q

\* A packet that is allowed no jitter is accepted only if its stamp is
\* higher than all accepted ones of the sender, so a second copy never is.
StrictHigherStep ==
    \A p \in net : p.strict /\ verdict' # verdict /\ verdict'.packet = p.no /\ verdict'.ok
            => \A q \in accepted : p.stamp > q.stamp

\* The allowed jitter does not turn the clock back: the last valid stamp is
\* the highest that was accepted.
LastIsHighest == \A p \in accepted : p.stamp <= last

\* A packet that arrives in order, within a second, is accepted unless it is
\* a registration that follows the sender's change to counting: stamps with
\* the flag are behind the ones before.
InOrder(p) == \A q \in accepted : q.no < p.no
InOrderAcceptedStep ==
    \A p \in net :
         verdict' # verdict /\ verdict'.packet = p.no /\ InOrder(p)
            /\ Abs(p.stamp - clock * UsUnit) < Frame - SecUnit /\ (~p.strict \/ issued % 2 = 0)
         => verdict'.ok

=============================================================================
