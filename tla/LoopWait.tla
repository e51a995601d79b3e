----------------------------- MODULE LoopWait -----------------------------
(***************************************************************************)
(* How long run_edge_loop (edge_utils.c) and run_sn_loop (sn_utils.c) sleep *)
(* in select, against what is due when they wake up: the next update of a  *)
(* KCP session, and the fast retry of a registration.  The millisecond     *)
(* clock (n2n_kcp_now_ms) keeps 32 bits and wraps every 50 days.           *)
(***************************************************************************)
EXTENDS Naturals, Sequences

CONSTANTS
    Modulus,            \* 2^32
    retry_schedule_ms,  \* <<300, 600, 1000, 1500>>
    KcpDefault,         \* 10, as long as there is a session
    RetryDefault,       \* 2000, while a registration is unanswered
    Interval            \* what ikcp_check may answer: current + 0..Interval

ScheduleAssumption ==
    /\ KcpDefault < Modulus /\ Interval < Modulus
    /\ \A i \in DOMAIN retry_schedule_ms :
           retry_schedule_ms[i] \in 1..(Modulus - RetryDefault)

VARIABLES
    now_ms,             \* n2n_kcp_now_ms
    due,                \* per active KCP session: ms until its next update
    last,               \* last_register_req_ms
    stage,              \* register_fast_retry_count
    sn_wait

vars == <<now_ms, due, last, stage, sn_wait>>

Clock == 0..(Modulus - 1)
MinOf(S) == CHOOSE x \in S : \A y \in S : x <= y
Later(t, d) == (t + d) % Modulus
Elapsed(t, since) == (t + Modulus - since) % Modulus

\* Across the wrap of the clock the next update looks past: no sleep at all.
n2n_kcp_wait_timeout_ms_ctx(t, next) ==
    LET delta == IF next <= t THEN 0 ELSE next - t
    IN IF delta > KcpDefault THEN KcpDefault ELSE delta

\* Edge and supernode: the least over their sessions.
n2n_kcp_wait_timeout_ms(t) ==
    MinOf({KcpDefault} \cup
          {n2n_kcp_wait_timeout_ms_ctx(t, Later(t, due[i])) : i \in DOMAIN due})

edge_register_retry_interval_ms(n) ==
    retry_schedule_ms[IF n + 1 > Len(retry_schedule_ms) THEN Len(retry_schedule_ms) ELSE n + 1]

\* Mutant: the difference of the stamps without the wrap.
RetryWaitNoWrap(t) ==
    IF sn_wait = 2 \/ last = 0 THEN 0
    ELSE LET elapsed == IF t >= last THEN t - last ELSE 0
             interval == edge_register_retry_interval_ms(stage)
         IN IF elapsed >= interval THEN 0
            ELSE MinOf({interval - elapsed, RetryDefault})

edge_register_retry_wait_ms(t) ==
    IF sn_wait = 2 \/ last = 0 THEN 0
    ELSE LET elapsed == Elapsed(t, last)
             interval == edge_register_retry_interval_ms(stage)
         IN IF elapsed >= interval THEN 0
            ELSE MinOf({interval - elapsed, RetryDefault})

\* The wait of run_edge_loop while something is due soon.
WaitTime(t) ==
    IF due # <<>> THEN n2n_kcp_wait_timeout_ms(t) ELSE edge_register_retry_wait_ms(t)

\* fast_retry_due in update_supernode_reg.
FastRetryDue(t) ==
    \/ sn_wait = 2
    \/ /\ sn_wait # 0 /\ last # 0
       /\ Elapsed(t, last) >= edge_register_retry_interval_ms(stage)

Init ==
    /\ now_ms \in Clock /\ last = now_ms
    /\ due = <<>> /\ stage = 0 /\ sn_wait = 1

\* A round of the loop: the sleep, cut short by traffic or not, the update of
\* the sessions, and a registration if one is due.
Round ==
    \E d \in 0..WaitTime(now_ms) :
        LET t == Later(now_ms, d)
        IN /\ now_ms' = t
           /\ due' \in UNION {[1..n -> 0..Interval] : n \in 0..2}
           /\ IF FastRetryDue(t)
              THEN /\ last' = t /\ sn_wait' = 1
                   /\ stage' = IF sn_wait # 0 /\ stage < 3 THEN stage + 1 ELSE stage
              ELSE UNCHANGED <<last, stage, sn_wait>>

\* An answer, and then the next regular registration, some time later.
Answered ==
    /\ now_ms' \in Clock /\ last' = now_ms'
    /\ sn_wait' \in 1..2 /\ stage' = 0 /\ UNCHANGED due

Next == Round \/ Answered
Spec == Init /\ [][Next]_vars

----------------------------------------------------------------------------
\* No session waits for its update longer than ikcp_check said, the wrap of
\* the clock included.
KcpInTime == \A i \in DOMAIN due : WaitTime(now_ms) <= due[i]

\* The loop and update_supernode_reg agree on when a retry is due: a loop
\* that has slept as long as edge_register_retry_wait_ms says, and not for the
\* default, finds it due (and does not spin), and a retry is never due
\* earlier.  Except for a registration stamped 0, which means none.
RetryAgreed ==
    (due = <<>> /\ last # 0) =>
        LET d == WaitTime(now_ms)
        IN /\ d < RetryDefault => FastRetryDue(Later(now_ms, d))
           /\ \A s \in 0..d : FastRetryDue(Later(now_ms, s)) => s = d
============================================================================
