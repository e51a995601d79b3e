------------------------------ MODULE Resolver ------------------------------
(***************************************************************************)
(* The thread that resolves the supernodes' names (resolve_thread) and the *)
(* main loop that takes over its results (resolve_check), under one mutex  *)
(* that the thread holds while it waits for the name service and that the  *)
(* main loop only tries.  Times are ages, counted in steps of Tick.        *)
(***************************************************************************)
EXTENDS Integers, FiniteSetsExt, TLAPS

CONSTANTS Name,          \* supernodes given by a name: the entries of the list
          Addr, Fail,    \* what the name service answers
          Long, Short,   \* N2N_RESOLVE_INTERVAL and a tenth of it
          CheckLong, CheckShort,   \* N2N_RESOLVE_CHECK_INTERVAL and a tenth of it
          MaxChanges     \* how often an answer of the name service changes

\* what is assumed of the constants
IntervalsOrdered == /\ {Long, Short, CheckLong, CheckShort} \subseteq Nat
                    /\ Short < Long /\ CheckShort < CheckLong

VARIABLES dns, changes,   \* the name service
          org,            \* org_sock: the sockets in the list of supernodes
          sock, error,    \* each entry's sock and error_code
          changed, request,
          lock,           \* whether the thread holds the mutex
          todo,           \* entries still to be resolved in this round
          rep, sinceRes,  \* rep_time, and the age of last_resolved
          interval, sinceCheck,    \* check_interval, and the age of last_checked
          wanted          \* resolution_request of the edge

env == <<dns, changes>>
list == <<org, sock, error, changed, request>>
thread == <<lock, todo, rep, sinceRes>>
main == <<interval, sinceCheck, wanted>>
vars == <<env, list, thread, main>>

Cap(n) == Min({n, Long + 1})

Init ==
    /\ dns \in [Name -> Addr] /\ changes = 0
    /\ org = dns /\ sock = org /\ error = [n \in Name |-> FALSE]
    /\ changed = FALSE /\ request = FALSE
    /\ lock = FALSE /\ todo = {}
    /\ rep = Short /\ sinceRes = Long + 1
    /\ interval = CheckLong /\ sinceCheck = Long + 1
    /\ wanted = FALSE

-----------------------------------------------------------------------------
(* resolve_thread                                                          *)

Due == request \/ sinceRes > rep

WakeUp ==
    /\ ~lock /\ Due
    /\ lock' = TRUE /\ todo' = Name
    /\ UNCHANGED <<env, list, rep, sinceRes, main>>

\* the wrong version that compares with the entry's own last result
ResolveComparingOwn(n) ==
    /\ lock /\ n \in todo
    /\ todo' = todo \ {n}
    /\ error' = [error EXCEPT ![n] = dns[n] = Fail]
    /\ sock' = [sock EXCEPT ![n] = IF dns[n] = Fail THEN @ ELSE dns[n]]
    /\ changed' = (dns[n] # Fail /\ sock'[n] # sock[n])
    /\ UNCHANGED <<env, org, request, lock, rep, sinceRes, main>>

\* supernode2sock leaves the socket alone when it fails
Resolve(n) ==
    /\ lock /\ n \in todo
    /\ todo' = todo \ {n}
    /\ error' = [error EXCEPT ![n] = dns[n] = Fail]
    /\ sock' = [sock EXCEPT ![n] = IF dns[n] = Fail THEN @ ELSE dns[n]]
    /\ changed' = (changed \/ (sock'[n] # org[n] /\ ~error'[n]))
    /\ UNCHANGED <<env, org, request, lock, rep, sinceRes, main>>

Finish ==
    /\ lock /\ todo = {}
    /\ sinceRes' = 0 /\ request' = FALSE
    /\ rep' = IF \E n \in Name : error[n] THEN Short ELSE Long
    /\ lock' = FALSE
    /\ UNCHANGED <<env, org, sock, error, changed, todo, main>>

-----------------------------------------------------------------------------
(* The main loop.                                                          *)

\* the wrong version that clears the edge's request even if the mutex was held
CheckForgettingRequest ==
    /\ sinceCheck > interval \/ wanted
    /\ wanted' = FALSE
    /\ UNCHANGED <<env, thread>>
    /\ \/ lock /\ UNCHANGED <<list, interval, sinceCheck>>
       \/ /\ ~lock
          /\ changed' = FALSE /\ org' = IF changed THEN sock ELSE org
          /\ request' = (request \/ wanted)
          /\ sinceCheck' = 0 /\ interval' = IF request' THEN CheckShort ELSE CheckLong
          /\ UNCHANGED <<sock, error>>

resolve_check ==
    /\ sinceCheck > interval \/ wanted
    /\ ~lock
    /\ changed' = FALSE /\ org' = IF changed THEN sock ELSE org
    /\ request' = (request \/ wanted) /\ wanted' = FALSE
    /\ sinceCheck' = 0 /\ interval' = IF request' THEN CheckShort ELSE CheckLong
    /\ UNCHANGED <<env, sock, error, thread>>

\* no supernode answers: update_supernode_reg asks for a resolution
Want ==
    /\ ~wanted
    /\ wanted' = TRUE
    /\ UNCHANGED <<env, list, thread, interval, sinceCheck>>

Tick ==
    /\ sinceRes' = Cap(sinceRes + 1) /\ sinceCheck' = Cap(sinceCheck + 1)
    /\ UNCHANGED <<env, list, lock, todo, rep, interval, wanted>>

DnsChanges(n, a) ==
    /\ changes < MaxChanges /\ dns[n] # a
    /\ changes' = changes + 1
    /\ dns' = [dns EXCEPT ![n] = a]
    /\ UNCHANGED <<list, thread, main>>

Next ==
    \/ WakeUp \/ Finish \/ \E n \in Name : Resolve(n)
    \/ resolve_check \/ Want \/ Tick
    \/ \E n \in Name, a \in Addr \cup {Fail} : DnsChanges(n, a)

Spec == Init /\ [][Next]_vars

\* the thread sleeps for a few seconds at a time, the main loop calls
\* resolve_check in every turn and finds the mutex free between two rounds
LiveSpec == Spec /\ WF_vars(Tick) /\ WF_vars(WakeUp) /\ WF_vars(Finish)
                 /\ (\A n \in Name : WF_vars(Resolve(n))) /\ SF_vars(resolve_check)

-----------------------------------------------------------------------------
(* What is checked.                                                        *)

TypeOK ==
    /\ org \in [Name -> Addr] /\ sock \in [Name -> Addr] /\ error \in [Name -> BOOLEAN]
    /\ {changed, request, lock, wanted} \subseteq BOOLEAN
    /\ todo \subseteq Name /\ (~lock => todo = {})
    /\ rep \in {Short, Long} /\ interval \in {CheckShort, CheckLong}

\* A new address that the thread has stored is never overlooked: it stays
\* flagged until the main loop has copied it, whatever later rounds find.
NoMissedChange == \A n \in Name : sock[n] # org[n] => changed

\* After an error the names are resolved again after the short interval, not
\* after the long one.
RetriedSoon == ~lock /\ (\E n \in Name : error[n]) => rep = Short

-----------------------------------------------------------------------------
(* What is proved, for any names and addresses and any intervals.          *)

\* The inductive invariant: what the name service answers has to be known to
\* type the sockets, the rest carries itself.
IInv ==
    /\ TypeOK /\ NoMissedChange /\ RetriedSoon
    /\ dns \in [Name -> Addr \cup {Fail}]

\* It holds when resolve_create_thread has filled the list.
LEMMA InitInv == Init => IInv
BY Zenon, Zenon DEF Init, IInv, TypeOK, NoMissedChange, RetriedSoon

\* Every step of the thread, of the main loop and of the name service keeps it.
LEMMA NextInv == IInv /\ [Next]_vars => IInv'
<1> SUFFICES ASSUME IInv, [Next]_vars PROVE IInv'
  OBVIOUS
<1> USE DEF IInv, TypeOK, NoMissedChange, RetriedSoon, env, list, thread, main
<1>1. CASE WakeUp
  BY <1>1 DEF WakeUp
<1>2. CASE Finish
  BY Zenon, <1>2 DEF Finish
<1>3. ASSUME NEW n \in Name, Resolve(n) PROVE IInv'
  <2>1. /\ TypeOK' /\ dns' \in [Name -> Addr \cup {Fail}] /\ lock'
    BY <1>3 DEF Resolve
  <2>2. ASSUME NEW m \in Name, sock'[m] # org'[m] PROVE changed'
    <3>1. CASE m = n
      BY Zenon, <1>3, <2>2, <3>1 DEF Resolve
    <3>2. CASE m # n
      BY <1>3, <2>2, <3>2 DEF Resolve
    <3> QED
      BY <3>1, <3>2
  <2> QED
    BY <2>1, <2>2
<1>4. CASE resolve_check
  BY Zenon, <1>4 DEF resolve_check
<1>5. CASE Want
  BY <1>5 DEF Want
<1>6. CASE Tick
  BY <1>6 DEF Tick
<1>7. ASSUME NEW n \in Name, NEW a \in Addr \cup {Fail}, DnsChanges(n, a) PROVE IInv'
  BY <1>7 DEF DnsChanges
<1>8. CASE UNCHANGED vars
  BY <1>8 DEF vars
<1> QED
  BY <1>1, <1>2, <1>3, <1>4, <1>5, <1>6, <1>7, <1>8 DEF Next

\* resolve_thread and resolve_check, which share nothing but the mutex and the
\* flags, never lose a new address: as long as the main loop does not use
\* what the thread has stored, it is flagged.
THEOREM NoChangeMissed == Spec => []NoMissedChange
<1>1. IInv => NoMissedChange
  BY DEF IInv
<1> QED
  BY <1>1, InitInv, NextInv, PTL DEF Spec

\* A name that could not be resolved shortens the interval to the next round,
\* whatever the other names of that round gave.
THEOREM RetriesSoon == Spec => []RetriedSoon
<1>1. IInv => RetriedSoon
  BY DEF IInv
<1> QED
  BY <1>1, InitInv, NextInv, PTL DEF Spec

=============================================================================
