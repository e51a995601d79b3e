--------------------------- MODULE TrafficFilter ---------------------------
(***************************************************************************)
(* network_traffic_filter.c: the verdict on a frame is that of the rule    *)
(* that fits it best, kept in a cache with one entry per kind of packet    *)
(* that some rule fits; entries that were hit too seldom are thrown out    *)
(* after every ClearEvery lookups.  An entry is known by its place in      *)
(* memory: a place that was freed may be given out again.                  *)
(***************************************************************************)
EXTENDS Integers, FiniteSets, FiniteSetsExt, Sequences

CONSTANTS Bits,          \* width of an address
          RuleLists,     \* the rules of the configurations, in the order of options -R
          Frames,
          Threads,       \* who filters: the main loop, on Windows also the reader of the device
          Places,        \* bound: memory for entries, 1 .. Places
          ClearEvery,    \* CLEAR_CACHE_EVERY_X_COUNT
          ActiveCount,   \* CLAER_CACHE_ACTIVE_COUNT
          MaxCalls       \* bound: calls, 0 for no bound

VARIABLES rules,
          memory,        \* entries in use; a place that is not in use holds Freed
          work,          \* work_count_scene_last_clear
          pc, packet, entry,   \* per thread: where it is, for which packet, with which entry
          verdict,       \* per thread: of its last call
          calls

vars == <<rules, memory, work, pc, packet, entry, verdict, calls>>

Freed == [key |-> [proto |-> "freed"], active |-> 0, allow |-> FALSE]
Used == {e \in 1 .. Places : memory[e] # Freed}

-----------------------------------------------------------------------------
(* What the filter knows of a frame, and the rules.                        *)

\* collect_packet_info: addresses only of IPv4, ports only of TCP and UDP that is not cut off
Info(f) ==
    LET ip == f.kind \in {"TCP", "UDP", "ICMP", "IGMP", "other4"}
        ports == f.kind \in {"TCP", "UDP"} /\ ~f.cut
    IN [proto |-> IF f.kind \in {"TCP", "UDP", "ICMP", "IGMP", "ARP"} THEN f.kind ELSE "unknown",
        src   |-> IF ip THEN f.src ELSE 0,
        dst   |-> IF ip THEN f.dst ELSE 0,
        sport |-> IF ports THEN f.sport ELSE 0,
        dport |-> IF ports THEN f.dport ELSE 0]

Network(addr, len) == addr - (addr % 2^(Bits - len))

\* march_cidr_and_address: 0 when the address is not in the block
CidrScore(net, addr) == IF net.addr = Network(addr, net.len) THEN net.len + 1 ELSE 0

InPorts(net, port) == net.from <= port /\ port <= net.to

\* march_rule_and_cache_key: 0 when the rule does not fit
Score(r, i) ==
    IF /\ i.proto \in {"TCP", "UDP", "ICMP"} /\ i.proto \in r.configured
       /\ i.proto = "ICMP" \/ (InPorts(r.src, i.sport) /\ InPorts(r.dst, i.dport))
       /\ CidrScore(r.src, i.src) > 0 /\ CidrScore(r.dst, i.dst) > 0
    THEN CidrScore(r.src, i.src) + CidrScore(r.dst, i.dst)
    ELSE 0

\* get_filter_rule: the first with the highest score, 0 when none fits
FilterRule(i) ==
    LET best == {k \in DOMAIN rules : /\ Score(rules[k], i) > 0
                                      /\ \A j \in DOMAIN rules : Score(rules[j], i) <= Score(rules[k], i)}
    IN IF best = {} THEN 0 ELSE Min(best)

-----------------------------------------------------------------------------
Init ==
    /\ rules \in RuleLists
    /\ memory = [e \in 1 .. Places |-> Freed] /\ work = 0
    /\ pc = [t \in Threads |-> "idle"] /\ packet = [t \in Threads |-> Freed.key]
    /\ entry = [t \in Threads |-> 0] /\ verdict = [t \in Threads |-> "none"] /\ calls = 0

Found(i) == {e \in Used : memory[e].key = i}

\* filter_packet_from_peer and filter_packet_from_tap, up to the lookup of the entry;
\* what no rule fits has no entry
Call(t) ==
    /\ pc[t] = "idle" /\ (MaxCalls = 0 \/ calls < MaxCalls)
    /\ calls' = IF MaxCalls = 0 THEN 0 ELSE calls + 1
    /\ \E f \in Frames :
          LET i == Info(f)
          IN /\ packet' = [packet EXCEPT ![t] = i]
             /\ \/ /\ Found(i) # {}
                   /\ entry' = [entry EXCEPT ![t] = Min(Found(i))] /\ pc' = [pc EXCEPT ![t] = "count"]
                \/ /\ Found(i) = {} /\ FilterRule(i) # 0
                   /\ entry' = entry /\ pc' = [pc EXCEPT ![t] = "add"]
                \/ /\ Found(i) = {} /\ FilterRule(i) = 0
                   /\ entry' = entry /\ pc' = [pc EXCEPT ![t] = "use"]
    /\ UNCHANGED <<rules, memory, work, verdict>>

\* the wrong version that reads the verdict of TCP for every protocol
AddTcp(t) ==
    /\ pc[t] = "add" /\ Cardinality(Used) < Places
    /\ LET e == Min(1 .. Places \ Used)
           r == rules[FilterRule(packet[t])]
       IN /\ memory' = [memory EXCEPT ![e] = [key |-> packet[t], active |-> 0, allow |-> "TCP" \in r.accept]]
          /\ entry' = [entry EXCEPT ![t] = e]
    /\ pc' = [pc EXCEPT ![t] = "count"]
    /\ UNCHANGED <<rules, work, packet, verdict, calls>>

\* a new entry with the verdict of the rule
Add(t) ==
    /\ pc[t] = "add" /\ Cardinality(Used) < Places
    /\ LET e == Min(1 .. Places \ Used)
           r == rules[FilterRule(packet[t])]
       IN /\ memory' = [memory EXCEPT ![e] =
                          [key |-> packet[t], active |-> 0, allow |-> packet[t].proto \in r.accept]]
          /\ entry' = [entry EXCEPT ![t] = e]
    /\ pc' = [pc EXCEPT ![t] = "count"]
    /\ UNCHANGED <<rules, work, packet, verdict, calls>>

\* update_and_clear_cache_if_need
Cleared(m) == [e \in 1 .. Places |-> IF m[e] = Freed \/ m[e].active < ActiveCount THEN Freed
                                     ELSE [m[e] EXCEPT !.active = 0]]

\* the entry is counted, then the cache is cleared when it is time to
Count(t) ==
    LET counted == IF memory[entry[t]] = Freed THEN memory ELSE [memory EXCEPT ![entry[t]].active = @ + 1]
    IN /\ pc[t] = "count"
       /\ IF work + 1 > ClearEvery THEN memory' = Cleared(counted) /\ work' = 0
          ELSE memory' = counted /\ work' = work + 1
       /\ pc' = [pc EXCEPT ![t] = "use"]
       /\ UNCHANGED <<rules, packet, entry, verdict, calls>>

\* dropped only if there is an entry that says so; one that is freed may say anything
Use(t) ==
    /\ pc[t] = "use"
    /\ \E v \in {"accept", "drop"} :
          /\ entry[t] = 0 => v = "accept"
          /\ entry[t] # 0 /\ memory[entry[t]] # Freed => (v = "accept") = memory[entry[t]].allow
          /\ verdict' = [verdict EXCEPT ![t] = v]
    /\ pc' = [pc EXCEPT ![t] = "idle"] /\ entry' = [entry EXCEPT ![t] = 0]
    /\ UNCHANGED <<rules, memory, work, packet, calls>>

Next == \E t \in Threads : Call(t) \/ Add(t) \/ Count(t) \/ Use(t)

Spec == Init /\ [][Next]_vars

-----------------------------------------------------------------------------
(* What is checked.                                                        *)

TypeOK ==
    /\ work \in 0 .. ClearEvery
    /\ \A t \in Threads : /\ pc[t] \in {"idle", "add", "count", "use"}
                          /\ verdict[t] \in {"none", "accept", "drop"}
                          /\ entry[t] \in 0 .. Places
    /\ \A e \in Used : memory[e].active \in Nat

\* The blocks of a rule hold both addresses, and, but for ICMP, both ports are in its ranges.
Fits(r, i) ==
    /\ i.proto \in r.configured
    /\ i.src \in r.src.addr .. r.src.addr + 2^(Bits - r.src.len) - 1
    /\ i.dst \in r.dst.addr .. r.dst.addr + 2^(Bits - r.dst.len) - 1
    /\ i.proto # "ICMP" => i.sport \in r.src.from .. r.src.to /\ i.dport \in r.dst.from .. r.dst.to

\* what the rules say of a packet: the narrowest of the rules that fit it decides,
\* the first of several; without one it is accepted
Allowed(i) ==
    \A k \in DOMAIN rules :
        \/ ~Fits(rules[k], i)
        \/ i.proto \in rules[k].accept
        \/ \E j \in DOMAIN rules :
              /\ Fits(rules[j], i)
              /\ LET lj == rules[j].src.len + rules[j].dst.len
                     lk == rules[k].src.len + rules[k].dst.len
                 IN lj > lk \/ (lj = lk /\ j < k)

\* The verdict of an entry that still exists is the one of the narrowest rule that
\* fits the packet, as the documentation has it, and a packet without an entry is
\* to be accepted: the cache of the verdicts changes none of them.
VerdictOfRules ==
    \A t \in Threads : pc[t] = "use" =>
        IF entry[t] = 0 THEN Allowed(packet[t])
        ELSE memory[entry[t]] # Freed => memory[entry[t]].allow = Allowed(packet[t])

\* The entries were hit as often, together, as there were lookups since the last
\* clearing: what stays and what is thrown out is counted over the same time.
CountedTogether == work = MapThenSumSet(LAMBDA e : memory[e].active, Used)

\* Every kind of packet has at most one entry.
OneEntry == \A d, e \in Used : memory[d].key = memory[e].key => d = e

=============================================================================
