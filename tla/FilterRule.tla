----------------------------- MODULE FilterRule -----------------------------
(***************************************************************************)
(* process_traffic_filter_rule_str: the rule strings of option -R, read    *)
(* character by character with one stage per field.  A string is a         *)
(* sequence of characters, where the digits and dots of a number or an     *)
(* address stand together as one "text", and the letters of a protocol as  *)
(* one "name"; texts and names fit the buffers that they are copied to.    *)
(* The terminating zero is the position after the last.                    *)
(***************************************************************************)
EXTENDS Integers, Sequences, SequencesExt

CONSTANTS Addresses, Numbers, Protocols,
          MaxPort,        \* 65535
          MaxLen,         \* 32
          LenOfStrings    \* bound: length of the arbitrary strings

Text(v) == [c |-> "text", v |-> v]
Name(p) == [c |-> "name", v |-> p]
Char(c) == [c |-> c, v |-> 0]

Marks == {"/", ":", "[", "]", ",", "+", "-"}

Nothing == [addr |-> 0, len |-> 0, from |-> 0, to |-> 0]
NoRule == [src |-> Nothing, dst |-> Nothing, configured |-> {}, accept |-> {}]

VARIABLES str, meant,     \* the string, and the rule it was written from, or NoRule
          pos, begin,     \* cur_pos and stage_begin_pos
          stage,
          rule,
          result          \* "running", "ok" or "error"

vars == <<str, meant, pos, begin, stage, rule, result>>

-----------------------------------------------------------------------------
(* The format, as the documentation has it.                                *)

Side == {s \in [addr : Addresses, len : Numbers, from : Numbers \cup {0}, to : Numbers \cup {MaxPort}] : s.from <= s.to}

\* the ways to write one side; what is left out has a default
WriteNet(s) == {<<Text(s.addr), Char("/"), Text(s.len)>>} \cup (IF s.len = MaxLen THEN {<<Text(s.addr)>>} ELSE {})
WritePorts(s) ==
    {<<Char(":"), Char("["), Text(s.from), Char(","), Text(s.to), Char("]")>>}
        \cup (IF s.from = s.to THEN {<<Char(":"), Text(s.from)>>} ELSE {})
        \cup (IF s.from = 0 /\ s.to = MaxPort THEN {<<>>} ELSE {})
WriteSide(s) == {n \o p : n \in WriteNet(s), p \in WritePorts(s)}

\* every protocol that is configured, with its sign
WriteProtos(r) ==
    FlattenSeq([i \in DOMAIN SetToSeq(r.configured) |->
                  LET p == SetToSeq(r.configured)[i]
                  IN <<Char(","), Name(p), Char(IF p \in r.accept THEN "+" ELSE "-")>>])

Write(r) == {s \o <<Char(",")>> \o d \o WriteProtos(r) : s \in WriteSide(r.src), d \in WriteSide(r.dst)}

Rules == {r \in [src : Side, dst : Side, configured : SUBSET Protocols, accept : SUBSET Protocols] :
            r.accept \subseteq r.configured}

-----------------------------------------------------------------------------
Init ==
    /\ \/ \E r \in Rules : meant = r /\ str \in Write(r)
       \/ /\ meant = NoRule
          /\ str \in BoundedSeq({Char(c) : c \in Marks \ {"-"}} \cup {Text(1), Name(1)}, LenOfStrings)
    /\ pos = 1 /\ begin = 1 /\ stage = "SRC_NET" /\ rule = NoRule /\ result = "running"

At(p) == IF p > Len(str) THEN "end" ELSE str[p].c
Cur == At(pos)
Following == At(pos + 1)

\* get_int32_from_number_string and get_int32_addr_from_ip_string of what stands
\* between begin and pos: atoi makes 0 of nothing, inet_addr makes INADDR_NONE of it
Number == IF begin < pos THEN str[begin].v ELSE 0
Address == IF begin < pos THEN str[begin].v ELSE -1

Stay == /\ stage' = stage /\ rule' = rule /\ begin' = begin
        /\ result' = IF Cur = "end" THEN "ok" ELSE "running"
        /\ pos' = pos + 1

Fail == /\ result' = "error" /\ UNCHANGED <<pos, begin, stage, rule>>

\* the string ends after this character
Close(r) ==
    /\ stage' = "PROTO" /\ rule' = r /\ pos' = pos + 1 /\ begin' = begin /\ result' = "running"

\* the field is finished: next stage, with "skip" further characters
Finish(to, r, skip) ==
    /\ stage' = to /\ rule' = r /\ begin' = pos + 1 + skip /\ pos' = pos + 1 + skip
    /\ result' = IF At(pos + skip) = "end" THEN "ok" ELSE "running"

PortStage(side) == IF Following = "[" THEN side \o "_PORT_RANGE" ELSE side \o "_PORT_SINGLE"

Put(side, s) == IF side = "SRC" THEN [rule EXCEPT !.src = s] ELSE [rule EXCEPT !.dst = s]
Field(side) == IF side = "SRC" THEN rule.src ELSE rule.dst

\* the stage after one side, and the characters that end it
After(side) == IF side = "SRC" THEN "DST_NET" ELSE "PROTO"
Ends(side) == IF side = "SRC" THEN {","} ELSE {",", "end"}

\* the wrong version that forgets the default ports
AllPortsMissing(s) == s

AllPorts(s) == [s EXCEPT !.from = 0, !.to = MaxPort]

Net(side) ==
    LET s == Field(side)
        single == [s EXCEPT !.addr = Address, !.len = MaxLen]
    IN /\ stage = side \o "_NET"
       /\ \/ Cur = "text" /\ Stay
          \/ Cur = "/" /\ Finish(side \o "_NET_BIT_LEN", Put(side, [s EXCEPT !.addr = Address]), 0)
          \/ Cur = ":" /\ Finish(PortStage(side), Put(side, single), 0)
          \/ Cur \in Ends(side) /\ Finish(After(side), Put(side, AllPorts(single)), 0)
          \/ Cur \notin {"text", "/", ":"} \cup Ends(side) /\ Fail

BitLen(side) ==
    LET s == [Field(side) EXCEPT !.len = Number]
    IN /\ stage = side \o "_NET_BIT_LEN"
       /\ \/ Cur = "text" /\ Stay
          \/ Cur = ":" /\ Finish(PortStage(side), Put(side, s), 0)
          \/ Cur \in Ends(side) /\ Finish(After(side), Put(side, AllPorts(s)), 0)
          \/ Cur \notin {"text", ":"} \cup Ends(side) /\ Fail

PortSingle(side) ==
    /\ stage = side \o "_PORT_SINGLE"
    /\ \/ Cur = "text" /\ Stay
       \/ Cur \in Ends(side) /\ Finish(After(side), Put(side, [Field(side) EXCEPT !.from = Number, !.to = Number]), 0)
       \/ Cur \notin {"text"} \cup Ends(side) /\ Fail

PortRange(side) ==
    /\ stage = side \o "_PORT_RANGE"
    /\ \/ Cur = "[" /\ Finish(side \o "_PORT_START", rule, 0)
       \/ Cur # "[" /\ Fail

PortStart(side) ==
    /\ stage = side \o "_PORT_START"
    /\ \/ Cur = "text" /\ Stay
       \/ Cur = "," /\ Finish(side \o "_PORT_END", Put(side, [Field(side) EXCEPT !.from = Number]), 0)
       \/ Cur \notin {"text", ","} /\ Fail

\* the comma after the bracket is skipped, too
PortEnd(side) ==
    LET r == Put(side, [Field(side) EXCEPT !.to = Number])
    IN /\ stage = side \o "_PORT_END"
       /\ \/ Cur = "text" /\ Stay
          \/ Cur = "]" /\ Following = "," /\ Finish(After(side), r, 1)
          \/ Cur = "]" /\ Following = "end" /\ side = "DST" /\ Close(r)
          \/ Cur # "text" /\ ~(Cur = "]" /\ Following \in Ends(side)) /\ Fail

\* process_traffic_filter_proto: the name is looked for in the whole text, the sign
\* where it is when the text is nothing but the name
WithProto(sign) ==
    LET named == {i \in begin .. pos - 1 : str[i].c = "name" /\ str[i].v \in Protocols}
    IN IF named = {} THEN rule
       ELSE LET i == CHOOSE i \in named : TRUE
                p == str[i].v
            IN [rule EXCEPT !.configured = @ \cup {p},
                            !.accept = IF sign = "+" /\ i = begin /\ pos = begin + 1
                                       THEN @ \cup {p} ELSE @ \ {p}]

\* after a sign the next character is skipped, whatever it is
Proto ==
    /\ stage = "PROTO"
    /\ \/ Cur \notin {"+", "-", ","} /\ Stay
       \/ Cur \in {"+", "-"} /\ Following = "end" /\ Close(WithProto(Cur))
       \/ Cur \in {"+", "-"} /\ Following # "end" /\ Finish("PROTO", WithProto(Cur), 1)
       \/ Cur = "," /\ Fail

Stage(side) == Net(side) \/ BitLen(side) \/ PortSingle(side) \/ PortRange(side) \/ PortStart(side) \/ PortEnd(side)

SrcStages == Stage("SRC")
DstStages == Stage("DST")

Next == result = "running" /\ (SrcStages \/ DstStages \/ Proto) /\ UNCHANGED <<str, meant>>

Spec == Init /\ [][Next]_vars

-----------------------------------------------------------------------------
(* What is checked.                                                        *)

TypeOK ==
    /\ result \in {"running", "ok", "error"}
    /\ rule.accept \subseteq rule.configured /\ rule.configured \subseteq Protocols

\* A rule written in any of the ways that the documentation of the rule
\* strings allows is read as that rule.
RoundTrip == meant # NoRule => result # "error" /\ (result = "ok" => rule = meant)

\* Whatever the string is, no character after its end is looked at.
NotBeyond == result = "running" => pos <= Len(str) + 1 /\ begin <= Len(str) + 2

=============================================================================
