----------------------------- MODULE Management -----------------------------
(***************************************************************************)
(* What the management ports of edge and supernode have in common: a       *)
(* request, a line of text, is taken apart and authorised, and answered    *)
(* with packets.  A request is given by the number of its fields and what  *)
(* is in them; its options have a tag.  A packet is who it is sent to, its *)
(* _tag, its _type and what else it says.                                  *)
(***************************************************************************)
EXTENDS Integers, Sequences, SequencesExt

CONSTANTS Password,
          TagSize           \* sizeof(req->tag) - 1

None == "none"

\* a request without an argument
NoArg == -1

\* before it is known the tag is "-1"
NoTag == [name |-> "-1", len |-> 2]

\* a tag that is too long is cut off
Truncated(tag) == IF tag.len <= TagSize THEN tag ELSE [tag EXCEPT !.len = TagSize]

Packet(to, tag, type, val) == [to |-> to, tag |-> tag, type |-> type, val |-> val, whole |-> TRUE]

\* send_json_1str, send_json_1uint, with req->tag set to tag
Reply(req, tag, type, val) == <<Packet(req.from, tag, type, val)>>

mgmt_error(req, tag, msg) == Reply(req, tag, "error", msg)

\* the field with the password is only read when the flags say that it is there
Key(req) == IF req.flags % 2 = 1 THEN req.key ELSE None

mgmt_auth(req) ==
    \/ Key(req) = Password
    \/ Key(req) = None /\ req.type = "r"

\* mgmt_req_init2: the error and the tag it is sent with, or no error
mgmt_req_init2(req) ==
    CASE req.type \notin {"r", "w", "s"} -> [error |-> "badtype", tag |-> NoTag]
      [] req.type \in {"r", "w", "s"} /\ req.fields < 2 -> [error |-> "nooptions", tag |-> NoTag]
      [] req.type \in {"r", "w", "s"} /\ req.fields = 2 -> [error |-> "nocmd", tag |-> NoTag]
      [] req.type \in {"r", "w", "s"} /\ req.fields > 2 ->
            [error |-> IF mgmt_auth(req) THEN None ELSE "badauth", tag |-> Truncated(req.tag)]

\* the rest of handleMgmtJson: the error for a command that is not one of cmds, or is
\* written though not writable
Refused(req, cmds, writable) ==
    IF req.cmd \notin cmds THEN "unknowncmd"
    ELSE IF req.type = "w" /\ req.cmd \notin writable THEN "readonly" ELSE None

\* ... or what the function of the command sends, between a begin and an end
Framed(req, tag, rows) == Reply(req, tag, "begin", req.cmd) \o rows \o Reply(req, tag, "end", req.cmd)

\* the function of a command that may be written is called
Called(req, cmd) == mgmt_req_init2(req).error = None /\ req.type # "s" /\ req.cmd = cmd

\* one row
Row(req, tag, val) == Reply(req, tag, "row", val)

\* mgmt_help
mgmt_help(req, tag, cmds) == FlattenSeq([i \in DOMAIN cmds |-> Row(req, tag, <<"help", cmds[i]>>)])

\* What a client makes of the answer to a JSON request of its own (events aside): an
\* error, or a begin, rows or errors, and an end, all with the tag of the request, or
\* the packets of a subscription.
IsFramed(answer) ==
    LET type(i) == answer[i].type
    IN \/ Len(answer) = 1 /\ type(1) \in {"error", "subscribe"}
       \/ Len(answer) = 2 /\ type(1) = "replacing" /\ type(2) = "subscribe"
       \/ /\ Len(answer) >= 2 /\ type(1) = "begin" /\ type(Len(answer)) = "end"
          /\ \A i \in 2 .. Len(answer) - 1 : type(i) \in {"row", "error"}
          /\ \A i \in DOMAIN answer : answer[i].tag = answer[1].tag

=============================================================================
