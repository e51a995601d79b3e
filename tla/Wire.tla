-------------------------------- MODULE Wire --------------------------------
(***************************************************************************)
(* Messages on the wire (src/src/wire.c).  A sender encodes a message      *)
(* field by field into a buffer, the datagram may arrive cut off, and the  *)
(* receiver decodes it field by field.  The encode and decode functions of *)
(* a message type are sequences of calls, given here by sequences of       *)
(* <<kind, field>>; the two lists of a type are translated separately.     *)
(*                                                                         *)
(* A byte is a number; 32-bit numbers are small enough for a TLC integer.  *)
(***************************************************************************)
EXTENDS Integers, Sequences, SequencesExt

CONSTANTS Messages,     \* the messages to be sent, without their bytes
          Cut,          \* datagrams may be cut off
          Types         \* what the type of a socket that is not set may be

VARIABLES msg,     \* the message
          todo,    \* the calls of the encode or decode function still to come
          base,    \* the buffer
          ret,     \* return value of the encode function so far
          idx, rem,
          out,     \* the structures that are decoded to
          phase

vars == <<msg, todo, base, ret, idx, rem, out, phase>>

----------------------------------------------------------------------------
(* Sizes and numbers of the header files.                                  *)

Version == 3
MacSize == 6
CommunitySize == 20
DescSize == 16
VersionSize == 20
IPV4_SIZE == 4
IPV6_SIZE == 16
SocketFlag == 64            \* N2N_FLAGS_SOCKET
TypeValues == 32            \* values of N2N_FLAGS_TYPE_MASK, the low bits
SockPayloadSize == 4 + IPV6_SIZE
EntrySize == SockPayloadSize + MacSize

Zeros(n) == [i \in 1 .. n |-> 0]

HasSocket(flags) == (flags \div SocketFlag) % 2 = 1

IfSocket(flags, calls) == IF HasSocket(flags) THEN calls ELSE <<>>

----------------------------------------------------------------------------
(* Sockets.  addr has the bytes of the union, of which IPv4 uses the first. *)

fill_sockaddr(sock) ==
    [family |-> sock.family, port |-> sock.port,
     addr |-> SubSeq(sock.addr, 1, IF sock.family = "v4" THEN IPV4_SIZE ELSE IPV6_SIZE)]

encode_uint8(v) == <<v % 256>>
encode_uint16(v) == <<(v \div 256) % 256, v % 256>>
encode_uint32(v) == <<v \div 16777216, (v \div 65536) % 256, (v \div 256) % 256, v % 256>>

\* A socket without a family is not written at all.
encode_sock(s) ==
    LET f == (IF s.family = "v6" THEN 32768 ELSE 0) + (IF s.type = "tcp" THEN 16384 ELSE 0)
        n == IF s.family = "v4" THEN IPV4_SIZE ELSE IPV6_SIZE
    IN IF s.family \in {"v4", "v6"}
       THEN encode_uint16(f) \o encode_uint16(s.port) \o SubSeq(s.addr, 1, n)
       ELSE <<>>

\* The entries of the list of supernodes have a fixed layout of their own,
\* with the bytes of the port in the other order and without the type.
FamilyByte(f) == CASE f = "v4" -> 2 [] f = "v6" -> 10 [] OTHER -> 255

encode_sock_payload(s) ==
    <<FamilyByte(s.family), 0>> \o <<s.port % 256, (s.port \div 256) % 256>> \o s.addr

Entry(e) == encode_sock_payload(e.sock) \o e.mac

----------------------------------------------------------------------------
(* Encoding.                                                               *)

encode_common(m) ==
    encode_uint8(Version) \o encode_uint8(m.ttl)
    \o encode_uint16((m.pc % TypeValues) + (m.flags - (m.flags % TypeValues))) \o m.community

Encoded(kind, v) ==
    CASE kind = "u8" -> encode_uint8(v)
      [] kind = "u16" -> encode_uint16(v)
      [] kind = "u32" -> encode_uint32(v)
      [] kind = "sock" -> encode_sock(v)
      [] kind = "list" -> FlattenSeq([i \in 1 .. Len(v) |-> Entry(v[i])])
      [] OTHER -> v                         \* encode_buf, encode_mac

encode_REGISTER(flags) ==
    <<<<"u32", "cookie">>, <<"mac", "srcMac">>, <<"mac", "dstMac">>>>
    \o IfSocket(flags, <<<<"sock", "sock">>>>)
    \o <<<<"u32", "net_addr">>, <<"u8", "net_bitlen">>, <<"desc", "dev_desc">>>>

encode_REGISTER_SUPER(flags) ==
    <<<<"u32", "cookie">>, <<"mac", "edgeMac">>>>
    \o IfSocket(flags, <<<<"sock", "sock">>>>)
    \o <<<<"u32", "net_addr">>, <<"u8", "net_bitlen">>, <<"desc", "dev_desc">>,
         <<"u16", "scheme">>, <<"u16", "token_size">>, <<"token", "token">>,
         <<"u32", "key_time">>>>

encode_UNREGISTER_SUPER(flags) ==
    <<<<"u16", "scheme">>, <<"u16", "token_size">>, <<"token", "token">>, <<"mac", "srcMac">>>>

encode_REGISTER_ACK(flags) ==
    <<<<"u32", "cookie">>, <<"mac", "dstMac">>, <<"mac", "srcMac">>>>
    \o IfSocket(flags, <<<<"sock", "sock">>>>)

encode_REGISTER_SUPER_ACK(flags) ==
    <<<<"u32", "cookie">>, <<"mac", "srcMac">>, <<"u32", "net_addr">>, <<"u8", "net_bitlen">>,
      <<"u16", "lifetime">>, <<"sock", "sock">>, <<"u16", "scheme">>, <<"u16", "token_size">>,
      <<"token", "token">>, <<"u8", "num_sn">>, <<"list", "sns">>, <<"u32", "key_time">>>>

encode_REGISTER_SUPER_NAK(flags) ==
    <<<<"u32", "cookie">>, <<"mac", "srcMac">>, <<"u16", "scheme">>, <<"u16", "token_size">>,
      <<"token", "token">>>>

encode_PACKET(flags) ==
    <<<<"mac", "srcMac">>, <<"mac", "dstMac">>>>
    \o IfSocket(flags, <<<<"sock", "sock">>>>)
    \o <<<<"u8", "compression">>, <<"u8", "transform">>>>

encode_PEER_INFO(flags) ==
    <<<<"u16", "aflags">>, <<"mac", "srcMac">>, <<"mac", "mac">>, <<"sock", "sock">>>>
    \o IfSocket(flags, <<<<"sock", "preferred_sock">>>>)
    \o <<<<"u32", "load">>, <<"u32", "uptime">>, <<"version", "version">>>>

encode_QUERY_PEER(flags) ==
    <<<<"mac", "srcMac">>, <<"mac", "targetMac">>, <<"u16", "aflags">>>>

Encode(pc, flags) ==
    CASE pc = 1 -> encode_REGISTER(flags)
      [] pc = 3 -> encode_PACKET(flags)
      [] pc = 4 -> encode_REGISTER_ACK(flags)
      [] pc = 5 -> encode_REGISTER_SUPER(flags)
      [] pc = 6 -> encode_UNREGISTER_SUPER(flags)
      [] pc = 7 -> encode_REGISTER_SUPER_ACK(flags)
      [] pc = 8 -> encode_REGISTER_SUPER_NAK(flags)
      [] pc = 10 -> encode_PEER_INFO(flags)
      [] pc = 11 -> encode_QUERY_PEER(flags)

\* The return values of the calls are summed up, that of encode_common is -1.
CommonReturned == -1

Init == /\ msg \in Messages
        /\ phase = "encode"
        /\ base = encode_common(msg)
        /\ ret = CommonReturned
        /\ todo = Encode(msg.pc, msg.flags)
        /\ idx = 0 /\ rem = 0
        /\ out = <<>>

EncodeField ==
    /\ phase = "encode" /\ todo # <<>>
    /\ LET bytes == Encoded(Head(todo)[1], msg[Head(todo)[2]])
       IN base' = base \o bytes /\ ret' = ret + Len(bytes)
    /\ todo' = Tail(todo)
    /\ UNCHANGED <<msg, idx, rem, out, phase>>

----------------------------------------------------------------------------
(* Decoding.  A call whose field is not there completely takes nothing, and *)
(* the next one goes on from the same place.                               *)

Here(i, n) == SubSeq(base, i + 1, i + n)

Fits(r, n) == r.rem >= n

Past(r, n) == IF Fits(r, n) THEN [idx |-> r.idx + n, rem |-> r.rem - n] ELSE r

decode_uint8(r, zero) == IF Fits(r, 1) THEN base[r.idx + 1] ELSE zero

decode_uint16(r, zero) ==
    IF Fits(r, 2) THEN base[r.idx + 1] * 256 + base[r.idx + 2] ELSE zero

\* Of a 32-bit number no more than 31 bits are used.
decode_uint32(r, zero) ==
    IF Fits(r, 4)
    THEN ((base[r.idx + 1] % 128) * 16777216) + base[r.idx + 2] * 65536
         + base[r.idx + 3] * 256 + base[r.idx + 4]
    ELSE zero

decode_buf(r, n, zero) == IF Fits(r, n) THEN Here(r.idx, n) ELSE zero

\* The flags of the socket decide on how much follows.
decode_sock(r) ==
    LET f == decode_uint16(r, 0)
        r1 == Past(r, 2)
        r2 == Past(r1, 2)
        n == IF f >= 32768 THEN IPV6_SIZE ELSE IPV4_SIZE
    IN [val |-> [family |-> IF f >= 32768 THEN "v6" ELSE "v4",
                 type |-> IF (f \div 16384) % 2 = 1 THEN "tcp" ELSE "udp",
                 port |-> decode_uint16(r1, 0),
                 addr |-> decode_buf(r2, n, Zeros(n)) \o Zeros(IPV6_SIZE - n)],
        r |-> Past(r2, n)]

\* The type of the socket is what the structure held before.
decode_sock_payload(b, type) ==
    [family |-> CASE b[1] = 2 -> "v4" [] b[1] = 10 -> "v6" [] OTHER -> "invalid",
     type |-> type, port |-> b[4] * 256 + b[3], addr |-> SubSeq(b, 5, 4 + IPV6_SIZE)]

\* The receiver takes the list apart, entry by entry.
Entries(b, n, type) ==
    [k \in 1 .. n |->
        LET e == SubSeq(b, (k - 1) * EntrySize + 1, k * EntrySize)
        IN [sock |-> decode_sock_payload(e, type), mac |-> SubSeq(e, SockPayloadSize + 1, EntrySize)]]

BufSize(kind) ==
    CASE kind = "mac" -> MacSize
      [] kind = "desc" -> DescSize
      [] kind = "version" -> VersionSize
      [] kind = "token" -> out.token_size
      [] kind = "list" -> out.num_sn * EntrySize

\* Structures are cleared first; of a token or a list nothing is known then.
Unset(kind) == IF kind \in {"token", "list"} THEN <<>> ELSE Zeros(BufSize(kind))

Decoded(kind, r) ==
    CASE kind = "u8" -> [val |-> decode_uint8(r, 0), r |-> Past(r, 1)]
      [] kind = "u16" -> [val |-> decode_uint16(r, 0), r |-> Past(r, 2)]
      [] kind = "u32" -> [val |-> decode_uint32(r, 0), r |-> Past(r, 4)]
      [] kind = "sock" -> decode_sock(r)
      [] OTHER -> [val |-> decode_buf(r, BufSize(kind), Unset(kind)), r |-> Past(r, BufSize(kind))]

decode_REGISTER(flags) ==
    <<<<"u32", "cookie">>, <<"mac", "srcMac">>, <<"mac", "dstMac">>>>
    \o IfSocket(flags, <<<<"sock", "sock">>>>)
    \o <<<<"u32", "net_addr">>, <<"u8", "net_bitlen">>, <<"desc", "dev_desc">>>>

decode_REGISTER_SUPER(flags) ==
    <<<<"u32", "cookie">>, <<"mac", "edgeMac">>>>
    \o IfSocket(flags, <<<<"sock", "sock">>>>)
    \o <<<<"u32", "net_addr">>, <<"u8", "net_bitlen">>, <<"desc", "dev_desc">>,
         <<"u16", "scheme">>, <<"u16", "token_size">>, <<"token", "token">>,
         <<"u32", "key_time">>>>

decode_UNREGISTER_SUPER(flags) ==
    <<<<"u16", "scheme">>, <<"u16", "token_size">>, <<"token", "token">>, <<"mac", "srcMac">>>>

\* Mutant: the addresses in the order of the structure.
decode_REGISTER_ACKSwapped(flags) ==
    <<<<"u32", "cookie">>, <<"mac", "srcMac">>, <<"mac", "dstMac">>>>
    \o IfSocket(flags, <<<<"sock", "sock">>>>)

decode_REGISTER_ACK(flags) ==
    <<<<"u32", "cookie">>, <<"mac", "dstMac">>, <<"mac", "srcMac">>>>
    \o IfSocket(flags, <<<<"sock", "sock">>>>)

decode_REGISTER_SUPER_ACK(flags) ==
    <<<<"u32", "cookie">>, <<"mac", "srcMac">>, <<"u32", "net_addr">>, <<"u8", "net_bitlen">>,
      <<"u16", "lifetime">>, <<"sock", "sock">>, <<"u16", "scheme">>, <<"u16", "token_size">>,
      <<"token", "token">>, <<"u8", "num_sn">>, <<"list", "sns">>, <<"u32", "key_time">>>>

decode_REGISTER_SUPER_NAK(flags) ==
    <<<<"u32", "cookie">>, <<"mac", "srcMac">>, <<"u16", "scheme">>, <<"u16", "token_size">>,
      <<"token", "token">>>>

decode_PACKET(flags) ==
    <<<<"mac", "srcMac">>, <<"mac", "dstMac">>>>
    \o IfSocket(flags, <<<<"sock", "sock">>>>)
    \o <<<<"u8", "compression">>, <<"u8", "transform">>>>

decode_PEER_INFO(flags) ==
    <<<<"u16", "aflags">>, <<"mac", "srcMac">>, <<"mac", "mac">>, <<"sock", "sock">>>>
    \o IfSocket(flags, <<<<"sock", "preferred_sock">>>>)
    \o <<<<"u32", "load">>, <<"u32", "uptime">>, <<"version", "version">>>>

decode_QUERY_PEER(flags) ==
    <<<<"mac", "srcMac">>, <<"mac", "targetMac">>, <<"u16", "aflags">>>>

Decode(pc, flags) ==
    CASE pc = 1 -> decode_REGISTER(flags)
      [] pc = 3 -> decode_PACKET(flags)
      [] pc = 4 -> decode_REGISTER_ACK(flags)
      [] pc = 5 -> decode_REGISTER_SUPER(flags)
      [] pc = 6 -> decode_UNREGISTER_SUPER(flags)
      [] pc = 7 -> decode_REGISTER_SUPER_ACK(flags)
      [] pc = 8 -> decode_REGISTER_SUPER_NAK(flags)
      [] pc = 10 -> decode_PEER_INFO(flags)
      [] pc = 11 -> decode_QUERY_PEER(flags)

CommonSize == 4 + CommunitySize

\* The datagram arrives, cut off after the common header if at all.
Deliver ==
    /\ phase = "encode" /\ todo = <<>>
    /\ \E n \in IF Cut THEN CommonSize .. Len(base) ELSE {Len(base)} :
          base' = SubSeq(base, 1, n) /\ rem' = n
    /\ phase' = "common"
    /\ UNCHANGED <<msg, todo, ret, idx, out>>

DecodeCommon ==
    /\ phase = "common"
    /\ LET start == [idx |-> 1, rem |-> rem - 1]        \* past the version
           flags == decode_uint16(Past(start, 1), 0)
           end == Past(Past(Past(start, 1), 2), CommunitySize)
       IN /\ base[1] = Version
          /\ out' = [ttl |-> decode_uint8(start, 0), pc |-> flags % TypeValues,
                     flags |-> flags - (flags % TypeValues),
                     community |-> decode_buf(Past(Past(start, 1), 2), CommunitySize, <<>>)]
          /\ idx' = end.idx /\ rem' = end.rem
    /\ todo' = Decode(out'.pc, out'.flags)
    /\ phase' = "decode"
    /\ UNCHANGED <<msg, base, ret>>

DecodeField ==
    /\ phase = "decode" /\ todo # <<>>
    /\ LET kind == Head(todo)[1]
           field == Head(todo)[2]
           d == Decoded(kind, [idx |-> idx, rem |-> rem])
       IN /\ idx' = d.r.idx /\ rem' = d.r.rem
          /\ \E type \in IF kind = "list" THEN Types ELSE {"unset"} :
                out' = [f \in DOMAIN out \union {field} |->
                          IF f # field THEN out[f]
                          ELSE IF kind = "list" THEN Entries(d.val, Len(d.val) \div EntrySize, type)
                          ELSE d.val]
    /\ todo' = Tail(todo)
    /\ UNCHANGED <<msg, base, ret, phase>>

Next == EncodeField \/ Deliver \/ DecodeCommon \/ DecodeField

Spec == Init /\ [][Next]_vars

----------------------------------------------------------------------------
(* Properties.                                                             *)

Done == phase = "decode" /\ todo = <<>>

Whole == idx + rem = Len(encode_common(msg)) + Len(FlattenSeq(
             [k \in 1 .. Len(Encode(msg.pc, msg.flags)) |->
                LET c == Encode(msg.pc, msg.flags)[k] IN Encoded(c[1], msg[c[2]])]))

\* Decoding stays within the datagram: what was read and what remains add up to
\* its length, and every byte stored is a byte (decode_uint8 to decode_buf).
TypeOK == /\ \A i \in 1 .. Len(base) : base[i] \in 0 .. 255
          /\ phase = "decode" => idx + rem = Len(base) /\ idx >= CommonSize /\ rem >= 0

\* A datagram that arrives whole is decoded to the message that was encoded,
\* to the last byte, for all message types (encode_X and decode_X of wire.c).
RoundTrip ==
    Done /\ Whole => /\ rem = 0
                     /\ \A f \in DOMAIN out \ {"sns"} : out[f] = msg[f]

\* A field that precedes the place where a datagram was cut off is decoded
\* right, whatever happens to the fields behind (the checks of rem).
PrefixRight ==
    Done => LET calls == Decode(out.pc, out.flags)
                end[k \in 0 .. Len(calls)] ==
                    IF k = 0 THEN CommonSize
                    ELSE end[k - 1] + Len(Encoded(calls[k][1], msg[calls[k][2]]))
            IN \A k \in 1 .. Len(calls) :
                  end[k] <= Len(base) /\ calls[k][1] # "list"
                  => out[calls[k][2]] = msg[calls[k][2]]

\* The addresses in a decoded message lead to where the encoded ones came from:
\* the system address of each socket is that of the sender's (fill_sockaddr
\* and both layouts of a socket).
SameAddresses ==
    Done /\ Whole =>
        /\ "sock" \in DOMAIN out => fill_sockaddr(out.sock) = fill_sockaddr(msg.sock)
        /\ "sns" \in DOMAIN out =>
              \A i \in 1 .. Len(out.sns) :
                 /\ fill_sockaddr(out.sns[i].sock) = fill_sockaddr(msg.sns[i].sock)
                 /\ out.sns[i].mac = msg.sns[i].mac

=============================================================================
