----------------------------- MODULE Transform ------------------------------
(***************************************************************************)
(* What happens to the bytes of a frame between two TAP devices: the       *)
(* compression and the transform edge_send_packet2net applies, and what    *)
(* handle_PACKET makes of the packet (edge_utils.c, transform_*.c).        *)
(*                                                                         *)
(* Bytes are 0 and 1 and blocks are short, so that a key is any            *)
(* permutation of the blocks: the round functions of the ciphers are       *)
(* external to this module, the modes of operation, the ciphertext         *)
(* stealing and all lengths are the code's.  A length of -1 is what a      *)
(* size_t makes of it: larger than any buffer.  A behaviour is the way of  *)
(* one frame: nothing is kept from one to the next.                        *)
(***************************************************************************)
EXTENDS Integers, SequencesExt

CONSTANTS
    Block,              \* AES_BLOCK_SIZE, and the size of all preambles
    N2N_PKT_BUF_SIZE,
    Header,             \* what encode_PACKET writes
    LzoRoom, ZstdRoom,  \* the room the compressors ask for
    Keys,               \* permutations of the blocks
    Frames,             \* frames the TAP device may hand over
    Transforms, Compressions

Byte == {0, 1}
ABlock == [1..Block -> Byte]

TransformAssumption ==
    /\ {Block, N2N_PKT_BUF_SIZE, Header, LzoRoom, ZstdRoom} \subseteq Nat /\ Block > 0 /\ Header < N2N_PKT_BUF_SIZE
    /\ \A k \in Keys : k \in [ABlock -> ABlock] /\ \A b \in ABlock : \E a \in ABlock : k[a] = b
    /\ \A f \in Frames : f \in Seq(Byte) /\ Len(f) \in 1..N2N_PKT_BUF_SIZE
    /\ Transforms \subseteq {"null", "aes", "tf", "speck", "cc20"}
    /\ Compressions \subseteq {"none", "lzo", "zstd"}

VARIABLES
    conf,       \* transop_id and compression of both edges, the key, and
                \* whether the receiver is built with zstd
    sent,       \* the frame the packet under way was made of
    packet,     \* the packet under way
    tapped      \* what the receiver wrote to its TAP device
vars == <<conf, sent, packet, tapped>>

Zeros(n) == [i \in 1..n |-> 0]
Xor(a, b) == [i \in 1..Len(a) |-> (a[i] + b[i]) % 2]
Nth(s, i) == SubSeq(s, (i - 1) * Block + 1, i * Block)
Inverted(k, b) == CHOOSE a \in ABlock : k[a] = b
TooBig(n) == n = -1 \/ n > N2N_PKT_BUF_SIZE

\* What a transform returns: a length, and what it left in its output buffer.
Result(n, s) == [len |-> n, buf |-> s]

----------------------------------------------------------------------------
\* CBC with the null iv.
aes_cbc_encrypt(k, s) ==
    LET c[i \in 0..(Len(s) \div Block)] == IF i = 0 THEN Zeros(Block) ELSE k[Xor(c[i - 1], Nth(s, i))]
    IN FlattenSeq([i \in 1..(Len(s) \div Block) |-> c[i]])

aes_cbc_decrypt(k, s) ==
    FlattenSeq([i \in 1..(Len(s) \div Block) |->
        Xor(Inverted(k, Nth(s, i)), IF i = 1 THEN Zeros(Block) ELSE Nth(s, i - 1))])

\* The last two blocks of a ciphertext change places.
Exchanged(c) ==
    LET n == Len(c) - 2 * Block
    IN SubSeq(c, 1, n) \o SubSeq(c, n + Block + 1, Len(c)) \o SubSeq(c, n + 1, n + Block)

\* Mutant: the ciphertext is cut where the plaintext ended, without the exchange.
EncodeInOrder(k, iv, s, out_len) ==
    LET idx == Block + Len(s)
        padding == (((idx - 1) \div Block) + 1) * Block - idx
    IN IF Len(s) > N2N_PKT_BUF_SIZE \/ idx + Block > out_len THEN Result(0, <<>>)
       ELSE Result(idx, SubSeq(aes_cbc_encrypt(k, iv \o s \o Zeros(padding)), 1, idx))

\* A random block and the frame, padded with zeros; of the ciphertext as many
\* bytes are sent as there were without the padding.
transop_encode_aes(k, iv, s, out_len) ==
    LET idx == Block + Len(s)
        padding == (((idx - 1) \div Block) + 1) * Block - idx
        c == aes_cbc_encrypt(k, iv \o s \o Zeros(padding))
    IN IF Len(s) > N2N_PKT_BUF_SIZE \/ idx + Block > out_len THEN Result(0, <<>>)
       ELSE Result(idx, SubSeq(IF padding = 0 THEN c ELSE Exchanged(c), 1, idx))

\* The bytes that were not sent are found by decrypting the block before them.
transop_decode_aes(k, s, in_len) ==
    LET rest == in_len % Block
        n == (in_len \div Block - 1) * Block
        last == SubSeq(s, n + 1, n + Block)
        former == SubSeq(s, in_len - rest + 1, in_len) \o SubSeq(Inverted(k, last), rest + 1, Block)
        assembly == aes_cbc_decrypt(k, IF rest = 0 THEN s ELSE SubSeq(s, 1, n) \o former \o last)
    IN IF in_len < Block \/ TooBig(in_len - Block) THEN Result(-1, <<>>)
       ELSE IF rest > 0 /\ \E i \in (in_len + 1)..Len(assembly) : assembly[i] # 0 THEN Result(-1, <<>>)
       ELSE Result(in_len - Block, SubSeq(assembly, Block + 1, in_len))

\* Twofish is used in the same way.
transop_encode_tf(k, iv, s, out_len) == transop_encode_aes(k, iv, s, out_len)
transop_decode_tf(k, s, in_len) == transop_decode_aes(k, s, in_len)

----------------------------------------------------------------------------
\* The block after b, as a number with its lowest digit first.
Counted(b, n) ==
    LET value[i \in 0..Block] == IF i = 0 THEN n ELSE (value[i - 1] \div 2) + b[i]
    IN [i \in 1..Block |-> value[i] % 2]

\* Counter mode: whole blocks, then what is left.
speck_ctr(k, iv, s) ==
    [i \in 1..Len(s) |->
        (s[i] + k[Counted(iv, (i - 1) \div Block)][((i - 1) % Block) + 1]) % 2]

transop_encode_speck(k, iv, s, out_len) ==
    IF Len(s) > N2N_PKT_BUF_SIZE \/ Len(s) + Block > out_len THEN Result(-1, <<>>)
    ELSE Result(Block + Len(s), iv \o speck_ctr(k, iv, s))

transop_decode_speck(k, s, in_len) ==
    IF in_len < Block \/ TooBig(in_len - Block) THEN Result(0, <<>>)
    ELSE Result(in_len - Block, speck_ctr(k, SubSeq(s, 1, Block), SubSeq(s, Block + 1, in_len)))

cc20_crypt(k, iv, s) == speck_ctr(k, iv, s)

transop_encode_cc20(k, iv, s, out_len) ==
    IF Len(s) > N2N_PKT_BUF_SIZE \/ Len(s) + Block > out_len THEN Result(-1, <<>>)
    ELSE Result(Block + Len(s), iv \o cc20_crypt(k, iv, s))

\* in_len bytes are decrypted: the last ones are what lies behind the packet, and
\* len leaves them out.
transop_decode_cc20(k, s, in_len) ==
    IF in_len < Block \/ TooBig(in_len - Block) THEN Result(0, <<>>)
    ELSE Result(in_len - Block, cc20_crypt(k, SubSeq(s, 1, Block), SubSeq(s, Block + 1, in_len) \o Zeros(Block)))

transop_encode_null(s, out_len) == IF out_len >= Len(s) THEN Result(Len(s), s) ELSE Result(-1, <<>>)
transop_decode_null(s, in_len) ==
    IF TooBig(in_len) THEN Result(-1, <<>>) ELSE Result(in_len, s)

----------------------------------------------------------------------------
\* External: minilzo and libzstd.  A frame of equal bytes becomes the byte and
\* the length in binary; another one grows.
Repeated(s) == \A i \in 1..Len(s) : s[i] = s[1]
Packed(s) ==
    IF Repeated(s) THEN <<s[1]>> \o [i \in 1..4 |-> (Len(s) \div 2^(i - 1)) % 2] ELSE Append(s, 0)
Unpacked(s) ==
    IF Len(s) # 5 THEN Zeros(0)
    ELSE [i \in 1..(s[2] + 2 * s[3] + 4 * s[4] + 8 * s[5]) |-> s[1]]

transop_encode_lzo(s, out_len) ==
    IF Len(s) > N2N_PKT_BUF_SIZE \/ out_len < Len(s) + Len(s) \div 16 + LzoRoom THEN Result(0, <<>>)
    ELSE Result(Len(Packed(s)), Packed(s))
transop_decode_lzo(s, in_len) ==
    LET d == Unpacked(SubSeq(s, 1, in_len))
    IN IF TooBig(in_len) THEN Result(0, <<>>) ELSE Result(Len(d), d)

transop_encode_zstd(s, out_len) ==
    IF Len(s) > N2N_PKT_BUF_SIZE \/ out_len < Len(s) + ZstdRoom THEN Result(0, <<>>)
    ELSE Result(Len(Packed(s)), Packed(s))
transop_decode_zstd(s, in_len) ==
    LET d == Unpacked(SubSeq(s, 1, in_len))
    IN IF TooBig(in_len) THEN Result(0, <<>>) ELSE Result(Len(d), d)

----------------------------------------------------------------------------
\* eee->transop, which edge_init chose by conf.transop_id.
fwd(c, iv, s, out_len) ==
    CASE c.transop = "null" -> transop_encode_null(s, out_len)
      [] c.transop = "aes" -> transop_encode_aes(c.key, iv, s, out_len)
      [] c.transop = "tf" -> transop_encode_tf(c.key, iv, s, out_len)
      [] c.transop = "speck" -> transop_encode_speck(c.key, iv, s, out_len)
      [] c.transop = "cc20" -> transop_encode_cc20(c.key, iv, s, out_len)

rev(c, s, in_len) ==
    CASE c.transop = "null" -> transop_decode_null(s, in_len)
      [] c.transop = "aes" -> transop_decode_aes(c.key, s, in_len)
      [] c.transop = "tf" -> transop_decode_tf(c.key, s, in_len)
      [] c.transop = "speck" -> transop_decode_speck(c.key, s, in_len)
      [] c.transop = "cc20" -> transop_decode_cc20(c.key, s, in_len)

Compress(s) ==
    CASE conf.compression = "lzo" -> transop_encode_lzo(s, N2N_PKT_BUF_SIZE)
      [] conf.compression = "zstd" -> transop_encode_zstd(s, N2N_PKT_BUF_SIZE)
      [] OTHER -> Result(0, <<>>)

\* Only a shorter result is taken; 0 is an error.
Shorter(c, s) == c.len > 0 /\ c.len < Len(s)

NoPacket == [transform |-> "none", compression |-> "none", payload |-> <<>>, size |-> 0]

\* The result of the transform is added to the length of the packet whatever it
\* is: 0 leaves the header, and -1 cuts off its last byte, the transform's id.
edge_send_packet2net(f, iv) ==
    LET c == Compress(f)
        short == Shorter(c, f)
        r == fwd(conf, iv, IF short THEN c.buf ELSE f, N2N_PKT_BUF_SIZE - Header)
    IN /\ packet = NoPacket /\ sent = <<>>
       /\ sent' = f
       /\ packet' = [transform |-> IF r.len = -1 THEN "none" ELSE conf.transop,
                     compression |-> IF short THEN conf.compression ELSE "none",
                     payload |-> r.buf, size |-> r.len]
       /\ UNCHANGED <<conf, tapped>>

Decompress(p, d) ==
    CASE p.compression = "lzo" -> transop_decode_lzo(d.buf, d.len)
      [] p.compression = "zstd" -> transop_decode_zstd(d.buf, d.len)
      [] OTHER -> d

\* A packet with another transform, or with a compression this edge is not built
\* with, is dropped; a length of -1 is refused by the TAP device.
handle_PACKET ==
    LET r == Decompress(packet, rev(conf, packet.payload, packet.size))
    IN /\ packet # NoPacket
       /\ packet' = NoPacket
       /\ tapped' = IF packet.transform # conf.transop \/ (packet.compression = "zstd" /\ ~conf.zstd) \/ r.len = -1
                    THEN <<>> ELSE SubSeq(r.buf, 1, r.len)
       /\ UNCHANGED <<conf, sent>>

----------------------------------------------------------------------------
Init ==
    /\ conf \in [transop : Transforms, compression : Compressions, key : Keys, zstd : BOOLEAN]
    /\ sent = <<>> /\ packet = NoPacket /\ tapped = <<>>

Next ==
    \/ \E f \in Frames, iv \in ABlock : edge_send_packet2net(f, iv)
    \/ handle_PACKET

Spec == Init /\ [][Next]_vars

----------------------------------------------------------------------------
\* The room a transform asks for.
Overhead(t) == CASE t = "null" -> 0 [] t \in {"speck", "cc20"} -> Block [] OTHER -> 2 * Block

\* Every frame that leaves room for the header and the transform comes out of the
\* other TAP device byte for byte, whatever its length, the key, the transform and
\* the compression (transop_encode_* / transop_decode_*), unless it is compressed
\* in a way the receiver is not built for.
ComesThroughStep ==
    handle_PACKET /\ Header + Len(sent) + Overhead(conf.transop) <= N2N_PKT_BUF_SIZE
          /\ ~(conf.compression = "zstd" /\ ~conf.zstd)
      => tapped' = sent

\* Also of frames that are too long, for which a transform returns 0 or -1 and
\* edge_send_packet2net sends the packet all the same, nothing comes out that was
\* not put in.
NothingElseStep ==
    handle_PACKET => tapped' \in {<<>>, sent}
=============================================================================
