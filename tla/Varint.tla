------------------------------- MODULE Varint -------------------------------
(***************************************************************************)
(* The QUIC variable-length integers of tunnel.rs and the DATAGRAM         *)
(* capsules of h2tunnel.rs, byte by byte.  A byte is a number below 256.   *)
(***************************************************************************)
EXTENDS Naturals, Sequences

CAPSULE_DATAGRAM == 0
Byte == 0..255

\* The first k of the sequences f, joined.
Joined(f, k) ==
  LET upTo[i \in 0..k] == IF i = 0 THEN <<>> ELSE upTo[i - 1] \o f[i] IN upTo[k]

\* The integer v in a field of n bytes, tagged with its width: every width
\* that is large enough may be used by a sender.  (The values of the model
\* are below 2^30, so that the leading bytes of a wide field are 0.)
Tag(n) == IF n = 1 THEN 0 ELSE IF n = 2 THEN 64 ELSE IF n = 4 THEN 128 ELSE 192
ByteOf(v, k) == IF k > 3 THEN 0 ELSE (v \div 256^k) % 256
InBytes(v, n) ==
  [i \in 1..n |-> IF i = 1 THEN Tag(n) + ByteOf(v, n - 1) ELSE ByteOf(v, n - i)]

\* What such a field can hold.
Holds(n, v) == v < IF n = 1 THEN 2^6 ELSE IF n = 2 THEN 2^14 ELSE 2^30

\* The shortest field for v.
varint_len(v) == IF v < 2^6 THEN 1 ELSE IF v < 2^14 THEN 2
                 ELSE IF v < 2^30 THEN 4 ELSE 8

encode_varint(v) == InBytes(v, varint_len(v))

\* (The width is the tag itself.)
WidthByTag(first) == (first \div 64) + 1

\* The width the first byte announces.
Width(first) == 2^(first \div 64)

\* The integer at the front of buf and its width, 0 if it is truncated.
decode_varint(buf) ==
  IF buf = <<>> THEN [v |-> 0, len |-> 0]
  ELSE IF Len(buf) < Width(Head(buf)) THEN [v |-> 0, len |-> 0]
  ELSE LET n == Width(Head(buf))
           upTo[i \in 1..n] == IF i = 1 THEN Head(buf) % 64
                               ELSE 256 * upTo[i - 1] + buf[i]
       IN [v |-> upTo[n], len |-> n]

encode_datagram_capsule(pkt) ==
  encode_varint(CAPSULE_DATAGRAM) \o encode_varint(Len(pkt)) \o pkt

\* The capsule at the front of buf: its type, where its value starts and how
\* long it is; nothing (total 0) before all of it has arrived.
parse_capsule(buf) ==
  LET nothing == [ctype |-> 0, voff |-> 0, total |-> 0]
      ctype == decode_varint(buf)
      clen == decode_varint(SubSeq(buf, ctype.len + 1, Len(buf)))
      header == ctype.len + clen.len
  IN IF ctype.len = 0 \/ clen.len = 0 \/ Len(buf) - header < clen.v THEN nothing
     ELSE [ctype |-> ctype.v, voff |-> header, total |-> header + clen.v]
=============================================================================
