------------------------------ MODULE MCTunnel ------------------------------
(***************************************************************************)
(* Instances of Tunnel.  Over HTTP/2: short capsules of known and unknown  *)
(* type with integers of several widths, and one that needs a two-byte     *)
(* length and does not fit the receive window.  Over HTTP/3: datagrams of  *)
(* ours in several encodings, of another flow, of another context, and cut *)
(* within the header and behind it.                                        *)
(***************************************************************************)
EXTENDS Tunnel

Datagram(value, tw, lw) == [ctype |-> CAPSULE_DATAGRAM, value |-> value, tw |-> tw, lw |-> lw]
Unknown(value) == [ctype |-> 64, value |-> value, tw |-> 2, lw |-> 1]
Long == [i \in 1..64 |-> i]

Short == <<Datagram(<<69>>, 1, 1)>>
Mixed == <<Datagram(<<69>>, 1, 1), Unknown(<<0, 1>>), Datagram(<<0, 0>>, 1, 4)>>
Large == <<Datagram(<<>>, 8, 1), Datagram(Long, 1, 2)>>

Dg(flow, fw, context, cw, len) ==
  [flow |-> flow, fw |-> fw, context |-> context, cw |-> cw, packet |-> <<0, 69>>, len |-> len]
Encodings == {Dg(0, 1, 0, 1, 4), Dg(0, 2, 0, 8, 12), Dg(0, 4, 0, 2, 4)}
Strangers == {Dg(0, 1, 0, 1, 3), Dg(1, 1, 0, 1, 4), Dg(0, 1, 64, 2, 5)}
Dgs == Encodings \cup Strangers
Sizes == {0, 500, 1162, 1300}

Http2(s, n) == [kind |-> "h2", script |-> s, out |-> n, air |-> {}, sizes |-> {}]
Http3(ds, ns) == [kind |-> "h3", script |-> <<>>, out |-> 0, air |-> ds, sizes |-> ns]

Scripts == {<<>>, Short, Mixed, Large}
Loads == {Http2(Short, 1), Http2(Mixed, 0), Http2(Large, 0), Http2(<<>>, 2),
          Http3(Encodings, {1162}), Http3(Strangers, {1162}), Http3({}, Sizes)}
DropLoads == {Http2(Short, 1)}
IpPackets == {<<69>>, Long}
=============================================================================
