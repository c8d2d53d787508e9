------------------------------ MODULE H3Tunnel ------------------------------
(***************************************************************************)
(* The HTTP/3 tunnel of tunnel.rs: connecting, the driver and the watcher  *)
(* of the connection, and IP packets in QUIC datagrams.                    *)
(*                                                                         *)
(* The endpoint and the path are external.  Datagrams of any flow and      *)
(* context, with integers of any width, or cut short, are lost and         *)
(* reordered (one that the receive buffer has no room for is lost too);    *)
(* the size of a datagram the path takes changes.                          *)
(***************************************************************************)
EXTENDS TunnelLife, Varint

CONSTANTS
  QuicDatagram,    \* what the endpoint may send
  DatagramSizes    \* of max_datagram_size; 0 is an endpoint that takes none

ASSUME H3Assumption ==
  /\ MinMtu \in Nat \ {0} /\ MaxMtu \in Nat /\ MinMtu <= MaxMtu
  /\ DatagramSizes \subseteq Nat
  /\ \A d \in QuicDatagram :
       /\ d.flow \in Nat /\ d.context \in Nat /\ d.packet \in Seq(Byte)
       /\ d.fw \in {1, 2, 4, 8} /\ d.cw \in {1, 2, 4, 8}
       /\ Holds(d.fw, d.flow) /\ Holds(d.cw, d.context)
       /\ d.len \in 0..(d.fw + d.cw + Len(d.packet))

VARIABLES
  watcher,  \* the task that waits for the end of the connection runs
  air,      \* the datagrams of the endpoint that may still arrive
  dgq,      \* those that arrived and were not read
  taken,    \* those that were read
  rx,       \* the packets recv_ip has returned
  sizes,    \* the sizes of a datagram the path takes in this behaviour
  maxdg,    \* the one it takes now
  atSpawn,  \* that size when the netstack was spawned
  tooLarge  \* the sizes at which a packet was refused

h3Vars == <<watcher, air, dgq, taken, rx, sizes, maxdg, atSpawn, tooLarge>>

CONTEXT_ID_FULL_PACKET == 0

\* The first request stream of a connection is stream 0.
quarter_stream_id == 0 \div 4

\* What a datagram of the endpoint is on the wire: d.len bytes of it.
DatagramBytes(d) ==
  SubSeq(InBytes(d.flow, d.fw) \o InBytes(d.context, d.cw) \o d.packet, 1, d.len)

H3Type ==
  /\ watcher \in BOOLEAN /\ air \subseteq QuicDatagram
  /\ sizes \subseteq DatagramSizes /\ maxdg \in {0} \cup sizes /\ atSpawn \in {0} \cup sizes
  /\ tooLarge \subseteq sizes

\* The endpoint will send the datagrams ds on a path that takes the sizes ns.
H3Init(ds, ns) ==
  /\ sizes = ns /\ watcher = FALSE /\ air = ds /\ dgq = <<>> /\ taken = <<>> /\ rx = <<>>
  /\ maxdg = 0 /\ atSpawn = 0 /\ tooLarge = {}

-----------------------------------------------------------------------------
(* connect_h3.                                                             *)

\* dial_quic: the path takes datagrams of some size.
H3Dialled ==
  /\ kind = "h3" /\ Dialled /\ maxdg' \in sizes
  /\ UNCHANGED <<watcher, air, dgq, taken, rx, sizes, atSpawn, tooLarge>>

H3Built ==
  /\ kind = "h3" /\ Built /\ watcher' = TRUE
  /\ UNCHANGED <<air, dgq, taken, rx, sizes, maxdg, atSpawn, tooLarge>>

\* (It moved into the driver's task.)
SendRequestOfDriver == driver

\* The SendRequest exists: connect_h3 has it, then the Tunnel keeps it.
SendRequest == setup \in {"request", "response"} \/ held

\* "h3 closes the connection once the last SendRequest is dropped."
H3DriverCloses ==
  /\ kind = "h3" /\ driver /\ up /\ ~SendRequest
  /\ up' = FALSE /\ driver' = FALSE
  /\ UNCHANGED <<kind, setup, dead, held, users, feeder, actor, mtu, h3Vars>>

\* poll_close returns: the connection is over.
H3DriverEnd ==
  /\ kind = "h3" /\ driver /\ ~up /\ driver' = FALSE
  /\ UNCHANGED <<kind, setup, up, dead, held, users, feeder, actor, mtu, h3Vars>>

\* (The watcher waits on the stream's end too, which nobody reads.)
H3WatchNever == FALSE /\ UNCHANGED <<lifeVars, h3Vars>>

\* The watcher sees the connection closed and flips the signal.
H3Watch ==
  /\ watcher /\ ~up /\ watcher' = FALSE /\ dead' = TRUE
  /\ UNCHANGED <<kind, setup, up, driver, held, users, feeder, actor, mtu,
                 air, dgq, taken, rx, sizes, maxdg, atSpawn, tooLarge>>

-----------------------------------------------------------------------------
(* H3Io.                                                                   *)

\* A datagram arrives, before an earlier one or instead of it, and maybe
\* before the response.
Arrives(d) ==
  /\ up /\ setup \notin {"dial", "build", "request"} /\ d \in air
  /\ air' = air \ {d} /\ dgq' = Append(dgq, d)
  /\ UNCHANGED <<lifeVars, watcher, taken, rx, sizes, maxdg, atSpawn, tooLarge>>

\* (Every context is taken for packets.)
recv_ip_AnyContext(dg) ==
  LET flow == decode_varint(dg)
      context == decode_varint(SubSeq(dg, flow.len + 1, Len(dg)))
  IN IF flow.len = 0 \/ context.len = 0 \/ flow.v # quarter_stream_id THEN <<>>
     ELSE <<SubSeq(dg, flow.len + context.len + 1, Len(dg))>>

\* The packet in dg, if it is one of ours.
recv_ip(dg) ==
  LET flow == decode_varint(dg)
      context == decode_varint(SubSeq(dg, flow.len + 1, Len(dg)))
      skipped == \/ flow.len = 0 \/ context.len = 0
                 \/ flow.v # quarter_stream_id \/ context.v # CONTEXT_ID_FULL_PACKET
  IN IF skipped THEN <<>> ELSE <<SubSeq(dg, flow.len + context.len + 1, Len(dg))>>

Packets == [d \in QuicDatagram |-> recv_ip(DatagramBytes(d))]

\* One round of recv_ip's loop in the feeder.
H3Recv ==
  /\ feeder /\ dgq # <<>>
  /\ dgq' = Tail(dgq) /\ taken' = Append(taken, Head(dgq))
  /\ rx' = rx \o Packets[Head(dgq)]
  /\ UNCHANGED <<lifeVars, watcher, air, sizes, maxdg, atSpawn, tooLarge>>

\* read_datagram fails: the connection is over, and nothing is left.
H3RecvFails ==
  /\ kind = "h3" /\ ~up /\ dgq = <<>> /\ FeederStops
  /\ UNCHANGED h3Vars

\* (The context id is forgotten.)
OverheadOfFlow == varint_len(quarter_stream_id)

Overhead == varint_len(quarter_stream_id) + varint_len(CONTEXT_ID_FULL_PACKET)

H3MaxIpPacket == IF maxdg < Overhead THEN 0 ELSE maxdg - Overhead

\* send_ip for a packet of n bytes: one too large for a datagram is refused,
\* and the actor ignores the error.
H3SendIp(n) ==
  /\ kind = "h3" /\ actor /\ up /\ n <= mtu
  /\ LET buf == Len(encode_varint(quarter_stream_id))
                  + Len(encode_varint(CONTEXT_ID_FULL_PACKET)) + n IN
     tooLarge' = IF buf > maxdg THEN tooLarge \cup {maxdg} ELSE tooLarge
  /\ UNCHANGED <<lifeVars, watcher, air, dgq, taken, rx, sizes, maxdg, atSpawn>>

\* The path takes larger or smaller datagrams than before; an endpoint that
\* takes none never does.
PathChanges(n) ==
  /\ up /\ n \in sizes \ {0, maxdg} /\ maxdg # 0 /\ maxdg' = n
  /\ UNCHANGED <<lifeVars, watcher, air, dgq, taken, rx, sizes, atSpawn, tooLarge>>

-----------------------------------------------------------------------------
(* Properties.                                                             *)

\* A datagram of ours that carries a packet.
Ours(d) == d.flow = quarter_stream_id /\ d.context = CONTEXT_ID_FULL_PACKET
             /\ d.len >= d.fw + d.cw

\* recv_ip, "Datagrams for other flows or with a non-zero context id are
\* skipped": whatever arrives, in whatever order and encoding, the netstack
\* gets the packets of the datagrams meant for it, all of those that were
\* read, once each, and nothing else.
Filtered ==
  rx = Joined([i \in DOMAIN taken |->
                 IF Ours(taken[i])
                 THEN <<SubSeq(taken[i].packet, 1,
                               taken[i].len - taken[i].fw - taken[i].cw)>>
                 ELSE <<>>], Len(taken))

\* max_ip_packet, "The largest IP packet that fits in one QUIC datagram":
\* the MTU is read once, when the netstack is spawned; unless the path was
\* too narrow for the least MTU already then, a packet is refused only when
\* the path has become narrower since.
Fits ==
  \A m \in tooLarge : m < atSpawn \/ atSpawn < MinMtu + 2
=============================================================================
