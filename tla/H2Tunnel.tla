------------------------------ MODULE H2Tunnel ------------------------------
(***************************************************************************)
(* The HTTP/2 tunnel of h2tunnel.rs: connecting, then the writer and the   *)
(* reader task that carry IP packets as capsules over one stream, and the  *)
(* driver task of the connection.                                          *)
(*                                                                         *)
(* The endpoint is external: it sends capsules of any type, with integers  *)
(* of any width, cut into DATA frames wherever it likes and as far as its  *)
(* flow-control credit goes; it may end or reset the stream, and the       *)
(* connection may break at any time.                                       *)
(***************************************************************************)
EXTENDS TunnelLife, Varint, FiniteSets

CONSTANTS
  Script,      \* the capsules the endpoint may send
  FrameSizes,  \* the sizes of its DATA frames
  Credits,     \* the sizes of the credit it returns
  MaxFrames,   \* bound on the frames that wait to be read
  RecvWindow,  \* bytes the endpoint may send ahead
  Packet,      \* the IP packets the netstack sends
  SendWindow   \* bytes we may send ahead

Capsule(ctype, value, tw, lw) == InBytes(ctype, tw) \o InBytes(Len(value), lw) \o value

\* The bytes of the first k capsules of s.
Bytes(s, k) ==
  Joined([i \in DOMAIN s |-> Capsule(s[i].ctype, s[i].value, s[i].tw, s[i].lw)], k)

\* The bytes of every script, and where in them its capsules end.
StreamOf == [s \in Script |-> Bytes(s, Len(s))]
EndsOf == [s \in Script |-> [i \in DOMAIN s |-> Len(Bytes(s, i))]]

\* Capsules and packets consist of bytes.  A packet, of at most 1280 bytes,
\* needs a length of at most two bytes and fits HTTP/2's least window, 65535.
ASSUME H2Assumption ==
  /\ \A s \in Script : s \in Seq([ctype : Nat, value : Seq(Byte), tw : {1, 2, 4, 8},
                                lw : {1, 2, 4, 8}])
  /\ \A s \in Script : \A i \in DOMAIN s :
       Holds(s[i].tw, s[i].ctype) /\ Holds(s[i].lw, Len(s[i].value))
  /\ FrameSizes \subseteq Nat \ {0} /\ 1 \in FrameSizes
  /\ Credits \subseteq Nat \ {0} /\ Credits # {}
  /\ MaxFrames \in Nat \ {0} /\ RecvWindow \in Nat \ {0} /\ SendWindow \in Nat
  /\ \A p \in Packet : p \in Seq(Byte) /\ Len(p) < 2^14
  /\ \A p \in Packet : Len(encode_datagram_capsule(p)) <= SendWindow

VARIABLES
  script,      \* what the endpoint sends in this behaviour
  pos,         \* bytes of it that were sent
  stream,      \* the endpoint's side of the stream
  frames,      \* DATA frames that arrived and were not read
  window,      \* bytes the endpoint may still send
  reader,      \* where reader_loop is
  buf,         \* its buffer
  inq,         \* the channel to recv_ip
  got,         \* packets the feeder has taken
  quota,       \* packets the netstack may still send in this behaviour
  submitted,   \* packets send_ip has accepted
  outq,        \* those the writer has not taken
  writer,      \* where writer_loop is
  cap,         \* the capsule it holds
  credit,      \* bytes we may still send
  wire         \* bytes we have sent

inVars == <<script, pos, stream, frames, window, reader, buf, inq, got>>
outVars == <<quota, submitted, outq, writer, cap, credit, wire>>
h2Vars == <<inVars, outVars>>

Stream == StreamOf[script]

H2Type ==
  /\ script \in Script /\ pos \in 0..Len(Stream) /\ quota \in Nat
  /\ stream \in {"open", "ended", "reset"}
  /\ Len(frames) <= MaxFrames /\ window \in 0..RecvWindow
  /\ reader \in {"none", "recv", "parse", "ended"} /\ Len(buf) <= pos
  /\ writer \in {"none", "recv", "reserve", "ended"} /\ credit \in 0..SendWindow
  /\ submitted \in Seq(Packet) /\ outq \in Seq(Packet)

\* The endpoint will send s, and we n packets.
H2Init(s, n) ==
  /\ script = s /\ quota = n
  /\ pos = 0 /\ stream = "open" /\ frames = <<>>
  /\ window = RecvWindow /\ reader = "none" /\ buf = <<>> /\ inq = <<>> /\ got = <<>>
  /\ submitted = <<>> /\ outq = <<>> /\ writer = "none" /\ cap = <<>>
  /\ credit = SendWindow /\ wire = <<>>

-----------------------------------------------------------------------------
(* connect_h2.                                                             *)

\* The loops start with the response, before the address is parsed.
H2Responded ==
  /\ kind = "h2" /\ Responded
  /\ reader' = "recv" /\ writer' = "recv"
  /\ UNCHANGED <<script, pos, stream, frames, window, buf, inq, got,
                 quota, submitted, outq, cap, credit, wire>>

-----------------------------------------------------------------------------
(* The endpoint.                                                           *)

PeerSends(n) ==
  /\ up /\ reader # "none" /\ stream = "open" /\ Len(frames) < MaxFrames
  /\ n <= window /\ pos + n <= Len(Stream)
  /\ frames' = Append(frames, SubSeq(Stream, pos + 1, pos + n))
  /\ pos' = pos + n /\ window' = window - n
  /\ UNCHANGED <<script, stream, reader, buf, inq, got, outVars, lifeVars>>

PeerEnds(how) ==
  /\ up /\ reader # "none" /\ stream = "open" /\ stream' = how
  /\ UNCHANGED <<script, pos, frames, window, reader, buf, inq, got, outVars, lifeVars>>

\* Credit comes back in pieces, up to what was used.
PeerGrants(n) ==
  /\ up /\ credit < SendWindow
  /\ credit' = IF credit + n < SendWindow THEN credit + n ELSE SendWindow
  /\ UNCHANGED <<inVars, quota, submitted, outq, writer, cap, wire, lifeVars>>

-----------------------------------------------------------------------------
(* reader_loop.                                                            *)

\* (Credit is returned only for frames that complete a capsule.)
ReturnedWhenComplete(data) ==
  IF parse_capsule(buf \o data).total > 0 THEN Len(data) ELSE 0

\* (Credit is returned for everything in the buffer.)
ReturnedForBuffer(data) == Len(buf \o data)

\* The credit release_capacity returns for a frame.
Returned(data) == Len(data)

ReaderData ==
  /\ reader = "recv" /\ frames # <<>>
  /\ buf' = buf \o Head(frames)
  /\ window' = window + Returned(Head(frames))
  /\ frames' = Tail(frames)
  /\ reader' = "parse"
  /\ UNCHANGED <<script, pos, stream, inq, got, outVars, lifeVars>>

\* The stream is over, or broken: then frames that wait may be lost.
ReaderEnd ==
  /\ reader = "recv"
  /\ stream = "reset" \/ ~up \/ (stream = "ended" /\ frames = <<>>)
  /\ reader' = "ended"
  /\ UNCHANGED <<script, pos, stream, frames, window, buf, inq, got, outVars, lifeVars>>

\* Somebody has a TunnelIo.
IoHeld == held \/ actor \/ feeder

\* (The capsule's last byte stays.)
DrainedShort(total) == SubSeq(buf, total, Len(buf))

\* The buffer after its first capsule.
Drained(total) == SubSeq(buf, total + 1, Len(buf))

\* One round of the inner loop: a datagram is handed on, another capsule is
\* skipped, and an incomplete one waits for more.
ReaderParse ==
  /\ reader = "parse"
  /\ \E c \in {parse_capsule(buf)} :
     \/ /\ c.total = 0
        /\ reader' = "recv" /\ UNCHANGED <<buf, inq>>
     \/ /\ c.total > 0 /\ c.ctype = CAPSULE_DATAGRAM /\ ~IoHeld
        /\ reader' = "ended" /\ UNCHANGED <<buf, inq>>
     \/ /\ c.total > 0 /\ c.ctype = CAPSULE_DATAGRAM /\ IoHeld
        /\ inq' = Append(inq, SubSeq(buf, c.voff + 1, c.total))
        /\ buf' = Drained(c.total) /\ UNCHANGED reader
     \/ /\ c.total > 0 /\ c.ctype # CAPSULE_DATAGRAM
        /\ buf' = Drained(c.total) /\ UNCHANGED <<reader, inq>>
  /\ UNCHANGED <<script, pos, stream, frames, window, got, outVars, lifeVars>>

-----------------------------------------------------------------------------
(* send_ip and writer_loop.                                                *)

\* The actor sends a packet; it is lost if the writer is gone.
H2SendIp(p) ==
  /\ actor /\ quota > 0 /\ writer \in {"recv", "reserve"}
  /\ quota' = quota - 1
  /\ submitted' = Append(submitted, p) /\ outq' = Append(outq, p)
  /\ UNCHANGED <<inVars, writer, cap, credit, wire, lifeVars>>

WriterTake ==
  /\ writer = "recv" /\ outq # <<>>
  /\ cap' = encode_datagram_capsule(Head(outq)) /\ outq' = Tail(outq)
  /\ writer' = "reserve"
  /\ UNCHANGED <<inVars, quota, submitted, credit, wire, lifeVars>>

\* (What there is credit for is sent, and taken for all of it.)
EnoughForSome == credit > 0

\* (One byte more than it needs.)
EnoughToSpare == credit > Len(cap)

\* The whole capsule fits the capacity: it is sent with one send_data.
Enough == credit >= Len(cap)

WriterSend ==
  /\ writer = "reserve" /\ up /\ stream # "reset" /\ Enough
  /\ LET n == IF credit < Len(cap) THEN credit ELSE Len(cap) IN
     /\ wire' = wire \o SubSeq(cap, 1, n) /\ credit' = credit - n
  /\ cap' = <<>> /\ writer' = "recv"
  /\ UNCHANGED <<inVars, quota, submitted, outq, lifeVars>>

\* poll_capacity or send_data fails, or every sender is gone.
WriterEnd ==
  /\ \/ writer = "reserve" /\ (~up \/ stream = "reset")
     \/ writer = "recv" /\ outq = <<>> /\ ~IoHeld
  /\ writer' = "ended" /\ cap' = <<>>
  /\ UNCHANGED <<inVars, quota, submitted, outq, credit, wire, lifeVars>>

-----------------------------------------------------------------------------
(* recv_ip, and the end of everything.                                     *)

\* The feeder's recv_ip.
H2Recv ==
  /\ feeder /\ inq # <<>>
  /\ got' = Append(got, Head(inq)) /\ inq' = Tail(inq)
  /\ UNCHANGED <<script, pos, stream, frames, window, reader, buf, outVars, lifeVars>>

\* (A feeder that goes on after an error.)
H2RecvFailsNever == FALSE /\ UNCHANGED <<inVars, outVars, lifeVars>>

\* It fails: the reader dropped its sender, and nothing is left.
H2RecvFails ==
  /\ inq = <<>> /\ reader = "ended" /\ FeederStops
  /\ UNCHANGED <<inVars, outVars>>

Running(loop) == loop \in {"recv", "parse", "reserve"}

\* h2 closes a connection that has neither streams nor handles.
Unused ==
  /\ kind = "h2" /\ up /\ driver /\ setup \in {"up", "failed"}
  /\ ~Running(reader) /\ ~Running(writer) /\ up' = FALSE
  /\ UNCHANGED <<inVars, outVars, kind, setup, driver, dead, held,
                 users, feeder, actor, mtu>>

\* The driver's task ends with the connection, and flips the signal.
H2DriverEnd ==
  /\ kind = "h2" /\ driver /\ ~up
  /\ driver' = FALSE /\ dead' = TRUE
  /\ UNCHANGED <<inVars, outVars, kind, setup, up, held, users, feeder,
                 actor, mtu>>

-----------------------------------------------------------------------------
(* Properties.                                                             *)

\* The values of the DATAGRAM capsules among the first k of s.
Values(s, k) ==
  Joined([i \in DOMAIN s |-> IF s[i].ctype = CAPSULE_DATAGRAM THEN <<s[i].value>>
                             ELSE <<>>], k)

\* Those that lie wholly in the first n bytes of the stream: what a reader
\* that sees the whole stream makes of it.
Datagrams(n) ==
  Values(script, Cardinality({i \in DOMAIN script : EndsOf[script][i] <= n}))

Waiting == Len(Joined(frames, Len(frames)))

\* "reassemble capsules across frame boundaries" (reader_loop): wherever the
\* stream is cut, the feeder gets exactly the packets of the datagrams that
\* have arrived in full, in order, none split, joined or held back.
Reassembled ==
  reader = "recv" => got \o inq = Datagrams(pos - Waiting)

\* What an endpoint reads from our side of the stream: the datagrams of the
\* packets sent so far, whole, in order, with RFC 9297's header.  The value is
\* the bare packet, "the connect-ip context id (0) is omitted" (h2tunnel.rs);
\* tunnel.rs and DESIGN.md also say `varint(context_id=0) || IP`, which the
\* code does not do (see the README).
RfcHeader(n) == <<0>> \o (IF n < 64 THEN <<n>> ELSE <<64 + (n \div 256), n % 256>>)

RfcCapsules(s, k) == Joined([i \in DOMAIN s |-> RfcHeader(Len(s[i])) \o s[i]], k)

\* writer_loop, "honouring HTTP/2 flow control": what is on the wire is the
\* capsules of the first packets sent, never a part of one.  (It is about
\* where the writer stops, not about what the endpoint expects of a value.)
WholeCapsules ==
  \E k \in 0..Len(submitted) : wire = RfcCapsules(submitted, k)

\* "Return flow-control credit so the peer keeps sending": also a capsule
\* that is larger than the window arrives, and everything else with it.
KeepsReceiving ==
  (kind = "h2" /\ feeder /\ up /\ stream = "open")
    ~> (got = Values(script, Len(script)) \/ ~up \/ stream # "open")

\* A packet that send_ip took goes out, with credit that comes in pieces.
KeepsSending ==
  (writer = "reserve" \/ outq # <<>>)
    ~> ((writer # "reserve" /\ outq = <<>>) \/ ~up \/ stream = "reset")
=============================================================================
