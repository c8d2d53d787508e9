------------------------------- MODULE Tunnel -------------------------------
(***************************************************************************)
(* Tunnel and TunnelIo of tunnel.rs: a tunnel over one of the two          *)
(* transports, with the netstack that is spawned on it.                    *)
(***************************************************************************)
EXTENDS H2Tunnel, H3Tunnel

\* What may be sent in a behaviour: the transport, the capsules of the endpoint
\* and the number of our packets over HTTP/2, the datagrams of the endpoint and
\* the sizes the path takes over HTTP/3.
CONSTANT Load

CONSTANT PacketSizes   \* of the packets sent over HTTP/3, besides the largest

ASSUME TunnelAssumption ==
  /\ PacketSizes \subseteq Nat
  /\ \A l \in Load : /\ l.kind \in {"h3", "h2"} /\ l.script \in Script /\ l.out \in Nat
                     /\ l.air \subseteq QuicDatagram /\ l.sizes \subseteq DatagramSizes

vars == <<lifeVars, h2Vars, h3Vars>>

\* The types of every variable.
TypeOK == LifeType /\ H2Type /\ H3Type

\* connect_with chooses the transport.
Init ==
  /\ LifeInit
  /\ \E l \in Load : kind = l.kind /\ H2Init(l.script, l.out) /\ H3Init(l.air, l.sizes)

H2_MTU == 1280

\* TunnelIo::max_ip_packet.
max_ip_packet == IF kind = "h2" THEN H2_MTU ELSE H3MaxIpPacket

Spawn ==
  /\ SpawnFor(max_ip_packet) /\ atSpawn' = maxdg
  /\ UNCHANGED <<h2Vars, watcher, air, dgq, taken, rx, sizes, maxdg, tooLarge>>

Same == UNCHANGED <<h2Vars, h3Vars>>
H2Kind == kind = "h2" /\ Same

PeerProgress == (\E n \in FrameSizes : PeerSends(n)) /\ UNCHANGED h3Vars
PeerCredit == (\E n \in Credits : PeerGrants(n)) /\ UNCHANGED h3Vars

ConnectStep ==
  \/ Dialled /\ H2Kind
  \/ H3Dialled /\ UNCHANGED h2Vars
  \/ Built /\ H2Kind
  \/ H3Built /\ UNCHANGED h2Vars
  \/ Requested /\ Same
  \/ H2Responded /\ UNCHANGED h3Vars
  \/ Responded /\ kind = "h3" /\ Same
  \/ ConnectFails /\ Same

ReaderStep ==
  \/ ReaderData /\ UNCHANGED h3Vars
  \/ ReaderParse /\ UNCHANGED h3Vars
  \/ ReaderEnd /\ UNCHANGED h3Vars

WriterStep ==
  \/ WriterTake /\ UNCHANGED h3Vars
  \/ WriterSend /\ UNCHANGED h3Vars
  \/ WriterEnd /\ UNCHANGED h3Vars

\* TunnelIo::recv_ip in the feeder, and the end of the actor.
NetstackStep ==
  \/ H2Recv /\ UNCHANGED h3Vars
  \/ H2RecvFails /\ UNCHANGED h3Vars
  \/ H3Recv /\ UNCHANGED h2Vars
  \/ H3RecvFails /\ UNCHANGED h2Vars
  \/ ActorEnd /\ Same

\* The tasks of the connection.
DriverStep ==
  \/ Unused /\ UNCHANGED h3Vars
  \/ H2DriverEnd /\ UNCHANGED h3Vars
  \/ H3DriverCloses /\ UNCHANGED h2Vars
  \/ H3DriverEnd /\ UNCHANGED h2Vars

WatcherStep == H3Watch /\ UNCHANGED h2Vars

\* TunnelIo::send_ip in the actor.
SendIp ==
  \/ \E p \in Packet : H2SendIp(p) /\ UNCHANGED h3Vars
  \/ \E n \in PacketSizes \cup {mtu} : H3SendIp(n) /\ UNCHANGED h2Vars

PathStep ==
  \/ \E d \in air : Arrives(d) /\ UNCHANGED h2Vars
  \/ \E n \in sizes : PathChanges(n) /\ UNCHANGED h2Vars
  \/ \E how \in {"ended", "reset"} : PeerEnds(how) /\ UNCHANGED h3Vars
  \/ Breaks /\ Same

Next ==
  \/ ConnectStep \/ PeerProgress \/ PeerCredit \/ PathStep
  \/ ReaderStep \/ WriterStep \/ DriverStep \/ WatcherStep
  \/ Spawn \/ SendIp \/ NetstackStep
  \/ UsersLeave /\ Same
  \/ DropTunnel /\ Same

Spec == Init /\ [][Next]_vars

\* Tasks and thread are scheduled; over HTTP/2 the endpoint sends what it has
\* as far as its credit goes, and returns credit for what it was sent.
\* Nothing is assumed of datagrams.
Fairness ==
  /\ WF_vars(PeerProgress) /\ WF_vars(PeerCredit)
  /\ WF_vars(ReaderStep) /\ WF_vars(WriterStep) /\ WF_vars(NetstackStep)
  /\ WF_vars(DriverStep) /\ WF_vars(WatcherStep)

FairSpec == Spec /\ Fairness

-----------------------------------------------------------------------------
(* Properties.                                                             *)

\* dead_signal, "flips to `true` when the transport dies": whoever supervises
\* a tunnel learns that its connection is over, over either transport.
DeathSeen == (held /\ ~up) ~> dead

Ended == /\ ~Running(reader) /\ ~Running(writer) /\ ~driver /\ ~watcher
         /\ ~feeder /\ ~actor /\ ~up

\* When the endpoint has ended its side, or the connection is broken, an
\* HTTP/2 tunnel that nobody uses any longer, or that failed to connect,
\* leaves nothing behind, although reader, feeder, actor and writer each wait
\* for the one before.
TornDown == (kind = "h2" /\ Abandoned /\ (~up \/ stream # "open")) ~> Ended

\* tunnel.rs:170, "Dropping the tunnel tears them down", and connect_h3's
\* error returns: of an HTTP/3 tunnel nothing is left either, whatever the
\* endpoint does.
DropTearsDownH3 == (kind = "h3" /\ Abandoned) ~> Ended

-----------------------------------------------------------------------------
(* What a comment says and the code does not do.                           *)

\* tunnel.rs:170 "Dropping the tunnel tears them down" (the connection driver
\* and the pump tasks of HTTP/2).
DropTearsDown == Abandoned ~> Ended
=============================================================================
