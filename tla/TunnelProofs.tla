---------------------------- MODULE TunnelProofs ----------------------------
(***************************************************************************)
(* Proofs about Tunnel: who keeps the connection, the MTU, the types, and  *)
(* what the two transports do with packets, for every endpoint, script and *)
(* size.                                                                   *)
(***************************************************************************)
EXTENDS Tunnel, StreamLemmas, FiniteSetTheorems

-----------------------------------------------------------------------------
(* The steps, seen from each of the three modules.                         *)

\* The ends of connection, driver and watcher.
Closing ==
  /\ \/ up' = up
     \/ up' = FALSE /\ (kind = "h2" \/ ~held)
  /\ driver' \in {driver, FALSE} /\ dead' \in {dead, TRUE}
  /\ UNCHANGED <<kind, setup, held, users, feeder, actor, mtu>>

LifeStep ==
  \/ Dialled /\ (kind = "h2" \/ H3Dialled)
  \/ Built \/ Requested \/ Responded \/ ConnectFails \/ Breaks
  \/ Spawn \/ FeederStops \/ UsersLeave \/ ActorEnd \/ DropTunnel
  \/ Closing

LEMMA StepsOfLife ==
  ASSUME [Next]_vars
  PROVE  LifeStep \/ UNCHANGED lifeVars
<1> USE DEF LifeStep
<1>1. CASE UNCHANGED vars
  BY <1>1 DEF vars
<1>2. CASE ConnectStep
  BY <1>2 DEF ConnectStep, H3Dialled, H3Built, H2Responded, H2Kind
<1>3. CASE PeerProgress
  BY <1>3 DEF PeerProgress, PeerSends
<1>4. CASE PeerCredit
  BY <1>4 DEF PeerCredit, PeerGrants
<1>5. CASE PathStep
  BY <1>5 DEF PathStep, Arrives, PathChanges, PeerEnds
<1>6. CASE ReaderStep
  BY <1>6 DEF ReaderStep, ReaderData, ReaderParse, ReaderEnd
<1>7. CASE WriterStep
  BY <1>7 DEF WriterStep, WriterTake, WriterSend, WriterEnd
<1>8. CASE DriverStep
  BY <1>8 DEF DriverStep, Unused, H2DriverEnd, H3DriverCloses, H3DriverEnd, Closing,
              SendRequest
<1>9. CASE WatcherStep
  BY <1>9 DEF WatcherStep, H3Watch, Closing
<1>10. CASE Spawn
  BY <1>10
<1>11. CASE SendIp
  BY <1>11 DEF SendIp, H2SendIp, H3SendIp
<1>12. CASE NetstackStep
  BY <1>12 DEF NetstackStep, H2Recv, H2RecvFails, H3Recv, H3RecvFails
<1>13. CASE (UsersLeave \/ DropTunnel) /\ Same
  BY <1>13
<1> QED
  BY <1>1, <1>2, <1>3, <1>4, <1>5, <1>6, <1>7, <1>8, <1>9, <1>10, <1>11, <1>12, <1>13
     DEF Next

H3Step ==
  \/ H3Dialled \/ H3Built \/ H3Watch \/ H3Recv \/ Spawn
  \/ \E d \in air : Arrives(d)
  \/ \E n \in PacketSizes \cup {mtu} : H3SendIp(n)
  \/ \E n \in sizes : PathChanges(n)

LEMMA StepsOfH3 ==
  ASSUME [Next]_vars
  PROVE  H3Step \/ UNCHANGED h3Vars
<1> USE DEF H3Step
<1>1. CASE UNCHANGED vars
  BY <1>1 DEF vars
<1>2. CASE ConnectStep
  BY <1>2 DEF ConnectStep, Same, H2Kind
<1>3. CASE PeerProgress \/ PeerCredit
  BY <1>3 DEF PeerProgress, PeerCredit
<1>5. CASE PathStep
  BY <1>5 DEF PathStep, Same
<1>6. CASE ReaderStep \/ WriterStep
  BY <1>6 DEF ReaderStep, WriterStep
<1>8. CASE DriverStep
  BY <1>8 DEF DriverStep, H3DriverCloses, H3DriverEnd
<1>9. CASE WatcherStep
  BY <1>9 DEF WatcherStep
<1>11. CASE SendIp
  BY <1>11 DEF SendIp
<1>12. CASE NetstackStep
  BY <1>12 DEF NetstackStep, H3RecvFails, Same
<1>13. CASE (UsersLeave \/ DropTunnel) /\ Same
  BY <1>13 DEF Same
<1> QED
  BY <1>1, <1>2, <1>3, <1>5, <1>6, <1>8, <1>9, <1>11, <1>12, <1>13 DEF Next

H2Step ==
  \/ H2Responded \/ ReaderData \/ ReaderParse \/ ReaderEnd
  \/ WriterTake \/ WriterSend \/ WriterEnd \/ H2Recv
  \/ \E n \in FrameSizes : PeerSends(n)
  \/ \E n \in Credits : PeerGrants(n)
  \/ \E how \in {"ended", "reset"} : PeerEnds(how)
  \/ \E p \in Packet : H2SendIp(p)

LEMMA StepsOfH2 ==
  ASSUME [Next]_vars
  PROVE  H2Step \/ UNCHANGED h2Vars
<1> USE DEF H2Step
<1>1. CASE UNCHANGED vars
  BY <1>1 DEF vars
<1>2. CASE ConnectStep
  BY <1>2 DEF ConnectStep, Same, H2Kind
<1>3. CASE PeerProgress \/ PeerCredit
  BY <1>3 DEF PeerProgress, PeerCredit
<1>5. CASE PathStep
  BY <1>5 DEF PathStep, Same
<1>6. CASE ReaderStep \/ WriterStep
  BY <1>6 DEF ReaderStep, WriterStep
<1>8. CASE DriverStep
  BY <1>8 DEF DriverStep, Unused, H2DriverEnd, h2Vars
<1>9. CASE WatcherStep
  BY <1>9 DEF WatcherStep
<1>10. CASE Spawn
  BY <1>10 DEF Spawn
<1>11. CASE SendIp
  BY <1>11 DEF SendIp
<1>12. CASE NetstackStep
  BY <1>12 DEF NetstackStep, H2RecvFails, Same, h2Vars
<1>13. CASE (UsersLeave \/ DropTunnel) /\ Same
  BY <1>13 DEF Same
<1> QED
  BY <1>1, <1>2, <1>3, <1>5, <1>6, <1>8, <1>9, <1>10, <1>11, <1>12, <1>13 DEF Next

-----------------------------------------------------------------------------
(* Lives and sizes.                                                        *)

\* The flags, one by one.
Flags ==
  /\ up \in BOOLEAN /\ driver \in BOOLEAN /\ dead \in BOOLEAN
  /\ held \in BOOLEAN /\ feeder \in BOOLEAN /\ actor \in BOOLEAN

\* A Tunnel, and a netstack on it, exist only once connecting has succeeded.
Owners ==
  /\ held => setup = "up"
  /\ users # "none" => setup = "up"
  /\ users = "none" => ~actor

LifeInv ==
  /\ kind \in {"h3", "h2"} /\ setup \in Connecting \cup {"up", "failed"}
  /\ Flags /\ users \in {"none", "some", "gone"}
  /\ mtu \in {0} \cup MinMtu..MaxMtu /\ (mtu = 0 <=> users = "none")
  /\ Owners

\* From dialling on, the path takes datagrams of one of its sizes.
H3Inv ==
  /\ H3Type
  /\ (kind = "h3" /\ setup \notin {"dial", "failed"}) => maxdg \in sizes

LEMMA OneByte ==
  ASSUME NEW v \in Nat, v < 64
  PROVE  varint_len(v) = 1 /\ Len(encode_varint(v)) = 1
<1>1. varint_len(v) = 1
  BY DEF varint_len
<1>2. encode_varint(v) = InBytes(v, 1)
  BY <1>1 DEF encode_varint
<1>3. InBytes(v, 1) \in [1..1 -> {InBytes(v, 1)[i] : i \in 1..1}]
  BY DEF InBytes
<1>4. Len(InBytes(v, 1)) = 1
  BY <1>3, LenProperties
<1> QED
  BY <1>1, <1>2, <1>4

LEMMA OverheadIsTwo ==
  /\ Overhead = 2
  /\ Len(encode_varint(quarter_stream_id)) + Len(encode_varint(CONTEXT_ID_FULL_PACKET)) = 2
<1>1. quarter_stream_id = 0 /\ CONTEXT_ID_FULL_PACKET = 0
  BY DEF quarter_stream_id, CONTEXT_ID_FULL_PACKET
<1>2. varint_len(0) = 1 /\ Len(encode_varint(0)) = 1
  BY OneByte
<1>3. Overhead = varint_len(0) + varint_len(0)
  BY <1>1, Zenon DEF Overhead
<1>4. /\ Len(encode_varint(quarter_stream_id)) = 1
      /\ Len(encode_varint(CONTEXT_ID_FULL_PACKET)) = 1
  BY <1>1, <1>2, Zenon
<1> QED
  BY <1>2, <1>3, <1>4

\* The largest packet is a number.
LEMMA MaxPacketType == ASSUME H3Inv PROVE maxdg \in Nat /\ max_ip_packet \in Nat
<1>1. maxdg \in Nat
  BY H3Assumption DEF H3Inv, H3Type
<1> QED
  BY <1>1, OverheadIsTwo DEF max_ip_packet, H2_MTU, H3MaxIpPacket

LEMMA LifeInit1 == ASSUME Init PROVE LifeInv /\ H3Inv
<1>1. LifeInv
  BY TunnelAssumption
     DEF Init, LifeInit, LifeInv, Flags, Owners, Connecting
<1>2. H3Inv
  BY TunnelAssumption, H3Assumption DEF Init, LifeInit, H3Init, H3Inv, H3Type
<1> QED
  BY <1>1, <1>2

LEMMA LifeKept == ASSUME LifeInv, H3Inv, [Next]_vars PROVE LifeInv'
<1> USE DEF LifeInv, Owners, Connecting
<1>1. CASE UNCHANGED lifeVars
  BY <1>1 DEF lifeVars, Flags
<1>2. CASE Dialled
  BY <1>2, Zenon DEF Dialled, Flags
<1>3. CASE Built
  BY <1>3, Zenon DEF Built, Flags
<1>4. CASE Requested
  BY <1>4, Zenon DEF Requested, Flags
<1>5. CASE Responded
  BY <1>5 DEF Responded, Flags
<1>6. CASE ConnectFails
  BY <1>6 DEF ConnectFails, Flags
<1>7. CASE Breaks
  BY <1>7, Zenon DEF Breaks, Flags
<1>8. CASE FeederStops
  BY <1>8, Zenon DEF FeederStops, Flags
<1>9. CASE UsersLeave
  BY <1>9, Zenon DEF UsersLeave, Flags
<1>10. CASE ActorEnd
  BY <1>10, Zenon DEF ActorEnd, Flags
<1>11. CASE DropTunnel
  BY <1>11, Zenon DEF DropTunnel, Flags
<1>12. CASE Spawn
  <2>1. max_ip_packet \in Nat
    BY MaxPacketType
  <2>2. PICK m \in Nat : m = max_ip_packet
    BY <2>1
  <2> QED
    BY <1>12, <2>2, H3Assumption DEF Spawn, SpawnFor, Flags
<1>13. CASE Closing
  <2>1. /\ up' = up \/ (up' = FALSE /\ (kind = "h2" \/ ~held))
        /\ driver' \in {driver, FALSE} /\ dead' \in {dead, TRUE}
        /\ kind' = kind /\ setup' = setup /\ held' = held
        /\ users' = users /\ feeder' = feeder /\ actor' = actor /\ mtu' = mtu
    BY <1>13 DEF Closing
  <2>2. Flags'
    BY <2>1, Zenon DEF Flags
  <2> QED
    BY <2>1, <2>2, Zenon
<1> QED
  BY <1>1, <1>2, <1>3, <1>4, <1>5, <1>6, <1>7, <1>8, <1>9, <1>10, <1>11, <1>12, <1>13,
     StepsOfLife DEF LifeStep

LEMMA H3Kept == ASSUME LifeInv, H3Inv, [Next]_vars PROVE H3Inv'
<1> USE H3Assumption DEF H3Inv, H3Type
\* No step but dialling leaves "dial", and none at all "failed".
<1>1. /\ kind' = kind
      /\ \/ setup' = setup \/ setup' = "failed"
         \/ setup \in {"build", "request", "response"}
         \/ kind = "h2" \/ H3Dialled
  BY StepsOfLife DEF LifeStep, lifeVars, Dialled, Built, Requested, Responded,
     ConnectFails, Breaks, Spawn, SpawnFor, FeederStops, UsersLeave, ActorEnd, DropTunnel, Closing,
     Connecting
<1>2. CASE UNCHANGED h3Vars /\ ~H3Dialled
  BY <1>1, <1>2 DEF h3Vars
<1>3. CASE H3Dialled
  BY <1>1, <1>3 DEF H3Dialled, Dialled
<1>4. CASE H3Built
  BY <1>1, <1>4 DEF H3Built, Built
<1>5. CASE H3Watch
  BY <1>1, <1>5 DEF H3Watch
<1>6. CASE H3Recv
  BY <1>6 DEF H3Recv, lifeVars
<1>7. CASE Spawn
  BY <1>7 DEF Spawn, SpawnFor
<1>8. CASE \E d \in air : Arrives(d)
  BY <1>8 DEF Arrives, lifeVars
<1>9. CASE \E n \in sizes : PathChanges(n)
  BY <1>9 DEF PathChanges, lifeVars
<1>10. ASSUME NEW n \in PacketSizes \cup {mtu}, H3SendIp(n) PROVE H3Inv'
  <2>1. actor => maxdg \in sizes
    BY <1>10 DEF LifeInv, Owners, H3SendIp
  <2> QED
    BY <1>10, <2>1 DEF H3SendIp, lifeVars
<1> QED
  BY <1>2, <1>3, <1>4, <1>5, <1>6, <1>7, <1>8, <1>9, <1>10, StepsOfH3 DEF H3Step

\* The MTU was chosen so that a packet fits the datagrams of that time.
FitInv ==
  /\ users = "none" => tooLarge = {}
  /\ (kind = "h3" /\ users # "none" /\ ~(atSpawn < MinMtu + 2)) => mtu + 2 <= atSpawn
  /\ Fits

LEMMA FitKept == ASSUME LifeInv, H3Inv, FitInv, [Next]_vars PROVE FitInv'
<1> USE H3Assumption, TunnelAssumption DEF FitInv, Fits
<1>0. /\ maxdg \in Nat /\ atSpawn \in Nat /\ mtu \in Nat /\ MinMtu \in Nat
      /\ \A m \in tooLarge : m \in Nat
  <2>1. /\ sizes \subseteq Nat /\ maxdg \in {0} \cup sizes /\ atSpawn \in {0} \cup sizes
        /\ tooLarge \subseteq sizes
    BY Zenon DEF H3Inv, H3Type
  <2>2. MinMtu \in Nat /\ mtu \in {0} \cup MinMtu..MaxMtu
    BY Zenon DEF LifeInv
  <2>3. \A m \in {0} \cup MinMtu..MaxMtu : m \in Nat
    BY <2>2
  <2>4. \A m \in {0} \cup sizes : m \in Nat
    BY <2>1
  <2> QED
    BY <2>1, <2>2, <2>3, <2>4, Zenon
<1>1. \/ kind' = kind /\ users' = users /\ mtu' = mtu
      \/ users = "some" /\ kind' = kind /\ users' = "gone" /\ mtu' = mtu
      \/ Spawn
  BY StepsOfLife DEF LifeStep, lifeVars, Dialled, Built, Requested, Responded,
     ConnectFails, Breaks, FeederStops, UsersLeave, ActorEnd, DropTunnel, Closing
<1>2. CASE Spawn
  <2>1. max_ip_packet = IF kind = "h2" THEN 1280 ELSE IF maxdg < 2 THEN 0 ELSE maxdg - 2
    BY OverheadIsTwo DEF max_ip_packet, H2_MTU, H3MaxIpPacket
  <2>2. PICK m \in Nat : m = max_ip_packet
    BY MaxPacketType
  <2>3. /\ users = "none" /\ users' = "some" /\ kind' = kind /\ atSpawn' = maxdg
        /\ tooLarge' = tooLarge
        /\ mtu' = IF m < MinMtu THEN MinMtu ELSE IF m > MaxMtu THEN MaxMtu ELSE m
    BY <1>2, <2>2 DEF Spawn, SpawnFor
  <2>4. tooLarge' = {}
    BY <2>3
  <2>5. (kind = "h3" /\ ~(maxdg < MinMtu + 2)) => mtu' + 2 <= maxdg
    BY <2>1, <2>2, <2>3, <1>0
  <2> QED
    BY <2>3, <2>4, <2>5
<1>3. ASSUME NEW n \in PacketSizes \cup {mtu}, H3SendIp(n) PROVE FitInv'
  <2>1. n \in Nat
    BY <1>0
  <2>2. /\ kind' = kind /\ users' = users /\ mtu' = mtu /\ atSpawn' = atSpawn
        /\ kind = "h3" /\ users # "none" /\ n <= mtu
        /\ tooLarge' = IF 2 + n > maxdg THEN tooLarge \cup {maxdg} ELSE tooLarge
    BY <1>3, OverheadIsTwo DEF H3SendIp, lifeVars, LifeInv, Owners
  <2>3. 2 + n > maxdg => maxdg < atSpawn \/ atSpawn < MinMtu + 2
    BY <2>1, <2>2, <1>0
  <2> QED
    BY <2>2, <2>3
<1>4. CASE tooLarge' = tooLarge /\ atSpawn' = atSpawn /\ ~Spawn
  BY <1>1, <1>4
<1> QED
  BY <1>2, <1>3, <1>4, StepsOfH3 DEF H3Step, h3Vars, H3Dialled, H3Built, H3Watch, H3Recv,
     Arrives, PathChanges

\* A packet is refused only when the path has become narrower since spawn.
THEOREM PacketsFit == Spec => []Fits
<1>1. Init => LifeInv /\ H3Inv /\ FitInv
  BY LifeInit1 DEF Init, LifeInit, H3Init, FitInv, Fits
<1>2. LifeInv /\ H3Inv /\ FitInv /\ [Next]_vars => (LifeInv /\ H3Inv /\ FitInv)'
  BY LifeKept, H3Kept, FitKept
<1>3. FitInv => Fits
  BY DEF FitInv
<1> QED
  BY <1>1, <1>2, <1>3, PTL DEF Spec

-----------------------------------------------------------------------------
(* Capsules.                                                               *)

\* A capsule as the endpoint may send it.
CapsuleType == [ctype : Nat, value : Seq(Byte), tw : {1, 2, 4, 8}, lw : {1, 2, 4, 8}]
Sound(c) == c \in CapsuleType /\ Holds(c.tw, c.ctype) /\ Holds(c.lw, Len(c.value))
BytesOf(c) == Capsule(c.ctype, c.value, c.tw, c.lw)

\* Its type, its length and its value, one after the other.
LEMMA CapsuleIs ==
  ASSUME NEW c, Sound(c)
  PROVE  /\ BytesOf(c) \in Seq(Byte) /\ Len(BytesOf(c)) = c.tw + c.lw + Len(c.value)
         /\ c.tw \in {1, 2, 4, 8} /\ c.lw \in {1, 2, 4, 8}
         /\ c.value \in Seq(Byte) /\ Len(c.value) \in Nat /\ c.ctype \in Nat
         /\ \A i \in 1..c.tw : BytesOf(c)[i] = InBytes(c.ctype, c.tw)[i]
         /\ \A i \in 1..c.lw : BytesOf(c)[c.tw + i] = InBytes(Len(c.value), c.lw)[i]
         /\ \A i \in 1..Len(c.value) : BytesOf(c)[c.tw + c.lw + i] = c.value[i]
<1>1. /\ c.tw \in {1, 2, 4, 8} /\ c.lw \in {1, 2, 4, 8}
      /\ c.value \in Seq(Byte) /\ Len(c.value) \in Nat /\ c.ctype \in Nat
  BY DEF Sound, CapsuleType
<1>2. PICK ct \in Nat : ct = c.ctype
  BY <1>1
<1>3. PICK v \in Seq(Byte) : v = c.value
  BY <1>1
<1>4. PICK tw \in {1, 2, 4, 8}, lw \in {1, 2, 4, 8} : tw = c.tw /\ lw = c.lw
  BY <1>1
<1>5. PICK a \in Seq(Byte) : a = InBytes(ct, tw) /\ Len(a) = tw
  BY <1>2, <1>4, FieldType DEF Sound
<1>6. PICK b \in Seq(Byte) : b = InBytes(Len(v), lw) /\ Len(b) = lw
  <2>1. Len(v) \in Nat /\ Holds(lw, Len(v))
    BY <1>3, <1>4 DEF Sound
  <2> QED
    BY <2>1, FieldType
<1>7. BytesOf(c) = Cat(Cat(a, b), v)
  BY <1>2, <1>3, <1>4, <1>5, <1>6, Zenon DEF BytesOf, Capsule, Cat
<1>8. PICK h \in Seq(Byte) : h = Cat(a, b)
  BY CatType
<1>9. PICK w \in Seq(Byte) : w = Cat(h, v)
  BY CatType
<1>10. Len(h) = tw + lw
  BY <1>5, <1>6, <1>8, CatLen
<1>11. Len(w) = tw + lw + Len(v)
  BY <1>9, <1>10, CatLen
<1>12. /\ \A i \in 1..Len(a) : Cat(a, b)[i] = a[i]
       /\ \A i \in 1..Len(b) : Cat(a, b)[Len(a) + i] = b[i]
  BY CatEntries
<1>13. (\A i \in 1..tw : h[i] = a[i]) /\ \A i \in 1..lw : h[tw + i] = b[i]
  BY <1>5, <1>6, <1>8, <1>12, Zenon
<1>14. /\ \A i \in 1..Len(h) : Cat(h, v)[i] = h[i]
       /\ \A i \in 1..Len(v) : Cat(h, v)[Len(h) + i] = v[i]
  BY CatEntries
<1>15. /\ \A i \in 1..(tw + lw) : w[i] = h[i]
       /\ \A i \in 1..Len(v) : w[tw + lw + i] = v[i]
  BY <1>9, <1>10, <1>14, Zenon
<1>16. \A i \in 1..tw : w[i] = a[i]
  <2>1. \A i \in 1..tw : i \in 1..(tw + lw)
    OBVIOUS
  <2> QED
    BY <1>13, <1>15, <2>1, Zenon
<1>17. \A i \in 1..lw : w[tw + i] = b[i]
  <2>1. \A i \in 1..lw : tw + i \in 1..(tw + lw)
    OBVIOUS
  <2> QED
    BY <1>13, <1>15, <2>1, Zenon
<1>18. BytesOf(c) = w
  BY <1>7, <1>8, <1>9, Zenon
<1>19. /\ BytesOf(c) \in Seq(Byte) /\ Len(BytesOf(c)) = tw + lw + Len(v)
  BY <1>11, <1>18
<1> QED
  BY <1>1, <1>2, <1>3, <1>4, <1>5, <1>6, <1>15, <1>16, <1>17, <1>18, <1>19, Zenon

LEMMA CapsuleLength ==
  ASSUME NEW c, Sound(c)
  PROVE  /\ Len(BytesOf(c)) \in Nat /\ Len(BytesOf(c)) > 0 /\ c.tw + c.lw \in Nat
         /\ c.tw \in {1, 2, 4, 8} /\ c.lw \in {1, 2, 4, 8}
<1>1. PICK tw \in {1, 2, 4, 8}, lw \in {1, 2, 4, 8}, n \in Nat :
        tw = c.tw /\ lw = c.lw /\ n = Len(c.value)
  BY CapsuleIs
<1>2. Len(BytesOf(c)) = tw + lw + n
  BY <1>1, CapsuleIs, Zenon
<1>3. tw + lw + n \in Nat /\ tw + lw + n > 0 /\ tw + lw \in Nat
  OBVIOUS
<1> QED
  BY <1>1, <1>2, <1>3, Zenon

\* parse_capsule, with names for what it decodes.
ParsedAs(octets, ct, cl) ==
  IF ct.len = 0 \/ cl.len = 0 \/ Len(octets) - (ct.len + cl.len) < cl.v
  THEN [ctype |-> 0, voff |-> 0, total |-> 0]
  ELSE [ctype |-> ct.v, voff |-> ct.len + cl.len, total |-> ct.len + cl.len + cl.v]

LEMMA ParseIs ==
  ASSUME NEW octets
  PROVE  parse_capsule(octets)
           = ParsedAs(octets, decode_varint(octets),
                      decode_varint(SubSeq(octets, decode_varint(octets).len + 1, Len(octets))))
BY DEF parse_capsule, ParsedAs

\* The two integers in front of octets, if it holds the type.
LEMMA ParseHeader ==
  ASSUME NEW c, Sound(c), NEW octets \in Seq(Byte),
         c.tw <= Len(octets), \A i \in 1..Len(octets) : i <= Len(BytesOf(c)) => octets[i] = BytesOf(c)[i]
  PROVE  \E r \in Seq(Byte) :
           /\ decode_varint(octets).v = c.ctype /\ decode_varint(octets).len = c.tw
           /\ r = SubSeq(octets, c.tw + 1, Len(octets)) /\ Len(r) = Len(octets) - c.tw
           /\ \A i \in 1..Len(r) : i <= c.lw => r[i] = InBytes(Len(c.value), c.lw)[i]
<1>1. PICK tw \in {1, 2, 4, 8}, lw \in {1, 2, 4, 8}, n \in Nat :
        tw = c.tw /\ lw = c.lw /\ n = Len(c.value)
  BY CapsuleIs
<1>2. PICK b \in Seq(Byte) : b = BytesOf(c)
  BY CapsuleIs
<1>3. /\ Len(b) = tw + lw + n
      /\ \A i \in 1..tw : b[i] = InBytes(c.ctype, tw)[i]
      /\ \A i \in 1..lw : b[tw + i] = InBytes(n, lw)[i]
  BY <1>1, <1>2, CapsuleIs
<1>4. tw <= Len(octets) /\ \A i \in 1..Len(octets) : i <= Len(b) => octets[i] = b[i]
  BY <1>1, <1>2
<1>5. \A i \in 1..tw : octets[i] = InBytes(c.ctype, tw)[i]
  <2>1. \A i \in 1..tw : i \in 1..Len(octets) /\ i <= Len(b)
    BY <1>3, <1>4
  <2> QED
    BY <1>3, <1>4, <2>1, Zenon
<1>6. c.ctype \in Nat /\ Holds(tw, c.ctype)
  BY <1>1, CapsuleIs DEF Sound
<1>7. decode_varint(octets).v = c.ctype /\ decode_varint(octets).len = tw
  <2>1. FieldAt(octets, c.ctype, tw)
    BY <1>4, <1>5, Zenon DEF FieldAt
  <2>2. Decodes(octets, c.ctype, tw)
    BY <1>6, <2>1, DecodeAt, Zenon
  <2> QED
    BY <2>2, Zenon DEF Decodes
<1>8. PICK r \in Seq(Byte) :
        /\ r = SubSeq(octets, tw + 1, Len(octets)) /\ Len(r) = Len(octets) - tw
        /\ \A i \in 1..(Len(octets) - tw) : r[i] = octets[tw + i]
  <2>1. tw \in 0..Len(octets)
    BY <1>4
  <2>2. /\ SubSeq(octets, tw + 1, Len(octets)) \in Seq(Byte)
        /\ Len(SubSeq(octets, tw + 1, Len(octets))) = Len(octets) - tw
        /\ \A i \in 1..(Len(octets) - tw) : SubSeq(octets, tw + 1, Len(octets))[i] = octets[tw + i]
    BY <2>1, RestOf
  <2> QED
    BY <2>2, Zenon
<1>9. \A i \in 1..Len(r) : i <= lw => r[i] = InBytes(n, lw)[i]
  <2> SUFFICES ASSUME NEW i \in 1..Len(r), i <= lw PROVE r[i] = InBytes(n, lw)[i]
    OBVIOUS
  <2>1. tw + i \in 1..Len(octets) /\ tw + i <= Len(b) /\ i \in 1..lw /\ i \in 1..(Len(octets) - tw)
    BY <1>3, <1>8
  <2> QED
    BY <1>3, <1>4, <1>8, <2>1, Zenon
<1> QED
  BY <1>1, <1>7, <1>8, <1>9, Zenon

\* A whole capsule at the front of octets is parsed as what it is.
LEMMA ParseWhole ==
  ASSUME NEW c, Sound(c), NEW octets \in Seq(Byte), Len(BytesOf(c)) <= Len(octets),
         \A i \in 1..Len(octets) : i <= Len(BytesOf(c)) => octets[i] = BytesOf(c)[i]
  PROVE  /\ parse_capsule(octets).ctype = c.ctype
         /\ parse_capsule(octets).voff = c.tw + c.lw
         /\ parse_capsule(octets).total = Len(BytesOf(c))
<1>1. PICK tw \in {1, 2, 4, 8}, lw \in {1, 2, 4, 8}, n \in Nat :
        tw = c.tw /\ lw = c.lw /\ n = Len(c.value)
  BY CapsuleIs
<1>2. Len(BytesOf(c)) = tw + lw + n /\ Len(octets) \in Nat
  BY <1>1, CapsuleIs
<1>3. c.tw <= Len(octets)
  BY <1>1, <1>2
<1>4. PICK r \in Seq(Byte) :
        /\ decode_varint(octets).v = c.ctype /\ decode_varint(octets).len = tw
        /\ r = SubSeq(octets, tw + 1, Len(octets)) /\ Len(r) = Len(octets) - tw
        /\ \A i \in 1..Len(r) : i <= lw => r[i] = InBytes(n, lw)[i]
  BY <1>1, <1>3, ParseHeader, Zenon
<1>5. Holds(lw, n)
  BY <1>1 DEF Sound
<1>6. lw <= Len(r) /\ \A i \in 1..lw : r[i] = InBytes(n, lw)[i]
  <2>1. lw <= Len(r)
    BY <1>2, <1>4, SMTT(30)
  <2>2. \A i \in 1..lw : i \in 1..Len(r) /\ i <= lw
    BY <2>1
  <2> QED
    BY <2>1, <2>2, <1>4, Zenon
<1>7. decode_varint(r).v = n /\ decode_varint(r).len = lw
  <2>1. FieldAt(r, n, lw)
    BY <1>6, Zenon DEF FieldAt
  <2>2. Decodes(r, n, lw)
    BY <1>5, <2>1, DecodeAt, Zenon
  <2> QED
    BY <2>2, Zenon DEF Decodes
<1>8. parse_capsule(octets) = ParsedAs(octets, decode_varint(octets), decode_varint(r))
  BY <1>4, ParseIs, Zenon
<1>9. tw # 0 /\ lw # 0 /\ ~(Len(octets) - (tw + lw) < n)
  BY <1>2
<1>10. ParsedAs(octets, decode_varint(octets), decode_varint(r))
         = [ctype |-> c.ctype, voff |-> tw + lw, total |-> tw + lw + n]
  BY <1>4, <1>7, <1>9, Zenon DEF ParsedAs
<1> QED
  BY <1>1, <1>2, <1>8, <1>10

\* Of a part of one nothing is.
LEMMA ParsePart ==
  ASSUME NEW c, Sound(c), NEW octets \in Seq(Byte), Len(octets) < Len(BytesOf(c)),
         \A i \in 1..Len(octets) : octets[i] = BytesOf(c)[i]
  PROVE  parse_capsule(octets).total = 0
<1>1. PICK tw \in {1, 2, 4, 8}, lw \in {1, 2, 4, 8}, n \in Nat :
        tw = c.tw /\ lw = c.lw /\ n = Len(c.value)
  BY CapsuleIs
<1>2. Len(BytesOf(c)) = tw + lw + n /\ Len(octets) \in Nat
  BY <1>1, CapsuleIs
<1>3. CASE Len(octets) < tw
  <2>1. \A i \in 1..Len(octets) : octets[i] = InBytes(c.ctype, tw)[i]
    <3>1. \A i \in 1..Len(octets) : i \in 1..tw
      BY <1>3
    <3>2. \A i \in 1..tw : BytesOf(c)[i] = InBytes(c.ctype, tw)[i]
      BY <1>1, CapsuleIs
    <3> QED
      BY <3>1, <3>2, Zenon
  <2>2. c.ctype \in Nat /\ Holds(tw, c.ctype)
    BY <1>1, CapsuleIs DEF Sound
  <2>3. decode_varint(octets).len = 0
    BY <1>3, <2>1, <2>2, DecodePart
  <2> QED
    BY <2>3, ParseIs DEF ParsedAs
<1>4. CASE ~(Len(octets) < tw)
  <2>1. c.tw <= Len(octets) /\ \A i \in 1..Len(octets) : i <= Len(BytesOf(c)) => octets[i] = BytesOf(c)[i]
    BY <1>1, <1>2, <1>4
  <2>2. PICK r \in Seq(Byte) :
          /\ decode_varint(octets).v = c.ctype /\ decode_varint(octets).len = tw
          /\ r = SubSeq(octets, tw + 1, Len(octets)) /\ Len(r) = Len(octets) - tw
          /\ \A i \in 1..Len(r) : i <= lw => r[i] = InBytes(n, lw)[i]
    BY <1>1, <2>1, ParseHeader, Zenon
  <2>3. Holds(lw, n)
    BY <1>1 DEF Sound
  <2>4. parse_capsule(octets) = ParsedAs(octets, decode_varint(octets), decode_varint(r))
    BY <2>2, ParseIs, Zenon
  <2>5. CASE Len(r) < lw
    <3>1. \A i \in 1..Len(r) : r[i] = InBytes(n, lw)[i]
      <4>1. \A i \in 1..Len(r) : i <= lw
        BY <2>5
      <4> QED
        BY <4>1, <2>2, Zenon
    <3>2. decode_varint(r).len = 0
      BY <2>3, <2>5, <3>1, DecodePart
    <3> QED
      BY <2>4, <3>2 DEF ParsedAs
  <2>6. CASE ~(Len(r) < lw)
    <3>1. lw <= Len(r)
      BY <2>6
    <3>2. \A i \in 1..lw : r[i] = InBytes(n, lw)[i]
      <4>1. \A i \in 1..lw : i \in 1..Len(r) /\ i <= lw
        BY <3>1
      <4> QED
        BY <4>1, <2>2, Zenon
    <3>3. decode_varint(r).v = n /\ decode_varint(r).len = lw
      <4>1. FieldAt(r, n, lw)
        BY <3>1, <3>2, Zenon DEF FieldAt
      <4>2. Decodes(r, n, lw)
        BY <2>3, <4>1, DecodeAt, Zenon
      <4> QED
        BY <4>2, Zenon DEF Decodes
    <3>4. Len(octets) - (tw + lw) < n
      BY <1>2
    <3> QED
      BY <2>2, <2>4, <3>3, <3>4 DEF ParsedAs
  <2> QED
    BY <2>5, <2>6
<1> QED
  BY <1>3, <1>4

\* Nor of nothing.
LEMMA ParseNothing == parse_capsule(<<>>).total = 0
<1>1. decode_varint(<<>>).len = 0
  BY DEF decode_varint
<1> QED
  BY <1>1, ParseIs DEF ParsedAs

-----------------------------------------------------------------------------
(* What the endpoint sends.                                                *)

CapsulesOf(s) == [i \in DOMAIN s |-> BytesOf(s[i])]
ValuesOf(s) == [i \in DOMAIN s |-> IF s[i].ctype = CAPSULE_DATAGRAM THEN <<s[i].value>>
                                   ELSE <<>>]

LEMMA ScriptIs ==
  ASSUME NEW s \in Script
  PROVE  Len(s) \in Nat /\ DOMAIN s = 1..Len(s) /\ \A i \in 1..Len(s) : Sound(s[i])
<1>1. s \in Seq(CapsuleType)
  BY H2Assumption DEF CapsuleType
<1>2. Len(s) \in Nat /\ DOMAIN s = 1..Len(s) /\ \A i \in 1..Len(s) : s[i] \in CapsuleType
  <2> HIDE DEF CapsuleType
  <2> QED
    BY <1>1, LenProperties, ElementOfSeq
<1>3. \A i \in DOMAIN s : Holds(s[i].tw, s[i].ctype) /\ Holds(s[i].lw, Len(s[i].value))
  BY H2Assumption, Zenon
<1> QED
  BY <1>2, <1>3, Zenon DEF Sound

LEMMA BytesPieces ==
  ASSUME NEW s \in Script, NEW k \in 0..Len(s)
  PROVE  /\ k \in Nat /\ Pieces(CapsulesOf(s), k, Byte) /\ Bytes(s, k) = Joined(CapsulesOf(s), k)
         /\ \A i \in 1..k : CapsulesOf(s)[i] = BytesOf(s[i])
<1>1. Len(s) \in Nat /\ DOMAIN s = 1..Len(s) /\ \A i \in 1..Len(s) : Sound(s[i])
  BY ScriptIs, Zenon
<1>2. k \in Nat /\ \A i \in 1..k : i \in 1..Len(s)
  BY <1>1
<1>3. \A i \in 1..k : CapsulesOf(s)[i] = BytesOf(s[i])
  BY <1>1, <1>2, Zenon DEF CapsulesOf
<1>4. \A i \in 1..k : BytesOf(s[i]) \in Seq(Byte)
  BY <1>1, <1>2, CapsuleIs, Zenon
<1>5. Bytes(s, k) = Joined(CapsulesOf(s), k)
  BY Zenon DEF Bytes, CapsulesOf, BytesOf
<1> QED
  BY <1>2, <1>3, <1>4, <1>5, Zenon DEF Pieces

LEMMA BytesType ==
  ASSUME NEW s \in Script, NEW k \in 0..Len(s)
  PROVE  Bytes(s, k) \in Seq(Byte)
BY BytesPieces, JoinedType, Zenon

LEMMA BytesNone ==
  ASSUME NEW s PROVE Bytes(s, 0) = <<>>
BY JoinedNone, Zenon DEF Bytes

LEMMA BytesNext ==
  ASSUME NEW s \in Script, NEW k \in Nat, k < Len(s)
  PROVE  Bytes(s, k + 1) = Cat(Bytes(s, k), BytesOf(s[k + 1]))
<1>1. Len(s) \in Nat
  BY ScriptIs, Zenon
<1>2. k \in 0..Len(s) /\ k + 1 \in 0..Len(s) /\ k + 1 \in 1..(k + 1)
  BY <1>1
<1>3. /\ Bytes(s, k) = Joined(CapsulesOf(s), k)
      /\ Bytes(s, k + 1) = Joined(CapsulesOf(s), k + 1)
      /\ Pieces(CapsulesOf(s), k + 1, Byte)
      /\ CapsulesOf(s)[k + 1] = BytesOf(s[k + 1])
  BY <1>2, BytesPieces, Zenon
<1>4. Joined(CapsulesOf(s), k + 1) = Cat(Joined(CapsulesOf(s), k), CapsulesOf(s)[k + 1])
  BY <1>3, JoinedNext
<1> QED
  BY <1>3, <1>4, Zenon

LEMMA BytesStart ==
  ASSUME NEW s \in Script, NEW k \in 0..Len(s), NEW l \in 0..k
  PROVE  \E r \in Seq(Byte) : Bytes(s, k) = Cat(Bytes(s, l), r)
<1>1. Len(s) \in Nat
  BY ScriptIs, Zenon
<1>2. k \in Nat /\ l \in 0..Len(s)
  BY <1>1
<1>3. /\ Bytes(s, k) = Joined(CapsulesOf(s), k) /\ Bytes(s, l) = Joined(CapsulesOf(s), l)
      /\ Pieces(CapsulesOf(s), k, Byte)
  BY <1>2, BytesPieces, Zenon
<1>4. PICK r \in Seq(Byte) : Joined(CapsulesOf(s), k) = Cat(Joined(CapsulesOf(s), l), r)
  BY <1>2, <1>3, JoinedStarts
<1> QED
  BY <1>3, <1>4, Zenon

LEMMA StreamIs ==
  ASSUME NEW s \in Script
  PROVE  /\ StreamOf[s] = Bytes(s, Len(s)) /\ StreamOf[s] \in Seq(Byte)
         /\ Len(StreamOf[s]) \in Nat
<1>1. StreamOf[s] = Bytes(s, Len(s))
  BY Zenon DEF StreamOf
<1>2. Len(s) \in 0..Len(s)
  BY ScriptIs
<1>3. PICK t \in Seq(Byte) : t = Bytes(s, Len(s))
  BY <1>2, BytesType, Zenon
<1>4. Len(t) \in Nat
  OBVIOUS
<1> QED
  BY <1>1, <1>3, <1>4, Zenon

\* The values among the capsules.
LEMMA ValuesPieces ==
  ASSUME NEW s \in Script, NEW k \in 0..Len(s)
  PROVE  /\ k \in Nat /\ Pieces(ValuesOf(s), k, Seq(Byte)) /\ Values(s, k) = Joined(ValuesOf(s), k)
         /\ \A i \in 1..k : ValuesOf(s)[i] = IF s[i].ctype = CAPSULE_DATAGRAM
                                             THEN <<s[i].value>> ELSE <<>>
<1>1. Len(s) \in Nat /\ DOMAIN s = 1..Len(s) /\ \A i \in 1..Len(s) : Sound(s[i])
  BY ScriptIs, Zenon
<1>2. k \in Nat /\ \A i \in 1..k : i \in 1..Len(s)
  BY <1>1
<1>3. \A i \in 1..k : ValuesOf(s)[i] = IF s[i].ctype = CAPSULE_DATAGRAM
                                       THEN <<s[i].value>> ELSE <<>>
  BY <1>1, <1>2, Zenon DEF ValuesOf
<1>4. \A i \in 1..k : s[i].value \in Seq(Byte)
  BY <1>1, <1>2, CapsuleIs, Zenon
<1>5. \A v \in Seq(Byte) : <<v>> \in Seq(Seq(Byte)) /\ <<>> \in Seq(Seq(Byte))
  OBVIOUS
<1>6. \A i \in 1..k : ValuesOf(s)[i] \in Seq(Seq(Byte))
  BY <1>3, <1>4, <1>5, Zenon
<1>7. Values(s, k) = Joined(ValuesOf(s), k)
  BY Zenon DEF Values, ValuesOf
<1> QED
  BY <1>2, <1>3, <1>6, <1>7, Zenon DEF Pieces

LEMMA ValuesNext ==
  ASSUME NEW s \in Script, NEW k \in Nat, k < Len(s)
  PROVE  Values(s, k + 1)
           = Cat(Values(s, k), IF s[k + 1].ctype = CAPSULE_DATAGRAM
                               THEN <<s[k + 1].value>> ELSE <<>>)
<1>1. Len(s) \in Nat
  BY ScriptIs, Zenon
<1>2. k \in 0..Len(s) /\ k + 1 \in 0..Len(s) /\ k + 1 \in 1..(k + 1)
  BY <1>1
<1>3. /\ Values(s, k) = Joined(ValuesOf(s), k)
      /\ Values(s, k + 1) = Joined(ValuesOf(s), k + 1)
      /\ Pieces(ValuesOf(s), k + 1, Seq(Byte))
  BY <1>2, ValuesPieces, Zenon
<1>4. ValuesOf(s)[k + 1] = IF s[k + 1].ctype = CAPSULE_DATAGRAM
                           THEN <<s[k + 1].value>> ELSE <<>>
  BY <1>2, ValuesPieces, Zenon
<1>5. Joined(ValuesOf(s), k + 1) = Cat(Joined(ValuesOf(s), k), ValuesOf(s)[k + 1])
  BY <1>3, JoinedNext
<1> QED
  BY <1>3, <1>4, <1>5, Zenon

LEMMA ValuesType ==
  ASSUME NEW s \in Script, NEW k \in 0..Len(s)
  PROVE  Values(s, k) \in Seq(Seq(Byte))
BY ValuesPieces, JoinedType, Zenon

-----------------------------------------------------------------------------
(* What the reader has of it: j capsules are parsed, b is in the buffer    *)
(* and f waits in frames, of the first p bytes of the stream.              *)

ReadUpTo(s, j, b, f, p) ==
  Cat(Cat(Bytes(s, j), b), Joined(f, Len(f))) = SubSeq(StreamOf[s], 1, p)

\* No capsule is complete in the buffer.
Incomplete(s, j, b) == j = Len(s) \/ Len(b) < Len(BytesOf(s[j + 1]))

LEMMA JoinedFrames ==
  ASSUME NEW f \in Seq(Seq(Byte))
  PROVE  Joined(f, Len(f)) \in Seq(Byte) /\ Len(Joined(f, Len(f))) \in Nat
<1>1. Len(f) \in Nat /\ Pieces(f, Len(f), Byte)
  BY PiecesOf, Zenon
<1>2. PICK w \in Seq(Byte) : w = Joined(f, Len(f))
  BY <1>1, JoinedType, Zenon
<1>3. Len(w) \in Nat
  OBVIOUS
<1> QED
  BY <1>2, <1>3, Zenon

\* How many bytes that are.
LEMMA ReadLength ==
  ASSUME NEW s \in Script, NEW j \in 0..Len(s), NEW b \in Seq(Byte),
         NEW f \in Seq(Seq(Byte)), NEW p \in 0..Len(StreamOf[s]), ReadUpTo(s, j, b, f, p)
  PROVE  p = Len(Bytes(s, j)) + Len(b) + Len(Joined(f, Len(f)))
<1>1. PICK a \in Seq(Byte) : a = Bytes(s, j)
  BY BytesType, Zenon
<1>2. PICK w \in Seq(Byte) : w = Joined(f, Len(f))
  BY JoinedFrames, Zenon
<1>3. PICK t \in Seq(Byte) : t = StreamOf[s]
  BY StreamIs, Zenon
<1>4. Cat(Cat(a, b), w) = SubSeq(t, 1, p) /\ p \in 0..Len(t)
  BY <1>1, <1>2, <1>3, Zenon DEF ReadUpTo
<1>5. Len(SubSeq(t, 1, p)) = p
  BY <1>4, FrontOf
<1>6. Middle(a, b, w)
  BY CatMiddle, Zenon
<1> QED
  BY <1>1, <1>2, <1>4, <1>5, <1>6, Zenon DEF Middle

\* The endpoint sends n bytes more: the frames are then g.
SentMore(s, j, b, f, g, p, n) ==
  /\ g \in Seq(Seq(Byte)) /\ Len(g) = Len(f) + 1 /\ ReadUpTo(s, j, b, g, p + n)
  /\ Len(Joined(g, Len(g))) = Len(Joined(f, Len(f))) + n

LEMMA ReadSends ==
  ASSUME NEW s \in Script, NEW j \in 0..Len(s), NEW b \in Seq(Byte),
         NEW f \in Seq(Seq(Byte)), NEW p \in 0..Len(StreamOf[s]), ReadUpTo(s, j, b, f, p),
         NEW n \in Nat, p + n <= Len(StreamOf[s])
  PROVE  SentMore(s, j, b, f, Append(f, SubSeq(StreamOf[s], p + 1, p + n)), p, n)
<1>0. PICK g : g = Append(f, SubSeq(StreamOf[s], p + 1, p + n))
  BY Zenon
<1>1. PICK a \in Seq(Byte) : a = Bytes(s, j)
  BY BytesType, Zenon
<1>2. PICK w \in Seq(Byte) : w = Joined(f, Len(f))
  BY JoinedFrames, Zenon
<1>3. PICK t \in Seq(Byte) : t = StreamOf[s]
  BY StreamIs, Zenon
<1>4. Cat(Cat(a, b), w) = SubSeq(t, 1, p) /\ p \in 0..Len(t) /\ p + n <= Len(t)
  BY <1>1, <1>2, <1>3, Zenon DEF ReadUpTo
<1>5. PICK x \in Seq(Byte) : x = SubSeq(t, p + 1, p + n) /\ Len(x) = n
  <2>1. SubSeq(t, p + 1, p + n) \in Seq(Byte) /\ Len(SubSeq(t, p + 1, p + n)) = n
    BY <1>4
  <2> QED
    BY <2>1, Zenon
<1>6. g = Append(f, x)
  BY <1>0, <1>3, <1>5, Zenon
<1>7. g \in Seq(Seq(Byte)) /\ Len(g) = Len(f) + 1 /\ Joined(g, Len(g)) = Cat(w, x)
  <2>1. /\ Append(f, x) \in Seq(Seq(Byte)) /\ Len(Append(f, x)) = Len(f) + 1
        /\ Joined(Append(f, x), Len(Append(f, x))) = Cat(Joined(f, Len(f)), x)
    BY JoinedAppend
  <2> QED
    BY <1>2, <1>6, <2>1, Zenon
<1>8. Cat(SubSeq(t, 1, p), x) = SubSeq(t, 1, p + n)
  <2>1. 1 \in 1..(Len(t) + 1) /\ p \in (1 - 1)..Len(t) /\ p + n \in p..Len(t)
    BY <1>4
  <2>2. SubSeq(t, 1, p) \o SubSeq(t, p + 1, p + n) = SubSeq(t, 1, p + n)
    BY <2>1, ConcatAdjacentSubSeq
  <2> QED
    BY <1>5, <2>2, Zenon DEF Cat
<1>9. PICK h \in Seq(Byte) : h = Cat(a, b)
  BY CatType
<1>10. Cat(Cat(h, w), x) = Cat(h, Cat(w, x))
  BY CatAssoc
<1>11. Cat(Cat(a, b), Cat(w, x)) = SubSeq(t, 1, p + n)
  BY <1>4, <1>8, <1>9, <1>10, Zenon
<1>12. ReadUpTo(s, j, b, g, p + n)
  BY <1>1, <1>3, <1>7, <1>11, Zenon DEF ReadUpTo
<1>13. Len(Cat(w, x)) = Len(w) + n
  BY <1>5, CatLen
<1>14. SentMore(s, j, b, f, g, p, n)
  BY <1>2, <1>7, <1>12, <1>13, Zenon DEF SentMore
<1> QED
  BY <1>0, <1>14, Zenon

\* The reader takes a frame: its buffer is then c, and the frames are g.
TakenOne(s, j, c, f, g, p) ==
  /\ g \in Seq(Seq(Byte)) /\ Len(g) = Len(f) - 1 /\ c \in Seq(Byte)
  /\ ReadUpTo(s, j, c, g, p) /\ Len(Head(f)) \in Nat
  /\ Len(Joined(f, Len(f))) = Len(Head(f)) + Len(Joined(g, Len(g)))

LEMMA ReadTakes ==
  ASSUME NEW s \in Script, NEW j \in 0..Len(s), NEW b \in Seq(Byte),
         NEW f \in Seq(Seq(Byte)), NEW p \in 0..Len(StreamOf[s]), ReadUpTo(s, j, b, f, p),
         f # <<>>
  PROVE  TakenOne(s, j, Cat(b, Head(f)), f, Tail(f), p)
<1>0. PICK g, c : g = Tail(f) /\ c = Cat(b, Head(f))
  BY Zenon
<1>1. PICK a \in Seq(Byte) : a = Bytes(s, j)
  BY BytesType, Zenon
<1>2. /\ g \in Seq(Seq(Byte)) /\ Head(f) \in Seq(Byte) /\ Len(g) = Len(f) - 1
      /\ Joined(f, Len(f)) = Cat(Head(f), Joined(g, Len(g)))
  BY <1>0, JoinedTail, Zenon
<1>3. PICK x \in Seq(Byte) : x = Head(f)
  BY <1>2, Zenon
<1>4. PICK w \in Seq(Byte) : w = Joined(g, Len(g))
  BY <1>2, JoinedFrames, Zenon
<1>5. Cat(Cat(a, b), Cat(x, w)) = SubSeq(StreamOf[s], 1, p)
  BY <1>1, <1>2, <1>3, <1>4, Zenon DEF ReadUpTo
<1>6. Cat(Cat(a, Cat(b, x)), w) = Cat(Cat(a, b), Cat(x, w))
  <2>1. PICK h \in Seq(Byte) : h = Cat(a, b)
    BY CatType
  <2>2. Cat(Cat(h, x), w) = Cat(h, Cat(x, w))
    BY CatAssoc
  <2>3. Cat(Cat(a, b), x) = Cat(a, Cat(b, x))
    BY CatAssoc
  <2> QED
    BY <2>1, <2>2, <2>3, Zenon
<1>7. Cat(b, x) \in Seq(Byte)
  BY CatType
<1>8. ReadUpTo(s, j, c, g, p)
  BY <1>0, <1>1, <1>3, <1>4, <1>5, <1>6, Zenon DEF ReadUpTo
<1>9. Len(Cat(x, w)) = Len(x) + Len(w) /\ Len(x) \in Nat
  BY CatLen
<1>10. TakenOne(s, j, c, f, g, p)
  BY <1>0, <1>2, <1>3, <1>4, <1>7, <1>8, <1>9, Zenon DEF TakenOne
<1> QED
  BY <1>0, <1>10, Zenon

\* The buffer starts like the next capsule.
LEMMA NextCapsule ==
  ASSUME NEW s \in Script, NEW j \in Nat, j < Len(s), NEW b \in Seq(Byte),
         NEW f \in Seq(Seq(Byte)), NEW p \in 0..Len(StreamOf[s]), ReadUpTo(s, j, b, f, p)
  PROVE  /\ Sound(s[j + 1]) /\ BytesOf(s[j + 1]) \in Seq(Byte)
         /\ \A i \in 1..Len(b) : i <= Len(BytesOf(s[j + 1])) => b[i] = BytesOf(s[j + 1])[i]
<1>1. Len(s) \in Nat /\ \A i \in 1..Len(s) : Sound(s[i])
  BY ScriptIs, Zenon
<1>2. /\ j \in 0..Len(s) /\ j + 1 \in 1..Len(s) /\ j + 1 \in 0..Len(s)
      /\ Len(s) \in 0..Len(s) /\ j + 1 \in 0..Len(s)
  BY <1>1
<1>3. Sound(s[j + 1])
  BY <1>1, <1>2, Zenon
<1>4. PICK m \in Seq(Byte) : m = BytesOf(s[j + 1])
  BY <1>3, CapsuleIs, Zenon
<1>5. PICK a \in Seq(Byte) : a = Bytes(s, j)
  BY <1>2, BytesType, Zenon
<1>6. PICK w \in Seq(Byte) : w = Joined(f, Len(f))
  BY JoinedFrames, Zenon
<1>7. PICK t \in Seq(Byte) : t = StreamOf[s]
  BY StreamIs, Zenon
<1>8. SubSeq(t, 1, p) = Cat(Cat(a, b), w) /\ p \in 0..Len(t)
  BY <1>5, <1>6, <1>7, Zenon DEF ReadUpTo
<1>9. PICK r \in Seq(Byte) : t = Cat(Cat(a, m), r)
  <2>1. t = Bytes(s, Len(s))
    BY <1>7, StreamIs, Zenon
  <2>2. PICK r \in Seq(Byte) : Bytes(s, Len(s)) = Cat(Bytes(s, j + 1), r)
    BY <1>2, BytesStart, Zenon
  <2>3. Bytes(s, j + 1) = Cat(a, m)
    BY <1>4, <1>5, BytesNext, Zenon
  <2> QED
    BY <2>1, <2>2, <2>3, Zenon
<1>10. Matches(b, m)
  BY <1>8, <1>9, SameStream
<1> QED
  BY <1>3, <1>4, <1>10, Zenon DEF Matches

\* parse_capsule finds nothing only if no capsule is complete, and the next
\* capsule otherwise.
LEMMA ParseNone ==
  ASSUME NEW s \in Script, NEW j \in 0..Len(s), NEW b \in Seq(Byte),
         NEW f \in Seq(Seq(Byte)), NEW p \in 0..Len(StreamOf[s]), ReadUpTo(s, j, b, f, p),
         parse_capsule(b).total = 0
  PROVE  Incomplete(s, j, b)
<1>1. Len(s) \in Nat /\ j \in Nat /\ Len(b) \in Nat
  BY ScriptIs
<1> SUFFICES ASSUME j # Len(s), ~(Len(b) < Len(BytesOf(s[j + 1]))) PROVE FALSE
  BY Zenon DEF Incomplete
<1>2. j < Len(s)
  BY <1>1
<1>3. PICK c : c = s[j + 1]
  BY Zenon
<1>4. /\ Sound(c) /\ BytesOf(c) \in Seq(Byte)
      /\ \A i \in 1..Len(b) : i <= Len(BytesOf(c)) => b[i] = BytesOf(c)[i]
  BY <1>1, <1>2, <1>3, NextCapsule, ZenonT(40)
<1>5. Len(BytesOf(c)) \in Nat /\ Len(BytesOf(c)) > 0
  BY <1>4, CapsuleLength
<1>6. Len(BytesOf(c)) <= Len(b)
  BY <1>1, <1>3, <1>5
<1>7. parse_capsule(b).total = Len(BytesOf(c))
  BY <1>4, <1>6, ParseWhole, Zenon
<1> QED
  BY <1>5, <1>7

LEMMA ParseSome ==
  ASSUME NEW s \in Script, NEW j \in 0..Len(s), NEW b \in Seq(Byte),
         NEW f \in Seq(Seq(Byte)), NEW p \in 0..Len(StreamOf[s]), ReadUpTo(s, j, b, f, p),
         parse_capsule(b).total # 0
  PROVE  /\ j \in Nat /\ j < Len(s) /\ Len(BytesOf(s[j + 1])) <= Len(b)
         /\ parse_capsule(b).ctype = s[j + 1].ctype
         /\ parse_capsule(b).voff = s[j + 1].tw + s[j + 1].lw
         /\ parse_capsule(b).total = Len(BytesOf(s[j + 1]))
<1>1. Len(s) \in Nat /\ j \in Nat /\ Len(b) \in Nat
  BY ScriptIs
<1>2. j # Len(s)
  <2> SUFFICES ASSUME j = Len(s) PROVE FALSE
    BY Zenon
  <2>1. PICK t \in Seq(Byte) : t = StreamOf[s] /\ t = Bytes(s, j)
    BY StreamIs, Zenon
  <2>2. p = Len(Bytes(s, j)) + Len(b) + Len(Joined(f, Len(f)))
    BY ReadLength, Zenon
  <2>3. Len(Joined(f, Len(f))) \in Nat
    BY JoinedFrames, Zenon
  <2>4. Len(t) \in Nat /\ p \in 0..Len(t)
    BY <2>1
  <2>5. Len(b) = 0
    BY <1>1, <2>1, <2>2, <2>3, <2>4
  <2>6. b = <<>>
    BY <2>5
  <2> QED
    BY <2>6, ParseNothing, Zenon
<1>3. j < Len(s)
  BY <1>1, <1>2
<1>4. PICK c : c = s[j + 1]
  BY Zenon
<1>5. /\ Sound(c) /\ BytesOf(c) \in Seq(Byte)
      /\ \A i \in 1..Len(b) : i <= Len(BytesOf(c)) => b[i] = BytesOf(c)[i]
  BY <1>1, <1>3, <1>4, NextCapsule, Zenon
<1>6. Len(BytesOf(c)) \in Nat
  BY <1>5, CapsuleLength
<1>7. ~(Len(b) < Len(BytesOf(c)))
  <2> SUFFICES ASSUME Len(b) < Len(BytesOf(c)) PROVE FALSE
    BY Zenon
  <2>1. \A i \in 1..Len(b) : i <= Len(BytesOf(c))
    BY <1>1, <1>6
  <2>2. \A i \in 1..Len(b) : b[i] = BytesOf(c)[i]
    BY <1>5, <2>1, Zenon
  <2> QED
    BY <1>5, <2>2, ParsePart, Zenon
<1>8. Len(BytesOf(c)) <= Len(b)
  BY <1>1, <1>6, <1>7
<1>9. /\ parse_capsule(b).ctype = c.ctype /\ parse_capsule(b).voff = c.tw + c.lw
      /\ parse_capsule(b).total = Len(BytesOf(c))
  BY <1>5, <1>8, ParseWhole, Zenon
<1> QED
  BY <1>1, <1>3, <1>4, <1>8, <1>9, Zenon

\* A parsed capsule: its value, and the buffer without it.
LEMMA ParseDrains ==
  ASSUME NEW s \in Script, NEW j \in Nat, j < Len(s), NEW b \in Seq(Byte),
         NEW f \in Seq(Seq(Byte)), NEW p \in 0..Len(StreamOf[s]), ReadUpTo(s, j, b, f, p),
         NEW c, c = s[j + 1], Len(BytesOf(c)) <= Len(b),
         NEW d, d = SubSeq(b, Len(BytesOf(c)) + 1, Len(b))
  PROVE  /\ d \in Seq(Byte) /\ ReadUpTo(s, j + 1, d, f, p)
         /\ SubSeq(b, c.tw + c.lw + 1, Len(BytesOf(c))) = c.value
<1>1. /\ Sound(c) /\ BytesOf(c) \in Seq(Byte)
      /\ \A i \in 1..Len(b) : i <= Len(BytesOf(c)) => b[i] = BytesOf(c)[i]
  BY NextCapsule, Zenon
<1>2. PICK m \in Seq(Byte) : m = BytesOf(c)
  BY <1>1, Zenon
<1>3. Len(m) \in 0..Len(b) /\ Len(m) <= Len(b) /\ \A i \in 1..Len(m) : b[i] = m[i]
  <2>1. Len(m) <= Len(b) /\ Len(m) \in Nat /\ Len(b) \in Nat
    BY <1>2
  <2>2. Len(m) \in 0..Len(b) /\ \A i \in 1..Len(m) : i \in 1..Len(b) /\ i <= Len(m)
    BY <2>1
  <2> QED
    BY <1>1, <1>2, <2>1, <2>2, Zenon
<1>4. PICK e \in Seq(Byte) : e = d /\ b = Cat(m, e)
  <2>1. SubSeq(b, Len(m) + 1, Len(b)) \in Seq(Byte)
    BY <1>3, RestOf
  <2>2. b = Cat(m, SubSeq(b, Len(m) + 1, Len(b)))
    BY <1>3, CutFront, Zenon
  <2> QED
    BY <1>2, <2>1, <2>2, Zenon
<1>5. PICK w \in Seq(Byte) : w = Joined(f, Len(f))
  BY JoinedFrames, Zenon
<1>6. PICK a \in Seq(Byte) : a = Bytes(s, j)
  <2>1. j \in 0..Len(s)
    BY ScriptIs
  <2> QED
    BY <2>1, BytesType, Zenon
<1>7. Bytes(s, j + 1) = Cat(a, m)
  BY <1>2, <1>6, BytesNext, Zenon
<1>8. Cat(Cat(a, m), e) = Cat(a, Cat(m, e))
  BY CatAssoc
<1>9. ReadUpTo(s, j + 1, d, f, p)
  BY <1>4, <1>5, <1>6, <1>7, <1>8, Zenon DEF ReadUpTo
<1>10. PICK h \in Nat, v \in Seq(Byte) : h = c.tw + c.lw /\ v = c.value
  BY <1>1, CapsuleIs, CapsuleLength, Zenon
<1>11. Len(m) = h + Len(v) /\ \A i \in 1..Len(v) : m[h + i] = v[i]
  <2>1. /\ Len(BytesOf(c)) = c.tw + c.lw + Len(c.value)
        /\ \A i \in 1..Len(c.value) : BytesOf(c)[c.tw + c.lw + i] = c.value[i]
    BY <1>1, CapsuleIs, Zenon
  <2> QED
    BY <1>2, <1>10, <2>1, Zenon
<1>12. SubSeq(b, h + 1, Len(m)) = v
  <2>1. PICK x \in Seq(Byte) :
          /\ x = SubSeq(b, h + 1, Len(m)) /\ Len(x) = Len(v)
          /\ \A i \in 1..Len(v) : x[i] = b[h + i]
    <3>1. /\ SubSeq(b, h + 1, Len(m)) \in Seq(Byte)
          /\ Len(SubSeq(b, h + 1, Len(m))) = Len(v)
          /\ \A i \in 1..Len(v) : SubSeq(b, h + 1, Len(m))[i] = b[h + i]
      <4>1. PICK n \in Nat : n = Len(v)
        OBVIOUS
      <4>2. h + n <= Len(b)
        <5>1. h + n = Len(m)
          BY <1>11, <4>1, Zenon
        <5> QED
          BY <1>3, <5>1, Zenon
      <4>3. /\ SubSeq(b, h + 1, h + n) \in Seq(Byte)
            /\ Len(SubSeq(b, h + 1, h + n)) = n
            /\ \A i \in 1..n : SubSeq(b, h + 1, h + n)[i] = b[h + i]
        BY <4>2, PartOf, SMTT(30)
      <4> QED
        BY <1>11, <4>1, <4>3, Zenon
    <3> QED
      BY <3>1, Zenon
  <2>2. \A i \in 1..Len(v) : h + i \in 1..Len(m)
    <3>1. PICK n \in Nat, k \in Nat : n = Len(v) /\ k = Len(m) /\ k = h + n
      BY <1>11
    <3>2. \A i \in 1..n : h + i \in 1..k
      BY <3>1
    <3> QED
      BY <3>1, <3>2, Zenon
  <2>3. \A i \in 1..Len(x) : x[i] = v[i]
    BY <1>3, <1>11, <2>1, <2>2, Zenon
  <2>4. x = v
    BY <2>1, <2>3, SeqEqual
  <2> QED
    BY <2>1, <2>4, Zenon
<1> QED
  BY <1>2, <1>4, <1>9, <1>10, <1>12, Zenon

-----------------------------------------------------------------------------
(* The reader.                                                             *)

\* The loops run only after the response.
TaskInv == setup \in Connecting => reader = "none" /\ writer = "none"

LEMMA TaskKept == ASSUME LifeInv, TaskInv, [Next]_vars PROVE TaskInv'
<1>1. setup' \in Connecting => setup \in Connecting /\ ~Responded
  BY StepsOfLife DEF LifeInv, LifeStep, lifeVars, Dialled, Built, Requested, Responded,
     ConnectFails, Breaks, Spawn, SpawnFor, FeederStops, UsersLeave, ActorEnd, DropTunnel,
     Closing, Connecting
<1>2. CASE setup' \in Connecting
  <2>1. reader = "none" /\ writer = "none"
    BY <1>1, <1>2 DEF TaskInv
  <2>2. reader' = reader /\ writer' = writer
    BY <1>1, <1>2, <2>1, StepsOfH2 DEF H2Step, H2Responded, h2Vars, inVars, outVars, ReaderData,
       ReaderParse, ReaderEnd, WriterTake, WriterSend, WriterEnd, H2Recv, PeerSends,
       PeerGrants, PeerEnds, H2SendIp
  <2> QED
    BY <2>1, <2>2 DEF TaskInv
<1> QED
  BY <1>2 DEF TaskInv

RxType ==
  /\ script \in Script /\ pos \in 0..Len(StreamOf[script])
  /\ frames \in Seq(Seq(Byte)) /\ buf \in Seq(Byte)
  /\ inq \in Seq(Seq(Byte)) /\ got \in Seq(Seq(Byte))
  /\ reader \in {"none", "recv", "parse", "ended"} /\ stream \in {"open", "ended", "reset"}

\* What waits was taken off the window.
WindowInv ==
  /\ Len(frames) \in 0..MaxFrames /\ window \in 0..RecvWindow
  /\ window + Waiting = RecvWindow

\* The reader is through with j capsules.
RxAt(j) ==
  /\ ReadUpTo(script, j, buf, frames, pos)
  /\ Cat(got, inq) = Values(script, j)
  /\ reader \in {"none", "recv"} => Incomplete(script, j, buf)

RxInv == RxType /\ WindowInv /\ \E j \in 0..Len(script) : RxAt(j)

LEMMA RxInit == ASSUME Init PROVE RxInv /\ TaskInv
<1>1. PICK l \in Load : H2Init(l.script, l.out) /\ l.script \in Script
  BY TunnelAssumption DEF Init
<1>2. /\ script \in Script /\ pos = 0 /\ frames = <<>> /\ buf = <<>> /\ inq = <<>>
      /\ got = <<>> /\ reader = "none" /\ writer = "none" /\ stream = "open"
      /\ window = RecvWindow
  BY <1>1 DEF H2Init
<1>3. PICK s \in Script : s = script
  BY <1>2
<1>4. PICK t \in Seq(Byte) : t = StreamOf[s]
  BY StreamIs, Zenon
<1>5. Len(t) \in Nat /\ 0 \in 0..Len(t) /\ SubSeq(t, 1, 0) = <<>>
  OBVIOUS
<1>6. Len(s) \in Nat /\ \A i \in 1..Len(s) : Sound(s[i])
  BY ScriptIs, Zenon
<1>7. RxType
  BY <1>2, <1>3, <1>4, <1>5 DEF RxType
<1>8. Joined(<<>>, 0) = <<>> /\ Len(<<>>) = 0
  BY JoinedNone
<1>9. WindowInv
  <2>1. Waiting = 0
    BY <1>2, <1>8, Zenon DEF Waiting
  <2> QED
    BY <1>2, <1>8, <2>1, H2Assumption DEF WindowInv
<1>10. RxAt(0)
  <2>1. ReadUpTo(s, 0, <<>>, <<>>, 0)
    <3>1. Bytes(s, 0) = <<>>
      BY BytesNone, Zenon
    <3>2. Cat(<<>>, <<>>) = <<>>
      BY DEF Cat
    <3> QED
      BY <1>4, <1>5, <1>8, <3>1, <3>2, Zenon DEF ReadUpTo
  <2>2. Values(s, 0) = <<>>
    BY JoinedNone, Zenon DEF Values
  <2>3. Cat(<<>>, <<>>) = <<>>
    BY DEF Cat
  <2>4. Incomplete(s, 0, <<>>)
    <3>1. CASE Len(s) = 0
      BY <3>1 DEF Incomplete
    <3>2. CASE Len(s) # 0
      <4>1. 0 + 1 \in 1..Len(s)
        BY <1>6, <3>2
      <4>2. Len(BytesOf(s[0 + 1])) > 0
        BY <1>6, <4>1, CapsuleLength
      <4> QED
        BY <1>8, <4>2 DEF Incomplete
    <3> QED
      BY <3>1, <3>2
  <2> QED
    BY <1>2, <1>3, <2>1, <2>2, <2>3, <2>4, Zenon DEF RxAt
<1>11. 0 \in 0..Len(script)
  BY <1>3, <1>6
<1> QED
  BY <1>2, <1>7, <1>9, <1>10, <1>11, Zenon DEF RxInv, TaskInv

LEMMA RxSends ==
  ASSUME RxInv, NEW n \in FrameSizes, PeerSends(n)
  PROVE  RxInv'
<1>1. /\ script \in Script /\ pos \in 0..Len(StreamOf[script]) /\ n \in Nat
      /\ frames \in Seq(Seq(Byte)) /\ buf \in Seq(Byte)
  BY H2Assumption DEF RxInv, RxType
<1>2. /\ Len(frames) < MaxFrames /\ n <= window /\ pos + n <= Len(StreamOf[script])
      /\ frames' = Append(frames, SubSeq(StreamOf[script], pos + 1, pos + n))
      /\ pos' = pos + n /\ window' = window - n
      /\ script' = script /\ stream' = stream /\ reader' = reader /\ buf' = buf
      /\ inq' = inq /\ got' = got
  BY DEF PeerSends, Stream
<1>3. PICK j \in 0..Len(script) : RxAt(j)
  BY DEF RxInv
<1>4. /\ frames' \in Seq(Seq(Byte)) /\ Len(frames') = Len(frames) + 1
      /\ ReadUpTo(script, j, buf, frames', pos + n)
      /\ Len(Joined(frames', Len(frames'))) = Len(Joined(frames, Len(frames))) + n
  <2>1. ReadUpTo(script, j, buf, frames, pos)
    BY <1>3 DEF RxAt
  <2>2. SentMore(script, j, buf, frames,
                 Append(frames, SubSeq(StreamOf[script], pos + 1, pos + n)), pos, n)
    BY <1>1, <1>2, <2>1, ReadSends, Zenon
  <2>3. SentMore(script, j, buf, frames, frames', pos, n)
    BY <1>2, <2>2, Zenon
  <2> QED
    BY <2>3 DEF SentMore
<1>5. Len(StreamOf[script]) \in Nat
  BY <1>1, StreamIs, Zenon
<1>6. RxType'
  BY <1>1, <1>2, <1>4, <1>5, SMTT(30) DEF RxInv, RxType
<1>7. WindowInv'
  <2>1. Waiting' = Waiting + n
    BY <1>4, Zenon DEF Waiting
  <2>2. Waiting \in Nat
    BY <1>1, JoinedFrames, Zenon DEF Waiting
  <2>3. window \in 0..RecvWindow /\ window + Waiting = RecvWindow /\ Len(frames) \in 0..MaxFrames
    BY DEF RxInv, WindowInv
  <2>4. window' \in 0..RecvWindow /\ window' + Waiting' = RecvWindow
    <3>1. PICK w \in Nat, r \in Nat : w = Waiting /\ r = RecvWindow
      BY <2>2, H2Assumption, Zenon
    <3>2. /\ window' = window - n /\ n \in Nat /\ n <= window
          /\ window \in 0..r /\ window + w = r
      BY <1>1, <1>2, <2>3, <3>1, Zenon
    <3>3. window - n \in 0..r /\ (window - n) + (w + n) = r
      BY <3>1, <3>2
    <3> QED
      BY <2>1, <3>1, <3>2, <3>3, Zenon
  <2>5. Len(frames') \in 0..MaxFrames
    <3>1. PICK k \in Nat, l \in Nat : k = MaxFrames /\ l = Len(frames)
      <4>1. Len(frames) \in Nat
        BY <1>1
      <4> QED
        BY <4>1, H2Assumption, Zenon
    <3>2. l < k => l + 1 \in 0..k
      OBVIOUS
    <3> QED
      BY <1>2, <1>4, <3>1, <3>2, Zenon
  <2> QED
    BY <2>4, <2>5, Zenon DEF WindowInv
<1>8. RxAt(j)'
  BY <1>2, <1>3, <1>4, Zenon DEF RxAt
<1> QED
  BY <1>2, <1>6, <1>7, <1>8, Zenon DEF RxInv

LEMMA RxData == ASSUME RxInv, ReaderData PROVE RxInv'
<1>1. /\ script \in Script /\ pos \in 0..Len(StreamOf[script])
      /\ frames \in Seq(Seq(Byte)) /\ buf \in Seq(Byte)
  BY DEF RxInv, RxType
<1>2. /\ frames # <<>> /\ buf' = Cat(buf, Head(frames)) /\ frames' = Tail(frames)
      /\ window' = window + Len(Head(frames)) /\ reader' = "parse"
      /\ script' = script /\ stream' = stream /\ pos' = pos /\ inq' = inq /\ got' = got
  BY DEF ReaderData, Returned, Cat
<1>3. PICK j \in 0..Len(script) : RxAt(j)
  BY DEF RxInv
<1>4. /\ frames' \in Seq(Seq(Byte)) /\ Len(frames') = Len(frames) - 1 /\ buf' \in Seq(Byte)
      /\ ReadUpTo(script, j, buf', frames', pos) /\ Len(Head(frames)) \in Nat
      /\ Len(Joined(frames, Len(frames)))
           = Len(Head(frames)) + Len(Joined(frames', Len(frames')))
  <2>1. ReadUpTo(script, j, buf, frames, pos)
    BY <1>3 DEF RxAt
  <2>2. TakenOne(script, j, Cat(buf, Head(frames)), frames, Tail(frames), pos)
    BY <1>1, <1>2, <2>1, ReadTakes, Zenon
  <2>3. TakenOne(script, j, buf', frames, frames', pos)
    BY <1>2, <2>2, Zenon
  <2> QED
    BY <2>3 DEF TakenOne
<1>5. RxType'
  BY <1>1, <1>2, <1>4, Zenon DEF RxInv, RxType
<1>6. WindowInv'
  <2>1. Waiting = Len(Head(frames)) + Waiting'
    BY <1>4, Zenon DEF Waiting
  <2>2. Waiting' \in Nat /\ Len(frames') \in Nat
    <3>1. Len(Joined(frames', Len(frames'))) \in Nat
      BY <1>4, JoinedFrames, Zenon
    <3>2. Len(frames') \in Nat
      BY <1>4
    <3> QED
      BY <3>1, <3>2, Zenon DEF Waiting
  <2>3. window \in 0..RecvWindow /\ window + Waiting = RecvWindow /\ Len(frames) \in 0..MaxFrames
    BY DEF RxInv, WindowInv
  <2>4. window' \in 0..RecvWindow /\ window' + Waiting' = RecvWindow
    <3>1. PICK h \in Nat, w \in Nat : h = Len(Head(frames)) /\ w = Waiting'
      BY <1>4, <2>2, Zenon
    <3>2. window' = window + h /\ window \in 0..RecvWindow /\ window + (h + w) = RecvWindow
      BY <1>2, <2>1, <2>3, <3>1, Zenon
    <3>3. RecvWindow \in Nat
      BY H2Assumption, Zenon
    <3>4. window + h \in 0..RecvWindow /\ (window + h) + w = RecvWindow
      BY <3>2, <3>3
    <3> QED
      BY <3>1, <3>2, <3>4, Zenon
  <2>5. Len(frames') \in 0..MaxFrames
    BY <1>4, <2>2, <2>3, H2Assumption
  <2> QED
    BY <2>4, <2>5, Zenon DEF WindowInv
<1>7. RxAt(j)'
  BY <1>2, <1>3, <1>4 DEF RxAt
<1> QED
  BY <1>2, <1>5, <1>6, <1>7, Zenon DEF RxInv

\* One round of the inner loop.
LEMMA RxParse == ASSUME RxInv, ReaderParse PROVE RxInv'
<1>1. /\ script \in Script /\ pos \in 0..Len(StreamOf[script])
      /\ frames \in Seq(Seq(Byte)) /\ buf \in Seq(Byte)
      /\ inq \in Seq(Seq(Byte)) /\ got \in Seq(Seq(Byte))
  BY DEF RxInv, RxType
<1>2. PICK j \in 0..Len(script) : RxAt(j)
  BY DEF RxInv
<1>3. ReadUpTo(script, j, buf, frames, pos) /\ Cat(got, inq) = Values(script, j)
  BY <1>2 DEF RxAt
<1>4. /\ script' = script /\ pos' = pos /\ stream' = stream /\ frames' = frames
      /\ window' = window /\ got' = got /\ reader = "parse"
  BY DEF ReaderParse
<1>5. WindowInv'
  BY <1>4 DEF RxInv, WindowInv, Waiting
<1>6. CASE parse_capsule(buf).total = 0
  <2>1. ~(parse_capsule(buf).total > 0)
    BY <1>6
  <2>11. buf' = buf /\ inq' = inq /\ reader' = "recv"
    BY <2>1, Zenon DEF ReaderParse
  <2>2. Incomplete(script, j, buf)
    BY <1>1, <1>3, <1>6, ParseNone, Zenon
  <2>3. RxAt(j)'
    BY <1>3, <1>4, <2>11, <2>2, Zenon DEF RxAt
  <2>4. RxType'
    BY <1>1, <1>4, <2>11, Zenon DEF RxInv, RxType
  <2> QED
    BY <1>4, <1>5, <2>3, <2>4, Zenon DEF RxInv
<1>7. CASE parse_capsule(buf).total # 0
  <2>1. PICK c : c = script[j + 1]
    BY Zenon
  <2>2. /\ j \in Nat /\ j < Len(script) /\ Len(BytesOf(c)) <= Len(buf)
        /\ parse_capsule(buf).ctype = c.ctype /\ parse_capsule(buf).voff = c.tw + c.lw
        /\ parse_capsule(buf).total = Len(BytesOf(c))
    BY <1>1, <1>3, <1>7, <2>1, ParseSome, Zenon
  <2>3. PICK d : d = SubSeq(buf, Len(BytesOf(c)) + 1, Len(buf))
    BY Zenon
  <2>4. /\ d \in Seq(Byte) /\ ReadUpTo(script, j + 1, d, frames, pos)
        /\ SubSeq(buf, c.tw + c.lw + 1, Len(BytesOf(c))) = c.value
    BY <1>1, <1>3, <2>1, <2>2, <2>3, ParseDrains, ZenonT(40)
  <2>5. /\ Sound(c) /\ c.value \in Seq(Byte)
    BY <1>1, <1>3, <2>1, <2>2, NextCapsule, CapsuleIs, Zenon
  <2>6. Values(script, j + 1)
          = Cat(Values(script, j), IF c.ctype = CAPSULE_DATAGRAM THEN <<c.value>> ELSE <<>>)
    BY <1>1, <2>1, <2>2, ValuesNext, Zenon
  <2>7. j + 1 \in 0..Len(script)
    BY <1>1, <2>2, ScriptIs
  <2>8. CASE c.ctype # CAPSULE_DATAGRAM
    <3>1. buf' = d /\ inq' = inq /\ reader' = reader
      BY <1>7, <2>2, <2>3, <2>8, Zenon DEF ReaderParse, Drained
    <3>2. PICK v \in Seq(Seq(Byte)) : v = Values(script, j)
      BY <1>1, ValuesType, Zenon
    <3>3. Cat(v, <<>>) = v
      BY CatEmpty, Zenon
    <3>4. Cat(got, inq) = Values(script, j + 1)
      BY <1>3, <2>6, <2>8, <3>2, <3>3, Zenon
    <3>5. RxAt(j + 1)'
      BY <1>4, <2>4, <3>1, <3>4 DEF RxAt
    <3>6. RxType'
      BY <1>1, <1>4, <2>4, <3>1, Zenon DEF RxInv, RxType
    <3> QED
      BY <1>4, <1>5, <2>7, <3>5, <3>6, Zenon DEF RxInv
  <2>9. CASE c.ctype = CAPSULE_DATAGRAM /\ ~IoHeld
    <3>1. buf' = buf /\ inq' = inq /\ reader' = "ended"
      BY <1>7, <2>2, <2>9, Zenon DEF ReaderParse
    <3>2. RxAt(j)'
      BY <1>3, <1>4, <3>1 DEF RxAt
    <3>3. RxType'
      BY <1>1, <1>4, <3>1, Zenon DEF RxInv, RxType
    <3> QED
      BY <1>4, <1>5, <3>2, <3>3, Zenon DEF RxInv
  <2>10. CASE c.ctype = CAPSULE_DATAGRAM /\ IoHeld
    <3>1. buf' = d /\ inq' = Append(inq, c.value) /\ reader' = reader
      BY <1>7, <2>2, <2>3, <2>4, <2>10, Zenon DEF ReaderParse, Drained
    <3>2. PICK v \in Seq(Byte) : v = c.value
      BY <2>5, Zenon
    <3>3. Cat(got, Append(inq, v)) = Append(Cat(got, inq), v)
      BY <1>1, CatAppend
    <3>4. \A x \in Seq(Seq(Byte)) : Append(x, v) = Cat(x, <<v>>)
      BY DEF Cat
    <3>5. Values(script, j) \in Seq(Seq(Byte))
      BY <1>1, ValuesType, Zenon
    <3>6. Cat(got, Append(inq, v)) = Values(script, j + 1)
      BY <1>3, <2>6, <2>10, <3>2, <3>3, <3>4, <3>5, Zenon
    <3>7. RxAt(j + 1)'
      BY <1>4, <2>4, <3>1, <3>2, <3>6 DEF RxAt
    <3>8. inq' \in Seq(Seq(Byte))
      BY <1>1, <3>1, <3>2
    <3>9. RxType'
      BY <1>1, <1>4, <2>4, <3>1, <3>8, Zenon DEF RxInv, RxType
    <3> QED
      BY <1>4, <1>5, <2>7, <3>7, <3>9, Zenon DEF RxInv
  <2> QED
    BY <2>8, <2>9, <2>10
<1> QED
  BY <1>6, <1>7

\* The steps that move nothing of the endpoint's stream.
RxSame == /\ script' = script /\ pos' = pos /\ frames' = frames /\ window' = window
          /\ buf' = buf /\ inq' = inq /\ got' = got

LEMMA RxStays ==
  ASSUME RxInv, RxSame, stream' \in {"open", "ended", "reset"},
         \/ reader' = reader \/ reader' = "ended"
         \/ reader = "none" /\ reader' = "recv"
  PROVE  RxInv'
<1>1. PICK j \in 0..Len(script) : RxAt(j)
  BY DEF RxInv
<1>2. RxAt(j)'
  BY <1>1 DEF RxSame, RxAt
<1>3. WindowInv'
  BY DEF RxInv, RxSame, WindowInv, Waiting
<1>4. RxType'
  BY DEF RxInv, RxSame, RxType
<1>5. j \in 0..Len(script')
  BY <1>1 DEF RxSame
<1> QED
  BY <1>2, <1>3, <1>4, <1>5, Zenon DEF RxInv

\* The feeder takes a packet.
LEMMA RxTaken == ASSUME RxInv, H2Recv PROVE RxInv'
<1>1. /\ inq \in Seq(Seq(Byte)) /\ got \in Seq(Seq(Byte)) /\ inq # <<>>
      /\ got' = Append(got, Head(inq)) /\ inq' = Tail(inq)
      /\ script' = script /\ pos' = pos /\ frames' = frames /\ window' = window
      /\ buf' = buf /\ reader' = reader /\ stream' = stream
  BY DEF RxInv, RxType, H2Recv
<1>2. PICK j \in 0..Len(script) : RxAt(j)
  BY DEF RxInv
<1>3. Append(got, Head(inq)) \in Seq(Seq(Byte)) /\ Tail(inq) \in Seq(Seq(Byte))
  BY <1>1, MoveOneType
<1>4. Cat(Append(got, Head(inq)), Tail(inq)) = Cat(got, inq)
  BY <1>1, MoveOne
<1>5. Cat(got', inq') = Cat(got, inq)
  BY <1>1, <1>4, Zenon
<1>6. RxAt(j)'
  BY <1>1, <1>2, <1>5, Zenon DEF RxAt
<1>7. WindowInv'
  BY <1>1 DEF RxInv, WindowInv, Waiting
<1>8. RxType'
  BY <1>1, <1>3 DEF RxInv, RxType
<1> QED
  BY <1>1, <1>2, <1>6, <1>7, <1>8, Zenon DEF RxInv

LEMMA RxKept == ASSUME TaskInv, RxInv, [Next]_vars PROVE RxInv'
<1>0. stream \in {"open", "ended", "reset"}
  BY DEF RxInv, RxType
<1>1. CASE UNCHANGED inVars
  BY <1>0, <1>1, RxStays DEF inVars, RxSame
<1>2. CASE H2Responded
  <2>1. reader = "none"
    BY <1>2 DEF H2Responded, Responded, TaskInv, Connecting
  <2> QED
    BY <1>0, <1>2, <2>1, RxStays DEF H2Responded, RxSame
<1>3. CASE ReaderEnd
  BY <1>0, <1>3, RxStays DEF ReaderEnd, RxSame
<1>4. CASE \E how \in {"ended", "reset"} : PeerEnds(how)
  BY <1>4, RxStays DEF PeerEnds, RxSame
<1>5. CASE ReaderData \/ ReaderParse \/ H2Recv \/ \E n \in FrameSizes : PeerSends(n)
  BY <1>5, RxData, RxParse, RxTaken, RxSends
<1>6. CASE WriterTake \/ WriterSend \/ WriterEnd \/ (\E n \in Credits : PeerGrants(n))
             \/ (\E p \in Packet : H2SendIp(p))
  BY <1>1, <1>6 DEF WriterTake, WriterSend, WriterEnd, PeerGrants, H2SendIp
<1> QED
  BY <1>1, <1>2, <1>3, <1>4, <1>5, <1>6, StepsOfH2 DEF H2Step, h2Vars

\* How far the capsules of s reach: those that end within the bytes of the
\* first j and the incomplete next are the first j.
LEMMA EndsUpTo ==
  ASSUME NEW s \in Script, NEW j \in 0..Len(s), NEW b \in Seq(Byte), Incomplete(s, j, b),
         NEW n, n = Len(Bytes(s, j)) + Len(b)
  PROVE  {i \in DOMAIN s : EndsOf[s][i] <= n} = 1..j
<1>1. Len(s) \in Nat /\ DOMAIN s = 1..Len(s) /\ \A i \in 1..Len(s) : Sound(s[i])
  BY ScriptIs, Zenon
<1>2. \A i \in 1..Len(s) : EndsOf[s][i] = Len(Bytes(s, i))
  BY <1>1, Zenon DEF EndsOf
<1>3. PICK a \in Seq(Byte) : a = Bytes(s, j)
  BY BytesType, Zenon
<1>4. Len(a) \in Nat /\ Len(b) \in Nat /\ n = Len(a) + Len(b) /\ j \in Nat
  BY <1>1, <1>3
<1>5. ASSUME NEW i \in 1..j PROVE i \in 1..Len(s) /\ Len(Bytes(s, i)) <= n
  <2>1. i \in 0..j /\ i \in 0..Len(s) /\ i \in 1..Len(s)
    BY <1>1, <1>4
  <2>2. PICK c \in Seq(Byte) : c = Bytes(s, i)
    BY <2>1, BytesType, Zenon
  <2>3. PICK r \in Seq(Byte) : a = Cat(c, r)
    BY <1>3, <2>1, <2>2, BytesStart, Zenon
  <2>4. Len(a) = Len(c) + Len(r) /\ Len(c) \in Nat /\ Len(r) \in Nat
    <3>1. Len(Cat(c, r)) = Len(c) + Len(r)
      BY CatLen, Zenon
    <3>2. Len(c) \in Nat /\ Len(r) \in Nat
      OBVIOUS
    <3> QED
      BY <2>3, <3>1, <3>2, Zenon
  <2> QED
    BY <1>4, <2>1, <2>2, <2>4
<1>6. ASSUME NEW i \in 1..Len(s), Len(Bytes(s, i)) <= n PROVE i \in 1..j
  <2> SUFFICES ASSUME ~(i <= j) PROVE FALSE
    BY <1>1, <1>4
  <2>0. Len(s) \in Nat
    BY <1>1
  <2>1. /\ j + 1 \in 0..i /\ i \in 0..Len(s) /\ j < Len(s) /\ j # Len(s)
        /\ j + 1 \in 1..Len(s) /\ j + 1 \in 0..Len(s)
    BY <1>4, <2>0
  <2>2. PICK m \in Seq(Byte) : m = BytesOf(s[j + 1])
    BY <1>1, <2>1, CapsuleIs, Zenon
  <2>3. Len(b) < Len(m)
    BY <2>1, <2>2, Zenon DEF Incomplete
  <2>4. PICK c \in Seq(Byte) : c = Bytes(s, j + 1)
    BY <2>1, BytesType, Zenon
  <2>5. c = Cat(a, m)
    BY <1>3, <1>4, <2>1, <2>2, <2>4, BytesNext, Zenon
  <2>6. Len(c) = Len(a) + Len(m)
    BY <2>5, CatLen
  <2>7. PICK e \in Seq(Byte) : e = Bytes(s, i)
    BY <2>1, BytesType, Zenon
  <2>8. PICK r \in Seq(Byte) : e = Cat(c, r)
    BY <2>1, <2>4, <2>7, BytesStart, Zenon
  <2>9. Len(e) = Len(c) + Len(r) /\ Len(c) \in Nat /\ Len(r) \in Nat /\ Len(m) \in Nat
    <3>1. Len(Cat(c, r)) = Len(c) + Len(r)
      BY CatLen, Zenon
    <3>2. Len(c) \in Nat /\ Len(r) \in Nat
      OBVIOUS
    <3> QED
      BY <2>8, <3>1, <3>2
  <2>10. Len(e) <= n
    BY <1>6, <2>7, Zenon
  <2> QED
    BY <1>4, <2>3, <2>6, <2>9, <2>10
<1> QED
  BY <1>1, <1>2, <1>5, <1>6, Zenon

LEMMA ReassembledNow == ASSUME RxInv PROVE Reassembled
<1> SUFFICES ASSUME reader = "recv" PROVE got \o inq = Datagrams(pos - Waiting)
  BY DEF Reassembled
<1>1. /\ script \in Script /\ pos \in 0..Len(StreamOf[script])
      /\ frames \in Seq(Seq(Byte)) /\ buf \in Seq(Byte)
  BY DEF RxInv, RxType
<1>2. PICK j \in 0..Len(script) : RxAt(j)
  BY DEF RxInv
<1>3. ReadUpTo(script, j, buf, frames, pos) /\ Incomplete(script, j, buf)
  BY <1>2 DEF RxAt
<1>4. pos = Len(Bytes(script, j)) + Len(buf) + Waiting
  BY <1>1, <1>3, ReadLength, Zenon DEF Waiting
<1>5. Len(Bytes(script, j)) \in Nat /\ Len(buf) \in Nat /\ Waiting \in Nat /\ pos \in Nat
  <2>1. Bytes(script, j) \in Seq(Byte)
    BY <1>1, BytesType, Zenon
  <2>2. Waiting \in Nat
    BY <1>1, JoinedFrames, Zenon DEF Waiting
  <2>3. Len(StreamOf[script]) \in Nat
    BY <1>1, StreamIs, Zenon
  <2>4. Len(Bytes(script, j)) \in Nat /\ Len(buf) \in Nat
    BY <1>1, <2>1
  <2> QED
    BY <1>1, <2>2, <2>3, <2>4
<1>6. pos - Waiting = Len(Bytes(script, j)) + Len(buf)
  BY <1>4, <1>5
<1>7. {i \in DOMAIN script : EndsOf[script][i] <= pos - Waiting} = 1..j
  BY <1>1, <1>3, <1>6, EndsUpTo, Zenon
<1>8. j \in Nat
  BY <1>1, ScriptIs
<1>9. Cardinality(1..j) = j
  <2>1. Cardinality(1..j) = IF 1 > j THEN 0 ELSE j - 1 + 1
    BY <1>8, FS_Interval
  <2> QED
    BY <1>8, <2>1
<1>10. Datagrams(pos - Waiting) = Values(script, j)
  BY <1>7, <1>9, Zenon DEF Datagrams
<1> QED
  BY <1>2, <1>10, Zenon DEF RxAt, Cat

\* reader_loop: whatever the endpoint sends, however it is cut into frames,
\* between two rounds the feeder has got exactly the packets of the datagrams
\* that lie wholly in the bytes read.
THEOREM StreamIsReassembled == Spec => []Reassembled
<1> DEFINE Inv == LifeInv /\ H3Inv /\ TaskInv /\ RxInv
<1>1. Init => Inv
  BY LifeInit1, RxInit
<1>2. Inv /\ [Next]_vars => Inv'
  BY LifeKept, H3Kept, TaskKept, RxKept
<1>3. Inv => Reassembled
  BY ReassembledNow
<1> QED
  BY <1>1, <1>2, <1>3, PTL DEF Spec

-----------------------------------------------------------------------------
(* The writer.                                                             *)

\* encode_datagram_capsule writes RFC 9297's header.
LEMMA EncodeIs ==
  ASSUME NEW p \in Packet
  PROVE  /\ p \in Seq(Byte) /\ encode_datagram_capsule(p) = RfcHeader(Len(p)) \o p
         /\ encode_datagram_capsule(p) \in Seq(Byte)
         /\ Len(encode_datagram_capsule(p)) \in Nat
<1>1. p \in Seq(Byte) /\ Len(p) \in Nat /\ Len(p) < 2^14
  <2>1. p \in Seq(Byte) /\ Len(p) < 2^14
    BY H2Assumption, Zenon
  <2>2. Len(p) \in Nat
    BY <2>1
  <2> QED
    BY <2>1, <2>2, Zenon
<1>2. PICK n \in Nat : n = Len(p) /\ n < 2^14
  BY <1>1, Zenon
<1>3. encode_varint(0) = <<0>> /\ <<0>> \in Seq(Byte)
  <2>1. encode_varint(0) = InBytes(0, 1)
    BY Powers DEF encode_varint, varint_len
  <2>2. Holds(1, 0)
    BY Powers DEF Holds
  <2>3. InBytes(0, 1) \in Seq(Byte) /\ Len(InBytes(0, 1)) = 1
    BY <2>2, FieldType
  <2>4. InBytes(0, 1)[1] = Tag(1) + ByteOf(0, 0)
    BY DEF InBytes
  <2>5. ByteOf(0, 0) = 0
    BY Powers DEF ByteOf
  <2>6. InBytes(0, 1)[1] = 0
    BY <2>4, <2>5 DEF Tag
  <2>7. <<0>> \in Seq(Byte) /\ Len(<<0>>) = 1 /\ <<0>>[1] = 0
    BY DEF Byte
  <2> QED
    BY <2>1, <2>3, <2>6, <2>7, SeqEqual
<1>4. PICK h \in Seq(Byte) :
        h = encode_varint(n) /\ h = IF n < 64 THEN <<n>> ELSE <<64 + (n \div 256), n % 256>>
  <2>1. CASE n < 64
    <3>1. encode_varint(n) = InBytes(n, 1) /\ Holds(1, n)
      BY <2>1, Powers, SMT DEF encode_varint, varint_len, Holds
    <3>2. InBytes(n, 1) \in Seq(Byte) /\ Len(InBytes(n, 1)) = 1
      BY <3>1, FieldType
    <3>3. InBytes(n, 1)[1] = Tag(1) + ByteOf(n, 0)
      BY DEF InBytes
    <3>4. ByteOf(n, 0) = n
      BY <2>1, Powers, SMT DEF ByteOf
    <3>5. InBytes(n, 1)[1] = n
      BY <3>3, <3>4 DEF Tag
    <3>6. <<n>> \in Seq(Byte) /\ Len(<<n>>) = 1 /\ <<n>>[1] = n
      BY <2>1 DEF Byte
    <3>7. InBytes(n, 1) = <<n>>
      BY <3>2, <3>5, <3>6, SeqEqual
    <3> QED
      BY <2>1, <3>1, <3>6, <3>7, Zenon
  <2>2. CASE ~(n < 64)
    <3>1. encode_varint(n) = InBytes(n, 2) /\ Holds(2, n)
      BY <1>2, <2>2, Powers, SMT DEF encode_varint, varint_len, Holds
    <3>2. InBytes(n, 2) \in Seq(Byte) /\ Len(InBytes(n, 2)) = 2
      BY <3>1, FieldType
    <3>3. InBytes(n, 2)[1] = Tag(2) + ByteOf(n, 1) /\ InBytes(n, 2)[2] = ByteOf(n, 0)
      BY DEF InBytes
    <3>4. ByteOf(n, 1) = n \div 256 /\ ByteOf(n, 0) = n % 256
      BY <1>2, Powers, SMT DEF ByteOf
    <3>5. InBytes(n, 2)[1] = 64 + (n \div 256) /\ InBytes(n, 2)[2] = n % 256
      BY <3>3, <3>4 DEF Tag
    <3>6. PICK x \in Byte, y \in Byte : x = 64 + (n \div 256) /\ y = n % 256
      <4>1. n < 16384
        BY <1>2, Powers, SMT
      <4>2. n \div 256 \in 0..63 /\ n % 256 \in 0..255
        BY <4>1, SMT
      <4>3. 64 + (n \div 256) \in Byte /\ n % 256 \in Byte
        BY <4>2, SMT DEF Byte
      <4> QED
        BY <4>3, Zenon
    <3>7. <<x, y>> \in Seq(Byte) /\ Len(<<x, y>>) = 2 /\ <<x, y>>[1] = x /\ <<x, y>>[2] = y
      OBVIOUS
    <3>8. PICK f \in Seq(Byte) : f = InBytes(n, 2) /\ Len(f) = 2 /\ f[1] = x /\ f[2] = y
      BY <3>2, <3>5, <3>6, Zenon
    <3>9. f = <<x, y>>
      <4>1. \A i \in 1..Len(f) : f[i] = <<x, y>>[i]
        BY <3>7, <3>8
      <4> QED
        BY <3>7, <3>8, <4>1, SeqEqual
    <3> QED
      BY <2>2, <3>1, <3>6, <3>7, <3>8, <3>9, Zenon
  <2> QED
    BY <2>1, <2>2
<1>5. encode_datagram_capsule(p) = Cat(Cat(<<0>>, h), p)
  BY <1>2, <1>3, <1>4, Zenon DEF encode_datagram_capsule, CAPSULE_DATAGRAM, Cat
<1>6. RfcHeader(Len(p)) \o p = Cat(Cat(<<0>>, h), p)
  BY <1>2, <1>4, Zenon DEF RfcHeader, Cat
<1>7. PICK c \in Seq(Byte) : c = Cat(<<0>>, h)
  BY <1>3, CatType
<1>8. PICK w \in Seq(Byte) : w = Cat(c, p)
  BY <1>1, CatType
<1>9. Len(w) \in Nat
  OBVIOUS
<1> QED
  BY <1>1, <1>5, <1>6, <1>7, <1>8, <1>9, Zenon

\* The capsules of the packets s.
RfcOf(s) == [i \in DOMAIN s |-> RfcHeader(Len(s[i])) \o s[i]]

LEMMA RfcPieces ==
  ASSUME NEW s \in Seq(Packet), NEW k \in 0..Len(s)
  PROVE  /\ k \in Nat /\ Pieces(RfcOf(s), k, Byte) /\ RfcCapsules(s, k) = Joined(RfcOf(s), k)
         /\ \A i \in 1..k : RfcOf(s)[i] = encode_datagram_capsule(s[i])
<1>1. Len(s) \in Nat /\ DOMAIN s = 1..Len(s) /\ \A i \in 1..Len(s) : s[i] \in Packet
  OBVIOUS
<1>2. k \in Nat /\ \A i \in 1..k : i \in 1..Len(s)
  BY <1>1
<1>3. \A i \in 1..k : RfcOf(s)[i] = encode_datagram_capsule(s[i])
  BY <1>1, <1>2, EncodeIs, Zenon DEF RfcOf
<1>4. \A i \in 1..k : RfcOf(s)[i] \in Seq(Byte)
  BY <1>1, <1>2, <1>3, EncodeIs, Zenon
<1> QED
  BY <1>2, <1>3, <1>4, Zenon DEF Pieces, RfcCapsules, RfcOf

LEMMA RfcNext ==
  ASSUME NEW s \in Seq(Packet), NEW k \in Nat, k < Len(s)
  PROVE  RfcCapsules(s, k + 1) = Cat(RfcCapsules(s, k), encode_datagram_capsule(s[k + 1]))
<1>1. k \in 0..Len(s) /\ k + 1 \in 0..Len(s) /\ k + 1 \in 1..(k + 1)
  OBVIOUS
<1>2. /\ RfcCapsules(s, k) = Joined(RfcOf(s), k)
      /\ RfcCapsules(s, k + 1) = Joined(RfcOf(s), k + 1)
      /\ Pieces(RfcOf(s), k + 1, Byte)
      /\ RfcOf(s)[k + 1] = encode_datagram_capsule(s[k + 1])
  BY <1>1, RfcPieces, Zenon
<1>3. Joined(RfcOf(s), k + 1) = Cat(Joined(RfcOf(s), k), RfcOf(s)[k + 1])
  BY <1>2, JoinedNext, Zenon
<1> QED
  BY <1>2, <1>3, Zenon

LEMMA RfcMore ==
  ASSUME NEW s \in Seq(Packet), NEW k \in 0..Len(s), NEW p \in Packet
  PROVE  RfcCapsules(Append(s, p), k) = RfcCapsules(s, k)
<1>1. PICK t \in Seq(Packet) : t = Append(s, p)
  <2>1. Append(s, p) \in Seq(Packet)
    OBVIOUS
  <2> QED
    BY <2>1, Zenon
<1>2. k \in 0..Len(t) /\ \A i \in 1..k : t[i] = s[i]
  BY <1>1
<1>3. /\ k \in Nat /\ Pieces(RfcOf(s), k, Byte) /\ RfcCapsules(s, k) = Joined(RfcOf(s), k)
      /\ \A i \in 1..k : RfcOf(s)[i] = encode_datagram_capsule(s[i])
  BY RfcPieces, Zenon
<1>4. /\ RfcCapsules(t, k) = Joined(RfcOf(t), k)
      /\ \A i \in 1..k : RfcOf(t)[i] = encode_datagram_capsule(t[i])
  BY <1>2, RfcPieces, Zenon
<1>5. Alike(RfcOf(s), RfcOf(t), k)
  BY <1>2, <1>3, <1>4, Zenon DEF Alike
<1>6. Joined(RfcOf(s), k) = Joined(RfcOf(t), k)
  BY <1>3, <1>5, JoinedSame
<1> QED
  BY <1>1, <1>3, <1>4, <1>6, Zenon

TxType ==
  /\ submitted \in Seq(Packet) /\ outq \in Seq(Packet) /\ quota \in Nat
  /\ credit \in 0..SendWindow /\ writer \in {"none", "recv", "reserve", "ended"}

\* q is what follows the first k of s.
After(s, k, q) == Len(s) = k + Len(q) /\ \A i \in 1..Len(q) : q[i] = s[k + i]

\* The capsules of k packets are on the wire, and the writer may hold that of
\* the next one.
TxAt(k) ==
  /\ wire = RfcCapsules(submitted, k)
  /\ writer \in {"none", "recv"} => After(submitted, k, outq)
  /\ writer = "reserve" => /\ k < Len(submitted) /\ After(submitted, k + 1, outq)
                           /\ cap = encode_datagram_capsule(submitted[k + 1])

TxInv == TxType /\ \E k \in 0..Len(submitted) : TxAt(k)

LEMMA AfterTail ==
  ASSUME NEW S, NEW s \in Seq(S), NEW k \in Nat, NEW q \in Seq(S), q # <<>>, After(s, k, q)
  PROVE  /\ k < Len(s) /\ Head(q) = s[k + 1] /\ Tail(q) \in Seq(S) /\ After(s, k + 1, Tail(q))
<1>1. PICK r \in Seq(S) : r = Tail(q) /\ Len(r) = Len(q) - 1 /\ \A i \in 1..Len(r) : r[i] = q[i + 1]
  <2>1. Tail(q) \in Seq(S) /\ Len(Tail(q)) = Len(q) - 1
        /\ \A i \in 1..Len(Tail(q)) : Tail(q)[i] = q[i + 1]
    OBVIOUS
  <2> QED
    BY <2>1, Zenon
<1>2. /\ Len(q) \in Nat /\ Len(q) > 0 /\ Head(q) = q[1] /\ Len(s) \in Nat
      /\ Len(r) \in Nat
  OBVIOUS
<1>3. Len(s) = k + Len(q)
  BY DEF After
<1>4. Head(q) = s[k + 1]
  <2>1. 1 \in 1..Len(q)
    BY <1>2
  <2> QED
    BY <1>2, <2>1, Zenon DEF After
<1>5. \A i \in 1..Len(r) : r[i] = s[(k + 1) + i]
  <2>1. \A i \in 1..Len(r) : i + 1 \in 1..Len(q) /\ k + (i + 1) = (k + 1) + i
    BY <1>1, <1>2
  <2> QED
    BY <1>1, <2>1, Zenon DEF After
<1>6. Len(s) = (k + 1) + Len(r) /\ k < Len(s)
  BY <1>1, <1>2, <1>3
<1> QED
  BY <1>1, <1>4, <1>5, <1>6, Zenon DEF After

LEMMA AfterAppend ==
  ASSUME NEW S, NEW s \in Seq(S), NEW k \in Nat, NEW q \in Seq(S), NEW x \in S, After(s, k, q)
  PROVE  After(Append(s, x), k, Append(q, x))
<1>1. PICK t \in Seq(S) : /\ t = Append(s, x) /\ Len(t) = Len(s) + 1 /\ t[Len(s) + 1] = x
                          /\ \A i \in 1..Len(s) : t[i] = s[i]
  <2>1. /\ Append(s, x) \in Seq(S) /\ Len(Append(s, x)) = Len(s) + 1
        /\ Append(s, x)[Len(s) + 1] = x /\ \A i \in 1..Len(s) : Append(s, x)[i] = s[i]
    OBVIOUS
  <2> QED
    BY <2>1, Zenon
<1>2. PICK r \in Seq(S) : /\ r = Append(q, x) /\ Len(r) = Len(q) + 1 /\ r[Len(q) + 1] = x
                          /\ \A i \in 1..Len(q) : r[i] = q[i]
  <2>1. /\ Append(q, x) \in Seq(S) /\ Len(Append(q, x)) = Len(q) + 1
        /\ Append(q, x)[Len(q) + 1] = x /\ \A i \in 1..Len(q) : Append(q, x)[i] = q[i]
    OBVIOUS
  <2> QED
    BY <2>1, Zenon
<1>3. Len(s) = k + Len(q) /\ Len(q) \in Nat
  BY DEF After
<1>4. Len(t) = k + Len(r)
  BY <1>1, <1>2, <1>3
<1>5. ASSUME NEW i \in 1..Len(r) PROVE r[i] = t[k + i]
  <2>1. CASE i = Len(q) + 1
    <3>1. k + i = Len(s) + 1
      BY <1>3, <2>1
    <3> QED
      BY <1>1, <1>2, <2>1, <3>1, Zenon
  <2>2. CASE i # Len(q) + 1
    <3>1. i \in 1..Len(q) /\ k + i \in 1..Len(s)
      BY <1>2, <1>3, <2>2
    <3> QED
      BY <1>1, <1>2, <3>1, Zenon DEF After
  <2> QED
    BY <2>1, <2>2
<1> QED
  BY <1>1, <1>2, <1>4, <1>5, Zenon DEF After

LEMMA TxInit == ASSUME Init PROVE TxInv
<1>1. PICK l \in Load : H2Init(l.script, l.out) /\ l.out \in Nat
  BY TunnelAssumption DEF Init
<1>2. /\ submitted = <<>> /\ outq = <<>> /\ writer = "none" /\ wire = <<>>
      /\ credit = SendWindow /\ quota \in Nat
  BY <1>1 DEF H2Init
<1>3. <<>> \in Seq(Packet) /\ Len(<<>>) = 0 /\ 0 \in 0..Len(<<>>)
  OBVIOUS
<1>4. TxType
  BY <1>2, <1>3, H2Assumption DEF TxType
<1>5. After(<<>>, 0, <<>>)
  BY DEF After
<1>6. RfcCapsules(<<>>, 0) = <<>>
  BY JoinedNone, Zenon DEF RfcCapsules
<1>7. TxAt(0)
  BY <1>2, <1>5, <1>6 DEF TxAt
<1> QED
  BY <1>2, <1>3, <1>4, <1>7, Zenon DEF TxInv

\* send_ip.
LEMMA TxSubmits == ASSUME TxInv, NEW p \in Packet, H2SendIp(p) PROVE TxInv'
<1>1. /\ submitted \in Seq(Packet) /\ outq \in Seq(Packet) /\ quota \in Nat /\ quota > 0
      /\ writer \in {"recv", "reserve"} /\ quota' = quota - 1
      /\ submitted' = Append(submitted, p) /\ outq' = Append(outq, p)
      /\ writer' = writer /\ cap' = cap /\ credit' = credit /\ wire' = wire
  BY DEF TxInv, TxType, H2SendIp
<1>2. PICK k \in 0..Len(submitted) : TxAt(k)
  BY DEF TxInv
<1>3. k \in Nat /\ k + 1 \in Nat /\ k \in 0..Len(Append(submitted, p))
  BY <1>1
<1>4. TxType'
  <2>1. Append(submitted, p) \in Seq(Packet) /\ Append(outq, p) \in Seq(Packet)
    BY <1>1
  <2>2. quota - 1 \in Nat
    BY <1>1
  <2> QED
    BY <1>1, <2>1, <2>2, Zenon DEF TxInv, TxType
<1>5. wire' = RfcCapsules(submitted', k)
  <2>1. RfcCapsules(Append(submitted, p), k) = RfcCapsules(submitted, k)
    BY <1>1, RfcMore, Zenon
  <2> QED
    BY <1>1, <1>2, <2>1, Zenon DEF TxAt
<1>6. CASE writer = "recv"
  <2>1. After(submitted, k, outq)
    BY <1>2, <1>6 DEF TxAt
  <2>2. After(Append(submitted, p), k, Append(outq, p))
    BY <1>1, <1>3, <2>1, AfterAppend
  <2>3. After(submitted', k, outq')
    BY <1>1, <2>2, Zenon
  <2>4. TxAt(k)'
    BY <1>1, <1>5, <1>6, <2>3 DEF TxAt
  <2> QED
    BY <1>1, <1>3, <1>4, <2>4, Zenon DEF TxInv
<1>7. CASE writer = "reserve"
  <2>1. /\ After(submitted, k + 1, outq) /\ k < Len(submitted)
        /\ cap = encode_datagram_capsule(submitted[k + 1])
    BY <1>2, <1>7 DEF TxAt
  <2>2. After(Append(submitted, p), k + 1, Append(outq, p))
    BY <1>1, <1>3, <2>1, AfterAppend
  <2>3. k < Len(Append(submitted, p)) /\ Append(submitted, p)[k + 1] = submitted[k + 1]
    BY <1>1, <1>3, <2>1
  <2>4. /\ After(submitted', k + 1, outq') /\ k < Len(submitted')
        /\ cap' = encode_datagram_capsule(submitted'[k + 1])
    BY <1>1, <2>1, <2>2, <2>3, Zenon
  <2>5. TxAt(k)'
    BY <1>1, <1>5, <1>7, <2>4 DEF TxAt
  <2> QED
    BY <1>1, <1>3, <1>4, <2>5, Zenon DEF TxInv
<1> QED
  BY <1>1, <1>6, <1>7

LEMMA TxTakes == ASSUME TxInv, WriterTake PROVE TxInv'
<1>1. /\ submitted \in Seq(Packet) /\ outq \in Seq(Packet) /\ outq # <<>>
      /\ writer = "recv" /\ writer' = "reserve" /\ outq' = Tail(outq)
      /\ cap' = encode_datagram_capsule(Head(outq))
      /\ submitted' = submitted /\ quota' = quota /\ credit' = credit /\ wire' = wire
  BY DEF TxInv, TxType, WriterTake
<1>2. PICK k \in 0..Len(submitted) : TxAt(k)
  BY DEF TxInv
<1>3. k \in Nat /\ After(submitted, k, outq)
  BY <1>1, <1>2 DEF TxAt
<1>4. /\ k < Len(submitted) /\ Head(outq) = submitted[k + 1] /\ Tail(outq) \in Seq(Packet)
      /\ After(submitted, k + 1, Tail(outq))
  BY <1>1, <1>3, AfterTail
<1>5. After(submitted', k + 1, outq') /\ cap' = encode_datagram_capsule(submitted'[k + 1])
  BY <1>1, <1>4, Zenon
<1>6. TxAt(k)'
  BY <1>1, <1>2, <1>4, <1>5 DEF TxAt
<1>7. TxType'
  BY <1>1, <1>4 DEF TxInv, TxType
<1> QED
  BY <1>1, <1>2, <1>6, <1>7, Zenon DEF TxInv

LEMMA TxSends == ASSUME TxInv, WriterSend PROVE TxInv'
<1>1. /\ submitted \in Seq(Packet) /\ outq \in Seq(Packet) /\ credit \in 0..SendWindow
      /\ writer = "reserve" /\ writer' = "recv" /\ outq' = outq /\ credit >= Len(cap)
      /\ submitted' = submitted /\ quota' = quota
  BY DEF TxInv, TxType, WriterSend, Enough
<1>2. PICK k \in 0..Len(submitted) : TxAt(k)
  BY DEF TxInv
<1>3. /\ k < Len(submitted) /\ After(submitted, k + 1, outq)
      /\ cap = encode_datagram_capsule(submitted[k + 1]) /\ wire = RfcCapsules(submitted, k)
  BY <1>1, <1>2 DEF TxAt
<1>4. k \in Nat /\ k + 1 \in 0..Len(submitted) /\ submitted[k + 1] \in Packet
  BY <1>1, <1>3
<1>5. PICK c \in Seq(Byte) : c = cap /\ Len(c) \in Nat
  BY <1>3, <1>4, EncodeIs, Zenon
<1>6. credit \in Nat /\ SendWindow \in Nat /\ ~(credit < Len(c)) /\ credit - Len(c) \in 0..SendWindow
  BY <1>1, <1>5, H2Assumption
<1>7. wire' = wire \o SubSeq(c, 1, Len(c)) /\ credit' = credit - Len(c)
  BY <1>5, <1>6, Zenon DEF WriterSend
<1>8. SubSeq(c, 1, Len(c)) = c
  OBVIOUS
<1>9. wire' = RfcCapsules(submitted, k + 1)
  <2>1. RfcCapsules(submitted, k + 1)
          = Cat(RfcCapsules(submitted, k), encode_datagram_capsule(submitted[k + 1]))
    BY <1>1, <1>3, <1>4, RfcNext, Zenon
  <2> QED
    BY <1>3, <1>5, <1>7, <1>8, <2>1, Zenon DEF Cat
<1>10. TxAt(k + 1)'
  BY <1>1, <1>3, <1>9 DEF TxAt
<1>11. TxType'
  BY <1>1, <1>6, <1>7 DEF TxInv, TxType
<1> QED
  BY <1>1, <1>4, <1>10, <1>11, Zenon DEF TxInv

LEMMA TxKept == ASSUME TaskInv, TxInv, [Next]_vars PROVE TxInv'
<1>0. PICK k \in 0..Len(submitted) : TxAt(k)
  BY DEF TxInv
<1>1. CASE UNCHANGED outVars
  BY <1>0, <1>1 DEF outVars, TxInv, TxType, TxAt
<1>2. CASE H2Responded
  <2>1. writer = "none"
    BY <1>2 DEF H2Responded, Responded, TaskInv, Connecting
  <2>2. /\ submitted' = submitted /\ outq' = outq /\ quota' = quota /\ credit' = credit
        /\ wire' = wire /\ writer' = "recv"
    BY <1>2 DEF H2Responded
  <2> QED
    BY <1>0, <2>1, <2>2 DEF TxInv, TxType, TxAt
<1>3. CASE WriterEnd
  <2>1. /\ submitted' = submitted /\ outq' = outq /\ quota' = quota /\ credit' = credit
        /\ wire' = wire /\ writer' = "ended"
    BY <1>3 DEF WriterEnd
  <2> QED
    BY <1>0, <2>1 DEF TxInv, TxType, TxAt
<1>4. ASSUME NEW n \in Credits, PeerGrants(n) PROVE TxInv'
  <2>1. /\ submitted' = submitted /\ outq' = outq /\ quota' = quota /\ cap' = cap
        /\ wire' = wire /\ writer' = writer
    BY <1>4 DEF PeerGrants
  <2>2. credit' \in 0..SendWindow
    BY <1>4, H2Assumption DEF PeerGrants, TxInv, TxType
  <2> QED
    BY <1>0, <2>1, <2>2 DEF TxInv, TxType, TxAt
<1>5. CASE WriterTake \/ WriterSend \/ \E p \in Packet : H2SendIp(p)
  BY <1>5, TxTakes, TxSends, TxSubmits
<1>6. CASE ReaderData \/ ReaderParse \/ ReaderEnd \/ H2Recv
             \/ (\E n \in FrameSizes : PeerSends(n))
             \/ (\E how \in {"ended", "reset"} : PeerEnds(how))
  BY <1>1, <1>6 DEF ReaderData, ReaderParse, ReaderEnd, H2Recv, PeerSends, PeerEnds
<1> QED
  BY <1>1, <1>2, <1>3, <1>4, <1>5, <1>6, StepsOfH2 DEF H2Step, h2Vars

\* writer_loop: whatever the credit and the packets, the wire has whole
\* capsules, in order, as RFC 9297 encodes them.
THEOREM CapsulesAreWhole == Spec => []WholeCapsules
<1> DEFINE Inv == LifeInv /\ H3Inv /\ TaskInv /\ TxInv
<1>1. Init => Inv
  BY LifeInit1, RxInit, TxInit
<1>2. Inv /\ [Next]_vars => Inv'
  BY LifeKept, H3Kept, TaskKept, TxKept
<1>3. Inv => WholeCapsules
  BY DEF TxInv, TxAt, WholeCapsules
<1> QED
  BY <1>1, <1>2, <1>3, PTL DEF Spec

-----------------------------------------------------------------------------
(* Types.                                                                  *)

\* The invariants of this module together imply the types of every variable.
THEOREM TunnelTypeCorrect == Spec => []TypeOK
<1> DEFINE Inv == LifeInv /\ H3Inv /\ TaskInv /\ RxInv /\ TxInv
<1>1. Init => Inv
  BY LifeInit1, RxInit, TxInit
<1>2. Inv /\ [Next]_vars => Inv'
  BY LifeKept, H3Kept, TaskKept, RxKept, TxKept
<1>3. Inv => TypeOK
  <2> SUFFICES ASSUME LifeInv, H3Inv, RxInv, TxInv PROVE TypeOK
    OBVIOUS
  <2>1. LifeType
    <3>1. {up, driver, dead, held, feeder, actor} \subseteq BOOLEAN
      BY Zenon DEF LifeInv, Flags
    <3> QED
      BY <3>1 DEF LifeInv, LifeType
  <2>2. Len(buf) <= pos
    <3>1. /\ script \in Script /\ pos \in 0..Len(StreamOf[script])
          /\ frames \in Seq(Seq(Byte)) /\ buf \in Seq(Byte)
      BY DEF RxInv, RxType
    <3>2. PICK j \in 0..Len(script) : ReadUpTo(script, j, buf, frames, pos)
      BY DEF RxInv, RxAt
    <3>3. PICK a \in Seq(Byte) : a = Bytes(script, j)
      BY <3>1, BytesType, Zenon
    <3>4. PICK w \in Seq(Byte) : w = Joined(frames, Len(frames))
      BY <3>1, JoinedFrames, Zenon
    <3>5. pos = Len(a) + Len(buf) + Len(w)
      BY <3>1, <3>2, <3>3, <3>4, ReadLength, Zenon
    <3>6. Len(a) \in Nat /\ Len(buf) \in Nat /\ Len(w) \in Nat
      BY <3>1
    <3> QED
      BY <3>5, <3>6
  <2>3. Len(frames) <= MaxFrames
    BY H2Assumption DEF RxInv, WindowInv
  <2>4. H2Type
    BY <2>2, <2>3 DEF RxInv, RxType, WindowInv, TxInv, TxType, H2Type, Stream
  <2> QED
    BY <2>1, <2>4 DEF TypeOK, H3Inv
<1> QED
  BY <1>1, <1>2, <1>3, PTL DEF Spec

-----------------------------------------------------------------------------
(* Datagrams.                                                              *)

\* What recv_ip makes of the first n bytes of a datagram: nothing, or the packet p
\* as far as it goes.
RecvGives(dg, flow, context, fw, cw, p, n) ==
  recv_ip(dg) = IF n < fw + cw \/ flow # 0 \/ context # 0 THEN <<>>
                ELSE <<SubSeq(p, 1, n - fw - cw)>>

LEMMA RecvIs ==
  ASSUME NEW flow \in Nat, NEW context \in Nat, NEW fw \in {1, 2, 4, 8},
         NEW cw \in {1, 2, 4, 8}, Holds(fw, flow), Holds(cw, context),
         NEW p \in Seq(Byte), NEW n \in 0..(fw + cw + Len(p))
  PROVE  RecvGives(SubSeq(InBytes(flow, fw) \o InBytes(context, cw) \o p, 1, n),
                   flow, context, fw, cw, p, n)
<1>0. PICK dg : dg = SubSeq(InBytes(flow, fw) \o InBytes(context, cw) \o p, 1, n)
  BY Zenon
<1>0a. /\ fw \in Nat /\ cw \in Nat /\ fw > 0 /\ cw > 0 /\ fw # 0 /\ cw # 0
       /\ Len(p) \in Nat /\ n \in Nat /\ n <= fw + cw + Len(p)
  OBVIOUS
<1> SUFFICES RecvGives(dg, flow, context, fw, cw, p, n)
  BY <1>0, Zenon
<1>1. PICK f \in Seq(Byte) : f = InBytes(flow, fw) /\ Len(f) = fw
  BY FieldType
<1>2. PICK g \in Seq(Byte) : g = InBytes(context, cw) /\ Len(g) = cw
  BY FieldType
<1>3. PICK t \in Seq(Byte) : t = Cat(Cat(f, g), p) /\ Middle(f, g, p)
  BY CatMiddle, Zenon
<1>4. Len(t) = fw + cw + Len(p) /\ \A i \in 1..cw : t[fw + i] = g[i]
  BY <1>1, <1>2, <1>3, Zenon DEF Middle
<1>5. PICK h \in Seq(Byte) : h = Cat(f, g) /\ Len(h) = fw + cw
  <2>1. Cat(f, g) \in Seq(Byte)
    BY CatType
  <2>2. Len(Cat(f, g)) = fw + cw
    BY <1>1, <1>2, CatLen
  <2> QED
    BY <2>1, <2>2, Zenon
<1>6. /\ \A i \in 1..Len(h) : Cat(h, p)[i] = h[i]
      /\ \A i \in 1..Len(p) : Cat(h, p)[Len(h) + i] = p[i]
  BY CatEntries
<1>7. \A i \in 1..Len(f) : Cat(f, g)[i] = f[i]
  BY CatEntries
<1>8. \A i \in 1..Len(p) : t[(fw + cw) + i] = p[i]
  BY <1>3, <1>5, <1>6, Zenon
<1>9. \A i \in 1..fw : t[i] = f[i]
  <2>1. \A i \in 1..fw : i \in 1..(fw + cw)
    OBVIOUS
  <2> QED
    BY <1>1, <1>3, <1>5, <1>6, <1>7, <2>1, Zenon
<1>10. /\ dg \in Seq(Byte) /\ Len(dg) = n /\ n \in Nat
       /\ \A i \in 1..n : dg[i] = t[i]
  <2>1. dg = SubSeq(t, 1, n)
    BY <1>0, <1>1, <1>2, <1>3, Zenon DEF Cat
  <2>2. n \in 0..Len(t)
    BY <1>4, Zenon
  <2>3. /\ SubSeq(t, 1, n) \in Seq(Byte) /\ Len(SubSeq(t, 1, n)) = n
        /\ \A i \in 1..n : SubSeq(t, 1, n)[i] = t[i]
    BY <2>2, FrontOf
  <2>4. n \in Nat
    OBVIOUS
  <2> QED
    BY <2>1, <2>3, <2>4, Zenon
<1>14. Len(dg) = n
  BY <1>10, Zenon
<1>11. recv_ip(dg)
         = LET a == decode_varint(dg)
               c == decode_varint(SubSeq(dg, a.len + 1, Len(dg)))
           IN IF a.len = 0 \/ c.len = 0 \/ a.v # 0 \/ c.v # 0 THEN <<>>
              ELSE <<SubSeq(dg, a.len + c.len + 1, Len(dg))>>
  <2>1. quarter_stream_id = 0 /\ CONTEXT_ID_FULL_PACKET = 0
    BY DEF quarter_stream_id, CONTEXT_ID_FULL_PACKET
  <2> QED
    BY <2>1, Zenon DEF recv_ip
<1>12. CASE n < fw
  <2>1. \A i \in 1..Len(dg) : dg[i] = InBytes(flow, fw)[i]
    <3>1. \A i \in 1..n : i \in 1..fw
      BY <1>10, <1>12
    <3> QED
      BY <1>1, <1>9, <1>10, <3>1, Zenon
  <2>2. Len(dg) < fw
    BY <1>10, <1>12, Zenon
  <2>3. decode_varint(dg).len = 0
    BY <1>10, <2>1, <2>2, DecodePart, Zenon
  <2>4. recv_ip(dg) = <<>>
    BY <1>11, <2>3, Zenon
  <2>5. n < fw + cw
    BY <1>10, <1>12
  <2> QED
    BY <2>4, <2>5, Zenon DEF RecvGives
<1>13. CASE ~(n < fw)
  <2>1. \A i \in 1..fw : dg[i] = InBytes(flow, fw)[i]
    <3>1. \A i \in 1..fw : i \in 1..n
      BY <1>10, <1>13
    <3> QED
      BY <1>1, <1>9, <1>10, <3>1, Zenon
  <2>2. fw <= Len(dg)
    <3>1. fw <= n
      BY <1>0a, <1>13
    <3> QED
      BY <1>10, <3>1, Zenon
  <2>3. decode_varint(dg).v = flow /\ decode_varint(dg).len = fw
    <3>1. FieldAt(dg, flow, fw)
      BY <2>1, <2>2, Zenon DEF FieldAt
    <3>2. Decodes(dg, flow, fw)
      BY <1>10, <3>1, DecodeAt, Zenon
    <3> QED
      BY <3>2, Zenon DEF Decodes
  <2>4. PICK r \in Seq(Byte) : /\ r = SubSeq(dg, fw + 1, Len(dg)) /\ Len(r) = n - fw
                               /\ \A i \in 1..(n - fw) : r[i] = dg[fw + i]
    <3>1. fw \in 0..Len(dg)
      BY <1>10, <2>2
    <3>2. /\ SubSeq(dg, fw + 1, Len(dg)) \in Seq(Byte)
          /\ Len(SubSeq(dg, fw + 1, Len(dg))) = Len(dg) - fw
          /\ \A i \in 1..(Len(dg) - fw) : SubSeq(dg, fw + 1, Len(dg))[i] = dg[fw + i]
      BY <1>10, <3>1, RestOf
    <3> QED
      BY <1>10, <3>2, Zenon
  <2>5. \A i \in 1..(n - fw) : i <= cw => r[i] = InBytes(context, cw)[i]
    <3>1. \A i \in 1..(n - fw) : fw + i \in 1..n
      BY <1>10, <1>13
    <3>2. \A i \in 1..(n - fw) : i <= cw => i \in 1..cw
      OBVIOUS
    <3> QED
      BY <1>2, <1>4, <1>10, <2>4, <3>1, <3>2, Zenon
  <2>6. CASE n < fw + cw
    <3>1. Len(r) < cw /\ \A i \in 1..Len(r) : i <= cw
      <4>1. Len(r) = n - fw
        BY <2>4, Zenon
      <4>2. Len(r) \in Nat /\ Len(r) < cw
        BY <1>0a, <1>13, <2>6, <4>1
      <4> QED
        BY <1>0a, <4>2
    <3>2. \A i \in 1..Len(r) : r[i] = InBytes(context, cw)[i]
      BY <2>4, <2>5, <3>1, Zenon
    <3>3. decode_varint(r).len = 0
      BY <3>1, <3>2, DecodePart, Zenon
    <3>4. recv_ip(dg) = <<>>
      BY <1>11, <2>3, <2>4, <3>3, Zenon
    <3> QED
      BY <2>6, <3>4, Zenon DEF RecvGives
  <2>7. CASE ~(n < fw + cw)
    <3>1. cw <= Len(r) /\ \A i \in 1..cw : i \in 1..(n - fw) /\ i <= cw
      BY <1>0a, <1>13, <2>4, <2>7
    <3>2. \A i \in 1..cw : r[i] = InBytes(context, cw)[i]
      BY <2>5, <3>1, Zenon
    <3>3. decode_varint(r).v = context /\ decode_varint(r).len = cw
      <4>1. FieldAt(r, context, cw)
        BY <3>1, <3>2, Zenon DEF FieldAt
      <4>2. Decodes(r, context, cw)
        BY <4>1, DecodeAt, Zenon
      <4> QED
        BY <4>2, Zenon DEF Decodes
    <3>4. fw # 0 /\ cw # 0
      BY <1>0a
    <3>5. recv_ip(dg) = IF flow # 0 \/ context # 0 THEN <<>>
                        ELSE <<SubSeq(dg, fw + cw + 1, Len(dg))>>
      BY <1>11, <2>3, <2>4, <3>3, <3>4, Zenon
    <3>6. SubSeq(dg, fw + cw + 1, Len(dg)) = SubSeq(p, 1, n - fw - cw)
      <4>1. PICK k \in Nat, h2 \in Nat : k = n - fw - cw /\ h2 = fw + cw /\ k = Len(dg) - h2
        <5>1. n - fw - cw \in Nat /\ fw + cw \in Nat /\ n - fw - cw = n - (fw + cw)
          <6>1. n \in Nat /\ fw \in Nat /\ cw \in Nat
            BY <1>0a, Zenon
          <6> QED
            BY <6>1, <2>7
        <5> QED
          BY <1>10, <5>1, Zenon
      <4>2. h2 \in 0..Len(dg) /\ k \in 0..Len(p)
        BY <1>0a, <1>14, <2>7, <4>1
      <4>3. PICK x \in Seq(Byte) : /\ x = SubSeq(dg, h2 + 1, Len(dg)) /\ Len(x) = k
                                   /\ \A i \in 1..k : x[i] = dg[h2 + i]
        <5>1. /\ SubSeq(dg, h2 + 1, Len(dg)) \in Seq(Byte)
              /\ Len(SubSeq(dg, h2 + 1, Len(dg))) = Len(dg) - h2
              /\ \A i \in 1..(Len(dg) - h2) : SubSeq(dg, h2 + 1, Len(dg))[i] = dg[h2 + i]
          BY <1>10, <4>2, RestOf
        <5> QED
          BY <4>1, <5>1, Zenon
      <4>4. PICK y \in Seq(Byte) : /\ y = SubSeq(p, 1, k) /\ Len(y) = k
                                   /\ \A i \in 1..k : y[i] = p[i]
        <5>1. /\ SubSeq(p, 1, k) \in Seq(Byte) /\ Len(SubSeq(p, 1, k)) = k
              /\ \A i \in 1..k : SubSeq(p, 1, k)[i] = p[i]
          BY <4>2, FrontOf
        <5> QED
          BY <5>1, Zenon
      <4>5. \A i \in 1..k : h2 + i \in 1..n /\ i \in 1..Len(p)
        BY <1>10, <4>1, <4>2
      <4>6. \A i \in 1..Len(x) : x[i] = y[i]
        <5>1. \A i \in 1..k : x[i] = dg[h2 + i] /\ dg[h2 + i] = t[h2 + i]
          BY <1>10, <4>3, <4>5, Zenon
        <5>2. \A i \in 1..k : t[h2 + i] = p[i] /\ y[i] = p[i]
          BY <1>8, <4>1, <4>4, <4>5, Zenon
        <5> QED
          BY <4>3, <5>1, <5>2, ZenonT(40)
      <4>7. x = y
        BY <4>3, <4>4, <4>6, SeqEqual
      <4> QED
        BY <4>1, <4>3, <4>4, <4>7, Zenon
    <3> QED
      BY <2>7, <3>5, <3>6, Zenon DEF RecvGives
  <2> QED
    BY <2>6, <2>7
<1> QED
  BY <1>12, <1>13, Zenon

\* The packet that a datagram has for us.
PacketIn(d) == IF Ours(d) THEN <<SubSeq(d.packet, 1, d.len - d.fw - d.cw)>> ELSE <<>>

LEMMA PacketsIs ==
  ASSUME NEW d \in QuicDatagram
  PROVE  Packets[d] = PacketIn(d) /\ PacketIn(d) \in Seq(Seq(Byte))
<1>1. PICK flow \in Nat, context \in Nat, p \in Seq(Byte) :
        flow = d.flow /\ context = d.context /\ p = d.packet
  BY H3Assumption, Zenon
<1>2. PICK fw \in {1, 2, 4, 8}, cw \in {1, 2, 4, 8} : fw = d.fw /\ cw = d.cw
  BY H3Assumption, Zenon
<1>3. PICK n \in 0..(fw + cw + Len(p)) : n = d.len
  BY <1>1, <1>2, H3Assumption, Zenon
<1>4. Holds(fw, flow) /\ Holds(cw, context)
  BY <1>1, <1>2, H3Assumption, Zenon
<1>5. DatagramBytes(d) = SubSeq(InBytes(flow, fw) \o InBytes(context, cw) \o p, 1, n)
  BY <1>1, <1>2, <1>3, Zenon DEF DatagramBytes
<1>6. RecvGives(SubSeq(InBytes(flow, fw) \o InBytes(context, cw) \o p, 1, n),
                flow, context, fw, cw, p, n)
  BY <1>4, RecvIs, Zenon
<1>7. recv_ip(DatagramBytes(d)) = IF n < fw + cw \/ flow # 0 \/ context # 0 THEN <<>>
                                  ELSE <<SubSeq(p, 1, n - fw - cw)>>
  BY <1>5, <1>6, Zenon DEF RecvGives
<1>8. fw \in Nat /\ cw \in Nat /\ n \in Nat /\ Len(p) \in Nat /\ n <= fw + cw + Len(p)
  OBVIOUS
<1>9. Ours(d) <=> ~(n < fw + cw \/ flow # 0 \/ context # 0)
  <2>1. (d.len >= d.fw + d.cw) <=> ~(n < fw + cw)
    <3>1. (n >= fw + cw) <=> ~(n < fw + cw)
      BY <1>8
    <3> QED
      BY <1>2, <1>3, <3>1, Zenon
  <2>2. quarter_stream_id = 0 /\ CONTEXT_ID_FULL_PACKET = 0
    BY DEF quarter_stream_id, CONTEXT_ID_FULL_PACKET
  <2> QED
    BY <1>1, <2>1, <2>2, Zenon DEF Ours
<1>10. PacketIn(d) = recv_ip(DatagramBytes(d))
  BY <1>1, <1>2, <1>3, <1>7, <1>9, Zenon DEF PacketIn
<1>11. PacketIn(d) \in Seq(Seq(Byte))
  <2>1. CASE Ours(d)
    <3>1. n - fw - cw \in 0..Len(p)
      BY <1>8, <1>9, <2>1
    <3>2. SubSeq(p, 1, n - fw - cw) \in Seq(Byte)
      BY <3>1, FrontOf
    <3>3. PICK q \in Seq(Byte) : q = SubSeq(p, 1, n - fw - cw)
      BY <3>2, Zenon
    <3>4. <<q>> \in Seq(Seq(Byte))
      OBVIOUS
    <3> QED
      BY <1>1, <1>2, <1>3, <2>1, <3>3, <3>4, Zenon DEF PacketIn
  <2>2. CASE ~Ours(d)
    <3>1. <<>> \in Seq(Seq(Byte))
      OBVIOUS
    <3> QED
      BY <2>2, <3>1, Zenon DEF PacketIn
  <2> QED
    BY <2>1, <2>2
<1> QED
  BY <1>10, <1>11, Zenon DEF Packets

\* The packets of the datagrams t.
PacketsOf(t) == [i \in DOMAIN t |-> PacketIn(t[i])]
AllPackets(t) == Joined(PacketsOf(t), Len(t))

LEMMA PacketPieces ==
  ASSUME NEW t \in Seq(QuicDatagram), NEW k \in 0..Len(t)
  PROVE  k \in Nat /\ Pieces(PacketsOf(t), k, Seq(Byte))
<1>1. /\ Len(t) \in Nat /\ DOMAIN t = 1..Len(t)
      /\ \A i \in 1..Len(t) : t[i] \in QuicDatagram
  OBVIOUS
<1>2. k \in Nat /\ \A i \in 1..k : i \in 1..Len(t)
  BY <1>1
<1>3. \A i \in 1..k : PacketsOf(t)[i] \in Seq(Seq(Byte))
  BY <1>1, <1>2, PacketsIs, Zenon DEF PacketsOf
<1> QED
  BY <1>2, <1>3, Zenon DEF Pieces

LEMMA PacketsAppend ==
  ASSUME NEW t \in Seq(QuicDatagram), NEW d \in QuicDatagram
  PROVE  AllPackets(Append(t, d)) = Cat(AllPackets(t), PacketIn(d))
<1>1. PICK u \in Seq(QuicDatagram) :
        /\ u = Append(t, d) /\ Len(u) = Len(t) + 1 /\ u[Len(t) + 1] = d
        /\ \A i \in 1..Len(t) : u[i] = t[i]
  <2>1. /\ Append(t, d) \in Seq(QuicDatagram) /\ Len(Append(t, d)) = Len(t) + 1
        /\ Append(t, d)[Len(t) + 1] = d /\ \A i \in 1..Len(t) : Append(t, d)[i] = t[i]
    OBVIOUS
  <2> QED
    BY <2>1, Zenon
<1>2. PICK k \in Nat : k = Len(t) /\ k + 1 = Len(u)
  BY <1>1
<1>3. /\ DOMAIN t = 1..k /\ DOMAIN u = 1..(k + 1) /\ k + 1 \in 1..(k + 1)
      /\ k \in 0..Len(t) /\ k + 1 \in 0..Len(u) /\ \A i \in 1..k : i \in 1..(k + 1)
  BY <1>2
<1>4. Pieces(PacketsOf(t), k, Seq(Byte)) /\ Pieces(PacketsOf(u), k + 1, Seq(Byte))
  BY <1>3, PacketPieces, Zenon
<1>5. Alike(PacketsOf(t), PacketsOf(u), k)
  BY <1>1, <1>2, <1>3, Zenon DEF Alike, PacketsOf
<1>6. Joined(PacketsOf(t), k) = Joined(PacketsOf(u), k)
  BY <1>4, <1>5, JoinedSame
<1>7. Joined(PacketsOf(u), k + 1) = Cat(Joined(PacketsOf(u), k), PacketsOf(u)[k + 1])
  BY <1>4, JoinedNext, Zenon
<1>8. PacketsOf(u)[k + 1] = PacketIn(d)
  BY <1>1, <1>2, <1>3, Zenon DEF PacketsOf
<1> QED
  BY <1>1, <1>2, <1>6, <1>7, <1>8, Zenon DEF AllPackets

\* The datagrams are the endpoint's, and what was read of them is filtered.
DgInv ==
  /\ air \subseteq QuicDatagram /\ dgq \in Seq(QuicDatagram) /\ taken \in Seq(QuicDatagram)
  /\ rx = AllPackets(taken)

LEMMA DgInit == ASSUME Init PROVE DgInv
<1>1. PICK l \in Load : H3Init(l.air, l.sizes) /\ l.air \subseteq QuicDatagram
  BY TunnelAssumption DEF Init
<1>2. /\ air \subseteq QuicDatagram /\ dgq = <<>> /\ taken = <<>> /\ rx = <<>>
  BY <1>1 DEF H3Init
<1>3. <<>> \in Seq(QuicDatagram) /\ Len(<<>>) = 0
  OBVIOUS
<1>4. AllPackets(<<>>) = <<>>
  BY <1>3, JoinedNone, Zenon DEF AllPackets
<1> QED
  BY <1>2, <1>3, <1>4, Zenon DEF DgInv

LEMMA DgKept == ASSUME DgInv, [Next]_vars PROVE DgInv'
<1>0. air \subseteq QuicDatagram /\ dgq \in Seq(QuicDatagram) /\ taken \in Seq(QuicDatagram)
  BY DEF DgInv
<1>1. CASE air' = air /\ dgq' = dgq /\ taken' = taken /\ rx' = rx
  BY <1>1 DEF DgInv
<1>2. ASSUME NEW d \in air, Arrives(d) PROVE DgInv'
  <2>1. air' = air \ {d} /\ dgq' = Append(dgq, d) /\ taken' = taken /\ rx' = rx
    BY <1>2 DEF Arrives
  <2>2. Append(dgq, d) \in Seq(QuicDatagram)
    BY <1>0
  <2> QED
    BY <1>0, <2>1, <2>2, Zenon DEF DgInv
<1>3. CASE H3Recv
  <2>1. /\ dgq # <<>> /\ air' = air /\ dgq' = Tail(dgq) /\ taken' = Append(taken, Head(dgq))
        /\ rx' = rx \o Packets[Head(dgq)]
    BY <1>3 DEF H3Recv
  <2>2. Tail(dgq) \in Seq(QuicDatagram) /\ Head(dgq) \in QuicDatagram
    BY <1>0, <2>1
  <2>3. PICK d \in QuicDatagram : d = Head(dgq)
    BY <2>2, Zenon
  <2>4. Append(taken, d) \in Seq(QuicDatagram)
    BY <1>0
  <2>5. AllPackets(Append(taken, d)) = Cat(AllPackets(taken), PacketIn(d))
    BY <1>0, PacketsAppend, Zenon
  <2>6. Packets[d] = PacketIn(d)
    BY PacketsIs, Zenon
  <2>7. rx' = Cat(rx, PacketIn(d)) /\ taken' = Append(taken, d)
    BY <2>1, <2>3, <2>6, Zenon DEF Cat
  <2>8. rx' = AllPackets(taken')
    BY <2>5, <2>7, Zenon DEF DgInv
  <2> QED
    BY <1>0, <2>1, <2>2, <2>4, <2>7, <2>8, Zenon DEF DgInv
<1> QED
  BY <1>1, <1>2, <1>3, StepsOfH3 DEF H3Step, h3Vars, H3Dialled, H3Built, H3Watch,
     Spawn, H3SendIp, PathChanges

\* recv_ip: whatever the flows, contexts, widths and lengths of the datagrams
\* that arrive, exactly the packets meant for this tunnel are handed on.
THEOREM DatagramsAreFiltered == Spec => []Filtered
<1>1. Init => DgInv
  BY DgInit
<1>2. DgInv /\ [Next]_vars => DgInv'
  BY DgKept
<1>3. DgInv => Filtered
  BY Zenon DEF DgInv, Filtered, AllPackets, PacketsOf, PacketIn
<1> QED
  BY <1>1, <1>2, <1>3, PTL DEF Spec
=============================================================================
