--------------------------- MODULE NetstackProofs ---------------------------
(***************************************************************************)
(* Proofs that the netstack's actor keeps both byte streams of every       *)
(* connection whole, for any number of connections, sockets and chunks and *)
(* any size of channels and buffers.                                       *)
(***************************************************************************)
EXTENDS Netstack, StreamLemmas

-----------------------------------------------------------------------------
(* Sequences.                                                              *)

\* The first k chunks of t, and the rest.
LEMMA Split ==
  ASSUME NEW S, NEW t \in Seq(S), NEW k \in 0..Len(t)
  PROVE  /\ First(t, k) \in Seq(S) /\ Rest(t, k) \in Seq(S)
         /\ Len(First(t, k)) = k /\ Len(Rest(t, k)) = Len(t) - k
         /\ Cat(First(t, k), Rest(t, k)) = t
<1>1. Len(t) \in Nat
  OBVIOUS
<1>2. /\ First(t, k) \in Seq(S) /\ Len(First(t, k)) = k
      /\ \A i \in 1..k : First(t, k)[i] = t[i]
  BY <1>1 DEF First
<1>3. /\ Rest(t, k) \in Seq(S) /\ Len(Rest(t, k)) = Len(t) - k
      /\ \A i \in 1..(Len(t) - k) : Rest(t, k)[i] = t[k + i]
  BY <1>1 DEF Rest
<1>4. /\ Len(t) = Len(First(t, k)) + Len(Rest(t, k))
      /\ \A i \in 1..Len(First(t, k)) : First(t, k)[i] = t[i]
      /\ \A i \in 1..Len(Rest(t, k)) : Rest(t, k)[i] = t[Len(First(t, k)) + i]
  BY <1>1, <1>2, <1>3
<1>5. Cat(First(t, k), Rest(t, k)) = t
  BY <1>2, <1>3, <1>4, Glue
<1> QED
  BY <1>2, <1>3, <1>5

\* The next chunk continues the count, and the front of a count is one.
LEMMA CountingAppend ==
  ASSUME NEW s \in Seq(Nat), Counting(s)
  PROVE  Counting(Append(s, Len(s) + 1))
BY DEF Counting

LEMMA CountingFront ==
  ASSUME NEW s \in Seq(Nat), NEW t \in Seq(Nat), Counting(Cat(s, t))
  PROVE  Counting(s)
<1>1. \A i \in 1..Len(s) : Cat(s, t)[i] = s[i]
  BY CatFront, Zenon
<1>2. Cat(s, t) \in Seq(Nat) /\ Len(Cat(s, t)) = Len(s) + Len(t)
  BY CatType, CatLen
<1>3. Len(s) \in Nat /\ Len(t) \in Nat /\ DOMAIN s = 1..Len(s)
  OBVIOUS
<1>4. \A i \in 1..Len(s) : i \in DOMAIN Cat(s, t)
  BY <1>2, <1>3
<1> QED
  BY <1>1, <1>3, <1>4 DEF Counting

-----------------------------------------------------------------------------
(* Layer 1: types, room in channels and buffers, and handles.              *)

\* A command that a connected task sent names a socket.
CmdType ==
  {m \in [op : {"resolve", "connect", "send", "close"}, c : Conn,
          h : 0..MaxSlot, n : 0..MaxOut] :
     /\ m.op \in {"send", "close"} => m.h \in Handle
     /\ m.op = "send" => m.n \in 1..MaxOut}

SocketState == {"synsent", "established", "closewait", "finwait", "closing",
                "lastack", "timewait", "closed"}
EntryType == [c : Conn \cup {None}, out : Seq(1..MaxOut), replying : BOOLEAN,
              closing : BOOLEAN]
SocketType == [st : {"none"} \cup SocketState, tx : Seq(1..MaxOut), rx : Seq(1..MaxIn)]

TaskTypes ==
  /\ task \in [Conn -> {"idle", "resolving", "resolved", "connecting", "relay",
                        "ending", "done"}]
  /\ handle \in [Conn -> 0..MaxSlot]
  /\ wrote \in [Conn -> 0..MaxOut]
  /\ got \in [Conn -> Seq(1..MaxIn)]
  /\ \A c \in Conn : task[c] \in {"relay", "ending"} => handle[c] \in Handle

ChanTypes ==
  /\ chan \in [Conn -> Seq(1..MaxIn)]
  /\ eof \in [Conn -> BOOLEAN]
  /\ \A c \in Conn : Len(chan[c]) <= ChanDepth

SocketTypes ==
  /\ conns \in [Handle -> EntryType]
  /\ tcp \in [Handle -> SocketType]
  /\ \A h \in Handle : /\ conns[h].c = None <=> tcp[h].st = "none"
                       /\ Len(tcp[h].tx) <= BufSize /\ Len(tcp[h].rx) <= BufSize

RemoteTypes ==
  /\ sent \in [Conn -> 0..MaxIn]
  /\ rcvd \in [Conn -> Seq(1..MaxOut)]
  /\ finSent \in [Conn -> BOOLEAN]
  /\ finSeen \in [Conn -> BOOLEAN]

LoopTypes ==
  /\ up \in BOOLEAN /\ served \in BOOLEAN
  /\ pc \in {"poll", "service", "cmd", "exited"}
  /\ todo \subseteq Used
  /\ pc # "service" => todo = {}
  /\ pending \subseteq Conn /\ answer \in [Conn -> {"none", "ok", "failed"}]
  /\ crossed \subseteq Conn

TypeInv ==
  /\ TaskTypes /\ ChanTypes /\ SocketTypes /\ RemoteTypes /\ LoopTypes
  /\ cmds \in Seq(CmdType)

LEMMA TypeInvImplies == TypeInv => TypeOK
<1> SUFFICES ASSUME TypeInv PROVE TypeOK
  OBVIOUS
<1>1. cmds \in Seq([op : {"resolve", "connect", "send", "close"}, c : Conn,
                    h : 0..MaxSlot, n : 0..MaxOut])
  <2>1. cmds \in Seq(CmdType)
    BY DEF TypeInv
  <2>2. CmdType \subseteq [op : {"resolve", "connect", "send", "close"}, c : Conn,
                           h : 0..MaxSlot, n : 0..MaxOut]
    BY DEF CmdType
  <2> QED
    BY <2>1, <2>2, SeqSubset
<1>2. /\ conns \in [Handle -> [c : Conn \cup {None}, out : Seq(1..MaxOut),
                               replying : BOOLEAN, closing : BOOLEAN]]
      /\ tcp \in [Handle -> [st : {"none", "synsent", "established", "closewait",
                                   "finwait", "closing", "lastack", "timewait",
                                   "closed"},
                             tx : Seq(1..MaxOut), rx : Seq(1..MaxIn)]]
      /\ \A h \in Handle : conns[h].c = None <=> tcp[h].st = "none"
  BY DEF TypeInv, SocketTypes, EntryType, SocketType, SocketState
<1> QED
  BY <1>1, <1>2 DEF TypeInv, TaskTypes, ChanTypes, RemoteTypes, LoopTypes, TypeOK

LEMMA TypeInit == Init => TypeInv
<1> SUFFICES ASSUME Init PROVE TypeInv
  OBVIOUS
<1> USE NetstackAssumption DEF Init
<1>1. TaskTypes /\ ChanTypes /\ RemoteTypes
  BY DEF TaskTypes, ChanTypes, RemoteTypes
<1>2. SocketTypes
  BY DEF SocketTypes, EntryType, SocketType, NoConn, NoSocket
<1>3. LoopTypes
  BY DEF LoopTypes
<1>4. cmds \in Seq(CmdType)
  OBVIOUS
<1> QED
  BY <1>1, <1>2, <1>3, <1>4 DEF TypeInv

\* A task sends a command.
LEMMA SubmitType ==
  ASSUME TypeInv, NEW c \in Conn, NEW op \in {"resolve", "connect", "send", "close"},
         NEW h \in 0..MaxSlot, NEW n \in 0..MaxOut, Submit(c, op, h, n),
         op \in {"send", "close"} => h \in Handle, op = "send" => n # 0
  PROVE  cmds' \in Seq(CmdType) /\ Cmd(op, c, h, n) \in CmdType
<1>1. Cmd(op, c, h, n) \in CmdType
  BY NetstackAssumption DEF Cmd, CmdType
<1> QED
  BY <1>1 DEF Submit, TypeInv

\* The socket at h changes as iface.poll may change it.
LEMMA SocketBecomesType ==
  ASSUME TypeInv, NEW h \in Handle, NEW s \in SocketType, SocketBecomes(h, s),
         tcp[h].st # "none", s.st # "none", Len(s.tx) <= BufSize, Len(s.rx) <= BufSize,
         RemoteTypes'
  PROVE  TypeInv'
<1>1. UNCHANGED <<up, served, taskVars, chan, eof, cmds, pc, todo, conns, dnsVars, crossed>>
  BY DEF SocketBecomes
<1>2. TaskTypes' /\ ChanTypes'
  BY <1>1 DEF TypeInv, TaskTypes, ChanTypes, taskVars
<1>3. LoopTypes'
  BY <1>1 DEF TypeInv, LoopTypes, Used, dnsVars
<1>4. SocketTypes'
  <2>1. tcp' = [tcp EXCEPT ![h] = s]
    BY DEF SocketBecomes
  <2> QED
    BY <1>1, <2>1 DEF TypeInv, SocketTypes
<1> QED
  BY <1>1, <1>2, <1>3, <1>4 DEF TypeInv

LEMMA SmallerBound ==
  ASSUME NEW a \in Nat, NEW b \in Nat, NEW t \in Nat, t <= b,
         NEW x \in {0, Smaller(a, b - t)}
  PROVE  x \in 0..a /\ x + t <= b
BY DEF Smaller

\* What service_sockets makes of a connection has its type, and there is room
\* for what it moves.
LEMMA ServiceMakes ==
  ASSUME TypeInv, NEW h \in Handle, conns[h].c # None
  PROVE  /\ conns[h].c \in Conn
         /\ ChunksOut(h) \in 0..Len(conns[h].out)
         /\ ChunksOut(h) + Len(tcp[h].tx) <= BufSize
         /\ ChunksIn(h) \in 0..Len(tcp[h].rx)
         /\ ChunksIn(h) + Len(chan[conns[h].c]) <= ChanDepth
         /\ StateAfter(h) \in SocketState
<1>1. /\ conns[h] \in EntryType /\ tcp[h] \in SocketType /\ tcp[h].st # "none"
      /\ Len(tcp[h].tx) <= BufSize /\ Len(tcp[h].rx) <= BufSize
  BY DEF TypeInv, SocketTypes
<1>2. conns[h].c \in Conn
  BY <1>1 DEF EntryType
<1>3. /\ Len(conns[h].out) \in Nat /\ Len(tcp[h].tx) \in Nat /\ Len(tcp[h].rx) \in Nat
      /\ Len(chan[conns[h].c]) \in Nat /\ Len(chan[conns[h].c]) <= ChanDepth
      /\ BufSize \in Nat /\ ChanDepth \in Nat
  BY <1>1, <1>2, NetstackAssumption DEF EntryType, SocketType, TypeInv, ChanTypes
<1>4. /\ ChunksOut(h) \in 0..Len(conns[h].out)
      /\ ChunksOut(h) + Len(tcp[h].tx) <= BufSize
  <2>1. ChunksOut(h) \in {0, Smaller(Len(conns[h].out), BufSize - Len(tcp[h].tx))}
    BY DEF ChunksOut
  <2> QED
    BY <2>1, <1>1, <1>3, SmallerBound
<1>5. /\ ChunksIn(h) \in 0..Len(tcp[h].rx)
      /\ ChunksIn(h) + Len(chan[conns[h].c]) <= ChanDepth
  <2>1. ChunksIn(h) \in {0, Smaller(Len(tcp[h].rx), ChanDepth - Len(chan[conns[h].c]))}
    BY DEF ChunksIn
  <2> QED
    BY <2>1, <1>1, <1>3, SmallerBound
<1>6. tcp[h].st \in SocketState
  BY <1>1 DEF SocketType
<1>7. Closed(tcp[h].st) \in SocketState
  BY <1>6 DEF Closed, SocketState
<1> QED
  BY <1>2, <1>4, <1>5, <1>6, <1>7 DEF StateAfter

LEMMA ServiceType ==
  ASSUME TypeInv, NEW h \in Handle, Service(h)
  PROVE  TypeInv'
<1> DEFINE c == conns[h].c
           k == ChunksOut(h)
           j == ChunksIn(h)
<1>1. pc = "service" /\ h \in todo /\ conns[h].c # None
  BY DEF Service, TypeInv, LoopTypes, Used
<1>2. /\ c \in Conn /\ k \in 0..Len(conns[h].out) /\ k + Len(tcp[h].tx) <= BufSize
      /\ j \in 0..Len(tcp[h].rx) /\ j + Len(chan[c]) <= ChanDepth
      /\ StateAfter(h) \in SocketState
  BY <1>1, ServiceMakes
<1>3. conns[h] \in EntryType /\ tcp[h] \in SocketType
  BY DEF TypeInv, SocketTypes
<1>4. /\ conns[h].out \in Seq(1..MaxOut) /\ tcp[h].tx \in Seq(1..MaxOut)
      /\ tcp[h].rx \in Seq(1..MaxIn) /\ conns[h].replying \in BOOLEAN
      /\ conns[h].closing \in BOOLEAN
  BY <1>3 DEF EntryType, SocketType
<1>5. /\ First(conns[h].out, k) \in Seq(1..MaxOut) /\ Rest(conns[h].out, k) \in Seq(1..MaxOut)
      /\ Len(First(conns[h].out, k)) = k
      /\ First(tcp[h].rx, j) \in Seq(1..MaxIn) /\ Rest(tcp[h].rx, j) \in Seq(1..MaxIn)
      /\ Len(First(tcp[h].rx, j)) = j /\ Len(Rest(tcp[h].rx, j)) = Len(tcp[h].rx) - j
  BY <1>2, <1>4, Split, ZenonT(40)
<1> HIDE DEF c, k, j
<1>6. /\ ConnAfter(h) \in EntryType
      /\ Removed(h) => ConnAfter(h) = NoConn
      /\ ~Removed(h) => ConnAfter(h).c = c
  <2>1. CASE Removed(h)
    BY <2>1 DEF ConnAfter, NoConn, EntryType
  <2>2. CASE ~Removed(h)
    BY <2>2, <1>2, <1>4, <1>5 DEF ConnAfter, EntryType, c, k
  <2> QED
    BY <2>1, <2>2
<1>7. /\ SocketAfter(h) \in SocketType
      /\ Len(SocketAfter(h).tx) <= BufSize /\ Len(SocketAfter(h).rx) <= BufSize
      /\ Removed(h) <=> SocketAfter(h).st = "none"
  <2>1. CASE Removed(h)
    BY <2>1, NetstackAssumption DEF SocketAfter, NoSocket, SocketType
  <2>2. CASE ~Removed(h)
    <3>1. SocketAfter(h) = [st |-> StateAfter(h), rx |-> Rest(tcp[h].rx, j),
                            tx |-> Cat(tcp[h].tx, First(conns[h].out, k))]
      BY <2>2 DEF SocketAfter, Cat, j, k
    <3>2. /\ Cat(tcp[h].tx, First(conns[h].out, k)) \in Seq(1..MaxOut)
          /\ Len(Cat(tcp[h].tx, First(conns[h].out, k))) = Len(tcp[h].tx) + k
      BY <1>4, <1>5, CatType, CatLen
    <3>3. SocketAfter(h) \in SocketType
      BY <3>1, <3>2, <1>2, <1>5 DEF SocketType
    <3>4. Len(Rest(tcp[h].rx, j)) <= BufSize
      <4>1. Len(tcp[h].rx) <= BufSize /\ Len(tcp[h].rx) \in Nat
        BY <1>4 DEF TypeInv, SocketTypes
      <4> QED
        BY <4>1, <1>2, <1>5, NetstackAssumption
    <3>5. Len(Cat(tcp[h].tx, First(conns[h].out, k))) <= BufSize
      BY <3>2, <1>2, <1>4, NetstackAssumption
    <3>6. StateAfter(h) # "none"
      BY <1>2 DEF SocketState
    <3>7. /\ SocketAfter(h).st = StateAfter(h) /\ SocketAfter(h).rx = Rest(tcp[h].rx, j)
          /\ SocketAfter(h).tx = Cat(tcp[h].tx, First(conns[h].out, k))
      BY <3>1
    <3> QED
      BY <3>3, <3>4, <3>5, <3>6, <3>7, <2>2
  <2> QED
    BY <2>1, <2>2
<1>8. SocketTypes'
  <2>1. conns' = [conns EXCEPT ![h] = ConnAfter(h)] /\ tcp' = [tcp EXCEPT ![h] = SocketAfter(h)]
    BY DEF Service
  <2>2. conns' \in [Handle -> EntryType] /\ tcp' \in [Handle -> SocketType]
    BY <2>1, <1>6, <1>7 DEF TypeInv, SocketTypes
  <2>3. conns'[h] = ConnAfter(h) /\ tcp'[h] = SocketAfter(h)
    BY <2>1 DEF TypeInv, SocketTypes
  <2>4. conns'[h].c = None <=> tcp'[h].st = "none"
    BY <2>3, <1>2, <1>6, <1>7, NetstackAssumption DEF NoConn
  <2>5. \A i \in Handle : i # h => conns'[i] = conns[i] /\ tcp'[i] = tcp[i]
    BY <2>1 DEF TypeInv, SocketTypes
  <2> QED
    BY <2>2, <2>3, <2>4, <2>5, <1>7 DEF TypeInv, SocketTypes
<1>9. ChanTypes'
  <2>1. chan' = [chan EXCEPT ![c] = Cat(chan[c], First(tcp[h].rx, j))]
    BY DEF Service, Cat, c, j
  <2>2. chan[c] \in Seq(1..MaxIn)
    BY <1>2 DEF TypeInv, ChanTypes
  <2>3. /\ Cat(chan[c], First(tcp[h].rx, j)) \in Seq(1..MaxIn)
        /\ Len(Cat(chan[c], First(tcp[h].rx, j))) = Len(chan[c]) + j
    BY <2>2, <1>5, CatType, CatLen
  <2>4. Len(Cat(chan[c], First(tcp[h].rx, j))) <= ChanDepth
    BY <2>2, <2>3, <1>2, NetstackAssumption
  <2>5. eof' = [eof EXCEPT ![c] = Removed(h)] /\ Removed(h) \in BOOLEAN
    BY DEF Service, c, Removed
  <2> QED
    BY <2>1, <2>3, <2>4, <2>5, <1>2 DEF TypeInv, ChanTypes
<1>10. TaskTypes'
  <2>1. /\ task' = [task EXCEPT ![c] = TaskAfter(h)]
        /\ handle' = [handle EXCEPT ![c] = IF TaskAfter(h) # task[c] THEN h ELSE handle[c]]
        /\ UNCHANGED <<wrote, got>>
    BY DEF Service, c
  <2>2. TaskAfter(h) \in {task[c], "relay", "done"}
    BY DEF TaskAfter, c
  <2>3. h \in 0..MaxSlot
    BY NetstackAssumption DEF Handle
  <2> QED
    BY <2>1, <2>2, <2>3, <1>2 DEF TypeInv, TaskTypes
<1>11. LoopTypes'
  <2>1. /\ todo' = todo \ {h} /\ conns' = [conns EXCEPT ![h] = ConnAfter(h)]
        /\ UNCHANGED <<up, served, pc, pending, answer, crossed>>
    BY DEF Service, dnsVars
  <2>2. \A i \in Handle : i # h => conns'[i] = conns[i]
    BY <2>1 DEF TypeInv, SocketTypes
  <2>3. todo' \subseteq Used'
    BY <2>1, <2>2 DEF TypeInv, LoopTypes, Used
  <2> QED
    BY <1>1, <2>1, <2>3 DEF TypeInv, LoopTypes
<1>12. RemoteTypes' /\ cmds' \in Seq(CmdType)
  BY DEF Service, remoteVars, TypeInv, RemoteTypes
<1> QED
  BY <1>8, <1>9, <1>10, <1>11, <1>12 DEF TypeInv

\* The steps of tasks and of the tunnel leave the sockets alone.
LEMMA TaskStepType ==
  ASSUME TypeInv, NEW c \in Conn,
         Resolve(c) \/ Write(c) \/ LocalEnd(c) \/ Abandon(c) \/ TaskStep(c)
  PROVE  TypeInv'
<1>1. /\ UNCHANGED <<up, served, eof, pc, todo, conns, tcp, dnsVars, remoteVars, crossed>>
      /\ UNCHANGED handle
  BY DEF Resolve, Write, LocalEnd, Abandon, TaskStep, Connect, Read, RemoteEnd,
     RelayDrop, taskVars
<1>2. SocketTypes' /\ RemoteTypes' /\ LoopTypes'
  BY <1>1 DEF TypeInv, SocketTypes, RemoteTypes, LoopTypes, remoteVars, dnsVars, Used
<1>3. /\ handle[c] \in 0..MaxSlot /\ wrote[c] \in 0..MaxOut
      /\ task[c] \in {"relay", "ending"} => handle[c] \in Handle
      /\ 0 \in 0..MaxSlot /\ 0 \in 0..MaxOut
  BY NetstackAssumption DEF TypeInv, TaskTypes
<1>4. CASE Resolve(c)
  <2>1. cmds' \in Seq(CmdType)
    BY <1>3, <1>4, SubmitType DEF Resolve
  <2>2. TaskTypes' /\ ChanTypes'
    BY <1>1, <1>4 DEF Resolve, TypeInv, TaskTypes, ChanTypes
  <2> QED
    BY <1>2, <2>1, <2>2 DEF TypeInv
<1>5. CASE Connect(c)
  <2>1. cmds' \in Seq(CmdType)
    BY <1>3, <1>5, SubmitType DEF Connect
  <2>2. TaskTypes' /\ ChanTypes'
    BY <1>1, <1>5 DEF Connect, TypeInv, TaskTypes, ChanTypes
  <2> QED
    BY <1>2, <2>1, <2>2 DEF TypeInv
<1>6. CASE Write(c)
  <2>0. wrote[c] + 1 \in 0..MaxOut /\ wrote[c] + 1 # 0
    BY <1>3, <1>6, NetstackAssumption DEF Write
  <2>1. cmds' \in Seq(CmdType)
    BY <1>3, <1>6, <2>0, SubmitType DEF Write
  <2>2. TaskTypes' /\ ChanTypes'
    BY <1>1, <1>6, <2>0 DEF Write, TypeInv, TaskTypes, ChanTypes
  <2> QED
    BY <1>2, <2>1, <2>2 DEF TypeInv
<1>7. CASE Read(c)
  <2>0. got[c] \in Seq(1..MaxIn) /\ chan[c] \in Seq(1..MaxIn) /\ chan[c] # <<>>
    BY <1>7 DEF Read, TypeInv, TaskTypes, ChanTypes
  <2>1. /\ Append(got[c], Head(chan[c])) \in Seq(1..MaxIn) /\ Tail(chan[c]) \in Seq(1..MaxIn)
        /\ Len(Tail(chan[c])) = Len(chan[c]) - 1 /\ Len(chan[c]) \in Nat
    BY <2>0, MoveOneType
  <2>2. Len(Tail(chan[c])) <= ChanDepth
    BY <2>1, NetstackAssumption DEF TypeInv, ChanTypes
  <2>3. TaskTypes'
    BY <1>1, <1>7, <2>1 DEF Read, TypeInv, TaskTypes
  <2>4. ChanTypes'
    BY <1>1, <1>7, <2>1, <2>2 DEF Read, TypeInv, ChanTypes
  <2> QED
    BY <1>2, <1>7, <2>3, <2>4 DEF TypeInv, Read
<1>8. CASE LocalEnd(c)
  <2>1. cmds' \in Seq(CmdType)
    <3>1. CASE Submit(c, "close", handle[c], 0)
      BY <1>3, <1>8, <3>1, SubmitType DEF LocalEnd
    <3> QED
      BY <1>8, <3>1 DEF LocalEnd, TypeInv
  <2>2. TaskTypes' /\ ChanTypes'
    BY <1>1, <1>8 DEF LocalEnd, TypeInv, TaskTypes, ChanTypes
  <2> QED
    BY <1>2, <2>1, <2>2 DEF TypeInv
<1>9. CASE RemoteEnd(c)
  BY <1>1, <1>2, <1>9 DEF RemoteEnd, TypeInv, TaskTypes, ChanTypes
<1>10. CASE RelayDrop(c)
  <2>1. cmds' \in Seq(CmdType)
    BY <1>3, <1>10, SubmitType DEF RelayDrop
  <2>2. TaskTypes' /\ ChanTypes'
    BY <1>1, <1>10 DEF RelayDrop, TypeInv, TaskTypes, ChanTypes
  <2> QED
    BY <1>2, <2>1, <2>2 DEF TypeInv
<1>11. CASE Abandon(c)
  BY <1>1, <1>2, <1>11 DEF Abandon, TypeInv, TaskTypes, ChanTypes
<1> QED
  BY <1>4, <1>5, <1>6, <1>7, <1>8, <1>9, <1>10, <1>11 DEF TaskStep

\* What iface.poll does.
LEMMA PollStepType ==
  ASSUME TypeInv, NEW h \in Handle,
         RemoteSends(h) \/ RemoteFin(h) \/ Reset(h) \/ NetworkStep(h)
  PROVE  TypeInv'
<1> DEFINE c == conns[h].c
<1>1. /\ tcp[h] \in SocketType /\ tcp[h].st # "none" /\ conns[h].c \in Conn
      /\ Len(tcp[h].tx) <= BufSize /\ Len(tcp[h].rx) <= BufSize
  BY DEF RemoteSends, RemoteFin, Reset, NetworkStep, SynAck, Delivered, FinDelivered,
     TimeWaitOver, Polling, TypeInv, SocketTypes, EntryType
<1>2. /\ tcp[h].tx \in Seq(1..MaxOut) /\ tcp[h].rx \in Seq(1..MaxIn)
      /\ tcp[h].st \in SocketState
  BY <1>1 DEF SocketType
<1>3. ASSUME NEW st \in SocketState, SocketBecomes(h, Moved(h, st)), RemoteTypes'
      PROVE  TypeInv'
  <2>1. /\ Moved(h, st) \in SocketType /\ Moved(h, st).st # "none"
        /\ Moved(h, st).tx = tcp[h].tx /\ Moved(h, st).rx = tcp[h].rx
    BY <1>2 DEF Moved, SocketType, SocketState
  <2> QED
    BY <1>1, <1>3, <2>1, SocketBecomesType
<1>4. UNCHANGED remoteVars => RemoteTypes'
  BY DEF remoteVars, TypeInv, RemoteTypes
<1>5. CASE SynAck(h)
  BY <1>3, <1>4, <1>5 DEF SynAck, SocketState
<1>6. CASE Reset(h)
  BY <1>3, <1>4, <1>6 DEF Reset, SocketState
<1>7. CASE TimeWaitOver(h)
  BY <1>3, <1>4, <1>7 DEF TimeWaitOver, SocketState
<1>8. CASE RemoteSends(h)
  <2>1. sent[c] + 1 \in 1..MaxIn /\ sent' = [sent EXCEPT ![c] = sent[c] + 1]
    BY <1>1, <1>8, NetstackAssumption DEF RemoteSends, TypeInv, RemoteTypes
  <2>2. RemoteTypes'
    BY <1>1, <1>8, <2>1 DEF RemoteSends, TypeInv, RemoteTypes
  <2> DEFINE s == [st |-> tcp[h].st, tx |-> tcp[h].tx, rx |-> Append(tcp[h].rx, sent[c] + 1)]
  <2>3. SocketBecomes(h, s)
    BY <1>8 DEF RemoteSends
  <2>4. /\ Append(tcp[h].rx, sent[c] + 1) \in Seq(1..MaxIn)
        /\ Len(Append(tcp[h].rx, sent[c] + 1)) = Len(tcp[h].rx) + 1
        /\ Len(tcp[h].rx) < BufSize /\ Len(tcp[h].rx) \in Nat
    BY <1>2, <1>8, <2>1 DEF RemoteSends
  <2>5. s \in SocketType /\ s.st # "none" /\ s.tx = tcp[h].tx /\ Len(s.rx) <= BufSize
    BY <1>2, <2>4, NetstackAssumption DEF SocketType, SocketState
  <2> HIDE DEF s
  <2> QED
    BY <1>1, <2>2, <2>3, <2>5, SocketBecomesType
<1>9. CASE RemoteFin(h)
  <2>1. RemoteTypes'
    BY <1>1, <1>9 DEF RemoteFin, TypeInv, RemoteTypes
  <2> QED
    BY <1>3, <1>9, <2>1 DEF RemoteFin, SocketState
<1>10. CASE Delivered(h)
  <2>1. /\ Append(rcvd[c], Head(tcp[h].tx)) \in Seq(1..MaxOut)
        /\ Tail(tcp[h].tx) \in Seq(1..MaxOut)
        /\ Len(Tail(tcp[h].tx)) = Len(tcp[h].tx) - 1 /\ Len(tcp[h].tx) \in Nat
    <3>1. rcvd[c] \in Seq(1..MaxOut) /\ tcp[h].tx # <<>>
      BY <1>1, <1>10 DEF Delivered, TypeInv, RemoteTypes
    <3> QED
      BY <1>2, <3>1, MoveOneType
  <2>2. RemoteTypes'
    BY <1>1, <1>10, <2>1 DEF Delivered, TypeInv, RemoteTypes
  <2> DEFINE s == [st |-> tcp[h].st, tx |-> Tail(tcp[h].tx), rx |-> tcp[h].rx]
  <2>3. SocketBecomes(h, s)
    BY <1>10 DEF Delivered
  <2>4. s \in SocketType /\ s.st # "none" /\ s.rx = tcp[h].rx /\ Len(s.tx) <= BufSize
    BY <1>1, <1>2, <2>1, NetstackAssumption DEF SocketType, SocketState
  <2> HIDE DEF s
  <2> QED
    BY <1>1, <2>2, <2>3, <2>4, SocketBecomesType
<1>11. CASE FinDelivered(h)
  <2>1. RemoteTypes'
    BY <1>1, <1>11 DEF FinDelivered, TypeInv, RemoteTypes
  <2> QED
    BY <1>3, <1>11, <2>1 DEF FinDelivered, SocketState
<1> QED
  BY <1>5, <1>6, <1>7, <1>8, <1>9, <1>10, <1>11 DEF NetworkStep

\* The command at the head of the queue.
LEMMA HeadCmd ==
  ASSUME TypeInv, NEW op, Receive(op)
  PROVE  /\ pc = "cmd" /\ todo = {} /\ cmds # <<>> /\ Head(cmds) \in CmdType
         /\ Head(cmds).op = op /\ Head(cmds).c \in Conn
         /\ op \in {"send", "close"} => Head(cmds).h \in Handle
         /\ op = "send" => Head(cmds).n \in 1..MaxOut
         /\ cmds' = Tail(cmds) /\ cmds' \in Seq(CmdType)
<1>1. cmds \in Seq(CmdType) /\ cmds # <<>> /\ pc = "cmd" /\ Head(cmds).op = op
  BY DEF TypeInv, Receive
<1>2. Head(cmds) \in CmdType /\ Tail(cmds) \in Seq(CmdType)
  BY <1>1, TailEntries
<1> QED
  BY <1>1, <1>2 DEF CmdType, Receive, TypeInv, LoopTypes

LEMMA CmdStepType ==
  ASSUME TypeInv, HandleResolve \/ HandleConnect \/ HandleSend \/ HandleClose
  PROVE  TypeInv'
<1> DEFINE m == Head(cmds)
<1>1. CASE HandleResolve
  <2>1. pc = "cmd" /\ m.c \in Conn /\ cmds' \in Seq(CmdType)
    BY <1>1, HeadCmd DEF HandleResolve
  <2>2. pending' \subseteq Conn
    BY <1>1, <2>1 DEF HandleResolve, TypeInv, LoopTypes
  <2>3. TaskTypes'
    BY <1>1, <2>1 DEF HandleResolve, Answered, TypeInv, TaskTypes
  <2>4. LoopTypes'
    BY <1>1, <2>2 DEF HandleResolve, TypeInv, LoopTypes, Used
  <2> QED
    BY <1>1, <2>1, <2>3, <2>4
    DEF HandleResolve, TypeInv, ChanTypes, SocketTypes, RemoteTypes, remoteVars
<1>2. CASE HandleConnect
  <2>1. todo = {} /\ m.c \in Conn /\ cmds' \in Seq(CmdType)
    BY <1>2, HeadCmd DEF HandleConnect
  <2>2. TaskTypes'
    BY <1>2, <2>1 DEF HandleConnect, Answered, TypeInv, TaskTypes
  <2>3. ChanTypes'
    BY <1>2, <2>1 DEF HandleConnect, TypeInv, ChanTypes
  <2>4. SocketTypes'
    <3>1. ASSUME NEW h \in Handle,
                 conns' = [conns EXCEPT ![h] = [c |-> m.c, out |-> <<>>,
                                                replying |-> TRUE, closing |-> FALSE]],
                 tcp' = [tcp EXCEPT ![h] = [st |-> "synsent", tx |-> <<>>, rx |-> <<>>]]
          PROVE  SocketTypes'
      <4> DEFINE e == [c |-> m.c, out |-> <<>>, replying |-> TRUE, closing |-> FALSE]
                 s == [st |-> "synsent", tx |-> <<>>, rx |-> <<>>]
      <4>1. e \in EntryType /\ e.c \in Conn
        BY <2>1 DEF EntryType
      <4>2. s \in SocketType /\ s.st # "none" /\ Len(s.tx) <= BufSize /\ Len(s.rx) <= BufSize
        BY NetstackAssumption DEF SocketType, SocketState
      <4> HIDE DEF e, s
      <4>3. conns' = [conns EXCEPT ![h] = e] /\ tcp' = [tcp EXCEPT ![h] = s]
        BY <3>1 DEF e, s
      <4> QED
        BY <4>1, <4>2, <4>3, NetstackAssumption DEF TypeInv, SocketTypes
    <3>2. CASE UNCHANGED <<conns, tcp>>
      BY <3>2 DEF TypeInv, SocketTypes
    <3> QED
      BY <1>2, <3>1, <3>2 DEF HandleConnect
  <2>5. LoopTypes'
    BY <1>2, <2>1 DEF HandleConnect, TypeInv, LoopTypes, dnsVars
  <2> QED
    BY <1>2, <2>1, <2>2, <2>3, <2>4, <2>5
    DEF HandleConnect, TypeInv, RemoteTypes, remoteVars
<1>3. ASSUME NEW e \in EntryType, m.h \in Handle,
             conns' = [conns EXCEPT ![m.h] = e], e.c = conns[m.h].c,
             crossed' = crossed \cup ({conns[m.h].c} \ {None, m.c}),
             cmds' \in Seq(CmdType), todo = {},
             UNCHANGED <<up, served, taskVars, chan, eof, pc, todo, tcp, dnsVars, remoteVars>>
      PROVE  TypeInv'
  <2>1. TaskTypes' /\ ChanTypes' /\ RemoteTypes'
    BY <1>3 DEF TypeInv, TaskTypes, ChanTypes, RemoteTypes, taskVars, remoteVars
  <2>2. SocketTypes'
    BY <1>3 DEF TypeInv, SocketTypes
  <2>3. conns[m.h].c \in Conn \cup {None}
    BY <1>3 DEF TypeInv, SocketTypes, EntryType
  <2>4. LoopTypes'
    BY <1>3, <2>3 DEF TypeInv, LoopTypes, dnsVars
  <2> QED
    BY <1>3, <2>1, <2>2, <2>4 DEF TypeInv
<1>4. m.h \in Handle => conns[m.h] \in EntryType
  BY DEF TypeInv, SocketTypes
<1>5. CASE HandleSend
  <2>1. todo = {} /\ m.h \in Handle /\ m.n \in 1..MaxOut /\ cmds' \in Seq(CmdType)
    BY <1>5, HeadCmd DEF HandleSend
  <2> DEFINE e == IF conns[m.h].c = None THEN NoConn
                  ELSE [c |-> conns[m.h].c, out |-> Append(conns[m.h].out, m.n),
                        replying |-> conns[m.h].replying, closing |-> conns[m.h].closing]
  <2>2. conns' = [conns EXCEPT ![m.h] = e]
    BY <1>5 DEF HandleSend
  <2>3. e \in EntryType /\ e.c = conns[m.h].c
    <3>1. CASE conns[m.h].c = None
      BY <3>1 DEF EntryType, NoConn
    <3>2. CASE conns[m.h].c # None
      <4>1. Append(conns[m.h].out, m.n) \in Seq(1..MaxOut)
        BY <1>4, <2>1 DEF EntryType
      <4> QED
        BY <1>4, <2>1, <3>2, <4>1 DEF EntryType
    <3> QED
      BY <3>1, <3>2
  <2> HIDE DEF e
  <2> QED
    BY <1>3, <1>5, <2>1, <2>2, <2>3 DEF HandleSend
<1>6. CASE HandleClose
  <2>1. todo = {} /\ m.h \in Handle /\ cmds' \in Seq(CmdType)
    BY <1>6, HeadCmd DEF HandleClose
  <2> DEFINE e == IF conns[m.h].c = None THEN NoConn
                  ELSE [c |-> conns[m.h].c, out |-> conns[m.h].out,
                        replying |-> conns[m.h].replying, closing |-> TRUE]
  <2>2. conns' = [conns EXCEPT ![m.h] = e]
    BY <1>6 DEF HandleClose
  <2>3. e \in EntryType /\ e.c = conns[m.h].c
    BY <1>4, <2>1 DEF EntryType, NoConn
  <2> HIDE DEF e
  <2> QED
    BY <1>3, <1>6, <2>1, <2>2, <2>3 DEF HandleClose
<1> QED
  BY <1>1, <1>2, <1>5, <1>6

LEMMA TypeStep == TypeInv /\ [Next]_vars => TypeInv'
<1> SUFFICES ASSUME TypeInv, [Next]_vars PROVE TypeInv'
  OBVIOUS
<1>1. ASSUME NEW c \in Conn,
             Resolve(c) \/ Write(c) \/ LocalEnd(c) \/ Abandon(c) \/ TaskStep(c)
      PROVE  TypeInv'
  BY <1>1, TaskStepType
<1>2. ASSUME NEW h \in Handle,
             RemoteSends(h) \/ RemoteFin(h) \/ Reset(h) \/ NetworkStep(h)
      PROVE  TypeInv'
  BY <1>2, PollStepType
<1>3. ASSUME NEW h \in Handle, Service(h) PROVE TypeInv'
  BY <1>3, ServiceType
<1>4. CASE HandleResolve \/ HandleConnect \/ HandleSend \/ HandleClose
  BY <1>4, CmdStepType
<1>5. ASSUME UNCHANGED <<taskVars, chan, eof, cmds, conns, tcp, remoteVars>>, LoopTypes'
      PROVE  TypeInv'
  BY <1>5 DEF TypeInv, TaskTypes, ChanTypes, SocketTypes, RemoteTypes, taskVars, remoteVars
<1>6. ASSUME NEW c \in Conn, QueryDone(c) PROVE TypeInv'
  BY <1>5, <1>6 DEF QueryDone, TypeInv, LoopTypes, Used
<1>7. CASE Withdraw \/ TunnelLost
  BY <1>5, <1>7 DEF Withdraw, TunnelLost, TypeInv, LoopTypes, Used, dnsVars
<1>8. CASE Polled \/ NoMoreCommands
  BY <1>5, <1>8 DEF Polled, NoMoreCommands, TypeInv, LoopTypes, Used, dnsVars
<1>9. CASE ServiceDns
  <2>1. TaskTypes'
    BY <1>9 DEF ServiceDns, TypeInv, TaskTypes
  <2>2. LoopTypes'
    BY <1>9 DEF ServiceDns, TypeInv, LoopTypes, Used
  <2> QED
    BY <1>9, <2>1, <2>2
    DEF ServiceDns, TypeInv, ChanTypes, SocketTypes, RemoteTypes, remoteVars
<1>10. CASE ActorExit
  <2>1. LoopTypes'
    BY <1>10 DEF ActorExit, TypeInv, LoopTypes, Used
  <2>2. SocketTypes'
    <3>1. NoConn \in EntryType /\ NoConn.c = None
      BY DEF NoConn, EntryType
    <3>2. /\ NoSocket \in SocketType /\ NoSocket.st = "none"
          /\ Len(NoSocket.tx) <= BufSize /\ Len(NoSocket.rx) <= BufSize
      BY NetstackAssumption DEF NoSocket, SocketType
    <3> QED
      BY <1>10, <3>1, <3>2 DEF ActorExit, SocketTypes
  <2>3. ChanTypes'
    BY <1>10 DEF ActorExit, TypeInv, ChanTypes
  <2> QED
    BY <1>10, <2>1, <2>2, <2>3
    DEF ActorExit, TypeInv, TaskTypes, RemoteTypes, remoteVars, taskVars
<1>11. CASE UNCHANGED vars
  BY <1>5, <1>11 DEF vars, TypeInv, LoopTypes, Used, dnsVars
<1> QED
  BY <1>1, <1>2, <1>3, <1>4, <1>6, <1>7, <1>8, <1>9, <1>10, <1>11 DEF Next, ActorStep

\* No channel and no socket buffer holds more than it has room for.
WithinRoom ==
  /\ \A c \in Conn : Len(chan[c]) <= ChanDepth
  /\ \A h \in Handle : Len(tcp[h].tx) <= BufSize /\ Len(tcp[h].rx) <= BufSize

\* Every variable keeps its type, the actor's two maps have the same handles,
\* so that no get_mut or expect of the actor panics, and neither a from_net
\* channel nor a socket buffer overflows.
THEOREM NetstackTypeCorrect == Spec => [](TypeOK /\ WithinRoom)
<1>1. TypeInv => TypeOK /\ WithinRoom
  BY TypeInvImplies DEF TypeInv, ChanTypes, SocketTypes, WithinRoom
<1> QED
  BY <1>1, TypeInit, TypeStep, PTL DEF Spec

-----------------------------------------------------------------------------
(* Layer 2: whose socket it is.                                            *)

\* Nothing has happened to the connection of c.
Untouched(c) ==
  /\ handle[c] = 0 /\ wrote[c] = 0 /\ sent[c] = 0 /\ ~finSeen[c]
  /\ got[c] = <<>> /\ chan[c] = <<>> /\ rcvd[c] = <<>>
  /\ \A h \in Handle : conns[h].c # c

Waits(c) == task[c] \in {"idle", "resolving", "resolved"}

\* The connection begins with the actor's handling of the one connect command.
Begins ==
  /\ \A c \in Conn : Waits(c) => Untouched(c)
  /\ \A c \in Conn : task[c] = "connecting" => handle[c] = 0
  /\ \A i \in DOMAIN cmds, c \in Conn :
       (cmds[i].op = "connect" /\ cmds[i].c = c) => Untouched(c) /\ ~Waits(c)
  /\ \A i, j \in DOMAIN cmds :
       (cmds[i].op = "connect" /\ cmds[j].op = "connect" /\ cmds[i].c = cmds[j].c)
         => i = j

\* A connection has one socket, and its task and commands know no other.
OneSocket ==
  /\ \A h, k \in Handle : (conns[h].c # None /\ conns[h].c = conns[k].c) => h = k
  /\ \A h \in Handle :
       (conns[h].c # None /\ handle[conns[h].c] # 0) => handle[conns[h].c] = h
  /\ \A i \in DOMAIN cmds :
       cmds[i].op \in {"send", "close"} => cmds[i].h = handle[cmds[i].c]

OwnInv == Begins /\ OneSocket

\* A step that opens no connection: it takes the first d commands off the
\* queue and may add commands of connected tasks.
QueueMoves(d) ==
  \A i \in DOMAIN cmds' :
    \/ i + d \in DOMAIN cmds /\ cmds'[i] = cmds[i + d]
    \/ /\ cmds'[i].op # "connect"
       /\ cmds'[i].op \in {"send", "close"} => cmds'[i].h = handle'[cmds'[i].c]

NothingBegins(d) ==
  /\ QueueMoves(d)
  /\ \A c \in Conn : Untouched(c) => Untouched(c)'
  /\ \A c \in Conn : Waits(c)' => Waits(c)
  /\ \A c \in Conn : task'[c] = "connecting"
                       => task[c] = "connecting" /\ handle'[c] = handle[c]
  /\ \A c \in Conn : \/ handle'[c] = handle[c]
                     \/ /\ handle[c] = 0
                        /\ \E h \in Handle : conns[h].c = c /\ handle'[c] = h
  /\ \A h \in Handle : conns'[h].c \in {None, conns[h].c}

LEMMA NothingBegins1 ==
  ASSUME TypeInv, OwnInv, NEW d \in {0, 1}, NothingBegins(d), TypeInv'
  PROVE  OwnInv'
<1> USE DEF OwnInv
<1>0. /\ \A i \in DOMAIN cmds : cmds[i] \in CmdType /\ i \in Nat
      /\ \A i \in DOMAIN cmds' : cmds'[i] \in CmdType /\ i \in Nat
  BY DEF TypeInv
<1>1. /\ \A i \in DOMAIN cmds : /\ cmds[i].c \in Conn
                                /\ cmds[i].op \in {"send", "close"} => cmds[i].h # 0
      /\ \A i \in DOMAIN cmds' : cmds'[i].c \in Conn
  BY <1>0 DEF CmdType, Handle
<1>2. /\ \A c \in Conn : Waits(c)' => Untouched(c)'
      /\ \A c \in Conn : task'[c] = "connecting" => handle'[c] = 0
  BY DEF NothingBegins, QueueMoves, Begins
<1>3. \A i \in DOMAIN cmds' : cmds'[i].op = "connect" =>
        i + d \in DOMAIN cmds /\ cmds'[i] = cmds[i + d]
  BY DEF NothingBegins, QueueMoves
<1>4. \A i \in DOMAIN cmds', c \in Conn :
        (cmds'[i].op = "connect" /\ cmds'[i].c = c) => Untouched(c)' /\ ~Waits(c)'
  BY <1>1, <1>3 DEF NothingBegins, QueueMoves, Begins
<1>5. \A i, j \in DOMAIN cmds' :
       (cmds'[i].op = "connect" /\ cmds'[j].op = "connect" /\ cmds'[i].c = cmds'[j].c)
         => i = j
  <2> SUFFICES ASSUME NEW i \in DOMAIN cmds', NEW j \in DOMAIN cmds',
                      cmds'[i].op = "connect", cmds'[j].op = "connect",
                      cmds'[i].c = cmds'[j].c
               PROVE  i = j
    OBVIOUS
  <2>1. i + d = j + d
    BY <1>3 DEF Begins
  <2> QED
    BY <1>0, <2>1
<1>6. Begins'
  BY <1>2, <1>4, <1>5 DEF Begins
<1>7. \A h, k \in Handle : (conns'[h].c # None /\ conns'[h].c = conns'[k].c) => h = k
  BY DEF NothingBegins, QueueMoves, OneSocket
<1>8. \A h \in Handle :
        (conns'[h].c # None /\ handle'[conns'[h].c] # 0) => handle'[conns'[h].c] = h
  <2> SUFFICES ASSUME NEW h \in Handle, conns'[h].c # None,
                      handle'[conns'[h].c] # 0
               PROVE  handle'[conns'[h].c] = h
    OBVIOUS
  <2>1. conns'[h].c = conns[h].c /\ conns[h].c \in Conn
    BY DEF NothingBegins, QueueMoves, TypeInv, SocketTypes, EntryType
  <2> QED
    BY <2>1 DEF NothingBegins, QueueMoves, OneSocket
<1>9. \A i \in DOMAIN cmds' :
        cmds'[i].op \in {"send", "close"} => cmds'[i].h = handle'[cmds'[i].c]
  <2> SUFFICES ASSUME NEW i \in DOMAIN cmds', cmds'[i].op \in {"send", "close"},
                      i + d \in DOMAIN cmds, cmds'[i] = cmds[i + d]
               PROVE  cmds'[i].h = handle'[cmds'[i].c]
    BY DEF NothingBegins, QueueMoves
  <2>1. cmds[i + d].h = handle[cmds[i + d].c] /\ cmds[i + d].h # 0
    BY <1>1 DEF OneSocket
  <2> QED
    BY <1>1, <2>1 DEF NothingBegins, QueueMoves
<1> QED
  BY <1>6, <1>7, <1>8, <1>9 DEF OneSocket

LEMMA OwnInit == Init => OwnInv
BY NetstackAssumption
DEF Init, OwnInv, Begins, OneSocket, Untouched, NoConn, Handle

\* The queue after a command of a connected task, and after the actor took
\* one off.
LEMMA QueueGrows ==
  ASSUME TypeInv, NEW m \in CmdType, cmds' = Append(cmds, m), m.op # "connect",
         m.op \in {"send", "close"} => m.h = handle'[m.c]
  PROVE  QueueMoves(0)
<1>1. cmds \in Seq(CmdType)
  BY DEF TypeInv
<1>2. \A i \in DOMAIN cmds' : (i \in DOMAIN cmds /\ cmds'[i] = cmds[i]) \/ cmds'[i] = m
  BY <1>1, AppendEntries
<1>3. \A i \in DOMAIN cmds : i + 0 = i
  BY <1>1
<1> QED
  BY <1>2, <1>3 DEF QueueMoves

LEMMA QueueShrinks ==
  ASSUME TypeInv, cmds # <<>>, cmds' = Tail(cmds)
  PROVE  QueueMoves(1)
BY TailEntries DEF TypeInv, QueueMoves

LEMMA QueueSame ==
  ASSUME TypeInv, UNCHANGED cmds
  PROVE  QueueMoves(0)
<1>1. \A i \in DOMAIN cmds : i + 0 = i
  BY DEF TypeInv
<1> QED
  BY <1>1 DEF QueueMoves

LEMMA SubmitMoves ==
  ASSUME TypeInv, NEW c \in Conn, NEW op \in {"resolve", "send", "close"},
         NEW h \in 0..MaxSlot, NEW n \in 0..MaxOut, Submit(c, op, h, n),
         op \in {"send", "close"} => h = handle[c] /\ h \in Handle,
         op = "send" => n # 0, UNCHANGED handle
  PROVE  QueueMoves(0)
<1> DEFINE m == Cmd(op, c, h, n)
<1>1. m \in CmdType
  BY SubmitType
<1>2. m.op = op /\ m.c = c /\ m.h = h
  BY DEF Cmd
<1>3. cmds' = Append(cmds, m)
  BY DEF Submit
<1>4. m.op # "connect" /\ (m.op \in {"send", "close"} => m.h = handle'[m.c])
  BY <1>2
<1> HIDE DEF m
<1> QED
  BY <1>1, <1>3, <1>4, QueueGrows

LEMMA TaskStepOwn ==
  ASSUME TypeInv, TypeInv', OwnInv, NEW c \in Conn,
         Resolve(c) \/ Write(c) \/ LocalEnd(c) \/ Abandon(c) \/ Read(c) \/ RemoteEnd(c)
           \/ RelayDrop(c)
  PROVE  OwnInv'
<1>0. /\ UNCHANGED <<handle, conns, sent, finSeen, rcvd>>
      /\ task[c] \in {"relay", "ending"} => handle[c] # 0
      /\ handle[c] \in 0..MaxSlot /\ wrote[c] \in 0..MaxOut
      /\ task \in [Conn -> {"idle", "resolving", "resolved", "connecting", "relay",
                            "ending", "done"}]
  BY DEF Resolve, Write, LocalEnd, Abandon, Read, RemoteEnd, RelayDrop, taskVars,
     remoteVars, TypeInv, TaskTypes, Handle
<1>1. QueueMoves(0)
  <2>1. CASE UNCHANGED cmds
    BY <2>1, QueueSame
  <2>3. /\ 0 \in 0..MaxSlot /\ 0 \in 0..MaxOut
        /\ task[c] \in {"relay", "ending"} => handle[c] \in Handle
    BY NetstackAssumption DEF TypeInv, TaskTypes
  <2>4. CASE Resolve(c)
    <3>1. Submit(c, "resolve", 0, 0)
      BY <2>4 DEF Resolve
    <3> QED
      BY <1>0, <2>3, <3>1, SubmitMoves
  <2>5. CASE Write(c)
    <3>1. wrote[c] + 1 \in 0..MaxOut /\ wrote[c] + 1 # 0
      BY <1>0, <2>5, NetstackAssumption DEF Write
    <3>2. Submit(c, "send", handle[c], wrote[c] + 1) /\ task[c] = "relay"
      BY <2>5 DEF Write
    <3> QED
      BY <1>0, <2>3, <3>1, <3>2, SubmitMoves
  <2>6. CASE LocalEnd(c) \/ RelayDrop(c)
    <3>1. Submit(c, "close", handle[c], 0) \/ UNCHANGED cmds
      BY <2>6 DEF LocalEnd, RelayDrop
    <3>2. task[c] \in {"relay", "ending"}
      BY <2>6 DEF LocalEnd, RelayDrop
    <3>3. CASE Submit(c, "close", handle[c], 0)
      BY <1>0, <2>3, <3>2, <3>3, SubmitMoves
    <3> QED
      BY <2>1, <3>1, <3>3
  <2>8. CASE Abandon(c) \/ Read(c) \/ RemoteEnd(c)
    BY <2>1, <2>8 DEF Abandon, Read, RemoteEnd
  <2> QED
    BY <2>4, <2>5, <2>6, <2>8
<1>2. \A x \in Conn : Untouched(x) => Untouched(x)'
  <2>1. CASE UNCHANGED <<wrote, got, chan>>
    BY <1>0, <2>1 DEF Untouched
  <2>2. CASE Write(c) \/ Read(c)
    <3>1. \A x \in Conn : x # c => /\ wrote'[x] = wrote[x] /\ got'[x] = got[x]
                                   /\ chan'[x] = chan[x]
      BY <2>2 DEF Write, Read, TypeInv, TaskTypes, ChanTypes
    <3>2. ~Untouched(c)
      BY <1>0, <2>2 DEF Write, Read, Untouched
    <3> QED
      BY <1>0, <3>1, <3>2 DEF Untouched
  <2> QED
    BY <2>1, <2>2 DEF Resolve, LocalEnd, Abandon, RemoteEnd, RelayDrop
<1>3. \A x \in Conn : /\ Waits(x)' => Waits(x)
                      /\ task'[x] = "connecting" => task[x] = "connecting"
  BY <1>0 DEF Waits, Resolve, Write, LocalEnd, Abandon, Read, RemoteEnd, RelayDrop
<1>4. NothingBegins(0)
  BY <1>0, <1>1, <1>2, <1>3 DEF NothingBegins
<1> QED
  BY <1>4, NothingBegins1

\* iface.poll changes the socket at h and what its host has seen.
LEMMA PollStepOwn ==
  ASSUME TypeInv, TypeInv', OwnInv, NEW h \in Handle,
         RemoteSends(h) \/ RemoteFin(h) \/ Reset(h) \/ NetworkStep(h)
  PROVE  OwnInv'
<1>1. UNCHANGED <<task, handle, wrote, got, chan, conns, cmds>>
  BY DEF RemoteSends, RemoteFin, Reset, NetworkStep, SynAck, Delivered, FinDelivered,
     TimeWaitOver, SocketBecomes, taskVars
<1>2. \A x \in Conn : x # conns[h].c =>
        sent'[x] = sent[x] /\ rcvd'[x] = rcvd[x] /\ finSeen'[x] = finSeen[x]
  BY DEF RemoteSends, RemoteFin, Reset, NetworkStep, SynAck, Delivered, FinDelivered,
     TimeWaitOver, remoteVars, TypeInv, RemoteTypes
<1>3. \A x \in Conn : Untouched(x) => x # conns[h].c
  BY DEF Untouched
<1>4. \A x \in Conn : Untouched(x) => Untouched(x)'
  BY <1>1, <1>2, <1>3 DEF Untouched
<1>5. QueueMoves(0)
  BY <1>1, QueueSame
<1>6. NothingBegins(0)
  BY <1>1, <1>4, <1>5 DEF NothingBegins, Waits
<1> QED
  BY <1>6, NothingBegins1

\* The steps that leave the connections alone.
LEMMA QuietOwn ==
  ASSUME TypeInv, TypeInv', OwnInv,
         UNCHANGED <<handle, wrote, got, chan, conns, cmds, sent, rcvd, finSeen>>,
         \A c \in Conn : /\ Waits(c)' => Waits(c)
                         /\ task'[c] = "connecting" => task[c] = "connecting"
  PROVE  OwnInv'
<1>1. QueueMoves(0)
  BY QueueSame
<1>2. NothingBegins(0)
  BY <1>1 DEF NothingBegins, Untouched
<1> QED
  BY <1>2, NothingBegins1

\* What service_sockets does to the task.
LEMMA TaskAfterCases ==
  ASSUME TypeInv, OwnInv, NEW h \in Handle, conns[h].c # None
  PROVE  /\ conns[h].c \in Conn
         /\ \/ TaskAfter(h) = task[conns[h].c]
            \/ /\ task[conns[h].c] = "connecting" /\ TaskAfter(h) \in {"relay", "done"}
               /\ handle[conns[h].c] = 0
         /\ ~Waits(conns[h].c) /\ ~Untouched(conns[h].c)
<1>1. conns[h].c \in Conn
  BY DEF TypeInv, SocketTypes, EntryType
<1>2. ~Untouched(conns[h].c)
  BY DEF Untouched
<1>3. ~Waits(conns[h].c)
  BY <1>1, <1>2 DEF OwnInv, Begins
<1>4. task[conns[h].c] = "connecting" => handle[conns[h].c] = 0
  BY <1>1 DEF OwnInv, Begins
<1> QED
  BY <1>1, <1>2, <1>3, <1>4 DEF TaskAfter

LEMMA ServiceOwn ==
  ASSUME TypeInv, TypeInv', OwnInv, NEW h \in Handle, Service(h)
  PROVE  OwnInv'
<1> DEFINE c == conns[h].c
<1>1. c # None
  BY DEF Service, TypeInv, LoopTypes, Used
<1>2. /\ c \in Conn /\ ~Waits(c) /\ ~Untouched(c)
      /\ \/ TaskAfter(h) = task[c]
         \/ /\ task[c] = "connecting" /\ TaskAfter(h) \in {"relay", "done"}
            /\ handle[c] = 0
  BY <1>1, TaskAfterCases
<1>3. /\ task' = [task EXCEPT ![c] = TaskAfter(h)]
      /\ handle' = [handle EXCEPT ![c] = IF TaskAfter(h) # task[c] THEN h ELSE handle[c]]
      /\ UNCHANGED <<wrote, got, cmds, sent, rcvd, finSeen>>
      /\ \A x \in Conn : x # c => chan'[x] = chan[x]
  BY DEF Service, remoteVars, TypeInv, ChanTypes
<1>4. \A k \in Handle : k # h => conns'[k] = conns[k]
  BY DEF Service, TypeInv, SocketTypes
<1>5. conns'[h].c \in {None, c}
  <2>1. conns'[h] = ConnAfter(h)
    BY DEF Service, TypeInv, SocketTypes
  <2>2. ConnAfter(h).c \in {None, c}
    BY DEF ConnAfter, NoConn
  <2> QED
    BY <2>1, <2>2
<1> HIDE DEF c
<1>6. \A k \in Handle : conns'[k].c \in {None, conns[k].c}
  BY <1>4, <1>5 DEF c
<1>7. /\ task \in [Conn -> {"idle", "resolving", "resolved", "connecting", "relay",
                            "ending", "done"}]
      /\ handle \in [Conn -> 0..MaxSlot]
  BY DEF TypeInv, TaskTypes
<1>8. \A x \in Conn : /\ x # c => task'[x] = task[x] /\ handle'[x] = handle[x]
                      /\ x = c => /\ task'[x] = TaskAfter(h)
                                  /\ handle'[x] = IF TaskAfter(h) # task[c] THEN h
                                                  ELSE handle[c]
  BY <1>3, <1>7
<1>9. \A x \in Conn : Untouched(x) => Untouched(x)'
  BY <1>2, <1>3, <1>6, <1>8, NetstackAssumption DEF Untouched
<1>10. \A x \in Conn : Waits(x)' => Waits(x)
  BY <1>2, <1>8 DEF Waits
<1>11. \A x \in Conn : task'[x] = "connecting"
                         => task[x] = "connecting" /\ handle'[x] = handle[x]
  BY <1>2, <1>8
<1>12. \A x \in Conn : \/ handle'[x] = handle[x]
                       \/ /\ handle[x] = 0
                          /\ \E k \in Handle : conns[k].c = x /\ handle'[x] = k
  BY <1>2, <1>8 DEF c
<1>13. QueueMoves(0)
  BY <1>3, QueueSame
<1>14. NothingBegins(0)
  BY <1>6, <1>9, <1>10, <1>11, <1>12, <1>13 DEF NothingBegins
<1> QED
  BY <1>14, NothingBegins1

\* A command other than a connect, or a connect that fails.
LEMMA CmdStepOwn ==
  ASSUME TypeInv, TypeInv', OwnInv,
         \/ HandleResolve \/ HandleSend \/ HandleClose
         \/ HandleConnect /\ UNCHANGED conns
  PROVE  OwnInv'
<1>1. /\ cmds # <<>> /\ cmds' = Tail(cmds)
      /\ UNCHANGED <<handle, wrote, got, chan, sent, rcvd, finSeen>>
  BY DEF HandleResolve, HandleSend, HandleClose, HandleConnect, Receive, taskVars,
     remoteVars
<1>2. QueueMoves(1)
  BY <1>1, QueueShrinks
<1>3. \A h \in Handle : conns'[h].c = conns[h].c
  <2>1. CASE UNCHANGED conns
    BY <2>1
  <2>2. CASE HandleSend
    <3>1. \A h \in Handle : h # Head(cmds).h => conns'[h] = conns[h]
      BY <2>2 DEF HandleSend, TypeInv, SocketTypes
    <3>2. \A h \in Handle : h = Head(cmds).h => conns'[h].c = conns[h].c
      BY <2>2 DEF HandleSend, TypeInv, SocketTypes, NoConn
    <3> QED
      BY <3>1, <3>2
  <2>3. CASE HandleClose
    <3>1. \A h \in Handle : h # Head(cmds).h => conns'[h] = conns[h]
      BY <2>3 DEF HandleClose, TypeInv, SocketTypes
    <3>2. \A h \in Handle : h = Head(cmds).h => conns'[h].c = conns[h].c
      BY <2>3 DEF HandleClose, TypeInv, SocketTypes, NoConn
    <3> QED
      BY <3>1, <3>2
  <2> QED
    BY <2>1, <2>2, <2>3 DEF HandleResolve
<1>4. \A x \in Conn : /\ Waits(x)' => Waits(x)
                      /\ task'[x] = "connecting" => task[x] = "connecting"
  BY DEF HandleResolve, HandleSend, HandleClose, HandleConnect, Answered, Waits,
     taskVars, TypeInv, TaskTypes
<1>5. \A x \in Conn : Untouched(x) => Untouched(x)'
  BY <1>1, <1>3 DEF Untouched
<1>6. NothingBegins(1)
  BY <1>1, <1>2, <1>3, <1>4, <1>5 DEF NothingBegins
<1> QED
  BY <1>6, NothingBegins1

\* The task sends its connect command.
LEMMA ConnectOwn ==
  ASSUME TypeInv, TypeInv', OwnInv, NEW c \in Conn, Connect(c)
  PROVE  OwnInv'
<1> USE DEF OwnInv
<1> DEFINE m == Cmd("connect", c, 0, 0)
<1>0. /\ UNCHANGED <<handle, wrote, got, chan, conns, sent, rcvd, finSeen>>
      /\ task[c] = "resolved" /\ task' = [task EXCEPT ![c] = "connecting"]
      /\ cmds' = Append(cmds, m) /\ m.op = "connect" /\ m.c = c
  BY DEF Connect, Submit, remoteVars, Cmd
<1>1. m \in CmdType
  BY NetstackAssumption DEF CmdType, Cmd
<1> HIDE DEF m
<1>2. /\ \A i \in DOMAIN cmds' :
           \/ i \in DOMAIN cmds /\ cmds'[i] = cmds[i]
           \/ i = Len(cmds) + 1 /\ cmds'[i] = m
  BY <1>0, <1>1, AppendEntries DEF TypeInv
<1>3. Waits(c) /\ Untouched(c)
  BY <1>0 DEF Begins, Waits
<1>4. \A x \in Conn : Untouched(x)' <=> Untouched(x)
  BY <1>0 DEF Untouched
<1>5. \A x \in Conn : /\ Waits(x)' => Waits(x) /\ x # c
                      /\ task'[x] = "connecting" => task[x] = "connecting" \/ x = c
  BY <1>0 DEF Waits, TypeInv, TaskTypes
<1>6. \A i \in DOMAIN cmds : cmds[i].op = "connect" => cmds[i].c # c
  BY <1>3 DEF Begins
<1>7. \A x \in Conn : Waits(x)' => Untouched(x)'
  BY <1>4, <1>5 DEF Begins
<1>8. \A x \in Conn : task'[x] = "connecting" => handle'[x] = 0
  BY <1>0, <1>3, <1>5 DEF Begins, Untouched
<1>9. \A i \in DOMAIN cmds', x \in Conn :
        (cmds'[i].op = "connect" /\ cmds'[i].c = x) => Untouched(x)' /\ ~Waits(x)'
  BY <1>0, <1>2, <1>3, <1>4, <1>5 DEF Begins
<1>10. \A i, j \in DOMAIN cmds' :
         (cmds'[i].op = "connect" /\ cmds'[j].op = "connect" /\ cmds'[i].c = cmds'[j].c)
           => i = j
  BY <1>0, <1>2, <1>6 DEF Begins
<1>11. Begins'
  BY <1>7, <1>8, <1>9, <1>10 DEF Begins
<1>12. OneSocket'
  BY <1>0, <1>2 DEF OneSocket
<1> QED
  BY <1>11, <1>12

\* The actor opens a socket for the connect command at the head of the queue.
LEMMA OpenOwn ==
  ASSUME TypeInv, TypeInv', OwnInv, NEW h \in Handle, conns[h].c = None,
         cmds # <<>>, Head(cmds).op = "connect", cmds' = Tail(cmds),
         conns' = [conns EXCEPT ![h] = [c |-> Head(cmds).c, out |-> <<>>,
                                        replying |-> TRUE, closing |-> FALSE]],
         UNCHANGED <<task, handle, wrote, got, chan, sent, rcvd, finSeen>>
  PROVE  OwnInv'
<1> USE DEF OwnInv
<1> DEFINE c == Head(cmds).c
<1>1. /\ cmds[1].op = "connect" /\ cmds[1].c = c /\ 1 \in DOMAIN cmds /\ c \in Conn
      /\ \A i \in DOMAIN cmds' : i + 1 \in DOMAIN cmds /\ i + 1 # 1
                                 /\ cmds'[i] = cmds[i + 1] /\ i \in Nat
      /\ cmds' \in Seq(CmdType)
  <2>1. cmds \in Seq(CmdType) /\ cmds' \in Seq(CmdType)
    BY DEF TypeInv
  <2>2. /\ Head(cmds) = cmds[1] /\ Head(cmds) \in CmdType /\ 1 \in DOMAIN cmds
        /\ \A i \in DOMAIN cmds' : i + 1 \in DOMAIN cmds /\ i + 1 # 1
                                   /\ cmds'[i] = cmds[i + 1]
    BY <2>1, TailEntries
  <2>3. \A i \in DOMAIN cmds' : i \in Nat
    BY <2>1
  <2> QED
    BY <2>1, <2>2, <2>3 DEF CmdType
<1>2. Untouched(c) /\ ~Waits(c)
  BY <1>1 DEF Begins
<1>3. /\ conns'[h].c = c
      /\ \A k \in Handle : k # h => conns'[k] = conns[k]
  BY DEF TypeInv, SocketTypes
<1> HIDE DEF c
<1>4. \A x \in Conn : x # c /\ Untouched(x) => Untouched(x)'
  BY <1>3 DEF Untouched
<1>5. \A x \in Conn : Waits(x)' <=> Waits(x)
  BY DEF Waits
<1>6. \A i \in DOMAIN cmds' : cmds'[i].op = "connect" => cmds'[i].c # c
  BY <1>1 DEF Begins
<1>7. \A x \in Conn : Waits(x)' => Untouched(x)'
  BY <1>2, <1>4, <1>5 DEF Begins
<1>8. \A x \in Conn : task'[x] = "connecting" => handle'[x] = 0
  BY DEF Begins
<1>9. \A i \in DOMAIN cmds', x \in Conn :
        (cmds'[i].op = "connect" /\ cmds'[i].c = x) => Untouched(x)' /\ ~Waits(x)'
  BY <1>1, <1>4, <1>5, <1>6 DEF Begins
<1>10. \A i, j \in DOMAIN cmds' :
         (cmds'[i].op = "connect" /\ cmds'[j].op = "connect" /\ cmds'[i].c = cmds'[j].c)
           => i = j
  <2> SUFFICES ASSUME NEW i \in DOMAIN cmds', NEW j \in DOMAIN cmds',
                      cmds'[i].op = "connect", cmds'[j].op = "connect",
                      cmds'[i].c = cmds'[j].c
               PROVE  i = j
    OBVIOUS
  <2>1. i + 1 = j + 1
    BY <1>1 DEF Begins
  <2> QED
    BY <1>1, <2>1
<1>11. Begins'
  BY <1>7, <1>8, <1>9, <1>10 DEF Begins
<1>12. \A k \in Handle : conns[k].c # c
  BY <1>2 DEF Untouched
<1>13. \A k, l \in Handle : (conns'[k].c # None /\ conns'[k].c = conns'[l].c) => k = l
  BY <1>3, <1>12 DEF OneSocket
<1>14. \A k \in Handle :
         (conns'[k].c # None /\ handle'[conns'[k].c] # 0) => handle'[conns'[k].c] = k
  BY <1>2, <1>3 DEF OneSocket, Untouched
<1>15. \A i \in DOMAIN cmds' :
         cmds'[i].op \in {"send", "close"} => cmds'[i].h = handle'[cmds'[i].c]
  BY <1>1 DEF OneSocket
<1> QED
  BY <1>11, <1>13, <1>14, <1>15 DEF OneSocket

LEMMA OwnStep ==
  ASSUME TypeInv, TypeInv', OwnInv, [Next]_vars
  PROVE  OwnInv'
<1>1. ASSUME NEW c \in Conn, Resolve(c) \/ Write(c) \/ LocalEnd(c) \/ Abandon(c)
                               \/ TaskStep(c)
      PROVE  OwnInv'
  BY <1>1, TaskStepOwn, ConnectOwn DEF TaskStep
<1>2. ASSUME NEW h \in Handle, RemoteSends(h) \/ RemoteFin(h) \/ Reset(h) \/ NetworkStep(h)
      PROVE  OwnInv'
  BY <1>2, PollStepOwn
<1>3. CASE \/ \E c \in Conn : QueryDone(c)
           \/ Withdraw \/ TunnelLost \/ Polled \/ NoMoreCommands \/ UNCHANGED vars
  <2>1. UNCHANGED <<task, handle, wrote, got, chan, conns, cmds, sent, rcvd, finSeen>>
    BY <1>3 DEF QueryDone, Withdraw, TunnelLost, Polled, NoMoreCommands, vars, taskVars,
       remoteVars
  <2> QED
    BY <2>1, QuietOwn DEF Waits
<1>4. CASE ServiceDns
  <2>1. UNCHANGED <<handle, wrote, got, chan, conns, cmds, sent, rcvd, finSeen>>
    BY <1>4 DEF ServiceDns, remoteVars
  <2>2. \A c \in Conn : /\ Waits(c)' => Waits(c)
                        /\ task'[c] = "connecting" => task[c] = "connecting"
    BY <1>4 DEF ServiceDns, Waits
  <2> QED
    BY <2>1, <2>2, QuietOwn
<1>5. ASSUME NEW h \in Handle, Service(h) PROVE OwnInv'
  BY <1>5, ServiceOwn
<1>6. CASE HandleResolve \/ HandleSend \/ HandleClose
  BY <1>6, CmdStepOwn
<1>7. CASE HandleConnect
  <2>1. CASE UNCHANGED conns
    BY <1>7, <2>1, CmdStepOwn
  <2>2. CASE ~UNCHANGED conns
    <3>1. PICK h \in Handle :
            /\ FreeSlot(h)
            /\ conns' = [conns EXCEPT ![h] = [c |-> Head(cmds).c, out |-> <<>>,
                                              replying |-> TRUE, closing |-> FALSE]]
            /\ UNCHANGED task
      BY <1>7, <2>2 DEF HandleConnect
    <3>2. conns[h].c = None
      BY <3>1 DEF FreeSlot, Used
    <3>3. /\ cmds # <<>> /\ Head(cmds).op = "connect" /\ cmds' = Tail(cmds)
          /\ UNCHANGED <<handle, wrote, got, chan, sent, rcvd, finSeen>>
      BY <1>7 DEF HandleConnect, Receive, remoteVars
    <3> QED
      BY <3>1, <3>2, <3>3, OpenOwn
  <2> QED
    BY <2>1, <2>2
<1>8. CASE ActorExit
  <2>1. UNCHANGED <<task, handle, wrote, got, chan, cmds, sent, rcvd, finSeen>>
    BY <1>8 DEF ActorExit, taskVars, remoteVars
  <2>2. \A h \in Handle : conns'[h].c = None
    BY <1>8 DEF ActorExit, NoConn
  <2>3. QueueMoves(0)
    BY <2>1, QueueSame
  <2>4. \A c \in Conn : Untouched(c) => Untouched(c)'
    BY <2>1, <2>2, NetstackAssumption DEF Untouched
  <2>5. NothingBegins(0)
    BY <2>1, <2>2, <2>3, <2>4 DEF NothingBegins, Waits
  <2> QED
    BY <2>5, NothingBegins1
<1> QED
  BY <1>1, <1>2, <1>3, <1>4, <1>5, <1>6, <1>7, <1>8 DEF Next, ActorStep

-----------------------------------------------------------------------------
(* Layer 3: what the host sends is what the task reads.                    *)

\* What has come as far as the channel of c, and as far as the socket at h.
ReadSeq(c) == Cat(got[c], chan[c])
InSeq(h) == Cat(ReadSeq(conns[h].c), tcp[h].rx)

InStream(h) == Counting(InSeq(h)) /\ Len(InSeq(h)) = sent[conns[h].c]

InInv ==
  /\ \A c \in Conn : Counting(ReadSeq(c))
  /\ \A h \in Handle : conns[h].c # None => InStream(h)

LEMMA InInvImplies == TypeInv /\ InInv => ReadInOrder
<1> SUFFICES ASSUME TypeInv, InInv, NEW c \in Conn
             PROVE  /\ Counting(got[c] \o chan[c])
                    /\ \A h \in Handle : conns[h].c = c =>
                         /\ Counting(got[c] \o chan[c] \o tcp[h].rx)
                         /\ Len(got[c] \o chan[c] \o tcp[h].rx) = sent[c]
  BY DEF ReadInOrder
<1>1. ReadSeq(c) = got[c] \o chan[c]
  BY DEF ReadSeq, Cat
<1>2. \A h \in Handle : conns[h].c = c => /\ InSeq(h) = got[c] \o chan[c] \o tcp[h].rx
                                          /\ conns[h].c # None
  BY <1>1, NetstackAssumption DEF InSeq, Cat
<1> QED
  BY <1>1, <1>2, Zenon DEF InInv, InStream

\* The parts of the stream are sequences of numbers.
LEMMA InParts ==
  ASSUME TypeInv, NEW c \in Conn
  PROVE  /\ got[c] \in Seq(Nat) /\ chan[c] \in Seq(Nat) /\ ReadSeq(c) \in Seq(Nat)
         /\ sent[c] \in Nat
         /\ \A h \in Handle : /\ tcp[h].rx \in Seq(Nat)
                              /\ conns[h].c = c => InSeq(h) \in Seq(Nat)
<1>1. 1..MaxIn \subseteq Nat
  OBVIOUS
<1>2. got[c] \in Seq(Nat) /\ chan[c] \in Seq(Nat) /\ sent[c] \in Nat
  BY <1>1, SeqSubset, NetstackAssumption DEF TypeInv, TaskTypes, ChanTypes, RemoteTypes
<1>3. ReadSeq(c) \in Seq(Nat)
  BY <1>2, CatType DEF ReadSeq
<1>4. ASSUME NEW h \in Handle
      PROVE  tcp[h].rx \in Seq(Nat) /\ (conns[h].c = c => InSeq(h) \in Seq(Nat))
  <2>1. tcp[h].rx \in Seq(1..MaxIn)
    BY DEF TypeInv, SocketTypes, SocketType
  <2>2. tcp[h].rx \in Seq(Nat)
    BY <1>1, <2>1, SeqSubset
  <2> QED
    BY <1>3, <2>2, CatType DEF InSeq
<1> QED
  BY <1>2, <1>3, <1>4

LEMMA InInit == Init => InInv
<1> SUFFICES ASSUME Init PROVE InInv
  OBVIOUS
<1>1. \A c \in Conn : ReadSeq(c) = <<>>
  BY DEF Init, ReadSeq, Cat
<1>2. Counting(<<>>)
  BY DEF Counting
<1> QED
  BY <1>1, <1>2 DEF Init, InInv, NoConn

\* The steps that move nothing along the stream.
LEMMA InSame ==
  ASSUME TypeInv, TypeInv', InInv, UNCHANGED sent,
         \A c \in Conn : ReadSeq(c)' = ReadSeq(c),
         \A h \in Handle : conns'[h].c # None =>
           conns'[h].c = conns[h].c /\ tcp'[h].rx = tcp[h].rx
  PROVE  InInv'
<1>1. \A c \in Conn : Counting(ReadSeq(c)')
  BY DEF InInv
<1>2. ASSUME NEW h \in Handle, conns'[h].c # None
      PROVE  Counting(InSeq(h)') /\ Len(InSeq(h)') = sent'[conns'[h].c]
  <2>1. conns'[h].c = conns[h].c /\ conns[h].c \in Conn
    BY <1>2 DEF TypeInv, SocketTypes, EntryType
  <2>2. InSeq(h)' = InSeq(h)
    BY <1>2, <2>1 DEF InSeq
  <2> QED
    BY <1>2, <2>1, <2>2 DEF InInv, InStream
<1> QED
  BY <1>1, <1>2, Zenon DEF InInv, InStream

LEMMA InRead ==
  ASSUME TypeInv, TypeInv', InInv, NEW c \in Conn, Read(c)
  PROVE  InInv'
<1>1. /\ UNCHANGED <<sent, conns, tcp>>
      /\ got' = [got EXCEPT ![c] = Append(got[c], Head(chan[c]))]
      /\ chan' = [chan EXCEPT ![c] = Tail(chan[c])] /\ chan[c] # <<>>
  BY DEF Read, remoteVars
<1>2. /\ got'[c] = Append(got[c], Head(chan[c])) /\ chan'[c] = Tail(chan[c])
      /\ \A x \in Conn : x # c => got'[x] = got[x] /\ chan'[x] = chan[x]
  BY <1>1 DEF TypeInv, TaskTypes, ChanTypes
<1>3. ReadSeq(c)' = ReadSeq(c)
  BY <1>1, <1>2, InParts, MoveOne DEF ReadSeq
<1>4. \A x \in Conn : ReadSeq(x)' = ReadSeq(x)
  BY <1>2, <1>3 DEF ReadSeq
<1> QED
  BY <1>1, <1>4, InSame

LEMMA InRemoteSends ==
  ASSUME TypeInv, TypeInv', OwnInv, InInv, NEW h \in Handle, RemoteSends(h)
  PROVE  InInv'
<1> DEFINE c == conns[h].c
<1>1. c # None /\ c \in Conn
  BY DEF RemoteSends, Polling, TypeInv, SocketTypes, EntryType
<1>2. /\ UNCHANGED <<got, chan, conns>>
      /\ sent' = [sent EXCEPT ![c] = sent[c] + 1]
      /\ tcp' = [tcp EXCEPT ![h] = [st |-> tcp[h].st, tx |-> tcp[h].tx,
                                    rx |-> Append(tcp[h].rx, sent[c] + 1)]]
  BY DEF RemoteSends, SocketBecomes, taskVars
<1> HIDE DEF c
<1>3. \A x \in Conn : ReadSeq(x)' = ReadSeq(x) /\ Counting(ReadSeq(x))
  BY <1>2 DEF ReadSeq, InInv
<1>4. /\ tcp'[h].rx = Append(tcp[h].rx, sent[c] + 1)
      /\ \A k \in Handle : k # h => tcp'[k] = tcp[k]
      /\ sent'[c] = sent[c] + 1
      /\ \A x \in Conn : x # c => sent'[x] = sent[x]
  BY <1>1, <1>2 DEF TypeInv, SocketTypes, RemoteTypes
<1>5. /\ InSeq(h) \in Seq(Nat) /\ ReadSeq(c) \in Seq(Nat) /\ tcp[h].rx \in Seq(Nat)
      /\ sent[c] \in Nat /\ sent[c] + 1 \in Nat
      /\ InSeq(h) = Cat(ReadSeq(c), tcp[h].rx)
  BY <1>1, InParts DEF c, InSeq
<1>6. Counting(InSeq(h)) /\ Len(InSeq(h)) = sent[c]
  BY <1>1 DEF InInv, InStream, c
<1>7. InSeq(h)' = Cat(ReadSeq(c), Append(tcp[h].rx, sent[c] + 1))
  BY <1>1, <1>2, <1>3, <1>4 DEF c, InSeq
<1>8. InSeq(h)' = Append(InSeq(h), Len(InSeq(h)) + 1)
  BY <1>5, <1>6, <1>7, CatAppend, SMTT(30)
<1>9. Counting(InSeq(h)')
  BY <1>5, <1>6, <1>8, CountingAppend
<1>10. Len(InSeq(h)') = sent'[c]
  BY <1>4, <1>5, <1>6, <1>8
<1>11. ASSUME NEW k \in Handle, conns'[k].c # None, k # h
       PROVE  Counting(InSeq(k)') /\ Len(InSeq(k)') = sent'[conns'[k].c]
  <2>1. conns[k].c # c /\ conns[k].c \in Conn
    BY <1>1, <1>2, <1>11 DEF OwnInv, OneSocket, c, TypeInv, SocketTypes, EntryType
  <2>2. InSeq(k)' = InSeq(k) /\ sent'[conns'[k].c] = sent[conns[k].c]
    BY <1>2, <1>3, <1>4, <1>11, <2>1 DEF InSeq
  <2> QED
    BY <1>2, <1>11, <2>2 DEF InInv, InStream
<1>12. ASSUME NEW k \in Handle, conns'[k].c # None PROVE InStream(k)'
  <2>1. CASE k = h
    BY <1>2, <1>9, <1>10, <2>1, Zenon DEF InStream, c
  <2>2. CASE k # h
    BY <1>11, <1>12, <2>2, Zenon DEF InStream
  <2> QED
    BY <2>1, <2>2
<1>13. \A x \in Conn : Counting(ReadSeq(x)')
  BY <1>3
<1> QED
  BY <1>12, <1>13, Zenon DEF InInv

\* Chunks that service_sockets moves from the socket to the channel.
LEMMA MoveSome ==
  ASSUME NEW g \in Seq(Nat), NEW s \in Seq(Nat), NEW t \in Seq(Nat), NEW k \in 0..Len(t)
  PROVE  /\ First(t, k) \in Seq(Nat) /\ Rest(t, k) \in Seq(Nat)
         /\ Cat(g, Cat(s, First(t, k))) \in Seq(Nat)
         /\ Cat(Cat(g, Cat(s, First(t, k))), Rest(t, k)) = Cat(Cat(g, s), t)
<1> DEFINE f == First(t, k)  r == Rest(t, k)
<1>1. f \in Seq(Nat) /\ r \in Seq(Nat) /\ Cat(f, r) = t
  BY Split
<1> HIDE DEF f, r
<1>2. Cat(g, s) \in Seq(Nat)
  BY CatType
<1>3. Cat(g, Cat(s, f)) = Cat(Cat(g, s), f)
  BY <1>1, CatAssoc
<1>4. Cat(Cat(Cat(g, s), f), r) = Cat(Cat(g, s), t)
  BY <1>1, <1>2, CatAssoc
<1>5. Cat(Cat(g, s), f) \in Seq(Nat)
  BY <1>1, <1>2, CatType
<1> QED
  BY <1>1, <1>3, <1>4, <1>5 DEF f, r

LEMMA InService ==
  ASSUME TypeInv, TypeInv', OwnInv, InInv, NEW h \in Handle, Service(h)
  PROVE  InInv'
<1>0. conns[h].c # None
  BY DEF Service, TypeInv, LoopTypes, Used
<1>1. PICK c \in Conn : c = conns[h].c
  BY <1>0, ServiceMakes
<1> DEFINE k == ChunksIn(h)
           f == First(tcp[h].rx, k)
           r == Rest(tcp[h].rx, k)
<1>2. k \in 0..Len(tcp[h].rx)
  BY <1>0, ServiceMakes
<1>3. /\ UNCHANGED <<got, sent>>
      /\ chan' = [chan EXCEPT ![c] = chan[c] \o f]
      /\ conns' = [conns EXCEPT ![h] = ConnAfter(h)]
      /\ tcp' = [tcp EXCEPT ![h] = SocketAfter(h)]
  BY <1>1 DEF Service, remoteVars
<1>4. /\ ConnAfter(h).c # None => ConnAfter(h).c = c /\ SocketAfter(h).rx = r
      /\ Counting(InSeq(h)) /\ Len(InSeq(h)) = sent[c]
      /\ InSeq(h) = Cat(Cat(got[c], chan[c]), tcp[h].rx)
  <2>1. ConnAfter(h).c # None => ConnAfter(h).c = c /\ ~Removed(h)
    BY <1>1 DEF ConnAfter, NoConn
  <2>2. ~Removed(h) => SocketAfter(h).rx = r
    BY DEF SocketAfter
  <2> QED
    BY <1>0, <1>1, <2>1, <2>2 DEF InInv, InStream, InSeq, ReadSeq
<1>5. got[c] \in Seq(Nat) /\ chan[c] \in Seq(Nat) /\ tcp[h].rx \in Seq(Nat)
  BY InParts
<1>6. /\ f \in Seq(Nat) /\ r \in Seq(Nat)
      /\ Cat(got[c], Cat(chan[c], f)) \in Seq(Nat)
      /\ Cat(Cat(got[c], Cat(chan[c], f)), r) = InSeq(h)
  <2>1. InSeq(h) = Cat(Cat(got[c], chan[c]), tcp[h].rx)
    BY <1>4
  <2>2. PICK g \in Seq(Nat), s \in Seq(Nat), t \in Seq(Nat) :
          g = got[c] /\ s = chan[c] /\ t = tcp[h].rx
    BY <1>5
  <2> HIDE DEF k
  <2>3. k \in 0..Len(t)
    BY <1>2, <2>2
  <2>4. /\ First(t, k) \in Seq(Nat) /\ Rest(t, k) \in Seq(Nat)
        /\ Cat(g, Cat(s, First(t, k))) \in Seq(Nat)
        /\ Cat(Cat(g, Cat(s, First(t, k))), Rest(t, k)) = Cat(Cat(g, s), t)
    BY <2>3, MoveSome
  <2> QED
    BY <2>1, <2>2, <2>4
<1> HIDE DEF k, f, r
<1>7. /\ chan'[c] = Cat(chan[c], f)
      /\ \A x \in Conn : x # c => chan'[x] = chan[x]
  BY <1>2, <1>3 DEF Cat, TypeInv, ChanTypes
<1>8. /\ conns'[h] = ConnAfter(h) /\ tcp'[h] = SocketAfter(h)
      /\ \A j \in Handle : j # h => conns'[j] = conns[j] /\ tcp'[j] = tcp[j]
  BY <1>3 DEF TypeInv, SocketTypes
<1>9. ReadSeq(c)' = Cat(got[c], Cat(chan[c], f))
  BY <1>3, <1>7 DEF ReadSeq
<1>10. \A x \in Conn : x # c => ReadSeq(x)' = ReadSeq(x)
  BY <1>3, <1>7 DEF ReadSeq
<1>11. Counting(ReadSeq(c)')
  BY <1>4, <1>6, <1>9, CountingFront
<1>12. \A x \in Conn : Counting(ReadSeq(x)')
  BY <1>10, <1>11 DEF InInv
<1>13. ASSUME NEW j \in Handle, conns'[j].c # None
       PROVE  InStream(j)'
  <2>1. CASE j = h
    <3>1. conns'[h].c = c /\ tcp'[h].rx = r
      BY <1>4, <1>8, <1>13, <2>1
    <3>2. InSeq(h)' = InSeq(h)
      BY <1>6, <1>9, <3>1 DEF InSeq
    <3>3. Counting(InSeq(h)') /\ Len(InSeq(h)') = sent'[conns'[h].c]
      BY <1>3, <1>4, <3>1, <3>2
    <3> QED
      BY <2>1, <3>3, Zenon DEF InStream
  <2>2. CASE j # h
    <3>1. conns'[j] = conns[j] /\ tcp'[j] = tcp[j] /\ conns[j].c # c /\ conns[j].c \in Conn
      BY <1>0, <1>1, <1>8, <1>13, <2>2 DEF OwnInv, OneSocket, TypeInv, SocketTypes, EntryType
    <3>2. InSeq(j)' = InSeq(j)
      BY <1>10, <3>1 DEF InSeq
    <3>3. Counting(InSeq(j)') /\ Len(InSeq(j)') = sent'[conns'[j].c]
      BY <1>3, <1>13, <3>1, <3>2 DEF InInv, InStream
    <3> QED
      BY <3>3, Zenon DEF InStream
  <2> QED
    BY <2>1, <2>2
<1> QED
  BY <1>12, <1>13, Zenon DEF InInv

LEMMA InOpen ==
  ASSUME TypeInv, TypeInv', OwnInv, InInv, HandleConnect
  PROVE  InInv'
<1> DEFINE c == Head(cmds).c
<1>1. UNCHANGED <<got, chan, sent>> /\ Receive("connect")
  BY DEF HandleConnect, remoteVars
<1>2. \A x \in Conn : ReadSeq(x)' = ReadSeq(x)
  BY <1>1 DEF ReadSeq
<1>3. CASE UNCHANGED <<conns, tcp>>
  BY <1>1, <1>2, <1>3, InSame
<1>4. CASE ~UNCHANGED <<conns, tcp>>
  <2>1. PICK h \in Handle :
          /\ conns' = [conns EXCEPT ![h] = [c |-> c, out |-> <<>>,
                                            replying |-> TRUE, closing |-> FALSE]]
          /\ tcp' = [tcp EXCEPT ![h] = [st |-> "synsent", tx |-> <<>>, rx |-> <<>>]]
    BY <1>4 DEF HandleConnect
  <2>2. Head(cmds) = cmds[1] /\ 1 \in DOMAIN cmds /\ cmds[1].op = "connect" /\ c \in Conn
    BY <1>1, HeadCmd, TailEntries DEF TypeInv, Receive
  <2>3. Untouched(c)
    BY <2>2 DEF OwnInv, Begins
  <2>4. /\ conns'[h].c = c /\ tcp'[h].rx = <<>>
        /\ \A k \in Handle : k # h => conns'[k] = conns[k] /\ tcp'[k] = tcp[k]
    BY <2>1 DEF TypeInv, SocketTypes
  <2> HIDE DEF c
  <2>5. ReadSeq(c) = <<>> /\ sent[c] = 0
    BY <2>3 DEF Untouched, ReadSeq, Cat
  <2>6. InSeq(h)' = <<>>
    BY <1>2, <2>2, <2>4, <2>5 DEF InSeq, Cat
  <2>7. Counting(InSeq(h)') /\ Len(InSeq(h)') = sent'[conns'[h].c]
    BY <1>1, <2>4, <2>5, <2>6 DEF Counting
  <2>8. ASSUME NEW k \in Handle, k # h, conns'[k].c # None
        PROVE  Counting(InSeq(k)') /\ Len(InSeq(k)') = sent'[conns'[k].c]
    <3>1. conns'[k] = conns[k] /\ tcp'[k] = tcp[k] /\ conns[k].c \in Conn
      BY <2>4, <2>8 DEF TypeInv, SocketTypes, EntryType
    <3>2. InSeq(k)' = InSeq(k)
      BY <1>2, <3>1 DEF InSeq
    <3> QED
      BY <1>1, <2>8, <3>1, <3>2 DEF InInv, InStream
  <2>9. \A x \in Conn : Counting(ReadSeq(x)')
    BY <1>2 DEF InInv
  <2> QED
    BY <2>7, <2>8, <2>9, Zenon DEF InInv, InStream
<1> QED
  BY <1>3, <1>4

LEMMA InStep ==
  ASSUME TypeInv, TypeInv', OwnInv, InInv, [Next]_vars
  PROVE  InInv'
<1>0. ASSUME UNCHANGED <<got, chan, sent>>,
             \A h \in Handle : conns'[h].c # None =>
               conns'[h].c = conns[h].c /\ tcp'[h].rx = tcp[h].rx
      PROVE  InInv'
  BY <1>0, InSame DEF ReadSeq
<1>1. ASSUME NEW c \in Conn, Read(c) PROVE InInv'
  BY <1>1, InRead
<1>2. ASSUME NEW h \in Handle, RemoteSends(h) PROVE InInv'
  BY <1>2, InRemoteSends
<1>3. ASSUME NEW h \in Handle, Service(h) PROVE InInv'
  BY <1>3, InService
<1>4. CASE HandleConnect
  BY <1>4, InOpen
<1>5. CASE UNCHANGED <<got, chan, sent, conns, tcp>>
  BY <1>0, <1>5
<1>6. ASSUME NEW h \in Handle, RemoteFin(h) \/ Reset(h) \/ NetworkStep(h)
      PROVE  InInv'
  <2>1. UNCHANGED <<got, chan, sent, conns>>
    BY <1>6 DEF RemoteFin, Reset, NetworkStep, SynAck, Delivered, FinDelivered,
       TimeWaitOver, SocketBecomes, taskVars, remoteVars
  <2>2. \A k \in Handle : tcp'[k].rx = tcp[k].rx
    BY <1>6 DEF RemoteFin, Reset, NetworkStep, SynAck, Delivered, FinDelivered,
       TimeWaitOver, SocketBecomes, Moved, TypeInv, SocketTypes
  <2> QED
    BY <1>0, <2>1, <2>2
<1>7. CASE HandleSend \/ HandleClose
  <2>1. UNCHANGED <<got, chan, sent, tcp>>
    BY <1>7 DEF HandleSend, HandleClose, taskVars, remoteVars
  <2>2. \A k \in Handle : conns'[k].c = conns[k].c
    BY <1>7 DEF HandleSend, HandleClose, NoConn, TypeInv, SocketTypes
  <2> QED
    BY <1>0, <2>1, <2>2
<1>8. CASE ActorExit
  <2>1. UNCHANGED <<got, chan, sent>> /\ \A k \in Handle : conns'[k].c = None
    BY <1>8 DEF ActorExit, taskVars, remoteVars, NoConn
  <2> QED
    BY <1>0, <2>1
<1>9. ASSUME NEW c \in Conn, \/ Resolve(c) \/ Write(c) \/ LocalEnd(c) \/ Abandon(c)
                             \/ Connect(c) \/ RemoteEnd(c) \/ RelayDrop(c) \/ QueryDone(c)
      PROVE  InInv'
  BY <1>5, <1>9 DEF Resolve, Write, LocalEnd, Abandon, Connect, RemoteEnd, RelayDrop,
     QueryDone, taskVars, remoteVars
<1>10. CASE Withdraw \/ TunnelLost \/ Polled \/ ServiceDns \/ HandleResolve
              \/ NoMoreCommands \/ UNCHANGED vars
  BY <1>5, <1>10 DEF Withdraw, TunnelLost, Polled, ServiceDns, HandleResolve,
     NoMoreCommands, vars, taskVars, remoteVars
<1> QED
  BY <1>1, <1>2, <1>3, <1>4, <1>6, <1>7, <1>8, <1>9, <1>10
  DEF Next, TaskStep, ActorStep

\* Backpressure loses nothing: what a task has read, what its channel holds
\* and what its socket holds are together what the host sent, in order.
THEOREM ReadsAreWhole == Spec => []ReadInOrder
<1>1. Init => TypeInv /\ OwnInv /\ InInv
  BY TypeInit, OwnInit, InInit
<1>2. TypeInv /\ OwnInv /\ InInv /\ [Next]_vars => (TypeInv /\ OwnInv /\ InInv)'
  BY TypeStep, OwnStep, InStep
<1>3. TypeInv /\ OwnInv /\ InInv => ReadInOrder
  BY InInvImplies
<1> QED
  BY <1>1, <1>2, <1>3, PTL DEF Spec

-----------------------------------------------------------------------------
(* Layer 4: what the task writes is what the host receives.                *)

\* The task's stream is over: it writes no more.
Left(c) == task[c] \in {"ending", "done"}

\* The command at i is a chunk of the task of c.
SendOf(i, c) == cmds[i].op = "send" /\ cmds[i].c = c

\* The chunks of a task are in the queue in order, its closes behind them.
QueueInv ==
  /\ \A i \in DOMAIN cmds, c \in Conn :
       /\ cmds[i].op = "close" /\ cmds[i].c = c => Left(c)
       /\ SendOf(i, c) => cmds[i].n <= wrote[c]
  /\ \A i, j \in DOMAIN cmds, c \in Conn :
       /\ cmds[i].op = "close" /\ cmds[i].c = c /\ SendOf(j, c) => j < i
       /\ SendOf(i, c) /\ SendOf(j, c) /\ i < j => cmds[i].n < cmds[j].n

LEMMA QueueInit == Init => QueueInv
BY DEF Init, QueueInv

LEMMA QueueMoved ==
  ASSUME TypeInv, TypeInv', QueueInv, UNCHANGED wrote, NEW d \in {0, 1},
         \A i \in DOMAIN cmds' : i + d \in DOMAIN cmds /\ cmds'[i] = cmds[i + d],
         \A c \in Conn : Left(c) => Left(c)'
  PROVE  QueueInv'
<1>1. \A i \in DOMAIN cmds' : i \in Nat
  BY DEF TypeInv
<1>2. \A i \in DOMAIN cmds', c \in Conn : SendOf(i, c)' => SendOf(i + d, c)
  BY DEF SendOf
<1>3. \A i \in DOMAIN cmds', c \in Conn :
        /\ cmds'[i].op = "close" /\ cmds'[i].c = c => Left(c)'
        /\ SendOf(i, c)' => cmds'[i].n <= wrote'[c]
  BY <1>2 DEF QueueInv
<1>4. ASSUME NEW i \in DOMAIN cmds', NEW j \in DOMAIN cmds', NEW c \in Conn
      PROVE  /\ cmds'[i].op = "close" /\ cmds'[i].c = c /\ SendOf(j, c)' => j < i
             /\ SendOf(i, c)' /\ SendOf(j, c)' /\ i < j => cmds'[i].n < cmds'[j].n
  <2>1. /\ i + d < j + d <=> i < j
        /\ j + d < i + d <=> j < i
    BY <1>1
  <2>2. /\ cmds[i + d].op = "close" /\ cmds[i + d].c = c /\ SendOf(j + d, c) => j + d < i + d
        /\ SendOf(i + d, c) /\ SendOf(j + d, c) /\ i + d < j + d
             => cmds[i + d].n < cmds[j + d].n
    BY DEF QueueInv
  <2> QED
    BY <1>2, <2>1, <2>2
<1> QED
  BY <1>3, <1>4 DEF QueueInv

LEMMA QueueStays ==
  ASSUME TypeInv, TypeInv', QueueInv, UNCHANGED <<wrote, cmds>>,
         \A c \in Conn : Left(c) => Left(c)'
  PROVE  QueueInv'
<1>1. \A i \in DOMAIN cmds' : i + 0 \in DOMAIN cmds /\ cmds'[i] = cmds[i + 0]
  <2>1. \A i \in DOMAIN cmds : i + 0 = i
    BY DEF TypeInv
  <2> QED
    BY <2>1
<1> QED
  BY <1>1, QueueMoved

LEMMA QueueTaken ==
  ASSUME TypeInv, TypeInv', QueueInv, UNCHANGED wrote, cmds # <<>>, cmds' = Tail(cmds),
         \A c \in Conn : Left(c) => Left(c)'
  PROVE  QueueInv'
<1>1. \A i \in DOMAIN cmds' : i + 1 \in DOMAIN cmds /\ cmds'[i] = cmds[i + 1]
  BY TailEntries DEF TypeInv
<1> QED
  BY <1>1, QueueMoved

\* A command at the end of the queue: the next chunk, or a close of a task
\* that has left.
LEMMA QueueAdded ==
  ASSUME TypeInv, TypeInv', QueueInv, NEW m \in CmdType, cmds' = Append(cmds, m),
         \A c \in Conn : /\ Left(c) => Left(c)'
                         /\ c # m.c \/ m.op # "send" => wrote'[c] = wrote[c],
         m.op = "close" => Left(m.c)',
         m.op = "send" => /\ ~Left(m.c) /\ wrote'[m.c] = wrote[m.c] + 1
                          /\ m.n = wrote[m.c] + 1
  PROVE  QueueInv'
<1>1. /\ \A i \in DOMAIN cmds' : \/ i \in DOMAIN cmds /\ cmds'[i] = cmds[i] /\ i < Len(cmds) + 1
                                 \/ i = Len(cmds) + 1 /\ cmds'[i] = m
      /\ Len(cmds) + 1 \in Nat
  <2>1. cmds \in Seq(CmdType)
    BY DEF TypeInv
  <2> QED
    BY <2>1, AppendEntries
<1>2. m.c \in Conn /\ \A c \in Conn : wrote[c] \in Nat
  BY NetstackAssumption DEF CmdType, TypeInv, TaskTypes
<1>3. \A i \in DOMAIN cmds : i \in Nat /\ cmds[i].n \in Nat
  <2>1. \A i \in DOMAIN cmds : i \in Nat /\ cmds[i] \in CmdType
    BY DEF TypeInv
  <2> QED
    BY <2>1, NetstackAssumption DEF CmdType
<1>4. \A c \in Conn : wrote[c] <= wrote'[c]
  BY <1>2
<1>5. ASSUME NEW i \in DOMAIN cmds', NEW c \in Conn
      PROVE  /\ cmds'[i].op = "close" /\ cmds'[i].c = c => Left(c)'
             /\ SendOf(i, c)' => cmds'[i].n <= wrote'[c]
  <2>1. CASE i \in DOMAIN cmds /\ cmds'[i] = cmds[i]
    <3>1. wrote[c] \in Nat /\ wrote'[c] \in Nat /\ wrote[c] <= wrote'[c] /\ cmds[i].n \in Nat
      BY <1>2, <1>3, <1>4, <2>1, NetstackAssumption DEF TypeInv, TaskTypes
    <3> QED
      BY <2>1, <3>1 DEF QueueInv, SendOf
  <2>2. CASE cmds'[i] = m
    BY <1>2, <2>2 DEF SendOf
  <2> QED
    BY <1>1, <2>1, <2>2
<1>6. ASSUME NEW i \in DOMAIN cmds', NEW j \in DOMAIN cmds', NEW c \in Conn
      PROVE  /\ cmds'[i].op = "close" /\ cmds'[i].c = c /\ SendOf(j, c)' => j < i
             /\ SendOf(i, c)' /\ SendOf(j, c)' /\ i < j => cmds'[i].n < cmds'[j].n
  <2>1. CASE i \in DOMAIN cmds /\ cmds'[i] = cmds[i] /\ j \in DOMAIN cmds /\ cmds'[j] = cmds[j]
    BY <2>1 DEF QueueInv, SendOf
  <2>2. CASE i = Len(cmds) + 1 /\ cmds'[i] = m
    <3>1. ~(i < j)
      BY <1>1, <1>3, <2>2
    <3>2. cmds'[i].op = "close" /\ SendOf(j, c)' => j < i
      BY <1>1, <2>2 DEF SendOf
    <3> QED
      BY <3>1, <3>2
  <2>3. CASE i \in DOMAIN cmds /\ cmds'[i] = cmds[i] /\ j = Len(cmds) + 1 /\ cmds'[j] = m
    <3>1. ~(cmds'[i].op = "close" /\ cmds'[i].c = c /\ SendOf(j, c)')
      BY <2>3 DEF QueueInv, SendOf
    <3>2. SendOf(i, c)' /\ SendOf(j, c)' => cmds'[i].n <= wrote[c] /\ cmds'[j].n = wrote[c] + 1
      BY <2>3 DEF QueueInv, SendOf
    <3> QED
      BY <1>2, <1>3, <2>3, <3>1, <3>2
  <2> QED
    BY <1>1, <2>1, <2>2, <2>3
<1> QED
  BY <1>5, <1>6 DEF QueueInv

\* A task that has left does not come back.
LEMMA LeftStays ==
  ASSUME TypeInv, OwnInv, [Next]_vars
  PROVE  \A c \in Conn : Left(c) => Left(c)'
<1> USE DEF Left
<1>0. task \in [Conn -> {"idle", "resolving", "resolved", "connecting", "relay",
                         "ending", "done"}]
  BY DEF TypeInv, TaskTypes
<1>1. CASE UNCHANGED task
  BY <1>1
<1>2. ASSUME NEW c \in Conn, Resolve(c) \/ Write(c) \/ LocalEnd(c) \/ Abandon(c)
                               \/ TaskStep(c) \/ QueryDone(c)
      PROVE  \A x \in Conn : Left(x) => Left(x)'
  BY <1>0, <1>2 DEF Resolve, Write, LocalEnd, Abandon, TaskStep, Connect, Read,
     RemoteEnd, RelayDrop, QueryDone, taskVars
<1>3. ASSUME NEW h \in Handle, Service(h)
      PROVE  \A x \in Conn : Left(x) => Left(x)'
  <2>1. conns[h].c # None /\ task' = [task EXCEPT ![conns[h].c] = TaskAfter(h)]
    BY <1>3 DEF Service, TypeInv, LoopTypes, Used
  <2>2. TaskAfter(h) = task[conns[h].c] \/ task[conns[h].c] = "connecting"
    BY <2>1, TaskAfterCases
  <2> QED
    BY <1>0, <2>1, <2>2
<1>4. CASE ServiceDns \/ HandleResolve \/ HandleConnect
  BY <1>0, <1>4 DEF ServiceDns, HandleResolve, HandleConnect, Answered
<1>5. CASE \/ Withdraw \/ TunnelLost \/ Polled \/ HandleSend \/ HandleClose
           \/ NoMoreCommands \/ ActorExit \/ UNCHANGED vars
  BY <1>1, <1>5 DEF Withdraw, TunnelLost, Polled, HandleSend, HandleClose,
     NoMoreCommands, ActorExit, vars, taskVars
<1>6. ASSUME NEW h \in Handle, RemoteSends(h) \/ RemoteFin(h) \/ Reset(h) \/ NetworkStep(h)
      PROVE  UNCHANGED task
  BY <1>6 DEF RemoteSends, RemoteFin, Reset, NetworkStep, SynAck, Delivered,
     FinDelivered, TimeWaitOver, SocketBecomes, taskVars
<1> QED
  BY <1>1, <1>2, <1>3, <1>4, <1>5, <1>6 DEF Next, ActorStep

\* A command that a task adds to the queue.
LEMMA Submitted ==
  ASSUME TypeInv, NEW c \in Conn, Resolve(c) \/ Connect(c) \/ Write(c) \/ LocalEnd(c)
                                    \/ RelayDrop(c), cmds' # cmds
  PROVE  \E m \in CmdType :
           /\ cmds' = Append(cmds, m) /\ m.c = c
           /\ m.op = "send" <=> Write(c)
           /\ m.op = "send" => m.n = wrote[c] + 1
           /\ m.op = "close" => LocalEnd(c) \/ RelayDrop(c)
<1>0. /\ handle[c] \in 0..MaxSlot /\ wrote[c] \in 0..MaxOut
      /\ task[c] \in {"relay", "ending"} => handle[c] \in Handle
      /\ 0 \in 0..MaxSlot /\ 0 \in 0..MaxOut
  BY NetstackAssumption DEF TypeInv, TaskTypes
<1>1. CASE Write(c)
  <2>1. wrote[c] + 1 \in 0..MaxOut /\ wrote[c] + 1 # 0
    BY <1>0, <1>1, NetstackAssumption DEF Write
  <2>2. Submit(c, "send", handle[c], wrote[c] + 1) /\ handle[c] \in Handle
    BY <1>0, <1>1 DEF Write
  <2>3. Cmd("send", c, handle[c], wrote[c] + 1) \in CmdType
    BY <1>0, <2>1, <2>2, SubmitType
  <2> QED
    BY <1>1, <2>2, <2>3 DEF Submit, Cmd
<1>2. CASE Resolve(c)
  <2>1. Submit(c, "resolve", 0, 0) /\ ~Write(c)
    BY <1>2 DEF Resolve, Write
  <2>2. Cmd("resolve", c, 0, 0) \in CmdType
    BY <1>0, <2>1, SubmitType
  <2> QED
    BY <2>1, <2>2 DEF Submit, Cmd
<1>3. CASE Connect(c)
  <2>1. Submit(c, "connect", 0, 0) /\ ~Write(c)
    BY <1>3 DEF Connect, Write
  <2>2. Cmd("connect", c, 0, 0) \in CmdType
    BY <1>0, <2>1, SubmitType
  <2> QED
    BY <2>1, <2>2 DEF Submit, Cmd
<1>4. CASE LocalEnd(c) \/ RelayDrop(c)
  <2>1. Submit(c, "close", handle[c], 0) /\ handle[c] \in Handle
    BY <1>0, <1>4 DEF LocalEnd, RelayDrop
  <2>2. ~Write(c)
    <3>1. task' # task
      BY <1>4 DEF LocalEnd, RelayDrop, TypeInv, TaskTypes
    <3> QED
      BY <3>1 DEF Write
  <2>3. Cmd("close", c, handle[c], 0) \in CmdType
    BY <1>0, <2>1, SubmitType
  <2> QED
    BY <1>4, <2>1, <2>2, <2>3 DEF Submit, Cmd
<1> QED
  BY <1>1, <1>2, <1>3, <1>4

LEMMA QueueStep ==
  ASSUME TypeInv, TypeInv', OwnInv, QueueInv, [Next]_vars
  PROVE  QueueInv'
<1>0. \A c \in Conn : Left(c) => Left(c)'
  BY LeftStays
<1>1. CASE UNCHANGED <<wrote, cmds>>
  BY <1>0, <1>1, QueueStays
<1>2. ASSUME NEW c \in Conn, Resolve(c) \/ Connect(c) \/ Write(c) \/ LocalEnd(c) \/ RelayDrop(c)
      PROVE  QueueInv'
  <2>1. CASE cmds' = cmds
    <3>1. ~Write(c)
      <4>1. cmds \in Seq(CmdType) /\ Len(cmds) \in Nat
        BY DEF TypeInv
      <4>2. \A m : Len(Append(cmds, m)) = Len(cmds) + 1
        BY <4>1
      <4> QED
        BY <2>1, <4>1, <4>2 DEF Write, Submit
    <3> QED
      BY <1>1, <1>2, <2>1, <3>1 DEF Resolve, Connect, LocalEnd, RelayDrop
  <2>2. CASE cmds' # cmds
    <3>1. PICK m \in CmdType :
            /\ cmds' = Append(cmds, m) /\ m.c = c
            /\ m.op = "send" <=> Write(c)
            /\ m.op = "send" => m.n = wrote[c] + 1
            /\ m.op = "close" => LocalEnd(c) \/ RelayDrop(c)
      BY <1>2, <2>2, Submitted
    <3>2. \A x \in Conn : x # c \/ m.op # "send" => wrote'[x] = wrote[x]
      BY <1>2, <3>1 DEF Resolve, Connect, Write, LocalEnd, RelayDrop, TypeInv, TaskTypes
    <3>3. m.op = "close" => Left(c)'
      BY <3>1 DEF LocalEnd, RelayDrop, Left, TypeInv, TaskTypes
    <3>4. m.op = "send" => ~Left(c) /\ wrote'[c] = wrote[c] + 1
      BY <3>1 DEF Write, Left, TypeInv, TaskTypes
    <3> QED
      BY <1>0, <3>1, <3>2, <3>3, <3>4, QueueAdded
  <2> QED
    BY <2>1, <2>2
<1>3. CASE HandleResolve \/ HandleConnect \/ HandleSend \/ HandleClose
  <2>1. UNCHANGED wrote /\ cmds # <<>> /\ cmds' = Tail(cmds)
    BY <1>3 DEF HandleResolve, HandleConnect, HandleSend, HandleClose, Receive, taskVars
  <2> QED
    BY <1>0, <2>1, QueueTaken
<1>4. ASSUME NEW c \in Conn, Abandon(c) \/ Read(c) \/ RemoteEnd(c) \/ QueryDone(c)
      PROVE  QueueInv'
  BY <1>1, <1>4 DEF Abandon, Read, RemoteEnd, QueryDone, taskVars
<1>5. ASSUME NEW h \in Handle,
             RemoteSends(h) \/ RemoteFin(h) \/ Reset(h) \/ NetworkStep(h) \/ Service(h)
      PROVE  QueueInv'
  BY <1>1, <1>5 DEF RemoteSends, RemoteFin, Reset, NetworkStep, SynAck, Delivered,
     FinDelivered, TimeWaitOver, SocketBecomes, Service, taskVars
<1>6. CASE \/ Withdraw \/ TunnelLost \/ Polled \/ ServiceDns \/ NoMoreCommands
           \/ ActorExit \/ UNCHANGED vars
  BY <1>1, <1>6 DEF Withdraw, TunnelLost, Polled, ServiceDns, NoMoreCommands,
     ActorExit, vars, taskVars
<1> QED
  BY <1>2, <1>3, <1>4, <1>5, <1>6 DEF Next, TaskStep, ActorStep

\* What has gone as far as the actor's buffer for the socket at h.
OutSeq(h) == Cat(Cat(rcvd[conns[h].c], tcp[h].tx), conns[h].out)

\* The queue holds exactly the chunks of c from n + 1 on.
SendsFrom(c, n) ==
  /\ \A i \in DOMAIN cmds : SendOf(i, c) => n < cmds[i].n
  /\ \A x \in (n + 1)..wrote[c] : \E i \in DOMAIN cmds : SendOf(i, c) /\ cmds[i].n = x

\* States in which the socket has sent its FIN.
Ended == {"finwait", "closing", "lastack", "timewait"}

\* The n chunks that left the queue are on their way in order, and the socket
\* is closed behind the last one.
StreamAt(h, c, n) ==
  /\ Counting(OutSeq(h)) /\ Len(OutSeq(h)) = n /\ n <= wrote[c]
  /\ SendsFrom(c, n)
  /\ conns[h].closing => Left(c) /\ n = wrote[c]
  /\ tcp[h].st \in Ended => conns[h].closing /\ conns[h].out = <<>>

OutInv ==
  \A h \in Handle, c \in Conn :
    (conns[h].c = c /\ c \notin crossed) => \E n \in Nat : StreamAt(h, c, n)

FinInv ==
  \A c \in Conn : c \notin crossed =>
    Counting(rcvd[c]) /\ (finSeen[c] => Len(rcvd[c]) = wrote[c] /\ Left(c))

LEMMA FinInvImplies == FinInv => DrainedBeforeFin
BY DEF FinInv, DrainedBeforeFin

LEMMA OutInit == Init => OutInv /\ FinInv
BY NetstackAssumption DEF Init, OutInv, FinInv, NoConn, Counting

\* The parts of the stream are sequences of numbers.
LEMMA OutParts ==
  ASSUME TypeInv, NEW h \in Handle, NEW c \in Conn, conns[h].c = c
  PROVE  /\ rcvd[c] \in Seq(Nat) /\ tcp[h].tx \in Seq(Nat) /\ conns[h].out \in Seq(Nat)
         /\ OutSeq(h) = Cat(Cat(rcvd[c], tcp[h].tx), conns[h].out)
         /\ Cat(rcvd[c], tcp[h].tx) \in Seq(Nat) /\ OutSeq(h) \in Seq(Nat)
         /\ Len(OutSeq(h)) = Len(rcvd[c]) + Len(tcp[h].tx) + Len(conns[h].out)
<1>1. 1..MaxOut \subseteq Nat
  OBVIOUS
<1>2. /\ rcvd[c] \in Seq(1..MaxOut) /\ tcp[h].tx \in Seq(1..MaxOut)
      /\ conns[h].out \in Seq(1..MaxOut)
  BY DEF TypeInv, RemoteTypes, SocketTypes, SocketType, EntryType
<1>3. rcvd[c] \in Seq(Nat) /\ tcp[h].tx \in Seq(Nat) /\ conns[h].out \in Seq(Nat)
  BY <1>1, <1>2, SeqSubset
<1>4. /\ Cat(rcvd[c], tcp[h].tx) \in Seq(Nat)
      /\ Len(Cat(rcvd[c], tcp[h].tx)) = Len(rcvd[c]) + Len(tcp[h].tx)
  BY <1>3, CatType, CatLen
<1>5. OutSeq(h) = Cat(Cat(rcvd[c], tcp[h].tx), conns[h].out)
  BY DEF OutSeq
<1>6. /\ Cat(Cat(rcvd[c], tcp[h].tx), conns[h].out) \in Seq(Nat)
      /\ Len(Cat(Cat(rcvd[c], tcp[h].tx), conns[h].out))
           = Len(Cat(rcvd[c], tcp[h].tx)) + Len(conns[h].out)
  BY <1>3, <1>4, CatType, CatLen
<1> QED
  BY <1>3, <1>4, <1>5, <1>6

\* A step that takes no chunk of c off the queue and adds none to it.
QueueOthers(c) ==
  \/ cmds' = cmds
  \/ \E m \in CmdType : /\ ~(m.op = "send" /\ m.c = c)
                        /\ \/ cmds' = Append(cmds, m)
                           \/ cmds # <<>> /\ Head(cmds) = m /\ cmds' = Tail(cmds)

LEMMA SendsSame ==
  ASSUME TypeInv, NEW c \in Conn, NEW n \in Nat, SendsFrom(c, n), QueueOthers(c),
         wrote'[c] = wrote[c]
  PROVE  SendsFrom(c, n)'
<1>0. cmds \in Seq(CmdType)
  BY DEF TypeInv
<1>1. CASE cmds' = cmds
  BY <1>1 DEF SendsFrom, SendOf
<1>2. ASSUME NEW m \in CmdType, ~(m.op = "send" /\ m.c = c), cmds' = Append(cmds, m)
      PROVE  SendsFrom(c, n)'
  <2>1. /\ \A i \in DOMAIN cmds' : (i \in DOMAIN cmds /\ cmds'[i] = cmds[i]) \/ cmds'[i] = m
        /\ \A i \in DOMAIN cmds : i \in DOMAIN cmds' /\ cmds'[i] = cmds[i]
    BY <1>0, <1>2, AppendEntries
  <2>2. \A i \in DOMAIN cmds' : SendOf(i, c)' => n < cmds'[i].n
    BY <1>2, <2>1 DEF SendsFrom, SendOf
  <2>3. \A x \in (n + 1)..wrote'[c] : \E i \in DOMAIN cmds' : SendOf(i, c)' /\ cmds'[i].n = x
    BY <2>1 DEF SendsFrom, SendOf
  <2> QED
    BY <2>2, <2>3 DEF SendsFrom
<1>3. ASSUME NEW m \in CmdType, ~(m.op = "send" /\ m.c = c), cmds # <<>>,
             Head(cmds) = m, cmds' = Tail(cmds)
      PROVE  SendsFrom(c, n)'
  <2>1. /\ \A i \in DOMAIN cmds' : i + 1 \in DOMAIN cmds /\ cmds'[i] = cmds[i + 1]
        /\ \A i \in DOMAIN cmds : i = 1 \/ (i - 1 \in DOMAIN cmds' /\ cmds'[i - 1] = cmds[i])
        /\ cmds[1] = m
    BY <1>0, <1>3, TailEntries
  <2>2. \A i \in DOMAIN cmds' : SendOf(i, c)' => n < cmds'[i].n
    BY <2>1 DEF SendsFrom, SendOf
  <2>3. ASSUME NEW x \in (n + 1)..wrote'[c]
        PROVE  \E i \in DOMAIN cmds' : SendOf(i, c)' /\ cmds'[i].n = x
    <3>1. PICK i \in DOMAIN cmds : SendOf(i, c) /\ cmds[i].n = x
      BY DEF SendsFrom
    <3>2. i # 1
      BY <1>3, <2>1, <3>1 DEF SendOf
    <3> QED
      BY <2>1, <3>1, <3>2 DEF SendOf
  <2> QED
    BY <2>2, <2>3 DEF SendsFrom
<1> QED
  BY <1>1, <1>2, <1>3 DEF QueueOthers

\* The stream of a socket whose chunks stay where they are, or move on.
LEMMA StreamSame ==
  ASSUME TypeInv, NEW h \in Handle, NEW c \in Conn, NEW n \in Nat, StreamAt(h, c, n),
         OutSeq(h)' = OutSeq(h), QueueOthers(c), wrote'[c] = wrote[c],
         Left(c) => Left(c)', conns'[h].closing => conns[h].closing,
         tcp'[h].st \in Ended => conns'[h].closing /\ conns'[h].out = <<>>
  PROVE  StreamAt(h, c, n)'
<1>1. SendsFrom(c, n)'
  BY SendsSame DEF StreamAt
<1>2. Counting(OutSeq(h)') /\ Len(OutSeq(h)') = n /\ n <= wrote'[c]
  BY DEF StreamAt
<1>3. conns'[h].closing => Left(c)' /\ n = wrote'[c]
  BY DEF StreamAt
<1> QED
  BY <1>1, <1>2, <1>3, Zenon DEF StreamAt

\* The steps that leave the sockets and the hosts alone.
LEMMA OutQuiet ==
  ASSUME TypeInv, OutInv, FinInv,
         UNCHANGED <<conns, tcp, rcvd, finSeen, wrote, crossed>>,
         \A c \in Conn : QueueOthers(c) /\ (Left(c) => Left(c)')
  PROVE  OutInv' /\ FinInv'
<1>1. ASSUME NEW h \in Handle, NEW c \in Conn, conns'[h].c = c, c \notin crossed'
      PROVE  \E n \in Nat : StreamAt(h, c, n)'
  <2>1. PICK n \in Nat : StreamAt(h, c, n)
    BY <1>1 DEF OutInv
  <2>2. OutSeq(h)' = OutSeq(h)
    BY DEF OutSeq
  <2>3. tcp'[h].st \in Ended => conns'[h].closing /\ conns'[h].out = <<>>
    BY <2>1 DEF StreamAt
  <2>4. StreamAt(h, c, n)'
    BY <2>1, <2>2, <2>3, StreamSame
  <2> QED
    BY <2>4
<1>2. OutInv'
  BY <1>1, Zenon DEF OutInv
<1>3. FinInv'
  BY DEF FinInv
<1> QED
  BY <1>2, <1>3

LEMMA SendsWrite ==
  ASSUME TypeInv, NEW c \in Conn, NEW n \in Nat, SendsFrom(c, n), n <= wrote[c],
         NEW m \in CmdType, cmds' = Append(cmds, m), m.op = "send", m.c = c,
         m.n = wrote[c] + 1, wrote'[c] = wrote[c] + 1
  PROVE  SendsFrom(c, n)'
<1>0. cmds \in Seq(CmdType) /\ wrote[c] \in Nat
  BY NetstackAssumption DEF TypeInv, TaskTypes
<1>1. /\ \A i \in DOMAIN cmds' : (i \in DOMAIN cmds /\ cmds'[i] = cmds[i]) \/ cmds'[i] = m
      /\ \A i \in DOMAIN cmds : i \in DOMAIN cmds' /\ cmds'[i] = cmds[i]
      /\ Len(cmds) + 1 \in DOMAIN cmds' /\ cmds'[Len(cmds) + 1] = m
  BY <1>0, AppendEntries
<1>2. \A i \in DOMAIN cmds' : SendOf(i, c)' => n < cmds'[i].n
  BY <1>0, <1>1 DEF SendsFrom, SendOf
<1>3. ASSUME NEW x \in (n + 1)..wrote'[c]
      PROVE  \E i \in DOMAIN cmds' : SendOf(i, c)' /\ cmds'[i].n = x
  <2>1. CASE x = wrote[c] + 1
    BY <1>1, <2>1 DEF SendOf
  <2>2. CASE x # wrote[c] + 1
    <3>0. x \in (n + 1)..(wrote[c] + 1)
      OBVIOUS
    <3>1. x \in (n + 1)..wrote[c]
      BY <1>0, <2>2, <3>0, SMTT(30)
    <3>2. PICK i \in DOMAIN cmds : SendOf(i, c) /\ cmds[i].n = x
      BY <3>1 DEF SendsFrom
    <3> QED
      BY <1>1, <3>2 DEF SendOf
  <2> QED
    BY <2>1, <2>2
<1> QED
  BY <1>2, <1>3 DEF SendsFrom

LEMMA OutWrite ==
  ASSUME TypeInv, OutInv, FinInv, NEW c \in Conn, Write(c)
  PROVE  OutInv' /\ FinInv'
<1>0. /\ UNCHANGED <<conns, tcp, rcvd, finSeen, crossed, task>> /\ task[c] = "relay"
      /\ wrote'[c] = wrote[c] + 1 /\ wrote[c] \in Nat
      /\ \A x \in Conn : x # c => wrote'[x] = wrote[x]
  BY NetstackAssumption DEF Write, remoteVars, TypeInv, TaskTypes
<1>1. ~Left(c) /\ \A x \in Conn : Left(x) => Left(x)'
  BY <1>0 DEF Left
<1>2. cmds' # cmds
  <2>1. cmds \in Seq(CmdType) /\ Len(cmds) \in Nat
    BY DEF TypeInv
  <2>2. \A m : Len(Append(cmds, m)) = Len(cmds) + 1
    BY <2>1
  <2> QED
    BY <2>1, <2>2 DEF Write, Submit
<1>3. PICK m \in CmdType : /\ cmds' = Append(cmds, m) /\ m.c = c /\ m.op = "send"
                           /\ m.n = wrote[c] + 1
  BY <1>2, Submitted
<1>4. ASSUME NEW h \in Handle, NEW x \in Conn, conns'[h].c = x, x \notin crossed'
      PROVE  \E n \in Nat : StreamAt(h, x, n)'
  <2>1. PICK n \in Nat : StreamAt(h, x, n)
    BY <1>0, <1>4 DEF OutInv
  <2>2. OutSeq(h)' = OutSeq(h)
    BY <1>0 DEF OutSeq
  <2>3. tcp'[h].st \in Ended => conns'[h].closing /\ conns'[h].out = <<>>
    BY <1>0, <2>1 DEF StreamAt
  <2>4. CASE x # c
    <3>1. QueueOthers(x)
      BY <1>3, <2>4 DEF QueueOthers
    <3>2. StreamAt(h, x, n)'
      BY <1>0, <1>1, <2>1, <2>2, <2>3, <2>4, <3>1, StreamSame
    <3> QED
      BY <3>2
  <2>5. CASE x = c
    <3>1. SendsFrom(c, n)'
      BY <1>0, <1>3, <2>1, <2>5, SendsWrite DEF StreamAt
    <3>2. Counting(OutSeq(h)') /\ Len(OutSeq(h)') = n /\ n <= wrote'[c]
      BY <1>0, <2>1, <2>2, <2>5 DEF StreamAt
    <3>3. ~conns'[h].closing
      BY <1>0, <1>1, <2>1, <2>5 DEF StreamAt
    <3>4. StreamAt(h, c, n)'
      BY <2>3, <3>1, <3>2, <3>3, Zenon DEF StreamAt
    <3> QED
      BY <2>5, <3>4
  <2> QED
    BY <2>4, <2>5
<1>5. OutInv'
  BY <1>4, Zenon DEF OutInv
<1>6. FinInv'
  BY <1>0, <1>1 DEF FinInv
<1> QED
  BY <1>5, <1>6

\* A socket that the step does not concern.
LEMMA StreamElse ==
  ASSUME TypeInv, OutInv, NEW h \in Handle, NEW c \in Conn, conns'[h].c = c,
         c \notin crossed, conns'[h] = conns[h], tcp'[h] = tcp[h], rcvd'[c] = rcvd[c],
         wrote'[c] = wrote[c], Left(c) => Left(c)', QueueOthers(c)
  PROVE  \E n \in Nat : StreamAt(h, c, n)'
<1>1. PICK n \in Nat : StreamAt(h, c, n)
  BY DEF OutInv
<1>2. OutSeq(h)' = OutSeq(h)
  BY DEF OutSeq
<1>3. tcp'[h].st \in Ended => conns'[h].closing /\ conns'[h].out = <<>>
  BY <1>1 DEF StreamAt
<1>4. StreamAt(h, c, n)'
  BY <1>1, <1>2, <1>3, StreamSame
<1> QED
  BY <1>4

\* iface.poll: chunks are delivered, and a FIN behind the last one.
LEMMA OutPoll ==
  ASSUME TypeInv, TypeInv', OwnInv, OutInv, FinInv, NEW h \in Handle,
         RemoteSends(h) \/ RemoteFin(h) \/ Reset(h) \/ NetworkStep(h)
  PROVE  OutInv' /\ FinInv'
<1>1. /\ UNCHANGED <<task, wrote, conns, cmds, crossed>> /\ tcp[h].st # "none"
      /\ \A k \in Handle : k # h => tcp'[k] = tcp[k]
  BY DEF RemoteSends, RemoteFin, Reset, NetworkStep, SynAck, Delivered, FinDelivered,
     TimeWaitOver, SocketBecomes, Polling, taskVars, TypeInv, SocketTypes
<1>2. PICK c \in Conn : c = conns[h].c
  BY <1>1 DEF TypeInv, SocketTypes, EntryType
<1>3. \A x \in Conn : x # c => rcvd'[x] = rcvd[x] /\ finSeen'[x] = finSeen[x]
  BY <1>2 DEF RemoteSends, RemoteFin, Reset, NetworkStep, SynAck, Delivered,
     FinDelivered, TimeWaitOver, SocketBecomes, remoteVars, TypeInv, RemoteTypes
<1>4. /\ \A x \in Conn : (Left(x) => Left(x)') /\ QueueOthers(x)
      /\ \A k \in Handle : k # h /\ conns[k].c # None => conns[k].c # c
      /\ c # None
  BY <1>1, <1>2, NetstackAssumption DEF Left, QueueOthers, OwnInv, OneSocket
<1>5. ASSUME NEW k \in Handle, NEW x \in Conn, conns'[k].c = x, x \notin crossed', k # h
      PROVE  \E n \in Nat : StreamAt(k, x, n)'
  <2>1. x # c /\ x # None
    BY <1>1, <1>4, <1>5, NetstackAssumption
  <2> QED
    BY <1>1, <1>3, <1>4, <1>5, <2>1, StreamElse
<1>6. c \in crossed => FinInv' /\ OutInv'
  <2> SUFFICES ASSUME c \in crossed PROVE FinInv' /\ OutInv'
    OBVIOUS
  <2>1. FinInv'
    BY <1>1, <1>3 DEF FinInv, Left
  <2>2. \A k \in Handle, x \in Conn :
          (conns'[k].c = x /\ x \notin crossed') => \E n \in Nat : StreamAt(k, x, n)'
    BY <1>1, <1>2, <1>5
  <2> QED
    BY <2>1, <2>2, Zenon DEF OutInv
<1> SUFFICES ASSUME c \notin crossed PROVE OutInv' /\ FinInv'
  BY <1>6
<1>7. PICK n \in Nat : StreamAt(h, c, n)
  BY <1>2 DEF OutInv
<1>8. /\ rcvd[c] \in Seq(Nat) /\ tcp[h].tx \in Seq(Nat) /\ conns[h].out \in Seq(Nat)
      /\ OutSeq(h) = Cat(Cat(rcvd[c], tcp[h].tx), conns[h].out)
      /\ Cat(rcvd[c], tcp[h].tx) \in Seq(Nat) /\ OutSeq(h) \in Seq(Nat)
      /\ Len(OutSeq(h)) = Len(rcvd[c]) + Len(tcp[h].tx) + Len(conns[h].out)
  BY <1>2, OutParts
<1>9. /\ \/ rcvd'[c] = rcvd[c] /\ tcp'[h].tx = tcp[h].tx
         \/ /\ tcp[h].tx # <<>> /\ rcvd'[c] = Append(rcvd[c], Head(tcp[h].tx))
            /\ tcp'[h].tx = Tail(tcp[h].tx) /\ finSeen'[c] = finSeen[c]
      /\ \/ finSeen'[c] = finSeen[c]
         \/ tcp[h].tx = <<>> /\ tcp[h].st \in Ended /\ rcvd'[c] = rcvd[c]
      /\ tcp'[h].st \in Ended => tcp[h].st \in Ended
  <2>1. CASE RemoteSends(h) \/ RemoteFin(h) \/ Reset(h) \/ SynAck(h) \/ TimeWaitOver(h)
    <3>1. UNCHANGED <<rcvd, finSeen>> /\ tcp'[h].tx = tcp[h].tx
      BY <2>1 DEF RemoteSends, RemoteFin, Reset, SynAck, TimeWaitOver, remoteVars,
         SocketBecomes, Moved, TypeInv, SocketTypes
    <3>2. tcp'[h].st \in Ended => tcp[h].st \in Ended
      BY <2>1 DEF RemoteSends, RemoteFin, Reset, SynAck, TimeWaitOver, SocketBecomes,
         Moved, TypeInv, SocketTypes, Ended
    <3> QED
      BY <3>1, <3>2
  <2>2. CASE Delivered(h)
    BY <1>2, <2>2 DEF Delivered, SocketBecomes, TypeInv, SocketTypes, RemoteTypes
  <2>3. CASE FinDelivered(h)
    <3>1. /\ UNCHANGED rcvd /\ tcp'[h].tx = tcp[h].tx /\ tcp[h].tx = <<>>
          /\ tcp[h].st \in Ended
      BY <1>2, <2>3 DEF FinDelivered, SocketBecomes, Moved, TypeInv, SocketTypes, Ended
    <3> QED
      BY <3>1
  <2> QED
    BY <2>1, <2>2, <2>3 DEF NetworkStep
<1>10. Cat(rcvd'[c], tcp'[h].tx) = Cat(rcvd[c], tcp[h].tx)
  BY <1>8, <1>9, MoveOne
<1>11. OutSeq(h)' = OutSeq(h)
  BY <1>1, <1>2, <1>8, <1>10 DEF OutSeq
<1>12. StreamAt(h, c, n)'
  <2>1. tcp'[h].st \in Ended => conns'[h].closing /\ conns'[h].out = <<>>
    BY <1>1, <1>7, <1>9 DEF StreamAt
  <2> QED
    BY <1>1, <1>4, <1>7, <1>11, <2>1, StreamSame
<1>13. OutInv'
  <2>1. \A k \in Handle, x \in Conn :
          (conns'[k].c = x /\ x \notin crossed') => \E i \in Nat : StreamAt(k, x, i)'
    BY <1>1, <1>2, <1>5, <1>12
  <2> QED
    BY <2>1, Zenon DEF OutInv
<1>14. Counting(rcvd'[c])
  <2>1. /\ rcvd'[c] \in Seq(Nat) /\ tcp'[h].tx \in Seq(Nat)
    BY <1>8, <1>9, MoveOneType
  <2>2. Cat(rcvd'[c], tcp'[h].tx) \in Seq(Nat)
    BY <1>8, <1>10
  <2>3. Counting(Cat(rcvd[c], tcp[h].tx))
    BY <1>7, <1>8, CountingFront DEF StreamAt
  <2> QED
    BY <1>10, <2>1, <2>3, CountingFront
<1>15. finSeen'[c] => Len(rcvd'[c]) = wrote'[c] /\ Left(c)'
  <2> SUFFICES ASSUME finSeen'[c] PROVE Len(rcvd'[c]) = wrote'[c] /\ Left(c)'
    OBVIOUS
  <2>0. /\ Len(rcvd[c]) \in Nat /\ Len(tcp[h].tx) \in Nat /\ Len(conns[h].out) \in Nat
        /\ wrote[c] \in Nat /\ (Len(tcp[h].tx) = 0 => tcp[h].tx = <<>>)
    <3>1. wrote[c] \in Nat
      BY NetstackAssumption DEF TypeInv, TaskTypes
    <3> QED
      BY <1>8, <3>1, EmptyByLen
  <2>1. CASE finSeen[c]
    <3>1. Len(rcvd[c]) = wrote[c] /\ Left(c)
      BY <2>1 DEF FinInv
    <3>2. Len(OutSeq(h)) <= wrote[c]
      BY <1>7 DEF StreamAt
    <3>3. tcp[h].tx = <<>>
      BY <1>8, <2>0, <3>1, <3>2, SMTT(30)
    <3> QED
      BY <1>1, <1>4, <1>9, <3>1, <3>3
  <2>2. CASE ~finSeen[c]
    <3>1. tcp[h].tx = <<>> /\ tcp[h].st \in Ended /\ rcvd'[c] = rcvd[c]
      BY <1>9, <2>2
    <3>2. conns[h].closing /\ conns[h].out = <<>>
      BY <1>7, <3>1 DEF StreamAt
    <3>3. Left(c) /\ n = wrote[c] /\ Len(OutSeq(h)) = n
      BY <1>7, <3>2 DEF StreamAt
    <3>4. Len(rcvd[c]) = n
      BY <1>8, <2>0, <3>1, <3>2, <3>3
    <3> QED
      BY <1>1, <1>4, <3>1, <3>3, <3>4
  <2> QED
    BY <2>1, <2>2
<1>16. FinInv'
  BY <1>1, <1>3, <1>4, <1>14, <1>15 DEF FinInv
<1> QED
  BY <1>13, <1>16

\* service_sockets moves chunks to the socket, and closes it once they are all
\* there.
LEMMA OutService ==
  ASSUME TypeInv, TypeInv', OwnInv, OutInv, FinInv, NEW h \in Handle, Service(h),
         \A c \in Conn : Left(c) => Left(c)'
  PROVE  OutInv' /\ FinInv'
<1>0. conns[h].c # None
  BY DEF Service, TypeInv, LoopTypes, Used
<1>1. PICK c \in Conn : c = conns[h].c
  BY <1>0, ServiceMakes
<1>2. /\ UNCHANGED <<wrote, cmds, rcvd, finSeen, crossed>>
      /\ conns'[h] = ConnAfter(h) /\ tcp'[h] = SocketAfter(h)
      /\ \A k \in Handle : k # h => conns'[k] = conns[k] /\ tcp'[k] = tcp[k]
  BY DEF Service, remoteVars, TypeInv, SocketTypes
<1>3. FinInv'
  BY <1>2 DEF FinInv
<1>4. \A x \in Conn : QueueOthers(x)
  BY <1>2 DEF QueueOthers
<1>5. ASSUME NEW k \in Handle, NEW x \in Conn, conns'[k].c = x, x \notin crossed', k # h
      PROVE  \E n \in Nat : StreamAt(k, x, n)'
  BY <1>2, <1>4, <1>5, StreamElse
<1>6. ASSUME NEW x \in Conn, conns'[h].c = x, x \notin crossed'
      PROVE  \E n \in Nat : StreamAt(h, x, n)'
  <2> DEFINE k == ChunksOut(h)
  <2>1. ~Removed(h) /\ x = c
    BY <1>1, <1>2, <1>6, NetstackAssumption DEF ConnAfter, NoConn
  <2>2. /\ conns'[h].c = c /\ conns'[h].out = Rest(conns[h].out, k)
        /\ conns'[h].closing = conns[h].closing
        /\ tcp'[h].st = StateAfter(h) /\ tcp'[h].tx = tcp[h].tx \o First(conns[h].out, k)
    <3>1. conns'[h] = [c |-> conns[h].c, out |-> Rest(conns[h].out, k),
                       replying |-> conns[h].replying /\ tcp[h].st # "established",
                       closing |-> conns[h].closing]
      BY <1>2, <2>1 DEF ConnAfter
    <3>2. PICK st, tx, rx : /\ tcp'[h] = [st |-> st, rx |-> rx, tx |-> tx]
                            /\ st = StateAfter(h) /\ rx = Rest(tcp[h].rx, ChunksIn(h))
                            /\ tx = tcp[h].tx \o First(conns[h].out, k)
      BY <1>2, <2>1, Zenon DEF SocketAfter
    <3> HIDE DEF k
    <3>3. conns'[h].c = c /\ conns'[h].out = Rest(conns[h].out, k)
      BY <1>1, <3>1
    <3>4. conns'[h].closing = conns[h].closing
      BY <3>1
    <3>5. tcp'[h].st = StateAfter(h)
      <4>1. tcp'[h] = [st |-> st, rx |-> rx, tx |-> tx] /\ st = StateAfter(h)
        BY <3>2
      <4> QED
        BY <4>1
    <3>6. tcp'[h].tx = tx
      <4>1. tcp'[h] = [st |-> st, rx |-> rx, tx |-> tx]
        BY <3>2
      <4> QED
        BY <4>1
    <3> QED
      BY <3>2, <3>3, <3>4, <3>5, <3>6, Zenon
  <2>3. PICK n \in Nat : StreamAt(h, c, n)
    BY <1>1, <1>2, <1>6, <2>1 DEF OutInv
  <2>4. k \in 0..Len(conns[h].out)
    BY <1>0, ServiceMakes
  <2>5. PICK g \in Seq(Nat), s \in Seq(Nat), t \in Seq(Nat) :
          /\ g = rcvd[c] /\ s = tcp[h].tx /\ t = conns[h].out
          /\ OutSeq(h) = Cat(Cat(g, s), t)
    BY <1>1, OutParts
  <2>6. Left(c) => Left(c)'
    OBVIOUS
  <2>7. tcp[h].st \in Ended => conns[h].closing /\ conns[h].out = <<>>
    BY <2>3 DEF StreamAt
  <2>8. /\ StateAfter(h) \in Ended =>
             \/ tcp[h].st \in Ended
             \/ conns[h].closing /\ k = Len(conns[h].out)
    BY DEF StateAfter, Closed, Ended
  <2> HIDE DEF k
  <2>9. k \in 0..Len(t)
    BY <2>4, <2>5
  <2>10. Cat(Cat(g, Cat(s, First(t, k))), Rest(t, k)) = Cat(Cat(g, s), t)
    BY <2>9, MoveSome
  <2>11. OutSeq(h)' = OutSeq(h)
    <3>1. tcp'[h].tx = Cat(s, First(t, k)) /\ conns'[h].out = Rest(t, k)
      BY <2>2, <2>5 DEF Cat
    <3>2. rcvd'[conns'[h].c] = g
      BY <1>2, <2>2, <2>5
    <3>3. OutSeq(h)' = Cat(Cat(g, Cat(s, First(t, k))), Rest(t, k))
      BY <3>1, <3>2 DEF OutSeq
    <3> QED
      BY <2>5, <2>10, <3>3
  <2>12. tcp'[h].st \in Ended => conns'[h].closing /\ conns'[h].out = <<>>
    <3> SUFFICES ASSUME tcp'[h].st \in Ended
                 PROVE  conns'[h].closing /\ conns'[h].out = <<>>
      OBVIOUS
    <3>1. conns[h].closing /\ (conns[h].out = <<>> \/ k = Len(conns[h].out))
      BY <2>2, <2>7, <2>8
    <3>2. k = Len(t) /\ Len(t) \in Nat
      BY <2>5, <2>9, <3>1, EmptyByLen
    <3>3. Rest(t, k) \in Seq(Nat) /\ Len(Rest(t, k)) = Len(t) - k
      BY <2>9, Split
    <3>4. Rest(t, k) = <<>>
      BY <3>2, <3>3, EmptyByLen
    <3> QED
      BY <2>2, <2>5, <3>1, <3>4
  <2>13. StreamAt(h, c, n)'
    BY <1>2, <1>4, <2>2, <2>3, <2>6, <2>11, <2>12, StreamSame
  <2> QED
    BY <2>1, <2>13
<1>7. \A k \in Handle, x \in Conn :
        (conns'[k].c = x /\ x \notin crossed') => \E n \in Nat : StreamAt(k, x, n)'
  BY <1>5, <1>6
<1> QED
  BY <1>3, <1>7, Zenon DEF OutInv

\* The chunk at the head of the queue is the next one of its stream.
LEMMA NextChunk ==
  ASSUME TypeInv, QueueInv, NEW c \in Conn, NEW n \in Nat, SendsFrom(c, n),
         cmds # <<>>, Head(cmds).op = "send", Head(cmds).c = c, cmds' = Tail(cmds),
         wrote'[c] = wrote[c]
  PROVE  /\ Head(cmds).n = n + 1 /\ n + 1 <= wrote[c]
         /\ SendsFrom(c, n + 1)'
<1>0. cmds \in Seq(CmdType) /\ wrote[c] \in Nat
  BY NetstackAssumption DEF TypeInv, TaskTypes
<1>1. /\ Head(cmds) = cmds[1] /\ 1 \in DOMAIN cmds
      /\ \A i \in DOMAIN cmds' : /\ i + 1 \in DOMAIN cmds /\ i + 1 # 1
                                 /\ cmds'[i] = cmds[i + 1]
      /\ \A i \in DOMAIN cmds : i = 1 \/ (i - 1 \in DOMAIN cmds' /\ cmds'[i - 1] = cmds[i])
  BY <1>0, TailEntries
<1>2. \A i \in DOMAIN cmds : i \in Nat /\ cmds[i].n \in Nat /\ (i # 1 => 1 < i)
  <2>1. \A i \in DOMAIN cmds : i \in Nat /\ cmds[i] \in CmdType /\ (i # 1 => 1 < i)
    BY <1>0
  <2> QED
    BY <2>1, NetstackAssumption DEF CmdType
<1>3. SendOf(1, c) /\ n < cmds[1].n /\ cmds[1].n <= wrote[c]
  BY <1>1 DEF SendOf, SendsFrom, QueueInv
<1>4. n + 1 \in (n + 1)..wrote[c]
  BY <1>0, <1>1, <1>2, <1>3
<1>5. PICK i \in DOMAIN cmds : SendOf(i, c) /\ cmds[i].n = n + 1
  BY <1>4 DEF SendsFrom
<1>6. \A j \in DOMAIN cmds : SendOf(j, c) /\ j # 1 => cmds[1].n < cmds[j].n
  BY <1>1, <1>2, <1>3 DEF QueueInv
<1>7. cmds[1].n = n + 1
  BY <1>1, <1>2, <1>3, <1>5, <1>6
<1>8. \A j \in DOMAIN cmds' : SendOf(j, c)' => n + 1 < cmds'[j].n
  BY <1>1, <1>6, <1>7 DEF SendOf
<1>9. ASSUME NEW x \in (n + 1 + 1)..wrote'[c]
      PROVE  \E j \in DOMAIN cmds' : SendOf(j, c)' /\ cmds'[j].n = x
  <2>0. x \in (n + 1 + 1)..wrote[c]
    OBVIOUS
  <2>1. x \in (n + 1)..wrote[c] /\ x # n + 1
    BY <1>0, <2>0
  <2>2. PICK j \in DOMAIN cmds : SendOf(j, c) /\ cmds[j].n = x
    BY <2>1 DEF SendsFrom
  <2>3. j # 1
    BY <1>7, <2>1, <2>2
  <2>4. j - 1 \in DOMAIN cmds' /\ cmds'[j - 1] = cmds[j]
    BY <1>1, <2>3
  <2>5. SendOf(j - 1, c)' /\ cmds'[j - 1].n = x
    BY <2>2, <2>4 DEF SendOf
  <2> QED
    BY <2>4, <2>5
<1>10. SendsFrom(c, n + 1)'
  BY <1>8, <1>9 DEF SendsFrom
<1> QED
  BY <1>0, <1>1, <1>4, <1>7, <1>10

\* A close behind the last chunk.
LEMMA NothingLeft ==
  ASSUME TypeInv, QueueInv, NEW c \in Conn, NEW n \in Nat, SendsFrom(c, n),
         n <= wrote[c], cmds # <<>>, Head(cmds).op = "close", Head(cmds).c = c
  PROVE  n = wrote[c] /\ Left(c)
<1>0. cmds \in Seq(CmdType) /\ wrote[c] \in Nat
  BY NetstackAssumption DEF TypeInv, TaskTypes
<1>1. Head(cmds) = cmds[1] /\ 1 \in DOMAIN cmds /\ \A i \in DOMAIN cmds : ~(i < 1)
  BY <1>0
<1>2. \A i \in DOMAIN cmds : ~SendOf(i, c)
  BY <1>1 DEF QueueInv
<1>3. Left(c)
  BY <1>1 DEF QueueInv
<1>4. ~(n < wrote[c])
  <2> SUFFICES ASSUME n < wrote[c] PROVE FALSE
    OBVIOUS
  <2>1. n + 1 \in (n + 1)..wrote[c]
    BY <1>0
  <2> QED
    BY <1>2, <2>1 DEF SendsFrom
<1> QED
  BY <1>0, <1>3, <1>4

\* The head of the queue is taken off it.
LEMMA HeadTaken ==
  ASSUME TypeInv, NEW op, Receive(op), NEW c \in Conn, ~(op = "send" /\ Head(cmds).c = c)
  PROVE  QueueOthers(c)
BY HeadCmd DEF QueueOthers, Receive

\* A command of the connection x goes to its own socket, if it has one.
LEMMA OwnSocket ==
  ASSUME TypeInv, OwnInv, NEW op \in {"send", "close"}, Receive(op),
         NEW k \in Handle, NEW x \in Conn, conns[k].c = x, Head(cmds).c = x
  PROVE  Head(cmds).h = k
<1>1. Head(cmds) = cmds[1] /\ 1 \in DOMAIN cmds
  BY TailEntries DEF TypeInv, Receive
<1>2. Head(cmds).op = op /\ Head(cmds).h \in Handle
  BY HeadCmd
<1>3. Head(cmds).h = handle[x] /\ x # None /\ handle[x] # 0
  BY <1>1, <1>2, NetstackAssumption DEF OwnInv, OneSocket, Handle
<1> QED
  BY <1>3 DEF OwnInv, OneSocket

LEMMA OutSend ==
  ASSUME TypeInv, TypeInv', OwnInv, QueueInv, OutInv, FinInv, HandleSend
  PROVE  OutInv' /\ FinInv'
<1> DEFINE m == Head(cmds)
<1>1. /\ m.h \in Handle /\ m.c \in Conn /\ m.op = "send" /\ m.n \in Nat
      /\ cmds # <<>> /\ cmds' = Tail(cmds) /\ Receive("send")
  BY HeadCmd, NetstackAssumption DEF HandleSend
<1>2. PICK h \in Handle : h = m.h
  BY <1>1
<1>3. /\ UNCHANGED <<task, wrote, tcp, rcvd, finSeen>>
      /\ crossed' = crossed \cup ({conns[h].c} \ {None, m.c})
      /\ conns' = [conns EXCEPT ![h] =
           IF conns[h].c = None THEN NoConn
           ELSE [c |-> conns[h].c, out |-> Append(conns[h].out, m.n),
                 replying |-> conns[h].replying, closing |-> conns[h].closing]]
  BY <1>2 DEF HandleSend, taskVars, remoteVars
<1> HIDE DEF m
<1>4. /\ \A k \in Handle : k # h => conns'[k] = conns[k]
      /\ conns[h].c = None => conns'[h].c = None
      /\ conns[h].c # None =>
           conns'[h] = [c |-> conns[h].c, out |-> Append(conns[h].out, m.n),
                        replying |-> conns[h].replying, closing |-> conns[h].closing]
  BY <1>3 DEF TypeInv, SocketTypes, NoConn
<1>5. FinInv'
  BY <1>3 DEF FinInv, Left
<1>6. \A x \in Conn : Left(x) => Left(x)'
  BY <1>3 DEF Left
<1>7. ASSUME NEW k \in Handle, NEW x \in Conn, conns'[k].c = x, x \notin crossed', k # h
      PROVE  \E n \in Nat : StreamAt(k, x, n)'
  <2>1. conns[k].c = x /\ x \notin crossed /\ conns'[k] = conns[k]
    BY <1>3, <1>4, <1>7
  <2>2. m.c # x
    BY <1>1, <1>2, <1>7, <2>1, OwnSocket DEF m
  <2>3. QueueOthers(x)
    BY <1>1, <2>2, HeadTaken DEF m
  <2> QED
    BY <1>3, <1>6, <1>7, <2>1, <2>3, StreamElse
<1>8. ASSUME NEW x \in Conn, conns'[h].c = x, x \notin crossed'
      PROVE  \E n \in Nat : StreamAt(h, x, n)'
  <2>1. conns[h].c # None /\ x # None
    BY <1>4, <1>8, NetstackAssumption
  <2>2. /\ conns'[h].c = conns[h].c /\ conns'[h].out = Append(conns[h].out, m.n)
        /\ conns'[h].closing => conns[h].closing
    BY <1>4, <2>1
  <2>3. conns[h].c = x /\ m.c = x /\ x \notin crossed
    BY <1>3, <1>8, <2>1, <2>2
  <2>4. PICK n \in Nat : StreamAt(h, x, n)
    BY <2>3 DEF OutInv
  <2>5. m.n = n + 1 /\ n + 1 <= wrote[x] /\ SendsFrom(x, n + 1)'
    BY <1>1, <1>3, <2>3, <2>4, NextChunk DEF StreamAt, m
  <2>6. wrote[x] \in Nat
    BY NetstackAssumption DEF TypeInv, TaskTypes
  <2>7. ~conns[h].closing
    BY <2>4, <2>5, <2>6 DEF StreamAt
  <2>8. tcp[h].st \notin Ended
    BY <2>4, <2>7 DEF StreamAt
  <2>9. PICK g \in Seq(Nat), t \in Seq(Nat), o \in Seq(Nat) :
          /\ g = Cat(rcvd[x], tcp[h].tx) /\ o = conns[h].out /\ t = OutSeq(h)
          /\ t = Cat(g, o)
    BY <2>3, OutParts
  <2>10. Counting(t) /\ Len(t) = n
    BY <2>4, <2>9 DEF StreamAt
  <2>11. OutSeq(h)' = Cat(g, Append(o, m.n))
    BY <1>3, <2>2, <2>3, <2>9 DEF OutSeq
  <2>12. OutSeq(h)' = Append(t, n + 1)
    BY <2>5, <2>9, <2>11, CatAppend, SMTT(30)
  <2>13. Counting(OutSeq(h)') /\ Len(OutSeq(h)') = n + 1
    BY <2>10, <2>12, CountingAppend
  <2>14. /\ ~conns'[h].closing /\ tcp'[h].st \notin Ended /\ n + 1 <= wrote'[x]
    BY <1>3, <2>2, <2>5, <2>7, <2>8
  <2>15. StreamAt(h, x, n + 1)'
    BY <2>5, <2>13, <2>14, Zenon DEF StreamAt
  <2> QED
    BY <2>15
<1>9. \A k \in Handle, x \in Conn :
        (conns'[k].c = x /\ x \notin crossed') => \E n \in Nat : StreamAt(k, x, n)'
  BY <1>7, <1>8
<1> QED
  BY <1>5, <1>9, Zenon DEF OutInv

LEMMA OutClose ==
  ASSUME TypeInv, TypeInv', OwnInv, QueueInv, OutInv, FinInv, HandleClose
  PROVE  OutInv' /\ FinInv'
<1> DEFINE m == Head(cmds)
<1>1. /\ m.h \in Handle /\ m.c \in Conn /\ m.op = "close"
      /\ cmds # <<>> /\ cmds' = Tail(cmds) /\ Receive("close")
  BY HeadCmd DEF HandleClose
<1>2. PICK h \in Handle : h = m.h
  BY <1>1
<1>3. /\ UNCHANGED <<task, wrote, tcp, rcvd, finSeen>>
      /\ crossed' = crossed \cup ({conns[h].c} \ {None, m.c})
      /\ conns' = [conns EXCEPT ![h] =
           IF conns[h].c = None THEN NoConn
           ELSE [c |-> conns[h].c, out |-> conns[h].out,
                 replying |-> conns[h].replying, closing |-> TRUE]]
  BY <1>2 DEF HandleClose, taskVars, remoteVars
<1> HIDE DEF m
<1>4. /\ \A k \in Handle : k # h => conns'[k] = conns[k]
      /\ conns[h].c = None => conns'[h].c = None
      /\ conns[h].c # None =>
           conns'[h] = [c |-> conns[h].c, out |-> conns[h].out,
                        replying |-> conns[h].replying, closing |-> TRUE]
  BY <1>3 DEF TypeInv, SocketTypes, NoConn
<1>5. FinInv'
  BY <1>3 DEF FinInv, Left
<1>6. \A x \in Conn : (Left(x) => Left(x)') /\ QueueOthers(x)
  BY <1>1, <1>3, HeadTaken DEF Left
<1>7. ASSUME NEW k \in Handle, NEW x \in Conn, conns'[k].c = x, x \notin crossed', k # h
      PROVE  \E n \in Nat : StreamAt(k, x, n)'
  BY <1>3, <1>4, <1>6, <1>7, StreamElse
<1>8. ASSUME NEW x \in Conn, conns'[h].c = x, x \notin crossed'
      PROVE  \E n \in Nat : StreamAt(h, x, n)'
  <2>1. conns[h].c # None /\ x # None
    BY <1>4, <1>8, NetstackAssumption
  <2>2. conns'[h].c = conns[h].c /\ conns'[h].out = conns[h].out /\ conns'[h].closing
    BY <1>4, <2>1
  <2>3. conns[h].c = x /\ m.c = x /\ x \notin crossed
    BY <1>3, <1>8, <2>1, <2>2
  <2>4. PICK n \in Nat : StreamAt(h, x, n)
    BY <2>3 DEF OutInv
  <2>5. n = wrote[x] /\ Left(x)
    BY <1>1, <2>3, <2>4, NothingLeft DEF StreamAt, m
  <2>6. OutSeq(h)' = OutSeq(h)
    BY <1>3, <2>2 DEF OutSeq
  <2>7. SendsFrom(x, n)'
    BY <1>3, <1>6, <2>4, SendsSame DEF StreamAt
  <2>8. Counting(OutSeq(h)') /\ Len(OutSeq(h)') = n /\ n <= wrote'[x]
    BY <1>3, <2>4, <2>6 DEF StreamAt
  <2>9. Left(x)' /\ n = wrote'[x]
    BY <1>3, <1>6, <2>5
  <2>10. tcp'[h].st \in Ended => conns'[h].closing /\ conns'[h].out = <<>>
    BY <1>3, <2>2, <2>4 DEF StreamAt
  <2>11. StreamAt(h, x, n)'
    BY <2>7, <2>8, <2>9, <2>10, Zenon DEF StreamAt
  <2> QED
    BY <2>11
<1>9. \A k \in Handle, x \in Conn :
        (conns'[k].c = x /\ x \notin crossed') => \E n \in Nat : StreamAt(k, x, n)'
  BY <1>7, <1>8
<1> QED
  BY <1>5, <1>9, Zenon DEF OutInv

\* A new connection has nothing under way.
LEMMA OutOpen ==
  ASSUME TypeInv, TypeInv', OwnInv, OutInv, FinInv, HandleConnect,
         \A c \in Conn : Left(c) => Left(c)'
  PROVE  OutInv' /\ FinInv'
<1>1. /\ UNCHANGED <<wrote, rcvd, finSeen, crossed>>
      /\ Receive("connect") /\ cmds # <<>> /\ cmds' = Tail(cmds)
  BY DEF HandleConnect, Receive, remoteVars
<1>2. \A x \in Conn : QueueOthers(x)
  BY <1>1, HeadTaken
<1>3. CASE UNCHANGED <<conns, tcp>>
  BY <1>1, <1>2, <1>3, OutQuiet
<1>4. CASE ~UNCHANGED <<conns, tcp>>
  <2>1. PICK c \in Conn : c = Head(cmds).c
    BY <1>1, HeadCmd
  <2>2. PICK h \in Handle :
          /\ conns' = [conns EXCEPT ![h] = [c |-> c, out |-> <<>>,
                                            replying |-> TRUE, closing |-> FALSE]]
          /\ tcp' = [tcp EXCEPT ![h] = [st |-> "synsent", tx |-> <<>>, rx |-> <<>>]]
    BY <1>4, <2>1 DEF HandleConnect
  <2>3. Head(cmds) = cmds[1] /\ 1 \in DOMAIN cmds /\ cmds[1].op = "connect"
    BY <1>1, HeadCmd, TailEntries DEF TypeInv, Receive
  <2>4. Untouched(c)
    BY <2>1, <2>3 DEF OwnInv, Begins
  <2>5. /\ conns'[h].c = c /\ conns'[h].out = <<>> /\ ~conns'[h].closing
        /\ tcp'[h].tx = <<>> /\ tcp'[h].st = "synsent"
        /\ \A k \in Handle : k # h => conns'[k] = conns[k] /\ tcp'[k] = tcp[k]
    BY <2>2 DEF TypeInv, SocketTypes
  <2>6. rcvd'[c] = <<>> /\ wrote'[c] = 0
    BY <1>1, <2>4 DEF Untouched
  <2>7. OutSeq(h)' = <<>>
    BY <2>5, <2>6 DEF OutSeq, Cat
  <2>8. \A i \in DOMAIN cmds' : ~SendOf(i, c)'
    <3>1. \A i \in DOMAIN cmds' : cmds'[i] \in CmdType
      BY DEF TypeInv
    <3>2. \A i \in DOMAIN cmds' : i + 1 \in DOMAIN cmds /\ cmds'[i] = cmds[i + 1]
      BY <1>1, TailEntries DEF TypeInv
    <3>3. \A i \in DOMAIN cmds : SendOf(i, c) => cmds[i].h = 0
      BY <2>4 DEF OwnInv, OneSocket, Untouched, SendOf
    <3>4. \A i \in DOMAIN cmds' : cmds'[i].op = "send" => cmds'[i].h # 0
      BY <3>1 DEF CmdType, Handle
    <3> QED
      BY <3>2, <3>3, <3>4 DEF SendOf
  <2>9. SendsFrom(c, 0)'
    <3>1. \A x \in (0 + 1)..wrote'[c] : FALSE
      BY <2>6
    <3> QED
      BY <2>8, <3>1 DEF SendsFrom
  <2>10. Counting(OutSeq(h)') /\ Len(OutSeq(h)') = 0 /\ 0 <= wrote'[c]
    BY <2>6, <2>7 DEF Counting
  <2>11. tcp'[h].st \notin Ended
    BY <2>5 DEF Ended
  <2>12. StreamAt(h, c, 0)'
    BY <2>5, <2>9, <2>10, <2>11, Zenon DEF StreamAt
  <2>13. ASSUME NEW k \in Handle, NEW x \in Conn, conns'[k].c = x, x \notin crossed', k # h
         PROVE  \E n \in Nat : StreamAt(k, x, n)'
    BY <1>1, <1>2, <2>5, <2>13, StreamElse
  <2>14. \A k \in Handle, x \in Conn :
           (conns'[k].c = x /\ x \notin crossed') => \E n \in Nat : StreamAt(k, x, n)'
    BY <2>5, <2>12, <2>13
  <2>15. FinInv'
    BY <1>1 DEF FinInv
  <2> QED
    BY <2>14, <2>15, Zenon DEF OutInv
<1> QED
  BY <1>3, <1>4

LEMMA OutStep ==
  ASSUME TypeInv, TypeInv', OwnInv, QueueInv, OutInv, FinInv, [Next]_vars
  PROVE  OutInv' /\ FinInv'
<1>0. \A c \in Conn : Left(c) => Left(c)'
  BY LeftStays
<1>1. ASSUME UNCHANGED <<conns, tcp, rcvd, finSeen, wrote, crossed, cmds>>
      PROVE  OutInv' /\ FinInv'
  BY <1>0, <1>1, OutQuiet DEF QueueOthers
<1>2. ASSUME NEW c \in Conn, Resolve(c) \/ Connect(c) \/ LocalEnd(c) \/ RelayDrop(c)
      PROVE  OutInv' /\ FinInv'
  <2>1. UNCHANGED <<conns, tcp, rcvd, finSeen, wrote, crossed>> /\ task' # task
    BY <1>2 DEF Resolve, Connect, LocalEnd, RelayDrop, remoteVars, TypeInv, TaskTypes
  <2>2. ~Write(c)
    BY <2>1 DEF Write
  <2>3. \A x \in Conn : QueueOthers(x)
    BY <1>2, <2>2, Submitted DEF QueueOthers
  <2> QED
    BY <1>0, <2>1, <2>3, OutQuiet
<1>3. ASSUME NEW c \in Conn, Write(c) PROVE OutInv' /\ FinInv'
  BY <1>3, OutWrite
<1>4. ASSUME NEW c \in Conn, Abandon(c) \/ Read(c) \/ RemoteEnd(c) \/ QueryDone(c)
      PROVE  OutInv' /\ FinInv'
  BY <1>1, <1>4 DEF Abandon, Read, RemoteEnd, QueryDone, taskVars, remoteVars
<1>5. ASSUME NEW h \in Handle, RemoteSends(h) \/ RemoteFin(h) \/ Reset(h) \/ NetworkStep(h)
      PROVE  OutInv' /\ FinInv'
  BY <1>5, OutPoll
<1>6. ASSUME NEW h \in Handle, Service(h) PROVE OutInv' /\ FinInv'
  BY <1>0, <1>6, OutService
<1>7. CASE HandleResolve
  <2>1. /\ UNCHANGED <<conns, tcp, rcvd, finSeen, wrote, crossed>> /\ Receive("resolve")
    BY <1>7 DEF HandleResolve, remoteVars
  <2>2. \A x \in Conn : QueueOthers(x)
    BY <2>1, HeadTaken
  <2> QED
    BY <1>0, <2>1, <2>2, OutQuiet
<1>8. CASE HandleConnect
  BY <1>0, <1>8, OutOpen
<1>9. CASE HandleSend
  BY <1>9, OutSend
<1>10. CASE HandleClose
  BY <1>10, OutClose
<1>11. CASE Withdraw \/ TunnelLost \/ Polled \/ ServiceDns \/ NoMoreCommands \/ UNCHANGED vars
  BY <1>1, <1>11 DEF Withdraw, TunnelLost, Polled, ServiceDns, NoMoreCommands, vars,
     taskVars, remoteVars
<1>12. CASE ActorExit
  <2>1. /\ UNCHANGED <<rcvd, finSeen, wrote, crossed>>
        /\ \A h \in Handle : conns'[h].c = None
    BY <1>12 DEF ActorExit, taskVars, remoteVars, NoConn
  <2>2. OutInv'
    BY <2>1, NetstackAssumption DEF OutInv
  <2>3. FinInv'
    BY <1>0, <2>1 DEF FinInv
  <2> QED
    BY <2>2, <2>3
<1> QED
  BY <1>2, <1>3, <1>4, <1>5, <1>6, <1>7, <1>8, <1>9, <1>10, <1>11, <1>12
  DEF Next, TaskStep, ActorStep

\* TcpWriter::close closes the sending half once drained: a host that sees
\* our FIN has the whole stream the task wrote, in order, unless another
\* connection's commands went to the socket.
THEOREM WritesAreWhole == Spec => []DrainedBeforeFin
<1>1. Init => TypeInv /\ OwnInv /\ QueueInv /\ OutInv /\ FinInv
  BY TypeInit, OwnInit, QueueInit, OutInit
<1>2. TypeInv /\ OwnInv /\ QueueInv /\ OutInv /\ FinInv /\ [Next]_vars
        => (TypeInv /\ OwnInv /\ QueueInv /\ OutInv /\ FinInv)'
  BY TypeStep, OwnStep, QueueStep, OutStep
<1>3. FinInv => DrainedBeforeFin
  BY FinInvImplies
<1> QED
  BY <1>1, <1>2, <1>3, PTL DEF Spec
=============================================================================
