------------------------------ MODULE Netstack ------------------------------
(***************************************************************************)
(* The userspace netstack of netstack.rs: the actor thread that owns the   *)
(* smoltcp sockets, and the tasks that use it over its command channel:    *)
(* the SOCKS server's relays (socks.rs, via_netstack and relay) and the    *)
(* egress traces (trace.rs, do_fetch).                                     *)
(*                                                                         *)
(* Every connection attempt c is made once.  A chunk of bytes is its       *)
(* number in the stream it belongs to.  smoltcp and the remote hosts are   *)
(* external: TCP delivers both streams reliably and in order while the     *)
(* tunnel is up, retransmits without end when it is not, and a host may    *)
(* reset a connection at any time.  Packets are what iface.poll turns them *)
(* into, a change of one socket.                                           *)
(***************************************************************************)
EXTENDS Naturals, FiniteSets, Sequences

CONSTANTS
  Conn,        \* connection attempts
  Fetcher,     \* the attempts made by fetch_trace, which times out
  Literal,     \* the attempts to an IP address, which needs no query
  Losable,     \* whether the tunnel is ever lost or replaced
  MaxSlot,     \* bound on the sockets that exist at a time
  ChanDepth,   \* CHAN_DEPTH: chunks a from_net channel holds
  BufSize,     \* SOCK_BUF: chunks a socket buffer holds
  MaxOut,      \* bound on the chunks a task writes
  MaxIn,       \* bound on the chunks a remote host sends
  None

ASSUME NetstackAssumption ==
  /\ Fetcher \subseteq Conn /\ Literal \subseteq Conn /\ Losable \in BOOLEAN
  /\ None \notin Conn /\ MaxSlot \in Nat \ {0}
  /\ ChanDepth \in Nat \ {0} /\ BufSize \in Nat \ {0}
  /\ MaxOut \in Nat /\ MaxIn \in Nat

VARIABLES
  up,          \* the tunnel carries packets, and its feeder runs
  served,      \* the worker gives out this netstack's handle
  task,        \* where the task behind each attempt is
  handle,      \* TcpConn.handle: the socket handle the task was given
  wrote,       \* chunks the task has written
  got,         \* chunks the task has read
  chan,        \* the from_net channel
  eof,         \* the sending side of from_net was dropped
  cmds,        \* the command channel
  pc,          \* where the actor is in its loop
  todo,        \* sockets service_sockets has still to visit
  conns,       \* Actor.conns
  tcp,         \* Actor.sockets: the TCP sockets, at the same handles
  pending,     \* Actor.dns_pending, whose order does not matter
  answer,      \* the state of each DNS query
  sent,        \* chunks the remote host has sent
  finSent,     \* the remote host has closed its direction
  rcvd,        \* chunks the remote host has received
  finSeen,     \* the remote host has seen our FIN
  crossed      \* history: attempts whose socket took another one's command

taskVars == <<task, handle, wrote, got>>
remoteVars == <<sent, finSent, rcvd, finSeen>>
dnsVars == <<pending, answer>>
vars == <<up, served, taskVars, chan, eof, cmds, pc, todo, conns, tcp, dnsVars,
          remoteVars, crossed>>

Handle == 1..MaxSlot
NoConn == [c |-> None, out |-> <<>>, replying |-> FALSE, closing |-> FALSE]
NoSocket == [st |-> "none", tx |-> <<>>, rx |-> <<>>]
Cmd(op, c, h, n) == [op |-> op, c |-> c, h |-> h, n |-> n]
Used == {h \in Handle : conns[h].c # None}
Counting(s) == \A i \in DOMAIN s : s[i] = i

Smaller(a, b) == IF a < b THEN a ELSE b
First(s, n) == SubSeq(s, 1, n)
Rest(s, n) == SubSeq(s, n + 1, Len(s))

\* Every variable has its type, and conns and the socket set have the same
\* handles: the actor's get_mut and expect never panic.
TypeOK ==
  /\ up \in BOOLEAN /\ served \in BOOLEAN
  /\ task \in [Conn -> {"idle", "resolving", "resolved", "connecting", "relay",
                        "ending", "done"}]
  /\ handle \in [Conn -> 0..MaxSlot]
  /\ wrote \in [Conn -> 0..MaxOut] /\ sent \in [Conn -> 0..MaxIn]
  /\ got \in [Conn -> Seq(1..MaxIn)] /\ chan \in [Conn -> Seq(1..MaxIn)]
  /\ rcvd \in [Conn -> Seq(1..MaxOut)]
  /\ eof \in [Conn -> BOOLEAN]
  /\ finSent \in [Conn -> BOOLEAN] /\ finSeen \in [Conn -> BOOLEAN]
  /\ cmds \in Seq([op : {"resolve", "connect", "send", "close"}, c : Conn,
                   h : 0..MaxSlot, n : 0..MaxOut])
  /\ pc \in {"poll", "service", "cmd", "exited"} /\ todo \subseteq Used
  /\ conns \in [Handle -> [c : Conn \cup {None}, out : Seq(1..MaxOut),
                           replying : BOOLEAN, closing : BOOLEAN]]
  /\ tcp \in [Handle -> [st : {"none", "synsent", "established", "closewait",
                               "finwait", "closing", "lastack", "timewait",
                               "closed"},
                         tx : Seq(1..MaxOut), rx : Seq(1..MaxIn)]]
  /\ pending \subseteq Conn /\ answer \in [Conn -> {"none", "ok", "failed"}]
  /\ crossed \subseteq Conn
  /\ \A h \in Handle : conns[h].c = None <=> tcp[h].st = "none"

Init ==
  /\ up = TRUE /\ served = TRUE
  /\ task = [c \in Conn |-> "idle"] /\ handle = [c \in Conn |-> 0]
  /\ wrote = [c \in Conn |-> 0] /\ got = [c \in Conn |-> <<>>]
  /\ chan = [c \in Conn |-> <<>>] /\ eof = [c \in Conn |-> FALSE]
  /\ cmds = <<>> /\ pc = "poll" /\ todo = {}
  /\ conns = [h \in Handle |-> NoConn] /\ tcp = [h \in Handle |-> NoSocket]
  /\ pending = {} /\ answer = [c \in Conn |-> "none"]
  /\ sent = [c \in Conn |-> 0] /\ finSent = [c \in Conn |-> FALSE]
  /\ rcvd = [c \in Conn |-> <<>>] /\ finSeen = [c \in Conn |-> FALSE]
  /\ crossed = {}

-----------------------------------------------------------------------------
(* The tasks.  Nothing they send is refused: the actor outlives every      *)
(* holder of a command sender.                                             *)

Submit(c, op, h, n) == cmds' = Append(cmds, Cmd(op, c, h, n))

\* via_netstack and do_fetch: resolve, then connect.
Resolve(c) ==
  /\ task[c] = "idle" /\ served
  /\ task' = [task EXCEPT ![c] = "resolving"]
  /\ Submit(c, "resolve", 0, 0)
  /\ UNCHANGED <<up, served, handle, wrote, got, chan, eof, pc, todo, conns, tcp,
                 dnsVars, remoteVars, crossed>>

Connect(c) ==
  /\ task[c] = "resolved"
  /\ task' = [task EXCEPT ![c] = "connecting"]
  /\ Submit(c, "connect", 0, 0)
  /\ UNCHANGED <<up, served, handle, wrote, got, chan, eof, pc, todo, conns, tcp,
                 dnsVars, remoteVars, crossed>>

\* writer.send or poll_write: the command channel is unbounded.
Write(c) ==
  /\ task[c] = "relay" /\ wrote[c] < MaxOut
  /\ wrote' = [wrote EXCEPT ![c] = wrote[c] + 1]
  /\ Submit(c, "send", handle[c], wrote[c] + 1)
  /\ UNCHANGED <<up, served, task, handle, got, chan, eof, pc, todo, conns, tcp,
                 dnsVars, remoteVars, crossed>>

\* recv or poll_read.
Read(c) ==
  /\ task[c] = "relay" /\ chan[c] # <<>>
  /\ got' = [got EXCEPT ![c] = Append(got[c], Head(chan[c]))]
  /\ chan' = [chan EXCEPT ![c] = Tail(chan[c])]
  /\ UNCHANGED <<up, served, task, handle, wrote, eof, cmds, pc, todo, conns,
                 tcp, dnsVars, remoteVars, crossed>>

\* The local client is done, or fails to take a chunk: client_to_net closes
\* the writer, net_to_client just ends.
LocalEnd(c) ==
  /\ task[c] = "relay" /\ c \notin Fetcher
  /\ task' = [task EXCEPT ![c] = "ending"]
  /\ Submit(c, "close", handle[c], 0) \/ UNCHANGED cmds
  /\ UNCHANGED <<up, served, handle, wrote, got, chan, eof, pc, todo, conns, tcp,
                 dnsVars, remoteVars, crossed>>

\* recv returned None: the channel is drained and its sender is gone.
RemoteEnd(c) ==
  /\ task[c] = "relay" /\ chan[c] = <<>> /\ eof[c]
  /\ task' = [task EXCEPT ![c] = IF c \in Fetcher THEN "done" ELSE "ending"]
  /\ UNCHANGED <<up, served, handle, wrote, got, chan, eof, cmds, pc, todo,
                 conns, tcp, dnsVars, remoteVars, crossed>>

\* relay returns and TcpWriter's drop closes (again).
RelayDrop(c) ==
  /\ task[c] = "ending"
  /\ task' = [task EXCEPT ![c] = "done"]
  /\ Submit(c, "close", handle[c], 0)
  /\ UNCHANGED <<up, served, handle, wrote, got, chan, eof, pc, todo, conns, tcp,
                 dnsVars, remoteVars, crossed>>

\* A TcpConn that was not split goes away without a command, for it has no
\* Drop: do_fetch is over, or timed out wherever it was; or via_netstack could
\* not write its success reply, before anything was relayed.
Abandon(c) ==
  /\ \/ c \in Fetcher /\ task[c] \in {"resolving", "resolved", "connecting", "relay"}
     \/ c \notin Fetcher /\ task[c] = "relay" /\ wrote[c] = 0 /\ got[c] = <<>>
  /\ task' = [task EXCEPT ![c] = "done"]
  /\ UNCHANGED <<up, served, handle, wrote, got, chan, eof, cmds, pc, todo,
                 conns, tcp, dnsVars, remoteVars, crossed>>

-----------------------------------------------------------------------------
(* The tunnel.                                                             *)

\* clear_net, or the worker's tunnel was replaced: no new user gets a handle.
Withdraw ==
  /\ Losable /\ served /\ served' = FALSE
  /\ UNCHANGED <<up, taskVars, chan, eof, cmds, pc, todo, conns, tcp, dnsVars,
                 remoteVars, crossed>>

\* The transport dies or is dropped: recv_ip fails and the feeder ends.
TunnelLost ==
  /\ Losable /\ up /\ up' = FALSE
  /\ UNCHANGED <<served, taskVars, chan, eof, cmds, pc, todo, conns, tcp, dnsVars,
                 remoteVars, crossed>>

-----------------------------------------------------------------------------
(* iface.poll: what smoltcp and the remote hosts may do to one socket.     *)

\* The socket at h changes to s; nobody else notices.
SocketBecomes(h, s) ==
  /\ tcp' = [tcp EXCEPT ![h] = s]
  /\ UNCHANGED <<up, served, taskVars, chan, eof, cmds, pc, todo, conns, dnsVars,
                 crossed>>

Polling(h) == pc = "poll" /\ tcp[h].st # "none"
Moved(h, st) == [st |-> st, tx |-> tcp[h].tx, rx |-> tcp[h].rx]

SynAck(h) ==
  /\ Polling(h) /\ up /\ tcp[h].st = "synsent"
  /\ SocketBecomes(h, Moved(h, "established"))
  /\ UNCHANGED remoteVars

Reset(h) ==
  /\ Polling(h) /\ up /\ tcp[h].st # "closed"
  /\ SocketBecomes(h, Moved(h, "closed"))
  /\ UNCHANGED remoteVars

\* The host answers once it has our ACK of its SYN, which leaves with the
\* poll that reports the connection established.
RemoteSends(h) ==
  LET c == conns[h].c IN
  /\ Polling(h) /\ up /\ ~conns[h].replying
  /\ tcp[h].st \in {"established", "finwait"}
  /\ ~finSent[c] /\ sent[c] < MaxIn /\ Len(tcp[h].rx) < BufSize
  /\ sent' = [sent EXCEPT ![c] = sent[c] + 1]
  /\ SocketBecomes(h, [st |-> tcp[h].st, tx |-> tcp[h].tx,
                       rx |-> Append(tcp[h].rx, sent[c] + 1)])
  /\ UNCHANGED <<finSent, rcvd, finSeen>>

RemoteFin(h) ==
  LET c == conns[h].c IN
  /\ Polling(h) /\ up /\ ~conns[h].replying
  /\ tcp[h].st \in {"established", "finwait"}
  /\ finSent' = [finSent EXCEPT ![c] = TRUE]
  /\ SocketBecomes(h, Moved(h, IF tcp[h].st = "established" THEN "closewait"
                               ELSE IF finSeen[c] THEN "timewait" ELSE "closing"))
  /\ UNCHANGED <<sent, rcvd, finSeen>>

\* A chunk that was sent is received and acknowledged.
Delivered(h) ==
  LET c == conns[h].c IN
  /\ Polling(h) /\ up /\ tcp[h].tx # <<>>
  /\ tcp[h].st \in {"established", "closewait", "finwait", "closing", "lastack"}
  /\ rcvd' = [rcvd EXCEPT ![c] = Append(rcvd[c], Head(tcp[h].tx))]
  /\ SocketBecomes(h, [st |-> tcp[h].st, tx |-> Tail(tcp[h].tx), rx |-> tcp[h].rx])
  /\ UNCHANGED <<sent, finSent, finSeen>>

\* Our FIN is received and acknowledged, after everything sent before it.
FinDelivered(h) ==
  LET c == conns[h].c IN
  /\ Polling(h) /\ up /\ tcp[h].tx = <<>> /\ ~finSeen[c]
  /\ tcp[h].st \in {"finwait", "closing", "lastack"}
  /\ finSeen' = [finSeen EXCEPT ![c] = TRUE]
  /\ SocketBecomes(h, Moved(h, IF tcp[h].st = "finwait" THEN "finwait"
                               ELSE IF tcp[h].st = "closing" THEN "timewait"
                               ELSE "closed"))
  /\ UNCHANGED <<sent, finSent, rcvd>>

TimeWaitOver(h) ==
  /\ Polling(h) /\ tcp[h].st = "timewait"
  /\ SocketBecomes(h, Moved(h, "closed"))
  /\ UNCHANGED remoteVars

\* A DNS query is answered, or smoltcp gives up on it.
QueryDone(c) ==
  /\ pc = "poll" /\ answer[c] = "none" /\ c \in pending
  /\ \E a \in {"ok", "failed"} :
       /\ a = "ok" => up
       /\ answer' = [answer EXCEPT ![c] = a]
  /\ UNCHANGED <<up, served, taskVars, chan, eof, cmds, pc, todo, conns, tcp,
                 pending, remoteVars, crossed>>

-----------------------------------------------------------------------------
(* The actor's loop.                                                       *)

Polled ==
  /\ pc = "poll"
  /\ pc' = "service" /\ todo' = Used
  /\ UNCHANGED <<up, served, taskVars, chan, eof, cmds, conns, tcp, dnsVars,
                 remoteVars, crossed>>

\* smoltcp's tcp::Socket: is_active, can_send, close.
Active(st) == st \notin {"none", "closed", "timewait"}

MaySend(st) == st \in {"established", "closewait"}
Closed(st) == IF st = "synsent" THEN "closed"
              ELSE IF st = "established" THEN "finwait"
              ELSE IF st = "closewait" THEN "lastack" ELSE st

\* (Nothing is sent any more once the host is done.)
ChunksOutEstablished(h) ==
  IF tcp[h].st = "established"
  THEN Smaller(Len(conns[h].out), BufSize - Len(tcp[h].tx)) ELSE 0

\* What service_sockets makes of the connection at h, step by step: the
\* chunks it moves to the socket while it can send, ...
ChunksOut(h) ==
  IF MaySend(tcp[h].st)
  THEN Smaller(Len(conns[h].out), BufSize - Len(tcp[h].tx)) ELSE 0

\* ... those it moves to the task, one permit of its channel each, ...
ChunksIn(h) ==
  LET c == conns[h].c IN
  IF task[c] = "done" THEN 0
  ELSE Smaller(Len(tcp[h].rx), ChanDepth - Len(chan[c]))

\* (A close that does not wait for out_buf.)
StateAfterEager(h) ==
  IF conns[h].closing THEN Closed(tcp[h].st) ELSE tcp[h].st

\* ... the state it leaves the socket in, closing once drained, ...
StateAfter(h) ==
  IF conns[h].closing /\ ChunksOut(h) = Len(conns[h].out)
  THEN Closed(tcp[h].st) ELSE tcp[h].st

\* (A removal that leaves out connects that failed, or all but the closes
\* that were asked for.)
RemovedWhenOpen(h) == ~conns[h].replying /\ StateAfter(h) = "closed"
RemovedOnClose(h) == conns[h].closing /\ StateAfter(h) = "closed"

\* ... whether it removes the connection, ...
Removed(h) ==
  \/ conns[h].replying /\ ~Active(tcp[h].st)
  \/ StateAfter(h) = "closed"

\* ... and where the task is that waits for its connect: it gets the handle,
\* an error, or, when the connection goes unanswered, that of a dropped reply.
TaskAfter(h) ==
  LET c == conns[h].c IN
  IF ~conns[h].replying \/ task[c] # "connecting" THEN task[c]
  ELSE IF tcp[h].st = "established" THEN "relay"
  ELSE IF Removed(h) THEN "done" ELSE task[c]

\* (The entry of conns is forgotten when the socket is removed.)
ConnAfterKept(h) ==
  [c |-> conns[h].c, out |-> Rest(conns[h].out, ChunksOut(h)),
   replying |-> conns[h].replying /\ tcp[h].st # "established",
   closing |-> conns[h].closing]

ConnAfter(h) ==
  IF Removed(h) THEN NoConn
  ELSE [c |-> conns[h].c, out |-> Rest(conns[h].out, ChunksOut(h)),
        replying |-> conns[h].replying /\ tcp[h].st # "established",
        closing |-> conns[h].closing]

\* (Chunks are taken off the socket before there is room for them.)
SocketAfterDropping(h) ==
  IF Removed(h) THEN NoSocket
  ELSE [st |-> StateAfter(h), rx |-> <<>>,
        tx |-> tcp[h].tx \o First(conns[h].out, ChunksOut(h))]

SocketAfter(h) ==
  IF Removed(h) THEN NoSocket
  ELSE [st |-> StateAfter(h), rx |-> Rest(tcp[h].rx, ChunksIn(h)),
        tx |-> tcp[h].tx \o First(conns[h].out, ChunksOut(h))]

\* One round of service_sockets.  A socket that is removed drops from_net,
\* which ends the task's stream.
Service(h) ==
  LET c == conns[h].c IN
  /\ pc = "service" /\ h \in todo
  /\ todo' = todo \ {h}
  /\ task' = [task EXCEPT ![c] = TaskAfter(h)]
  /\ handle' = [handle EXCEPT ![c] = IF TaskAfter(h) # task[c] THEN h ELSE handle[c]]
  /\ chan' = [chan EXCEPT ![c] = chan[c] \o First(tcp[h].rx, ChunksIn(h))]
  /\ eof' = [eof EXCEPT ![c] = Removed(h)]
  /\ conns' = [conns EXCEPT ![h] = ConnAfter(h)]
  /\ tcp' = [tcp EXCEPT ![h] = SocketAfter(h)]
  /\ UNCHANGED <<up, served, wrote, got, cmds, pc, dnsVars, remoteVars, crossed>>

\* (Only queries that found an address are taken off the list.)
ServiceDnsFound ==
  /\ pc = "service" /\ todo = {}
  /\ pc' = "cmd"
  /\ pending' = {c \in pending : answer[c] # "ok"}
  /\ task' = [c \in Conn |-> IF task[c] = "resolving" /\ answer[c] = "ok"
                             THEN "resolved" ELSE task[c]]
  /\ UNCHANGED <<up, served, handle, wrote, got, chan, eof, cmds, todo, conns,
                 tcp, answer, remoteVars, crossed>>

\* service_dns: every finished query is answered, in one pass.
ServiceDns ==
  /\ pc = "service" /\ todo = {}
  /\ pc' = "cmd"
  /\ pending' = {c \in pending : answer[c] = "none"}
  /\ task' = [c \in Conn |->
       IF task[c] = "resolving" /\ answer[c] # "none"
       THEN IF answer[c] = "ok" THEN "resolved" ELSE "done"
       ELSE task[c]]
  /\ UNCHANGED <<up, served, handle, wrote, got, chan, eof, cmds, todo, conns,
                 tcp, answer, remoteVars, crossed>>

-----------------------------------------------------------------------------
(* handle_cmd.                                                             *)

Receive(op) == pc = "cmd" /\ cmds # <<>> /\ Head(cmds).op = op /\ cmds' = Tail(cmds)

\* The task that sent the command, if it still waits for the answer, goes on.
Answered(c, from, to) ==
  task' = [task EXCEPT ![c] = IF task[c] = from THEN to ELSE task[c]]

\* A literal address is answered at once, a bad name is an error, anything
\* else is asked for.
HandleResolve ==
  LET c == Head(cmds).c IN
  /\ Receive("resolve")
  /\ \/ /\ c \in Literal
        /\ Answered(c, "resolving", "resolved") /\ UNCHANGED pending
     \/ /\ c \notin Literal
        /\ Answered(c, "resolving", "done") /\ UNCHANGED pending
     \/ /\ c \notin Literal
        /\ pending' = pending \cup {c} /\ UNCHANGED task
  /\ UNCHANGED <<up, served, handle, wrote, got, chan, eof, pc, todo, conns, tcp,
                 answer, remoteVars, crossed>>

\* SocketSet::add takes the first free slot.
FreeSlot(h) == h \notin Used /\ \A k \in Handle : k < h => k \in Used

HandleConnect ==
  LET c == Head(cmds).c IN
  /\ Receive("connect")
  /\ \/ \E h \in Handle :
          /\ FreeSlot(h)
          /\ conns' = [conns EXCEPT ![h] = [c |-> c, out |-> <<>>,
                                            replying |-> TRUE, closing |-> FALSE]]
          /\ tcp' = [tcp EXCEPT ![h] = [st |-> "synsent", tx |-> <<>>, rx |-> <<>>]]
          /\ UNCHANGED <<task, eof>>
     \/ /\ Answered(c, "connecting", "done")
        /\ eof' = [eof EXCEPT ![c] = TRUE]
        /\ UNCHANGED <<conns, tcp>>
  /\ UNCHANGED <<up, served, handle, wrote, got, chan, pc, todo, dnsVars,
                 remoteVars, crossed>>

\* Send and Close go to whatever connection has the handle now, if any.
HandleSend ==
  LET m == Head(cmds) IN
  /\ Receive("send")
  /\ conns' = [conns EXCEPT ![m.h] =
       IF conns[m.h].c = None THEN NoConn
       ELSE [c |-> conns[m.h].c, out |-> Append(conns[m.h].out, m.n),
             replying |-> conns[m.h].replying, closing |-> conns[m.h].closing]]
  /\ crossed' = crossed \cup ({conns[m.h].c} \ {None, m.c})
  /\ UNCHANGED <<up, served, taskVars, chan, eof, pc, todo, tcp, dnsVars,
                 remoteVars>>

HandleClose ==
  LET m == Head(cmds) IN
  /\ Receive("close")
  /\ conns' = [conns EXCEPT ![m.h] =
       IF conns[m.h].c = None THEN NoConn
       ELSE [c |-> conns[m.h].c, out |-> conns[m.h].out,
             replying |-> conns[m.h].replying, closing |-> TRUE]]
  /\ crossed' = crossed \cup ({conns[m.h].c} \ {None, m.c})
  /\ UNCHANGED <<up, served, taskVars, chan, eof, pc, todo, tcp, dnsVars,
                 remoteVars>>

\* (An actor that keeps a sender of its own channel.)
ConnectedToItself == pc # "exited"

\* Who holds a sender of the command channel: the feeder, the worker, tasks.
Connected == up \/ served \/ \E c \in Conn : task[c] \notin {"idle", "done"}

\* The queue was found empty, or nothing came before the delay was over.
NoMoreCommands ==
  /\ pc = "cmd" /\ cmds = <<>> /\ Connected
  /\ pc' = "poll"
  /\ UNCHANGED <<up, served, taskVars, chan, eof, cmds, todo, conns, tcp, dnsVars,
                 remoteVars, crossed>>

\* The channel is disconnected: run returns and everything it owns is dropped.
ActorExit ==
  /\ pc = "cmd" /\ cmds = <<>> /\ ~Connected
  /\ pc' = "exited"
  /\ conns' = [h \in Handle |-> NoConn] /\ tcp' = [h \in Handle |-> NoSocket]
  /\ eof' = [c \in Conn |-> TRUE] /\ pending' = {}
  /\ UNCHANGED <<up, served, taskVars, chan, cmds, todo, answer, remoteVars,
                 crossed>>

-----------------------------------------------------------------------------
(* The specification.                                                      *)

TaskStep(c) == Connect(c) \/ Read(c) \/ RemoteEnd(c) \/ RelayDrop(c)

\* A task runs on: it does what it need not wait for anybody to do.
TaskRuns(c) == Connect(c) \/ RelayDrop(c)

\* Its net_to_client goes round, for which the local client has to take what
\* it is sent: write_all waits for it without end.
ReaderRuns(c) == Read(c) \/ RemoteEnd(c)

\* The actor runs on.
ActorStep ==
  \/ Polled \/ (\E h \in Handle : Service(h)) \/ ServiceDns
  \/ HandleResolve \/ HandleConnect \/ HandleSend \/ HandleClose
  \/ NoMoreCommands \/ ActorExit

NetworkStep(h) ==
  SynAck(h) \/ Delivered(h) \/ FinDelivered(h) \/ TimeWaitOver(h)

\* The network completes what a host that has answered the SYN takes part in.
Carried(h) == Delivered(h) \/ FinDelivered(h) \/ TimeWaitOver(h)

Next ==
  \/ \E c \in Conn : Resolve(c) \/ Write(c) \/ LocalEnd(c) \/ Abandon(c)
                     \/ TaskStep(c) \/ QueryDone(c)
  \/ Withdraw \/ TunnelLost
  \/ \E h \in Handle : RemoteSends(h) \/ RemoteFin(h) \/ Reset(h) \/ NetworkStep(h)
  \/ ActorStep

Spec == Init /\ [][Next]_vars

\* The runtime runs the tasks and the OS the actor's thread.  smoltcp
\* retransmits, so that a host that took the connection and does not reset it
\* gets what was sent while the tunnel is up, and gives up on a query in the
\* end.  It does not give up on a SYN (no timeout is set on the socket), and
\* no host need answer one.  Whether clients read, and clients and hosts
\* write, close or reset, is up to them.
Fairness ==
  /\ \A c \in Conn : WF_vars(TaskRuns(c)) /\ SF_vars(QueryDone(c))
  /\ \A h \in Handle : SF_vars(Carried(h)) /\ WF_vars(Service(h))
  /\ WF_vars(ActorStep)

FairSpec == Spec /\ Fairness

-----------------------------------------------------------------------------
(* Properties.                                                             *)

\* What a task reads is what its host sent, in order, and nothing is lost on
\* the way while the socket exists: the bounded from_net channel stops the
\* socket instead (backpressure).
ReadInOrder ==
  \A c \in Conn :
    /\ Counting(got[c] \o chan[c])
    /\ \A h \in Handle : conns[h].c = c =>
         LET s == got[c] \o chan[c] \o tcp[h].rx IN
         Counting(s) /\ Len(s) = sent[c]

\* "Close the sending half once drained" (TcpWriter::close): a host that sees
\* the end of the stream has all of it, in order, unless another connection's
\* commands went to its socket.
DrainedBeforeFin ==
  \A c \in Conn \ crossed :
    Counting(rcvd[c]) /\ (finSeen[c] => Len(rcvd[c]) = wrote[c])

\* What a task writes reaches the host, also after the host has closed its
\* own direction, unless the connection ends or the tunnel is lost.
WritesArrive ==
  \A c \in Conn, n \in 1..MaxOut :
    (task[c] = "relay" /\ wrote[c] >= n)
      ~> (Len(rcvd[c]) >= n \/ eof[c] \/ ~up \/ c \in crossed)

\* A task learns that its connection was reset: its relay ends, if the local
\* client takes what the channel still holds.
ResetEndsRelay ==
  \A c \in Conn : WF_vars(ReaderRuns(c)) =>
    ((task[c] = "relay" /\ \E h \in Handle : conns[h].c = c /\ tcp[h].st = "closed")
       ~> (task[c] = "done"))

\* A host that has not answered the SYN of c, or was not reached by it.
Silent(c) == \E h \in Handle : conns[h].c = c /\ tcp[h].st = "synsent"

\* A connect is answered, tunnel or no tunnel, with the host's answer, unless
\* the host never gives one (then nothing ends the wait).
ConnectAnswered ==
  \A c \in Conn : task[c] = "connecting" ~> (task[c] # "connecting" \/ []Silent(c))

\* A resolve is answered, tunnel or no tunnel.
ResolveAnswered ==
  \A c \in Conn : task[c] = "resolving" ~> task[c] # "resolving"

\* The actor's thread ends when its tunnel is lost and nobody holds a handle
\* or a connection any more.
ActorExits ==
  (~up /\ ~served /\ \A c \in Conn : task[c] \in {"idle", "done"}) ~> pc = "exited"

-----------------------------------------------------------------------------
(* What comments say and the code does not do.                             *)

\* netstack.rs:8 "each TCP connection gets a pair of byte channels bridged to
\* a smoltcp socket": no connection takes the commands of another one.
OwnCommandsOnly == crossed = {}

\* netstack.rs:204 "Receive the next chunk from the remote, or `None` at EOF":
\* a task that reads on learns that its host has closed.
RemoteFinIsEof ==
  \A c \in Conn : WF_vars(ReaderRuns(c)) =>
    ((task[c] = "relay" /\ finSent[c]) ~> (task[c] # "relay" \/ ~up))
=============================================================================
