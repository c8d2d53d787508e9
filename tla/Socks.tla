------------------------------- MODULE Socks -------------------------------
(***************************************************************************)
(* The SOCKS5 server of socks.rs in front of the pool (serve_pool): one    *)
(* task per local client, which reads the greeting and the request, routes *)
(* the request by the switch Pool.enabled, connects straight out or over a *)
(* worker's netstack, replies and relays.  (serve, for a single netstack,  *)
(* is the same without Route and PickWorker.)                              *)
(*                                                                         *)
(* A request is abstracted to its target.  The client may leave at any     *)
(* time, and its task learns of it when it next uses the socket.  What     *)
(* pick, resolve and connect return is up to modules Pool and Netstack.    *)
(***************************************************************************)
EXTENDS Naturals

CONSTANTS
  Client,    \* local clients, each with one connection at a time
  Host,      \* the targets they ask for
  Loopback,  \* those for which is_loopback_host holds
  NoHost     \* no target

ASSUME SocksAssumption == Loopback \subseteq Host /\ NoHost \notin Host

VARIABLES
  enabled,   \* Pool.enabled
  task,      \* the task of each client
  stray      \* those for which a tunnelled connection is left that no task has

socksVars == <<enabled, task, stray>>

\* Where the task is, the target, its way, whether it has an upstream
\* connection, the status of the reply, whether the client is still there.
Task(at, host, via, link, code, here) ==
  [at |-> at, host |-> host, via |-> via, link |-> link, code |-> code, here |-> here]
NoTask == Task("idle", NoHost, "none", FALSE, 0, FALSE)

SocksTypeOK ==
  /\ enabled \in BOOLEAN
  /\ task \in [Client -> [at : {"idle", "greeting", "request", "route", "dial", "pick",
                                "resolve", "connect", "reply", "relay", "refused"},
                          host : Host \cup {NoHost}, via : {"none", "direct", "warp"},
                          link : BOOLEAN, code : {0, 1, 4, 5, 7, 8}, here : BOOLEAN]]
  /\ stray \subseteq Client

SocksInit ==
  /\ enabled = TRUE
  /\ task = [c \in Client |-> NoTask]
  /\ stray = {}

At(c, at) == task[c].at = at
Becomes(c, t) == task' = [task EXCEPT ![c] = t] /\ UNCHANGED <<enabled, stray>>
Goes(c, at) == Becomes(c, [task[c] EXCEPT !.at = at])
Ends(c) == Becomes(c, NoTask)

\* The reply to come is code; without success there is no connection.
Replies(c, code) ==
  Becomes(c, [task[c] EXCEPT !.at = "reply", !.code = code, !.link = code = 0])

-----------------------------------------------------------------------------

\* A client connects and is accepted.
Accept(c) ==
  /\ At(c, "idle")
  /\ Becomes(c, Task("greeting", NoHost, "none", FALSE, 0, TRUE))

ClientLeaves(c) ==
  /\ ~At(c, "idle") /\ task[c].here
  /\ Becomes(c, [task[c] EXCEPT !.here = FALSE])

\* read_request, the greeting: another version ends the task, any methods
\* are answered with "no authentication".
Greeting(c) ==
  /\ At(c, "greeting") /\ task[c].here
  /\ Goes(c, "request") \/ Ends(c)

\* read_request, the request: another version ends the task, another command
\* and an unknown type of address are refused.
Request(c) ==
  /\ At(c, "request") /\ task[c].here
  /\ \/ Ends(c)
     \/ \E code \in {7, 8} : Replies(c, code)
     \/ \E h \in Host : Becomes(c, [task[c] EXCEPT !.at = "route", !.host = h])

\* read_exact fails: the client has left.
ReadFails(c) ==
  /\ task[c].at \in {"greeting", "request"} /\ ~task[c].here
  /\ Ends(c)

is_loopback_host(h) == h \in Loopback

Route(c) ==
  /\ At(c, "route")
  /\ IF ~enabled \/ is_loopback_host(task[c].host)
     THEN Becomes(c, [task[c] EXCEPT !.at = "dial", !.via = "direct"])
     ELSE Becomes(c, [task[c] EXCEPT !.at = "pick", !.via = "warp"])

\* TcpStream::connect, for WARP off or loopback.
Dial(c) ==
  /\ At(c, "dial")
  /\ Replies(c, 0) \/ Replies(c, 5)

\* (Without a ready worker it goes straight out.)
PickWorkerOrDial(c) ==
  /\ At(c, "pick")
  /\ Goes(c, "resolve") \/ Becomes(c, [task[c] EXCEPT !.at = "dial", !.via = "direct"])

\* pool.pick(): a worker's netstack, or none is ready.
PickWorker(c) ==
  /\ At(c, "pick")
  /\ Goes(c, "resolve") \/ Replies(c, 1)

\* (A failure that is propagated instead of answered.)
ResolveHostOrEnd(c) ==
  /\ At(c, "resolve")
  /\ Goes(c, "connect") \/ Ends(c)

\* via_netstack.
ResolveHost(c) ==
  /\ At(c, "resolve")
  /\ Goes(c, "connect") \/ Replies(c, 4)

\* (Nothing bounds the wait for a host that does not answer.)
ConnectHost(c) ==
  /\ At(c, "connect")
  /\ Replies(c, 0) \/ Replies(c, 5)

\* The reply is written.
Reply(c) ==
  /\ At(c, "reply")
  /\ Goes(c, IF task[c].code = 0 THEN "relay" ELSE "refused")

\* The client has left and the reply fails.  A TcpStream closes as the task
\* ends; a TcpConn that was not split yet has no Drop, so that its connection
\* stays with the netstack.
ReplyFails(c) ==
  /\ At(c, "reply") /\ ~task[c].here
  /\ task' = [task EXCEPT ![c] = NoTask]
  /\ stray' = IF task[c].via = "warp" /\ task[c].link THEN stray \cup {c} ELSE stray
  /\ UNCHANGED enabled

\* The host resets the last connection that was left for c, or the netstack
\* that has it ends.
StrayEnds(c) ==
  /\ c \in stray /\ stray' = stray \ {c}
  /\ UNCHANGED <<enabled, task>>

\* The handler returns after a refusal, and the connection is closed.
Refused(c) ==
  /\ At(c, "refused")
  /\ Ends(c)

\* (A relay over the netstack that waits for both directions.)
RelayStopsWhenBothEnd(c) == At(c, "relay") /\ task[c].via = "direct" /\ Ends(c)

\* relay ends with the direction from the client.
RelayStops(c) ==
  /\ At(c, "relay") /\ task[c].via = "warp" /\ ~task[c].here
  /\ Ends(c)

\* relay and relay_direct end when the upstream connection does; relay_direct
\* needs both directions to end.
RelayEnds(c) ==
  /\ At(c, "relay")
  /\ Ends(c)

\* set_enabled.
Toggle(on) == enabled' = on /\ UNCHANGED <<task, stray>>

\* Every task, and every netstack, ends with the process.
AbortTasks == task' = [c \in Client |-> NoTask] /\ stray' = {} /\ UNCHANGED enabled

\* What the task does by itself, or is answered in the end: by the OS, which
\* gives up on a connect, or by smoltcp, which gives up on a query.
TaskStep(c) ==
  \/ ReadFails(c) \/ Route(c) \/ Dial(c) \/ PickWorker(c) \/ ResolveHost(c)
  \/ Reply(c) \/ ReplyFails(c) \/ Refused(c) \/ RelayStops(c)

\* What the client and the upstream host do, if they like.
PeerStep(c) ==
  \/ Accept(c) \/ ClientLeaves(c) \/ Greeting(c) \/ Request(c)
  \/ ConnectHost(c) \/ RelayEnds(c) \/ StrayEnds(c)

SocksNext ==
  \/ \E c \in Client : TaskStep(c) \/ PeerStep(c)
  \/ \E on \in BOOLEAN : Toggle(on)
  \/ AbortTasks

SocksSpec == SocksInit /\ [][SocksNext]_socksVars

-----------------------------------------------------------------------------
(* SocksService is what this amounts to.                                   *)

Stage(t) ==
  IF t.at \in {"idle", "greeting", "request"} THEN "none"
  ELSE IF t.at = "relay" THEN "open"
  ELSE IF t.at = "refused" THEN "refused"
  ELSE IF t.via = "none" THEN "asked" ELSE "routed"

stages == [c \in Client |-> Stage(task[c])]
targets == [c \in Client |-> task[c].host]
ways == [c \in Client |-> task[c].via]
links == [c \in Client |-> task[c].link]

Service == INSTANCE SocksService WITH
  stage <- stages, target <- targets, via <- ways, link <- links

\* The server keeps the promise of SocksService: one answer per request,
\* success only while an upstream connection is held, straight out only when
\* WARP was off as the request was routed (or for loopback), and no
\* connection kept after its client's task is gone, but for a tunnelled one
\* whose client left before it was told of it.
ServiceSpec == Service!Spec
=============================================================================
