----------------------------- MODULE TunnelLife -----------------------------
(***************************************************************************)
(* What the tunnels over HTTP/3 (tunnel.rs) and HTTP/2 (h2tunnel.rs) have  *)
(* in common: the steps of connecting, the task that drives the            *)
(* connection, the death signal, and who keeps what alive: the owner of    *)
(* the Tunnel, and the netstack's feeder and actor (netstack.rs, spawn)    *)
(* with the users of its handles.                                          *)
(*                                                                         *)
(* The network is external: a step of connecting may fail, and the         *)
(* connection may break, at any time.                                      *)
(***************************************************************************)
EXTENDS Naturals

CONSTANTS MinMtu, MaxMtu   \* the bounds of clamp in netstack.rs, spawn

VARIABLES
  kind,     \* the Transport of this tunnel, "h3" or "h2"
  setup,    \* how far connecting is
  up,       \* the connection
  driver,   \* the task that drives it runs
  dead,     \* the death signal
  held,     \* somebody owns the Tunnel
  users,    \* the holders of a NetHandle or a connection
  feeder,   \* the feeder task runs
  actor,    \* the netstack's actor runs
  mtu       \* of its device, 0 before there is one

lifeVars == <<kind, setup, up, driver, dead, held, users, feeder, actor, mtu>>

Connecting == {"dial", "build", "request", "response"}

LifeType ==
  /\ kind \in {"h3", "h2"} /\ setup \in Connecting \cup {"up", "failed"}
  /\ {up, driver, dead, held, feeder, actor} \subseteq BOOLEAN
  /\ users \in {"none", "some", "gone"}
  /\ mtu \in {0} \cup MinMtu..MaxMtu /\ (mtu = 0 <=> users = "none")

LifeInit ==
  /\ setup = "dial" /\ up = FALSE /\ driver = FALSE /\ dead = FALSE
  /\ held = FALSE /\ users = "none" /\ feeder = FALSE /\ actor = FALSE /\ mtu = 0

-----------------------------------------------------------------------------
(* Connecting.                                                             *)

\* The QUIC handshake, or the TCP connection, is done.
Dialled ==
  /\ setup = "dial" /\ setup' = "build" /\ up' = TRUE
  /\ UNCHANGED <<kind, driver, dead, held, users, feeder, actor, mtu>>

\* The HTTP layer is up and its driver is spawned.
Built ==
  /\ setup = "build" /\ up /\ setup' = "request" /\ driver' = TRUE
  /\ UNCHANGED <<kind, up, dead, held, users, feeder, actor, mtu>>

\* The CONNECT is sent.
Requested ==
  /\ setup = "request" /\ up /\ setup' = "response"
  /\ UNCHANGED <<kind, up, driver, dead, held, users, feeder, actor, mtu>>

\* The response is here, whatever its status; the Tunnel is returned unless
\* the address in the config cannot be parsed.
Responded ==
  /\ setup = "response" /\ up
  /\ setup' \in {"up", "failed"} /\ held' = (setup' = "up")
  /\ UNCHANGED <<kind, up, driver, dead, users, feeder, actor, mtu>>

\* A step fails.  Before there is a driver every handle of the connection
\* goes with the error; afterwards the driver still has one.
ConnectFails ==
  /\ setup \in Connecting /\ setup' = "failed" /\ up' = (up /\ driver)
  /\ UNCHANGED <<kind, driver, dead, held, users, feeder, actor, mtu>>

\* The connection breaks.
Breaks ==
  /\ up /\ up' = FALSE
  /\ UNCHANGED <<kind, setup, driver, dead, held, users, feeder, actor, mtu>>

-----------------------------------------------------------------------------
(* The tunnel's users.                                                     *)

\* netstack::spawn, for packets of at most m bytes: the owner of the Tunnel
\* starts feeder and actor, and the device gets its MTU for good.
SpawnFor(m) ==
  /\ held /\ users = "none"
  /\ users' = "some" /\ feeder' = TRUE /\ actor' = TRUE
  /\ mtu' = IF m < MinMtu THEN MinMtu ELSE IF m > MaxMtu THEN MaxMtu ELSE m
  /\ UNCHANGED <<kind, setup, up, driver, dead, held>>

\* The feeder's recv_ip fails.
FeederStops ==
  /\ feeder /\ feeder' = FALSE
  /\ UNCHANGED <<kind, setup, up, driver, dead, held, users, actor, mtu>>

\* The last NetHandle and the last connection go.
UsersLeave ==
  /\ users = "some" /\ users' = "gone"
  /\ UNCHANGED <<kind, setup, up, driver, dead, held, feeder, actor, mtu>>

\* The actor ends with the last sender of its commands, and drops its
\* TunnelIo.
ActorEnd ==
  /\ actor /\ users = "gone" /\ ~feeder /\ actor' = FALSE
  /\ UNCHANGED <<kind, setup, up, driver, dead, held, users, feeder, mtu>>

\* The Tunnel is dropped, before a netstack was spawned or after: the
\* JoinHandles it keeps detach their tasks.
DropTunnel ==
  /\ held /\ held' = FALSE
  /\ UNCHANGED <<kind, setup, up, driver, dead, users, feeder, actor, mtu>>

\* Connecting is over, and nobody has the Tunnel or uses its netstack.
Abandoned == setup \in {"up", "failed"} /\ ~held /\ users # "some"
=============================================================================
