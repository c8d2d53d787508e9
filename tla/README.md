# TLA+ verification of warp-proxy

warp-proxy keeps a pool of WARP accounts connected over MASQUE (CONNECT-IP
over HTTP/3 or HTTP/2), runs a userspace TCP/IP stack inside every tunnel and
offers the pool as one SOCKS5 server with a small HTTP control API.  This
directory holds TLA+ models of its concurrent core, the TLC configurations
that check them and the TLAPS proofs about them.

Paths below are relative to `src/`; `masque/` stands for
`crates/warp-masque/src/`.

## 1. Inventory

| component | state | operations | talks to |
|---|---|---|---|
| Account pool, `masque/pool.rs` | per worker: config, tunnel, netstack handle, death signal, trace, rebuild permit; per pool: worker list, `enabled`, `pinned`, `rr`, `next_id`, `rotate_secs`, `http2` | `new`, `build_tunnel`, supervisor and rotator tasks, `pick`, `reconnect`, `rotate`, `set_http2`, `set_rotate_interval`, `add_account`, `remove_account`, `refresh_trace`, `select`, `set_enabled`, `status` | tunnel, netstack, registration, trace |
| Userspace netstack, `masque/netstack.rs` | actor thread: smoltcp sockets, `conns`, pending DNS queries; channels to its users | resolve, connect, send, close; poll / service loop; feeder task | tunnel (packets), SOCKS relays and trace fetches (commands, byte channels) |
| SOCKS5 server, `masque/socks.rs` | one task per client connection | handshake, `pick` or direct path, resolve, connect, relay | pool, netstack |
| HTTP/3 tunnel, `masque/tunnel.rs` | QUIC connection, `SendRequest`, death signal | connect, send and receive datagrams, driver, watcher | endpoint |
| HTTP/2 tunnel, `masque/h2tunnel.rs` | TLS connection, CONNECT stream, capsule buffer | connect, reader and writer loops | endpoint |
| Egress trace, `masque/trace.rs` | none | one HTTP exchange within 15 s | netstack |
| Registration, `masque/register.rs`, `doh.rs` | none (account at the service) | register, enrol key, DoH fallback | registration API |
| Control API, `masque/control.rs` | bearer token | one handler per pool operation | pool |
| Configuration store, `masque/config.rs` | a JSON file per account | load, save (create, write, restrict) | state directory |
| Daemon, `crates/warp-proxy/src/main.rs` | progress of a start; state directory | load or register accounts, start pool, SOCKS, control; stop and start again | all |
| Keys and TLS, `masque/keys.rs`, `tls.rs` | none | key and certificate encoding, pinning | tunnels |

What is hard, and what makes each part correct:

* **Pool.**  One supervisor task per worker, the rotator, the control handlers
  and the SOCKS tasks share workers behind short locks and lone atomics and
  hold nothing across an await.  A rotation or a transport switch can meet a
  supervisor that is asleep, dialling with the previous config, or backing
  off; it must not get lost.  A handle that is given out must belong to a
  tunnel somebody watches.  `build_tunnel` takes no lock and must not run
  twice for a worker.  Ids must stay distinct and the pool non-empty while
  additions and removals overlap.  A dead tunnel must come back.
* **Netstack.**  A thread and any number of tasks communicate through an
  unbounded command channel, bounded byte channels and one-shot replies, while
  hosts reset and close connections and the tunnel disappears.  Bytes must
  stay in order and in their own connection, a FIN must follow the data,
  requests must be answered, the thread must end.
* **SOCKS.**  One reply per request, and the right route for it: a request that
  is routed while WARP is on does not leave untunnelled, also when no worker is
  ready.  (One that was routed before WARP was switched on stays direct.)  A
  client may leave while its task resolves and connects.
* **Tunnels.**  Connecting is several steps, and a later one may fail when
  tasks have been spawned already.  Packets must survive framing, whatever the
  sizes the bytes arrive in; datagrams that are not ours, or cut short, must
  not reach the netstack.  A dead connection must be noticed, and
  dropping a tunnel must end its tasks.
* **Registration, store, daemon.**  Two remote steps with a fallback that
  repeats both; answers that are lost after the API has acted; a crash before,
  in and after a save, and a loss of power that undoes it.  A config must carry
  the key that was enrolled for its account, the process must leave alone what
  it has saved, and the daemon must come up behind poisoned DNS.

`PROJECT.json` lists the hazards line by line.

## 2. Modules

| module | models | composed of |
|---|---|---|
| `Worker` | a worker's fields, `build_tunnel`, the supervisor, `spawn_trace` | |
| `Retain` | `Vec::retain`: every entry that is kept, in its order | |
| `Pool` | `struct Pool`, `Pool::new`, every live control, `pick`, the rotator | extends `Worker`, `Retain` |
| `PoolInv` | the inductive invariant of `Pool`, in three layers | extends `Pool` |
| `PoolProofs` | theorems about `Pool` and their proofs | extends `PoolInv` |
| `PoolMemberProofs` | theorems about the list of workers | extends `PoolProofs` |
| `PickHistory` | `Pool` with history variables: what held throughout a `pick` | extends `Pool` |
| `PickProofs` | theorems about `pick` | extends `PickHistory`, `PoolProofs` |
| `Netstack` | the actor, its users and, as environment, smoltcp and the hosts | |
| `NetstackProofs` | theorems about both directions of a connection | extends `Netstack`, `StreamLemmas` |
| `Varint` | the varints of `tunnel.rs`, the capsules of `h2tunnel.rs`, byte by byte | |
| `TunnelLife` | what both transports share: the steps of connecting, the driver, the death signal, and who keeps what alive | |
| `H2Tunnel` | reader and writer of an HTTP/2 tunnel, its driver, its flow control | extends `TunnelLife`, `Varint` |
| `H3Tunnel` | driver and watcher of an HTTP/3 tunnel, its datagrams, the size of a packet | extends `TunnelLife`, `Varint` |
| `Tunnel` | `Tunnel` and `TunnelIo`: one of the two, with the netstack spawned on it | extends `H2Tunnel`, `H3Tunnel` |
| `StreamLemmas` | lemmas about queues, joined sequences and varints; the varint round trip | extends `Varint` |
| `TunnelProofs` | theorems about both transports | extends `Tunnel`, `StreamLemmas` |
| `Registration` | `register_auto`, the DoH bypass and, as environment, the API and DNS | |
| `SocksService` | what a SOCKS server promises: the abstract specification | |
| `Socks` | the SOCKS tasks; refines `SocksService` | instantiates it |
| `SocksProofs` | the proof of that refinement | extends `Socks` |
| `Control` | authorisation, parameters and every request of the control API | extends `Registration`, `Socks`, `Retain` |
| `Daemon` | `main`: load, register, save, serve, stop and start again | extends `Control` |
| `DaemonProofs` | theorems about accounts, disk and API, and the refinement within the daemon | extends `Daemon`, `SocksProofs` |
| `MCPool`, `MCPick`, `MCNetstack`, `MCTunnel`, `MCDaemon` | instances for TLC | |

### Worker and Pool

A `WarpConfig` is abstracted to its account.  A *tunnel* stands for everything
one successful connect creates, so `net`, `tunnel` and `dead` of a worker each
name the tunnel they come from and can disagree.  `conn[t]` remembers the
account and transport the tunnel was dialled with, the status of its CONNECT
and whether it is up.

A call in progress is a record `op[p]`: where it is, the worker it works on,
the rest of the snapshot it walks, and the tunnel a trace fetch goes through.
A call is one step between two points at which another task can run: an await, and also the gap
between two atomics or two critical sections, since the runtime has several
threads.  So `build_tunnel` is three steps (clone the config; read the
transport and dial; commit), `set_http2` is a store and then a walk over a
later snapshot, `remove_account` is a critical section and then a test and
reset of the pin, `pick` reads list, pin, handle, counter and handles one after
the other.  `Notify` is a single permit: `notify_one` sets it, the select arm
that is taken clears it, the one that loses leaves it.

`remove_account` checks that the id is listed and that the list has more than
one *entry*, and then retains the entries with another id (`Retained`), as the
code does: that this leaves one is not in the guard but follows from the ids
being distinct.

The code's delays (back-off, rotation cadence) are steps that may happen at
any time; that covers every real timing.  Accounts in `Corrupt` are those whose
stored key does not parse; they can only come from disk.  `held` says whether
somebody outside still owns the pool: the daemon never lets go of it, a library
user may (`Droppable`).

### Netstack

The actor's loop is `poll`, `service_sockets` (one step per socket, in any
order), `service_dns`, `recv` of a command and its handler.  `service_sockets`
is written as the values it computes in turn (`ChunksOut`, `ChunksIn`,
`StateAfter`, `Removed`, `TaskAfter`), which `Service` then installs.  A chunk
is its number in its stream, so loss, reordering and mixing show.  smoltcp is
external: its socket states are those the code can tell apart, the slot of a
removed socket is reused, both streams are reliable and in order while the
tunnel is up, nothing has a timeout except DNS queries.  Hosts may send, close
and reset at any time after the handshake.  `crossed` is a history variable:
the connections whose socket took a command of another one.

A relay (`socks.rs`) ends from either side and drops its writer, which closes.
A `TcpConn` that was not split into halves has no `Drop` and goes away without a
command (`Abandon`): that of a trace fetch (`Fetcher`), which its timeout may end
anywhere, and that of a SOCKS task whose success reply could not be written.

### TunnelLife, H2Tunnel, H3Tunnel, Tunnel

A behaviour is the life of one tunnel, over the transport its `Load` names.
`setup` follows connecting: the dial, the HTTP layer (whose driver task is
spawned there), the request, the response.  Any of them may fail
(`ConnectFails`), and the connection may break at any time (`Breaks`).  Over
HTTP/2 the reader and the writer are spawned with the response and before the
assigned address is parsed, so that connecting may still fail while they run;
over HTTP/3 driver and watcher are.  Afterwards the model follows who keeps
what alive: the owner of the `Tunnel` (`held`), who may spawn a netstack on it
(`Spawn`) or drop it before that; the users of the netstack; the feeder task
with its `TunnelIo` and its command sender; the actor's thread with its
`TunnelIo`; the driver and, over HTTP/3, the watcher, which flip the death
signal.  An HTTP/3 connection is closed by its driver with the last
`SendRequest`, which the `Tunnel` keeps.

Bytes are the point of the framing, so there bytes are modelled: a capsule is
its type and length, as QUIC variable-length integers, and its value; a datagram
is flow, context and packet.  The endpoint may use any width for an integer
(`InBytes`), the code uses the shortest (`encode_varint`) and must read all of
them.  TLC's integers have 32 bits, so values stay below 2^30 (`Holds`) and the
leading bytes of an eight-byte field are 0.

`reader_loop` is `ReaderData` (take a DATA frame, return its credit, append it),
`ReaderParse` (one round of the inner loop: hand a datagram on, skip another
capsule, or wait for more) and `ReaderEnd`.  `writer_loop` is `WriterTake`,
`WriterSend` once the stream's capacity covers the capsule, and `WriterEnd`.
The endpoint cuts its side of the stream into frames wherever it likes, as far
as `window` goes, and returns `credit` in pieces.

Datagrams arrive in any order or not at all, also before the response, and
`recv_ip` drops those of another flow or context and those cut within the
header.  The size of a datagram the path takes (`maxdg`) changes while the
tunnel is up; `Spawn` reads it once, and `H3SendIp` meets the one of the
moment.

### Registration

A `WarpConfig` is the account and the private key.  `register` is `CreateAccount`
or `CreateRefused`, then `EnrollKey` or `EnrollRefused`: the API acts, and then its
answer arrives or does not.  After a failed direct attempt `DohBypass` starts the
whole sequence again on the addresses of `api_addrs`; what an attempt reaches is
decided by the network of the behaviour.

### SocksService, Socks

`SocksService` has four facts per client (stage of the request, target, route,
upstream connection) and lets a request be asked, routed by the switch as it is
then, linked, answered once and ended, its connection with it.  One exception is
part of the promise because it is part of the code: a tunnelled connection whose
client left before it was told stays, without a task (`Strand`, `stray`).  `Socks` has the task of each client:
the two reads of the handshake, `Route`, `Dial` or `PickWorker`, `ResolveHost`
and `ConnectHost`, the reply, the relay.  The client may leave at any time; its
task notices when it next uses the socket.  A reply to a client that has left
may still be taken by the kernel (`Reply`) or fail (`ReplyFails`); then a direct
connection closes with its `TcpStream`, and a tunnelled one becomes stray until
its host resets it or the netstack ends (`StrayEnds`).  Which worker is picked and what
`resolve` and `connect` do inside are those of `Pool` and `Netstack`; here they
succeed or fail.  `Stage` maps a task to the stage of its request, and
`ServiceSpec` says that every step of a task is a step of the service or none.

### Control, Daemon

`Control` has of the pool what requests change: the list with each worker's
config, `next_id`, and the settings.  A request is its method, whether it
carries the token, its path and two parameters; `AsUsize` wraps as the cast
does.  `rotate` and `add` wait for `Registration` and do not save.  `Daemon`
adds `main`: `LoadSlot` and `RegisterSlot` for each account, a save in three
steps (`SaveOpen` truncates, `SaveWrite` fills, `SaveMode` restricts), `Pool::new`
with what was found (`PoolNew`, one `PoolPush` per config, `PoolReady`: the
process may end while it waits for any of the first connects), `Bind`.  `Stop`
ends the process anywhere, as does every error `main` propagates; memory and
tasks go (`Gone`), the disk and the API's accounts stay, `Start` begins again.
`PowerLoss` also takes any of the files, whole ones too, or leaves them torn:
`fs::write` does not sync (`config.rs:56`), and when the OS writes back is not
known to the program.  That over-approximates: in the model a file may be lost
at any later time.  Each lost file counts as a fault of its own.  Without
`--state-dir` nothing is saved.

## 3. What is checked

### Runs that pass

| run | instance | shows |
|---|---|---|
| `pool_members` | up to 3 workers, 2 clients that add, remove and pin accounts and switch WARP off and on, 1 tunnel | `OneBuilder`, `DistinctIds`, `NeverEmptied` |
| `pool_live` | 1 worker, a client that rotates, reconnects, switches the transport, pins, picks and refreshes traces, 2 accounts, 2 tunnels, fair | `TypeOK`; `StaleTunnelHasRebuild`: a worker that serves an outdated tunnel has a rebuild request its supervisor has yet to see; `ServedTunnelIsWatched`; `AutoReconnect`, `RequestsTakeEffect` |
| `pool_rotator` | 2 workers with corrupt accounts, a cadence that is set and unset, removals, the pool may be dropped, fair | `EveryAccountRotates`, `RotatorExits` |
| `pool_pick` | 2 workers, one client picks while another pins and removes | `RefusedOnlyIfNoneReady`, `PinIsHonoured` |
| `netstack_shared` | a relay and a trace fetch that come and go, slots are reused, 2 chunks from each host, channels and buffers of 1 | `TypeOK` (which says that `conns` and the socket set have the same handles), `ReadInOrder` |
| `netstack_stream` | 1 relay, 2 chunks each way, resets, half-closes, loss of the tunnel, fair | `DrainedBeforeFin`, `WritesArrive`; `ResetEndsRelay`, of a client that reads; `ConnectAnswered`: with the host's answer, unless it is silent for ever; `ResolveAnswered`, `ActorExits` |
| `tunnel_frames` | HTTP/2: a short exchange both ways, three capsules of known and unknown type and several widths, one of 64 bytes that exceeds the window, two packets out; HTTP/3: datagrams of ours in three encodings, three that are not or are cut, a path of four sizes; fair | `TypeOK`; `Reassembled`: the packets handed on are those of the capsules that arrived in full; `WholeCapsules`: what was written is DATAGRAM capsules, each with a whole packet and nothing else; `KeepsReceiving`, `KeepsSending`: credit never runs dry for good; `Filtered`: what `recv_ip` returns are the packets of our datagrams; `Fits`: a packet is refused only on a path narrower than at spawn, or too narrow already then; `DeathSeen`; `TornDown` (HTTP/2, once the endpoint lets go), `DropTearsDownH3` |
| `daemon` | 2 accounts, with and without a state directory; 2 networks (one reaches the API and has no DoH, on one DNS and DoH lie); 2 faults (lost answers, refusals, failing writes, crashes; or the power and one file); 1 SOCKS client with a loopback and a remote target; 1 control request out of 11; fair | `TypeOK`; `OwnAccount`: a config that is held or saved has the key that was enrolled for its account, and no two workers share one; `PersistedPool`, `SavedForGood`, `FewOrphans`: what a start, and a start after a crash, leave on disk and at the API; `ComesUp`; `Answered`: unless the host never answers the connect; `Released`: a relay gives its connection up; `ServiceSpec`: `Socks` implements `SocksService` |

Every property in this table that is not about liveness is also a theorem
(section 4), for any number of workers, clients, connections, accounts, capsules
and datagrams; the runs show it on these instances, and that the mutants break it.

Every property has a mutant in `PROJECT.json`: a plausible slip in the modelled
code (a forgotten permit, a kept death signal, a close that does not wait for
the buffer) under which TLC finds the property violated.

### Bounds

`MaxId`, `Account`, `Tunnel`, `MaxFetches` bound the pool, `MaxSlot`,
`ChanDepth`, `BufSize`, `MaxOut`, `MaxIn` the netstack.  (`spawn_trace` has no
limit in the code.  `MaxFetches` makes the step that would exceed it wait for a
fetch to end, which every fetch does after 15 s.)  One worker is enough
for the rebuild protocol, because workers share only the transport flag and the
list; the proofs lift it to any number.  Three ids let a list be grown, shrunk
and grown again with two overlapping additions; one tunnel, which the workers
then compete for, is enough there, since ids, membership and the start of a build
do not depend on how many connects succeed.  `rr` and `rotIdx` are kept
modulo `Laps`, a multiple of every length the list can have, so a counter
selects the same worker as the unbounded one.  Tunnels and accounts are reused
once nobody holds them.  Channels and buffers of one chunk make "full" and
"partly moved" happen at once; two chunks per direction suffice to see an order.
Two connections over two slots are enough for a slot to be reused while the
earlier owner still has a handle to it.

`Load`, `FrameSizes`, `Credits`, `MaxFrames`, `RecvWindow`, `SendWindow`,
`PacketSizes` and `DatagramSizes` bound the tunnel.  Frames of one byte put a
boundary at every place of every capsule, frames of 40 join several.  The long
capsule needs 67 bytes against a receive window of 50, the only way for credit
that is held back to show.  The send window is just the longest capsule; it is
assumed not to be less, since a writer that waits for more than the window would
wait for ever (1280 bytes against HTTP/2's initial 65535).  Three datagrams
come in every order and with every loss.  The sizes of a path are none, one
below the least MTU, the usual one and one above the largest MTU.

`MaxFaults` = 2 bounds what goes wrong in a behaviour of `Daemon`, of which
crashes are a part: one fault can leave an account behind or a file torn, the
second hits the recovery; a loss of power that takes one file uses both, and the
proofs have it in every combination.  Since faults are bounded, weak fairness is enough
for `ComesUp`.  `MaxAccounts` = 7 is what two slots, two faults, one request
and their repetitions can use up, so the bound is never what stops a
registration; it also serves as `UsizeMax`.  One request (`MaxCalls`)
meets every phase of the other tasks; two requests at once are the subject of
`Pool`.  A SOCKS task shares only the switch with others, so one client is enough.

Deadlock is checked where a pool is never dropped and clients keep calling
(`pool_members`, `pool_live`, `pool_pick`).  Elsewhere the system may really
stop: after the pool was dropped, when no cadence is set and nobody calls, when
all connection attempts have been made and are over, when a tunnel has ended,
when a torn file ends every start.

### Fairness

`TaskFairness` (weak): the runtime keeps running tasks that can run; a trace
fetch ends because it has a timeout.  `NetworkFairness` is an assumption about
the environment, not something the code ensures: every connect and every
registration ends, and a worker that tries for ever succeeds at last (strong).
The code puts no timeout of its own on a connect or a registration; over HTTP/3
the QUIC idle timeout of 30 s bounds what follows the first packet.  Calls of
clients are never fair.

In `Netstack` the actor's thread and the tasks are weakly fair (`TaskRuns`,
`ActorStep`).  smoltcp's retransmissions to a host that took the connection
(`Carried`) and its giving up on a query (`QueryDone`) are strongly fair: a host
whose connection is established and not reset is taken to acknowledge what it is
sent while the tunnel is up.  Nobody is obliged to answer a SYN: the code sets no
timeout on a socket (`netstack.rs:413-425`), so `ConnectAnswered` has the host
that stays silent, or is cut off by the loss of the tunnel, as an outcome.
Nor is a local client obliged to read: `net_to_client` waits in `write_all` for
it (`socks.rs:176-180`), so `ResetEndsRelay`, and `RemoteFinIsEof`, assume that
this one client's reader runs (`ReaderRuns`) and say so.  What a client or a host
writes, closes or resets is not fair.

In `Tunnel` the tasks and the actor are weakly fair; that an HTTP/2 endpoint sends
what it has and returns credit for what it got, and that h2 closes a connection
that has neither streams nor handles, are assumptions about the other side and
the library; nothing is assumed of datagrams.  Owners and users are never
obliged to leave.

In `Daemon` the tasks are weakly fair and the daemon is started again after it
ended, by the application that spawned it or a service manager.  That a resolve
ends is what `ResolveAnswered` shows of `Netstack`; a direct connect is ended by
the operating system.  A tunnelled connect is not fair: nothing bounds it, and
`Answered` has it as an outcome.  Weak fairness of `RegStep` says that the API
answers or fails in the end, which is an assumption (reqwest is given no
timeout).  Clients, hosts and callers of the API are not fair.

### Runs that find a disagreement

Each refutes what a comment or document says; the finding in `PROJECT.json`
quotes it.

| run | disagreement |
|---|---|
| `pool_supervised` | `add_account` lists the worker, then returns the connect's error before it spawns the supervisor: the account stays, and nothing ever connects it (`pool.rs:330`, against `pool.rs:4`) |
| `netstack_own` | a handle outlives its socket; `Send` and `Close` then reach the connection that has the slot now (`netstack.rs:394`, against `netstack.rs:8`) |
| `netstack_eof` | `recv` returns `None` only for a closed socket, so a host's FIN is not seen until the local side closes (`netstack.rs:509`, against `netstack.rs:204`) |
| `tunnel_drop` | an HTTP/2 tunnel keeps `JoinHandle`s, whose drop detaches: reader, feeder, actor and writer go on as long as the endpoint keeps the stream open (`h2tunnel.rs:141`, against `tunnel.rs:170`) |

Further disagreements were met while modelling.  The models contain the
behaviour, no run is kept for them:

* a trace is stored without looking whether its tunnel is still the worker's
  (`pool.rs:412`, against `trace.rs:1` "its current egress");
* an endpoint that ends the HTTP/2 stream and keeps the connection leaves a
  tunnel nothing comes out of, but the death signal follows the connection, so
  the worker goes on serving it (`h2tunnel.rs:214` and `h2tunnel.rs:96`, against
  `pool.rs:4` "if its tunnel dies it reconnects");
* a CONNECT answered with a status other than 200 gives a tunnel that is served
  like any other (`tunnel.rs:267` and `pool.rs:138`, against `tunnel.rs:220`
  "On HTTP 200 the tunnel is ready.");
* `remove_account` loads the pin and resets it in two steps; a pin set to
  another account in between is taken back (`pool.rs:349`, against
  `DESIGN.md:130` "pin sticks");
* a rebuild request waits for the connect in progress, which is awaited outside
  any `select!` (`pool.rs:170`, against `pool.rs:32` "now");
* a supervisor that sleeps on a healthy tunnel outlives the pool
  (`pool.rs:158`, against `pool.rs:151` "Exits when the pool is dropped.");
* `pick` starts its scan at a counter over all workers, so the ready worker
  behind one that is down gets its turns too (`pool.rs:259`, against
  `pool.rs:247` "round-robin over ready workers");
* accounts that `rotate` and `add_account` register are not saved, so a restart
  is back on the old ones (`pool.rs:299`, against `DESIGN.md:138` "Accounts
  persist across restarts.");
* `save` writes in place: a write that is cut short leaves a file that exists
  and does not load, and every later start fails on it (`main.rs:119`);
  `ComesUp` holds up to that;
* the test for loopback knows `localhost` and literal addresses only, so
  `LOCALHOST` and `::ffff:127.0.0.1` are tunnelled (`socks.rs`,
  `is_loopback_host`, against `DESIGN.md:161`);
* a greeting or request with another version number is dropped without the
  reply that the comment at `socks.rs:109` announces;
* a negative slot wraps to a huge one: `select` accepts it, and the pin matches
  no worker (`control.rs:84`);
* `add` answers 400 when the first connect fails, although the worker is
  listed by then (`pool.rs:330`);
* the MTU is read once and clamped from below: on a path that is, or gets,
  narrower, the largest packets are refused and the error is ignored
  (`netstack.rs:242`);
* an open relay keeps the actor of a tunnel that is gone running
  (`netstack.rs:380`, against `pool.rs:143` "stops its netstack");
* when the success reply cannot be written, `?` drops a `TcpConn` that was not
  split (`socks.rs:103`), and only its write half has the `Drop` of
  `netstack.rs:210` "Closes the connection when dropped": the tunnelled
  connection and its entry in `conns` stay until the host resets.  An abandoned
  trace fetch leaves its connection in the same way.  `SocksService` allows this
  by name (`Strand`), and only this;
* a connect to a host that does not answer its SYN, or over a tunnel that was
  lost, never returns, so that the request is never answered (`netstack.rs:413`,
  against `socks.rs:98` which expects an error to turn into a refusal);
* a saved account is not synced (`config.rs:56`): a loss of power may empty its
  file, on which every later start fails, or remove it, whereupon another account
  is registered (against `DESIGN.md:138`);
* two documents disagree about the HTTP/2 transport, and the code, with the
  models, follows one of them.  `DESIGN.md:73-75` and `tunnel.rs:34-35` have a
  DATAGRAM capsule carry `varint(context_id=0) || IP`, and `DESIGN.md:72` and
  `tunnel.rs:32` an extended CONNECT; `h2tunnel.rs:4-10` and `DESIGN.md:115-120`,
  like the code at `h2tunnel.rs:145`, have the bare packet and a plain CONNECT.
  `WholeCapsules` and `Reassembled` are about the bare packet.

## 4. What is proved

Every safety property of the passing runs, action properties and the refinement
included, is a theorem for every value of the constants that satisfies the
modules' assumptions.

| module | theorem | statement |
|---|---|---|
| `PoolProofs` | `TypeCorrect` | every variable keeps its type, every call in progress its shape |
| | `ServedIsWatched` | `Spec => []ServedTunnelIsWatched` |
| | `BuildsExclude` | `Spec => []OneBuilder` |
| | `StaleIsRebuilt` | `Spec => []StaleTunnelHasRebuild` |
| `PoolMemberProofs` | `IdsAreDistinct` | `Spec => []DistinctIds` |
| | `PoolKeepsOne` | `Spec => NeverEmptied` |
| `PickProofs` | `RefusalIsEarned` | `HistorySpec => []RefusedOnlyIfNoneReady` |
| | `PinDecides` | `HistorySpec => []PinIsHonoured` |
| `NetstackProofs` | `NetstackTypeCorrect` | types, the agreement of `conns` with the sockets, no overflow |
| | `ReadsAreWhole` | `Spec => []ReadInOrder` |
| | `WritesAreWhole` | `Spec => []DrainedBeforeFin` |
| `TunnelProofs` | `TunnelTypeCorrect` | `Spec => []TypeOK` |
| | `StreamIsReassembled` | `Spec => []Reassembled` |
| | `CapsulesAreWhole` | `Spec => []WholeCapsules` |
| | `DatagramsAreFiltered` | `Spec => []Filtered` |
| | `PacketsFit` | `Spec => []Fits` |
| `StreamLemmas` | `VarintRoundTrip` | `decode_varint` reads what `encode_varint` wrote |
| `SocksProofs` | `ServerImplementsService` | `SocksSpec => ServiceSpec` |
| `DaemonProofs` | `DaemonTypeCorrect` | `Spec => []TypeOK` |
| | `AccountsAreOwn` | `Spec => []OwnAccount` |
| | `ServedIsSaved` | `Spec => []PersistedPool` |
| | `SavedStays` | `Spec => SavedForGood` |
| | `OrphansAreOwed` | `Spec => []FewOrphans` |
| | `DaemonImplementsService` | `Spec => ServiceSpec` |

The assumptions on the constants say that bounds and sizes are numbers (positive
where something must fit), that `None` is no account, tunnel or connection, that
the tasks are different, that `Laps` is a multiple of every possible length, and
that bytes, packets, capsules, datagrams and requests have their shapes.  Two
say more.  `H2Assumption` has packets below 2^14 bytes whose capsules fit the
send window (packets have at most 1280 bytes, the least window 65535), and
`H2Assumption` and `H3Assumption` have field widths that hold their value, which
is below 2^30.  None restricts an instance of interest.

### Pool

`IInv` (module `PoolInv`) is built in layers, each proved preserved with the
help of those below it:

1. `TypeInv`: types, and `CallShape`: a call that is going to look at the head
   of its snapshot has one, a call that works on a worker names one.
2. `OwnerInv`: who works on a worker.  A call that brings a worker up is alone
   with it, and that worker has no supervisor (`RaisedAlone`); a build is under
   way exactly when the supervisor or such a call is inside `build_tunnel`
   (`BuildOwned`); handle, tunnel and death signal of a served worker agree and
   its supervisor waits (`ServedTunnelIsWatched`); no two workers keep the same
   tunnel (`TunnelsApart`), so that replacing one does not disturb another.
3. `DueInv`: what is outdated is due for a rebuild, and this must be said of
   the *build in progress* as well as of the installed tunnel.  A permit is
   consumed only where the supervisor has just withdrawn its handle or has
   none, and no build is under way, so nothing outdated is left without one;
   a build that commits passes its outdatedness on to the tunnel it installs.
   A rotation's request follows its worker even out of the pool (`NotifyDue`);
   a transport switch owes a request only to the listed workers (`RebuildDue`).

`ListInv` adds what `DistinctIds` needs: an id that `add_account` holds while it
registers is not in the list yet (that no two calls hold the same one is
`RaisedAlone`).  `NeverEmptied` rests on it: `RetainedSome` shows that what
`Retained` leaves of a list of distinct ids with two entries has one.
`PickInv` says of a `pick` in progress that the workers that
were ready ever since it began are still ahead of it (`OnCourse`): the rotated
snapshot it scans is a permutation of the list, and what it has passed was not
ready at that moment.

### Netstack

Four layers.  `TypeInv` with the agreement of the two maps; `OwnInv`, that a
connection begins with the one connect command it sent and has one socket, its
task and commands knowing no other; `InInv`, that what was read, what is in the
channel and what is in the socket's buffer together are what the host sent; and
for the other direction `QueueInv`, `OutInv` and `FinInv`: what the host has, the
socket's buffer, the actor's buffer and the commands still queued together are
what the task wrote, a close stands behind all of it, and a socket has sent its
FIN only when nothing is left before it.  The last three exempt connections a
stale handle has reached (`crossed`): run `netstack_own` shows that the code does
not protect these.

### Tunnel

The reader is proved with `RxInv`: at every moment there is a j such that the
bytes of the first j capsules, the buffer and the frames that wait are, in this
order, the prefix of the stream sent so far (`ReadUpTo`), and what was handed on
is the datagrams among those j (`RxAt`).  Outside the inner loop the buffer is
shorter than capsule j + 1 (`Incomplete`), which `Reassembled` needs and which
follows only because `parse_capsule` says "nothing yet" for no complete capsule
(`ParseNone`) and is never fooled by an incomplete one (`ParsePart`).  `WindowInv`
says that window and waiting bytes make up the receive window.  The writer has
`TxInv`: the capsules of the first k packets are on the wire, the one it holds is
that of packet k + 1, the queue is the rest.  `DgInv` has the packets of the
datagrams taken; `RecvIs` computes what `recv_ip` makes of any datagram, cut
anywhere.  `LifeInv`, `H3Inv` and `FitInv` relate who owns what, the size of
datagrams and the MTU.

`StreamLemmas` has what these rest on.  `Joined` and `decode_varint` are recursive
functions; facts about them for every length (that they exist, agree on equal
arguments, grow at the end, lose their front) are proved with the least
counterexample that the well-foundedness of the naturals gives (`Least`), since
the induction rules of the library cannot be instantiated.  `DecodeField` and
`DecodePart` say what `decode_varint` makes of a field of any width, whole or cut.

### SOCKS and daemon

The refinement maps a task to the stage, target, route and link that
`SocksService` sees; its invariant `SocksInv` ties these fields to where the task
is (no target before a request, no link without success, no success without a
route).  A reply that fails is the service's `Strand` for a tunnelled connection
and its `End` otherwise.  Within the daemon a stop ends every task, and every
netstack, at once, which is the service's `Halt`.

`IInv` of `DaemonProofs` has four parts: what a registration has in hand
(`RegInv`); how far `main` is and what the disk says then (`PlaceInv`: the slot
about to be written is absent, torn or whole according to the phase, every slot
passed is whole); the pool, whose workers are the first configs while it is set
up, and its requests (`ServeInv`); and who holds which
account (`AccountInv`: what is held was enrolled with its key, an account that is
being registered is in no other hands, none is held twice).  `OrphanInv` counts:
accounts created plus requests that may still create one never exceed slots
saved plus requests, faults and the account in hand.  A loss of power lowers the
number of slots saved by as many as it adds faults.  `SavedStays` is about the
process: no step of it but the save of an empty slot writes a file, and only
`PowerLoss` takes a whole one.

### Only model-checked

Liveness (`AutoReconnect`, `RequestsTakeEffect`, `EveryAccountRotates`,
`RotatorExits`, `WritesArrive`, `ResetEndsRelay`, `ConnectAnswered`,
`ResolveAnswered`, `ActorExits`, `KeepsReceiving`, `KeepsSending`, `TornDown`,
`DropTearsDownH3`, `DeathSeen`, `ComesUp`, `Answered`, `Released`): fairness and
`ENABLED` are out of the prover's reach.  The four disagreements are
counterexamples and need no proof.

## 5. What is not modelled

* `vendor/h3`: third-party, but for the drop of the last `SendRequest`
  (`H3DriverCloses`); `keys.rs`, `tls.rs`: cryptography without state;
  `lib.rs`, `error.rs`: glue; the examples: manual checks.
* `status` reads and changes nothing.  Log lines, JSON and reply texts.
* Times: delays are arbitrary.  The doubling of the back-off is not visible.
* In the netstack: ephemeral ports, the packet queues of its device, and the
  growth of unbounded buffers.
* In the tunnels: TLS, certificate pinning and what is in the headers; h2's own
  thresholds for sending window updates; congestion and retransmission.
* Of the trace fetch: the HTTP exchange and the parsing of its body.
* In the daemon: the contents of the JSON files, the printed handshake, command
  line parsing, the choice of ports.

## 6. Plan

1. *Done:* `Worker`, `Pool`, `PickHistory`, `Netstack`, `Varint`, the tunnels,
   `Registration`, `Socks` with its refinement, `Control`, `Daemon`.
2. *Done:* a theorem for every safety property of the passing runs.
3. Safety facts that liveness rests on, in particular that credit is never lost
   in `H2Tunnel` (`WindowInv` as a property of its own, and its counterpart for
   the send window), and that a task that waits for an answer has its request in
   the queue or in the actor's hands (`Netstack`).
4. Which assumptions of the tunnels could go: values of 2^30 and more in
   eight-byte fields, which only TLC's integers exclude.
