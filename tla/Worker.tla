------------------------------- MODULE Worker -------------------------------
(***************************************************************************)
(* The pooled accounts of pool.rs (struct Worker) and the tasks that act   *)
(* on one account: build_tunnel, the supervisor that keeps its tunnel      *)
(* alive, and the background egress trace.                                 *)
(*                                                                         *)
(* A WarpConfig is abstracted to the account it belongs to.  A Tunnel      *)
(* stands for everything one successful connect creates: the transport,    *)
(* its death signal and the netstack handle, so that net, tunnel and dead  *)
(* of a worker each name the tunnel they come from.  assigned_v4 is the    *)
(* address in the account's config, i.e. conn[tunnel[w]].cfg.  Delays are  *)
(* not measured: a sleep is a step that may happen at any time.            *)
(***************************************************************************)
EXTENDS Naturals, FiniteSets

CONSTANTS
  MaxId,       \* worker ids are 1..MaxId (a bound: Pool.next_id only grows)
  Account,     \* accounts, each with its config
  Corrupt,     \* accounts whose stored private key does not parse
  Tunnel,      \* identities of established tunnels
  MaxFetches,  \* bound on the spawn_trace tasks that run at a time
  Status,      \* HTTP statuses the endpoint answers the CONNECT with
  None         \* Option::None

ASSUME WorkerAssumption ==
  /\ MaxId \in Nat \ {0}
  /\ MaxFetches \in Nat \ {0}
  /\ Corrupt \subseteq Account
  /\ Status \subseteq Nat
  /\ None \notin Account \cup Tunnel

VARIABLES
  http2,       \* Pool.http2: the transport new tunnels are dialled with
  config,      \* WorkerInner.config
  net,         \* WorkerInner.net
  tunnel,      \* WorkerInner.tunnel
  dead,        \* WorkerInner.dead: whose death signal is kept
  trace,       \* WorkerInner.trace: was it fetched through this tunnel
  rebuild,     \* Worker.rebuild: the single permit a Notify stores
  build,       \* the build_tunnel call in progress on the worker
  sup,         \* where the worker's supervisor task is
  conn,        \* what is true of each tunnel a worker holds
  fetches      \* spawn_trace tasks that have not finished

workerVars == <<http2, config, net, tunnel, dead, trace, rebuild, build, sup,
                conn, fetches>>

WorkerId == 1..MaxId
NoBuild == [at |-> "none", cfg |-> None, http2 |-> FALSE]
NoConn == [cfg |-> None, http2 |-> FALSE, status |-> 0, up |-> FALSE]

BuildType == [at : {"none", "dial", "connect"}, cfg : Account \cup {None},
              http2 : BOOLEAN]
ConnType == [cfg : Account \cup {None}, http2 : BOOLEAN, status : Nat,
             up : BOOLEAN]
FetchType == [w : WorkerId, for : Tunnel, net : Tunnel \cup {None}]

WorkerTypeOK ==
  /\ http2 \in BOOLEAN
  /\ config \in [WorkerId -> Account \cup {None}]
  /\ net \in [WorkerId -> Tunnel \cup {None}]
  /\ tunnel \in [WorkerId -> Tunnel \cup {None}]
  /\ dead \in [WorkerId -> Tunnel \cup {None}]
  /\ trace \in [WorkerId -> {"none", "current", "old"}]
  /\ rebuild \in [WorkerId -> BOOLEAN]
  /\ build \in [WorkerId -> BuildType]
  /\ sup \in [WorkerId -> {"absent", "wait", "retry", "connect", "backoff",
                           "exited"}]
  /\ conn \in [Tunnel -> ConnType]
  /\ fetches \in SUBSET FetchType

WorkerInit ==
  /\ http2 \in BOOLEAN
  /\ config = [w \in WorkerId |-> None]
  /\ net = [w \in WorkerId |-> None]
  /\ tunnel = [w \in WorkerId |-> None]
  /\ dead = [w \in WorkerId |-> None]
  /\ trace = [w \in WorkerId |-> "none"]
  /\ rebuild = [w \in WorkerId |-> FALSE]
  /\ build = [w \in WorkerId |-> NoBuild]
  /\ sup = [w \in WorkerId |-> "absent"]
  /\ conn = [t \in Tunnel |-> NoConn]
  /\ fetches = {}

-----------------------------------------------------------------------------
(* build_tunnel, whoever calls it.                                         *)

\* Up to the first use of the transport: the config is cloned under the
\* worker's lock, whatever happens to it afterwards.
StartBuild(w, cfg) ==
  build' = [build EXCEPT ![w] = [at |-> "dial", cfg |-> cfg, http2 |-> FALSE]]

\* The key parses: Tunnel::connect_with(.., self.transport()) reads the
\* transport after, and independently of, the config.
BuildDial(w) ==
  /\ build[w].at = "dial" /\ build[w].cfg \notin Corrupt
  /\ build' = [build EXCEPT ![w] = [at |-> "connect", cfg |-> build[w].cfg,
                                   http2 |-> http2]]
  /\ UNCHANGED <<http2, config, net, tunnel, dead, trace, rebuild, sup, conn,
                 fetches>>

\* connect_h3 and connect_h2 return a tunnel whatever status the endpoint
\* answered the CONNECT with.
Accepted(cfg, h2, s) == [cfg |-> cfg, http2 |-> h2, status |-> s, up |-> TRUE]

\* A commit that keeps the death signal of the tunnel it replaces.
EstablishedOldSignal(w, t) ==
  /\ build[w].at = "connect"
  /\ \E s \in Status :
       conn' = [x \in Tunnel |->
                  IF x = t THEN Accepted(build[w].cfg, build[w].http2, s)
                  ELSE IF x = tunnel[w] THEN NoConn ELSE conn[x]]
  /\ tunnel' = [tunnel EXCEPT ![w] = t]
  /\ net' = [net EXCEPT ![w] = t]
  /\ dead' = [dead EXCEPT ![w] = IF tunnel[w] = None THEN t ELSE tunnel[w]]
  /\ trace' = [trace EXCEPT ![w] = IF @ = "current" THEN "old" ELSE @]
  /\ build' = [build EXCEPT ![w] = NoBuild]

\* The tunnel t is up: one critical section installs the tunnel, the
\* netstack handle and the death signal and drops the previous tunnel (a
\* trace that was fetched through it is an old one now).
Established(w, t) ==
  /\ build[w].at = "connect"
  /\ \E s \in Status :
       conn' = [x \in Tunnel |->
                  IF x = t THEN Accepted(build[w].cfg, build[w].http2, s)
                  ELSE IF x = tunnel[w] THEN NoConn ELSE conn[x]]
  /\ tunnel' = [tunnel EXCEPT ![w] = t]
  /\ net' = [net EXCEPT ![w] = t]
  /\ dead' = [dead EXCEPT ![w] = t]
  /\ trace' = [trace EXCEPT ![w] = IF @ = "current" THEN "old" ELSE @]
  /\ build' = [build EXCEPT ![w] = NoBuild]

\* build_tunnel fails: a bad key (before dialling) or any connect error.
BuildFailed(w) ==
  /\ \/ build[w].at = "dial" /\ build[w].cfg \in Corrupt
     \/ build[w].at = "connect"
  /\ build' = [build EXCEPT ![w] = NoBuild]

\* The transport of a tunnel some worker holds goes down; its watcher flips
\* the death signal.
TunnelDies(t) ==
  /\ conn[t].up
  /\ conn' = [conn EXCEPT ![t] = [cfg |-> conn[t].cfg, http2 |-> conn[t].http2,
                                 status |-> conn[t].status, up |-> FALSE]]
  /\ UNCHANGED <<http2, config, net, tunnel, dead, trace, rebuild, build, sup,
                 fetches>>

-----------------------------------------------------------------------------
(* The supervisor task of one worker.                                      *)

\* The head of the supervisor's loop: with a death signal it waits, without
\* one it connects.
LoopHead(signal) == IF signal # None THEN "wait" ELSE "retry"

\* A wake-up that withdraws the death signal but leaves the handle in place.
SupervisorWakeKeepNet(w) ==
  /\ sup[w] = "wait"
  /\ \/ /\ ~conn[dead[w]].up
        /\ UNCHANGED rebuild
     \/ /\ rebuild[w]
        /\ rebuild' = [rebuild EXCEPT ![w] = FALSE]
  /\ dead' = [dead EXCEPT ![w] = None]
  /\ sup' = [sup EXCEPT ![w] = "retry"]
  /\ UNCHANGED <<http2, config, net, tunnel, trace, build, conn, fetches>>

\* select! over the death signal (wait_true) and the rebuild request, then
\* clear_net.  The arm that is not taken keeps its permit.  The dead tunnel
\* itself is kept until the next build replaces it.
SupervisorWake(w) ==
  /\ sup[w] = "wait"
  /\ \/ /\ ~conn[dead[w]].up
        /\ UNCHANGED rebuild
     \/ /\ rebuild[w]
        /\ rebuild' = [rebuild EXCEPT ![w] = FALSE]
  /\ net' = [net EXCEPT ![w] = None]
  /\ dead' = [dead EXCEPT ![w] = None]
  /\ sup' = [sup EXCEPT ![w] = "retry"]
  /\ UNCHANGED <<http2, config, tunnel, trace, build, conn, fetches>>

\* weak.upgrade(), then the call of build_tunnel; the task ends when the
\* pool is gone.
SupervisorConnect(w, alive) ==
  /\ sup[w] = "retry"
  /\ \/ /\ alive
        /\ sup' = [sup EXCEPT ![w] = "connect"]
        /\ StartBuild(w, config[w])
     \/ /\ ~alive
        /\ sup' = [sup EXCEPT ![w] = "exited"]
        /\ UNCHANGED build
  /\ UNCHANGED <<http2, config, net, tunnel, dead, trace, rebuild, conn,
                 fetches>>

\* spawn_trace, within the bound.
SpawnTrace(w, t) ==
  /\ Cardinality(fetches) < MaxFetches
  /\ fetches' = fetches \cup {[w |-> w, for |-> t, net |-> None]}

\* A supervisor that forgets the requests made while it was connecting.
SupervisorBuiltForget(w, t) ==
  /\ sup[w] = "connect"
  /\ Established(w, t)
  /\ sup' = [sup EXCEPT ![w] = LoopHead(t)]
  /\ SpawnTrace(w, t)
  /\ rebuild' = [rebuild EXCEPT ![w] = FALSE]
  /\ UNCHANGED <<http2, config>>

\* A successful build: spawn_trace, and back to the head of the loop.
SupervisorBuilt(w, t) ==
  /\ sup[w] = "connect"
  /\ Established(w, t)
  /\ sup' = [sup EXCEPT ![w] = LoopHead(t)]
  /\ SpawnTrace(w, t)
  /\ UNCHANGED <<http2, config, rebuild>>

SupervisorFailed(w) ==
  /\ sup[w] = "connect"
  /\ BuildFailed(w)
  /\ sup' = [sup EXCEPT ![w] = "backoff"]
  /\ UNCHANGED <<http2, config, net, tunnel, dead, trace, rebuild, conn,
                 fetches>>

\* A supervisor that retries only when it is asked to.
SupervisorRetryOnRequest(w) ==
  /\ sup[w] = "backoff"
  /\ rebuild[w]
  /\ rebuild' = [rebuild EXCEPT ![w] = FALSE]
  /\ sup' = [sup EXCEPT ![w] = "retry"]
  /\ UNCHANGED <<http2, config, net, tunnel, dead, trace, build, conn, fetches>>

\* select! over the backoff sleep and a rebuild request.
SupervisorRetry(w) ==
  /\ sup[w] = "backoff"
  /\ \/ UNCHANGED rebuild
     \/ /\ rebuild[w]
        /\ rebuild' = [rebuild EXCEPT ![w] = FALSE]
  /\ sup' = [sup EXCEPT ![w] = "retry"]
  /\ UNCHANGED <<http2, config, net, tunnel, dead, trace, build, conn, fetches>>

-----------------------------------------------------------------------------
(* The task of spawn_trace reads the worker's handle when it first runs.   *)

FetchStart(f) ==
  /\ f.net = None
  /\ fetches' = (fetches \ {f}) \cup
                  (IF net[f.w] = None THEN {}
                   ELSE {[w |-> f.w, for |-> f.for, net |-> net[f.w]]})
  /\ UNCHANGED <<http2, config, net, tunnel, dead, trace, rebuild, build, sup,
                 conn>>

\* What a trace fetched through t is to worker w.
TraceVia(w, t) == IF t = tunnel[w] THEN "current" ELSE "old"

\* fetch_trace answers (or times out, which is recorded just the same) and
\* set_trace stores it, whatever the worker's tunnel is by then.
FetchDone(f) ==
  /\ f.net # None
  /\ trace' = [trace EXCEPT ![f.w] = TraceVia(f.w, f.net)]
  /\ fetches' = fetches \ {f}
  /\ UNCHANGED <<http2, config, net, tunnel, dead, rebuild, build, sup, conn>>
=============================================================================
