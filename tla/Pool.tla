-------------------------------- MODULE Pool --------------------------------
(***************************************************************************)
(* The account pool of pool.rs: the workers of module Worker, the state    *)
(* the load balancer and the live controls share (struct Pool), and the    *)
(* callers that act on it concurrently: the control API's and the SOCKS    *)
(* server's tasks (Client), Pool::new (Boot) and the auto-rotator task     *)
(* (Rotator).                                                              *)
(*                                                                         *)
(* A call is a record op[p]: where it is, the worker it works on, the      *)
(* workers of its snapshot it has still to visit, and the netstack handle  *)
(* a trace fetch holds (what a picked handle is used for is told by Socks  *)
(* and Netstack).  A call is split wherever another task can run between   *)
(* two of its accesses to shared state: at an await, and between two       *)
(* atomics or two critical sections.                                       *)
(***************************************************************************)
EXTENDS Worker, Retain

CONSTANTS
  Client,         \* tasks of the control API and of the SOCKS server
  Boot,           \* the task running Pool::new
  Rotator,        \* the auto-rotator task
  Calls,          \* the calls each client makes in this instance
  Droppable,      \* whether the users ever let go of the pool
  NumConfigs,     \* how many configs Pool::new is given
  MinRotateSecs,  \* MIN_ROTATE_SECS
  Intervals,      \* the cadences asked for
  Laps            \* counters used modulo a pool length wrap at Laps

AllCalls == {"toggle", "select", "interval", "reconnect", "rotate", "http2",
             "add", "remove", "trace", "pick"}

\* Laps is a multiple of every length the pool can have, so that a counter
\* modulo Laps selects the same worker as the counter itself.
ASSUME PoolAssumption ==
  /\ Boot # Rotator /\ Boot \notin Client /\ Rotator \notin Client
  /\ Calls \in [Client -> SUBSET AllCalls]
  /\ Droppable \in BOOLEAN
  /\ NumConfigs \in 0..MaxId
  /\ MinRotateSecs \in Nat /\ Intervals \subseteq Nat
  /\ Laps \in Nat \ {0} /\ \A n \in WorkerId : Laps % n = 0

VARIABLES
  workers,        \* Pool.workers, in the order they were pushed
  enabled,        \* Pool.enabled
  pinned,         \* Pool.pinned, 0 = auto
  rr,             \* Pool.rr
  next_id,        \* Pool.next_id
  rotate_secs,    \* Pool.rotate_secs, 0 = disabled
  rotIdx,         \* idx of the rotator task
  held,           \* somebody outside still holds the Arc<Pool>
  op              \* the call each task is in

poolVars == <<workers, enabled, pinned, rr, next_id, rotate_secs, rotIdx,
              held, op>>
vars == <<workerVars, poolVars>>

Proc == Client \cup {Boot, Rotator}
Members(s) == {s[i] : i \in DOMAIN s}
Call(at, w, todo, t) == [at |-> at, w |-> w, todo |-> todo, net |-> t]
Idle == Call("idle", 0, <<>>, None)
At(p, at) == op[p].at = at
Become(p, call) == op' = [op EXCEPT ![p] = call]

OpType ==
  [at : {"idle", "boot", "booting", "done", "off", "armed", "exited",
         "snapshot", "notify", "rotate", "default", "register", "add",
         "adding", "unpin", "trace", "fetch", "pick", "pinned", "rr", "scan",
         "picked", "refused"},
   w : 0..MaxId, todo : Seq(WorkerId), net : Tunnel \cup {None}]

PoolTypeOK ==
  /\ workers \in Seq(WorkerId)
  /\ enabled \in BOOLEAN
  /\ pinned \in 0..MaxId
  /\ rr \in 0..(Laps - 1)
  /\ next_id \in 1..(MaxId + 1)
  /\ rotate_secs \in Nat
  /\ rotIdx \in 0..(Laps - 1)
  /\ held \in BOOLEAN
  /\ op \in [Proc -> OpType]

\* The types of every variable.
TypeOK == WorkerTypeOK /\ PoolTypeOK

PoolInit ==
  /\ workers = <<>>
  /\ enabled = TRUE
  /\ pinned = 0
  /\ rr = 0
  /\ next_id = 1
  /\ rotate_secs = 0
  /\ rotIdx = 0
  /\ held = TRUE
  /\ op = [p \in Proc |-> IF p = Boot THEN Call("boot", 0, <<>>, None)
                          ELSE IF p = Rotator THEN Call("off", 0, <<>>, None)
                          ELSE Idle]

Init == WorkerInit /\ PoolInit

-----------------------------------------------------------------------------
(* What the calls have in common.                                          *)

\* The workers mutex is held across steps only by remove_account.
WorkersLockFree == \A p \in Proc : ~At(p, "unpin")

\* The pool is handed to its users by Pool::new.
Begin(p, call) ==
  /\ call \in Calls[p]
  /\ held
  /\ At(Boot, "done")
  /\ At(p, "idle")

\* weak.upgrade() succeeds: a user, a supervisor that is connecting or the
\* rotator inside rotate holds the Arc.
Alive == \/ held
         \/ \E w \in WorkerId : sup[w] = "connect"
         \/ op[Rotator].at \in {"rotate", "register", "notify"}

\* Accounts the pool has nothing to do with: any of them may have been on
\* disk when the daemon started.
UnusedAccount ==
  {a \in Account : /\ \A w \in WorkerId : config[w] # a /\ build[w].cfg # a
                   /\ \A t \in Tunnel : conn[t].cfg # a}

\* register_auto creates a new account, with a new key, on every call.
FreshAccount == UnusedAccount \ Corrupt

\* A tunnel that nothing refers to any longer stands for the next one.
FreshTunnel ==
  {t \in Tunnel : /\ \A w \in WorkerId : tunnel[w] # t
                  /\ \A f \in fetches : f.for # t /\ f.net # t
                  /\ \A p \in Proc : op[p].net # t}

\* The workers of the pool a request for id is about: all of them for 0.
Matching(id) == IF id = 0 THEN workers
                ELSE IF id \in Members(workers) THEN <<id>> ELSE <<>>

\* The successor of a counter that wraps at Laps.
NextLap(n) == IF n + 1 = Laps THEN 0 ELSE n + 1

\* s in the order that starts at its element number (start mod its length).
StartingAt(s, start) ==
  [k \in DOMAIN s |-> s[((start + k - 1) % Len(s)) + 1]]

\* Worker::new and the push under the workers lock, then build_tunnel up to
\* its first await.
PushWorker(w, cfg) ==
  /\ WorkersLockFree
  /\ config' = [config EXCEPT ![w] = cfg]
  /\ workers' = Append(workers, w)
  /\ StartBuild(w, cfg)

-----------------------------------------------------------------------------
(* Pool::new: one config after the other.                                  *)

BootNext ==
  /\ At(Boot, "boot") /\ next_id <= NumConfigs
  /\ \E a \in UnusedAccount : PushWorker(next_id, a)
  /\ next_id' = next_id + 1
  /\ Become(Boot, Call("booting", next_id, <<>>, None))
  /\ UNCHANGED <<http2, net, tunnel, dead, trace, rebuild, sup, conn, fetches,
                 enabled, pinned, rr, rotate_secs, rotIdx, held>>

\* The supervisor is spawned whether or not the first connect succeeded.
BootBuilt(t) ==
  /\ At(Boot, "booting")
  /\ Established(op[Boot].w, t)
  /\ sup' = [sup EXCEPT ![op[Boot].w] = LoopHead(t)]
  /\ Become(Boot, Call("boot", 0, <<>>, None))
  /\ UNCHANGED <<http2, config, rebuild, fetches, workers, enabled,
                 pinned, rr, next_id, rotate_secs, rotIdx, held>>

BootFailed ==
  /\ At(Boot, "booting")
  /\ BuildFailed(op[Boot].w)
  /\ sup' = [sup EXCEPT ![op[Boot].w] = LoopHead(None)]
  /\ Become(Boot, Call("boot", 0, <<>>, None))
  /\ UNCHANGED <<http2, config, net, tunnel, dead, trace, rebuild, conn,
                 fetches, workers, enabled, pinned, rr, next_id, rotate_secs,
                 rotIdx, held>>

\* spawn_rotator, and the pool is returned.
BootDone ==
  /\ At(Boot, "boot") /\ next_id > NumConfigs /\ At(Rotator, "off")
  /\ op' = [op EXCEPT ![Boot] = Call("done", 0, <<>>, None), ![Rotator] = Idle]
  /\ UNCHANGED <<workerVars, workers, enabled, pinned, rr, next_id,
                 rotate_secs, rotIdx, held>>

-----------------------------------------------------------------------------
(* set_enabled, select, set_rotate_interval.                               *)

SetEnabled(p, on) ==
  /\ Begin(p, "toggle")
  /\ enabled' = on
  /\ UNCHANGED <<workerVars, workers, pinned, rr, next_id, rotate_secs,
                 rotIdx, held, op>>

\* Any id is accepted, also one that names no worker.
Select(p, id) ==
  /\ Begin(p, "select")
  /\ pinned' = id
  /\ UNCHANGED <<workerVars, workers, enabled, rr, next_id, rotate_secs,
                 rotIdx, held, op>>

Clamped(secs) ==
  IF secs = 0 THEN 0 ELSE IF secs < MinRotateSecs THEN MinRotateSecs ELSE secs

SetRotateInterval(p, secs) ==
  /\ Begin(p, "interval")
  /\ rotate_secs' = Clamped(secs)
  /\ UNCHANGED <<workerVars, workers, enabled, pinned, rr, next_id, rotIdx,
                 held, op>>

-----------------------------------------------------------------------------
(* reconnect and set_http2.                                                *)

Reconnect(p, id) ==
  /\ Begin(p, "reconnect") /\ WorkersLockFree
  /\ Matching(id) # <<>>
  /\ Become(p, Call("notify", 0, Matching(id), None))
  /\ UNCHANGED <<workerVars, workers, enabled, pinned, rr, next_id,
                 rotate_secs, rotIdx, held>>

\* notify_one on the next worker of the snapshot, which it may have left.
NotifyNext(p) ==
  /\ At(p, "notify")
  /\ rebuild' = [rebuild EXCEPT ![Head(op[p].todo)] = TRUE]
  /\ Become(p, IF Len(op[p].todo) = 1 THEN Idle
               ELSE Call("notify", 0, Tail(op[p].todo), None))
  /\ UNCHANGED <<http2, config, net, tunnel, dead, trace, build, sup, conn,
                 fetches, workers, enabled, pinned, rr, next_id, rotate_secs,
                 rotIdx, held>>

\* A switch that leaves the running tunnels alone.
SetHttp2Lazy(p, on) ==
  /\ Begin(p, "http2")
  /\ http2' = on
  /\ UNCHANGED <<config, net, tunnel, dead, trace, rebuild, build, sup, conn,
                 fetches, poolVars>>

SetHttp2(p, on) ==
  /\ Begin(p, "http2")
  /\ http2' = on
  /\ Become(p, Call("snapshot", 0, <<>>, None))
  /\ UNCHANGED <<config, net, tunnel, dead, trace, rebuild, build, sup, conn,
                 fetches, workers, enabled, pinned, rr, next_id, rotate_secs,
                 rotIdx, held>>

\* The snapshot of the reconnect(0) at the end of set_http2.
ReconnectAll(p) ==
  /\ At(p, "snapshot") /\ WorkersLockFree
  /\ Become(p, IF workers = <<>> THEN Idle ELSE Call("notify", 0, workers, None))
  /\ UNCHANGED <<workerVars, workers, enabled, pinned, rr, next_id,
                 rotate_secs, rotIdx, held>>

-----------------------------------------------------------------------------
(* rotate.                                                                 *)

Rotate(p, id) ==
  /\ Begin(p, "rotate")
  /\ Become(p, Call("rotate", id, <<>>, None))
  /\ UNCHANGED <<workerVars, workers, enabled, pinned, rr, next_id,
                 rotate_secs, rotIdx, held>>

\* The snapshot; an unknown id is an error.
RotateFind(p) ==
  /\ At(p, "rotate") /\ WorkersLockFree
  /\ Become(p, IF op[p].w = 0 THEN Call("default", 0, workers, None)
               ELSE IF op[p].w \in Members(workers)
                    THEN Call("register", op[p].w, <<>>, None)
                    ELSE Idle)
  /\ UNCHANGED <<workerVars, workers, enabled, pinned, rr, next_id,
                 rotate_secs, rotIdx, held>>

\* A default that trusts the pin without looking for its worker.
RotateDefaultPin(p) ==
  /\ At(p, "default")
  /\ Become(p, IF op[p].todo = <<>> THEN Idle
               ELSE Call("register", pinned, <<>>, None))
  /\ UNCHANGED <<workerVars, workers, enabled, pinned, rr, next_id,
                 rotate_secs, rotIdx, held>>

\* id = 0: the pinned worker of the snapshot, else its first.
RotateDefault(p) ==
  /\ At(p, "default")
  /\ LET todo == op[p].todo IN
     Become(p, IF todo = <<>> THEN Idle
               ELSE Call("register",
                         IF pinned \in Members(todo) THEN pinned ELSE todo[1],
                         <<>>, None))
  /\ UNCHANGED <<workerVars, workers, enabled, pinned, rr, next_id,
                 rotate_secs, rotIdx, held>>

\* A rotation that swaps the config and leaves the rest to the next outage.
RotateRegisteredLazy(p) ==
  /\ At(p, "register")
  /\ \E a \in FreshAccount : config' = [config EXCEPT ![op[p].w] = a]
  /\ Become(p, Idle)
  /\ UNCHANGED <<http2, net, tunnel, dead, trace, rebuild, build, sup, conn,
                 fetches, workers, enabled, pinned, rr, next_id, rotate_secs,
                 rotIdx, held>>

\* register_auto answers and the worker's config is replaced; the rebuild
\* request follows.
RotateRegistered(p) ==
  /\ At(p, "register")
  /\ \E a \in FreshAccount : config' = [config EXCEPT ![op[p].w] = a]
  /\ Become(p, Call("notify", 0, <<op[p].w>>, None))
  /\ UNCHANGED <<http2, net, tunnel, dead, trace, rebuild, build, sup, conn,
                 fetches, workers, enabled, pinned, rr, next_id, rotate_secs,
                 rotIdx, held>>

RotateFailed(p) ==
  /\ At(p, "register")
  /\ Become(p, Idle)
  /\ UNCHANGED <<workerVars, workers, enabled, pinned, rr, next_id,
                 rotate_secs, rotIdx, held>>

-----------------------------------------------------------------------------
(* add_account and remove_account.                                         *)

\* An id taken from the length of the list instead of the counter.
AddAccountByLength(p) ==
  /\ Begin(p, "add") /\ next_id <= MaxId
  /\ next_id' = next_id + 1
  /\ Become(p, Call("add", Len(workers) + 1, <<>>, None))
  /\ UNCHANGED <<workerVars, workers, enabled, pinned, rr, rotate_secs,
                 rotIdx, held>>

\* The id is taken before the account is registered.
AddAccount(p) ==
  /\ Begin(p, "add") /\ next_id <= MaxId
  /\ next_id' = next_id + 1
  /\ Become(p, Call("add", next_id, <<>>, None))
  /\ UNCHANGED <<workerVars, workers, enabled, pinned, rr, rotate_secs,
                 rotIdx, held>>

\* Registration fails; the id is used up.
AddFailed(p) ==
  /\ At(p, "add")
  /\ Become(p, Idle)
  /\ UNCHANGED <<workerVars, workers, enabled, pinned, rr, next_id,
                 rotate_secs, rotIdx, held>>

\* A supervisor that is spawned before the first connect.
AddRegisteredEager(p) ==
  /\ At(p, "add")
  /\ \E a \in FreshAccount : PushWorker(op[p].w, a)
  /\ sup' = [sup EXCEPT ![op[p].w] = LoopHead(dead[op[p].w])]
  /\ Become(p, Call("adding", op[p].w, <<>>, None))
  /\ UNCHANGED <<http2, net, tunnel, dead, trace, rebuild, conn, fetches,
                 enabled, pinned, rr, next_id, rotate_secs, rotIdx, held>>

AddRegistered(p) ==
  /\ At(p, "add")
  /\ \E a \in FreshAccount : PushWorker(op[p].w, a)
  /\ Become(p, Call("adding", op[p].w, <<>>, None))
  /\ UNCHANGED <<http2, net, tunnel, dead, trace, rebuild, sup, conn, fetches,
                 enabled, pinned, rr, next_id, rotate_secs, rotIdx, held>>

\* spawn_supervisor and spawn_trace.
AddBuilt(p, t) ==
  /\ At(p, "adding")
  /\ Established(op[p].w, t)
  /\ sup' = [sup EXCEPT ![op[p].w] = LoopHead(t)]
  /\ SpawnTrace(op[p].w, t)
  /\ Become(p, Idle)
  /\ UNCHANGED <<http2, config, rebuild, workers, enabled, pinned, rr,
                 next_id, rotate_secs, rotIdx, held>>

\* The first connect fails: the call ends here, the worker stays listed.
AddBuildFailed(p) ==
  /\ At(p, "adding")
  /\ BuildFailed(op[p].w)
  /\ Become(p, Idle)
  /\ UNCHANGED <<http2, config, net, tunnel, dead, trace, rebuild, sup, conn,
                 fetches, workers, enabled, pinned, rr, next_id, rotate_secs,
                 rotIdx, held>>

\* Under the workers lock: the last account is kept, every worker that has
\* the id goes, an unknown id is an error, and the pin is read; if it names
\* the worker the lock stays held.
RemoveAccount(p, id) ==
  /\ Begin(p, "remove") /\ WorkersLockFree
  /\ Len(workers) > 1 /\ id \in Members(workers)
  /\ workers' \in Retained(workers, {i \in DOMAIN workers : workers[i] # id})
  /\ Become(p, IF pinned = id THEN Call("unpin", id, <<>>, None) ELSE Idle)
  /\ UNCHANGED <<workerVars, enabled, pinned, rr, next_id, rotate_secs,
                 rotIdx, held>>

RemoveUnpin(p) ==
  /\ At(p, "unpin")
  /\ pinned' = 0
  /\ Become(p, Idle)
  /\ UNCHANGED <<workerVars, workers, enabled, rr, next_id, rotate_secs,
                 rotIdx, held>>

-----------------------------------------------------------------------------
(* refresh_trace: one worker of the snapshot after the other.              *)

RefreshTrace(p, id) ==
  /\ Begin(p, "trace") /\ WorkersLockFree
  /\ Matching(id) # <<>>
  /\ Become(p, Call("trace", 0, Matching(id), None))
  /\ UNCHANGED <<workerVars, workers, enabled, pinned, rr, next_id,
                 rotate_secs, rotIdx, held>>

TraceRest(todo) == IF Len(todo) = 1 THEN Idle
                   ELSE Call("trace", 0, Tail(todo), None)

\* A worker without a handle is passed over.
TraceNext(p) ==
  /\ At(p, "trace")
  /\ LET w == Head(op[p].todo) IN
     Become(p, IF net[w] = None THEN TraceRest(op[p].todo)
               ELSE Call("fetch", w, op[p].todo, net[w]))
  /\ UNCHANGED <<workerVars, workers, enabled, pinned, rr, next_id,
                 rotate_secs, rotIdx, held>>

TraceDone(p) ==
  /\ At(p, "fetch")
  /\ trace' = [trace EXCEPT ![op[p].w] = TraceVia(op[p].w, op[p].net)]
  /\ Become(p, TraceRest(op[p].todo))
  /\ UNCHANGED <<http2, config, net, tunnel, dead, rebuild, build, sup, conn,
                 fetches, workers, enabled, pinned, rr, next_id, rotate_secs,
                 rotIdx, held>>

-----------------------------------------------------------------------------
(* pick, for one new SOCKS connection.                                     *)

\* The snapshot; an empty pool has nothing to offer.
Pick(p) ==
  /\ Begin(p, "pick") /\ WorkersLockFree
  /\ Become(p, Call(IF workers = <<>> THEN "refused" ELSE "pick",
                    0, workers, None))
  /\ UNCHANGED <<workerVars, workers, enabled, pinned, rr, next_id,
                 rotate_secs, rotIdx, held>>

\* A pick that takes the pin for an index, counted from 0, into the workers.
PickPinByIndex(p) ==
  /\ At(p, "pick")
  /\ LET todo == op[p].todo IN
     Become(p, IF pinned # 0 /\ pinned + 1 \in DOMAIN todo
               THEN Call("pinned", todo[pinned + 1], todo, None)
               ELSE Call("rr", 0, todo, None))
  /\ UNCHANGED <<workerVars, workers, enabled, pinned, rr, next_id,
                 rotate_secs, rotIdx, held>>

PickPin(p) ==
  /\ At(p, "pick")
  /\ LET todo == op[p].todo IN
     Become(p, IF pinned \in Members(todo) THEN Call("pinned", pinned, todo, None)
               ELSE Call("rr", 0, todo, None))
  /\ UNCHANGED <<workerVars, workers, enabled, pinned, rr, next_id,
                 rotate_secs, rotIdx, held>>

\* A pick that gives up when the pinned worker is not ready.
PickPinnedOnly(p) ==
  /\ At(p, "pinned")
  /\ LET w == op[p].w IN
     Become(p, IF net[w] = None THEN Call("refused", 0, <<>>, None)
               ELSE Call("picked", w, <<>>, None))
  /\ UNCHANGED <<workerVars, workers, enabled, pinned, rr, next_id,
                 rotate_secs, rotIdx, held>>

\* A pinned worker that is not ready falls back to the others.
PickPinned(p) ==
  /\ At(p, "pinned")
  /\ LET w == op[p].w IN
     Become(p, IF net[w] = None THEN Call("rr", 0, op[p].todo, None)
               ELSE Call("picked", w, <<>>, None))
  /\ UNCHANGED <<workerVars, workers, enabled, pinned, rr, next_id,
                 rotate_secs, rotIdx, held>>

PickStart(p) ==
  /\ At(p, "rr")
  /\ rr' = NextLap(rr)
  /\ Become(p, Call("scan", 0, StartingAt(op[p].todo, rr), None))
  /\ UNCHANGED <<workerVars, workers, enabled, pinned, next_id, rotate_secs,
                 rotIdx, held>>

\* One round of the scan: the worker's lock is taken and released.
PickScan(p) ==
  /\ At(p, "scan")
  /\ LET w == Head(op[p].todo) IN
     Become(p, IF net[w] # None THEN Call("picked", w, <<>>, None)
               ELSE IF Len(op[p].todo) = 1 THEN Call("refused", 0, <<>>, None)
               ELSE Call("scan", 0, Tail(op[p].todo), None))
  /\ UNCHANGED <<workerVars, workers, enabled, pinned, rr, next_id,
                 rotate_secs, rotIdx, held>>

\* The connection that used the handle, or was refused, is over.
PickEnd(p) ==
  /\ At(p, "picked") \/ At(p, "refused")
  /\ Become(p, Idle)
  /\ UNCHANGED <<workerVars, workers, enabled, pinned, rr, next_id,
                 rotate_secs, rotIdx, held>>

-----------------------------------------------------------------------------
(* The auto-rotator task.                                                  *)

\* A rotator that looks for the pool only when it is about to rotate.
RotatorArmBlind ==
  /\ At(Rotator, "idle")
  /\ rotate_secs # 0
  /\ Become(Rotator, Call("armed", 0, <<>>, None))
  /\ UNCHANGED <<workerVars, workers, enabled, pinned, rr, next_id,
                 rotate_secs, rotIdx, held>>

\* The head of its loop: with a cadence it goes to sleep for it, without one
\* it looks again later; it ends when the pool is gone.
RotatorArm ==
  /\ At(Rotator, "idle")
  /\ ~Alive \/ rotate_secs # 0
  /\ Become(Rotator, Call(IF Alive THEN "armed" ELSE "exited", 0, <<>>, None))
  /\ UNCHANGED <<workerVars, workers, enabled, pinned, rr, next_id,
                 rotate_secs, rotIdx, held>>

\* A rotator that starts counting anew every time.
RotatorFireSame ==
  /\ At(Rotator, "armed")
  /\ IF ~Alive
     THEN Become(Rotator, Call("exited", 0, <<>>, None)) /\ UNCHANGED rotIdx
     ELSE IF rotate_secs = 0 \/ workers = <<>>
     THEN Become(Rotator, Idle) /\ UNCHANGED rotIdx
     ELSE /\ WorkersLockFree
          /\ Become(Rotator, Call("rotate", workers[(rotIdx % Len(workers)) + 1],
                                  <<>>, None))
          /\ rotIdx' = 0
  /\ UNCHANGED <<workerVars, workers, enabled, pinned, rr, next_id,
                 rotate_secs, held>>

\* The sleep is over: the cadence may have been disabled meanwhile, else the
\* next account of the snapshot is rotated.
RotatorFire ==
  /\ At(Rotator, "armed")
  /\ IF ~Alive
     THEN Become(Rotator, Call("exited", 0, <<>>, None)) /\ UNCHANGED rotIdx
     ELSE IF rotate_secs = 0 \/ workers = <<>>
     THEN Become(Rotator, Idle) /\ UNCHANGED rotIdx
     ELSE /\ WorkersLockFree
          /\ Become(Rotator, Call("rotate", workers[(rotIdx % Len(workers)) + 1],
                                  <<>>, None))
          /\ rotIdx' = NextLap(rotIdx)
  /\ UNCHANGED <<workerVars, workers, enabled, pinned, rr, next_id,
                 rotate_secs, held>>

-----------------------------------------------------------------------------
(* The environment, and the specification.                                 *)

\* The last user outside lets go of the pool.
DropPool ==
  /\ Droppable
  /\ held /\ At(Boot, "done")
  /\ \A p \in Client : At(p, "idle")
  /\ held' = FALSE
  /\ UNCHANGED <<workerVars, workers, enabled, pinned, rr, next_id,
                 rotate_secs, rotIdx, op>>

BootStep == BootNext \/ (\E t \in FreshTunnel : BootBuilt(t)) \/ BootFailed
            \/ BootDone

\* A client starts a call.
CallStep(p) ==
  \/ \E on \in BOOLEAN : SetEnabled(p, on) \/ SetHttp2(p, on)
  \/ \E id \in 0..MaxId : \/ Select(p, id) \/ Reconnect(p, id)
                          \/ Rotate(p, id) \/ RefreshTrace(p, id)
  \/ \E secs \in Intervals : SetRotateInterval(p, secs)
  \/ AddAccount(p)
  \/ \E id \in WorkerId : RemoveAccount(p, id)
  \/ Pick(p)

\* A call takes its next step without waiting for anybody outside, or for
\* at most the 15 seconds fetch_trace gives itself.
LocalStep(p) ==
  \/ NotifyNext(p) \/ ReconnectAll(p)
  \/ RotateFind(p) \/ RotateDefault(p)
  \/ RemoveUnpin(p)
  \/ TraceNext(p) \/ TraceDone(p)
  \/ PickPin(p) \/ PickPinned(p) \/ PickStart(p) \/ PickScan(p)

\* A call gets the answer of the registration API or of the endpoint.
AnswerStep(p) ==
  \/ RotateRegistered(p) \/ RotateFailed(p)
  \/ AddRegistered(p) \/ AddFailed(p)
  \/ (\E t \in FreshTunnel : AddBuilt(p, t)) \/ AddBuildFailed(p)

\* A supervisor's connect succeeds.
Reconnected(w) == \E t \in FreshTunnel : SupervisorBuilt(w, t)

\* The tasks that belong to worker w.
WorkerStep(w) ==
  \/ BuildDial(w)
  \/ SupervisorWake(w)
  \/ SupervisorConnect(w, Alive)
  \/ Reconnected(w)
  \/ SupervisorFailed(w)
  \/ SupervisorRetry(w)
  \/ \E f \in fetches : f.w = w /\ (FetchStart(f) \/ FetchDone(f))

Next ==
  \/ BootStep
  \/ \E p \in Client : CallStep(p)
  \/ \E p \in Client \cup {Rotator} : LocalStep(p) \/ AnswerStep(p)
  \/ \E p \in Client : PickEnd(p)
  \/ RotatorArm \/ RotatorFire
  \/ DropPool
  \/ (\E w \in WorkerId : WorkerStep(w) /\ UNCHANGED poolVars)
  \/ (\E t \in Tunnel : TunnelDies(t) /\ UNCHANGED poolVars)

Spec == Init /\ [][Next]_vars

\* The runtime keeps running every task that can run, and a trace fetch ends
\* (it has a timeout).
TaskFairness ==
  /\ WF_vars(BootNext) /\ WF_vars(BootDone)
  /\ \A p \in Client \cup {Rotator} : WF_vars(LocalStep(p))
  /\ WF_vars(RotatorArm) /\ WF_vars(RotatorFire)
  /\ \A w \in WorkerId :
       /\ WF_vars(BuildDial(w) /\ UNCHANGED poolVars)
       /\ WF_vars(SupervisorWake(w) /\ UNCHANGED poolVars)
       /\ WF_vars(SupervisorConnect(w, Alive) /\ UNCHANGED poolVars)
       /\ WF_vars(SupervisorRetry(w) /\ UNCHANGED poolVars)
       /\ WF_vars(/\ \E f \in fetches : f.w = w /\ (FetchStart(f) \/ FetchDone(f))
                  /\ UNCHANGED poolVars)

\* What the code leaves to the network, having no timeout of its own: every
\* connect attempt and every registration ends one way or the other, and a
\* worker that tries to connect again and again succeeds in the end.
NetworkFairness ==
  /\ WF_vars(BootFailed \/ \E t \in FreshTunnel : BootBuilt(t))
  /\ \A p \in Client \cup {Rotator} : WF_vars(AnswerStep(p))
  /\ \A w \in WorkerId :
       /\ WF_vars((SupervisorFailed(w) \/ Reconnected(w)) /\ UNCHANGED poolVars)
       /\ SF_vars(Reconnected(w) /\ UNCHANGED poolVars)

FairSpec == Spec /\ TaskFairness /\ NetworkFairness

-----------------------------------------------------------------------------
(* Properties.                                                             *)

\* p has a rebuild request for w still to deliver.
WillNotify(p, w) ==
  \/ At(p, "notify") /\ w \in Members(op[p].todo)
  \/ At(p, "snapshot") /\ w \in Members(workers)

\* A rebuild of w is on its way.
RebuildDue(w) == rebuild[w] \/ \E p \in Proc : WillNotify(p, w)

\* The tunnel t is not what worker w should have: it was dialled for an
\* account that has been rotated away or, in the pool, over a transport that
\* has been switched away from.
Outdated(w, cfg, h2) ==
  cfg # config[w] \/ (w \in Members(workers) /\ h2 # http2)

\* rotate and set_http2 take effect live (pool.rs, module comment): however
\* they interleave with a supervisor that is dialling, backing off or asleep,
\* a worker never serves a tunnel of an old account or transport without a
\* rebuild request that its supervisor has still to see.
StaleTunnelHasRebuild ==
  \A w \in WorkerId :
    (net[w] # None /\ Outdated(w, conn[net[w]].cfg, conn[net[w]].http2))
      => RebuildDue(w)

\* A handle that pick can give out belongs to the tunnel the worker keeps
\* alive, and the supervisor is asleep on that very tunnel's death signal:
\* no tunnel is served that nobody would replace when it dies.
ServedTunnelIsWatched ==
  \A w \in WorkerId :
    net[w] # None => /\ tunnel[w] = net[w] /\ dead[w] = net[w]
                     /\ sup[w] = "wait"

\* The tasks that are inside build_tunnel for w.
Builders(w) ==
  (IF sup[w] = "connect" THEN {w} ELSE {})
    \cup {p \in Proc : op[p].at \in {"booting", "adding"} /\ op[p].w = w}

\* build_tunnel never runs twice at a time for one worker, although
\* Pool::new, add_account and the supervisor all call it without a lock.
OneBuilder ==
  \A w \in WorkerId :
    /\ \A b, c \in Builders(w) : b = c
    /\ build[w].at # "none" <=> Builders(w) # {}

\* The pool lists a worker once, under an id that was handed out, although
\* calls of add_account and remove_account overlap.
DistinctIds ==
  /\ \A i, j \in DOMAIN workers : workers[i] = workers[j] => i = j
  /\ \A i \in DOMAIN workers : workers[i] < next_id

\* A pool that has an account keeps one (remove_account, "keeps at least
\* one").  The check counts entries while retain drops every entry of an id,
\* so this rests on the ids that overlapping calls of add_account hand out.
NeverEmptied == [][workers # <<>> => workers' # <<>>]_vars

\* A worker is ready: pick would find its handle and the tunnel is up.
Serving(w) == net[w] # None /\ conn[net[w]].up

\* If its tunnel dies it reconnects (pool.rs, module comment): every
\* supervised worker that has a usable config and is not serving serves
\* again, unless the pool is given up.
AutoReconnect ==
  \A w \in WorkerId :
    (sup[w] # "absent" /\ config[w] \notin Corrupt /\ ~Serving(w))
      ~> (Serving(w) \/ ~held)

\* A rotation, or a transport switch, reaches a supervised worker: it ends
\* up on a tunnel of the account and transport asked for, unless these
\* change again, it is removed, or the pool is given up.
RequestsTakeEffect ==
  \A w \in WorkerId, a \in Account, h2 \in BOOLEAN :
    (/\ sup[w] # "absent" /\ w \in Members(workers) /\ a \notin Corrupt
     /\ config[w] = a /\ http2 = h2)
      ~> (\/ net[w] # None /\ conn[net[w]].cfg = a /\ conn[net[w]].http2 = h2
          \/ config[w] # a \/ http2 # h2
          \/ w \notin Members(workers) \/ ~held)

\* The rotator goes round-robin across accounts (pool.rs, spawn_rotator): if
\* the cadence stays on and the membership settles, it keeps coming back to
\* every account, whatever registrations fail and whatever else is going on.
EveryAccountRotates ==
  \A n \in WorkerId : \A s \in [1..n -> WorkerId] : \A w \in Members(s) :
    <>[](held /\ rotate_secs # 0 /\ workers = s)
      => []<>(At(Rotator, "register") /\ op[Rotator].w = w)

\* The rotator's task ends when the pool is gone (pool.rs, spawn_rotator),
\* also when auto-rotation is off at the time.
RotatorExits == ~Alive ~> At(Rotator, "exited")

-----------------------------------------------------------------------------
(* What comments and documents say and the code does not do.               *)

\* pool.rs:4 "Each worker is supervised": every listed worker has a
\* supervisor, unless Pool::new or add_account is still connecting it.
EveryWorkerSupervised ==
  \A w \in Members(workers) :
    sup[w] # "absent" \/ \E p \in Proc : /\ op[p].at \in {"booting", "adding"}
                                         /\ op[p].w = w
=============================================================================
