------------------------------ MODULE Control ------------------------------
(***************************************************************************)
(* The control API of control.rs: requests over loopback, guarded by the   *)
(* token of this run of the daemon, that act on the pool the SOCKS server  *)
(* balances over.  rotate and add_account register accounts (module        *)
(* Registration) while everything else goes on.                            *)
(*                                                                         *)
(* Of the pool there is what the requests change: its settings and the     *)
(* accounts of its workers; module Pool has the tunnels behind them.  A    *)
(* request is its method, whether it carries the token, its path and the   *)
(* parameters on and slot (or seconds) of its query.                       *)
(***************************************************************************)
EXTENDS Registration, Socks, Retain, Integers

CONSTANTS
  Controller,       \* clients of the control API
  Requests,         \* the requests they make
  MaxCalls,         \* bound on the requests in a behaviour
  UsizeMax,         \* the largest usize
  MIN_ROTATE_SECS,  \* pool.rs
  Absent            \* a parameter that is not there or does not parse

ASSUME ControlAssumption ==
  /\ Controller \subseteq Registrar
  /\ MaxCalls \in Nat /\ UsizeMax \in Nat /\ MIN_ROTATE_SECS \in Nat
  /\ \A r \in Requests : /\ r.on \in BOOLEAN \cup {Absent}
                         /\ r.slot = Absent \/ r.slot \in Int

VARIABLES
  workers,      \* Pool.workers: id and config of each
  next_id,      \* Pool.next_id
  pinned,       \* Pool.pinned
  http2,        \* Pool.http2
  rotate_secs,  \* Pool.rotate_secs
  ctl,          \* the request each client of the API is waiting for
  calls         \* requests made so far

settings == <<pinned, http2, rotate_secs>>
controlVars == <<workers, next_id, settings, ctl, calls>>

Ctl(at, w, status) == [at |-> at, w |-> w, status |-> status]
NoRequest == Ctl("idle", 0, 0)
Config == [id : AccountId, key : AccountId]
Ids == {workers[i].id : i \in DOMAIN workers}

ControlTypeOK ==
  /\ workers \in Seq([id : Nat, cfg : Config])
  /\ next_id \in Nat /\ pinned \in 0..UsizeMax /\ http2 \in BOOLEAN /\ rotate_secs \in Nat
  /\ ctl \in [Controller -> [at : {"idle", "rotate", "add", "connect", "reply"}, w : Nat,
                             status : {0, 200, 204, 400, 403}]]
  /\ calls \in 0..MaxCalls

\* No pool yet, or no longer.
ControlInit ==
  /\ workers = <<>> /\ next_id = 1 /\ pinned = 0 /\ http2 = FALSE /\ rotate_secs = 0
  /\ ctl = [k \in Controller |-> NoRequest]
  /\ calls = 0

-----------------------------------------------------------------------------
(* Parameters.                                                             *)

bool_param(on, default) == IF on = Absent THEN default ELSE on
int_param(slot, default) == IF slot = Absent THEN default ELSE slot

\* (A slot that keeps its sign.)
AsUsizeSigned(n) == n

\* `as usize`: -1 becomes the largest.
AsUsize(n) == n % (UsizeMax + 1)

SlotOf(r) == AsUsize(int_param(r.slot, 0))

Clamped(secs) ==
  IF secs = 0 THEN 0 ELSE IF secs < MIN_ROTATE_SECS THEN MIN_ROTATE_SECS ELSE secs

-----------------------------------------------------------------------------
(* handle and route.                                                       *)

\* A request comes in.
Asks(k) ==
  /\ ctl[k].at = "idle"
  /\ calls < MaxCalls /\ calls' = calls + 1

Waits(k, at, w) == ctl' = [ctl EXCEPT ![k] = Ctl(at, w, 0)]
Answers(k, status) == ctl' = [ctl EXCEPT ![k] = Ctl("reply", 0, status)]

Granted(r) == r.method # "OPTIONS" /\ r.token

\* A preflight, a wrong token, an unknown path, an account that is not there
\* or must stay: nothing changes.
Rejection(r) ==
  IF r.method = "OPTIONS" THEN 204
  ELSE IF ~r.token THEN 403
  ELSE IF \/ r.path = "unknown"
          \/ r.path = "rotate" /\ SlotOf(r) \notin Ids \cup {0}
          \/ r.path = "remove" /\ (r.slot = Absent \/ Len(workers) <= 1 \/ SlotOf(r) \notin Ids)
       THEN 400 ELSE 0

Reject(k, r) ==
  /\ Asks(k)
  /\ Rejection(r) # 0 /\ Answers(k, Rejection(r))
  /\ UNCHANGED <<workers, next_id, settings, regVars, socksVars>>

\* The requests that read or change a setting; reconnect and trace are
\* between the pool and its workers.
Set(k, r) ==
  /\ Asks(k)
  /\ Granted(r)
  /\ r.path \in {"status", "toggle", "select", "http2", "interval", "reconnect", "trace"}
  /\ enabled' = IF r.path = "toggle" THEN bool_param(r.on, TRUE) ELSE enabled
  /\ pinned' = IF r.path = "select" THEN SlotOf(r) ELSE pinned
  /\ http2' = IF r.path = "http2" THEN bool_param(r.on, FALSE) ELSE http2
  /\ rotate_secs' = IF r.path # "interval" THEN rotate_secs
                    ELSE LET secs == int_param(r.slot, 0)
                         IN Clamped(IF secs < 0 THEN 0 ELSE secs)
  /\ Answers(k, 200)
  /\ UNCHANGED <<workers, next_id, task, stray, regVars>>

\* The worker that rotate is about: for 0 the pinned one, else the first.
Target(id) == IF id # 0 THEN id ELSE IF pinned \in Ids THEN pinned ELSE workers[1].id

Rotate(k, r) ==
  /\ Asks(k) /\ Granted(r) /\ r.path = "rotate"
  /\ SlotOf(r) \in Ids \cup {0}
  /\ Waits(k, "rotate", Target(SlotOf(r)))
  /\ register_auto(k)
  /\ UNCHANGED <<workers, next_id, settings, network, created, keys, enrolled, faults,
                 socksVars>>

\* The new account is the worker's, also of one that was removed meanwhile.
\* It is not saved.
RotateDone(k) ==
  /\ ctl[k].at = "rotate"
  /\ \/ /\ Registered(k)
        /\ workers' = [i \in DOMAIN workers |->
                         IF workers[i].id = ctl[k].w
                         THEN [id |-> ctl[k].w, cfg |-> NewConfig(k)] ELSE workers[i]]
        /\ Answers(k, 200)
     \/ /\ RegisterFailed(k)
        /\ Answers(k, 400) /\ UNCHANGED workers
  /\ Return(k)
  /\ UNCHANGED <<next_id, settings, calls, network, created, keys, enrolled, faults, socksVars>>

Add(k, r) ==
  /\ Asks(k) /\ Granted(r) /\ r.path = "add"
  /\ next_id' = next_id + 1
  /\ Waits(k, "add", next_id)
  /\ register_auto(k)
  /\ UNCHANGED <<workers, settings, network, created, keys, enrolled, faults, socksVars>>

\* The worker is listed before its first connect; the account is not saved.
AddDone(k) ==
  /\ ctl[k].at = "add"
  /\ \/ /\ Registered(k)
        /\ workers' = Append(workers, [id |-> ctl[k].w, cfg |-> NewConfig(k)])
        /\ Waits(k, "connect", ctl[k].w)
     \/ /\ RegisterFailed(k)
        /\ Answers(k, 400) /\ UNCHANGED workers
  /\ Return(k)
  /\ UNCHANGED <<next_id, settings, calls, network, created, keys, enrolled, faults, socksVars>>

AddConnected(k) ==
  /\ ctl[k].at = "connect"
  /\ Answers(k, 200) \/ Answers(k, 400)
  /\ UNCHANGED <<workers, next_id, settings, calls, regVars, socksVars>>

\* retain: whatever has the id leaves the list.
Remove(k, r) ==
  /\ Asks(k) /\ Granted(r) /\ r.path = "remove"
  /\ r.slot # Absent /\ Len(workers) > 1 /\ SlotOf(r) \in Ids
  /\ workers' \in Retained(workers, {i \in DOMAIN workers : workers[i].id # SlotOf(r)})
  /\ pinned' = IF pinned = SlotOf(r) THEN 0 ELSE pinned
  /\ Answers(k, 200)
  /\ UNCHANGED <<next_id, http2, rotate_secs, regVars, socksVars>>

\* The response is written and the connection closed.
Respond(k) ==
  /\ ctl[k].at = "reply"
  /\ ctl' = [ctl EXCEPT ![k] = NoRequest]
  /\ UNCHANGED <<workers, next_id, settings, calls, regVars, socksVars>>

ControlCall(k) ==
  \E r \in Requests : Reject(k, r) \/ Set(k, r) \/ Rotate(k, r) \/ Add(k, r) \/ Remove(k, r)
ControlStep(k) == RotateDone(k) \/ AddDone(k) \/ AddConnected(k) \/ Respond(k)
=============================================================================
