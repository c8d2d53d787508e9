------------------------------- MODULE Daemon -------------------------------
(***************************************************************************)
(* The daemon of warp-proxy/src/main.rs: a start loads the accounts of the *)
(* state directory, registers and saves the missing ones (config.rs), sets *)
(* the pool up, binds its two ports and serves until it is stopped.  It    *)
(* may be stopped, or fail, at any point, and is started again.            *)
(*                                                                         *)
(* fs::write creates or truncates the file before it fills it, so that a   *)
(* stop in between leaves a torn file, which does not parse.  Nothing is   *)
(* synced, so that what was written is safe from a crash of the process    *)
(* and not from a loss of power: when the OS has written it back, the      *)
(* program does not know.                                                  *)
(***************************************************************************)
EXTENDS Control, FiniteSets

CONSTANTS
  Boot,        \* the main task, as a registrar
  NumAccounts, \* --accounts
  Http2        \* --http2

ASSUME DaemonAssumption ==
  /\ Boot \in Registrar \ Controller
  /\ NumAccounts \in Nat \ {0} /\ Http2 \in BOOLEAN

VARIABLES
  state_dir,   \* whether there is one (--state-dir)
  disk,        \* its file for each slot, as the OS shows it
  phase,       \* where main is
  slot,        \* i of load_or_register
  configs      \* out of load_or_register

daemonVars == <<state_dir, disk, phase, slot, configs>>
diskVars == <<state_dir, disk>>
vars == <<regVars, socksVars, controlVars, daemonVars>>

Slot == 1..NumAccounts
NoConfig == [id |-> 0, key |-> 0]
File(state, cfg) == [state |-> state, cfg |-> cfg]
Whole(i) == disk[i].state = "whole"
Torn == \E i \in Slot : disk[i].state = "torn"

\* The types of every variable.
TypeOK ==
  /\ RegTypeOK /\ SocksTypeOK /\ ControlTypeOK
  /\ state_dir \in BOOLEAN
  /\ disk \in [Slot -> [state : {"absent", "torn", "whole"}, cfg : Config \cup {NoConfig}]]
  /\ phase \in {"down", "load", "register", "open", "write", "mode", "pool", "bind",
                "serving"}
  /\ slot \in 1..(NumAccounts + 1)
  /\ configs \in Seq(Config) /\ Len(configs) < NumAccounts + 1

Init ==
  /\ RegInit /\ SocksInit /\ ControlInit
  /\ state_dir \in BOOLEAN
  /\ disk = [i \in Slot |-> File("absent", NoConfig)]
  /\ phase = "down" /\ slot = 1 /\ configs = <<>>

-----------------------------------------------------------------------------
(* The process starts and ends.                                            *)

Start ==
  /\ phase = "down"
  /\ phase' = "load"
  /\ UNCHANGED <<regVars, socksVars, controlVars, diskVars, slot, configs>>

\* What the process had in memory is gone, and its tasks with it.
Gone ==
  /\ phase' = "down" /\ slot' = 1 /\ configs' = <<>>
  /\ workers' = <<>> /\ next_id' = 1 /\ pinned' = 0 /\ http2' = FALSE /\ rotate_secs' = 0
  /\ ctl' = [k \in Controller |-> NoRequest]
  /\ reg' = [p \in Registrar |-> NoCall]
  /\ AbortTasks
  /\ UNCHANGED <<state_dir, calls, network, created, keys, enrolled>>

\* A signal, a crash of the process.
Stop ==
  /\ phase # "down"
  /\ Fault /\ Gone /\ UNCHANGED disk

\* The power goes: files that were not written back are empty, cut short or
\* not there.  Each of them counts as something more that went wrong.
PowerLoss(lost) ==
  /\ lost # {} /\ lost \subseteq {i \in Slot : disk[i].state # "absent"}
  /\ \E left \in [lost -> {"absent", "torn"}] :
       disk' = [i \in Slot |-> IF i \in lost THEN File(left[i], NoConfig) ELSE disk[i]]
  /\ faults' = faults + 1 + Cardinality(lost) /\ faults' <= MaxFaults
  /\ Gone

-----------------------------------------------------------------------------
(* load_or_register.                                                       *)

Loading == phase = "load" /\ slot <= NumAccounts

\* The slot has its config, and the loop goes on.
Push(cfg) ==
  /\ configs' = Append(configs, cfg)
  /\ slot' = slot + 1 /\ phase' = "load"

\* (A slot whose file is there is registered anew.)
OnDiskNever(i) == state_dir /\ disk[i].state = "torn"

\* path.exists()
OnDisk(i) == state_dir /\ disk[i].state # "absent"

LoadSlot ==
  /\ Loading /\ OnDisk(slot)
  /\ IF Whole(slot)
     THEN /\ Push(disk[slot].cfg)
          /\ UNCHANGED <<regVars, socksVars, controlVars, diskVars>>
     ELSE Gone /\ UNCHANGED <<disk, faults>>

RegisterSlot ==
  /\ Loading /\ ~OnDisk(slot)
  /\ register_auto(Boot)
  /\ phase' = "register"
  /\ UNCHANGED <<network, created, keys, enrolled, faults, socksVars, controlVars, diskVars,
                 slot, configs>>

SlotRegistered ==
  /\ phase = "register" /\ Registered(Boot)
  /\ \/ /\ state_dir /\ phase' = "open" /\ UNCHANGED <<reg, slot, configs>>
     \/ /\ ~state_dir /\ Push(NewConfig(Boot)) /\ Return(Boot)
  /\ UNCHANGED <<network, created, keys, enrolled, faults, socksVars, controlVars, diskVars>>

RegistrationFails ==
  /\ phase = "register" /\ RegisterFailed(Boot)
  /\ Gone /\ UNCHANGED <<disk, faults>>

\* (A save whose failure is ignored.)
SaveOpenLax ==
  /\ phase = "open"
  /\ \/ /\ disk' = [disk EXCEPT ![slot] = File("torn", NoConfig)]
        /\ phase' = "write"
        /\ UNCHANGED <<regVars, socksVars, controlVars, state_dir, slot, configs>>
     \/ /\ Fault /\ Push(NewConfig(Boot)) /\ Return(Boot)
        /\ UNCHANGED <<network, created, keys, enrolled, socksVars, controlVars, diskVars>>

\* save: the file is created (the directory too, if it can be),
SaveOpen ==
  /\ phase = "open"
  /\ \/ /\ disk' = [disk EXCEPT ![slot] = File("torn", NoConfig)]
        /\ phase' = "write"
        /\ UNCHANGED <<regVars, socksVars, controlVars, state_dir, slot, configs>>
     \/ Fault /\ Gone /\ UNCHANGED disk

\* written,
SaveWrite ==
  /\ phase = "write"
  /\ \/ /\ disk' = [disk EXCEPT ![slot] = File("whole", NewConfig(Boot))]
        /\ phase' = "mode"
        /\ UNCHANGED <<regVars, socksVars, controlVars, state_dir, slot, configs>>
     \/ Fault /\ Gone /\ UNCHANGED disk

\* and made private.
SaveMode ==
  /\ phase = "mode"
  /\ \/ /\ Push(NewConfig(Boot)) /\ Return(Boot)
        /\ UNCHANGED <<network, created, keys, enrolled, faults, socksVars, controlVars,
                       diskVars>>
     \/ Fault /\ Gone /\ UNCHANGED disk

-----------------------------------------------------------------------------
(* The rest of main.                                                       *)

\* Pool::new: a pool without workers,
PoolNew ==
  /\ phase = "load" /\ slot > NumAccounts
  /\ enabled' = TRUE /\ http2' = Http2
  /\ phase' = "pool"
  /\ UNCHANGED <<regVars, task, stray, workers, next_id, pinned, rotate_secs, ctl, calls,
                 diskVars, slot, configs>>

\* to which one is added for each config, whose first connect is waited for
\* (and may fail) before the next,
PoolPush ==
  /\ phase = "pool" /\ Len(workers) < NumAccounts
  /\ workers' = Append(workers, [id |-> next_id, cfg |-> configs[Len(workers) + 1]])
  /\ next_id' = next_id + 1
  /\ UNCHANGED <<regVars, socksVars, settings, ctl, calls, daemonVars>>

\* until all are there.
PoolReady ==
  /\ phase = "pool" /\ Len(workers) = NumAccounts
  /\ phase' = "bind"
  /\ UNCHANGED <<regVars, socksVars, controlVars, diskVars, slot, configs>>

\* Both ports are bound, the handshake is printed, the servers are spawned.
Bind ==
  /\ phase = "bind"
  /\ \/ /\ phase' = "serving"
        /\ UNCHANGED <<regVars, socksVars, controlVars, diskVars, slot, configs>>
     \/ Fault /\ Gone /\ UNCHANGED disk

Provision ==
  \/ LoadSlot \/ RegisterSlot \/ SlotRegistered \/ RegistrationFails
  \/ SaveOpen \/ SaveWrite \/ SaveMode \/ PoolNew \/ PoolPush \/ PoolReady \/ Bind

-----------------------------------------------------------------------------

others == <<controlVars, regVars, daemonVars>>

Next ==
  \/ Start \/ Stop \/ Provision
  \/ \E lost \in SUBSET Slot : PowerLoss(lost)
  \/ \E p \in Registrar : RegStep(p) /\ UNCHANGED <<socksVars, controlVars, daemonVars>>
  \/ \E c \in Client : phase = "serving" /\ (TaskStep(c) \/ PeerStep(c)) /\ UNCHANGED others
  \/ \E k \in Controller :
       phase = "serving" /\ (ControlCall(k) \/ ControlStep(k)) /\ UNCHANGED daemonVars

Spec == Init /\ [][Next]_vars

\* The daemon is started again when it has ended; its tasks are scheduled;
\* the API and the resolvers answer in the end, one way or the other (a host
\* need not).
Fairness ==
  /\ WF_vars(Start) /\ WF_vars(Provision)
  /\ \A p \in Registrar : WF_vars(RegStep(p) /\ UNCHANGED <<socksVars, controlVars, daemonVars>>)
  /\ \A c \in Client : WF_vars(phase = "serving" /\ TaskStep(c) /\ UNCHANGED others)
  /\ \A k \in Controller : WF_vars(phase = "serving" /\ ControlStep(k) /\ UNCHANGED daemonVars)

FairSpec == Spec /\ Fairness

-----------------------------------------------------------------------------
(* Properties.                                                             *)

\* The configs that are in somebody's hands.
Held == {configs[i] : i \in DOMAIN configs} \cup {workers[i].cfg : i \in DOMAIN workers}
          \cup {disk[i].cfg : i \in {j \in Slot : Whole(j)}}

\* However attempts fail, answers get lost and starts are repeated: a config
\* the daemon holds or has saved carries the very key the API has enrolled
\* for its account, and no two workers share an account.
OwnAccount ==
  /\ \A cfg \in Held : enrolled[cfg.id] = cfg.key
  /\ \A i, j \in DOMAIN workers : workers[i].cfg.id = workers[j].cfg.id => i = j

\* "registering any that are missing and saving them" (load_or_register): a
\* daemon with a state directory does not come up on an account that a start
\* after a crash of the process would not find.
PersistedPool ==
  (state_dir /\ phase \in {"pool", "bind"}) =>
    \A i \in Slot : Whole(i) /\ (i \in DOMAIN workers => workers[i].cfg = disk[i].cfg)

\* An account that was saved stays, through every later start and crash of
\* the process; only a loss of power takes it.
SavedForGood ==
  [][\A i \in Slot : Whole(i) => \/ disk'[i] = disk[i]
                                 \/ \E lost \in SUBSET Slot : i \in lost /\ PowerLoss(lost)]_vars

\* The API is not filled with accounts nobody uses: with a state directory,
\* each account beyond those saved and the one being saved was asked for by
\* a caller of the control API or is owed to something that went wrong.
FewOrphans ==
  state_dir =>
    created <= Cardinality({i \in Slot : Whole(i)}) + calls + faults
                 + (IF reg[Boot].id # 0 /\ phase # "mode" THEN 1 ELSE 0)

\* Poisoned DNS, a DoH server that does not answer or lies, lost answers,
\* crashes: the daemon comes up, unless a write was cut short or undone.
ComesUp == phase # "serving" ~> (phase = "serving" \/ Torn)

\* handle_pool and via_netstack reply whatever goes wrong: a request that
\* was read in full is answered, unless the client leaves before, the daemon
\* stops, or the host does not answer the connect, for which the task waits
\* without end.
Answered ==
  \A c \in Client :
    (task[c].at \in {"route", "dial", "pick", "resolve", "connect", "reply"} /\ task[c].here)
      ~> (\/ task[c].at \in {"relay", "refused"}
          \/ ~At(c, "idle") /\ ~task[c].here
          \/ phase # "serving"
          \/ []At(c, "connect"))

\* "until either ends" (relay): a relay whose client has left, be it before
\* the relay began, gives its tunnelled connection up and leaves nothing of it
\* behind.  (Where the reply itself fails, the connection is left: stray.)
Released ==
  \A c \in Client :
    (At(c, "relay") /\ task[c].via = "warp" /\ ~task[c].here /\ c \notin stray)
      ~> (~task[c].link /\ c \notin stray)
=============================================================================
