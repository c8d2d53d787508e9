---------------------------- MODULE DaemonProofs ----------------------------
(***************************************************************************)
(* The accounts of the daemon, for any number of accounts, tasks, control  *)
(* requests and faults: what main.rs, register.rs, config.rs and           *)
(* control.rs hold is theirs, is saved before it is served, and is never   *)
(* lost.  The inductive invariant comes in four parts: what a              *)
(* registration has in hand, how far main is and what the disk says then,  *)
(* the pool and its requests, and who holds which account.                 *)
(***************************************************************************)
EXTENDS Daemon, SocksProofs, FiniteSetTheorems

(* Part 1: registrations.                                                  *)

\* A call of register_auto has an account from the answer of step 1 until it
\* fails or is returned.
RegShape(r) ==
  /\ r.at \in {"enroll", "done"} => r.id \in 1..created /\ r.key \in 1..keys
  /\ r.at \notin {"enroll", "done"} => r.id = 0

RegInv ==
  /\ RegTypeOK /\ keys <= created
  /\ \A p \in Registrar : RegShape(reg[p])
  /\ \A p \in Registrar : reg[p].at = "done" => enrolled[reg[p].id] = reg[p].key
  /\ \A p, q \in Registrar : (reg[p].id # 0 /\ reg[p].id = reg[q].id) => p = q

(* Part 2: how far main is.                                                *)

DiskInv ==
  /\ state_dir \in BOOLEAN
  /\ disk \in [Slot -> [state : {"absent", "torn", "whole"}, cfg : Config \cup {NoConfig}]]
  /\ \A i \in Slot : Whole(i) => disk[i].cfg \in Config

MainInv ==
  /\ phase \in {"down", "load", "register", "open", "write", "mode", "pool", "bind", "serving"}
  /\ slot \in 1..(NumAccounts + 1)
  /\ configs \in Seq(Config) /\ Len(configs) = slot - 1
  /\ phase \in {"register", "open", "write", "mode"} => slot <= NumAccounts
  /\ phase \in {"pool", "bind", "serving"} => slot = NumAccounts + 1

\* The main task registers in these phases only, and is done in the last three.
BootInv ==
  /\ reg[Boot].at # "idle" => phase \in {"register", "open", "write", "mode"}
  /\ phase \in {"open", "write", "mode"} => state_dir /\ reg[Boot].at = "done"

\* What main is about to write is not there yet, and what it has written is.
SlotInv ==
  /\ (phase = "register" /\ state_dir) \/ phase = "open" => disk[slot].state = "absent"
  /\ phase = "write" => disk[slot].state = "torn"
  /\ phase = "mode" => disk[slot] = File("whole", NewConfig(Boot))
  /\ state_dir => \A i \in DOMAIN configs : disk[i] = File("whole", configs[i])

(* Part 3: the pool.                                                       *)

\* Pool::new takes the configs one by one, before anybody can ask for another.
PoolShape ==
  /\ phase \notin {"pool", "bind", "serving"} => workers = <<>> /\ next_id = 1
  /\ phase = "pool" => next_id = Len(workers) + 1
  /\ phase \in {"pool", "bind"} =>
       \A i \in DOMAIN workers : workers[i] = [id |-> i, cfg |-> configs[i]]
  /\ phase \in {"bind", "serving"} => workers # <<>>

\* An id that add_account has taken is not in the pool before it is pushed.
IdInv ==
  /\ \A i \in DOMAIN workers : workers[i].id < next_id
  /\ \A i, j \in DOMAIN workers : workers[i].id = workers[j].id => i = j
  /\ \A k \in Controller :
       ctl[k].at = "add" => phase = "serving" /\ ctl[k].w < next_id /\ ctl[k].w \notin Ids
  /\ \A j, k \in Controller :
       (ctl[j].at = "add" /\ ctl[k].at = "add" /\ ctl[j].w = ctl[k].w) => j = k

(* Part 4: who holds which account.                                        *)

\* Every config held was enrolled with its key.
Own(cfg) == cfg.id <= created /\ enrolled[cfg.id] = cfg.key

HeldInv ==
  /\ \A i \in DOMAIN configs : Own(configs[i])
  /\ \A i \in DOMAIN workers : Own(workers[i].cfg)
  /\ \A i \in Slot : Whole(i) => Own(disk[i].cfg)

\* An account that is being registered is in no other hands: not in the
\* configs, not in the pool, and on disk only in the slot being saved.
ApartInv ==
  \A p \in Registrar :
    reg[p].id # 0 =>
      /\ \A i \in DOMAIN configs : configs[i].id # reg[p].id
      /\ \A i \in DOMAIN workers : workers[i].cfg.id # reg[p].id
      /\ \A i \in Slot : (Whole(i) /\ disk[i].cfg.id = reg[p].id)
                           => p = Boot /\ phase = "mode" /\ i = slot

\* No account twice.
OnceInv ==
  /\ \A i, j \in DOMAIN configs : configs[i].id = configs[j].id => i = j
  /\ \A i, j \in DOMAIN workers : workers[i].cfg.id = workers[j].cfg.id => i = j
  /\ \A i, j \in Slot : (Whole(i) /\ Whole(j) /\ disk[i].cfg.id = disk[j].cfg.id) => i = j

PlaceInv == DiskInv /\ MainInv /\ BootInv /\ SlotInv
ServeInv == ControlTypeOK /\ PoolShape /\ IdInv
AccountInv == HeldInv /\ ApartInv /\ OnceInv
IInv == RegInv /\ SocksInv /\ PlaceInv /\ ServeInv /\ AccountInv

(* On top of it: accounts the API was asked for.                           *)

\* Requests of the control API that may still have an account created for
\* the call they were counted as, the slots that are saved, and the account
\* main is about to save.
Pending == {k \in Controller : reg[k].at \in {"create", "doh"}}
WholeSlots == {i \in Slot : Whole(i)}
Saving == IF reg[Boot].id # 0 /\ phase # "mode" THEN 1 ELSE 0

OrphanInv ==
  /\ \A p \in Registrar \ (Controller \cup {Boot}) : reg[p].at = "idle"
  /\ state_dir =>
       created + Cardinality(Pending) <= Cardinality(WholeSlots) + calls + faults + Saving

-----------------------------------------------------------------------------
(* Part 1.                                                                 *)

RegRecord == [at : {"idle", "create", "enroll", "doh", "done", "failed"},
              via : {"direct", "bypass"}, id : 0..MaxAccounts, key : 0..MaxAccounts]

LEMMA RegInitInv == RegInit => RegInv
BY RegistrationAssumption
DEF RegInit, RegInv, RegTypeOK, RegShape, NoCall, Call, AccountId

\* The calls of the others, and what the provers need of them.
LEMMA RegFacts ==
  ASSUME RegInv, NEW p \in Registrar
  PROVE  /\ reg[p] \in RegRecord
         /\ created \in 0..MaxAccounts /\ keys \in 0..created
         /\ reg[p].at \in {"enroll", "done"} => /\ reg[p].id \in 1..created
                                              /\ reg[p].id \in AccountId
                                              /\ reg[p].key \in AccountId
         /\ reg[p].at \notin {"enroll", "done"} => reg[p].id = 0
BY RegistrationAssumption DEF RegInv, RegTypeOK, RegRecord, RegShape, AccountId

\* A call that has no account (any more) disturbs nobody, even if the API
\* created or enrolled one for it.
LEMMA RegCleared ==
  ASSUME RegInv, NEW p \in Registrar, NEW r \in RegRecord,
         r.at \notin {"enroll", "done"}, r.id = 0,
         reg' = [reg EXCEPT ![p] = r],
         network' = network, keys' = keys, created' \in created..MaxAccounts,
         faults' \in 0..MaxFaults,
         \/ enrolled' = enrolled
         \/ reg[p].at = "enroll" /\ enrolled' = [enrolled EXCEPT ![reg[p].id] = reg[p].key]
  PROVE  RegInv'
<1> USE RegistrationAssumption
<1>1. \A q \in Registrar : reg'[q] = IF q = p THEN r ELSE reg[q]
  BY DEF RegInv, RegTypeOK
<1>2. RegTypeOK'
  <2>1. enrolled' \in [AccountId -> 0..MaxAccounts]
    BY RegFacts DEF RegInv, RegTypeOK, AccountId
  <2>2. reg' \in [Registrar -> RegRecord] BY DEF RegInv, RegTypeOK, RegRecord
  <2> QED BY <2>1, <2>2 DEF RegInv, RegTypeOK, RegRecord
<1>3. (keys <= created)' BY DEF RegInv, RegTypeOK
<1>4. ASSUME NEW q \in Registrar PROVE RegShape(reg[q])'
  BY <1>1 DEF RegInv, RegShape, RegTypeOK
<1>5. ASSUME NEW q \in Registrar, reg'[q].at = "done"
      PROVE  enrolled'[reg'[q].id] = reg'[q].key
  <2>1. q # p /\ reg'[q] = reg[q] BY <1>1, <1>5
  <2>2. reg[q].id \in AccountId /\ enrolled[reg[q].id] = reg[q].key
    BY <1>5, <2>1, RegFacts DEF RegInv
  <2>3. reg[p].at = "enroll" => reg[p].id # reg[q].id
    BY <1>5, <2>1, RegFacts DEF RegInv
  <2> QED BY <2>1, <2>2, <2>3 DEF RegInv, RegTypeOK
<1>6. ASSUME NEW a \in Registrar, NEW b \in Registrar,
             reg'[a].id # 0, reg'[a].id = reg'[b].id
      PROVE  a = b
  BY <1>1, <1>6 DEF RegInv
<1> QED BY <1>2, <1>3, <1>4, <1>5, <1>6 DEF RegInv

LEMMA FailureShape ==
  ASSUME NEW r \in RegRecord
  PROVE  /\ AfterFailure(r) \in RegRecord /\ AfterFailure(r).id = 0
         /\ AfterFailure(r).at \in {"doh", "failed"}
BY RegistrationAssumption DEF AfterFailure, Call, RegRecord

LEMMA RegStepInv ==
  ASSUME RegInv, NEW p \in Registrar, RegStep(p)
  PROVE  RegInv'
<1> USE RegistrationAssumption
<1>0. reg[p] \in RegRecord /\ reg[p].via \in {"direct", "bypass"}
  BY RegFacts DEF RegRecord
<1>f. faults' = faults \/ Fault => faults' \in 0..MaxFaults
  BY DEF RegInv, RegTypeOK, Fault
<1>1. CASE DohBypass(p)
  <2> DEFINE r == IF api_addrs(network.doh) = {} THEN Call("failed", "direct", 0, 0)
                  ELSE Call("create", "bypass", 0, 0)
  <2>1. r \in RegRecord /\ r.id = 0 /\ r.at \in {"failed", "create"} BY DEF Call, RegRecord
  <2>2. /\ reg' = [reg EXCEPT ![p] = r] /\ network' = network /\ keys' = keys
        /\ created' = created /\ enrolled' = enrolled /\ faults' = faults
    BY <1>1 DEF DohBypass
  <2> HIDE DEF r
  <2>3. created' \in created..MaxAccounts BY <2>2 DEF RegInv, RegTypeOK
  <2> QED BY <1>f, <2>1, <2>2, <2>3, RegCleared
<1>2. ASSUME AttemptFails(p), network' = network, keys' = keys,
             created' \in created..MaxAccounts, faults' = faults \/ Fault,
             \/ enrolled' = enrolled
             \/ reg[p].at = "enroll" /\ enrolled' = [enrolled EXCEPT ![reg[p].id] = reg[p].key]
      PROVE  RegInv'
  <2>1. reg' = [reg EXCEPT ![p] = AfterFailure(reg[p])] BY <1>2 DEF AttemptFails
  <2>2. /\ AfterFailure(reg[p]) \in RegRecord /\ AfterFailure(reg[p]).id = 0
        /\ AfterFailure(reg[p]).at \notin {"enroll", "done"}
    BY <1>0, FailureShape
  <2> QED BY <1>2, <1>f, <2>1, <2>2, RegCleared
<1>3. CASE CreateAccount(p)
  <2>1. CASE Fault /\ AttemptFails(p) /\ UNCHANGED keys
    BY <1>2, <1>3, <2>1 DEF CreateAccount, RegInv, RegTypeOK
  <2>2. CASE /\ keys' = keys + 1
             /\ reg' = [reg EXCEPT ![p] = Call("enroll", reg[p].via, created + 1, keys + 1)]
             /\ UNCHANGED faults
    <3> DEFINE r == Call("enroll", reg[p].via, created + 1, keys + 1)
    <3>1. /\ created' = created + 1 /\ created < MaxAccounts /\ network' = network
          /\ enrolled' = enrolled
      BY <1>3 DEF CreateAccount
    <3>2. /\ r \in RegRecord /\ r.at = "enroll" /\ r.id = created + 1 /\ r.key = keys + 1
      BY <1>0, <3>1, RegFacts DEF Call, RegRecord
    <3>3. reg' = [reg EXCEPT ![p] = r] BY <2>2
    <3> HIDE DEF r
    <3>4. \A q \in Registrar : reg'[q] = IF q = p THEN r ELSE reg[q]
      BY <3>3 DEF RegInv, RegTypeOK
    <3>5. RegTypeOK'
      <4>1. reg' \in [Registrar -> RegRecord] BY <3>2, <3>3 DEF RegInv, RegTypeOK, RegRecord
      <4> QED BY <2>2, <3>1, <4>1 DEF RegInv, RegTypeOK, RegRecord
    <3>6. (keys <= created)' BY <2>2, <3>1 DEF RegInv, RegTypeOK
    <3>7. ASSUME NEW q \in Registrar PROVE RegShape(reg[q])'
      BY <2>2, <3>1, <3>2, <3>4, RegFacts DEF RegInv, RegShape, RegTypeOK
    <3>8. ASSUME NEW q \in Registrar, reg'[q].at = "done"
          PROVE  enrolled'[reg'[q].id] = reg'[q].key
      BY <3>1, <3>2, <3>4, <3>8 DEF RegInv
    <3>9. ASSUME NEW a \in Registrar, NEW b \in Registrar,
                 reg'[a].id # 0, reg'[a].id = reg'[b].id
          PROVE  a = b
      <4>1. \A q \in Registrar : reg[q].id # created + 1
        BY RegFacts
      <4> QED BY <3>2, <3>4, <3>9, <4>1 DEF RegInv
    <3> QED BY <3>5, <3>6, <3>7, <3>8, <3>9 DEF RegInv
  <2> QED BY <1>3, <2>1, <2>2 DEF CreateAccount
<1>4. CASE CreateRefused(p)
  BY <1>2, <1>4 DEF CreateRefused, RegInv, RegTypeOK
<1>5. CASE EnrollKey(p)
  <2>1. CASE Fault /\ AttemptFails(p)
    BY <1>2, <1>5, <2>1 DEF EnrollKey, RegInv, RegTypeOK
  <2>2. CASE /\ reg' = [reg EXCEPT ![p] = Call("done", reg[p].via, build_config(reg[p]).id,
                                               build_config(reg[p]).key)]
             /\ UNCHANGED faults
    <3> DEFINE r == Call("done", reg[p].via, reg[p].id, reg[p].key)
    <3>1. /\ reg[p].at = "enroll" /\ reg[p].id \in 1..created /\ reg[p].id \in AccountId
          /\ reg[p].key \in 1..keys /\ reg[p].key \in AccountId
      BY <1>5, RegFacts DEF EnrollKey, RegInv, RegShape
    <3>2. r \in RegRecord /\ r.at = "done" /\ r.id = reg[p].id /\ r.key = reg[p].key
      BY <1>0, <3>1 DEF Call, RegRecord, AccountId
    <3>3. reg' = [reg EXCEPT ![p] = r] BY <2>2 DEF build_config
    <3>3a. /\ enrolled' = [enrolled EXCEPT ![reg[p].id] = reg[p].key] /\ network' = network
           /\ created' = created /\ keys' = keys /\ faults' = faults
      BY <1>5, <2>2 DEF EnrollKey
    <3> HIDE DEF r
    <3>4. \A q \in Registrar : reg'[q] = IF q = p THEN r ELSE reg[q]
      BY <3>3 DEF RegInv, RegTypeOK
    <3>5. RegTypeOK'
      <4>1. reg' \in [Registrar -> RegRecord] BY <3>2, <3>3 DEF RegInv, RegTypeOK, RegRecord
      <4>2. enrolled' \in [AccountId -> 0..MaxAccounts]
        BY <3>1, <3>3a DEF RegInv, RegTypeOK, AccountId
      <4> QED BY <3>3a, <4>1, <4>2 DEF RegInv, RegTypeOK, RegRecord
    <3>6. (keys <= created)' BY <3>3a DEF RegInv
    <3>7. ASSUME NEW q \in Registrar PROVE RegShape(reg[q])'
      BY <3>1, <3>2, <3>3a, <3>4 DEF RegInv, RegShape
    <3>8. ASSUME NEW q \in Registrar, reg'[q].at = "done"
          PROVE  enrolled'[reg'[q].id] = reg'[q].key
      <4>1. CASE q = p BY <3>1, <3>2, <3>3a, <3>4, <4>1 DEF RegInv, RegTypeOK
      <4>2. CASE q # p
        <5>1. reg'[q] = reg[q] BY <3>4, <4>2
        <5>2. reg[q].id \in AccountId /\ enrolled[reg[q].id] = reg[q].key
          BY <3>8, <5>1, RegFacts DEF RegInv
        <5>3. reg[q].id # reg[p].id BY <3>1, <4>2, <5>2 DEF RegInv
        <5> QED BY <3>3a, <5>1, <5>2, <5>3 DEF RegInv, RegTypeOK
      <4> QED BY <4>1, <4>2
    <3>9. ASSUME NEW a \in Registrar, NEW b \in Registrar,
                 reg'[a].id # 0, reg'[a].id = reg'[b].id
          PROVE  a = b
      BY <3>2, <3>4, <3>9 DEF RegInv
    <3> QED BY <3>5, <3>6, <3>7, <3>8, <3>9 DEF RegInv
  <2> QED BY <1>5, <2>1, <2>2 DEF EnrollKey
<1>6. CASE EnrollRefused(p)
  BY <1>2, <1>6 DEF EnrollRefused, RegInv, RegTypeOK
<1> QED BY <1>1, <1>3, <1>4, <1>5, <1>6 DEF RegStep

\* register_auto begins, returns, or is gone with the process.
LEMMA RegMoves ==
  ASSUME RegInv, UNCHANGED <<network, created, keys, enrolled>>,
         faults' = faults \/ Fault \/ faults' \in 0..MaxFaults,
         \/ \E p \in Registrar : register_auto(p) \/ Return(p)
         \/ reg' = [p \in Registrar |-> NoCall]
         \/ reg' = reg
  PROVE  RegInv'
<1> USE RegistrationAssumption
<1>1. /\ faults' \in 0..MaxFaults /\ created' \in created..MaxAccounts
      /\ network' = network /\ keys' = keys /\ enrolled' = enrolled
  BY DEF RegInv, RegTypeOK, Fault
<1>2. ASSUME NEW p \in Registrar, register_auto(p) \/ Return(p) PROVE RegInv'
  <2>1. /\ Call("create", "direct", 0, 0) \in RegRecord /\ NoCall \in RegRecord
        /\ Call("create", "direct", 0, 0).id = 0 /\ NoCall.id = 0
        /\ Call("create", "direct", 0, 0).at = "create" /\ NoCall.at = "idle"
    BY DEF NoCall, Call, RegRecord
  <2>2. CASE register_auto(p)
    <3>1. reg' = [reg EXCEPT ![p] = Call("create", "direct", 0, 0)] BY <2>2 DEF register_auto
    <3> QED BY <1>1, <2>1, <3>1, RegCleared
  <2>3. CASE Return(p)
    <3>1. reg' = [reg EXCEPT ![p] = NoCall] BY <2>3 DEF Return
    <3> QED BY <1>1, <2>1, <3>1, RegCleared
  <2> QED BY <1>2, <2>2, <2>3
<1>3. CASE reg' = [p \in Registrar |-> NoCall]
  BY <1>1, <1>3 DEF RegInv, RegTypeOK, RegShape, NoCall, Call
<1>4. CASE reg' = reg
  BY <1>1, <1>4 DEF RegInv, RegTypeOK, RegShape
<1> QED BY <1>2, <1>3, <1>4

\* What a step of register_auto does to the accounts.
LEMMA RegStepFacts ==
  ASSUME RegInv, NEW p \in Registrar, RegStep(p)
  PROVE  /\ reg[p].at \in {"doh", "create", "enroll"} /\ reg'[p].at # "idle"
         /\ \A q \in Registrar : q # p => reg'[q] = reg[q]
         /\ reg'[p].id \in {0, reg[p].id} \/ reg'[p].id = created + 1
         /\ created \in Nat /\ created' \in {created, created + 1}
         /\ \/ enrolled' = enrolled
            \/ /\ reg[p].at = "enroll" /\ reg[p].id \in AccountId
               /\ enrolled' = [enrolled EXCEPT ![reg[p].id] = reg[p].key]
<1> USE RegistrationAssumption
<1>1. reg[p] \in RegRecord /\ created \in Nat BY RegFacts
<1>2. \A r : reg' = [reg EXCEPT ![p] = r] =>
         reg'[p] = r /\ \A q \in Registrar : q # p => reg'[q] = reg[q]
  BY DEF RegInv, RegTypeOK
<1>3. AttemptFails(p) => /\ reg'[p].id = 0 /\ reg'[p].at # "idle"
                         /\ \A q \in Registrar : q # p => reg'[q] = reg[q]
  BY <1>1, <1>2, FailureShape DEF AttemptFails
<1>3a. \A at, via, id, key : Call(at, via, id, key).at = at /\ Call(at, via, id, key).id = id
  BY DEF Call
<1>4. CASE DohBypass(p)
  <2> DEFINE r == IF api_addrs(network.doh) = {} THEN Call("failed", "direct", 0, 0)
                  ELSE Call("create", "bypass", 0, 0)
  <2>1. r.id = 0 /\ r.at # "idle" BY <1>3a
  <2>2. reg' = [reg EXCEPT ![p] = r] /\ reg[p].at = "doh" /\ UNCHANGED <<created, enrolled>>
    BY <1>4 DEF DohBypass
  <2> HIDE DEF r
  <2> QED BY <1>1, <1>2, <2>1, <2>2
<1>5. CASE CreateAccount(p)
  <2>1. reg[p].at = "create" /\ created' = created + 1 /\ enrolled' = enrolled
    BY <1>5 DEF CreateAccount
  <2>2. CASE reg' = [reg EXCEPT ![p] = Call("enroll", reg[p].via, created + 1, keys + 1)]
    BY <1>1, <1>2, <1>3a, <2>1, <2>2
  <2> QED BY <1>1, <1>3, <1>5, <2>1, <2>2 DEF CreateAccount
<1>6. CASE CreateRefused(p) BY <1>1, <1>3, <1>6 DEF CreateRefused
<1>7. CASE EnrollKey(p)
  <2>1. /\ reg[p].at = "enroll" /\ reg[p].id \in AccountId /\ created' = created
        /\ enrolled' = [enrolled EXCEPT ![reg[p].id] = reg[p].key]
    BY <1>7, RegFacts DEF EnrollKey
  <2>2. CASE reg' = [reg EXCEPT ![p] = Call("done", reg[p].via, build_config(reg[p]).id,
                                            build_config(reg[p]).key)]
    <3>1. build_config(reg[p]).id = reg[p].id BY DEF build_config
    <3> QED BY <1>1, <1>2, <1>3a, <2>1, <2>2, <3>1
  <2> QED BY <1>1, <1>3, <1>7, <2>1, <2>2 DEF EnrollKey
<1>8. CASE EnrollRefused(p) BY <1>1, <1>3, <1>8 DEF EnrollRefused
<1> QED BY <1>4, <1>5, <1>6, <1>7, <1>8 DEF RegStep

-----------------------------------------------------------------------------
(* Steps that end the process, and those of main.                          *)

CtlRecord == [at : {"idle", "rotate", "add", "connect", "reply"}, w : Nat,
              status : {0, 200, 204, 400, 403}]
WorkerRecord == [id : Nat, cfg : Config]

\* No request, no pool.
LEMMA NoRequestType ==
  /\ NoRequest \in CtlRecord /\ <<>> \in Seq(WorkerRecord)
  /\ 0 \in 0..UsizeMax /\ 0 \in 0..MaxCalls
BY ControlAssumption DEF NoRequest, Ctl, CtlRecord

LEMMA InitInv == Init => IInv
<1> SUFFICES ASSUME Init PROVE IInv OBVIOUS
<1> USE DaemonAssumption, ControlAssumption, RegistrationAssumption
<1>1. RegInv BY RegInitInv DEF Init
<1>2. SocksInv BY InvInit DEF Init
<1>3. PlaceInv
  <2>1. DiskInv BY DEF Init, DiskInv, File, Whole
  <2>2. MainInv BY DEF Init, MainInv
  <2>3. BootInv BY DEF Init, RegInit, NoCall, Call, BootInv
  <2>4. SlotInv BY DEF Init, SlotInv
  <2> QED BY <2>1, <2>2, <2>3, <2>4 DEF PlaceInv
<1>4. ServeInv
  <2>1. ControlTypeOK
    <3>1. workers \in Seq(WorkerRecord) BY NoRequestType DEF Init, ControlInit
    <3>2. ctl \in [Controller -> CtlRecord] BY NoRequestType DEF Init, ControlInit
    <3>3. next_id \in Nat /\ pinned \in 0..UsizeMax /\ rotate_secs \in Nat
      BY NoRequestType DEF Init, ControlInit
    <3>4. http2 \in BOOLEAN BY DEF Init, ControlInit
    <3>5. calls \in 0..MaxCalls BY NoRequestType DEF Init, ControlInit
    <3> QED BY <3>1, <3>2, <3>3, <3>4, <3>5 DEF ControlTypeOK, CtlRecord, WorkerRecord
  <2>2. PoolShape BY DEF Init, ControlInit, PoolShape
  <2>3. \A k \in Controller : ctl[k].at = "idle" BY DEF Init, ControlInit, NoRequest, Ctl
  <2>4. IdInv BY <2>3 DEF Init, ControlInit, IdInv
  <2> QED BY <2>1, <2>2, <2>4 DEF ServeInv
<1>5. AccountInv
  BY DEF Init, RegInit, ControlInit, NoCall, Call, AccountInv, HeldInv, ApartInv, OnceInv, Own,
         Whole, File
<1> QED BY <1>1, <1>2, <1>3, <1>4, <1>5 DEF IInv

\* The process ends; of the disk, files may be lost.
LEMMA LostInv ==
  ASSUME IInv, Gone, faults' = faults \/ Fault \/ faults' \in 0..MaxFaults,
         disk' \in [Slot -> [state : {"absent", "torn", "whole"}, cfg : Config \cup {NoConfig}]],
         \A i \in Slot : Whole(i)' => disk'[i] = disk[i]
  PROVE  RegInv' /\ PlaceInv' /\ ServeInv' /\ AccountInv'
<1> USE DaemonAssumption, ControlAssumption
<1>1. RegInv' BY RegMoves DEF IInv, Gone
<1>2. \A p \in Registrar : reg'[p].at = "idle" /\ reg'[p].id = 0
  BY DEF Gone, NoCall, Call
<1>3. PlaceInv'
  <2>1. DiskInv' BY DEF Gone, IInv, PlaceInv, DiskInv, Whole
  <2>2. MainInv' BY DEF Gone, IInv, PlaceInv, MainInv
  <2>3. BootInv' BY <1>2 DEF Gone, BootInv
  <2>4. SlotInv' BY DEF Gone, SlotInv
  <2> QED BY <2>1, <2>2, <2>3, <2>4 DEF PlaceInv
<1>4. ServeInv'
  <2>1. ControlTypeOK'
    <3>1. workers' \in Seq(WorkerRecord) BY NoRequestType DEF Gone
    <3>2. ctl' \in [Controller -> CtlRecord] BY NoRequestType DEF Gone
    <3>3. next_id' \in Nat /\ pinned' \in 0..UsizeMax /\ rotate_secs' \in Nat
      BY NoRequestType DEF Gone
    <3>4. http2' \in BOOLEAN BY DEF Gone
    <3>5. calls' \in 0..MaxCalls BY DEF Gone, IInv, ServeInv, ControlTypeOK
    <3> QED BY <3>1, <3>2, <3>3, <3>4, <3>5 DEF ControlTypeOK, CtlRecord, WorkerRecord
  <2>2. PoolShape' BY DEF Gone, PoolShape
  <2>3. \A k \in Controller : ctl'[k].at = "idle" BY DEF Gone, NoRequest, Ctl
  <2>4. IdInv' BY <2>3 DEF Gone, IdInv
  <2> QED BY <2>1, <2>2, <2>4 DEF ServeInv
<1>5. AccountInv'
  <2>1. HeldInv' BY DEF Gone, IInv, AccountInv, HeldInv, Own, Whole
  <2>2. ApartInv' BY <1>2 DEF ApartInv
  <2>3. OnceInv' BY DEF Gone, IInv, AccountInv, OnceInv, Whole
  <2> QED BY <2>1, <2>2, <2>3 DEF AccountInv
<1> QED BY <1>1, <1>3, <1>4, <1>5

LEMMA GoneInv ==
  ASSUME IInv, Gone, UNCHANGED disk, faults' = faults \/ Fault
  PROVE  RegInv' /\ PlaceInv' /\ ServeInv' /\ AccountInv'
BY LostInv DEF IInv, PlaceInv, DiskInv

\* What a loss of power leaves.
LEMMA PowerLossFacts ==
  ASSUME IInv, NEW lost \in SUBSET Slot, PowerLoss(lost)
  PROVE  /\ Gone /\ IsFiniteSet(lost) /\ Cardinality(lost) \in Nat
         /\ faults' = faults + 1 + Cardinality(lost) /\ faults' \in 0..MaxFaults
         /\ disk' \in [Slot -> [state : {"absent", "torn", "whole"}, cfg : Config \cup {NoConfig}]]
         /\ \A i \in Slot : i \in lost \/ disk'[i] = disk[i]
         /\ \A i \in Slot : Whole(i)' => disk'[i] = disk[i]
<1>1. IsFiniteSet(Slot) BY DaemonAssumption, FS_Interval DEF Slot
<1>2. IsFiniteSet(lost) /\ Cardinality(lost) \in Nat BY <1>1, FS_Subset, FS_CardinalityType
<1>3. faults' = faults + 1 + Cardinality(lost) /\ faults' <= MaxFaults /\ Gone BY DEF PowerLoss
<1>4. faults' \in 0..MaxFaults
  BY <1>2, <1>3, RegistrationAssumption DEF IInv, RegInv, RegTypeOK
<1>5. PICK left \in [lost -> {"absent", "torn"}] :
        disk' = [i \in Slot |-> IF i \in lost THEN File(left[i], NoConfig) ELSE disk[i]]
  BY DEF PowerLoss
<1>6. \A i \in Slot : disk'[i] = IF i \in lost THEN File(left[i], NoConfig) ELSE disk[i]
  BY <1>5
<1>7. \A i \in lost : /\ File(left[i], NoConfig).state \in {"absent", "torn"}
                      /\ File(left[i], NoConfig) \in [state : {"absent", "torn", "whole"},
                                                      cfg : Config \cup {NoConfig}]
  BY DEF File
<1>8. disk' \in [Slot -> [state : {"absent", "torn", "whole"}, cfg : Config \cup {NoConfig}]]
  BY <1>5, <1>7 DEF IInv, PlaceInv, DiskInv
<1>9. \A i \in Slot : Whole(i)' => disk'[i] = disk[i] BY <1>6, <1>7 DEF Whole
<1> QED BY <1>2, <1>3, <1>4, <1>6, <1>8, <1>9

\* The pool is not touched by what main does before it is set up, by
\* registrations and by the SOCKS server.
LEMMA ServeFrame ==
  ASSUME ServeInv, UNCHANGED controlVars,
         \/ phase \notin {"pool", "bind", "serving"} /\ phase' \notin {"pool", "bind", "serving"}
         \/ phase' = phase /\ configs' = configs
         \/ phase = "bind" /\ phase' = "serving"
         \/ phase = "pool" /\ phase' = "bind" /\ configs' = configs /\ workers # <<>>
  PROVE  ServeInv'
<1>0. /\ workers' = workers /\ next_id' = next_id /\ pinned' = pinned /\ http2' = http2
      /\ rotate_secs' = rotate_secs /\ ctl' = ctl /\ calls' = calls
  BY DEF controlVars, settings
<1>1. ControlTypeOK' BY <1>0 DEF ServeInv, ControlTypeOK
<1>2. PoolShape' BY <1>0 DEF ServeInv, PoolShape
<1>3. IdInv' BY <1>0 DEF ServeInv, IdInv, Ids
<1> QED BY <1>1, <1>2, <1>3 DEF ServeInv

LEMMA PlaceFrame ==
  ASSUME PlaceInv, UNCHANGED daemonVars, reg'[Boot] = reg[Boot]
  PROVE  PlaceInv'
<1>1. /\ state_dir' = state_dir /\ disk' = disk /\ phase' = phase /\ slot' = slot
      /\ configs' = configs
  BY DEF daemonVars
<1>2. DiskInv' BY <1>1 DEF PlaceInv, DiskInv, Whole
<1>3. MainInv' BY <1>1 DEF PlaceInv, MainInv
<1>4. BootInv' BY <1>1 DEF PlaceInv, BootInv
<1>5. SlotInv' BY <1>1 DEF PlaceInv, SlotInv, NewConfig
<1> QED BY <1>2, <1>3, <1>4, <1>5 DEF PlaceInv

\* A config is pushed.
LEMMA PushFacts ==
  ASSUME MainInv, slot <= NumAccounts, NEW cfg \in Config, Push(cfg)
  PROVE  /\ MainInv'
         /\ slot \in Nat /\ DOMAIN configs = 1..(slot - 1) /\ DOMAIN configs' = 1..slot
         /\ \A i \in DOMAIN configs : configs'[i] = configs[i]
         /\ configs'[slot] = cfg /\ phase' = "load"
         /\ \A i \in DOMAIN configs' : i = slot \/ i \in DOMAIN configs
<1> USE DaemonAssumption
<1>1. configs \in Seq(Config) /\ Len(configs) = slot - 1 /\ slot \in 1..(NumAccounts + 1)
  BY DEF MainInv
<1>2. configs' = Append(configs, cfg) /\ slot' = slot + 1 /\ phase' = "load" BY DEF Push
<1>3. configs' \in Seq(Config) /\ Len(configs') = Len(configs) + 1 BY <1>1, <1>2
<1>4. MainInv' BY <1>1, <1>2, <1>3 DEF MainInv
<1>5. DOMAIN configs = 1..(slot - 1) /\ DOMAIN configs' = 1..slot BY <1>1, <1>2, <1>3
<1>6. \A i \in DOMAIN configs : configs'[i] = configs[i] BY <1>1, <1>2
<1>7. configs'[slot] = cfg BY <1>1, <1>2
<1> QED BY <1>1, <1>2, <1>4, <1>5, <1>6, <1>7

LEMMA WorkerFacts ==
  ASSUME ServeInv
  PROVE  /\ workers \in Seq(WorkerRecord)
         /\ \A i \in DOMAIN workers : /\ workers[i] \in WorkerRecord
                                      /\ workers[i].id \in Nat /\ workers[i].cfg \in Config
<1>1. workers \in Seq(WorkerRecord) BY DEF ServeInv, ControlTypeOK, WorkerRecord
<1>2. \A i \in DOMAIN workers : workers[i] \in WorkerRecord BY <1>1
<1> QED BY <1>1, <1>2 DEF WorkerRecord

LEMMA DaemonFacts ==
  ASSUME IInv
  PROVE  /\ slot \in Nat /\ slot >= 1 /\ slot <= NumAccounts + 1
         /\ slot <= NumAccounts => slot \in Slot
         /\ DOMAIN configs = 1..(slot - 1) /\ DOMAIN configs \subseteq Slot
         /\ \A i \in DOMAIN configs : configs[i] \in Config
         /\ \A i \in Slot : /\ disk[i] \in [state : {"absent", "torn", "whole"},
                                            cfg : Config \cup {NoConfig}]
                            /\ Whole(i) => disk[i].cfg \in Config
         /\ reg[Boot].at = "done" => NewConfig(Boot) \in Config
         /\ Boot \in Registrar /\ \A k \in Controller : k # Boot /\ k \in Registrar
<1> USE DaemonAssumption, ControlAssumption
<1>1. /\ slot \in 1..(NumAccounts + 1) /\ configs \in Seq(Config) /\ Len(configs) = slot - 1
  BY DEF IInv, PlaceInv, MainInv
<1>2. DOMAIN configs = 1..(slot - 1) /\ \A i \in DOMAIN configs : configs[i] \in Config
  BY <1>1
<1>3. reg[Boot].at = "done" => NewConfig(Boot) \in Config
  BY RegFacts DEF IInv, NewConfig, Config
<1>4. 1..(slot - 1) \subseteq Slot /\ slot <= NumAccounts => slot \in Slot BY <1>1 DEF Slot
<1> QED BY <1>1, <1>2, <1>3, <1>4 DEF IInv, PlaceInv, DiskInv, Slot

\* A config that is loaded was on disk, and in no other slot.
LEMMA LoadSlotInv ==
  ASSUME IInv, Loading, OnDisk(slot), Whole(slot), Push(disk[slot].cfg),
         UNCHANGED <<regVars, socksVars, controlVars, diskVars>>
  PROVE  RegInv' /\ PlaceInv' /\ ServeInv' /\ AccountInv'
<1>0. slot \in Slot /\ phase = "load" /\ state_dir /\ slot <= NumAccounts
  BY DaemonFacts DEF Loading, OnDisk
<1>1. disk[slot].cfg \in Config /\ disk[slot] = File("whole", disk[slot].cfg)
  BY <1>0, DaemonFacts DEF Whole, File
<1>2. /\ reg' = reg /\ created' = created /\ enrolled' = enrolled /\ state_dir' = state_dir
      /\ disk' = disk /\ workers' = workers
      /\ network' = network /\ keys' = keys /\ faults' = faults
  BY DEF regVars, controlVars, diskVars
<1>3. /\ MainInv' /\ DOMAIN configs' = 1..slot /\ configs'[slot] = disk[slot].cfg
      /\ \A i \in DOMAIN configs : configs'[i] = configs[i]
      /\ \A i \in DOMAIN configs' : i = slot \/ i \in DOMAIN configs
      /\ phase' = "load"
  BY <1>0, <1>1, PushFacts DEF IInv, PlaceInv
<1>4. RegInv' BY <1>2, RegMoves DEF IInv
<1>5. \A i \in DOMAIN configs : disk[i] = File("whole", configs[i])
  BY <1>0 DEF IInv, PlaceInv, SlotInv
<1>6. PlaceInv'
  <2>1. DiskInv' BY <1>2 DEF IInv, PlaceInv, DiskInv, Whole
  <2>2. BootInv' BY <1>0, <1>2, <1>3 DEF IInv, PlaceInv, BootInv
  <2>3. SlotInv' BY <1>1, <1>2, <1>3, <1>5 DEF SlotInv
  <2> QED BY <1>3, <2>1, <2>2, <2>3 DEF PlaceInv
<1>7. ServeInv' BY <1>0, <1>3, ServeFrame DEF IInv
<1>8. HeldInv'
  BY <1>0, <1>2, <1>3 DEF IInv, AccountInv, HeldInv, Own, Whole
<1>9. ApartInv'
  BY <1>0, <1>2, <1>3 DEF IInv, AccountInv, ApartInv, Whole
<1>10. OnceInv'
  <2>0. \A i \in DOMAIN configs : i # slot /\ i \in Slot BY DaemonFacts
  <2>1. ASSUME NEW i \in DOMAIN configs PROVE Whole(i) /\ configs[i] = disk[i].cfg
    <3>1. disk[i] = File("whole", configs[i]) BY <1>5
    <3>2. File("whole", configs[i]).state = "whole" /\ File("whole", configs[i]).cfg = configs[i]
      BY DEF File
    <3> QED BY <3>1, <3>2 DEF Whole
  <2>2. \A i \in DOMAIN configs : configs[i].id # disk[slot].cfg.id
    BY <1>0, <2>0, <2>1 DEF IInv, AccountInv, OnceInv
  <2>3. \A i, j \in DOMAIN configs' : configs'[i].id = configs'[j].id => i = j
    BY <1>3, <2>2 DEF IInv, AccountInv, OnceInv
  <2> QED BY <1>2, <2>3 DEF IInv, AccountInv, OnceInv, Whole
<1> QED BY <1>4, <1>6, <1>7, <1>8, <1>9, <1>10 DEF AccountInv

\* The account main has registered becomes a config, once it is saved if
\* there is a state directory.
LEMMA PushNewInv ==
  ASSUME IInv, Push(NewConfig(Boot)), Return(Boot), reg[Boot].at = "done",
         phase \in {"register", "mode"}, phase = "register" => ~state_dir,
         UNCHANGED <<network, created, keys, enrolled, faults, socksVars, controlVars,
                     diskVars>>
  PROVE  RegInv' /\ PlaceInv' /\ ServeInv' /\ AccountInv'
<1> DEFINE cfg == NewConfig(Boot)
<1>0. slot \in Slot /\ slot <= NumAccounts /\ Boot \in Registrar
  BY DaemonFacts DEF IInv, PlaceInv, MainInv
<1>1. cfg \in Config /\ cfg.id = reg[Boot].id /\ cfg.key = reg[Boot].key /\ reg[Boot].id # 0
  BY <1>0, DaemonFacts, RegFacts DEF IInv, NewConfig, AccountId
<1>1a. Own(cfg) BY <1>0, <1>1, RegFacts DEF IInv, RegInv, Own
<1> HIDE DEF cfg
<1>2. /\ created' = created /\ enrolled' = enrolled /\ state_dir' = state_dir
      /\ disk' = disk /\ workers' = workers
  BY DEF controlVars, diskVars
<1>3. /\ MainInv' /\ DOMAIN configs' = 1..slot /\ configs'[slot] = cfg
      /\ \A i \in DOMAIN configs : configs'[i] = configs[i]
      /\ \A i \in DOMAIN configs' : i = slot \/ i \in DOMAIN configs
      /\ phase' = "load"
  BY <1>0, <1>1, PushFacts DEF IInv, PlaceInv, cfg
<1>4. RegInv' BY <1>0, RegMoves DEF IInv
<1>5. /\ reg'[Boot].id = 0 /\ reg'[Boot].at = "idle"
      /\ \A p \in Registrar : p # Boot => reg'[p] = reg[p]
  BY <1>0 DEF IInv, RegInv, RegTypeOK, Return, NoCall, Call
<1>6. PlaceInv'
  <2>1. DiskInv' BY <1>2 DEF IInv, PlaceInv, DiskInv, Whole
  <2>2. BootInv' BY <1>3, <1>5 DEF BootInv
  <2>3. state_dir => /\ disk[slot] = File("whole", cfg)
                     /\ \A i \in DOMAIN configs : disk[i] = File("whole", configs[i])
    BY DEF IInv, PlaceInv, SlotInv, cfg
  <2>4. SlotInv' BY <1>2, <1>3, <2>3 DEF SlotInv
  <2> QED BY <1>3, <2>1, <2>2, <2>4 DEF PlaceInv
<1>7. ServeInv' BY <1>3, ServeFrame DEF IInv
<1>8. HeldInv'
  BY <1>1a, <1>2, <1>3 DEF IInv, AccountInv, HeldInv, Own, Whole
<1>9. ApartInv'
  <2> SUFFICES ASSUME NEW p \in Registrar, reg'[p].id # 0
               PROVE  /\ \A i \in DOMAIN configs' : configs'[i].id # reg'[p].id
                      /\ \A i \in DOMAIN workers' : workers'[i].cfg.id # reg'[p].id
                      /\ \A i \in Slot : (Whole(i)' /\ disk'[i].cfg.id = reg'[p].id)
                                           => p = Boot /\ phase' = "mode" /\ i = slot'
    BY DEF ApartInv
  <2>1. p # Boot /\ reg'[p] = reg[p] BY <1>5
  <2>2. reg[p].id # cfg.id BY <1>0, <1>1, <2>1 DEF IInv, RegInv
  <2> QED BY <1>2, <1>3, <2>1, <2>2 DEF IInv, AccountInv, ApartInv, Whole
<1>10. OnceInv'
  <2>1. \A i \in DOMAIN configs : configs[i].id # cfg.id
    BY <1>0, <1>1 DEF IInv, AccountInv, ApartInv
  <2>2. \A i, j \in DOMAIN configs' : configs'[i].id = configs'[j].id => i = j
    BY <1>3, <2>1 DEF IInv, AccountInv, OnceInv
  <2> QED BY <1>2, <2>2 DEF IInv, AccountInv, OnceInv, Whole
<1> QED BY <1>4, <1>6, <1>7, <1>8, <1>9, <1>10 DEF AccountInv

\* Nobody's account changes hands.
LEMMA AccountFrame ==
  ASSUME AccountInv, UNCHANGED <<created, enrolled, configs, workers, disk, slot>>,
         \A p \in Registrar : reg'[p].id # 0 => reg'[p] = reg[p],
         phase = "mode" => phase' = "mode"
  PROVE  AccountInv'
<1>1. HeldInv' BY DEF AccountInv, HeldInv, Own, Whole
<1>2. ApartInv' BY DEF AccountInv, ApartInv, Whole
<1>3. OnceInv' BY DEF AccountInv, OnceInv, Whole
<1> QED BY <1>1, <1>2, <1>3 DEF AccountInv

LEMMA StartInv ==
  ASSUME IInv, Start
  PROVE  RegInv' /\ PlaceInv' /\ ServeInv' /\ AccountInv'
<1>1. RegInv' BY RegMoves DEF IInv, Start, regVars
<1>2. PlaceInv'
  <2>1. DiskInv' BY DEF Start, IInv, PlaceInv, DiskInv, Whole, diskVars
  <2>2. MainInv' BY DEF Start, IInv, PlaceInv, MainInv, diskVars
  <2>3. BootInv' BY DEF Start, IInv, PlaceInv, BootInv, regVars, diskVars
  <2>4. SlotInv' BY DEF Start, IInv, PlaceInv, SlotInv, diskVars
  <2> QED BY <2>1, <2>2, <2>3, <2>4 DEF PlaceInv
<1>3. ServeInv' BY ServeFrame DEF IInv, Start
<1>4. AccountInv' BY AccountFrame DEF IInv, Start, regVars, controlVars, diskVars
<1> QED BY <1>1, <1>2, <1>3, <1>4

LEMMA RegisterSlotInv ==
  ASSUME IInv, RegisterSlot
  PROVE  RegInv' /\ PlaceInv' /\ ServeInv' /\ AccountInv'
<1>0. Boot \in Registrar /\ slot \in Slot /\ slot <= NumAccounts /\ phase = "load"
  BY DaemonFacts DEF RegisterSlot, Loading
<1>0a. /\ created' = created /\ enrolled' = enrolled /\ state_dir' = state_dir /\ disk' = disk
       /\ slot' = slot /\ configs' = configs /\ workers' = workers /\ phase' = "register"
       /\ network' = network /\ keys' = keys /\ faults' = faults
  BY DEF RegisterSlot, controlVars, diskVars
<1>1. RegInv' BY <1>0, <1>0a, RegMoves DEF IInv, RegisterSlot
<1>2. \A p \in Registrar : reg'[p].id # 0 => reg'[p] = reg[p]
  BY DEF IInv, RegInv, RegTypeOK, RegisterSlot, register_auto, Call
<1>3. PlaceInv'
  <2>1. DiskInv' BY <1>0a DEF IInv, PlaceInv, DiskInv, Whole
  <2>2. MainInv' BY <1>0, <1>0a DEF IInv, PlaceInv, MainInv
  <2>3. BootInv' BY <1>0a DEF BootInv
  <2>4. state_dir => disk[slot].state = "absent" BY DEF RegisterSlot, OnDisk
  <2>5. SlotInv' BY <1>0a, <2>4 DEF IInv, PlaceInv, SlotInv
  <2> QED BY <2>1, <2>2, <2>3, <2>5 DEF PlaceInv
<1>4. ServeInv' BY <1>0, <1>0a, ServeFrame DEF IInv, RegisterSlot
<1>5. AccountInv' BY <1>0, <1>0a, <1>2, AccountFrame DEF IInv
<1> QED BY <1>1, <1>3, <1>4, <1>5

LEMMA SlotRegisteredInv ==
  ASSUME IInv, SlotRegistered
  PROVE  RegInv' /\ PlaceInv' /\ ServeInv' /\ AccountInv'
<1>0. phase = "register" /\ reg[Boot].at = "done" BY DEF SlotRegistered, Registered
<1>1. CASE ~state_dir /\ Push(NewConfig(Boot)) /\ Return(Boot)
  BY <1>0, <1>1, PushNewInv DEF SlotRegistered
<1>2. CASE state_dir /\ phase' = "open" /\ UNCHANGED <<reg, slot, configs>>
  <2>0. /\ created' = created /\ enrolled' = enrolled /\ state_dir' = state_dir /\ disk' = disk
        /\ slot' = slot /\ configs' = configs /\ workers' = workers /\ phase' = "open"
        /\ network' = network /\ keys' = keys /\ faults' = faults /\ reg' = reg
    BY <1>2 DEF SlotRegistered, controlVars, diskVars
  <2>1. RegInv' BY <2>0, RegMoves DEF IInv
  <2>2. DiskInv' BY <2>0 DEF IInv, PlaceInv, DiskInv, Whole
  <2>3. MainInv' BY <1>0, <2>0 DEF IInv, PlaceInv, MainInv
  <2>4. BootInv' BY <1>0, <1>2, <2>0 DEF BootInv
  <2>5. SlotInv' BY <1>0, <1>2, <2>0 DEF IInv, PlaceInv, SlotInv
  <2>6. ServeInv' BY <1>0, <2>0, ServeFrame DEF IInv, SlotRegistered
  <2>7. AccountInv' BY <1>0, <2>0, AccountFrame DEF IInv
  <2> QED BY <2>1, <2>2, <2>3, <2>4, <2>5, <2>6, <2>7 DEF PlaceInv
<1> QED BY <1>1, <1>2 DEF SlotRegistered

\* The file is created, torn until it is written.
LEMMA SaveOpenInv ==
  ASSUME IInv, phase = "open", disk' = [disk EXCEPT ![slot] = File("torn", NoConfig)],
         phase' = "write",
         UNCHANGED <<regVars, socksVars, controlVars, state_dir, slot, configs>>
  PROVE  RegInv' /\ PlaceInv' /\ ServeInv' /\ AccountInv'
<1>0. slot \in Slot /\ slot <= NumAccounts /\ reg[Boot].at = "done" /\ state_dir
  BY DaemonFacts DEF IInv, PlaceInv, MainInv, BootInv
<1>0a. /\ created' = created /\ enrolled' = enrolled /\ workers' = workers /\ reg' = reg
       /\ network' = network /\ keys' = keys /\ faults' = faults
  BY DEF regVars, controlVars
<1>1. RegInv' BY <1>0a, RegMoves DEF IInv
<1>2. \A i \in Slot : disk'[i] = IF i = slot THEN File("torn", NoConfig) ELSE disk[i]
  BY <1>0 DEF IInv, PlaceInv, DiskInv
<1>2a. File("torn", NoConfig).state = "torn" BY DEF File
<1>2b. \A i \in Slot : disk'[i].state = "whole" => disk'[i] = disk[i]
  BY <1>2, <1>2a
<1>3. PlaceInv'
  <2>1. DiskInv'
    <3>1. File("torn", NoConfig) \in [state : {"absent", "torn", "whole"},
                                      cfg : Config \cup {NoConfig}]
      BY DEF File
    <3> QED BY <1>2, <1>2b, <3>1 DEF IInv, PlaceInv, DiskInv, Whole
  <2>2. MainInv' BY <1>0 DEF IInv, PlaceInv, MainInv
  <2>3. BootInv' BY <1>0, <1>0a DEF BootInv
  <2>4. \A i \in DOMAIN configs : i \in Slot /\ i # slot BY DaemonFacts
  <2>5. SlotInv' BY <1>0, <1>2, <1>2a, <2>4 DEF IInv, PlaceInv, SlotInv
  <2> QED BY <2>1, <2>2, <2>3, <2>5 DEF PlaceInv
<1>4. ServeInv' BY ServeFrame DEF IInv
<1>5. AccountInv'
  <2>1. HeldInv' BY <1>0a, <1>2b DEF IInv, AccountInv, HeldInv, Own, Whole
  <2>2. ApartInv' BY <1>0a, <1>2b DEF IInv, AccountInv, ApartInv, Whole
  <2>3. OnceInv' BY <1>0a, <1>2b DEF IInv, AccountInv, OnceInv, Whole
  <2> QED BY <2>1, <2>2, <2>3 DEF AccountInv
<1> QED BY <1>1, <1>3, <1>4, <1>5

\* The account is on disk, and nowhere else on it.
LEMMA SaveWriteInv ==
  ASSUME IInv, phase = "write", disk' = [disk EXCEPT ![slot] = File("whole", NewConfig(Boot))],
         phase' = "mode",
         UNCHANGED <<regVars, socksVars, controlVars, state_dir, slot, configs>>
  PROVE  RegInv' /\ PlaceInv' /\ ServeInv' /\ AccountInv'
<1> DEFINE cfg == NewConfig(Boot)
<1>0. /\ slot \in Slot /\ slot <= NumAccounts /\ reg[Boot].at = "done" /\ state_dir
      /\ Boot \in Registrar
  BY DaemonFacts DEF IInv, PlaceInv, MainInv, BootInv
<1>0a. /\ created' = created /\ enrolled' = enrolled /\ workers' = workers /\ reg' = reg
       /\ network' = network /\ keys' = keys /\ faults' = faults
  BY DEF regVars, controlVars
<1>0b. cfg \in Config /\ cfg.id = reg[Boot].id /\ cfg.key = reg[Boot].key /\ reg[Boot].id # 0
  BY <1>0, DaemonFacts, RegFacts DEF IInv, NewConfig, AccountId
<1>0c. Own(cfg) BY <1>0, <1>0b, RegFacts DEF IInv, RegInv, Own
<1>1. RegInv' BY <1>0a, RegMoves DEF IInv
<1>2. \A i \in Slot : disk'[i] = IF i = slot THEN File("whole", cfg) ELSE disk[i]
  BY <1>0 DEF IInv, PlaceInv, DiskInv
<1>2a. NewConfig(Boot)' = cfg BY <1>0a DEF NewConfig
<1> HIDE DEF cfg
<1>2b. File("whole", cfg).state = "whole" /\ File("whole", cfg).cfg = cfg BY DEF File
<1>3. PlaceInv'
  <2>1. DiskInv'
    <3>1. File("whole", cfg) \in [state : {"absent", "torn", "whole"},
                                  cfg : Config \cup {NoConfig}]
      BY <1>0b DEF File
    <3> QED BY <1>0b, <1>2, <1>2b, <3>1 DEF IInv, PlaceInv, DiskInv, Whole
  <2>2. MainInv' BY <1>0 DEF IInv, PlaceInv, MainInv
  <2>3. BootInv' BY <1>0, <1>0a DEF BootInv
  <2>4. \A i \in DOMAIN configs : i \in Slot /\ i # slot BY DaemonFacts
  <2>5. SlotInv' BY <1>0, <1>2, <1>2a, <2>4 DEF IInv, PlaceInv, SlotInv
  <2> QED BY <2>1, <2>2, <2>3, <2>5 DEF PlaceInv
<1>4. ServeInv' BY ServeFrame DEF IInv
<1>5. AccountInv'
  <2>1. HeldInv' BY <1>0a, <1>0c, <1>2, <1>2b DEF IInv, AccountInv, HeldInv, Own, Whole
  <2>2. ApartInv'
    <3>1. ASSUME NEW p \in Registrar, reg[p].id # 0, NEW i \in Slot,
                 disk'[i].state = "whole", disk'[i].cfg.id = reg[p].id
          PROVE  p = Boot /\ i = slot
      <4>1. CASE i = slot BY <1>0, <1>0b, <1>2, <1>2b, <3>1, <4>1 DEF IInv, RegInv
      <4>2. CASE i # slot
        BY <1>2, <3>1, <4>2 DEF IInv, AccountInv, ApartInv, Whole
      <4> QED BY <4>1, <4>2
    <3> QED BY <1>0a, <3>1 DEF IInv, AccountInv, ApartInv, Whole
  <2>3. OnceInv'
    <3>1. \A i \in Slot : Whole(i) => disk[i].cfg.id # cfg.id
      BY <1>0, <1>0b DEF IInv, AccountInv, ApartInv
    <3>2. ASSUME NEW i \in Slot, NEW j \in Slot, disk'[i].state = "whole",
                 disk'[j].state = "whole", disk'[i].cfg.id = disk'[j].cfg.id
          PROVE  i = j
      BY <1>2, <1>2b, <3>1, <3>2 DEF IInv, AccountInv, OnceInv, Whole
    <3> QED BY <1>0a, <3>2 DEF IInv, AccountInv, OnceInv, Whole
  <2> QED BY <2>1, <2>2, <2>3 DEF AccountInv
<1> QED BY <1>1, <1>3, <1>4, <1>5

\* Pool::new and the binding leave accounts and disk as they are.
LEMMA SetUpFrame ==
  ASSUME IInv, UNCHANGED <<regVars, diskVars, slot, configs>>,
         \/ phase = "load" /\ slot > NumAccounts /\ phase' = "pool"
         \/ phase = "pool" /\ phase' \in {"pool", "bind"}
         \/ phase = "bind" /\ phase' = "serving"
  PROVE  RegInv' /\ PlaceInv'
<1>0. /\ reg' = reg /\ created' = created /\ enrolled' = enrolled /\ network' = network
      /\ keys' = keys /\ faults' = faults /\ state_dir' = state_dir /\ disk' = disk
  BY DEF regVars, diskVars
<1>1. RegInv' BY <1>0, RegMoves DEF IInv
<1>2. DiskInv' BY <1>0 DEF IInv, PlaceInv, DiskInv, Whole
<1>3. MainInv' BY DaemonAssumption DEF IInv, PlaceInv, MainInv
<1>4. BootInv' BY <1>0 DEF IInv, PlaceInv, BootInv
<1>5. SlotInv' BY <1>0 DEF IInv, PlaceInv, SlotInv
<1> QED BY <1>1, <1>2, <1>3, <1>4, <1>5 DEF PlaceInv

LEMMA PoolNewInv ==
  ASSUME IInv, PoolNew
  PROVE  RegInv' /\ PlaceInv' /\ ServeInv' /\ AccountInv'
<1>0. /\ phase = "load" /\ slot > NumAccounts /\ phase' = "pool" /\ configs' = configs
      /\ slot' = slot /\ workers' = workers /\ next_id' = next_id /\ ctl' = ctl
      /\ pinned' = pinned /\ rotate_secs' = rotate_secs /\ http2' = Http2 /\ calls' = calls
  BY DEF PoolNew
<1>1. /\ reg' = reg /\ created' = created /\ enrolled' = enrolled /\ disk' = disk
      /\ UNCHANGED <<regVars, diskVars>>
  BY DEF PoolNew, regVars, diskVars
<1>2. RegInv' /\ PlaceInv' BY <1>0, <1>1, SetUpFrame
<1>3. ServeInv'
  <2>1. http2' \in BOOLEAN BY <1>0, DaemonAssumption
  <2>2. ControlTypeOK' BY <1>0, <2>1 DEF IInv, ServeInv, ControlTypeOK
  <2>3. workers = <<>> /\ next_id = 1 BY <1>0 DEF IInv, ServeInv, PoolShape
  <2>4. PoolShape' BY <1>0, <2>3 DEF PoolShape
  <2>5. \A k \in Controller : ctl[k].at # "add" BY <1>0 DEF IInv, ServeInv, IdInv
  <2>6. IdInv' BY <1>0, <2>3, <2>5 DEF IdInv
  <2> QED BY <2>2, <2>4, <2>6 DEF ServeInv
<1>4. AccountInv' BY <1>0, <1>1, AccountFrame DEF IInv
<1> QED BY <1>2, <1>3, <1>4

\* The next worker has the next id and the next config.
LEMMA PoolPushInv ==
  ASSUME IInv, PoolPush
  PROVE  RegInv' /\ PlaceInv' /\ ServeInv' /\ AccountInv'
<1> DEFINE n == Len(workers) + 1
           w == [id |-> n, cfg |-> configs[n]]
<1>0. /\ phase = "pool" /\ phase' = phase /\ configs' = configs /\ slot' = slot
      /\ disk' = disk /\ reg' = reg /\ created' = created /\ enrolled' = enrolled
      /\ ctl' = ctl /\ calls' = calls /\ pinned' = pinned /\ http2' = http2
      /\ rotate_secs' = rotate_secs /\ UNCHANGED <<regVars, diskVars>>
  BY DEF PoolPush, regVars, settings, daemonVars, diskVars
<1>1. RegInv' /\ PlaceInv' BY <1>0, SetUpFrame
<1>2. /\ workers \in Seq(WorkerRecord) /\ Len(workers) \in Nat /\ next_id = n
      /\ \A i \in DOMAIN workers : workers[i] = [id |-> i, cfg |-> configs[i]]
  BY <1>0, WorkerFacts DEF IInv, ServeInv, PoolShape
<1>3. /\ DOMAIN configs = Slot /\ \A i \in Slot : configs[i] \in Config
  BY <1>0, DaemonAssumption, DaemonFacts DEF IInv, PlaceInv, MainInv, Slot
<1>4. n \in Slot /\ \A i \in DOMAIN workers : i \in Slot
  BY <1>2, DaemonAssumption DEF PoolPush, Slot
<1>5. w \in WorkerRecord /\ w.id = n /\ w.cfg = configs[n]
  BY <1>2, <1>3, <1>4 DEF WorkerRecord
<1>6. workers' = Append(workers, w) /\ next_id' = n + 1 BY <1>2 DEF PoolPush
<1> HIDE DEF w
<1>7. /\ workers' \in Seq(WorkerRecord) /\ Len(workers') = n /\ DOMAIN workers' = 1..n
      /\ DOMAIN workers = 1..(n - 1) /\ workers'[n] = w
      /\ \A i \in DOMAIN workers : workers'[i] = workers[i]
  BY <1>2, <1>5, <1>6
<1>8. \A i \in DOMAIN workers' : i \in Slot /\ workers'[i] = [id |-> i, cfg |-> configs[i]]
  <2> SUFFICES ASSUME NEW i \in 1..n
               PROVE  i \in Slot /\ workers'[i] = [id |-> i, cfg |-> configs[i]]
    BY <1>7
  <2>1. CASE i = n BY <1>4, <1>7, <2>1 DEF w
  <2>2. CASE i # n
    <3>1. i \in DOMAIN workers BY <1>2, <1>7, <2>2
    <3> QED BY <1>2, <1>4, <1>7, <3>1
  <2> QED BY <2>1, <2>2
<1>9. \A i \in DOMAIN workers' : workers'[i].id = i /\ workers'[i].cfg = configs[i]
  BY <1>8
<1>10. n \in Nat /\ \A i \in DOMAIN workers' : i < n + 1 BY <1>2, <1>7
<1> HIDE DEF n
<1>11. ServeInv'
  <2>1. ControlTypeOK'
    BY <1>0, <1>6, <1>7, <1>10 DEF IInv, ServeInv, ControlTypeOK, WorkerRecord
  <2>2. PoolShape' BY <1>0, <1>6, <1>7, <1>8 DEF PoolShape
  <2>3. \A k \in Controller : ctl[k].at # "add" BY <1>0 DEF IInv, ServeInv, IdInv
  <2>4. IdInv' BY <1>0, <1>6, <1>9, <1>10, <2>3 DEF IdInv
  <2> QED BY <2>1, <2>2, <2>4 DEF ServeInv
<1>12. HeldInv' BY <1>0, <1>3, <1>8, <1>9 DEF IInv, AccountInv, HeldInv, Own, Whole
<1>13. ApartInv' BY <1>0, <1>3, <1>8, <1>9 DEF IInv, AccountInv, ApartInv, Whole
<1>14. OnceInv' BY <1>0, <1>3, <1>8, <1>9 DEF IInv, AccountInv, OnceInv, Whole
<1> QED BY <1>1, <1>11, <1>12, <1>13, <1>14 DEF AccountInv

\* The pool is there, or the ports are.
LEMMA BoundInv ==
  ASSUME IInv, \/ phase = "bind" /\ phase' = "serving"
               \/ phase = "pool" /\ phase' = "bind" /\ Len(workers) = NumAccounts,
         UNCHANGED <<regVars, socksVars, controlVars, diskVars, slot, configs>>
  PROVE  RegInv' /\ PlaceInv' /\ ServeInv' /\ AccountInv'
<1>0. /\ created' = created /\ enrolled' = enrolled /\ workers' = workers /\ reg' = reg
      /\ disk' = disk
  BY DEF regVars, controlVars, diskVars
<1>1. RegInv' /\ PlaceInv' BY SetUpFrame
<1>2. phase = "pool" => workers # <<>>
  BY DaemonAssumption
<1>3. ServeInv' BY <1>2, ServeFrame DEF IInv
<1>4. AccountInv' BY <1>0, AccountFrame DEF IInv
<1> QED BY <1>1, <1>3, <1>4

LEMMA ProvisionInv ==
  ASSUME IInv, Provision
  PROVE  RegInv' /\ PlaceInv' /\ ServeInv' /\ AccountInv'
<1>1. CASE LoadSlot
  BY <1>1, LoadSlotInv, GoneInv DEF LoadSlot
<1>2. CASE RegisterSlot BY <1>2, RegisterSlotInv
<1>3. CASE SlotRegistered BY <1>3, SlotRegisteredInv
<1>4. CASE RegistrationFails BY <1>4, GoneInv DEF RegistrationFails
<1>5. CASE SaveOpen BY <1>5, SaveOpenInv, GoneInv DEF SaveOpen
<1>6. CASE SaveWrite BY <1>6, SaveWriteInv, GoneInv DEF SaveWrite
<1>7. CASE SaveMode
  <2>1. CASE Fault /\ Gone /\ UNCHANGED disk BY <2>1, GoneInv
  <2>2. CASE Push(NewConfig(Boot)) /\ Return(Boot)
    BY <1>7, <2>1, <2>2, PushNewInv DEF SaveMode, IInv, PlaceInv, BootInv
  <2> QED BY <1>7, <2>1, <2>2 DEF SaveMode
<1>8. CASE PoolNew BY <1>8, PoolNewInv
<1>9. CASE PoolPush BY <1>9, PoolPushInv
<1>10. CASE PoolReady BY <1>10, BoundInv DEF PoolReady
<1>11. CASE Bind BY <1>11, BoundInv, GoneInv DEF Bind
<1> QED BY <1>1, <1>2, <1>3, <1>4, <1>5, <1>6, <1>7, <1>8, <1>9, <1>10, <1>11 DEF Provision

-----------------------------------------------------------------------------
(* Registrations in the background.                                        *)

\* An answer of the API reaches the account it was asked for and no other.
LEMMA RegistrarInv ==
  ASSUME IInv, NEW p \in Registrar, RegStep(p),
         UNCHANGED <<socksVars, controlVars, daemonVars>>
  PROVE  RegInv' /\ PlaceInv' /\ ServeInv' /\ AccountInv'
<1> USE DaemonAssumption
<1>0. /\ disk' = disk /\ phase' = phase /\ slot' = slot /\ configs' = configs
      /\ workers' = workers /\ state_dir' = state_dir
  BY DEF daemonVars, controlVars
<1>1. RegInv' BY RegStepInv DEF IInv
<1>2. /\ reg[p].at \in {"doh", "create", "enroll"} /\ reg'[p].at # "idle"
      /\ \A q \in Registrar : q # p => reg'[q] = reg[q]
      /\ reg'[p].id \in {0, reg[p].id} \/ reg'[p].id = created + 1
      /\ created \in Nat /\ created' \in {created, created + 1}
      /\ \/ enrolled' = enrolled
         \/ /\ reg[p].at = "enroll" /\ reg[p].id \in AccountId
            /\ enrolled' = [enrolled EXCEPT ![reg[p].id] = reg[p].key]
  BY RegStepFacts DEF IInv
<1>3. PlaceInv'
  <2>1. CASE p # Boot BY <1>2, <2>1, PlaceFrame DEF IInv
  <2>2. CASE p = Boot
    <3>1. phase = "register" BY <1>2, <2>2 DEF IInv, PlaceInv, BootInv
    <3>2. DiskInv' BY <1>0 DEF IInv, PlaceInv, DiskInv, Whole
    <3>3. MainInv' BY <1>0 DEF IInv, PlaceInv, MainInv
    <3>4. BootInv' BY <1>0, <3>1 DEF BootInv
    <3>5. SlotInv' BY <1>0, <3>1 DEF IInv, PlaceInv, SlotInv
    <3> QED BY <3>2, <3>3, <3>4, <3>5 DEF PlaceInv
  <2> QED BY <2>1, <2>2
<1>4. ServeInv' BY <1>0, ServeFrame DEF IInv
<1>5. reg[p].at = "enroll" =>
        /\ reg[p].id # 0
        /\ \A i \in DOMAIN configs : configs[i].id # reg[p].id
        /\ \A i \in DOMAIN workers : workers[i].cfg.id # reg[p].id
        /\ \A i \in Slot : Whole(i) => disk[i].cfg.id # reg[p].id
  BY RegFacts DEF IInv, PlaceInv, BootInv, AccountInv, ApartInv, AccountId
<1>6. ASSUME NEW cfg \in Config, Own(cfg), reg[p].at = "enroll" => cfg.id # reg[p].id
      PROVE  /\ cfg.id <= created' /\ enrolled'[cfg.id] = cfg.key
             /\ cfg.id # created + 1
  <2>1. enrolled \in [AccountId -> 0..MaxAccounts] BY DEF IInv, RegInv, RegTypeOK
  <2>2. cfg.id \in AccountId /\ cfg.id \in Nat BY DEF Config, AccountId
  <2>3. enrolled'[cfg.id] = enrolled[cfg.id] BY <1>2, <1>6, <2>1, <2>2
  <2> QED BY <1>2, <1>6, <2>2, <2>3 DEF Own
<1>7. /\ \A i \in DOMAIN configs : configs[i] \in Config
      /\ \A i \in DOMAIN workers : workers[i].cfg \in Config
      /\ \A i \in Slot : Whole(i) => disk[i].cfg \in Config
  BY DaemonFacts, WorkerFacts DEF IInv
<1>8. HeldInv' BY <1>0, <1>5, <1>6, <1>7 DEF IInv, AccountInv, HeldInv, Own, Whole
<1>9. /\ \A i \in DOMAIN configs : configs[i].id # created + 1
      /\ \A i \in DOMAIN workers : workers[i].cfg.id # created + 1
      /\ \A i \in Slot : Whole(i) => disk[i].cfg.id # created + 1
  BY <1>5, <1>6, <1>7 DEF IInv, AccountInv, HeldInv
<1>10. ApartInv'
  <2> SUFFICES ASSUME NEW q \in Registrar, reg'[q].id # 0
               PROVE  /\ \A i \in DOMAIN configs : configs[i].id # reg'[q].id
                      /\ \A i \in DOMAIN workers : workers[i].cfg.id # reg'[q].id
                      /\ \A i \in Slot : (Whole(i) /\ disk[i].cfg.id = reg'[q].id)
                                           => q = Boot /\ phase = "mode" /\ i = slot
    BY <1>0 DEF ApartInv, Whole
  <2>1. CASE reg'[q].id = reg[q].id
    BY <2>1 DEF IInv, AccountInv, ApartInv
  <2>2. CASE reg'[q].id # reg[q].id
    <3>1. reg'[q].id = created + 1 BY <1>2, <2>2
    <3> QED BY <1>9, <3>1
  <2> QED BY <2>1, <2>2
<1>11. OnceInv' BY <1>0 DEF IInv, AccountInv, OnceInv, Whole
<1> QED BY <1>1, <1>3, <1>4, <1>8, <1>10, <1>11 DEF AccountInv

-----------------------------------------------------------------------------
(* Requests of the control API.                                            *)

LEMMA CtlType ==
  \A at \in {"idle", "rotate", "add", "connect", "reply"}, w \in Nat,
     status \in {0, 200, 204, 400, 403} :
       /\ Ctl(at, w, status) \in CtlRecord
       /\ Ctl(at, w, status).at = at /\ Ctl(at, w, status).w = w
BY DEF Ctl, CtlRecord

LEMMA CtlSet ==
  ASSUME ServeInv, NEW k \in Controller, NEW c \in CtlRecord, ctl' = [ctl EXCEPT ![k] = c]
  PROVE  /\ ctl' \in [Controller -> CtlRecord]
         /\ \A j \in Controller : ctl'[j] = IF j = k THEN c ELSE ctl[j]
BY DEF ServeInv, ControlTypeOK, CtlRecord

\* A request that takes no worker in or out.
LEMMA ServeQuiet ==
  ASSUME ServeInv, NEW k \in Controller, NEW c \in CtlRecord, c.at # "add",
         ctl' = [ctl EXCEPT ![k] = c],
         UNCHANGED <<workers, next_id, phase, configs>>,
         pinned' \in 0..UsizeMax, http2' \in BOOLEAN, rotate_secs' \in Nat,
         calls' \in 0..MaxCalls
  PROVE  ServeInv'
<1>1. /\ ctl' \in [Controller -> CtlRecord]
      /\ \A j \in Controller : ctl'[j] = IF j = k THEN c ELSE ctl[j]
  BY CtlSet
<1>2. ControlTypeOK'
  <2>1. next_id' \in Nat BY DEF ServeInv, ControlTypeOK
  <2> QED BY <1>1, <2>1, WorkerFacts DEF ControlTypeOK, CtlRecord, WorkerRecord
<1>3. PoolShape' BY DEF ServeInv, PoolShape
<1>4. IdInv' BY <1>1 DEF ServeInv, IdInv, Ids
<1> QED BY <1>2, <1>3, <1>4 DEF ServeInv

LEMMA UsizeRange ==
  ASSUME NEW n \in Int
  PROVE  AsUsize(n) \in 0..UsizeMax
BY ControlAssumption DEF AsUsize

\* What a request carries, once its parameters are parsed.
LEMMA Params ==
  ASSUME NEW r \in Requests
  PROVE  /\ SlotOf(r) \in 0..UsizeMax /\ SlotOf(r) \in Nat
         /\ bool_param(r.on, TRUE) \in BOOLEAN /\ bool_param(r.on, FALSE) \in BOOLEAN
         /\ LET secs == int_param(r.slot, 0)
            IN Clamped(IF secs < 0 THEN 0 ELSE secs) \in Nat
<1> USE ControlAssumption
<1>1. int_param(r.slot, 0) \in Int BY DEF int_param
<1>2. SlotOf(r) \in 0..UsizeMax BY <1>1, UsizeRange DEF SlotOf
<1>3. bool_param(r.on, TRUE) \in BOOLEAN /\ bool_param(r.on, FALSE) \in BOOLEAN
  BY DEF bool_param
<1>4. ASSUME NEW secs \in Int PROVE Clamped(IF secs < 0 THEN 0 ELSE secs) \in Nat
  BY DEF Clamped
<1>5. Clamped(IF int_param(r.slot, 0) < 0 THEN 0 ELSE int_param(r.slot, 0)) \in Nat
  BY <1>1, <1>4
<1>6. SlotOf(r) \in Nat BY <1>2
<1> QED BY <1>2, <1>3, <1>5, <1>6

LEMMA ControlFacts ==
  ASSUME ServeInv
  PROVE  /\ pinned \in 0..UsizeMax /\ pinned \in Nat /\ http2 \in BOOLEAN
         /\ rotate_secs \in Nat /\ next_id \in Nat /\ calls \in 0..MaxCalls
         /\ calls < MaxCalls => calls + 1 \in 0..MaxCalls
         /\ \A k \in Controller : ctl[k] \in CtlRecord /\ ctl[k].w \in Nat
BY ControlAssumption DEF ServeInv, ControlTypeOK, CtlRecord

\* Requests that leave the workers alone: refused ones, settings, the first
\* halves and the last words of the others.
LEMMA QuietRequests ==
  ASSUME IInv, NEW k \in Controller, UNCHANGED daemonVars,
         \/ \E r \in Requests : Reject(k, r) \/ Set(k, r)
         \/ AddConnected(k) \/ Respond(k)
  PROVE  RegInv' /\ PlaceInv' /\ ServeInv' /\ AccountInv'
<1>0. /\ disk' = disk /\ phase' = phase /\ slot' = slot /\ configs' = configs
  BY DEF daemonVars
<1>1. ServeInv /\ k \in Registrar BY ControlAssumption DEF IInv
<1>2. /\ UNCHANGED regVars /\ workers' = workers /\ next_id' = next_id
  BY DEF Reject, Set, AddConnected, Respond
<1>3. /\ reg' = reg /\ created' = created /\ enrolled' = enrolled
      /\ network' = network /\ keys' = keys /\ faults' = faults
  BY <1>2 DEF regVars
<1>4. RegInv' BY <1>3, RegMoves DEF IInv
<1>5. PlaceInv' BY <1>3, PlaceFrame DEF IInv
<1>6. AccountInv' BY <1>0, <1>2, <1>3, AccountFrame DEF IInv
<1>7. ServeInv'
  <2>1. ASSUME NEW r \in Requests, Reject(k, r) PROVE ServeInv'
    <3>1. Rejection(r) \in {204, 400, 403} BY <2>1 DEF Reject, Rejection
    <3>2. ctl' = [ctl EXCEPT ![k] = Ctl("reply", 0, Rejection(r))]
      BY <2>1 DEF Reject, Answers
    <3>3. calls' \in 0..MaxCalls BY <1>1, <2>1, ControlFacts DEF Reject, Asks
    <3>4. pinned' = pinned /\ http2' = http2 /\ rotate_secs' = rotate_secs
      BY <2>1 DEF Reject, settings
    <3>5. /\ Ctl("reply", 0, Rejection(r)) \in CtlRecord
          /\ Ctl("reply", 0, Rejection(r)).at = "reply"
      BY <3>1, CtlType
    <3> QED BY <1>0, <1>1, <1>2, <3>2, <3>3, <3>4, <3>5, ControlFacts, ServeQuiet
  <2>2. ASSUME NEW r \in Requests, Set(k, r) PROVE ServeInv'
    <3>1. ctl' = [ctl EXCEPT ![k] = Ctl("reply", 0, 200)] BY <2>2 DEF Set, Answers
    <3>2. calls' \in 0..MaxCalls BY <1>1, <2>2, ControlFacts DEF Set, Asks
    <3>3. pinned' \in 0..UsizeMax BY <1>1, <2>2, Params, ControlFacts DEF Set
    <3>4. http2' \in BOOLEAN BY <1>1, <2>2, Params, ControlFacts DEF Set
    <3>5. rotate_secs' \in Nat BY <1>1, <2>2, Params, ControlFacts DEF Set
    <3>6. Ctl("reply", 0, 200) \in CtlRecord /\ Ctl("reply", 0, 200).at = "reply" BY CtlType
    <3> QED BY <1>0, <1>1, <1>2, <3>1, <3>2, <3>3, <3>4, <3>5, <3>6, ServeQuiet
  <2>3. ASSUME NEW c \in CtlRecord, c.at # "add", ctl' = [ctl EXCEPT ![k] = c],
               UNCHANGED <<settings, calls>>
        PROVE  ServeInv'
    <3>1. pinned' = pinned /\ http2' = http2 /\ rotate_secs' = rotate_secs /\ calls' = calls
      BY <2>3 DEF settings
    <3> QED BY <1>0, <1>1, <1>2, <2>3, <3>1, ControlFacts, ServeQuiet
  <2>4. CASE AddConnected(k)
    <3>1. /\ Ctl("reply", 0, 200) \in CtlRecord /\ Ctl("reply", 0, 200).at = "reply"
          /\ Ctl("reply", 0, 400) \in CtlRecord /\ Ctl("reply", 0, 400).at = "reply"
      BY CtlType
    <3> QED BY <2>3, <2>4, <3>1 DEF AddConnected, Answers
  <2>5. CASE Respond(k)
    <3>1. NoRequest \in CtlRecord /\ NoRequest.at = "idle" BY NoRequestType DEF NoRequest, Ctl
    <3> QED BY <2>3, <2>5, <3>1 DEF Respond
  <2> QED BY <2>1, <2>2, <2>4, <2>5
<1> QED BY <1>4, <1>5, <1>6, <1>7

\* register_auto is called on behalf of a request.
LEMMA RotateInv ==
  ASSUME IInv, NEW k \in Controller, NEW r \in Requests, Rotate(k, r), phase = "serving",
         UNCHANGED daemonVars
  PROVE  RegInv' /\ PlaceInv' /\ ServeInv' /\ AccountInv'
<1>0. /\ disk' = disk /\ phase' = phase /\ slot' = slot /\ configs' = configs
  BY DEF daemonVars
<1>1. ServeInv /\ k \in Registrar /\ k # Boot BY DaemonFacts DEF IInv
<1>2. /\ workers' = workers /\ next_id' = next_id /\ created' = created
      /\ enrolled' = enrolled /\ pinned' = pinned /\ http2' = http2
      /\ rotate_secs' = rotate_secs
  BY DEF Rotate, settings
<1>3. RegInv' BY <1>1, RegMoves DEF IInv, Rotate
<1>4. /\ reg'[Boot] = reg[Boot]
      /\ \A p \in Registrar : reg'[p].id # 0 => reg'[p] = reg[p]
  BY <1>1 DEF IInv, RegInv, RegTypeOK, Rotate, register_auto, Call
<1>5. PlaceInv' BY <1>4, PlaceFrame DEF IInv
<1>6. AccountInv' BY <1>0, <1>2, <1>4, AccountFrame DEF IInv
<1>7. Target(SlotOf(r)) \in Nat
  <2>1. workers # <<>> BY <1>1 DEF ServeInv, PoolShape
  <2>2. 1 \in DOMAIN workers BY <1>1, <2>1, WorkerFacts
  <2>3. workers[1].id \in Nat BY <1>1, <2>2, WorkerFacts
  <2> QED BY <1>1, <2>3, Params, ControlFacts DEF Target
<1>8. ServeInv'
  <2> DEFINE c == Ctl("rotate", Target(SlotOf(r)), 0)
  <2>1. c \in CtlRecord /\ c.at = "rotate" BY <1>7, CtlType
  <2>2. ctl' = [ctl EXCEPT ![k] = c] BY DEF Rotate, Waits
  <2>3. calls' \in 0..MaxCalls BY <1>1, ControlFacts DEF Rotate, Asks
  <2> HIDE DEF c
  <2> QED BY <1>0, <1>1, <1>2, <2>1, <2>2, <2>3, ControlFacts, ServeQuiet
<1> QED BY <1>3, <1>5, <1>6, <1>8

LEMMA AddInv ==
  ASSUME IInv, NEW k \in Controller, NEW r \in Requests, Add(k, r), phase = "serving",
         UNCHANGED daemonVars
  PROVE  RegInv' /\ PlaceInv' /\ ServeInv' /\ AccountInv'
<1>0. /\ disk' = disk /\ phase' = phase /\ slot' = slot /\ configs' = configs
  BY DEF daemonVars
<1>1. ServeInv /\ k \in Registrar /\ k # Boot BY DaemonFacts DEF IInv
<1>2. /\ workers' = workers /\ next_id' = next_id + 1 /\ created' = created
      /\ enrolled' = enrolled /\ pinned' = pinned /\ http2' = http2
      /\ rotate_secs' = rotate_secs
  BY DEF Add, settings
<1>3. RegInv' BY <1>1, RegMoves DEF IInv, Add
<1>4. /\ reg'[Boot] = reg[Boot]
      /\ \A p \in Registrar : reg'[p].id # 0 => reg'[p] = reg[p]
  BY <1>1 DEF IInv, RegInv, RegTypeOK, Add, register_auto, Call
<1>5. PlaceInv' BY <1>4, PlaceFrame DEF IInv
<1>6. AccountInv' BY <1>0, <1>2, <1>4, AccountFrame DEF IInv
<1>7. ServeInv'
  <2> DEFINE c == Ctl("add", next_id, 0)
  <2>1. c \in CtlRecord /\ c.at = "add" /\ c.w = next_id BY <1>1, ControlFacts, CtlType
  <2>2. ctl' = [ctl EXCEPT ![k] = c] BY DEF Add, Waits
  <2>3. calls' \in 0..MaxCalls BY <1>1, ControlFacts DEF Add, Asks
  <2> HIDE DEF c
  <2>4. /\ ctl' \in [Controller -> CtlRecord]
        /\ \A j \in Controller : ctl'[j] = IF j = k THEN c ELSE ctl[j]
    BY <1>1, <2>1, <2>2, CtlSet
  <2>5. ControlTypeOK'
    BY <1>1, <1>2, <2>3, <2>4, WorkerFacts, ControlFacts DEF ControlTypeOK, CtlRecord, WorkerRecord
  <2>6. PoolShape' BY <1>0, <1>1, <1>2 DEF ServeInv, PoolShape
  <2>7. IdInv'
    <3>1. next_id \in Nat /\ \A i \in DOMAIN workers : workers[i].id \in Nat
      BY <1>1, WorkerFacts, ControlFacts
    <3>2. \A j \in Controller : ctl[j].w \in Nat BY <1>1, ControlFacts
    <3>3. \A i \in DOMAIN workers : workers[i].id < next_id
      BY <1>1 DEF ServeInv, IdInv
    <3>4. next_id \notin Ids BY <3>1, <3>3 DEF Ids
    <3>5. Ids' = Ids BY <1>2 DEF Ids
    <3>6. \A i \in DOMAIN workers' : workers'[i].id < next_id' BY <1>2, <3>1, <3>3
    <3>7. \A j \in Controller :
            ctl[j].at = "add" => phase = "serving" /\ ctl[j].w < next_id /\ ctl[j].w \notin Ids
      BY <1>1 DEF ServeInv, IdInv
    <3>8. \A j \in Controller :
            ctl'[j].at = "add" =>
              phase' = "serving" /\ ctl'[j].w < next_id' /\ ctl'[j].w \notin Ids'
      BY <1>0, <1>2, <2>1, <2>4, <3>1, <3>2, <3>4, <3>5, <3>7
    <3>9. \A i, j \in Controller :
            (ctl'[i].at = "add" /\ ctl'[j].at = "add" /\ ctl'[i].w = ctl'[j].w) => i = j
      BY <1>1, <2>1, <2>4, <3>1, <3>2, <3>7 DEF ServeInv, IdInv
    <3> QED BY <1>1, <1>2, <3>6, <3>8, <3>9 DEF ServeInv, IdInv
  <2> QED BY <2>5, <2>6, <2>7 DEF ServeInv
<1> QED BY <1>3, <1>5, <1>6, <1>7

\* What register_auto returned goes to one place, and leaves the others alone.
LEMMA ReturnFacts ==
  ASSUME IInv, NEW k \in Controller, Return(k)
  PROVE  /\ k \in Registrar /\ k # Boot /\ reg'[Boot] = reg[Boot] /\ reg'[k].id = 0
         /\ \A p \in Registrar : p # k => reg'[p] = reg[p]
         /\ \A p \in Registrar : reg'[p].id # 0 => p # k /\ reg'[p] = reg[p]
         /\ reg[k].at = "done" =>
              /\ NewConfig(k) \in Config /\ Own(NewConfig(k)) /\ NewConfig(k).id = reg[k].id
              /\ \A p \in Registrar : p # k => reg[p].id # NewConfig(k).id
              /\ \A i \in DOMAIN workers : workers[i].cfg.id # NewConfig(k).id
<1>1. k \in Registrar /\ k # Boot /\ Boot \in Registrar BY DaemonFacts
<1>2. /\ reg'[k].id = 0 /\ \A p \in Registrar : p # k => reg'[p] = reg[p]
  BY <1>1 DEF IInv, RegInv, RegTypeOK, Return, NoCall, Call
<1>3. ASSUME reg[k].at = "done"
      PROVE  /\ NewConfig(k) \in Config /\ Own(NewConfig(k)) /\ NewConfig(k).id = reg[k].id
             /\ \A p \in Registrar : p # k => reg[p].id # NewConfig(k).id
             /\ \A i \in DOMAIN workers : workers[i].cfg.id # NewConfig(k).id
  <2>1. /\ NewConfig(k).id = reg[k].id /\ NewConfig(k).key = reg[k].key
        /\ reg[k].id \in AccountId /\ reg[k].key \in AccountId /\ reg[k].id # 0
        /\ reg[k].id <= created /\ NewConfig(k) \in Config
    BY <1>1, <1>3, RegFacts DEF IInv, NewConfig, Config, AccountId
  <2>2. Own(NewConfig(k)) BY <1>1, <1>3, <2>1 DEF IInv, RegInv, Own
  <2>3. \A p \in Registrar : p # k => reg[p].id # reg[k].id
    BY <1>1, <2>1 DEF IInv, RegInv
  <2>4. \A i \in DOMAIN workers : workers[i].cfg.id # reg[k].id
    BY <1>1, <2>1 DEF IInv, AccountInv, ApartInv
  <2> QED BY <2>1, <2>2, <2>3, <2>4
<1> QED BY <1>1, <1>2, <1>3

\* The worker, if it is still there, has the new account, alone.
LEMMA RotateDoneInv ==
  ASSUME IInv, NEW k \in Controller, RotateDone(k), phase = "serving", UNCHANGED daemonVars
  PROVE  RegInv' /\ PlaceInv' /\ ServeInv' /\ AccountInv'
<1>0. /\ disk' = disk /\ phase' = phase /\ slot' = slot /\ configs' = configs
  BY DEF daemonVars
<1>1. ServeInv BY DEF IInv
<1>2. /\ next_id' = next_id /\ created' = created /\ keys' = keys /\ network' = network
      /\ enrolled' = enrolled /\ pinned' = pinned /\ http2' = http2 /\ faults' = faults
      /\ rotate_secs' = rotate_secs /\ calls' = calls /\ Return(k)
  BY DEF RotateDone, settings
<1>3. RegInv' BY <1>2, ReturnFacts, RegMoves DEF IInv
<1>4. PlaceInv' BY <1>2, ReturnFacts, PlaceFrame DEF IInv
<1>5. CASE Answers(k, 400) /\ UNCHANGED workers
  <2>1. AccountInv' BY <1>0, <1>2, <1>5, ReturnFacts, AccountFrame DEF IInv
  <2>2. Ctl("reply", 0, 400) \in CtlRecord /\ Ctl("reply", 0, 400).at = "reply" BY CtlType
  <2>3. ctl' = [ctl EXCEPT ![k] = Ctl("reply", 0, 400)] BY <1>5 DEF Answers
  <2>4. ServeInv'
    BY <1>0, <1>1, <1>2, <1>5, <2>2, <2>3, ControlFacts, ServeQuiet, ZenonT(40)
  <2> QED BY <1>3, <1>4, <2>1, <2>4
<1>6. CASE /\ Registered(k)
           /\ workers' = [i \in DOMAIN workers |->
                            IF workers[i].id = ctl[k].w
                            THEN [id |-> ctl[k].w, cfg |-> NewConfig(k)] ELSE workers[i]]
           /\ Answers(k, 200)
  <2> DEFINE cfg == NewConfig(k)
  <2>1. /\ cfg \in Config /\ Own(cfg)
        /\ \A p \in Registrar : p # k => reg[p].id # cfg.id
        /\ \A i \in DOMAIN workers : workers[i].cfg.id # cfg.id
    BY <1>2, <1>6, ReturnFacts DEF Registered
  <2> HIDE DEF cfg
  <2>2. workers \in Seq(WorkerRecord) /\ ctl[k].w \in Nat BY <1>1, WorkerFacts, ControlFacts
  <2>3. /\ DOMAIN workers' = DOMAIN workers
        /\ \A i \in DOMAIN workers :
             workers'[i] = IF workers[i].id = ctl[k].w
                           THEN [id |-> ctl[k].w, cfg |-> cfg] ELSE workers[i]
    BY <1>6 DEF cfg
  <2>4. \A i \in DOMAIN workers :
          /\ workers'[i] \in WorkerRecord /\ workers'[i].id = workers[i].id
          /\ workers'[i].cfg = IF workers[i].id = ctl[k].w THEN cfg ELSE workers[i].cfg
    BY <1>1, <2>1, <2>2, <2>3, WorkerFacts DEF WorkerRecord
  <2>5. \A i, j \in DOMAIN workers : workers[i].id = workers[j].id => i = j
    BY <1>1 DEF ServeInv, IdInv
  <2>6. ServeInv'
    <3>1. Ctl("reply", 0, 200) \in CtlRecord /\ Ctl("reply", 0, 200).at = "reply" BY CtlType
    <3>2. ctl' = [ctl EXCEPT ![k] = Ctl("reply", 0, 200)] BY <1>6 DEF Answers
    <3>3. /\ ctl' \in [Controller -> CtlRecord]
          /\ \A j \in Controller : ctl'[j] = IF j = k THEN Ctl("reply", 0, 200) ELSE ctl[j]
      BY <1>1, <3>1, <3>2, CtlSet, ZenonT(40)
    <3>4. workers' \in Seq(WorkerRecord)
      <4>1. workers' \in [1..Len(workers) -> WorkerRecord] BY <1>6, <2>2, <2>3, <2>4
      <4>2. Len(workers) \in Nat BY <2>2
      <4> QED BY <4>1, <4>2
    <3>5. ControlTypeOK'
      BY <1>1, <1>2, <3>3, <3>4, ControlFacts DEF ControlTypeOK, CtlRecord, WorkerRecord
    <3>6. workers' # <<>>
      <4>1. 1 \in DOMAIN workers BY <1>1, <2>2 DEF ServeInv, PoolShape
      <4> QED BY <2>3, <4>1
    <3>7. PoolShape' BY <1>0, <3>6 DEF PoolShape
    <3>8. Ids' = Ids BY <2>3, <2>4 DEF Ids
    <3>9. IdInv'
      <4>1. \A i \in DOMAIN workers' : workers'[i].id < next_id'
        BY <1>1, <1>2, <2>3, <2>4 DEF ServeInv, IdInv
      <4>2. \A i, j \in DOMAIN workers' : workers'[i].id = workers'[j].id => i = j
        BY <2>3, <2>4, <2>5
      <4>3. \A j \in Controller : ctl'[j].at = "add" => ctl'[j] = ctl[j] /\ ctl[j].at = "add"
        BY <3>1, <3>3
      <4> QED BY <1>0, <1>1, <1>2, <3>8, <4>1, <4>2, <4>3 DEF ServeInv, IdInv
    <3> QED BY <3>5, <3>7, <3>9 DEF ServeInv
  <2>7. HeldInv'
    <3>1. \A i \in DOMAIN workers' : Own(workers'[i].cfg)
      BY <2>1, <2>3, <2>4 DEF IInv, AccountInv, HeldInv
    <3> QED BY <1>0, <1>2, <3>1 DEF IInv, AccountInv, HeldInv, Own, Whole
  <2>8. ApartInv'
    <3>1. \A p \in Registrar : reg'[p].id # 0 => p # k /\ reg'[p] = reg[p]
      BY <1>2, ReturnFacts
    <3>2. ASSUME NEW p \in Registrar, reg'[p].id # 0, NEW i \in DOMAIN workers'
          PROVE  workers'[i].cfg.id # reg'[p].id
      BY <2>1, <2>3, <2>4, <3>1, <3>2 DEF IInv, AccountInv, ApartInv
    <3> QED BY <1>0, <3>1, <3>2 DEF IInv, AccountInv, ApartInv, Whole
  <2>9. OnceInv'
    <3>1. ASSUME NEW i \in DOMAIN workers, NEW j \in DOMAIN workers,
                 workers'[i].cfg.id = workers'[j].cfg.id
          PROVE  i = j
      BY <2>1, <2>4, <2>5, <3>1 DEF IInv, AccountInv, OnceInv
    <3> QED BY <1>0, <2>3, <3>1 DEF IInv, AccountInv, OnceInv, Whole
  <2> QED BY <1>3, <1>4, <2>6, <2>7, <2>8, <2>9 DEF AccountInv
<1> QED BY <1>5, <1>6 DEF RotateDone

\* The new worker has an id and an account of its own.
LEMMA AddDoneInv ==
  ASSUME IInv, NEW k \in Controller, AddDone(k), phase = "serving", UNCHANGED daemonVars
  PROVE  RegInv' /\ PlaceInv' /\ ServeInv' /\ AccountInv'
<1>0. /\ disk' = disk /\ phase' = phase /\ slot' = slot /\ configs' = configs
  BY DEF daemonVars
<1>1. ServeInv BY DEF IInv
<1>2. /\ next_id' = next_id /\ created' = created /\ keys' = keys /\ network' = network
      /\ enrolled' = enrolled /\ pinned' = pinned /\ http2' = http2 /\ faults' = faults
      /\ rotate_secs' = rotate_secs /\ calls' = calls /\ Return(k) /\ ctl[k].at = "add"
  BY DEF AddDone, settings
<1>3. RegInv' BY <1>2, ReturnFacts, RegMoves DEF IInv
<1>4. PlaceInv' BY <1>2, ReturnFacts, PlaceFrame DEF IInv
<1>5. CASE Answers(k, 400) /\ UNCHANGED workers
  <2>1. AccountInv' BY <1>0, <1>2, <1>5, ReturnFacts, AccountFrame DEF IInv
  <2>2. Ctl("reply", 0, 400) \in CtlRecord /\ Ctl("reply", 0, 400).at = "reply" BY CtlType
  <2>3. ctl' = [ctl EXCEPT ![k] = Ctl("reply", 0, 400)] BY <1>5 DEF Answers
  <2>4. ServeInv'
    BY <1>0, <1>1, <1>2, <1>5, <2>2, <2>3, ControlFacts, ServeQuiet, ZenonT(40)
  <2> QED BY <1>3, <1>4, <2>1, <2>4
<1>6. CASE /\ Registered(k)
           /\ workers' = Append(workers, [id |-> ctl[k].w, cfg |-> NewConfig(k)])
           /\ Waits(k, "connect", ctl[k].w)
  <2> DEFINE cfg == NewConfig(k)
             w == [id |-> ctl[k].w, cfg |-> cfg]
             n == Len(workers) + 1
  <2>1. /\ cfg \in Config /\ Own(cfg)
        /\ \A p \in Registrar : p # k => reg[p].id # cfg.id
        /\ \A i \in DOMAIN workers : workers[i].cfg.id # cfg.id
    BY <1>2, <1>6, ReturnFacts DEF Registered
  <2> HIDE DEF cfg
  <2>2. workers \in Seq(WorkerRecord) /\ ctl[k].w \in Nat BY <1>1, WorkerFacts, ControlFacts
  <2>3. w \in WorkerRecord /\ w.id = ctl[k].w /\ w.cfg = cfg BY <2>1, <2>2 DEF WorkerRecord
  <2>4. workers' = Append(workers, w) BY <1>6 DEF cfg
  <2> HIDE DEF w
  <2>5. /\ workers' \in Seq(WorkerRecord) /\ DOMAIN workers' = 1..n /\ DOMAIN workers = 1..(n - 1)
        /\ n \in Nat /\ n >= 1 /\ workers'[n] = w
        /\ \A i \in DOMAIN workers : workers'[i] = workers[i]
    BY <2>2, <2>3, <2>4
  <2>6. \A i \in DOMAIN workers' : (i = n /\ workers'[i] = w)
                                    \/ (i \in DOMAIN workers /\ workers'[i] = workers[i])
    BY <2>5
  <2> HIDE DEF n
  <2>7. /\ ctl[k].w < next_id /\ ctl[k].w \notin Ids
        /\ \A i \in DOMAIN workers : workers[i].id # ctl[k].w
    BY <1>1, <1>2 DEF ServeInv, IdInv, Ids
  <2>8. ServeInv'
    <3>1. /\ Ctl("connect", ctl[k].w, 0) \in CtlRecord
          /\ Ctl("connect", ctl[k].w, 0).at = "connect"
      BY <2>2, CtlType
    <3>2. ctl' = [ctl EXCEPT ![k] = Ctl("connect", ctl[k].w, 0)] BY <1>6 DEF Waits
    <3>3. /\ ctl' \in [Controller -> CtlRecord]
          /\ \A j \in Controller :
               ctl'[j] = IF j = k THEN Ctl("connect", ctl[k].w, 0) ELSE ctl[j]
      BY <1>1, <3>1, <3>2, CtlSet
    <3>4. ControlTypeOK'
      BY <1>1, <1>2, <2>5, <3>3, ControlFacts DEF ControlTypeOK, CtlRecord, WorkerRecord
    <3>5. workers' # <<>>
      <4>1. n \in DOMAIN workers' BY <2>5
      <4> QED BY <4>1
    <3>6. PoolShape' BY <1>0, <3>5 DEF PoolShape
    <3>7. \A i \in DOMAIN workers' : workers'[i].id < next_id'
      BY <1>1, <1>2, <2>3, <2>6, <2>7 DEF ServeInv, IdInv
    <3>8. \A i, j \in DOMAIN workers' : workers'[i].id = workers'[j].id => i = j
      BY <1>1, <2>3, <2>6, <2>7 DEF ServeInv, IdInv
    <3>9. \A j \in Controller : ctl'[j].at = "add" => j # k /\ ctl'[j] = ctl[j] /\ ctl[j].at = "add"
      BY <3>1, <3>3
    <3>10. \A j \in Controller :
             ctl'[j].at = "add" =>
               phase' = "serving" /\ ctl'[j].w < next_id' /\ ctl'[j].w \notin Ids'
      <4>1. ASSUME NEW j \in Controller, j # k, ctl[j].at = "add"
            PROVE  phase = "serving" /\ ctl[j].w < next_id /\ ctl[j].w # ctl[k].w
                   /\ \A i \in DOMAIN workers : workers[i].id # ctl[j].w
        BY <1>1, <1>2, <4>1 DEF ServeInv, IdInv, Ids
      <4> QED BY <1>0, <1>2, <2>3, <2>6, <3>9, <4>1 DEF Ids
    <3>11. \A i, j \in Controller :
             (ctl'[i].at = "add" /\ ctl'[j].at = "add" /\ ctl'[i].w = ctl'[j].w) => i = j
      BY <1>1, <3>9 DEF ServeInv, IdInv
    <3>12. IdInv' BY <3>7, <3>8, <3>10, <3>11 DEF IdInv
    <3> QED BY <3>4, <3>6, <3>12 DEF ServeInv
  <2>9. HeldInv'
    <3>1. \A i \in DOMAIN workers' : Own(workers'[i].cfg)
      BY <2>1, <2>3, <2>6 DEF IInv, AccountInv, HeldInv
    <3> QED BY <1>0, <1>2, <3>1 DEF IInv, AccountInv, HeldInv, Own, Whole
  <2>10. ApartInv'
    <3>1. \A p \in Registrar : reg'[p].id # 0 => p # k /\ reg'[p] = reg[p]
      BY <1>2, ReturnFacts
    <3>2. ASSUME NEW p \in Registrar, reg'[p].id # 0, NEW i \in DOMAIN workers'
          PROVE  workers'[i].cfg.id # reg'[p].id
      BY <2>1, <2>3, <2>6, <3>1, <3>2 DEF IInv, AccountInv, ApartInv
    <3> QED BY <1>0, <3>1, <3>2 DEF IInv, AccountInv, ApartInv, Whole
  <2>11. OnceInv'
    <3>1. ASSUME NEW i \in DOMAIN workers', NEW j \in DOMAIN workers',
                 workers'[i].cfg.id = workers'[j].cfg.id
          PROVE  i = j
      BY <2>1, <2>3, <2>6, <3>1 DEF IInv, AccountInv, OnceInv
    <3> QED BY <1>0, <3>1 DEF IInv, AccountInv, OnceInv, Whole
  <2> QED BY <1>3, <1>4, <2>8, <2>9, <2>10, <2>11 DEF AccountInv
<1> QED BY <1>5, <1>6 DEF AddDone

\* What retain leaves: entries of the list, at places that ascend and of
\* which none that is kept is missing.
Picks(f, s, K, r) ==
  /\ \A j \in 1..Len(r) : r[j] = s[f[j]]
  /\ \A j, k \in 1..Len(r) : j < k => f[j] < f[k]
  /\ \A i \in K : \E j \in 1..Len(r) : f[j] = i

LEMMA RetainedList ==
  ASSUME NEW S, NEW s \in Seq(S), NEW K \in SUBSET DOMAIN s, NEW r \in Retained(s, K)
  PROVE  r \in Seq(S) /\ \E f \in [1..Len(r) -> K] : Picks(f, s, K, r)
<1>1. PICK n \in 0..Len(s) : \E g \in [1..n -> K] :
        /\ r = [j \in DOMAIN g |-> s[g[j]]]
        /\ \A j, k \in DOMAIN g : j < k => g[j] < g[k]
        /\ \A i \in K : \E j \in DOMAIN g : g[j] = i
  BY DEF Retained
<1>2. PICK f \in [1..n -> K] :
        /\ r = [j \in DOMAIN f |-> s[f[j]]]
        /\ \A j, k \in DOMAIN f : j < k => f[j] < f[k]
        /\ \A i \in K : \E j \in DOMAIN f : f[j] = i
  BY <1>1
<1>3. n \in Nat /\ DOMAIN f = 1..n /\ r = [j \in 1..n |-> s[f[j]]] BY <1>2
<1>4. \A j \in 1..n : s[f[j]] \in S BY <1>2
<1>5. r \in [1..n -> S] BY <1>3, <1>4
<1>6. r \in Seq(S) /\ Len(r) = n BY <1>3, <1>5
<1>7. \A j \in 1..n : r[j] = s[f[j]] BY <1>3
<1>8. f \in [1..Len(r) -> K] /\ Picks(f, s, K, r)
  BY <1>2, <1>3, <1>6, <1>7, Zenon DEF Picks
<1> QED BY <1>6, <1>8, Zenon

\* remove_account takes the workers of one id out, which are not all.
LEMMA RemoveInv ==
  ASSUME IInv, NEW k \in Controller, NEW r \in Requests, Remove(k, r), phase = "serving",
         UNCHANGED daemonVars
  PROVE  RegInv' /\ PlaceInv' /\ ServeInv' /\ AccountInv'
<1>0. /\ disk' = disk /\ phase' = phase /\ slot' = slot /\ configs' = configs
  BY DEF daemonVars
<1>1. ServeInv BY DEF IInv
<1>2. /\ next_id' = next_id /\ http2' = http2 /\ rotate_secs' = rotate_secs
      /\ UNCHANGED regVars /\ Len(workers) > 1
  BY DEF Remove
<1>2a. /\ reg' = reg /\ created' = created /\ enrolled' = enrolled
       /\ network' = network /\ keys' = keys /\ faults' = faults
  BY <1>2 DEF regVars
<1>3. RegInv' BY <1>2a, RegMoves DEF IInv
<1>4. PlaceInv' BY <1>2a, PlaceFrame DEF IInv
<1>5. PICK K \in SUBSET DOMAIN workers : workers' \in Retained(workers, K) /\ K # {}
  <2> DEFINE K == {i \in DOMAIN workers : workers[i].id # SlotOf(r)}
  <2>1. 1 \in DOMAIN workers /\ 2 \in DOMAIN workers BY <1>1, <1>2, WorkerFacts
  <2>2. workers[1].id # workers[2].id BY <1>1, <2>1 DEF ServeInv, IdInv
  <2>3. K # {} BY <2>1, <2>2
  <2>4. workers' \in Retained(workers, K) BY DEF Remove
  <2> QED BY <2>3, <2>4
<1>6. /\ workers \in Seq(WorkerRecord) /\ workers' \in Seq(WorkerRecord)
      /\ \E f \in [1..Len(workers') -> K] : Picks(f, workers, K, workers')
  BY <1>1, <1>5, WorkerFacts, RetainedList
<1>7. PICK f \in [1..Len(workers') -> K] : Picks(f, workers, K, workers') BY <1>6
<1>8. /\ \A j \in DOMAIN workers' : f[j] \in DOMAIN workers /\ workers'[j] = workers[f[j]]
      /\ \A j, m \in DOMAIN workers' : f[j] = f[m] => j = m
  <2>1. DOMAIN workers' = 1..Len(workers') /\ Len(workers') \in Nat BY <1>6
  <2>2. ASSUME NEW j \in 1..Len(workers'), NEW m \in 1..Len(workers'), f[j] = f[m] PROVE j = m
    <3>1. f[j] \in Nat /\ f[m] \in Nat BY <1>6, <1>7
    <3>2. ~(j < m) /\ ~(m < j) BY <1>7, <2>2, <3>1 DEF Picks
    <3> QED BY <2>1, <3>2
  <2> QED BY <1>7, <2>1, <2>2 DEF Picks
<1>9. workers' # <<>>
  <2>1. PICK i \in K : TRUE BY <1>5
  <2>2. PICK j \in 1..Len(workers') : f[j] = i BY <1>7, <2>1 DEF Picks
  <2> QED BY <1>6, <2>2
<1>10. ServeInv'
  <2>1. Ctl("reply", 0, 200) \in CtlRecord /\ Ctl("reply", 0, 200).at = "reply" BY CtlType
  <2>2. ctl' = [ctl EXCEPT ![k] = Ctl("reply", 0, 200)] BY DEF Remove, Answers
  <2>3. /\ ctl' \in [Controller -> CtlRecord]
        /\ \A j \in Controller : ctl'[j] = IF j = k THEN Ctl("reply", 0, 200) ELSE ctl[j]
    BY <1>1, <2>1, <2>2, CtlSet
  <2>4. pinned' \in 0..UsizeMax BY <1>1, ControlAssumption, ControlFacts DEF Remove
  <2>5. calls' \in 0..MaxCalls BY <1>1, ControlFacts DEF Remove, Asks
  <2>6. ControlTypeOK'
    BY <1>1, <1>2, <1>6, <2>3, <2>4, <2>5, ControlFacts DEF ControlTypeOK, CtlRecord, WorkerRecord
  <2>7. PoolShape' BY <1>0, <1>9 DEF PoolShape
  <2>8. Ids' \subseteq Ids BY <1>8 DEF Ids
  <2>9. \A j \in Controller : ctl'[j].at = "add" => ctl'[j] = ctl[j] /\ ctl[j].at = "add"
    BY <2>1, <2>3
  <2>10. \A j \in DOMAIN workers' : workers'[j].id < next_id'
    BY <1>1, <1>2, <1>8 DEF ServeInv, IdInv
  <2>11. \A j, m \in DOMAIN workers' : workers'[j].id = workers'[m].id => j = m
    BY <1>1, <1>8 DEF ServeInv, IdInv
  <2>12. IdInv' BY <1>0, <1>1, <1>2, <2>8, <2>9, <2>10, <2>11 DEF ServeInv, IdInv
  <2> QED BY <2>6, <2>7, <2>12 DEF ServeInv
<1>11. HeldInv' BY <1>0, <1>2a, <1>8 DEF IInv, AccountInv, HeldInv, Own, Whole
<1>12. ApartInv' BY <1>0, <1>2a, <1>8 DEF IInv, AccountInv, ApartInv, Whole
<1>13. OnceInv'
  <2>1. \A j, m \in DOMAIN workers' : workers'[j].cfg.id = workers'[m].cfg.id => j = m
    BY <1>8 DEF IInv, AccountInv, OnceInv
  <2> QED BY <1>0, <2>1 DEF IInv, AccountInv, OnceInv, Whole
<1> QED BY <1>3, <1>4, <1>10, <1>11, <1>12, <1>13 DEF AccountInv

-----------------------------------------------------------------------------
(* All steps together.                                                     *)

\* To the SOCKS server the rest of the daemon is the switch and the end.
LEMMA SocksStep ==
  ASSUME Next \/ UNCHANGED vars
  PROVE  SocksNext \/ UNCHANGED socksVars
<1>1. Gone => SocksNext BY DEF Gone, SocksNext
<1>2. CASE Start BY <1>2 DEF Start
<1>3. CASE Stop \/ \E lost \in SUBSET Slot : PowerLoss(lost)
  BY <1>1, <1>3 DEF Stop, PowerLoss
<1>4. CASE Provision
  <2>1. CASE PoolNew
    <3>1. Toggle(TRUE) BY <2>1 DEF PoolNew, Toggle
    <3> QED BY <3>1 DEF SocksNext
  <2> QED BY <1>1, <1>4, <2>1
          DEF Provision, LoadSlot, RegisterSlot, SlotRegistered, RegistrationFails, SaveOpen,
              SaveWrite, SaveMode, PoolPush, PoolReady, Bind
<1>5. CASE \E p \in Registrar : RegStep(p) /\ UNCHANGED <<socksVars, controlVars, daemonVars>>
  BY <1>5
<1>6. CASE \E c \in Client :
             phase = "serving" /\ (TaskStep(c) \/ PeerStep(c)) /\ UNCHANGED others
  BY <1>6 DEF SocksNext
<1>7. ASSUME NEW k \in Controller, ControlCall(k) \/ ControlStep(k)
      PROVE  SocksNext \/ UNCHANGED socksVars
  <2>1. ASSUME NEW r \in Requests, Set(k, r) PROVE SocksNext \/ UNCHANGED socksVars
    <3>1. task' = task /\ stray' = stray /\ (enabled' = enabled \/ enabled' = bool_param(r.on, TRUE))
      BY <2>1 DEF Set
    <3>2. CASE enabled' = enabled BY <3>1, <3>2 DEF socksVars
    <3>3. CASE enabled' = bool_param(r.on, TRUE)
      <4>1. Toggle(bool_param(r.on, TRUE)) BY <3>1, <3>3 DEF Toggle
      <4> QED BY <4>1, Params DEF SocksNext
    <3> QED BY <3>1, <3>2, <3>3
  <2> QED BY <1>7, <2>1 DEF ControlCall, ControlStep, Reject, Rotate, RotateDone, Add, AddDone,
                             AddConnected, Remove, Respond
<1>8. CASE UNCHANGED vars BY <1>8 DEF vars
<1> QED BY <1>2, <1>3, <1>4, <1>5, <1>6, <1>7, <1>8 DEF Next

LEMMA InvPreserved ==
  ASSUME IInv, Next \/ UNCHANGED vars
  PROVE  IInv'
<1>0. SocksInv' BY SocksStep, InvStep DEF IInv
<1> SUFFICES RegInv' /\ PlaceInv' /\ ServeInv' /\ AccountInv' BY <1>0 DEF IInv
<1>1. CASE Start BY <1>1, StartInv
<1>2. CASE Stop BY <1>2, GoneInv DEF Stop
<1>2a. CASE \E lost \in SUBSET Slot : PowerLoss(lost) BY <1>2a, PowerLossFacts, LostInv
<1>3. CASE Provision BY <1>3, ProvisionInv
<1>4. CASE \E p \in Registrar : RegStep(p) /\ UNCHANGED <<socksVars, controlVars, daemonVars>>
  BY <1>4, RegistrarInv
<1>5. ASSUME UNCHANGED others PROVE RegInv' /\ PlaceInv' /\ ServeInv' /\ AccountInv'
  <2>0. /\ UNCHANGED daemonVars /\ UNCHANGED controlVars /\ UNCHANGED regVars
    BY <1>5 DEF others
  <2>1. /\ created' = created /\ enrolled' = enrolled /\ workers' = workers /\ reg' = reg
        /\ network' = network /\ keys' = keys /\ faults' = faults /\ disk' = disk
        /\ phase' = phase /\ slot' = slot /\ configs' = configs
    BY <2>0 DEF regVars, controlVars, daemonVars
  <2> QED BY <2>0, <2>1, RegMoves, PlaceFrame, ServeFrame, AccountFrame DEF IInv
<1>6. ASSUME NEW k \in Controller, phase = "serving", UNCHANGED daemonVars,
             ControlCall(k) \/ ControlStep(k)
      PROVE  RegInv' /\ PlaceInv' /\ ServeInv' /\ AccountInv'
  <2>1. CASE ControlCall(k)
    BY <1>6, <2>1, QuietRequests, RotateInv, AddInv, RemoveInv DEF ControlCall
  <2>2. CASE ControlStep(k)
    BY <1>6, <2>2, QuietRequests, RotateDoneInv, AddDoneInv DEF ControlStep
  <2> QED BY <1>6, <2>1, <2>2
<1>7. CASE UNCHANGED vars BY <1>5, <1>7 DEF vars, others
<1> QED BY <1>1, <1>2, <1>2a, <1>3, <1>4, <1>5, <1>6, <1>7 DEF Next

LEMMA Inductive == Spec => []IInv
<1>1. IInv /\ [Next]_vars => IInv' BY InvPreserved
<1> QED BY InitInv, <1>1, PTL DEF Spec

\* Every variable keeps its type (all of main.rs, config.rs, register.rs,
\* socks.rs and control.rs that Daemon models).
THEOREM DaemonTypeCorrect == Spec => []TypeOK
<1>1. IInv => TypeOK
  <2> SUFFICES ASSUME IInv PROVE TypeOK OBVIOUS
  <2>1. Len(configs) < NumAccounts + 1
    BY DaemonAssumption DEF IInv, PlaceInv, MainInv
  <2> QED BY <2>1 DEF IInv, TypeOK, RegInv, SocksInv, ServeInv, PlaceInv, DiskInv, MainInv
<1> QED BY <1>1, Inductive, PTL

\* Whatever the number of accounts, of tasks that register at the same time
\* (load_or_register, rotate, add_account), of failures and of restarts: a
\* config that is held or saved carries the key the API enrolled for its
\* account, and no two workers share an account.
THEOREM AccountsAreOwn == Spec => []OwnAccount
<1>1. IInv => OwnAccount
  BY DEF IInv, AccountInv, HeldInv, OnceInv, Own, OwnAccount, Held
<1> QED BY <1>1, Inductive, PTL

\* load_or_register saves before main serves: with a state directory, the
\* pool comes up on the accounts of the disk.
THEOREM ServedIsSaved == Spec => []PersistedPool
<1>1. IInv => PersistedPool
  <2> SUFFICES ASSUME IInv, state_dir, phase \in {"pool", "bind"}, NEW i \in Slot
               PROVE  Whole(i) /\ (i \in DOMAIN workers => workers[i].cfg = disk[i].cfg)
    BY DEF PersistedPool
  <2>1. DOMAIN configs = Slot BY DaemonAssumption, DaemonFacts DEF IInv, PlaceInv, MainInv, Slot
  <2>2. disk[i] = File("whole", configs[i]) BY <2>1 DEF IInv, PlaceInv, SlotInv
  <2>3. i \in DOMAIN workers => workers[i].cfg = configs[i] BY DEF IInv, ServeInv, PoolShape
  <2> QED BY <2>2, <2>3 DEF Whole, File
<1> QED BY <1>1, Inductive, PTL

\* save writes a slot only when nothing was there: what was saved in full
\* stays as it is, through every restart, crash and failure, and is lost only
\* where the power goes before the OS has written it back.
THEOREM SavedStays == Spec => SavedForGood
<1> DEFINE Lost(i) == \E lost \in SUBSET Slot : i \in lost /\ PowerLoss(lost)
<1>1. ASSUME IInv, Next \/ UNCHANGED vars, NEW i \in Slot, Whole(i)
      PROVE  disk'[i] = disk[i] \/ Lost(i)
  <2>1. CASE disk' = disk BY <2>1
  <2>2. CASE \E lost \in SUBSET Slot : PowerLoss(lost)
    <3>1. PICK lost \in SUBSET Slot : PowerLoss(lost) BY <2>2
    <3>2. i \in lost \/ disk'[i] = disk[i] BY <1>1, <3>1, PowerLossFacts
    <3> QED BY <3>1, <3>2
  <2>3. CASE disk' # disk /\ ~\E lost \in SUBSET Slot : PowerLoss(lost)
    <3>1. CASE phase = "open" /\ disk' = [disk EXCEPT ![slot] = File("torn", NoConfig)]
      <4>1. i # slot BY <1>1, <3>1 DEF IInv, PlaceInv, SlotInv, Whole
      <4> QED BY <1>1, <3>1, <4>1 DEF IInv, PlaceInv, DiskInv
    <3>2. CASE phase = "write" /\ disk' = [disk EXCEPT ![slot] = File("whole", NewConfig(Boot))]
      <4>1. i # slot BY <1>1, <3>2 DEF IInv, PlaceInv, SlotInv, Whole
      <4> QED BY <1>1, <3>2, <4>1 DEF IInv, PlaceInv, DiskInv
    <3> QED BY <1>1, <2>3, <3>1, <3>2
            DEF Next, vars, daemonVars, diskVars, others, Start, Stop, Provision, LoadSlot,
                RegisterSlot, SlotRegistered, RegistrationFails, SaveOpen, SaveWrite, SaveMode,
                PoolNew, PoolPush, PoolReady, Bind
  <2> QED BY <2>1, <2>2, <2>3
<1>2. IInv /\ [Next]_vars
        => [\A i \in Slot : Whole(i) =>
              \/ disk'[i] = disk[i]
              \/ \E lost \in SUBSET Slot : i \in lost /\ PowerLoss(lost)]_vars
  BY <1>1
<1> QED BY <1>2, Inductive, PTL DEF Spec, SavedForGood

\* The whole daemon, started, stopped and controlled, keeps the promise of
\* SocksService to its SOCKS clients.
THEOREM DaemonImplementsService == Spec => ServiceSpec
<1>1. Init => Service!Init BY MappedInit DEF Init
<1>2. IInv /\ [Next]_vars => [Service!Next]_Service!vars BY SocksStep, MappedStep DEF IInv
<1> QED BY <1>1, <1>2, Inductive, PTL DEF Spec, ServiceSpec, Service!Spec

-----------------------------------------------------------------------------
(* Orphans.                                                                *)

LEMMA SmallerSets ==
  ASSUME NEW S, NEW T, NEW x, IsFiniteSet(S)
  PROVE  /\ T \subseteq S => IsFiniteSet(T) /\ Cardinality(T) <= Cardinality(S)
         /\ T \subseteq S \cup {x} => Cardinality(T) <= Cardinality(S) + 1
         /\ (x \in S /\ T \subseteq S \ {x}) => Cardinality(T) + 1 <= Cardinality(S)
         /\ (x \notin S /\ T = S \cup {x}) => Cardinality(T) = Cardinality(S) + 1
<1>1. Cardinality(S) \in Nat BY FS_CardinalityType
<1>2. T \subseteq S => IsFiniteSet(T) /\ Cardinality(T) <= Cardinality(S) BY FS_Subset
<1>3. /\ IsFiniteSet(S \cup {x})
      /\ Cardinality(S \cup {x}) = IF x \in S THEN Cardinality(S) ELSE Cardinality(S) + 1
  BY FS_AddElement
<1>4. ASSUME T \subseteq S \cup {x} PROVE Cardinality(T) <= Cardinality(S) + 1
  <2>1. IsFiniteSet(T) /\ Cardinality(T) <= Cardinality(S \cup {x}) BY <1>3, <1>4, FS_Subset
  <2>2. Cardinality(T) \in Nat BY <2>1, FS_CardinalityType
  <2> QED BY <1>1, <1>3, <2>1, <2>2
<1>5. ASSUME x \in S, T \subseteq S \ {x} PROVE Cardinality(T) + 1 <= Cardinality(S)
  <2>1. IsFiniteSet(S \ {x}) /\ Cardinality(S \ {x}) = Cardinality(S) - 1
    BY <1>5, FS_RemoveElement
  <2>2. IsFiniteSet(T) /\ Cardinality(T) <= Cardinality(S \ {x}) BY <1>5, <2>1, FS_Subset
  <2>3. Cardinality(T) \in Nat BY <2>2, FS_CardinalityType
  <2> QED BY <1>1, <2>1, <2>2, <2>3
<1> QED BY <1>2, <1>3, <1>4, <1>5

LEMMA OrphanCounts ==
  /\ IsFiniteSet(Pending) /\ Cardinality(Pending) \in Nat
  /\ IsFiniteSet(Pending') /\ Cardinality(Pending') \in Nat
  /\ IsFiniteSet(WholeSlots) /\ Cardinality(WholeSlots) \in Nat
  /\ IsFiniteSet(WholeSlots') /\ Cardinality(WholeSlots') \in Nat
  /\ Saving \in {0, 1} /\ Saving' \in {0, 1}
<1>1. IsFiniteSet(Controller)
  BY ControlAssumption, RegistrationAssumption, FS_Subset
<1>2. IsFiniteSet(Slot) BY DaemonAssumption, FS_Interval DEF Slot
<1>3. Pending \subseteq Controller /\ Pending' \subseteq Controller BY DEF Pending
<1>4. WholeSlots \subseteq Slot /\ WholeSlots' \subseteq Slot BY DEF WholeSlots
<1>5. IsFiniteSet(Pending) /\ IsFiniteSet(Pending') BY <1>1, <1>3, FS_Subset
<1>6. IsFiniteSet(WholeSlots) /\ IsFiniteSet(WholeSlots') BY <1>2, <1>4, FS_Subset
<1>7. Saving \in {0, 1} /\ Saving' \in {0, 1} BY DEF Saving
<1> QED BY <1>5, <1>6, <1>7, FS_CardinalityType

LEMMA NumberTypes ==
  ASSUME IInv
  PROVE  created \in Nat /\ faults \in Nat /\ calls \in Nat
BY RegistrationAssumption, ControlAssumption
DEF IInv, RegInv, RegTypeOK, ServeInv, ControlTypeOK

LEMMA OrphanInit == Init => OrphanInv
<1> SUFFICES ASSUME Init PROVE OrphanInv OBVIOUS
<1>0. \A p \in Registrar : reg[p].at = "idle" BY DEF Init, RegInit, NoCall, Call
<1>1. Pending = {} BY <1>0, ControlAssumption DEF Pending
<1>2. Cardinality(Pending) = 0 BY <1>1, FS_EmptySet
<1>3. created = 0 /\ faults = 0 /\ calls = 0 BY DEF Init, RegInit, ControlInit
<1>4. created + Cardinality(Pending) <= Cardinality(WholeSlots) + calls + faults + Saving
  BY <1>2, <1>3, OrphanCounts
<1> QED BY <1>0, <1>4 DEF OrphanInv

\* The process ends: an account that was not saved is owed to the fault.
LEMMA OrphanGone ==
  ASSUME IInv, OrphanInv, Gone, UNCHANGED disk,
         Fault \/ (faults' = faults /\ reg[Boot].id = 0)
  PROVE  OrphanInv'
<1>0. \A p \in Registrar : reg'[p].at = "idle" BY DEF Gone, NoCall, Call
<1>1. Pending' = {} BY <1>0, ControlAssumption DEF Pending
<1>2. Cardinality(Pending') = 0 BY <1>1, FS_EmptySet
<1>3. /\ created' = created /\ calls' = calls /\ state_dir' = state_dir
      /\ WholeSlots' = WholeSlots
  BY DEF Gone, WholeSlots, Whole
<1>4. faults' = faults + 1 \/ (faults' = faults /\ Saving = 0)
  BY DEF Fault, Saving
<1>5. state_dir' =>
        created' + Cardinality(Pending') <= Cardinality(WholeSlots') + calls' + faults' + Saving'
  BY <1>2, <1>3, <1>4, OrphanCounts, NumberTypes DEF OrphanInv
<1> QED BY <1>0, <1>5 DEF OrphanInv

\* Each file that is lost with the power is one less, and one fault more.
LEMMA OrphanPowerLoss ==
  ASSUME IInv, OrphanInv, NEW lost \in SUBSET Slot, PowerLoss(lost)
  PROVE  OrphanInv'
<1>0. \A p \in Registrar : reg'[p].at = "idle" BY DEF PowerLoss, Gone, NoCall, Call
<1>1. Pending' = {} BY <1>0, ControlAssumption DEF Pending
<1>2. Cardinality(Pending') = 0 BY <1>1, FS_EmptySet
<1>3. created' = created /\ calls' = calls /\ state_dir' = state_dir BY DEF PowerLoss, Gone
<1>4. /\ IsFiniteSet(lost) /\ Cardinality(lost) \in Nat
      /\ faults' = faults + 1 + Cardinality(lost)
      /\ \A i \in Slot : i \in lost \/ disk'[i] = disk[i]
  BY PowerLossFacts
<1>5. Cardinality(WholeSlots) <= Cardinality(WholeSlots') + Cardinality(lost)
  <2>1. WholeSlots \subseteq WholeSlots' \cup lost BY <1>4 DEF WholeSlots, Whole
  <2>2. /\ IsFiniteSet(WholeSlots' \cup lost)
        /\ Cardinality(WholeSlots' \cup lost)
             = Cardinality(WholeSlots') + Cardinality(lost) - Cardinality(WholeSlots' \cap lost)
    BY <1>4, OrphanCounts, FS_Union
  <2>3. IsFiniteSet(WholeSlots' \cap lost) /\ Cardinality(WholeSlots' \cap lost) \in Nat
    BY <1>4, FS_Intersection, FS_Subset, FS_CardinalityType
  <2>4. Cardinality(WholeSlots) <= Cardinality(WholeSlots' \cup lost)
    BY <2>1, <2>2, FS_Subset
  <2> QED BY <1>4, <2>2, <2>3, <2>4, OrphanCounts
<1>6. state_dir' =>
        created' + Cardinality(Pending') <= Cardinality(WholeSlots') + calls' + faults' + Saving'
  BY <1>2, <1>3, <1>4, <1>5, OrphanCounts, NumberTypes DEF OrphanInv
<1> QED BY <1>0, <1>6 DEF OrphanInv

\* The count is kept when nothing is created and nobody begins to wait.
LEMMA OrphanFrame ==
  ASSUME IInv, OrphanInv, UNCHANGED <<created, faults, calls, state_dir>>,
         Pending' \subseteq Pending, WholeSlots' = WholeSlots, Saving' >= Saving,
         \A p \in Registrar \ (Controller \cup {Boot}) : reg'[p] = reg[p]
  PROVE  OrphanInv'
<1>1. Cardinality(Pending') <= Cardinality(Pending) BY OrphanCounts, SmallerSets
<1>2. state_dir' =>
        created' + Cardinality(Pending') <= Cardinality(WholeSlots') + calls' + faults' + Saving'
  BY <1>1, OrphanCounts, NumberTypes DEF OrphanInv
<1> QED BY <1>2 DEF OrphanInv

LEMMA SavedCount ==
  ASSUME IInv, phase = "write", disk' = [disk EXCEPT ![slot] = File("whole", NewConfig(Boot))]
  PROVE  Cardinality(WholeSlots') = Cardinality(WholeSlots) + 1
<1>1. slot \in Slot /\ disk[slot].state = "torn"
  BY DaemonFacts DEF IInv, PlaceInv, MainInv, SlotInv
<1>2. \A i \in Slot : disk'[i] = IF i = slot THEN File("whole", NewConfig(Boot)) ELSE disk[i]
  BY <1>1 DEF IInv, PlaceInv, DiskInv
<1>3. File("whole", NewConfig(Boot)).state = "whole" BY DEF File
<1>4. WholeSlots' = WholeSlots \cup {slot} /\ slot \notin WholeSlots
  BY <1>1, <1>2, <1>3 DEF WholeSlots, Whole
<1> QED BY <1>4, OrphanCounts, SmallerSets

LEMMA OrphanProvision ==
  ASSUME IInv, OrphanInv, Start \/ Provision
  PROVE  OrphanInv'
<1> USE DaemonAssumption
<1>0. Boot \in Registrar /\ \A k \in Controller : k # Boot /\ k \in Registrar BY DaemonFacts
<1>1. phase \in {"down", "load", "pool", "bind"} => reg[Boot].id = 0
  BY <1>0, RegFacts DEF IInv, PlaceInv, BootInv
<1>2. ASSUME UNCHANGED <<created, faults, calls, state_dir>>, disk' = disk,
             reg' = reg \/ (reg'[Boot].at \in {"idle", "create"} /\
                            \A p \in Registrar : p # Boot => reg'[p] = reg[p]),
             Saving' >= Saving
      PROVE  OrphanInv'
  <2>1. \A p \in Registrar : p # Boot => reg'[p] = reg[p] BY <1>2
  <2>2. Pending' = Pending BY <1>0, <2>1 DEF Pending
  <2>3. WholeSlots' = WholeSlots BY <1>2 DEF WholeSlots, Whole
  <2> QED BY <1>2, <2>1, <2>2, <2>3, OrphanFrame
<1>3. CASE Start
  <2>1. Saving' = Saving BY <1>1, <1>3 DEF Start, Saving, regVars
  <2> QED BY <1>2, <1>3, <2>1, OrphanCounts DEF Start, regVars, controlVars, diskVars
<1>4. CASE LoadSlot
  <2>1. CASE Whole(slot)
    <3>1. /\ UNCHANGED <<created, faults, calls, state_dir>> /\ disk' = disk /\ reg' = reg
          /\ phase = "load" /\ phase' = "load"
      BY <1>4, <2>1 DEF LoadSlot, Loading, Push, regVars, controlVars, diskVars
    <3>2. Saving' = Saving BY <3>1 DEF Saving
    <3> QED BY <1>2, <3>1, <3>2, OrphanCounts
  <2>2. CASE ~Whole(slot)
    BY <1>1, <1>4, <2>2, OrphanGone DEF LoadSlot, Loading
  <2> QED BY <2>1, <2>2
<1>5. CASE RegisterSlot
  <2>1. Saving = 0 BY <1>1, <1>5 DEF RegisterSlot, Loading, Saving
  <2>2. reg'[Boot].at = "create" /\ \A p \in Registrar : p # Boot => reg'[p] = reg[p]
    BY <1>0, <1>5 DEF RegisterSlot, register_auto, Call, IInv, RegInv, RegTypeOK
  <2> QED BY <1>2, <1>5, <2>1, <2>2, OrphanCounts DEF RegisterSlot, controlVars, diskVars
<1>6. CASE SlotRegistered
  <2>1. CASE state_dir /\ phase' = "open" /\ UNCHANGED <<reg, slot, configs>>
    <3>1. Saving' = Saving BY <1>6, <2>1 DEF SlotRegistered, Saving
    <3> QED BY <1>2, <1>6, <2>1, <3>1, OrphanCounts DEF SlotRegistered, controlVars, diskVars
  <2>2. CASE ~state_dir /\ Push(NewConfig(Boot)) /\ Return(Boot)
    <3>1. ~state_dir' BY <1>6, <2>2 DEF SlotRegistered, diskVars
    <3>2. \A p \in Registrar : p # Boot => reg'[p] = reg[p]
      BY <1>0, <2>2 DEF Return, IInv, RegInv, RegTypeOK
    <3> QED BY <3>1, <3>2 DEF OrphanInv
  <2> QED BY <1>6, <2>1, <2>2 DEF SlotRegistered
<1>7. CASE RegistrationFails
  <2>1. reg[Boot].id = 0 BY <1>0, <1>7, RegFacts DEF RegistrationFails, RegisterFailed, IInv
  <2> QED BY <1>7, <2>1, OrphanGone DEF RegistrationFails
<1>8. CASE SaveOpen
  <2>1. CASE Fault /\ Gone /\ UNCHANGED disk BY <2>1, OrphanGone
  <2>2. CASE /\ disk' = [disk EXCEPT ![slot] = File("torn", NoConfig)] /\ phase' = "write"
             /\ UNCHANGED <<regVars, socksVars, controlVars, state_dir, slot, configs>>
    <3>1. slot \in Slot /\ disk[slot].state = "absent"
      BY <1>8, DaemonFacts DEF SaveOpen, IInv, PlaceInv, MainInv, SlotInv
    <3>2. \A i \in Slot : disk'[i] = IF i = slot THEN File("torn", NoConfig) ELSE disk[i]
      BY <2>2, <3>1 DEF IInv, PlaceInv, DiskInv
    <3>3. File("torn", NoConfig).state = "torn" BY DEF File
    <3>4. WholeSlots' = WholeSlots BY <3>1, <3>2, <3>3 DEF WholeSlots, Whole
    <3>5. reg' = reg /\ UNCHANGED <<created, faults, calls, state_dir>>
      BY <2>2 DEF regVars, controlVars
    <3>6. Saving' = Saving BY <1>8, <2>2, <3>5 DEF SaveOpen, Saving
    <3>7. Pending' = Pending BY <3>5 DEF Pending
    <3> QED BY <3>4, <3>5, <3>6, <3>7, OrphanCounts, OrphanFrame
  <2> QED BY <1>8, <2>1, <2>2 DEF SaveOpen
<1>9. CASE SaveWrite
  <2>1. CASE Fault /\ Gone /\ UNCHANGED disk BY <2>1, OrphanGone
  <2>2. CASE /\ disk' = [disk EXCEPT ![slot] = File("whole", NewConfig(Boot))]
             /\ phase' = "mode"
             /\ UNCHANGED <<regVars, socksVars, controlVars, state_dir, slot, configs>>
    <3>1. Cardinality(WholeSlots') = Cardinality(WholeSlots) + 1
      BY <1>9, <2>2, SavedCount DEF SaveWrite
    <3>2. reg' = reg /\ UNCHANGED <<created, faults, calls, state_dir>>
      BY <2>2 DEF regVars, controlVars
    <3>3. Saving' = 0 BY <2>2 DEF Saving
    <3>4. Pending' = Pending BY <3>2 DEF Pending
    <3>5. state_dir' =>
            created' + Cardinality(Pending')
              <= Cardinality(WholeSlots') + calls' + faults' + Saving'
      BY <3>1, <3>2, <3>3, <3>4, OrphanCounts, NumberTypes DEF OrphanInv
    <3> QED BY <3>2, <3>5 DEF OrphanInv
  <2> QED BY <1>9, <2>1, <2>2 DEF SaveWrite
<1>10. CASE SaveMode
  <2>1. CASE Fault /\ Gone /\ UNCHANGED disk BY <2>1, OrphanGone
  <2>2. CASE /\ Push(NewConfig(Boot)) /\ Return(Boot)
             /\ UNCHANGED <<network, created, keys, enrolled, faults, socksVars, controlVars,
                            diskVars>>
    <3>1. Saving = 0 BY <1>10 DEF SaveMode, Saving
    <3>2. reg'[Boot].at = "idle" /\ \A p \in Registrar : p # Boot => reg'[p] = reg[p]
      BY <1>0, <2>2 DEF Return, NoCall, Call, IInv, RegInv, RegTypeOK
    <3> QED BY <1>2, <2>2, <3>1, <3>2, OrphanCounts DEF controlVars, diskVars
  <2> QED BY <1>10, <2>1, <2>2 DEF SaveMode
<1>11. CASE PoolNew
  <2>1. Saving = 0 BY <1>1, <1>11 DEF PoolNew, Saving
  <2> QED BY <1>2, <1>11, <2>1, OrphanCounts DEF PoolNew, regVars, diskVars
<1>11a. CASE PoolPush \/ PoolReady
  <2>1. Saving = 0 BY <1>1, <1>11a DEF PoolPush, PoolReady, Saving
  <2>2. UNCHANGED <<created, faults, calls, state_dir>> /\ disk' = disk /\ reg' = reg
    BY <1>11a DEF PoolPush, PoolReady, regVars, controlVars, daemonVars, diskVars
  <2> QED BY <1>2, <2>1, <2>2, OrphanCounts
<1>12. CASE Bind
  <2>1. CASE Fault /\ Gone /\ UNCHANGED disk BY <2>1, OrphanGone
  <2>2. CASE UNCHANGED <<regVars, socksVars, controlVars, diskVars, slot, configs>>
    <3>1. Saving = 0 BY <1>1, <1>12 DEF Bind, Saving
    <3> QED BY <1>2, <2>2, <3>1, OrphanCounts DEF regVars, controlVars, diskVars
  <2> QED BY <1>12, <2>1, <2>2 DEF Bind
<1> QED BY <1>3, <1>4, <1>5, <1>6, <1>7, <1>8, <1>9, <1>10, <1>11, <1>11a, <1>12
     DEF Provision

\* A request is counted before it has an account created.
LEMMA OrphanRequests ==
  ASSUME IInv, OrphanInv, NEW k \in Controller, ControlCall(k) \/ ControlStep(k),
         UNCHANGED daemonVars
  PROVE  OrphanInv'
<1>0. Boot \in Registrar /\ k # Boot /\ k \in Registrar BY DaemonFacts
<1>1. /\ UNCHANGED <<created, faults, state_dir>> /\ phase' = phase
      /\ WholeSlots' = WholeSlots
  BY DEF ControlCall, ControlStep, Reject, Set, Rotate, RotateDone, Add, AddDone, AddConnected,
         Remove, Respond, regVars, daemonVars, WholeSlots, Whole
<1>2. reg' = reg \/ register_auto(k) \/ Return(k)
  BY DEF ControlCall, ControlStep, Reject, Set, Rotate, RotateDone, Add, AddDone, AddConnected,
         Remove, Respond, regVars
<1>3. /\ \A p \in Registrar : p # k => reg'[p] = reg[p]
      /\ Return(k) => reg'[k].at = "idle"
  BY <1>0, <1>2 DEF register_auto, Return, NoCall, Call, IInv, RegInv, RegTypeOK
<1>4. Saving' = Saving BY <1>0, <1>1, <1>3 DEF Saving
<1>5. Pending' \subseteq Pending \cup {k} BY <1>3, ControlAssumption DEF Pending
<1>6. CASE calls' = calls + 1
  <2>1. Cardinality(Pending') <= Cardinality(Pending) + 1 BY <1>5, OrphanCounts, SmallerSets
  <2>2. state_dir' =>
          created' + Cardinality(Pending')
            <= Cardinality(WholeSlots') + calls' + faults' + Saving'
    BY <1>1, <1>4, <1>6, <2>1, OrphanCounts, NumberTypes DEF OrphanInv
  <2> QED BY <1>3, <2>2 DEF OrphanInv
<1>7. CASE calls' = calls /\ (reg' = reg \/ Return(k))
  <2>1. Pending' \subseteq Pending BY <1>3, <1>7, ControlAssumption DEF Pending
  <2> QED BY <1>1, <1>3, <1>4, <1>7, <2>1, OrphanCounts, OrphanFrame
<1> QED BY <1>6, <1>7 DEF ControlCall, ControlStep, Reject, Set, Rotate, RotateDone, Add, AddDone,
                          AddConnected, Remove, Respond, Asks, regVars

\* An account that is created and then given up is owed to a fault.
LEMMA OrphanRegistrar ==
  ASSUME IInv, OrphanInv, NEW p \in Registrar, RegStep(p),
         UNCHANGED <<socksVars, controlVars, daemonVars>>
  PROVE  OrphanInv'
<1>0. Boot \in Registrar /\ Boot \notin Controller BY DaemonFacts
<1>1. /\ UNCHANGED <<calls, state_dir>> /\ phase' = phase /\ WholeSlots' = WholeSlots
  BY DEF controlVars, daemonVars, WholeSlots, Whole
<1>2. /\ reg[p].at \in {"doh", "create", "enroll"}
      /\ \A q \in Registrar : q # p => reg'[q] = reg[q]
  BY RegStepFacts DEF IInv
<1>3. p \in Controller \/ p = Boot BY <1>2 DEF OrphanInv
<1>4. p = Boot => phase = "register" BY <1>2 DEF IInv, PlaceInv, BootInv
<1>5. reg[p].at \in {"doh", "create"} => reg[p].id = 0 BY RegFacts DEF IInv
<1>5a. reg[p].at = "enroll" => reg[p].id # 0 BY RegFacts DEF IInv, AccountId
<1>6. Pending' \subseteq Pending \cup {p} BY <1>2, ControlAssumption DEF Pending
<1>7. p = Boot => Pending' = Pending BY <1>0, <1>2, ControlAssumption DEF Pending
<1>8. p # Boot => Saving' = Saving BY <1>0, <1>1, <1>2 DEF Saving
<1>9. Cardinality(Pending') <= Cardinality(Pending) + 1 BY <1>6, OrphanCounts, SmallerSets
<1>10. \A at, via, id, key : Call(at, via, id, key).at = at /\ Call(at, via, id, key).id = id
  BY DEF Call
<1>11. \A r : reg' = [reg EXCEPT ![p] = r] => reg'[p] = r BY DEF IInv, RegInv, RegTypeOK
<1>12. SUFFICES state_dir =>
         created' + Cardinality(Pending') <= Cardinality(WholeSlots) + calls + faults' + Saving'
  <2>1. \A q \in Registrar \ (Controller \cup {Boot}) : reg'[q].at = "idle"
    BY <1>2, <1>3 DEF OrphanInv
  <2> QED BY <1>1, <1>12, <2>1 DEF OrphanInv
<1> USE OrphanCounts, NumberTypes
\* The call was waiting: it does not begin to.
<1>13. ASSUME reg[p].at \in {"doh", "create"}
       PROVE  /\ Cardinality(Pending') <= Cardinality(Pending)
              /\ p = Boot => Saving = 0
  <2>1. Pending' \subseteq Pending
    BY <1>2, <1>3, <1>7, <1>13, ControlAssumption DEF Pending
  <2>2. p = Boot => Saving = 0 BY <1>5, <1>13 DEF Saving
  <2> QED BY <2>1, <2>2, SmallerSets
<1>14. CASE DohBypass(p)
  <2>1. reg[p].at = "doh" /\ created' = created /\ faults' = faults BY <1>14 DEF DohBypass
  <2> QED BY <1>8, <1>13, <2>1 DEF OrphanInv
<1>15. CASE CreateAccount(p)
  <2>1. reg[p].at = "create" /\ created' = created + 1 BY <1>15 DEF CreateAccount
  <2>2. CASE Fault
    <3>1. faults' = faults + 1 BY <2>2 DEF Fault
    <3> QED BY <1>8, <1>13, <2>1, <3>1 DEF OrphanInv
  <2>3. CASE /\ reg' = [reg EXCEPT ![p] = Call("enroll", reg[p].via, created + 1, keys + 1)]
             /\ UNCHANGED faults
    <3>1. reg'[p].at = "enroll" /\ reg'[p].id = created + 1
      <4>1. reg'[p] = Call("enroll", reg[p].via, created + 1, keys + 1) BY <1>11, <2>3
      <4> QED BY <1>10, <4>1
    <3>2. CASE p = Boot
      <4>1. Saving' = 1 BY <1>1, <1>4, <3>1, <3>2 DEF Saving
      <4> QED BY <1>7, <1>13, <2>1, <2>3, <3>2, <4>1 DEF OrphanInv
    <3>3. CASE p # Boot
      <4>1. p \in Pending /\ Pending' \subseteq Pending \ {p}
        BY <1>2, <1>3, <2>1, <3>1, <3>3, ControlAssumption DEF Pending
      <4>2. Cardinality(Pending') + 1 <= Cardinality(Pending) BY <4>1, SmallerSets
      <4> QED BY <1>8, <2>1, <2>3, <3>3, <4>2 DEF OrphanInv
    <3> QED BY <3>2, <3>3
  <2> QED BY <1>15, <2>2, <2>3 DEF CreateAccount
<1>16. CASE CreateRefused(p)
  <2>1. reg[p].at = "create" /\ created' = created BY <1>16 DEF CreateRefused
  <2>2. faults' = faults \/ faults' = faults + 1 BY <1>16 DEF CreateRefused, Fault
  <2> QED BY <1>8, <1>13, <2>1, <2>2 DEF OrphanInv
\* Its account is lost.
<1>17. ASSUME reg[p].at = "enroll", Fault, created' = created
       PROVE  created' + Cardinality(Pending')
                <= Cardinality(WholeSlots) + calls + faults' + Saving' \/ ~state_dir
  <2>1. faults' = faults + 1 BY <1>17 DEF Fault
  <2>2. CASE p = Boot BY <1>7, <1>17, <2>1, <2>2 DEF OrphanInv
  <2>3. CASE p # Boot BY <1>8, <1>9, <1>17, <2>1, <2>3 DEF OrphanInv
  <2> QED BY <2>2, <2>3
<1>18. CASE EnrollKey(p)
  <2>1. reg[p].at = "enroll" /\ created' = created BY <1>18 DEF EnrollKey
  <2>2. CASE Fault BY <1>17, <2>1, <2>2
  <2>3. CASE /\ reg' = [reg EXCEPT ![p] = Call("done", reg[p].via, build_config(reg[p]).id,
                                               build_config(reg[p]).key)]
             /\ UNCHANGED faults
    <3>1. reg'[p].at = "done" /\ reg'[p].id = reg[p].id
      <4>1. build_config(reg[p]).id = reg[p].id BY DEF build_config
      <4>2. reg'[p] = Call("done", reg[p].via, build_config(reg[p]).id, build_config(reg[p]).key)
        BY <1>11, <2>3
      <4> QED BY <1>10, <4>1, <4>2
    <3>2. Saving' = Saving BY <1>0, <1>1, <1>2, <3>1 DEF Saving
    <3>3. Pending' = Pending BY <1>2, <2>1, <3>1, ControlAssumption DEF Pending
    <3> QED BY <2>1, <2>3, <3>2, <3>3 DEF OrphanInv
  <2> QED BY <1>18, <2>2, <2>3 DEF EnrollKey
<1>19. CASE EnrollRefused(p)
  BY <1>17, <1>19 DEF EnrollRefused
<1> QED BY <1>14, <1>15, <1>16, <1>18, <1>19 DEF RegStep

LEMMA OrphanStep ==
  ASSUME IInv, OrphanInv, Next \/ UNCHANGED vars
  PROVE  OrphanInv'
<1>1. CASE Start \/ Provision BY <1>1, OrphanProvision
<1>2. CASE Stop BY <1>2, OrphanGone DEF Stop
<1>2a. CASE \E lost \in SUBSET Slot : PowerLoss(lost) BY <1>2a, OrphanPowerLoss
<1>3. CASE \E p \in Registrar : RegStep(p) /\ UNCHANGED <<socksVars, controlVars, daemonVars>>
  BY <1>3, OrphanRegistrar
<1>4. CASE UNCHANGED others
  <2>1. /\ UNCHANGED <<created, faults, calls, state_dir>> /\ reg' = reg /\ disk' = disk
        /\ phase' = phase
    BY <1>4 DEF others, regVars, controlVars, daemonVars
  <2>2. Pending' = Pending /\ WholeSlots' = WholeSlots /\ Saving' = Saving
    BY <2>1 DEF Pending, WholeSlots, Whole, Saving
  <2> QED BY <2>1, <2>2, OrphanCounts, OrphanFrame
<1>5. CASE \E k \in Controller :
             phase = "serving" /\ (ControlCall(k) \/ ControlStep(k)) /\ UNCHANGED daemonVars
  BY <1>5, OrphanRequests
<1>6. CASE UNCHANGED vars BY <1>4, <1>6 DEF vars, others
<1> QED BY <1>1, <1>2, <1>2a, <1>3, <1>4, <1>5, <1>6 DEF Next

\* With a state directory, each account the API has created beyond those
\* saved (and the one being saved) is owed to a call of the control API or to
\* a fault: load_or_register never registers what it could have loaded.
THEOREM OrphansAreOwed == Spec => []FewOrphans
<1>1. IInv /\ OrphanInv /\ [Next]_vars => OrphanInv' BY OrphanStep
<1>2. IInv /\ OrphanInv => FewOrphans
  BY OrphanCounts, NumberTypes DEF OrphanInv, FewOrphans, WholeSlots, Saving
<1> QED BY <1>1, <1>2, OrphanInit, Inductive, PTL DEF Spec
=============================================================================
