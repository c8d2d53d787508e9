---------------------------- MODULE Registration ----------------------------
(***************************************************************************)
(* Device registration: register_auto of register.rs, which creates an     *)
(* account and enrols a key with the registration API, first over the      *)
(* system's DNS and, when that attempt fails, once more over the addresses *)
(* of doh.rs; and what the API remembers of it.                            *)
(*                                                                         *)
(* The API is external.  It acts on a request whether or not its answer    *)
(* comes back, so that a failed attempt may leave an account behind.  A    *)
(* WarpConfig is the account's id and the private key; its token is the    *)
(* one that came with the id.                                              *)
(***************************************************************************)
EXTENDS Naturals, Sequences, FiniteSets

CONSTANTS
  Registrar,         \* the tasks that call register_auto
  MaxAccounts,       \* bound on the accounts the API creates
  MaxFaults,         \* bound on what goes wrong in a behaviour
  ApiHosts,          \* the addresses at which the API answers
  API_FALLBACK_IPS,  \* the addresses doh.rs was built with
  Networks           \* what DNS answers: [dns |-> address, doh |-> addresses]

ASSUME RegistrationAssumption ==
  /\ IsFiniteSet(Registrar)
  /\ MaxAccounts \in Nat /\ MaxFaults \in Nat
  /\ \A n \in Networks : n.doh \in Seq({n.doh[i] : i \in DOMAIN n.doh})

VARIABLES
  network,   \* the network the daemon runs in
  created,   \* accounts the API has created, numbered from 1
  keys,      \* key pairs generated so far, numbered from 1
  enrolled,  \* the key the API has enrolled for each account, or 0
  reg,       \* the register_auto call each task is in
  faults     \* what has gone wrong so far

regVars == <<network, created, keys, enrolled, reg, faults>>

Call(at, via, id, key) == [at |-> at, via |-> via, id |-> id, key |-> key]
NoCall == Call("idle", "direct", 0, 0)
AccountId == 1..MaxAccounts

RegTypeOK ==
  /\ network \in Networks
  /\ created \in 0..MaxAccounts /\ keys \in 0..MaxAccounts
  /\ enrolled \in [AccountId -> 0..MaxAccounts]
  /\ reg \in [Registrar -> [at : {"idle", "create", "enroll", "doh", "done", "failed"},
                            via : {"direct", "bypass"},
                            id : 0..MaxAccounts, key : 0..MaxAccounts]]
  /\ faults \in 0..MaxFaults

RegInit ==
  /\ network \in Networks
  /\ created = 0 /\ keys = 0
  /\ enrolled = [a \in AccountId |-> 0]
  /\ reg = [p \in Registrar |-> NoCall]
  /\ faults = 0

\* Something goes wrong, within the bound.
Fault == faults < MaxFaults /\ faults' = faults + 1

-----------------------------------------------------------------------------
(* doh.rs.                                                                 *)

\* (The fallbacks only for want of an answer.)
api_addrs_DohOnly(doh) ==
  IF doh = <<>> THEN {API_FALLBACK_IPS[i] : i \in DOMAIN API_FALLBACK_IPS}
  ELSE {doh[i] : i \in DOMAIN doh}

\* The answers of the DoH server, none if it cannot be asked, and the
\* fallbacks.  reqwest tries one after the other.
api_addrs(doh) ==
  {doh[i] : i \in DOMAIN doh} \cup {API_FALLBACK_IPS[i] : i \in DOMAIN API_FALLBACK_IPS}

\* The attempt p is in gets through to the API.
Reaches(p) ==
  IF reg[p].via = "direct" THEN network.dns \in ApiHosts
  ELSE api_addrs(network.doh) \cap ApiHosts # {}

-----------------------------------------------------------------------------
(* register_auto.                                                          *)

\* The call of register_auto: a direct attempt.
register_auto(p) ==
  reg' = [reg EXCEPT ![p] = Call("create", "direct", 0, 0)]

\* What becomes of register_auto when an attempt fails.
AfterFailure(r) == Call(IF r.via = "direct" THEN "doh" ELSE "failed", r.via, 0, 0)

AttemptFails(p) == reg' = [reg EXCEPT ![p] = AfterFailure(reg[p])]

\* with_doh_bypass and the second attempt.
DohBypass(p) ==
  /\ reg[p].at = "doh"
  /\ reg' = [reg EXCEPT ![p] = IF api_addrs(network.doh) = {}
                               THEN Call("failed", "direct", 0, 0)
                               ELSE Call("create", "bypass", 0, 0)]
  /\ UNCHANGED <<network, created, keys, enrolled, faults>>

\* Step 1 reaches the API, which creates an account.  Its answer arrives with
\* a token, and the key pair is generated, or the attempt fails.
CreateAccount(p) ==
  /\ reg[p].at = "create" /\ Reaches(p) /\ created < MaxAccounts
  /\ created' = created + 1
  /\ \/ /\ keys' = keys + 1
        /\ reg' = [reg EXCEPT ![p] = Call("enroll", reg[p].via, created + 1, keys + 1)]
        /\ UNCHANGED faults
     \/ Fault /\ AttemptFails(p) /\ UNCHANGED keys
  /\ UNCHANGED <<network, enrolled>>

\* Step 1 does not reach the API, or is refused.
CreateRefused(p) ==
  /\ reg[p].at = "create"
  /\ \/ ~Reaches(p) /\ UNCHANGED faults
     \/ Reaches(p) /\ Fault
  /\ AttemptFails(p)
  /\ UNCHANGED <<network, created, keys, enrolled>>

\* (A second attempt that enrols a new key and keeps the first one.)
build_config_FirstKey(r) ==
  [id |-> r.id, key |-> IF r.via = "bypass" /\ r.key > 1 THEN r.key - 1 ELSE r.key]

\* The config of an account whose key was enrolled.
build_config(r) == [id |-> r.id, key |-> r.key]

\* Step 2 reaches the API, which enrols the key.  Its answer arrives and has
\* a peer whose endpoints parse, or the attempt fails.
EnrollKey(p) ==
  /\ reg[p].at = "enroll"
  /\ enrolled' = [enrolled EXCEPT ![reg[p].id] = reg[p].key]
  /\ \/ /\ reg' = [reg EXCEPT ![p] = Call("done", reg[p].via, build_config(reg[p]).id,
                                          build_config(reg[p]).key)]
        /\ UNCHANGED faults
     \/ Fault /\ AttemptFails(p)
  /\ UNCHANGED <<network, created, keys>>

EnrollRefused(p) ==
  /\ reg[p].at = "enroll"
  /\ Fault /\ AttemptFails(p)
  /\ UNCHANGED <<network, created, keys, enrolled>>

RegStep(p) ==
  DohBypass(p) \/ CreateAccount(p) \/ CreateRefused(p) \/ EnrollKey(p) \/ EnrollRefused(p)

\* What register_auto has returned.
Registered(p) == reg[p].at = "done"
RegisterFailed(p) == reg[p].at = "failed"
NewConfig(p) == [id |-> reg[p].id, key |-> reg[p].key]
Return(p) == reg' = [reg EXCEPT ![p] = NoCall]
=============================================================================
