----------------------------- MODULE PoolProofs -----------------------------
(***************************************************************************)
(* Proofs that the layers of PoolInv are invariants of Pool for any number *)
(* of workers, clients, accounts and tunnels.                              *)
(***************************************************************************)
EXTENDS PoolInv, SequenceTheorems, TLAPS

-----------------------------------------------------------------------------
(* The sequences calls are made of.                                        *)

\* A function on 1..n is a sequence.
LEMMA SeqOfFun ==
  ASSUME NEW S, NEW n \in Nat, NEW f \in [1..n -> S]
  PROVE  f \in Seq(S)
OBVIOUS

\* What retain leaves: entries of the list, at places that ascend and of
\* which none that is kept is missing.
LEMMA RetainedList ==
  ASSUME NEW S, NEW s \in Seq(S), NEW K \in SUBSET DOMAIN s, NEW r \in Retained(s, K)
  PROVE  /\ r \in Seq(S)
         /\ \E f \in [1..Len(r) -> K] :
              /\ \A j \in 1..Len(r) : r[j] = s[f[j]]
              /\ \A j, k \in 1..Len(r) : j < k => f[j] < f[k]
              /\ \A i \in K : \E j \in 1..Len(r) : f[j] = i
<1>0. PICK n \in 0..Len(s) : \E g \in [1..n -> K] :
        /\ r = [j \in DOMAIN g |-> s[g[j]]]
        /\ \A j, k \in DOMAIN g : j < k => g[j] < g[k]
        /\ \A i \in K : \E j \in DOMAIN g : g[j] = i
  BY DEF Retained
<1>1. PICK f \in [1..n -> K] :
        /\ r = [j \in DOMAIN f |-> s[f[j]]]
        /\ \A j, k \in DOMAIN f : j < k => f[j] < f[k]
        /\ \A i \in K : \E j \in DOMAIN f : f[j] = i
  BY <1>0
<1>2. n \in Nat /\ DOMAIN f = 1..n /\ r = [j \in 1..n |-> s[f[j]]]
  BY <1>1
<1>3. \A j \in 1..n : s[f[j]] \in S
  BY <1>1
<1>4. r \in [1..n -> S]
  BY <1>2, <1>3
<1>5. r \in Seq(S) /\ Len(r) = n
  BY <1>2, <1>4, SeqOfFun
<1>6. \A j \in 1..n : r[j] = s[f[j]]
  BY <1>2
<1>7. /\ f \in [1..Len(r) -> K]
      /\ \A j \in 1..Len(r) : r[j] = s[f[j]]
      /\ \A j, k \in 1..Len(r) : j < k => f[j] < f[k]
      /\ \A i \in K : \E j \in 1..Len(r) : f[j] = i
  BY <1>1, <1>2, <1>5, <1>6, Zenon
<1> QED
  BY <1>5, <1>7, Zenon

LEMMA ModRange ==
  ASSUME NEW a \in Nat, NEW n \in Nat \ {0}
  PROVE  a % n \in 0..(n - 1)
OBVIOUS

\* The order pick scans its snapshot in is a list of the snapshot's workers.
LEMMA StartingAtType ==
  ASSUME NEW S, NEW s \in Seq(S), s # <<>>, NEW k \in Nat
  PROVE  StartingAt(s, k) \in Seq(S) /\ StartingAt(s, k) # <<>>
<1>1. Len(s) \in Nat \ {0}
  OBVIOUS
<1>2. \A j \in 1..Len(s) : ((k + j - 1) % Len(s)) + 1 \in 1..Len(s)
  <2> TAKE j \in 1..Len(s)
  <2>1. k + j - 1 \in Nat
    OBVIOUS
  <2>2. (k + j - 1) % Len(s) \in 0..(Len(s) - 1)
    BY <2>1, <1>1, ModRange
  <2> QED
    BY <2>2, <1>1
<1>3. StartingAt(s, k) \in [1..Len(s) -> S]
  BY <1>1, <1>2 DEF StartingAt
<1>4. StartingAt(s, k) \in Seq(S)
  BY <1>1, <1>3, SeqOfFun
<1>5. DOMAIN StartingAt(s, k) = 1..Len(s)
  BY DEF StartingAt
<1> QED
  BY <1>1, <1>4, <1>5

\* Members of a list of workers are workers.
LEMMA MembersType ==
  ASSUME NEW S, NEW s \in Seq(S)
  PROVE  Members(s) \subseteq S
BY DEF Members

\* The workers a request is about are workers.
LEMMA MatchingType ==
  ASSUME workers \in Seq(WorkerId), NEW id \in 0..MaxId
  PROVE  Matching(id) \in Seq(WorkerId)
BY MembersType DEF Matching

-----------------------------------------------------------------------------
(* Layer 1.                                                                *)

\* A call may be replaced by any call of the right type and shape.
LEMMA BecomeType ==
  ASSUME TypeInv, NEW p \in Proc, NEW c \in OpType, WellFormed(c), Become(p, c)
  PROVE  op' \in [Proc -> OpType] /\ CallShape'
<1>1. op' = [op EXCEPT ![p] = c]
  BY DEF Become
<1>2. op \in [Proc -> OpType]
  BY DEF TypeInv, TypeOK, PoolTypeOK
<1>3. op' \in [Proc -> OpType]
  BY <1>1, <1>2
<1>4. \A q \in Proc : op'[q] = IF q = p THEN c ELSE op[q]
  BY <1>1, <1>2
<1>5. \A q \in Proc : WellFormed(op[q])
  BY DEF TypeInv, CallShape
<1>6. \A q \in Proc : WellFormed(op'[q])
  BY <1>4, <1>5
<1> QED
  BY <1>3, <1>6 DEF CallShape, WellFormed

LEMMA TypeInit == Init => TypeInv
<1> SUFFICES ASSUME Init PROVE TypeInv
  OBVIOUS
<1> USE WorkerAssumption, PoolAssumption DEF Init, WorkerInit, PoolInit
<1>1. WorkerTypeOK
  BY DEF WorkerTypeOK, NoBuild, NoConn, BuildType, ConnType, FetchType
<1>2. \A p \in Proc : op[p] \in OpType /\ WellFormed(op[p])
  BY DEF Proc, Call, Idle, OpType, WellFormed
<1>3. op \in [Proc -> OpType]
  BY <1>2
<1>4. PoolTypeOK
  BY <1>3 DEF PoolTypeOK
<1> QED
  BY <1>1, <1>2, <1>4 DEF TypeInv, TypeOK, CallShape

\* The parts of a worker that a successful build_tunnel replaces keep their
\* types.
LEMMA EstablishedType ==
  ASSUME TypeInv, NEW w \in WorkerId, NEW t \in Tunnel, Established(w, t)
  PROVE  /\ net' \in [WorkerId -> Tunnel \cup {None}]
         /\ tunnel' \in [WorkerId -> Tunnel \cup {None}]
         /\ dead' \in [WorkerId -> Tunnel \cup {None}]
         /\ trace' \in [WorkerId -> {"none", "current", "old"}]
         /\ build' \in [WorkerId -> BuildType]
         /\ conn' \in [Tunnel -> ConnType]
<1> USE WorkerAssumption DEF TypeInv, TypeOK, WorkerTypeOK, Established
<1>1. build[w].cfg \in Account \cup {None} /\ build[w].http2 \in BOOLEAN
  BY DEF BuildType
<1>2. conn' \in [Tunnel -> ConnType]
  BY <1>1 DEF ConnType, NoConn, Accepted
<1>3. build' \in [WorkerId -> BuildType]
  BY DEF BuildType, NoBuild
<1> QED
  BY <1>2, <1>3

\* A worker's tasks preserve the types.
LEMMA WorkerStepType ==
  ASSUME TypeInv, NEW w \in WorkerId, WorkerStep(w)
  PROVE  WorkerTypeOK'
<1> USE WorkerAssumption DEF TypeInv, TypeOK, WorkerTypeOK
<1>1. CASE BuildDial(w)
  BY <1>1 DEF BuildDial, BuildType
<1>2. CASE SupervisorWake(w)
  BY <1>2 DEF SupervisorWake
<1>3. CASE SupervisorConnect(w, Alive)
  <2>1. config[w] \in Account \cup {None}
    OBVIOUS
  <2>2. build' \in [WorkerId -> BuildType]
    <3>1. [at |-> "dial", cfg |-> config[w], http2 |-> FALSE] \in BuildType
      BY <2>1 DEF BuildType
    <3>2. CASE StartBuild(w, config[w])
      BY <3>1, <3>2 DEF StartBuild
    <3>3. CASE UNCHANGED build
      BY <3>3
    <3> QED
      BY <1>3, <3>2, <3>3 DEF SupervisorConnect
  <2> QED
    BY <1>3, <2>2 DEF SupervisorConnect
<1>4. CASE Reconnected(w)
  <2>1. PICK t \in Tunnel : SupervisorBuilt(w, t)
    BY <1>4 DEF Reconnected, FreshTunnel
  <2>2. fetches' \in SUBSET FetchType
    BY <2>1 DEF SupervisorBuilt, SpawnTrace, FetchType
  <2> QED
    BY <2>1, <2>2, EstablishedType DEF SupervisorBuilt, LoopHead
<1>5. CASE SupervisorFailed(w)
  BY <1>5 DEF SupervisorFailed, BuildFailed, NoBuild, BuildType
<1>6. CASE SupervisorRetry(w)
  BY <1>6 DEF SupervisorRetry
<1>7. CASE \E f \in fetches : f.w = w /\ (FetchStart(f) \/ FetchDone(f))
  <2>1. PICK f \in fetches : f.w = w /\ (FetchStart(f) \/ FetchDone(f))
    BY <1>7
  <2>2. f \in FetchType
    BY <2>1
  <2>3. CASE FetchStart(f)
    <3>1. fetches' \in SUBSET FetchType
      BY <2>1, <2>2, <2>3 DEF FetchStart, FetchType
    <3> QED
      BY <2>3, <3>1 DEF FetchStart
  <2>4. CASE FetchDone(f)
    BY <2>1, <2>2, <2>4 DEF FetchDone, TraceVia
  <2> QED
    BY <2>1, <2>3, <2>4
<1> QED
  BY <1>1, <1>2, <1>3, <1>4, <1>5, <1>6, <1>7 DEF WorkerStep

\* The types of a new call, once for every kind of call.
LEMMA CallType ==
  ASSUME TypeInv
  PROVE  /\ Idle \in OpType /\ WellFormed(Idle)
         /\ \A at \in {"boot", "done", "off", "armed", "exited", "snapshot",
                       "unpin", "refused", "rotate"}, w \in 0..MaxId :
              Call(at, w, <<>>, None) \in OpType /\ WellFormed(Call(at, w, <<>>, None))
         /\ \A at \in {"register", "add", "adding", "booting"}, w \in WorkerId :
              Call(at, w, <<>>, None) \in OpType /\ WellFormed(Call(at, w, <<>>, None))
         /\ \A at \in {"notify", "trace", "pick", "rr", "scan"}, s \in Seq(WorkerId) :
              s # <<>> => /\ Call(at, 0, s, None) \in OpType
                          /\ WellFormed(Call(at, 0, s, None))
         /\ \A s \in Seq(WorkerId) :
              /\ Call("default", 0, s, None) \in OpType
              /\ WellFormed(Call("default", 0, s, None))
         /\ \A s \in Seq(WorkerId), w \in WorkerId :
              s # <<>> => /\ Call("pinned", w, s, None) \in OpType
                          /\ WellFormed(Call("pinned", w, s, None))
                          /\ Call("fetch", w, s, net[w]) \in OpType
                          /\ WellFormed(Call("fetch", w, s, net[w]))
         /\ \A w \in WorkerId :
              /\ Call("picked", w, <<>>, None) \in OpType
              /\ WellFormed(Call("picked", w, <<>>, None))
<1> USE WorkerAssumption
<1>1. \A w \in WorkerId : net[w] \in Tunnel \cup {None}
  BY DEF TypeInv, TypeOK, WorkerTypeOK
<1>2. WorkerId \subseteq 0..MaxId /\ 0 \in 0..MaxId
  BY DEF WorkerId
<1>3. <<>> \in Seq(WorkerId)
  OBVIOUS
<1> USE <1>1, <1>2, <1>3 DEF Call, OpType, WellFormed
<1>4. Idle \in OpType /\ WellFormed(Idle)
  BY DEF Idle
<1>5. \A at \in {"boot", "done", "off", "armed", "exited", "snapshot",
                 "unpin", "refused", "rotate"}, w \in 0..MaxId :
        Call(at, w, <<>>, None) \in OpType /\ WellFormed(Call(at, w, <<>>, None))
  OBVIOUS
<1>6. \A at \in {"register", "add", "adding", "booting"}, w \in WorkerId :
        Call(at, w, <<>>, None) \in OpType /\ WellFormed(Call(at, w, <<>>, None))
  OBVIOUS
<1>7. \A at \in {"notify", "trace", "pick", "rr", "scan"}, s \in Seq(WorkerId) :
        s # <<>> => Call(at, 0, s, None) \in OpType /\ WellFormed(Call(at, 0, s, None))
  OBVIOUS
<1>8. \A s \in Seq(WorkerId) : /\ Call("default", 0, s, None) \in OpType
                              /\ WellFormed(Call("default", 0, s, None))
  OBVIOUS
<1>9. \A s \in Seq(WorkerId), w \in WorkerId :
        s # <<>> => Call("pinned", w, s, None) \in OpType /\ WellFormed(Call("pinned", w, s, None))
  OBVIOUS
<1>10. \A s \in Seq(WorkerId), w \in WorkerId :
        s # <<>> => Call("fetch", w, s, net[w]) \in OpType /\ WellFormed(Call("fetch", w, s, net[w]))
  OBVIOUS
<1>11. \A w \in WorkerId : /\ Call("picked", w, <<>>, None) \in OpType
                          /\ WellFormed(Call("picked", w, <<>>, None))
  OBVIOUS
<1> QED
  BY <1>4, <1>5, <1>6, <1>7, <1>8, <1>9, <1>10, <1>11

\* What a call of a given type and shape knows about its list.
LEMMA TodoType ==
  ASSUME NEW s \in Seq(WorkerId), s # <<>>
  PROVE  /\ Head(s) \in WorkerId
         /\ s[1] \in WorkerId
         /\ Tail(s) \in Seq(WorkerId)
         /\ Len(s) # 1 => Tail(s) # <<>>
         /\ Members(s) \subseteq WorkerId
<1>1. Len(s) \in Nat \ {0} /\ s \in [1..Len(s) -> WorkerId]
  OBVIOUS
<1>2. Head(s) \in WorkerId /\ s[1] \in WorkerId
  BY <1>1
<1>3. Tail(s) \in Seq(WorkerId) /\ Len(Tail(s)) = Len(s) - 1
  BY HeadTailProperties
<1>4. Len(s) # 1 => Tail(s) # <<>>
  BY <1>1, <1>3
<1> QED
  BY <1>2, <1>3, <1>4, MembersType

\* A counter that wraps stays below Laps.
LEMMA NextLapType ==
  ASSUME NEW n \in 0..(Laps - 1)
  PROVE  NextLap(n) \in 0..(Laps - 1)
BY PoolAssumption DEF NextLap

\* Pool::new preserves the types.
LEMMA BootStepType ==
  ASSUME TypeInv, BootStep
  PROVE  TypeInv'
<1> USE WorkerAssumption, PoolAssumption DEF TypeOK, WorkerTypeOK, PoolTypeOK
<1>0. /\ Boot \in Proc /\ Rotator \in Proc
      /\ op \in [Proc -> OpType]
      /\ At(Boot, "booting") => op[Boot].w \in WorkerId
  BY DEF Proc, TypeInv, CallShape, WellFormed, At
<1>1. CASE BootNext
  <2>1. next_id \in WorkerId /\ next_id + 1 \in 1..(MaxId + 1)
    BY <1>1 DEF BootNext, TypeInv, WorkerId
  <2>2. PICK a \in Account : PushWorker(next_id, a)
    BY <1>1 DEF BootNext, UnusedAccount
  <2>3. op' \in [Proc -> OpType] /\ CallShape'
    BY <1>0, <1>1, <2>1, CallType, BecomeType DEF BootNext
  <2>4. build' \in [WorkerId -> BuildType]
    BY <2>2 DEF PushWorker, StartBuild, BuildType, TypeInv
  <2>5. workers' \in Seq(WorkerId) /\ config' \in [WorkerId -> Account \cup {None}]
    BY <2>1, <2>2 DEF PushWorker, TypeInv
  <2> QED
    BY <1>1, <2>1, <2>3, <2>4, <2>5 DEF BootNext, TypeInv
<1>2. CASE \E t \in FreshTunnel : BootBuilt(t)
  <2>1. PICK t \in Tunnel : BootBuilt(t)
    BY <1>2 DEF FreshTunnel
  <2>2. op' \in [Proc -> OpType] /\ CallShape'
    BY <1>0, <2>1, CallType, BecomeType DEF BootBuilt
  <2>3. op[Boot].w \in WorkerId /\ Established(op[Boot].w, t)
    BY <1>0, <2>1 DEF BootBuilt
  <2> QED
    BY <2>1, <2>2, <2>3, EstablishedType DEF BootBuilt, LoopHead, TypeInv
<1>3. CASE BootFailed
  <2>1. op' \in [Proc -> OpType] /\ CallShape'
    BY <1>0, <1>3, CallType, BecomeType DEF BootFailed
  <2>2. build' \in [WorkerId -> BuildType]
    BY <1>3 DEF BootFailed, BuildFailed, NoBuild, BuildType, TypeInv
  <2> QED
    BY <1>3, <2>1, <2>2 DEF BootFailed, LoopHead, TypeInv
<1>4. CASE BootDone
  <2>1. \A q \in Proc : op'[q] = IF q = Boot THEN Call("done", 0, <<>>, None)
                                 ELSE IF q = Rotator THEN Idle ELSE op[q]
    BY <1>0, <1>4 DEF BootDone
  <2>2. op' \in [Proc -> OpType]
    BY <1>0, <1>4, CallType DEF BootDone
  <2>3. \A q \in Proc : WellFormed(op'[q])
    BY <2>1, CallType DEF TypeInv, CallShape
  <2>4. CallShape'
    BY <2>3 DEF CallShape, WellFormed
  <2> QED
    BY <1>4, <2>2, <2>4 DEF BootDone, TypeInv, workerVars
<1> QED
  BY <1>1, <1>2, <1>3, <1>4 DEF BootStep

\* Starting a call preserves the types.
LEMMA CallStepType ==
  ASSUME TypeInv, NEW p \in Client, CallStep(p)
  PROVE  TypeInv'
<1> USE WorkerAssumption, PoolAssumption DEF TypeOK, WorkerTypeOK, PoolTypeOK
<1>0. /\ p \in Proc /\ workers \in Seq(WorkerId) /\ next_id \in Nat
      /\ WorkerId \subseteq 0..MaxId /\ 0 \in 0..MaxId
  BY DEF Proc, TypeInv, WorkerId
<1>1. ASSUME NEW on \in BOOLEAN, SetEnabled(p, on) PROVE TypeInv'
  BY <1>1 DEF SetEnabled, TypeInv, CallShape, workerVars, WellFormed
<1>2. ASSUME NEW on \in BOOLEAN, SetHttp2(p, on) PROVE TypeInv'
  <2>1. op' \in [Proc -> OpType] /\ CallShape'
    BY <1>0, <1>2, CallType, BecomeType DEF SetHttp2
  <2> QED
    BY <1>2, <2>1 DEF SetHttp2, TypeInv
<1>3. ASSUME NEW id \in 0..MaxId, Select(p, id) PROVE TypeInv'
  BY <1>3 DEF Select, TypeInv, CallShape, workerVars, WellFormed
<1>4. ASSUME NEW id \in 0..MaxId, Reconnect(p, id) PROVE TypeInv'
  <2>1. op' \in [Proc -> OpType] /\ CallShape'
    BY <1>0, <1>4, CallType, BecomeType, MatchingType DEF Reconnect
  <2> QED
    BY <1>4, <2>1 DEF Reconnect, TypeInv, workerVars
<1>5. ASSUME NEW id \in 0..MaxId, Rotate(p, id) PROVE TypeInv'
  <2>1. op' \in [Proc -> OpType] /\ CallShape'
    BY <1>0, <1>5, CallType, BecomeType DEF Rotate
  <2> QED
    BY <1>5, <2>1 DEF Rotate, TypeInv, workerVars
<1>6. ASSUME NEW id \in 0..MaxId, RefreshTrace(p, id) PROVE TypeInv'
  <2>1. op' \in [Proc -> OpType] /\ CallShape'
    BY <1>0, <1>6, CallType, BecomeType, MatchingType DEF RefreshTrace
  <2> QED
    BY <1>6, <2>1 DEF RefreshTrace, TypeInv, workerVars
<1>7. ASSUME NEW secs \in Intervals, SetRotateInterval(p, secs) PROVE TypeInv'
  <2>1. rotate_secs' \in Nat
    BY <1>7 DEF SetRotateInterval, Clamped
  <2> QED
    BY <1>7, <2>1 DEF SetRotateInterval, TypeInv, CallShape, workerVars, WellFormed
<1>8. CASE AddAccount(p)
  <2>1. next_id \in WorkerId /\ next_id + 1 \in 1..(MaxId + 1)
    BY <1>8 DEF AddAccount, TypeInv, WorkerId
  <2>2. op' \in [Proc -> OpType] /\ CallShape'
    BY <1>0, <1>8, <2>1, CallType, BecomeType DEF AddAccount
  <2> QED
    BY <1>8, <2>1, <2>2 DEF AddAccount, TypeInv, workerVars
<1>9. ASSUME NEW id \in WorkerId, RemoveAccount(p, id) PROVE TypeInv'
  <2>1. workers' \in Seq(WorkerId)
    BY <1>0, <1>9, RetainedList DEF RemoveAccount
  <2>2. op' \in [Proc -> OpType] /\ CallShape'
    <3>1. id \in 0..MaxId
      BY <1>0
    <3> QED
      BY <1>0, <1>9, <3>1, CallType, BecomeType DEF RemoveAccount
  <2> QED
    BY <1>9, <2>1, <2>2 DEF RemoveAccount, TypeInv, workerVars
<1>10. CASE Pick(p)
  <2>1. op' \in [Proc -> OpType] /\ CallShape'
    <3>1. CASE workers = <<>>
      BY <1>0, <1>10, <3>1, CallType, BecomeType DEF Pick
    <3>2. CASE workers # <<>>
      BY <1>0, <1>10, <3>2, CallType, BecomeType DEF Pick
    <3> QED
      BY <3>1, <3>2
  <2> QED
    BY <1>10, <2>1 DEF Pick, TypeInv, workerVars
<1> QED
  BY <1>1, <1>2, <1>3, <1>4, <1>5, <1>6, <1>7, <1>8, <1>9, <1>10 DEF CallStep

\* A step of a call that waits for nobody preserves the types.
LEMMA LocalStepType ==
  ASSUME TypeInv, NEW p \in Proc, LocalStep(p)
  PROVE  TypeInv'
<1> USE WorkerAssumption, PoolAssumption DEF TypeOK, WorkerTypeOK, PoolTypeOK
<1>0. /\ workers \in Seq(WorkerId) /\ rr \in 0..(Laps - 1) /\ rr \in Nat
      /\ Members(workers) \subseteq WorkerId
  BY MembersType DEF TypeInv
<1>a. op[p] \in OpType /\ WellFormed(op[p])
  BY DEF TypeInv, CallShape
<1>b. /\ op[p].todo \in Seq(WorkerId)
      /\ op[p].w \in 0..MaxId
      /\ op[p].net \in Tunnel \cup {None}
  BY <1>a DEF OpType
<1>c. Members(op[p].todo) \subseteq WorkerId
  BY <1>b, MembersType
<1>1. CASE NotifyNext(p)
  <2>1. op[p].todo # <<>>
    BY <1>1, <1>a DEF NotifyNext, At, WellFormed
  <2>2. op' \in [Proc -> OpType] /\ CallShape'
    BY <1>1, <1>b, <2>1, TodoType, CallType, BecomeType DEF NotifyNext
  <2> QED
    BY <1>1, <2>2 DEF NotifyNext, TypeInv
<1>2. CASE ReconnectAll(p)
  <2>1. op' \in [Proc -> OpType] /\ CallShape'
    BY <1>2, <1>0, CallType, BecomeType DEF ReconnectAll
  <2> QED
    BY <1>2, <2>1 DEF ReconnectAll, TypeInv, workerVars
<1>3. CASE RotateFind(p)
  <2>1. op' \in [Proc -> OpType] /\ CallShape'
    BY <1>3, <1>0, CallType, BecomeType DEF RotateFind
  <2> QED
    BY <1>3, <2>1 DEF RotateFind, TypeInv, workerVars
<1>4. CASE RotateDefault(p)
  <2>1. op' \in [Proc -> OpType] /\ CallShape'
    BY <1>4, <1>b, <1>c, TodoType, CallType, BecomeType DEF RotateDefault
  <2> QED
    BY <1>4, <2>1 DEF RotateDefault, TypeInv, workerVars
<1>5. CASE RemoveUnpin(p)
  <2>1. op' \in [Proc -> OpType] /\ CallShape'
    BY <1>5, CallType, BecomeType DEF RemoveUnpin
  <2> QED
    BY <1>5, <2>1 DEF RemoveUnpin, TypeInv, workerVars
<1>6. CASE TraceNext(p)
  <2>1. op[p].todo # <<>>
    BY <1>6, <1>a DEF TraceNext, At, WellFormed
  <2>2. op' \in [Proc -> OpType] /\ CallShape'
    BY <1>6, <1>b, <2>1, TodoType, CallType, BecomeType DEF TraceNext, TraceRest
  <2> QED
    BY <1>6, <2>2 DEF TraceNext, TypeInv, workerVars
<1>7. CASE TraceDone(p)
  <2>1. op[p].todo # <<>>
    BY <1>7, <1>a DEF TraceDone, At, WellFormed
  <2>2. op' \in [Proc -> OpType] /\ CallShape'
    BY <1>7, <1>b, <2>1, TodoType, CallType, BecomeType DEF TraceDone, TraceRest
  <2> QED
    BY <1>7, <2>2 DEF TraceDone, TraceVia, TypeInv
<1>8. CASE PickPin(p)
  <2>1. op[p].todo # <<>>
    BY <1>8, <1>a DEF PickPin, At, WellFormed
  <2>2. op' \in [Proc -> OpType] /\ CallShape'
    BY <1>8, <1>b, <1>c, <2>1, CallType, BecomeType DEF PickPin
  <2> QED
    BY <1>8, <2>2 DEF PickPin, TypeInv, workerVars
<1>9. CASE PickPinned(p)
  <2>1. op[p].todo # <<>> /\ op[p].w \in WorkerId
    BY <1>9, <1>a DEF PickPinned, At, WellFormed
  <2>2. op' \in [Proc -> OpType] /\ CallShape'
    BY <1>9, <1>b, <2>1, CallType, BecomeType DEF PickPinned
  <2> QED
    BY <1>9, <2>2 DEF PickPinned, TypeInv, workerVars
<1>10. CASE PickStart(p)
  <2>1. op[p].todo # <<>>
    BY <1>10, <1>a DEF PickStart, At, WellFormed
  <2>2. op' \in [Proc -> OpType] /\ CallShape'
    BY <1>10, <1>0, <1>b, <2>1, StartingAtType, CallType, BecomeType DEF PickStart
  <2>3. rr' \in 0..(Laps - 1)
    BY <1>10, <1>0, NextLapType DEF PickStart
  <2> QED
    BY <1>10, <2>2, <2>3 DEF PickStart, TypeInv, workerVars
<1>11. CASE PickScan(p)
  <2>1. op[p].todo # <<>>
    BY <1>11, <1>a DEF PickScan, At, WellFormed
  <2>2. op' \in [Proc -> OpType] /\ CallShape'
    <3> DEFINE w == Head(op[p].todo)
    <3>1. w \in WorkerId /\ Tail(op[p].todo) \in Seq(WorkerId)
      BY <1>b, <2>1, TodoType
    <3>2. CASE net[w] # None
      BY <1>11, <3>1, <3>2, CallType, BecomeType DEF PickScan
    <3>3. CASE net[w] = None /\ Len(op[p].todo) = 1
      BY <1>11, <3>3, CallType, BecomeType DEF PickScan
    <3>4. CASE net[w] = None /\ Len(op[p].todo) # 1
      <4>1. Tail(op[p].todo) # <<>>
        BY <1>b, <2>1, <3>4, TodoType
      <4> QED
        BY <1>11, <3>1, <3>4, <4>1, CallType, BecomeType DEF PickScan
    <3> QED
      BY <3>2, <3>3, <3>4
  <2> QED
    BY <1>11, <2>2 DEF PickScan, TypeInv, workerVars
<1> QED
  BY <1>1, <1>2, <1>3, <1>4, <1>5, <1>6, <1>7, <1>8, <1>9, <1>10, <1>11 DEF LocalStep

\* An answer from outside preserves the types.
LEMMA AnswerStepType ==
  ASSUME TypeInv, NEW p \in Proc, AnswerStep(p)
  PROVE  TypeInv'
<1> USE WorkerAssumption, PoolAssumption DEF TypeOK, WorkerTypeOK, PoolTypeOK
<1>0. workers \in Seq(WorkerId)
  BY DEF TypeInv
<1>a. op[p] \in OpType /\ WellFormed(op[p])
  BY DEF TypeInv, CallShape
<1>1. CASE RotateRegistered(p)
  <2>1. op[p].w \in WorkerId
    BY <1>1, <1>a DEF RotateRegistered, At, WellFormed
  <2>2. PICK a \in Account : config' = [config EXCEPT ![op[p].w] = a]
    BY <1>1 DEF RotateRegistered, FreshAccount, UnusedAccount
  <2>3. <<op[p].w>> \in Seq(WorkerId) /\ <<op[p].w>> # <<>>
    BY <2>1
  <2>4. op' \in [Proc -> OpType] /\ CallShape'
    BY <1>1, <2>3, CallType, BecomeType DEF RotateRegistered
  <2>5. config' \in [WorkerId -> Account \cup {None}]
    BY <2>2 DEF TypeInv
  <2> QED
    BY <1>1, <2>4, <2>5 DEF RotateRegistered, TypeInv
<1>2. CASE RotateFailed(p)
  <2>1. op' \in [Proc -> OpType] /\ CallShape'
    BY <1>2, CallType, BecomeType DEF RotateFailed
  <2> QED
    BY <1>2, <2>1 DEF RotateFailed, TypeInv, workerVars
<1>3. CASE AddRegistered(p)
  <2>1. op[p].w \in WorkerId
    BY <1>3, <1>a DEF AddRegistered, At, WellFormed
  <2>2. PICK a \in Account : PushWorker(op[p].w, a)
    BY <1>3 DEF AddRegistered, FreshAccount, UnusedAccount
  <2>3. op' \in [Proc -> OpType] /\ CallShape'
    BY <1>3, <2>1, CallType, BecomeType DEF AddRegistered
  <2>4. build' \in [WorkerId -> BuildType]
    BY <2>2 DEF PushWorker, StartBuild, BuildType, TypeInv
  <2>5. workers' \in Seq(WorkerId) /\ config' \in [WorkerId -> Account \cup {None}]
    BY <1>0, <2>1, <2>2 DEF PushWorker, TypeInv
  <2> QED
    BY <1>3, <2>3, <2>4, <2>5 DEF AddRegistered, TypeInv
<1>4. CASE AddFailed(p)
  <2>1. op' \in [Proc -> OpType] /\ CallShape'
    BY <1>4, CallType, BecomeType DEF AddFailed
  <2> QED
    BY <1>4, <2>1 DEF AddFailed, TypeInv, workerVars
<1>5. CASE \E t \in FreshTunnel : AddBuilt(p, t)
  <2>1. PICK t \in Tunnel : AddBuilt(p, t)
    BY <1>5 DEF FreshTunnel
  <2>2. op[p].w \in WorkerId
    BY <1>a, <2>1 DEF AddBuilt, At, WellFormed
  <2>3. op' \in [Proc -> OpType] /\ CallShape'
    BY <2>1, CallType, BecomeType DEF AddBuilt
  <2>4. fetches' \in SUBSET FetchType
    BY <2>1, <2>2 DEF AddBuilt, SpawnTrace, FetchType, TypeInv
  <2>5. Established(op[p].w, t)
    BY <2>1 DEF AddBuilt
  <2> QED
    BY <2>1, <2>2, <2>3, <2>4, <2>5, EstablishedType DEF AddBuilt, LoopHead, TypeInv
<1>6. CASE AddBuildFailed(p)
  <2>1. op' \in [Proc -> OpType] /\ CallShape'
    BY <1>6, CallType, BecomeType DEF AddBuildFailed
  <2>2. build' \in [WorkerId -> BuildType]
    BY <1>6 DEF AddBuildFailed, BuildFailed, NoBuild, BuildType, TypeInv
  <2> QED
    BY <1>6, <2>1, <2>2 DEF AddBuildFailed, TypeInv
<1> QED
  BY <1>1, <1>2, <1>3, <1>4, <1>5, <1>6 DEF AnswerStep

\* The rotator's own steps preserve the types.
LEMMA RotatorStepType ==
  ASSUME TypeInv, RotatorArm \/ RotatorFire
  PROVE  TypeInv'
<1> USE WorkerAssumption, PoolAssumption DEF TypeOK, WorkerTypeOK, PoolTypeOK
<1>0. /\ Rotator \in Proc /\ 0 \in 0..MaxId
      /\ workers \in Seq(WorkerId) /\ rotIdx \in 0..(Laps - 1) /\ rotIdx \in Nat
  BY DEF Proc, TypeInv
<1>1. CASE RotatorArm
  <2>1. op' \in [Proc -> OpType] /\ CallShape'
    <3>1. CASE Alive
      BY <1>0, <1>1, <3>1, CallType, BecomeType DEF RotatorArm
    <3>2. CASE ~Alive
      BY <1>0, <1>1, <3>2, CallType, BecomeType DEF RotatorArm
    <3> QED
      BY <3>1, <3>2
  <2> QED
    BY <1>1, <2>1 DEF RotatorArm, TypeInv, workerVars
<1>2. CASE RotatorFire
  <2>1. CASE ~Alive
    <3>1. op' \in [Proc -> OpType] /\ CallShape'
      BY <1>0, <1>2, <2>1, CallType, BecomeType DEF RotatorFire
    <3> QED
      BY <1>2, <2>1, <3>1 DEF RotatorFire, TypeInv, workerVars
  <2>2. CASE Alive /\ (rotate_secs = 0 \/ workers = <<>>)
    <3>1. op' \in [Proc -> OpType] /\ CallShape'
      BY <1>0, <1>2, <2>2, CallType, BecomeType DEF RotatorFire
    <3> QED
      BY <1>2, <2>2, <3>1 DEF RotatorFire, TypeInv, workerVars
  <2>3. CASE Alive /\ rotate_secs # 0 /\ workers # <<>>
    <3>1. Len(workers) \in Nat \ {0}
      BY <1>0, <2>3
    <3>2. (rotIdx % Len(workers)) + 1 \in 1..Len(workers)
      <4>1. rotIdx % Len(workers) \in 0..(Len(workers) - 1)
        BY <1>0, <3>1, ModRange
      <4> QED
        BY <3>1, <4>1
    <3>3. workers[(rotIdx % Len(workers)) + 1] \in WorkerId
      BY <1>0, <3>2
    <3>4. workers[(rotIdx % Len(workers)) + 1] \in 0..MaxId
      BY <3>3 DEF WorkerId
    <3>5. Become(Rotator, Call("rotate", workers[(rotIdx % Len(workers)) + 1],
                               <<>>, None)) /\ rotIdx' = NextLap(rotIdx)
      BY <1>2, <2>3 DEF RotatorFire
    <3>6. op' \in [Proc -> OpType] /\ CallShape'
      BY <1>0, <3>4, <3>5, CallType, BecomeType
    <3>7. rotIdx' \in 0..(Laps - 1)
      BY <1>0, <3>5, NextLapType
    <3> QED
      BY <1>2, <3>6, <3>7 DEF RotatorFire, TypeInv, workerVars
  <2> QED
    BY <2>1, <2>2, <2>3
<1> QED
  BY <1>1, <1>2

LEMMA TypeStep == TypeInv /\ [Next]_vars => TypeInv'
<1> SUFFICES ASSUME TypeInv, [Next]_vars PROVE TypeInv'
  OBVIOUS
<1> USE DEF TypeOK, PoolTypeOK
<1>1. CASE BootStep
  BY <1>1, BootStepType
<1>2. ASSUME NEW p \in Client, CallStep(p) PROVE TypeInv'
  BY <1>2, CallStepType
<1>3. ASSUME NEW p \in Client \cup {Rotator}, LocalStep(p) \/ AnswerStep(p)
      PROVE TypeInv'
  <2>1. p \in Proc
    BY DEF Proc
  <2> QED
    BY <1>3, <2>1, LocalStepType, AnswerStepType
<1>4. ASSUME NEW p \in Client, PickEnd(p) PROVE TypeInv'
  <2>1. op' \in [Proc -> OpType] /\ CallShape'
    BY <1>4, CallType, BecomeType DEF PickEnd, Proc
  <2> QED
    BY <1>4, <2>1 DEF PickEnd, TypeInv, workerVars, WorkerTypeOK
<1>5. CASE RotatorArm \/ RotatorFire
  BY <1>5, RotatorStepType
<1>6. CASE DropPool
  BY <1>6 DEF DropPool, TypeInv, workerVars, WorkerTypeOK, CallShape, WellFormed
<1>7. ASSUME NEW w \in WorkerId, WorkerStep(w), UNCHANGED poolVars PROVE TypeInv'
  <2>1. WorkerTypeOK'
    BY <1>7, WorkerStepType
  <2> QED
    BY <1>7, <2>1 DEF poolVars, TypeInv, CallShape, WellFormed
<1>8. ASSUME NEW t \in Tunnel, TunnelDies(t), UNCHANGED poolVars PROVE TypeInv'
  <2>1. conn' \in [Tunnel -> ConnType]
    BY <1>8 DEF TunnelDies, TypeInv, WorkerTypeOK, ConnType
  <2>2. WorkerTypeOK'
    BY <1>8, <2>1 DEF TunnelDies, TypeInv, WorkerTypeOK
  <2> QED
    BY <1>8, <2>2 DEF poolVars, TypeInv, CallShape, WellFormed
<1>9. CASE UNCHANGED vars
  BY <1>9 DEF vars, workerVars, poolVars, TypeInv, WorkerTypeOK, CallShape, WellFormed
<1> QED
  BY <1>1, <1>2, <1>3, <1>4, <1>5, <1>6, <1>7, <1>8, <1>9 DEF Next

\* Every variable of the pool keeps its type, and every call its shape: a
\* list that is being visited is not empty and names workers only, so that
\* no index or id in pool.rs can miss.
THEOREM TypeCorrect == Spec => [](TypeOK /\ CallShape)
<1>1. Init => TypeInv
  BY TypeInit
<1>2. TypeInv /\ [Next]_vars => TypeInv'
  BY TypeStep
<1> QED
  BY <1>1, <1>2, PTL DEF Spec, TypeInv

-----------------------------------------------------------------------------
(* Layer 2.                                                                *)

\* A step that leaves the owners of builds and tunnels alone: calls that do
\* not bring up a worker come and go.
QuietOwner ==
  /\ UNCHANGED <<sup, build, net, tunnel, dead, next_id>>
  /\ \A q \in Proc : \/ op'[q] = op[q]
                     \/ /\ op[q].at \notin {"add", "adding", "booting"}
                        /\ op'[q].at \notin {"add", "adding", "booting"}

LEMMA OpAfter ==
  ASSUME TypeInv, NEW p \in Proc, NEW c, Become(p, c)
  PROVE  \A q \in Proc : op'[q] = IF q = p THEN c ELSE op[q]
BY DEF TypeInv, TypeOK, PoolTypeOK, Become

LEMMA QuietKeepsOwner ==
  ASSUME TypeInv, OwnerInv, QuietOwner
  PROVE  OwnerInv'
<1> USE DEF OwnerInv, QuietOwner
<1>0. Rotator \in Proc
  BY DEF Proc
<1>1. RaisedAlone'
  <2>1. \A q \in Proc : Raises(q)' => Raises(q) /\ op'[q] = op[q]
    BY DEF Raises
  <2> QED
    BY <1>0, <2>1 DEF RaisedAlone
<1>2. BuildOwned'
  BY DEF BuildOwned
<1> QED
  BY <1>1, <1>2 DEF ServedTunnelIsWatched, TunnelsApart

\* Calls that do not bring up a worker, and the fates of tunnels and traces.
LEMMA QuietCallStep ==
  ASSUME TypeInv, NEW p \in Client, CallStep(p), ~AddAccount(p)
  PROVE  QuietOwner
<1> USE DEF QuietOwner, workerVars, Call, Idle
<1>0. p \in Proc
  BY DEF Proc
<1>1. ASSUME NEW on \in BOOLEAN, SetEnabled(p, on) PROVE QuietOwner
  BY <1>1 DEF SetEnabled
<1>2. ASSUME NEW on \in BOOLEAN, SetHttp2(p, on) PROVE QuietOwner
  BY <1>0, <1>2, OpAfter DEF SetHttp2, Begin, At
<1>3. ASSUME NEW id \in 0..MaxId, Select(p, id) PROVE QuietOwner
  BY <1>3 DEF Select
<1>4. ASSUME NEW id \in 0..MaxId, Reconnect(p, id) PROVE QuietOwner
  BY <1>0, <1>4, OpAfter DEF Reconnect, Begin, At
<1>5. ASSUME NEW id \in 0..MaxId, Rotate(p, id) PROVE QuietOwner
  BY <1>0, <1>5, OpAfter DEF Rotate, Begin, At
<1>6. ASSUME NEW id \in 0..MaxId, RefreshTrace(p, id) PROVE QuietOwner
  BY <1>0, <1>6, OpAfter DEF RefreshTrace, Begin, At
<1>7. ASSUME NEW secs \in Intervals, SetRotateInterval(p, secs) PROVE QuietOwner
  BY <1>7 DEF SetRotateInterval
<1>9. ASSUME NEW id \in WorkerId, RemoveAccount(p, id) PROVE QuietOwner
  BY <1>0, <1>9, OpAfter DEF RemoveAccount, Begin, At
<1>10. CASE Pick(p)
  BY <1>0, <1>10, OpAfter DEF Pick, Begin, At
<1> QED
  BY <1>1, <1>2, <1>3, <1>4, <1>5, <1>6, <1>7, <1>9, <1>10 DEF CallStep

LEMMA QuietLocalStep ==
  ASSUME TypeInv, NEW p \in Proc, LocalStep(p)
  PROVE  QuietOwner
<1> USE DEF QuietOwner, workerVars, Call, Idle, At
<1>1. CASE NotifyNext(p)
  BY <1>1, OpAfter DEF NotifyNext
<1>2. CASE ReconnectAll(p)
  BY <1>2, OpAfter DEF ReconnectAll
<1>3. CASE RotateFind(p)
  BY <1>3, OpAfter DEF RotateFind
<1>4. CASE RotateDefault(p)
  BY <1>4, OpAfter DEF RotateDefault
<1>5. CASE RemoveUnpin(p)
  BY <1>5, OpAfter DEF RemoveUnpin
<1>6. CASE TraceNext(p)
  BY <1>6, OpAfter DEF TraceNext, TraceRest
<1>7. CASE TraceDone(p)
  BY <1>7, OpAfter DEF TraceDone, TraceRest
<1>8. CASE PickPin(p)
  BY <1>8, OpAfter DEF PickPin
<1>9. CASE PickPinned(p)
  BY <1>9, OpAfter DEF PickPinned
<1>10. CASE PickStart(p)
  BY <1>10, OpAfter DEF PickStart
<1>11. CASE PickScan(p)
  BY <1>11, OpAfter DEF PickScan
<1> QED
  BY <1>1, <1>2, <1>3, <1>4, <1>5, <1>6, <1>7, <1>8, <1>9, <1>10, <1>11 DEF LocalStep

\* A fresh tunnel is installed in worker w, and its supervisor watches it.
LEMMA InstallOwner ==
  ASSUME TypeInv, OwnerInv, NEW w \in WorkerId, NEW t \in FreshTunnel,
         Established(w, t), sup' = [sup EXCEPT ![w] = LoopHead(t)]
  PROVE  ServedTunnelIsWatched' /\ TunnelsApart' /\ sup'[w] = "wait"
<1> USE DEF TypeInv, TypeOK, WorkerTypeOK, OwnerInv, Established
<1>1. t \in Tunnel /\ t # None /\ \A v \in WorkerId : tunnel[v] # t
  BY WorkerAssumption DEF FreshTunnel
<1>2. sup'[w] = "wait" /\ \A v \in WorkerId : v # w => sup'[v] = sup[v]
  BY <1>1 DEF LoopHead
<1>3. ServedTunnelIsWatched'
  BY <1>1, <1>2 DEF ServedTunnelIsWatched
<1>4. TunnelsApart'
  BY <1>1 DEF TunnelsApart
<1> QED
  BY <1>2, <1>3, <1>4

\* A call p that is bringing up worker w hands it to its supervisor.
LEMMA HandOver ==
  ASSUME TypeInv, OwnerInv, NEW p \in Proc,
         op[p].at \in {"adding", "booting"},
         op'[p].at \notin {"add", "adding", "booting"},
         \A q \in Proc : q # p => op'[q] = op[q],
         build' = [build EXCEPT ![op[p].w] = NoBuild],
         sup'[op[p].w] \in {"absent", "wait", "retry"},
         \A v \in WorkerId : v # op[p].w => sup'[v] = sup[v],
         UNCHANGED next_id
  PROVE  RaisedAlone' /\ BuildOwned'
<1> DEFINE w == op[p].w
<1> USE DEF OwnerInv
<1>1. w \in WorkerId /\ Rotator \in Proc /\ Raises(p)
  BY DEF TypeInv, CallShape, WellFormed, Proc, Raises
<1>2. \A q \in Proc : q # p => op'[q] = op[q]
  OBVIOUS
<1>3. \A v \in WorkerId : /\ v # w => sup'[v] = sup[v]
                         /\ build'[v] = (IF v = w THEN NoBuild ELSE build[v])
  BY <1>1 DEF TypeInv, TypeOK, WorkerTypeOK
<1>4. \A q \in Proc : Raises(q)' => q # p /\ Raises(q) /\ op'[q] = op[q] /\ op[q].w # w
  BY <1>1, <1>2 DEF Raises, RaisedAlone
<1>5. \A q \in Proc : Raises(q)' => op[q].w \in WorkerId
  BY <1>4 DEF Raises, TypeInv, CallShape, WellFormed
<1>6. w < next_id /\ next_id \in Nat
  BY <1>1 DEF RaisedAlone, TypeInv, TypeOK, PoolTypeOK
<1>7. RaisedAlone'
  BY <1>1, <1>3, <1>4, <1>5, <1>6 DEF RaisedAlone, WorkerId
<1>8. BuildOwned'
  <2> SUFFICES ASSUME NEW v \in WorkerId
               PROVE  build'[v].at # "none" <=>
                        \/ sup'[v] = "connect"
                        \/ \E q \in Proc : op'[q].at \in {"booting", "adding"}
                                           /\ op'[q].w = v
    BY DEF BuildOwned
  <2>1. CASE v = w
    <3>1. build'[v].at = "none" /\ sup'[v] # "connect"
      BY <1>3, <2>1 DEF NoBuild
    <3>2. \A q \in Proc : op'[q].at \in {"booting", "adding"} => op'[q].w # v
      BY <1>4, <2>1 DEF Raises
    <3> QED
      BY <3>1, <3>2
  <2>2. CASE v # w
    <3>1. build'[v] = build[v] /\ sup'[v] = sup[v]
      BY <1>3, <2>2
    <3>2. \A q \in Proc : (op'[q].at \in {"booting", "adding"} /\ op'[q].w = v)
                          <=> (op[q].at \in {"booting", "adding"} /\ op[q].w = v)
      BY <1>2, <2>2
    <3> QED
      BY <3>1, <3>2 DEF BuildOwned
  <2> QED
    BY <2>1, <2>2
<1> QED
  BY <1>7, <1>8

\* A call p takes the next id, or starts to connect the worker it took.
LEMMA TakeOn ==
  ASSUME TypeInv, OwnerInv, NEW p \in Proc, p # Rotator, NEW w \in WorkerId,
         NEW at \in {"add", "adding", "booting"}, Become(p, Call(at, w, <<>>, None)),
         \/ ~Raises(p) /\ w = next_id /\ next_id' = next_id + 1
         \/ op[p].at = "add" /\ w = op[p].w /\ UNCHANGED next_id,
         NEW cfg,
         IF at = "add" THEN UNCHANGED build ELSE StartBuild(w, cfg),
         UNCHANGED sup
  PROVE  RaisedAlone' /\ BuildOwned' /\ sup[w] = "absent"
<1> USE DEF OwnerInv
<1>1. \A q \in Proc : op'[q] = IF q = p THEN Call(at, w, <<>>, None) ELSE op[q]
  BY OpAfter
<1>2. op'[p].at = at /\ op'[p].w = w
  BY <1>1 DEF Call
<1>3. next_id \in Nat /\ next_id' \in Nat /\ next_id <= next_id' /\ w < next_id'
  BY DEF TypeInv, TypeOK, PoolTypeOK, WorkerId, RaisedAlone, Raises
<1>4. sup[w] = "absent" /\ \A q \in Proc : q # p /\ Raises(q) => op[q].w # w
  <2>1. CASE ~Raises(p) /\ w = next_id
    BY <2>1, <1>3 DEF RaisedAlone
  <2>2. CASE op[p].at = "add" /\ w = op[p].w
    BY <2>2 DEF RaisedAlone, Raises
  <2> QED
    BY <2>1, <2>2
<1>5. \A q \in Proc : q # p => (Raises(q)' <=> Raises(q)) /\ op'[q] = op[q]
  BY <1>1 DEF Raises
<1>6. \A q \in Proc : q # p /\ Raises(q) => op[q].w \in WorkerId
  BY DEF Raises, TypeInv, CallShape, WellFormed
<1>7. RaisedAlone'
  <2>1. ~Raises(Rotator)'
    BY <1>5 DEF RaisedAlone, Proc
  <2>2. \A q \in Proc : Raises(q)' => sup'[op'[q].w] = "absent" /\ op'[q].w < next_id'
    <3> SUFFICES ASSUME NEW q \in Proc, Raises(q)'
                 PROVE  sup'[op'[q].w] = "absent" /\ op'[q].w < next_id'
      OBVIOUS
    <3>1. CASE q = p
      BY <3>1, <1>2, <1>3, <1>4
    <3>2. CASE q # p
      BY <3>2, <1>3, <1>5, <1>6 DEF RaisedAlone, WorkerId
    <3> QED
      BY <3>1, <3>2
  <2>3. \A q, r \in Proc : (Raises(q)' /\ Raises(r)' /\ op'[q].w = op'[r].w) => q = r
    BY <1>2, <1>4, <1>5 DEF RaisedAlone
  <2>4. \A v \in WorkerId : v >= next_id' => sup'[v] = "absent"
    BY <1>3 DEF RaisedAlone, WorkerId
  <2> QED
    BY <2>1, <2>2, <2>3, <2>4 DEF RaisedAlone
<1>8. BuildOwned'
  <2> SUFFICES ASSUME NEW v \in WorkerId
               PROVE  build'[v].at # "none" <=>
                        \/ sup'[v] = "connect"
                        \/ \E q \in Proc : op'[q].at \in {"booting", "adding"}
                                           /\ op'[q].w = v
    BY DEF BuildOwned
  <2>0. op[p].at \notin {"booting", "adding"}
    BY DEF Raises
  <2>1. CASE at = "add" \/ v # w
    <3>1. build'[v] = build[v] /\ sup'[v] = sup[v]
      BY <2>1 DEF StartBuild, TypeInv, TypeOK, WorkerTypeOK
    <3>2. \A q \in Proc : (op'[q].at \in {"booting", "adding"} /\ op'[q].w = v)
                          <=> (op[q].at \in {"booting", "adding"} /\ op[q].w = v)
      BY <1>1, <1>2, <2>0, <2>1
    <3> QED
      BY <3>1, <3>2 DEF BuildOwned
  <2>2. CASE at # "add" /\ v = w
    <3>1. build'[v].at = "dial"
      BY <2>2 DEF StartBuild, TypeInv, TypeOK, WorkerTypeOK
    <3> QED
      BY <1>2, <2>2, <3>1
  <2> QED
    BY <2>1, <2>2
<1> QED
  BY <1>4, <1>7, <1>8

\* Pool::new keeps the owners in order.
LEMMA BootStepOwner ==
  ASSUME TypeInv, OwnerInv, BootStep
  PROVE  OwnerInv'
<1>0. Boot \in Proc /\ Rotator \in Proc /\ Boot # Rotator
  BY PoolAssumption DEF Proc
<1>1. CASE BootNext
  <2>1. next_id \in WorkerId
    BY <1>1, PoolAssumption, WorkerAssumption
    DEF BootNext, TypeInv, TypeOK, PoolTypeOK, WorkerId
  <2>2. PICK a : StartBuild(next_id, a)
    BY <1>1 DEF BootNext, PushWorker
  <2>3. RaisedAlone' /\ BuildOwned'
    BY <1>0, <1>1, <2>1, <2>2, TakeOn DEF BootNext, At, Raises
  <2> QED
    BY <1>1, <2>3 DEF BootNext, OwnerInv, ServedTunnelIsWatched, TunnelsApart
<1>2. CASE \E t \in FreshTunnel : BootBuilt(t)
  <2>1. PICK t \in FreshTunnel : BootBuilt(t)
    BY <1>2
  <2>2. op[Boot].w \in WorkerId
    BY <1>0, <2>1 DEF BootBuilt, At, TypeInv, CallShape, WellFormed
  <2>3. ServedTunnelIsWatched' /\ TunnelsApart'
    BY <2>1, <2>2, InstallOwner DEF BootBuilt
  <2>4. LoopHead(t) = "wait"
    BY WorkerAssumption DEF LoopHead, FreshTunnel
  <2>5. build' = [build EXCEPT ![op[Boot].w] = NoBuild]
    BY <2>1 DEF BootBuilt, Established
  <2>6. Call("boot", 0, <<>>, None).at = "boot"
    BY DEF Call
  <2>7. RaisedAlone' /\ BuildOwned'
    <3>1. /\ op[Boot].at \in {"adding", "booting"} /\ UNCHANGED next_id
          /\ sup' = [sup EXCEPT ![op[Boot].w] = "wait"]
      BY <2>1, <2>4 DEF BootBuilt, At
    <3>2. /\ op'[Boot].at \notin {"add", "adding", "booting"}
          /\ \A q \in Proc : q # Boot => op'[q] = op[q]
      BY <1>0, <2>1, <2>6, OpAfter DEF BootBuilt
    <3>3. /\ sup'[op[Boot].w] = "wait"
          /\ \A v \in WorkerId : v # op[Boot].w => sup'[v] = sup[v]
      BY <2>2, <3>1 DEF TypeInv, TypeOK, WorkerTypeOK
    <3> QED
      BY <1>0, <2>5, <3>1, <3>2, <3>3, HandOver
  <2> QED
    BY <2>3, <2>7 DEF OwnerInv
<1>3. CASE BootFailed
  <2>1. op[Boot].w \in WorkerId /\ sup[op[Boot].w] = "absent"
    BY <1>0, <1>3 DEF BootFailed, At, TypeInv, CallShape, WellFormed, OwnerInv,
                      RaisedAlone, Raises
  <2>2. LoopHead(None) = "retry" /\ Call("boot", 0, <<>>, None).at = "boot"
    BY DEF LoopHead, Call
  <2>3. RaisedAlone' /\ BuildOwned'
    <3>1. /\ op[Boot].at \in {"adding", "booting"} /\ UNCHANGED next_id
          /\ sup' = [sup EXCEPT ![op[Boot].w] = "retry"]
          /\ build' = [build EXCEPT ![op[Boot].w] = NoBuild]
      BY <1>3, <2>2 DEF BootFailed, BuildFailed, At
    <3>2. /\ op'[Boot].at \notin {"add", "adding", "booting"}
          /\ \A q \in Proc : q # Boot => op'[q] = op[q]
      BY <1>0, <1>3, <2>2, OpAfter DEF BootFailed
    <3>3. /\ sup'[op[Boot].w] = "retry"
          /\ \A v \in WorkerId : v # op[Boot].w => sup'[v] = sup[v]
      BY <2>1, <3>1 DEF TypeInv, TypeOK, WorkerTypeOK
    <3> QED
      BY <1>0, <3>1, <3>2, <3>3, HandOver
  <2>4. net[op[Boot].w] = None
    BY <2>1 DEF OwnerInv, ServedTunnelIsWatched
  <2>5. ServedTunnelIsWatched'
    BY <1>3, <2>1, <2>4 DEF BootFailed, OwnerInv, ServedTunnelIsWatched, TypeInv,
                            TypeOK, WorkerTypeOK
  <2> QED
    BY <1>3, <2>3, <2>5 DEF BootFailed, OwnerInv, TunnelsApart
<1>4. CASE BootDone
  <2>1. \A q \in Proc : op'[q] = IF q = Boot THEN Call("done", 0, <<>>, None)
                                 ELSE IF q = Rotator THEN Idle ELSE op[q]
    BY <1>0, <1>4 DEF BootDone, TypeInv, TypeOK, PoolTypeOK
  <2>2. op[Boot].at = "boot" /\ op[Rotator].at \notin {"add", "adding", "booting"}
    BY <1>4 DEF BootDone, At, OwnerInv, RaisedAlone, Raises
  <2>3. QuietOwner
    <3>1. Call("done", 0, <<>>, None).at = "done" /\ Idle.at = "idle"
      BY DEF Call, Idle
    <3>2. UNCHANGED <<sup, build, net, tunnel, dead, next_id>>
      BY <1>4 DEF BootDone, workerVars
    <3> QED
      BY <2>1, <2>2, <3>1, <3>2 DEF QuietOwner
  <2> QED
    BY <2>3, QuietKeepsOwner
<1> QED
  BY <1>1, <1>2, <1>3, <1>4 DEF BootStep

\* Answers from outside keep the owners in order.
LEMMA AnswerStepOwner ==
  ASSUME TypeInv, OwnerInv, NEW p \in Proc, AnswerStep(p)
  PROVE  OwnerInv'
<1>a. WellFormed(op[p]) /\ (Raises(p) => p # Rotator /\ sup[op[p].w] = "absent")
  BY DEF TypeInv, CallShape, OwnerInv, RaisedAlone
<1>b. sup \in [WorkerId -> {"absent", "wait", "retry", "connect", "backoff", "exited"}]
  BY DEF TypeInv, TypeOK, WorkerTypeOK
<1>1. CASE RotateRegistered(p)
  <2>1. QuietOwner
    BY <1>1, OpAfter DEF RotateRegistered, QuietOwner, At, Call
  <2> QED
    BY <2>1, QuietKeepsOwner
<1>2. CASE RotateFailed(p)
  <2>1. QuietOwner
    BY <1>2, OpAfter DEF RotateFailed, QuietOwner, At, Idle, Call, workerVars
  <2> QED
    BY <2>1, QuietKeepsOwner
<1>3. CASE AddRegistered(p)
  <2>1. op[p].at = "add" /\ op[p].w \in WorkerId /\ p # Rotator
    BY <1>3, <1>a DEF AddRegistered, At, WellFormed, Raises
  <2>2. PICK a : StartBuild(op[p].w, a)
    BY <1>3 DEF AddRegistered, PushWorker
  <2>3. RaisedAlone' /\ BuildOwned'
    BY <1>3, <2>1, <2>2, TakeOn DEF AddRegistered
  <2> QED
    BY <1>3, <2>3 DEF AddRegistered, OwnerInv, ServedTunnelIsWatched, TunnelsApart
<1>4. CASE AddFailed(p)
  <2>1. \A q \in Proc : op'[q] = IF q = p THEN Idle ELSE op[q]
    BY <1>4, OpAfter DEF AddFailed
  <2>2. op[p].at = "add" /\ Idle.at = "idle"
    BY <1>4 DEF AddFailed, At, Idle, Call
  <2>3. /\ sup' = sup /\ build' = build /\ net' = net /\ tunnel' = tunnel
        /\ dead' = dead /\ next_id' = next_id
    BY <1>4 DEF AddFailed, workerVars
  <2>4. \A q \in Proc : Raises(q)' => Raises(q) /\ op'[q] = op[q]
    BY <2>1, <2>2 DEF Raises
  <2>5. RaisedAlone'
    BY <2>3, <2>4 DEF OwnerInv, RaisedAlone, Proc
  <2>6. BuildOwned'
    BY <2>1, <2>2, <2>3 DEF OwnerInv, BuildOwned
  <2> QED
    BY <2>3, <2>5, <2>6 DEF OwnerInv, ServedTunnelIsWatched, TunnelsApart
<1>5. CASE \E t \in FreshTunnel : AddBuilt(p, t)
  <2>1. PICK t \in FreshTunnel : AddBuilt(p, t)
    BY <1>5
  <2>2. op[p].w \in WorkerId
    BY <1>a, <2>1 DEF AddBuilt, At, WellFormed
  <2>3. ServedTunnelIsWatched' /\ TunnelsApart'
    BY <2>1, <2>2, InstallOwner DEF AddBuilt
  <2>4. LoopHead(t) = "wait" /\ Idle.at = "idle"
    BY WorkerAssumption DEF LoopHead, FreshTunnel, Idle, Call
  <2>5. build' = [build EXCEPT ![op[p].w] = NoBuild]
    BY <2>1 DEF AddBuilt, Established
  <2>6. RaisedAlone' /\ BuildOwned'
    <3>1. /\ op[p].at \in {"adding", "booting"} /\ UNCHANGED next_id
          /\ sup' = [sup EXCEPT ![op[p].w] = "wait"]
      BY <2>1, <2>4 DEF AddBuilt, At
    <3>2. /\ op'[p].at \notin {"add", "adding", "booting"}
          /\ \A q \in Proc : q # p => op'[q] = op[q]
      BY <2>1, <2>4, OpAfter DEF AddBuilt
    <3>3. /\ sup'[op[p].w] = "wait"
          /\ \A v \in WorkerId : v # op[p].w => sup'[v] = sup[v]
      BY <1>b, <2>2, <3>1
    <3> QED
      BY <2>5, <3>1, <3>2, <3>3, HandOver
  <2> QED
    BY <2>3, <2>6 DEF OwnerInv
<1>6. CASE AddBuildFailed(p)
  <2>1. op[p].at = "adding" /\ sup[op[p].w] = "absent" /\ Idle.at = "idle"
    BY <1>6, <1>a DEF AddBuildFailed, At, Raises, Idle, Call
  <2>2. sup' = sup
    BY <1>6 DEF AddBuildFailed
  <2>3. RaisedAlone' /\ BuildOwned'
    <3>1. /\ op[p].at \in {"adding", "booting"} /\ UNCHANGED next_id
          /\ build' = [build EXCEPT ![op[p].w] = NoBuild]
      BY <1>6, <2>1 DEF AddBuildFailed, BuildFailed
    <3>2. /\ op'[p].at \notin {"add", "adding", "booting"}
          /\ \A q \in Proc : q # p => op'[q] = op[q]
      BY <1>6, <2>1, OpAfter DEF AddBuildFailed
    <3> QED
      BY <2>1, <2>2, <3>1, <3>2, HandOver
  <2> QED
    BY <1>6, <2>3 DEF AddBuildFailed, OwnerInv, ServedTunnelIsWatched, TunnelsApart
<1> QED
  BY <1>1, <1>2, <1>3, <1>4, <1>5, <1>6 DEF AnswerStep

\* The tasks of a worker keep the owners in order.
LEMMA WorkerStepOwner ==
  ASSUME TypeInv, OwnerInv, NEW w \in WorkerId, WorkerStep(w), UNCHANGED poolVars
  PROVE  OwnerInv'
<1> USE DEF TypeInv, TypeOK, WorkerTypeOK, OwnerInv
<1>0. op' = op /\ next_id' = next_id /\ next_id \in Nat
  BY DEF poolVars, PoolTypeOK
<1>a. \A p \in Proc : op[p].at \in {"booting", "adding"} => Raises(p)
  BY DEF Raises
<1>b. sup[w] # "absent" =>
        \A p \in Proc : ~(op[p].at \in {"booting", "adding"} /\ op[p].w = w)
  BY <1>a DEF RaisedAlone
\* Whatever the supervisor does, it was there and stays: no call raises w.
<1>c. ASSUME sup[w] # "absent", NEW s, s # "absent", sup' = [sup EXCEPT ![w] = s]
      PROVE  RaisedAlone'
  <2>1. \A p \in Proc : Raises(p) => op[p].w # w
    BY <1>c DEF RaisedAlone
  <2>2. \A p \in Proc : Raises(p) => op[p].w \in WorkerId
    BY DEF Raises, CallShape, WellFormed
  <2>3. \A v \in WorkerId : v # w => sup'[v] = sup[v]
    BY <1>c
  <2>4. w < next_id
    BY <1>0, <1>c DEF RaisedAlone, WorkerId
  <2> QED
    BY <1>0, <2>1, <2>2, <2>3, <2>4 DEF RaisedAlone, Raises, WorkerId
<1>1. CASE BuildDial(w)
  <2>1. \A v \in WorkerId : build'[v].at # "none" <=> build[v].at # "none"
    BY <1>1 DEF BuildDial
  <2>2. BuildOwned'
    BY <1>0, <1>1, <2>1 DEF BuildDial, BuildOwned
  <2> QED
    BY <1>0, <1>1, <2>2 DEF BuildDial, RaisedAlone, Raises, ServedTunnelIsWatched, TunnelsApart
<1>2. CASE SupervisorWake(w)
  <2>1. RaisedAlone'
    BY <1>2, <1>c DEF SupervisorWake
  <2>2. BuildOwned'
    BY <1>0, <1>2 DEF SupervisorWake, BuildOwned
  <2>3. ServedTunnelIsWatched' /\ TunnelsApart'
    BY <1>2 DEF SupervisorWake, ServedTunnelIsWatched, TunnelsApart
  <2> QED
    BY <2>1, <2>2, <2>3
<1>3. CASE SupervisorConnect(w, Alive)
  <2>0. net[w] = None
    BY <1>3 DEF SupervisorConnect, ServedTunnelIsWatched
  <2>1. CASE sup' = [sup EXCEPT ![w] = "connect"] /\ StartBuild(w, config[w])
    <3>1. RaisedAlone'
      BY <1>3, <1>c, <2>1 DEF SupervisorConnect
    <3>2. BuildOwned'
      BY <1>0, <2>1 DEF StartBuild, BuildOwned
    <3>3. ServedTunnelIsWatched' /\ TunnelsApart'
      BY <1>3, <2>0, <2>1 DEF SupervisorConnect, ServedTunnelIsWatched, TunnelsApart
    <3> QED
      BY <3>1, <3>2, <3>3
  <2>2. CASE sup' = [sup EXCEPT ![w] = "exited"] /\ UNCHANGED build
    <3>1. RaisedAlone'
      BY <1>3, <1>c, <2>2 DEF SupervisorConnect
    <3>2. BuildOwned'
      BY <1>0, <1>3, <2>2 DEF SupervisorConnect, BuildOwned
    <3>3. ServedTunnelIsWatched' /\ TunnelsApart'
      BY <1>3, <2>0, <2>2 DEF SupervisorConnect, ServedTunnelIsWatched, TunnelsApart
    <3> QED
      BY <3>1, <3>2, <3>3
  <2> QED
    BY <1>3, <2>1, <2>2 DEF SupervisorConnect
<1>4. CASE Reconnected(w)
  <2>1. PICK t \in FreshTunnel : SupervisorBuilt(w, t)
    BY <1>4 DEF Reconnected
  <2>2. ServedTunnelIsWatched' /\ TunnelsApart' /\ sup'[w] = "wait"
    BY <2>1, InstallOwner DEF SupervisorBuilt
  <2>3. LoopHead(t) = "wait"
    BY WorkerAssumption DEF LoopHead, FreshTunnel
  <2>4. RaisedAlone'
    BY <1>c, <2>1, <2>3 DEF SupervisorBuilt
  <2>5. BuildOwned'
    BY <1>0, <1>b, <2>1, <2>3 DEF SupervisorBuilt, Established, BuildOwned, NoBuild
  <2> QED
    BY <2>2, <2>4, <2>5
<1>5. CASE SupervisorFailed(w)
  <2>1. RaisedAlone'
    BY <1>5, <1>c DEF SupervisorFailed
  <2>2. BuildOwned'
    BY <1>0, <1>b, <1>5 DEF SupervisorFailed, BuildFailed, BuildOwned, NoBuild
  <2>3. ServedTunnelIsWatched' /\ TunnelsApart'
    BY <1>5 DEF SupervisorFailed, ServedTunnelIsWatched, TunnelsApart
  <2> QED
    BY <2>1, <2>2, <2>3
<1>6. CASE SupervisorRetry(w)
  <2>1. RaisedAlone'
    BY <1>6, <1>c DEF SupervisorRetry
  <2>2. BuildOwned'
    BY <1>0, <1>6 DEF SupervisorRetry, BuildOwned
  <2>3. ServedTunnelIsWatched' /\ TunnelsApart'
    BY <1>6 DEF SupervisorRetry, ServedTunnelIsWatched, TunnelsApart
  <2> QED
    BY <2>1, <2>2, <2>3
<1>7. CASE \E f \in fetches : f.w = w /\ (FetchStart(f) \/ FetchDone(f))
  <2>1. QuietOwner
    BY <1>0, <1>7 DEF QuietOwner, FetchStart, FetchDone
  <2> QED
    BY <2>1, QuietKeepsOwner
<1> QED
  BY <1>1, <1>2, <1>3, <1>4, <1>5, <1>6, <1>7 DEF WorkerStep

LEMMA OwnerInit == Init => OwnerInv
<1> SUFFICES ASSUME Init PROVE OwnerInv
  OBVIOUS
<1> USE DEF Init, WorkerInit, PoolInit
<1>1. \A p \in Proc : op[p].at \in {"boot", "off", "idle"}
  BY DEF Call, Idle
<1>2. RaisedAlone
  BY <1>1 DEF RaisedAlone, Raises, Proc
<1>3. BuildOwned
  BY <1>1 DEF BuildOwned, NoBuild
<1> QED
  BY <1>2, <1>3 DEF OwnerInv, ServedTunnelIsWatched, TunnelsApart

\* Every step keeps the owners in order.
LEMMA OwnerStep ==
  ASSUME TypeInv, OwnerInv, [Next]_vars
  PROVE  OwnerInv'
<1>1. CASE BootStep
  BY <1>1, BootStepOwner
<1>2. ASSUME NEW p \in Client, CallStep(p) PROVE OwnerInv'
  <2>1. CASE AddAccount(p)
    <3>1. p \in Proc /\ p # Rotator /\ next_id \in WorkerId /\ ~Raises(p)
      BY <2>1, PoolAssumption, WorkerAssumption
      DEF Proc, AddAccount, Begin, At, Raises, WorkerId, TypeInv, TypeOK, PoolTypeOK
    <3>2. /\ Become(p, Call("add", next_id, <<>>, None)) /\ next_id' = next_id + 1
          /\ UNCHANGED <<sup, build, net, tunnel, dead>>
      BY <2>1 DEF AddAccount, workerVars
    <3>3. RaisedAlone' /\ BuildOwned'
      BY <3>1, <3>2, TakeOn
    <3> QED
      BY <3>2, <3>3 DEF OwnerInv, ServedTunnelIsWatched, TunnelsApart
  <2>2. CASE ~AddAccount(p)
    BY <1>2, <2>2, QuietCallStep, QuietKeepsOwner
  <2> QED
    BY <2>1, <2>2
<1>3. ASSUME NEW p \in Client \cup {Rotator}, LocalStep(p) PROVE OwnerInv'
  BY <1>3, QuietLocalStep, QuietKeepsOwner DEF Proc
<1>4. ASSUME NEW p \in Client \cup {Rotator}, AnswerStep(p) PROVE OwnerInv'
  BY <1>4, AnswerStepOwner DEF Proc
<1>5. ASSUME NEW p \in Client, PickEnd(p) PROVE OwnerInv'
  <2>1. QuietOwner
    BY <1>5, OpAfter DEF PickEnd, QuietOwner, At, Idle, Call, workerVars, Proc
  <2> QED
    BY <2>1, QuietKeepsOwner
<1>6. CASE RotatorArm \/ RotatorFire
  <2>0. Rotator \in Proc
    BY DEF Proc
  <2>1. CASE RotatorArm
    BY <2>0, <2>1, OpAfter, QuietKeepsOwner
    DEF RotatorArm, QuietOwner, At, Idle, Call, workerVars
  <2>2. CASE RotatorFire
    <3>1. QuietOwner
      BY <2>0, <2>2, OpAfter DEF RotatorFire, QuietOwner, At, Idle, Call, workerVars
    <3> QED
      BY <3>1, QuietKeepsOwner
  <2> QED
    BY <1>6, <2>1, <2>2
<1>7. CASE DropPool
  <2>1. QuietOwner
    BY <1>7 DEF DropPool, QuietOwner, workerVars
  <2> QED
    BY <2>1, QuietKeepsOwner
<1>8. ASSUME NEW w \in WorkerId, WorkerStep(w), UNCHANGED poolVars PROVE OwnerInv'
  BY <1>8, WorkerStepOwner
<1>9. ASSUME NEW t \in Tunnel, TunnelDies(t), UNCHANGED poolVars PROVE OwnerInv'
  <2>1. QuietOwner
    BY <1>9 DEF TunnelDies, QuietOwner, poolVars
  <2> QED
    BY <2>1, QuietKeepsOwner
<1>10. CASE UNCHANGED vars
  <2>1. QuietOwner
    BY <1>10 DEF vars, workerVars, poolVars, QuietOwner
  <2> QED
    BY <2>1, QuietKeepsOwner
<1> QED
  BY <1>1, <1>2, <1>3, <1>4, <1>5, <1>6, <1>7, <1>8, <1>9, <1>10 DEF Next

\* A handle that pick can give out belongs to the tunnel its worker keeps,
\* and the worker's supervisor waits on that tunnel's death signal.
THEOREM ServedIsWatched == Spec => []ServedTunnelIsWatched
<1>1. Init => TypeInv /\ OwnerInv
  BY TypeInit, OwnerInit
<1>2. TypeInv /\ OwnerInv /\ [Next]_vars => (TypeInv /\ OwnerInv)'
  BY TypeStep, OwnerStep
<1>3. OwnerInv => ServedTunnelIsWatched
  BY DEF OwnerInv
<1> QED
  BY <1>1, <1>2, <1>3, PTL DEF Spec

\* Nobody connects a worker that somebody else is connecting.
LEMMA OwnerIsOneBuilder ==
  ASSUME TypeInv, OwnerInv
  PROVE  OneBuilder
<1> SUFFICES ASSUME NEW w \in WorkerId
             PROVE  /\ \A b, c \in Builders(w) : b = c
                    /\ build[w].at # "none" <=> Builders(w) # {}
  BY DEF OneBuilder
<1> DEFINE Raisers == {p \in Proc : op[p].at \in {"booting", "adding"} /\ op[p].w = w}
<1>1. \A p, q \in Raisers : p = q
  BY DEF OwnerInv, RaisedAlone, Raises
<1>2. Raisers # {} => sup[w] = "absent"
  BY DEF OwnerInv, RaisedAlone, Raises
<1>3. CASE sup[w] = "connect"
  <2>1. Builders(w) = {w}
    BY <1>2, <1>3 DEF Builders
  <2> QED
    BY <1>3, <2>1 DEF OwnerInv, BuildOwned
<1>4. CASE sup[w] # "connect"
  <2>1. Builders(w) = Raisers
    BY <1>4 DEF Builders
  <2> QED
    BY <1>1, <1>4, <2>1 DEF OwnerInv, BuildOwned
<1> QED
  BY <1>3, <1>4

\* build_tunnel never runs twice at a time for one worker.
THEOREM BuildsExclude == Spec => []OneBuilder
<1>1. Init => TypeInv /\ OwnerInv
  BY TypeInit, OwnerInit
<1>2. TypeInv /\ OwnerInv /\ [Next]_vars => (TypeInv /\ OwnerInv)'
  BY TypeStep, OwnerStep
<1>3. TypeInv /\ OwnerInv => OneBuilder
  BY OwnerIsOneBuilder
<1> QED
  BY <1>1, <1>2, <1>3, PTL DEF Spec

-----------------------------------------------------------------------------
(* Layer 3.                                                                *)

LEMMA MembersHas ==
  ASSUME NEW s, NEW i \in DOMAIN s
  PROVE  s[i] \in Members(s)
BY DEF Members

\* What is left of a list after its first element, and after remove_account.
LEMMA TailMembers ==
  ASSUME NEW s \in Seq(WorkerId), s # <<>>, NEW w \in Members(s), w # Head(s)
  PROVE  Len(s) # 1 /\ w \in Members(Tail(s))
<1>1. PICK i \in 1..Len(s) : w = s[i]
  BY DEF Members
<1>2. i # 1 /\ Len(s) \in Nat
  BY <1>1
<1>3. Tail(s) \in Seq(WorkerId) /\ Len(Tail(s)) = Len(s) - 1 /\ Tail(s)[i - 1] = s[i]
  BY <1>1, <1>2, HeadTailProperties
<1>4. i - 1 \in DOMAIN Tail(s)
  BY <1>1, <1>2, <1>3
<1>5. Tail(s)[i - 1] \in Members(Tail(s))
  BY <1>4, MembersHas
<1>6. Len(s) # 1
  BY <1>1, <1>2
<1> QED
  BY <1>1, <1>3, <1>5, <1>6

LEMMA RetainedMembers ==
  ASSUME NEW s \in Seq(WorkerId), NEW K \in SUBSET DOMAIN s, NEW r \in Retained(s, K)
  PROVE  Members(r) \subseteq Members(s)
<1>1. r \in Seq(WorkerId) /\ \E f \in [1..Len(r) -> K] : \A j \in 1..Len(r) : r[j] = s[f[j]]
  BY RetainedList
<1>2. \A j \in DOMAIN r : \E i \in DOMAIN s : r[j] = s[i]
  BY <1>1
<1> QED
  BY <1>2 DEF Members

LEMMA AppendMembers ==
  ASSUME NEW s \in Seq(WorkerId), NEW w \in WorkerId
  PROVE  Members(Append(s, w)) = Members(s) \cup {w}
<1>1. /\ Len(s) \in Nat /\ DOMAIN s = 1..Len(s)
      /\ DOMAIN Append(s, w) = 1..(Len(s) + 1)
      /\ \A i \in 1..Len(s) : Append(s, w)[i] = s[i]
      /\ Append(s, w)[Len(s) + 1] = w
  OBVIOUS
<1>2. \A i \in 1..(Len(s) + 1) : i \in 1..Len(s) \/ i = Len(s) + 1
  BY <1>1
<1>3. Len(s) + 1 \in 1..(Len(s) + 1) /\ 1..Len(s) \subseteq 1..(Len(s) + 1)
  BY <1>1
<1> QED
  BY <1>1, <1>2, <1>3 DEF Members

\* Only calls that have no request to deliver move on.
CallsKeepRequests ==
  \A q \in Proc : op'[q] = op[q] \/ op[q].at \notin {"notify", "snapshot"}

\* A request for w that is on its way stays on its way.
LEMMA RequestsKept ==
  ASSUME NEW w \in WorkerId, rebuild[w] => rebuild'[w], CallsKeepRequests
  PROVE  /\ NotifyDue(w) => NotifyDue(w)'
         /\ w \in Members(workers') /\ RebuildDue(w) => RebuildDue(w)'
<1>1. ASSUME NEW p \in Proc, At(p, "notify"), w \in Members(op[p].todo)
      PROVE  op'[p] = op[p]
  BY <1>1 DEF CallsKeepRequests, At
<1>2. NotifyDue(w) => NotifyDue(w)'
  BY <1>1 DEF NotifyDue, At
<1>3. ASSUME NEW p \in Proc, WillNotify(p, w), w \in Members(workers')
      PROVE  WillNotify(p, w)'
  <2>1. op'[p] = op[p]
    BY <1>3 DEF WillNotify, CallsKeepRequests, At
  <2> QED
    BY <1>3, <2>1 DEF WillNotify, At
<1>4. w \in Members(workers') /\ RebuildDue(w) => RebuildDue(w)'
  BY <1>3 DEF RebuildDue
<1> QED
  BY <1>2, <1>4

\* A worker whose tunnel and build are as they were, or are given up.
SameWork(w) ==
  /\ config'[w] = config[w] /\ http2' = http2
  /\ \/ net'[w] = None
     \/ /\ net'[w] = net[w]
        /\ conn'[net[w]].cfg = conn[net[w]].cfg
        /\ conn'[net[w]].http2 = conn[net[w]].http2
  /\ build'[w].at = "none" \/ build'[w] = build[w]
  /\ w \in Members(workers') => w \in Members(workers)

LEMMA SameWorkDue ==
  ASSUME DueInv, NEW w \in WorkerId, SameWork(w),
         NotifyDue(w) => NotifyDue(w)',
         w \in Members(workers') /\ RebuildDue(w) => RebuildDue(w)'
  PROVE  OldConfigIsDue(w)' /\ OldTransportIsDue(w)'
<1>1. OldConfigIsDue(w) /\ OldTransportIsDue(w)
  BY DEF DueInv
<1>2. OldConfigIsDue(w)'
  BY <1>1 DEF SameWork, OldConfigIsDue
<1>3. OldTransportIsDue(w)'
  BY <1>1 DEF SameWork, OldTransportIsDue
<1> QED
  BY <1>2, <1>3

\* A worker without a handle, whose build, if any, is up to date.
LEMMA FreshWorkDue ==
  ASSUME NEW w \in WorkerId, net'[w] = None,
         build'[w].at = "none" \/ build'[w].cfg = config'[w],
         build'[w].at # "connect"
  PROVE  OldConfigIsDue(w)' /\ OldTransportIsDue(w)'
BY DEF OldConfigIsDue, OldTransportIsDue

\* A step that changes no worker's tunnel or build and takes no request back.
QuietDue ==
  /\ UNCHANGED <<http2, config, net, build, rebuild>>
  /\ \A t \in Tunnel : conn'[t].cfg = conn[t].cfg /\ conn'[t].http2 = conn[t].http2
  /\ Members(workers') \subseteq Members(workers)
  /\ CallsKeepRequests

LEMMA QuietKeepsDue ==
  ASSUME TypeInv, DueInv, QuietDue
  PROVE  DueInv'
<1> SUFFICES ASSUME NEW w \in WorkerId
             PROVE  OldConfigIsDue(w)' /\ OldTransportIsDue(w)'
  BY DEF DueInv
<1>1. net[w] \in Tunnel \cup {None}
  BY DEF TypeInv, TypeOK, WorkerTypeOK
<1>2. SameWork(w)
  BY <1>1 DEF QuietDue, SameWork
<1>3. /\ NotifyDue(w) => NotifyDue(w)'
      /\ w \in Members(workers') /\ RebuildDue(w) => RebuildDue(w)'
  BY RequestsKept DEF QuietDue
<1> QED
  BY <1>2, <1>3, SameWorkDue

\* Every other worker is left alone while w is worked on.
LEMMA OthersDue ==
  ASSUME DueInv, NEW w \in WorkerId,
         \A v \in WorkerId \ {w} : SameWork(v) /\ rebuild'[v] = rebuild[v],
         CallsKeepRequests,
         OldConfigIsDue(w)', OldTransportIsDue(w)'
  PROVE  DueInv'
<1> SUFFICES ASSUME NEW v \in WorkerId
             PROVE  OldConfigIsDue(v)' /\ OldTransportIsDue(v)'
  BY DEF DueInv
<1>1. CASE v = w
  BY <1>1
<1>2. CASE v # w
  <2>1. /\ NotifyDue(v) => NotifyDue(v)'
        /\ v \in Members(workers') /\ RebuildDue(v) => RebuildDue(v)'
    BY <1>2, RequestsKept
  <2> QED
    BY <1>2, <2>1, SameWorkDue
<1> QED
  BY <1>1, <1>2

\* The tunnel that is installed was dialled with what the build had read: if
\* that is outdated, the request that was due for the build is due for it.
LEMMA InstallDue ==
  ASSUME TypeInv, OwnerInv, DueInv, NEW w \in WorkerId, NEW t \in FreshTunnel,
         Established(w, t), UNCHANGED <<http2, config, rebuild, workers>>,
         CallsKeepRequests
  PROVE  DueInv'
<1>1. /\ net \in [WorkerId -> Tunnel \cup {None}] /\ tunnel \in [WorkerId -> Tunnel \cup {None}]
      /\ build \in [WorkerId -> BuildType]
  BY DEF TypeInv, TypeOK, WorkerTypeOK
<1>2. t \in Tunnel /\ t # None /\ \A v \in WorkerId : tunnel[v] # t
  BY WorkerAssumption DEF FreshTunnel
<1>3. /\ build[w].at = "connect"
      /\ net' = [net EXCEPT ![w] = t] /\ build' = [build EXCEPT ![w] = NoBuild]
      /\ conn'[t].cfg = build[w].cfg /\ conn'[t].http2 = build[w].http2
      /\ \A x \in Tunnel : (x # t /\ x # tunnel[w]) => conn'[x] = conn[x]
  BY <1>2 DEF Established, Accepted
<1>4. ASSUME NEW v \in WorkerId \ {w} PROVE SameWork(v) /\ rebuild'[v] = rebuild[v]
  <2>1. net'[v] = net[v] /\ build'[v] = build[v]
    BY <1>1, <1>3
  <2>2. net[v] # None => net[v] = tunnel[v] /\ tunnel[v] # tunnel[w]
    BY DEF OwnerInv, ServedTunnelIsWatched, TunnelsApart
  <2>3. net[v] # None => conn'[net[v]] = conn[net[v]]
    BY <1>1, <1>2, <1>3, <2>2
  <2> QED
    BY <2>1, <2>3 DEF SameWork
<1>5. net'[w] = t /\ build'[w].at = "none"
  BY <1>1, <1>3 DEF NoBuild
<1>6. OldConfigIsDue(w) /\ OldTransportIsDue(w)
  BY DEF DueInv
<1>7. /\ NotifyDue(w) => NotifyDue(w)'
      /\ w \in Members(workers') /\ RebuildDue(w) => RebuildDue(w)'
  BY RequestsKept
<1>8. OldConfigIsDue(w)'
  BY <1>3, <1>5, <1>6, <1>7 DEF OldConfigIsDue
<1>9. OldTransportIsDue(w)'
  BY <1>3, <1>5, <1>6, <1>7 DEF OldTransportIsDue
<1> QED
  BY <1>4, <1>8, <1>9, OthersDue

\* A worker is pushed: its build is of the config it was pushed with.
LEMMA PushDue ==
  ASSUME TypeInv, OwnerInv, DueInv, NEW w \in WorkerId, NEW a, PushWorker(w, a),
         sup[w] = "absent", UNCHANGED <<http2, net, conn, rebuild>>,
         CallsKeepRequests
  PROVE  DueInv'
<1>1. /\ config' = [config EXCEPT ![w] = a]
      /\ build' = [build EXCEPT ![w] = [at |-> "dial", cfg |-> a, http2 |-> FALSE]]
      /\ workers' = Append(workers, w) /\ workers \in Seq(WorkerId)
  BY DEF PushWorker, StartBuild, TypeInv, TypeOK, PoolTypeOK
<1>2. config \in [WorkerId -> Account \cup {None}] /\ build \in [WorkerId -> BuildType]
  BY DEF TypeInv, TypeOK, WorkerTypeOK
<1>3. Members(workers') = Members(workers) \cup {w}
  BY <1>1, AppendMembers
<1>4. ASSUME NEW v \in WorkerId \ {w} PROVE SameWork(v) /\ rebuild'[v] = rebuild[v]
  BY <1>1, <1>2, <1>3 DEF SameWork
<1>5. net'[w] = None
  BY DEF OwnerInv, ServedTunnelIsWatched
<1>6. config'[w] = a /\ build'[w].cfg = a /\ build'[w].at = "dial"
  BY <1>1, <1>2
<1>7. OldConfigIsDue(w)' /\ OldTransportIsDue(w)'
  BY <1>5, <1>6, FreshWorkDue
<1> QED
  BY <1>4, <1>7, OthersDue

\* A worker that is due for a rebuild anyway.
LEMMA OldIfDue ==
  ASSUME NEW w, NotifyDue(w)', RebuildDue(w)'
  PROVE  OldConfigIsDue(w)' /\ OldTransportIsDue(w)'
BY DEF OldConfigIsDue, OldTransportIsDue

\* A build is given up.
LEMMA GiveUpDue ==
  ASSUME TypeInv, DueInv, NEW w \in WorkerId, BuildFailed(w),
         UNCHANGED <<http2, config, net, conn, rebuild, workers>>, CallsKeepRequests
  PROVE  DueInv'
<1> SUFFICES ASSUME NEW v \in WorkerId
             PROVE  OldConfigIsDue(v)' /\ OldTransportIsDue(v)'
  BY DEF DueInv
<1>1. build'[v].at = "none" \/ build'[v] = build[v]
  BY DEF BuildFailed, NoBuild, TypeInv, TypeOK, WorkerTypeOK
<1>2. SameWork(v)
  BY <1>1 DEF SameWork
<1>3. /\ NotifyDue(v) => NotifyDue(v)'
      /\ v \in Members(workers') /\ RebuildDue(v) => RebuildDue(v)'
  BY RequestsKept
<1> QED
  BY <1>2, <1>3, SameWorkDue

LEMMA DueInit == Init => DueInv
BY DEF Init, WorkerInit, NoBuild, DueInv, OldConfigIsDue, OldTransportIsDue

\* Pool::new takes no request back.
LEMMA BootStepDue ==
  ASSUME TypeInv, OwnerInv, DueInv, BootStep
  PROVE  DueInv'
<1>0. Boot \in Proc /\ Rotator \in Proc
  BY DEF Proc
<1>1. CASE BootNext
  <2>1. next_id \in WorkerId /\ sup[next_id] = "absent"
    BY <1>1, PoolAssumption, WorkerAssumption
    DEF BootNext, TypeInv, TypeOK, PoolTypeOK, WorkerId, OwnerInv, RaisedAlone
  <2>2. PICK a : PushWorker(next_id, a)
    BY <1>1 DEF BootNext
  <2>3. CallsKeepRequests
    BY <1>0, <1>1, OpAfter DEF BootNext, CallsKeepRequests, At
  <2> QED
    BY <1>1, <2>1, <2>2, <2>3, PushDue DEF BootNext
<1>2. CASE \E t \in FreshTunnel : BootBuilt(t)
  <2>1. PICK t \in FreshTunnel : BootBuilt(t)
    BY <1>2
  <2>2. op[Boot].w \in WorkerId
    BY <1>0, <2>1 DEF BootBuilt, At, TypeInv, CallShape, WellFormed
  <2>3. CallsKeepRequests
    BY <1>0, <2>1, OpAfter DEF BootBuilt, CallsKeepRequests, At
  <2> QED
    BY <2>1, <2>2, <2>3, InstallDue DEF BootBuilt
<1>3. CASE BootFailed
  <2>1. op[Boot].w \in WorkerId
    BY <1>0, <1>3 DEF BootFailed, At, TypeInv, CallShape, WellFormed
  <2>2. CallsKeepRequests
    BY <1>0, <1>3, OpAfter DEF BootFailed, CallsKeepRequests, At
  <2> QED
    BY <1>3, <2>1, <2>2, GiveUpDue DEF BootFailed
<1>4. CASE BootDone
  <2>1. \A q \in Proc : q # Boot /\ q # Rotator => op'[q] = op[q]
    BY <1>0, <1>4 DEF BootDone, TypeInv, TypeOK, PoolTypeOK
  <2>2. op[Boot].at = "boot" /\ op[Rotator].at = "off"
    BY <1>4 DEF BootDone, At
  <2>3. QuietDue
    BY <1>4, <2>1, <2>2 DEF BootDone, QuietDue, CallsKeepRequests, workerVars
  <2> QED
    BY <2>3, QuietKeepsDue
<1> QED
  BY <1>1, <1>2, <1>3, <1>4 DEF BootStep

\* A call that starts takes no request back; set_http2 makes one due for
\* every worker of the pool.
LEMMA CallStepDue ==
  ASSUME TypeInv, OwnerInv, DueInv, NEW p \in Client, CallStep(p)
  PROVE  DueInv'
<1>0. p \in Proc /\ workers \in Seq(WorkerId)
  BY DEF Proc, TypeInv, TypeOK, PoolTypeOK
<1>1. CASE \E on \in BOOLEAN : SetHttp2(p, on)
  <2>1. /\ op[p].at = "idle" /\ op'[p].at = "snapshot"
        /\ \A q \in Proc : q # p => op'[q] = op[q]
    BY <1>0, <1>1, OpAfter DEF SetHttp2, Begin, At, Call
  <2>2. CallsKeepRequests
    BY <2>1 DEF CallsKeepRequests
  <2> SUFFICES ASSUME NEW w \in WorkerId
               PROVE  OldConfigIsDue(w)' /\ OldTransportIsDue(w)'
    BY DEF DueInv
  <2>3. UNCHANGED <<config, net, conn, build, rebuild, workers>>
    BY <1>1 DEF SetHttp2
  <2>4. OldConfigIsDue(w)'
    <3>1. OldConfigIsDue(w) /\ (NotifyDue(w) => NotifyDue(w)')
      BY <2>2, <2>3, RequestsKept DEF DueInv
    <3> QED
      BY <2>3, <3>1 DEF OldConfigIsDue
  <2>5. w \in Members(workers') => RebuildDue(w)'
    BY <1>0, <2>1 DEF RebuildDue, WillNotify, At
  <2> QED
    BY <2>4, <2>5 DEF OldTransportIsDue
<1>2. CASE ~(\E on \in BOOLEAN : SetHttp2(p, on))
  <2> USE DEF QuietDue, workerVars, CallsKeepRequests
  <2>1. ASSUME NEW on \in BOOLEAN, SetEnabled(p, on) PROVE QuietDue
    BY <2>1 DEF SetEnabled
  <2>3. ASSUME NEW id \in 0..MaxId, Select(p, id) PROVE QuietDue
    BY <2>3 DEF Select
  <2>4. ASSUME NEW id \in 0..MaxId, Reconnect(p, id) PROVE QuietDue
    BY <1>0, <2>4, OpAfter DEF Reconnect, Begin, At
  <2>5. ASSUME NEW id \in 0..MaxId, Rotate(p, id) PROVE QuietDue
    BY <1>0, <2>5, OpAfter DEF Rotate, Begin, At
  <2>6. ASSUME NEW id \in 0..MaxId, RefreshTrace(p, id) PROVE QuietDue
    BY <1>0, <2>6, OpAfter DEF RefreshTrace, Begin, At
  <2>7. ASSUME NEW secs \in Intervals, SetRotateInterval(p, secs) PROVE QuietDue
    BY <2>7 DEF SetRotateInterval
  <2>8. ASSUME AddAccount(p) PROVE QuietDue
    BY <1>0, <2>8, OpAfter DEF AddAccount, Begin, At
  <2>9. ASSUME NEW id \in WorkerId, RemoveAccount(p, id) PROVE QuietDue
    <3>1. Members(workers') \subseteq Members(workers)
      BY <1>0, <2>9, RetainedMembers DEF RemoveAccount
    <3> QED
      BY <1>0, <2>9, <3>1, OpAfter DEF RemoveAccount, Begin, At
  <2>10. ASSUME Pick(p) PROVE QuietDue
    BY <1>0, <2>10, OpAfter DEF Pick, Begin, At
  <2>11. QuietDue
    BY <1>2, <2>1, <2>3, <2>4, <2>5, <2>6, <2>7, <2>8, <2>9, <2>10 DEF CallStep
  <2> QED
    BY <2>11, QuietKeepsDue
<1> QED
  BY <1>1, <1>2

\* The steps of a call deliver its requests and drop none.
LEMMA LocalStepDue ==
  ASSUME TypeInv, OwnerInv, DueInv, NEW p \in Proc, LocalStep(p)
  PROVE  DueInv'
<1>0. op[p].todo \in Seq(WorkerId) /\ workers \in Seq(WorkerId)
  BY DEF TypeInv, TypeOK, PoolTypeOK, OpType
<1>1. CASE NotifyNext(p)
  <2>1. op[p].at = "notify" /\ op[p].todo # <<>>
    BY <1>1 DEF NotifyNext, At, TypeInv, CallShape, WellFormed
  <2>2. Head(op[p].todo) \in WorkerId
    BY <1>0, <2>1, TodoType
  <2>3. /\ UNCHANGED <<http2, config, net, build, conn, workers>>
        /\ rebuild' = [rebuild EXCEPT ![Head(op[p].todo)] = TRUE]
    BY <1>1 DEF NotifyNext
  <2>4. rebuild'[Head(op[p].todo)] /\ \A v \in WorkerId : rebuild[v] => rebuild'[v]
    BY <2>2, <2>3 DEF TypeInv, TypeOK, WorkerTypeOK
  <2>5. \A q \in Proc : q # p => op'[q] = op[q]
    BY <1>1, OpAfter DEF NotifyNext
  <2>6. Len(op[p].todo) # 1 => op'[p].at = "notify" /\ op'[p].todo = Tail(op[p].todo)
    <3>1. op'[p] = IF Len(op[p].todo) = 1 THEN Idle
                   ELSE Call("notify", 0, Tail(op[p].todo), None)
      BY <1>1, OpAfter DEF NotifyNext
    <3> QED
      BY <3>1 DEF Call
  <2> SUFFICES ASSUME NEW w \in WorkerId
               PROVE  OldConfigIsDue(w)' /\ OldTransportIsDue(w)'
    BY DEF DueInv
  <2>7. SameWork(w)
    BY <2>3 DEF SameWork
  <2>8. w \in Members(op[p].todo) => NotifyDue(w)'
    <3>1. CASE w = Head(op[p].todo)
      BY <2>4, <3>1 DEF NotifyDue
    <3>2. CASE w # Head(op[p].todo) /\ w \in Members(op[p].todo)
      <4>1. Len(op[p].todo) # 1 /\ w \in Members(Tail(op[p].todo))
        BY <1>0, <2>1, <3>2, TailMembers
      <4> QED
        BY <2>6, <4>1 DEF NotifyDue, At
    <3> QED
      BY <3>1, <3>2
  <2>9. NotifyDue(w) => NotifyDue(w)'
    BY <2>4, <2>5, <2>8 DEF NotifyDue, At
  <2>10. NotifyDue(w)' => RebuildDue(w)'
    BY DEF NotifyDue, RebuildDue, WillNotify
  <2>11. w \in Members(workers') /\ RebuildDue(w) => RebuildDue(w)'
    <3>1. ASSUME NEW q \in Proc, q # p, WillNotify(q, w) PROVE WillNotify(q, w)'
      BY <2>3, <2>5, <3>1 DEF WillNotify, At
    <3>2. WillNotify(p, w) => NotifyDue(w)'
      BY <2>1, <2>8 DEF WillNotify, At
    <3>3. rebuild[w] => RebuildDue(w)'
      BY <2>4 DEF RebuildDue
    <3>4. ASSUME NEW q \in Proc, WillNotify(q, w) PROVE RebuildDue(w)'
      BY <2>10, <3>1, <3>2, <3>4 DEF RebuildDue
    <3> QED
      BY <3>3, <3>4 DEF RebuildDue
  <2> QED
    BY <2>7, <2>9, <2>11, SameWorkDue
<1>2. CASE ReconnectAll(p)
  <2>1. op[p].at = "snapshot" /\ UNCHANGED <<http2, config, net, build, conn, workers, rebuild>>
    BY <1>2 DEF ReconnectAll, At, workerVars
  <2>2. \A q \in Proc : q # p => op'[q] = op[q]
    BY <1>2, OpAfter DEF ReconnectAll
  <2>3. workers # <<>> => op'[p].at = "notify" /\ op'[p].todo = workers
    BY <1>2, OpAfter DEF ReconnectAll, Call
  <2> SUFFICES ASSUME NEW w \in WorkerId
               PROVE  OldConfigIsDue(w)' /\ OldTransportIsDue(w)'
    BY DEF DueInv
  <2>4. SameWork(w)
    BY <2>1 DEF SameWork
  <2>5. NotifyDue(w) => NotifyDue(w)'
    <3>1. \A q \in Proc : At(q, "notify") => op'[q] = op[q]
      BY <2>1, <2>2 DEF At
    <3> QED
      BY <2>1, <3>1 DEF NotifyDue, At
  <2>6. w \in Members(workers) => WillNotify(p, w)'
    BY <1>0, <2>3 DEF WillNotify, At, Members
  <2>7. w \in Members(workers') => RebuildDue(w)'
    BY <2>1, <2>6 DEF RebuildDue
  <2> QED
    BY <2>4, <2>5, <2>7, SameWorkDue
<1>3. CASE ~NotifyNext(p) /\ ~ReconnectAll(p)
  <2> USE DEF QuietDue, workerVars, CallsKeepRequests, At
  <2>1. ASSUME RotateFind(p) PROVE QuietDue
    BY <2>1, OpAfter DEF RotateFind
  <2>2. ASSUME RotateDefault(p) PROVE QuietDue
    BY <2>2, OpAfter DEF RotateDefault
  <2>3. ASSUME RemoveUnpin(p) PROVE QuietDue
    BY <2>3, OpAfter DEF RemoveUnpin
  <2>4. ASSUME TraceNext(p) PROVE QuietDue
    BY <2>4, OpAfter DEF TraceNext
  <2>5. ASSUME TraceDone(p) PROVE QuietDue
    BY <2>5, OpAfter DEF TraceDone
  <2>6. ASSUME PickPin(p) PROVE QuietDue
    BY <2>6, OpAfter DEF PickPin
  <2>7. ASSUME PickPinned(p) PROVE QuietDue
    BY <2>7, OpAfter DEF PickPinned
  <2>8. ASSUME PickStart(p) PROVE QuietDue
    BY <2>8, OpAfter DEF PickStart
  <2>9. ASSUME PickScan(p) PROVE QuietDue
    BY <2>9, OpAfter DEF PickScan
  <2>10. QuietDue
    BY <1>3, <2>1, <2>2, <2>3, <2>4, <2>5, <2>6, <2>7, <2>8, <2>9 DEF LocalStep
  <2> QED
    BY <2>10, QuietKeepsDue
<1> QED
  BY <1>1, <1>2, <1>3

\* An answer that replaces a config leaves the request for its worker due.
LEMMA AnswerStepDue ==
  ASSUME TypeInv, OwnerInv, DueInv, NEW p \in Proc, AnswerStep(p)
  PROVE  DueInv'
<1>0. WellFormed(op[p])
  BY DEF TypeInv, CallShape
<1>1. CASE RotateRegistered(p)
  <2>1. op[p].at = "register" /\ op[p].w \in WorkerId
    BY <1>0, <1>1 DEF RotateRegistered, At, WellFormed
  <2>2. /\ UNCHANGED <<http2, net, conn, build, rebuild, workers>>
        /\ \A v \in WorkerId \ {op[p].w} : config'[v] = config[v]
    BY <1>1, <2>1 DEF RotateRegistered, TypeInv, TypeOK, WorkerTypeOK
  <2>3. /\ op'[p].at = "notify" /\ op'[p].todo = <<op[p].w>>
        /\ \A q \in Proc : q # p => op'[q] = op[q]
    BY <1>1, OpAfter DEF RotateRegistered, Call
  <2>4. CallsKeepRequests
    BY <2>1, <2>3 DEF CallsKeepRequests
  <2>5. \A v \in WorkerId \ {op[p].w} : SameWork(v) /\ rebuild'[v] = rebuild[v]
    BY <2>2 DEF SameWork
  <2>6. PICK w \in WorkerId : w = op[p].w
    BY <2>1
  <2>7. NotifyDue(w)'
    <3>1. <<w>>[1] \in Members(<<w>>)
      BY MembersHas
    <3> QED
      BY <2>3, <2>6, <3>1 DEF NotifyDue, At
  <2>8. RebuildDue(w)'
    BY <2>7 DEF NotifyDue, RebuildDue, WillNotify
  <2>9. OldConfigIsDue(w)' /\ OldTransportIsDue(w)'
    BY <2>7, <2>8, OldIfDue
  <2> QED
    BY <2>4, <2>5, <2>6, <2>9, OthersDue
<1>2. CASE RotateFailed(p)
  <2>1. QuietDue
    BY <1>2, OpAfter DEF RotateFailed, QuietDue, CallsKeepRequests, At, workerVars
  <2> QED
    BY <2>1, QuietKeepsDue
<1>3. CASE AddRegistered(p)
  <2>1. op[p].at = "add" /\ op[p].w \in WorkerId /\ sup[op[p].w] = "absent"
    BY <1>0, <1>3 DEF AddRegistered, At, WellFormed, OwnerInv, RaisedAlone, Raises
  <2>2. PICK a : PushWorker(op[p].w, a)
    BY <1>3 DEF AddRegistered
  <2>3. CallsKeepRequests
    BY <1>3, <2>1, OpAfter DEF AddRegistered, CallsKeepRequests
  <2> QED
    BY <1>3, <2>1, <2>2, <2>3, PushDue DEF AddRegistered
<1>4. CASE AddFailed(p)
  <2>1. QuietDue
    BY <1>4, OpAfter DEF AddFailed, QuietDue, CallsKeepRequests, At, workerVars
  <2> QED
    BY <2>1, QuietKeepsDue
<1>5. CASE \E t \in FreshTunnel : AddBuilt(p, t)
  <2>1. PICK t \in FreshTunnel : AddBuilt(p, t)
    BY <1>5
  <2>2. op[p].at = "adding" /\ op[p].w \in WorkerId
    BY <1>0, <2>1 DEF AddBuilt, At, WellFormed
  <2>3. CallsKeepRequests
    BY <2>1, <2>2, OpAfter DEF AddBuilt, CallsKeepRequests
  <2> QED
    BY <2>1, <2>2, <2>3, InstallDue DEF AddBuilt
<1>6. CASE AddBuildFailed(p)
  <2>1. op[p].at = "adding" /\ op[p].w \in WorkerId
    BY <1>0, <1>6 DEF AddBuildFailed, At, WellFormed
  <2>2. CallsKeepRequests
    BY <1>6, <2>1, OpAfter DEF AddBuildFailed, CallsKeepRequests
  <2> QED
    BY <1>6, <2>1, <2>2, GiveUpDue DEF AddBuildFailed
<1> QED
  BY <1>1, <1>2, <1>3, <1>4, <1>5, <1>6 DEF AnswerStep

\* The supervisor takes a request only when it has nothing outdated: neither
\* a handle nor a build.
LEMMA WorkerStepDue ==
  ASSUME TypeInv, OwnerInv, DueInv, NEW w \in WorkerId, WorkerStep(w),
         UNCHANGED poolVars
  PROVE  DueInv'
<1>0. op' = op /\ workers' = workers /\ CallsKeepRequests
  BY DEF poolVars, CallsKeepRequests
<1>a. /\ net \in [WorkerId -> Tunnel \cup {None}] /\ build \in [WorkerId -> BuildType]
      /\ rebuild \in [WorkerId -> BOOLEAN]
  BY DEF TypeInv, TypeOK, WorkerTypeOK
<1>b. sup[w] \notin {"absent", "connect"} => build[w].at = "none"
  BY DEF OwnerInv, BuildOwned, RaisedAlone, Raises
<1>c. sup[w] # "wait" => net[w] = None
  BY DEF OwnerInv, ServedTunnelIsWatched
<1>1. CASE BuildDial(w)
  <2>1. /\ UNCHANGED <<http2, config, net, conn, rebuild>>
        /\ build[w].at = "dial"
        /\ build'[w].at = "connect" /\ build'[w].cfg = build[w].cfg /\ build'[w].http2 = http2
        /\ \A v \in WorkerId \ {w} : build'[v] = build[v]
    BY <1>1, <1>a DEF BuildDial
  <2>2. \A v \in WorkerId \ {w} : SameWork(v) /\ rebuild'[v] = rebuild[v]
    BY <1>0, <2>1 DEF SameWork
  <2>3. /\ NotifyDue(w) => NotifyDue(w)'
        /\ w \in Members(workers') /\ RebuildDue(w) => RebuildDue(w)'
    BY <1>0, <2>1, RequestsKept
  <2>4. OldConfigIsDue(w) /\ OldTransportIsDue(w)
    BY DEF DueInv
  <2>5. OldConfigIsDue(w)'
    BY <2>1, <2>3, <2>4 DEF OldConfigIsDue
  <2>6. OldTransportIsDue(w)'
    BY <1>0, <2>1, <2>3, <2>4 DEF OldTransportIsDue
  <2> QED
    BY <1>0, <2>2, <2>5, <2>6, OthersDue
<1>2. CASE SupervisorWake(w) \/ SupervisorRetry(w)
  <2>1. /\ UNCHANGED <<http2, config, conn, build>>
        /\ sup[w] \in {"wait", "backoff"}
        /\ \A v \in WorkerId \ {w} : net'[v] = net[v] /\ rebuild'[v] = rebuild[v]
        /\ sup[w] = "wait" => net'[w] = None
        /\ sup[w] = "backoff" => net' = net
    BY <1>2, <1>a DEF SupervisorWake, SupervisorRetry
  <2>2. net'[w] = None /\ build'[w].at = "none"
    BY <1>b, <1>c, <2>1
  <2>3. \A v \in WorkerId \ {w} : SameWork(v) /\ rebuild'[v] = rebuild[v]
    BY <1>0, <2>1 DEF SameWork
  <2>4. OldConfigIsDue(w)' /\ OldTransportIsDue(w)'
    BY <2>2, FreshWorkDue
  <2> QED
    BY <1>0, <2>3, <2>4, OthersDue
<1>3. CASE SupervisorConnect(w, Alive)
  <2>1. /\ UNCHANGED <<http2, config, net, conn, rebuild>> /\ net[w] = None
    BY <1>3, <1>c DEF SupervisorConnect
  <2>2. \/ UNCHANGED build
        \/ /\ build'[w].at = "dial" /\ build'[w].cfg = config[w]
           /\ \A v \in WorkerId \ {w} : build'[v] = build[v]
    BY <1>3, <1>a DEF SupervisorConnect, StartBuild
  <2>3. \A v \in WorkerId \ {w} : SameWork(v) /\ rebuild'[v] = rebuild[v]
    BY <1>0, <2>1, <2>2 DEF SameWork
  <2>4. OldConfigIsDue(w)' /\ OldTransportIsDue(w)'
    <3>1. CASE UNCHANGED build
      BY <3>1, <1>3, <1>b, <2>1, FreshWorkDue DEF SupervisorConnect
    <3>2. CASE build'[w].at = "dial" /\ build'[w].cfg = config[w]
      BY <3>2, <2>1, FreshWorkDue
    <3> QED
      BY <2>2, <3>1, <3>2
  <2> QED
    BY <1>0, <2>3, <2>4, OthersDue
<1>4. CASE Reconnected(w)
  <2>1. PICK t \in FreshTunnel : SupervisorBuilt(w, t)
    BY <1>4 DEF Reconnected
  <2> QED
    BY <1>0, <2>1, InstallDue DEF SupervisorBuilt
<1>5. CASE SupervisorFailed(w)
  BY <1>0, <1>5, GiveUpDue DEF SupervisorFailed
<1>6. CASE \E f \in fetches : f.w = w /\ (FetchStart(f) \/ FetchDone(f))
  <2>1. QuietDue
    BY <1>0, <1>6 DEF QuietDue, FetchStart, FetchDone
  <2> QED
    BY <2>1, QuietKeepsDue
<1> QED
  BY <1>1, <1>2, <1>3, <1>4, <1>5, <1>6 DEF WorkerStep

LEMMA DueStep ==
  ASSUME TypeInv, OwnerInv, DueInv, [Next]_vars
  PROVE  DueInv'
<1>0. Rotator \in Proc /\ Client \subseteq Proc
  BY DEF Proc
<1>1. CASE BootStep
  BY <1>1, BootStepDue
<1>2. ASSUME NEW p \in Client, CallStep(p) PROVE DueInv'
  BY <1>2, CallStepDue
<1>3. ASSUME NEW p \in Client \cup {Rotator}, LocalStep(p) PROVE DueInv'
  BY <1>0, <1>3, LocalStepDue
<1>4. ASSUME NEW p \in Client \cup {Rotator}, AnswerStep(p) PROVE DueInv'
  BY <1>0, <1>4, AnswerStepDue
<1>5. ASSUME NEW p \in Client, PickEnd(p) PROVE DueInv'
  <2>1. QuietDue
    BY <1>0, <1>5, OpAfter DEF PickEnd, QuietDue, CallsKeepRequests, At, workerVars
  <2> QED
    BY <2>1, QuietKeepsDue
<1>6. CASE RotatorArm
  <2>1. QuietDue
    BY <1>0, <1>6, OpAfter DEF RotatorArm, QuietDue, CallsKeepRequests, At, workerVars
  <2> QED
    BY <2>1, QuietKeepsDue
<1>7. CASE RotatorFire
  <2>1. QuietDue
    BY <1>0, <1>7, OpAfter DEF RotatorFire, QuietDue, CallsKeepRequests, At, workerVars
  <2> QED
    BY <2>1, QuietKeepsDue
<1>8. CASE DropPool
  <2>1. QuietDue
    BY <1>8 DEF DropPool, QuietDue, CallsKeepRequests, workerVars
  <2> QED
    BY <2>1, QuietKeepsDue
<1>9. ASSUME NEW w \in WorkerId, WorkerStep(w), UNCHANGED poolVars PROVE DueInv'
  BY <1>9, WorkerStepDue
<1>10. ASSUME NEW t \in Tunnel, TunnelDies(t), UNCHANGED poolVars PROVE DueInv'
  <2>1. QuietDue
    BY <1>10 DEF TunnelDies, QuietDue, CallsKeepRequests, poolVars, TypeInv, TypeOK, WorkerTypeOK
  <2> QED
    BY <2>1, QuietKeepsDue
<1>11. CASE UNCHANGED vars
  <2>1. QuietDue
    BY <1>11 DEF vars, workerVars, poolVars, QuietDue, CallsKeepRequests
  <2> QED
    BY <2>1, QuietKeepsDue
<1> QED
  BY <1>1, <1>2, <1>3, <1>4, <1>5, <1>6, <1>7, <1>8, <1>9, <1>10, <1>11 DEF Next

LEMMA DueIsStaleHasRebuild == DueInv => StaleTunnelHasRebuild
<1> SUFFICES ASSUME DueInv, NEW w \in WorkerId, net[w] # None,
                    Outdated(w, conn[net[w]].cfg, conn[net[w]].http2)
             PROVE  RebuildDue(w)
  BY DEF StaleTunnelHasRebuild
<1>1. OldConfigIsDue(w) /\ OldTransportIsDue(w)
  BY DEF DueInv
<1>2. NotifyDue(w) => RebuildDue(w)
  BY DEF NotifyDue, RebuildDue, WillNotify
<1> QED
  BY <1>1, <1>2 DEF Outdated, OldConfigIsDue, OldTransportIsDue

\* The inductive invariant of the pool.
LEMMA IInvStep == IInv /\ [Next]_vars => IInv'
BY TypeStep, OwnerStep, DueStep DEF IInv

\* No worker serves a tunnel of a rotated account or a switched transport
\* without a rebuild request that is on its way: rotate and set_http2 lose
\* none, whatever the supervisors are doing.
THEOREM StaleIsRebuilt == Spec => []StaleTunnelHasRebuild
<1>1. Init => IInv
  BY TypeInit, OwnerInit, DueInit DEF IInv
<1>2. IInv => StaleTunnelHasRebuild
  BY DueIsStaleHasRebuild DEF IInv
<1> QED
  BY <1>1, <1>2, IInvStep, PTL DEF Spec
=============================================================================
