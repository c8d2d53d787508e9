-------------------------- MODULE PoolMemberProofs --------------------------
(***************************************************************************)
(* Who is in the pool: add_account hands out its id before it registers an *)
(* account and pushes the worker long after, while other calls add and     *)
(* remove.  Proofs, on top of the layers of PoolInv, that the list never   *)
(* holds a worker twice and never becomes empty again.                     *)
(***************************************************************************)
EXTENDS PoolProofs

\* An id that was handed out and whose worker has not been pushed is not in
\* the list.  With RaisedAlone (no two calls hold the same id) it makes
\* DistinctIds inductive.
ListInv ==
  /\ DistinctIds
  /\ \A p \in Proc : At(p, "add") => op[p].w \notin Members(workers)

-----------------------------------------------------------------------------
(* Lists of distinct workers.                                              *)

LEMMA AppendDistinct ==
  ASSUME NEW s \in Seq(WorkerId), NEW w \in WorkerId, w \notin Members(s),
         \A i, j \in DOMAIN s : s[i] = s[j] => i = j
  PROVE  LET r == Append(s, w)
         IN  r # <<>> /\ \A i, j \in DOMAIN r : r[i] = r[j] => i = j
<1>1. /\ Len(s) \in Nat /\ DOMAIN s = 1..Len(s)
      /\ DOMAIN Append(s, w) = 1..(Len(s) + 1)
      /\ \A i \in 1..Len(s) : Append(s, w)[i] = s[i]
      /\ Append(s, w)[Len(s) + 1] = w
  OBVIOUS
<1>2. \A i \in 1..(Len(s) + 1) : i \in 1..Len(s) \/ i = Len(s) + 1
  BY <1>1
<1>3. \A i \in 1..Len(s) : s[i] # w
  BY <1>1, MembersHas
<1>4. Append(s, w) # <<>>
  OBVIOUS
<1> QED
  BY <1>1, <1>2, <1>3, <1>4

LEMMA RetainedDistinct ==
  ASSUME NEW s \in Seq(WorkerId), NEW K \in SUBSET DOMAIN s, NEW r \in Retained(s, K),
         \A i, j \in DOMAIN s : s[i] = s[j] => i = j
  PROVE  \A i, j \in DOMAIN r : r[i] = r[j] => i = j
<1>1. r \in Seq(WorkerId) /\ DOMAIN r = 1..Len(r) /\ Len(r) \in Nat
  BY RetainedList
<1>2. PICK f \in [1..Len(r) -> K] :
        /\ \A j \in 1..Len(r) : r[j] = s[f[j]]
        /\ \A j, k \in 1..Len(r) : j < k => f[j] < f[k]
  BY RetainedList
<1> SUFFICES ASSUME NEW i \in 1..Len(r), NEW j \in 1..Len(r), r[i] = r[j] PROVE i = j
  BY <1>1
<1>3. f[i] = f[j] /\ f[i] \in 1..Len(s) /\ f[j] \in 1..Len(s)
  BY <1>2
<1>4. ~(i < j) /\ ~(j < i)
  BY <1>2, <1>3
<1> QED
  BY <1>1, <1>4

\* A list of two or more distinct workers is not emptied by one id.
LEMMA RetainedSome ==
  ASSUME NEW s \in Seq(WorkerId), NEW id, Len(s) > 1,
         \A i, j \in DOMAIN s : s[i] = s[j] => i = j,
         NEW r \in Retained(s, {i \in DOMAIN s : s[i] # id})
  PROVE  r # <<>>
<1> DEFINE K == {i \in DOMAIN s : s[i] # id}
<1>1. 1 \in DOMAIN s /\ 2 \in DOMAIN s
  OBVIOUS
<1>2. s[1] # s[2]
  BY <1>1
<1>3. PICK i \in K : TRUE
  BY <1>1, <1>2
<1>4. K \in SUBSET DOMAIN s
  OBVIOUS
<1> HIDE DEF K
<1>5. r \in Retained(s, K)
  BY DEF K
<1>6. r \in Seq(WorkerId)
  BY <1>4, <1>5, RetainedList
<1>7. PICK f \in [1..Len(r) -> K] : \A k \in K : \E j \in 1..Len(r) : f[j] = k
  BY <1>4, <1>5, RetainedList
<1>8. \E j \in 1..Len(r) : f[j] = i
  BY <1>3, <1>7
<1> QED
  BY <1>6, <1>8

\* Members of a list whose elements are all below a bound.
LEMMA MembersBelow ==
  ASSUME NEW s \in Seq(WorkerId), NEW n
  PROVE  (\A i \in DOMAIN s : s[i] < n) <=> (\A w \in Members(s) : w < n)
BY DEF Members

-----------------------------------------------------------------------------
(* The steps.                                                              *)

\* A step that leaves the list and the counter alone and hands out no id.
QuietList ==
  /\ UNCHANGED <<workers, next_id>>
  /\ \A q \in Proc : op'[q] = op[q] \/ op'[q].at # "add"

LEMMA QuietKeepsList ==
  ASSUME ListInv, QuietList
  PROVE  ListInv'
BY DEF ListInv, DistinctIds, QuietList, At

\* All steps but the four that touch the list or hand out an id.
ListStep ==
  \/ BootNext
  \/ \E p \in Client : AddAccount(p)
  \/ \E p \in Client, id \in WorkerId : RemoveAccount(p, id)
  \/ \E p \in Client \cup {Rotator} : AddRegistered(p)

LEMMA OtherStepsQuiet ==
  ASSUME TypeInv, [Next]_vars
  PROVE  ListStep \/ QuietList
<1> SUFFICES ASSUME ~ListStep PROVE QuietList
  OBVIOUS
<1> USE DEF QuietList, workerVars
<1>0. Boot \in Proc /\ Rotator \in Proc /\ Client \subseteq Proc
  BY DEF Proc
<1>1. CASE BootStep
  <2>1. ASSUME NEW t \in FreshTunnel, BootBuilt(t) PROVE QuietList
    BY <1>0, <2>1, OpAfter DEF BootBuilt, Call
  <2>2. CASE BootFailed
    BY <1>0, <2>2, OpAfter DEF BootFailed, Call
  <2>3. CASE BootDone
    BY <1>0, <2>3 DEF BootDone, Call, Idle, TypeInv, TypeOK, PoolTypeOK
  <2> QED
    BY <1>1, <2>1, <2>2, <2>3 DEF BootStep, ListStep
<1>2. ASSUME NEW p \in Client, CallStep(p) PROVE QuietList
  <2>1. /\ UNCHANGED next_id
        /\ \A q \in Proc : op'[q] = op[q] \/ op'[q].at # "add"
    BY <1>2, QuietCallStep DEF QuietOwner, ListStep
  <2>2. UNCHANGED workers
    BY <1>2 DEF CallStep, ListStep, SetEnabled, SetHttp2, Select, Reconnect,
       Rotate, RefreshTrace, SetRotateInterval, Pick, Become
  <2> QED
    BY <2>1, <2>2
<1>3. ASSUME NEW p \in Client \cup {Rotator}, LocalStep(p) PROVE QuietList
  <2>1. /\ UNCHANGED next_id
        /\ \A q \in Proc : op'[q] = op[q] \/ op'[q].at # "add"
    BY <1>0, <1>3, QuietLocalStep DEF QuietOwner
  <2>2. UNCHANGED workers
    BY <1>3 DEF LocalStep, NotifyNext, ReconnectAll, RotateFind, RotateDefault,
       RemoveUnpin, TraceNext, TraceDone, PickPin, PickPinned, PickStart, PickScan
  <2> QED
    BY <2>1, <2>2
<1>4. ASSUME NEW p \in Client \cup {Rotator}, AnswerStep(p) PROVE QuietList
  <2>0. p \in Proc
    BY <1>0
  <2>1. CASE RotateRegistered(p)
    BY <2>0, <2>1, OpAfter DEF RotateRegistered, Call
  <2>2. CASE RotateFailed(p)
    BY <2>0, <2>2, OpAfter DEF RotateFailed, Idle, Call
  <2>3. CASE AddFailed(p)
    BY <2>0, <2>3, OpAfter DEF AddFailed, Idle, Call
  <2>4. ASSUME NEW t \in FreshTunnel, AddBuilt(p, t) PROVE QuietList
    BY <2>0, <2>4, OpAfter DEF AddBuilt, Idle, Call
  <2>5. CASE AddBuildFailed(p)
    BY <2>0, <2>5, OpAfter DEF AddBuildFailed, Idle, Call
  <2> QED
    BY <1>4, <2>1, <2>2, <2>3, <2>4, <2>5 DEF AnswerStep, ListStep
<1>5. ASSUME NEW p \in Client, PickEnd(p) PROVE QuietList
  BY <1>0, <1>5, OpAfter DEF PickEnd, Idle, Call
<1>6. CASE RotatorArm
  BY <1>0, <1>6, OpAfter DEF RotatorArm, Call
<1>7. CASE RotatorFire
  BY <1>0, <1>7, OpAfter DEF RotatorFire, Idle, Call
<1>8. CASE DropPool
  BY <1>8 DEF DropPool
<1>9. CASE UNCHANGED poolVars
  BY <1>9 DEF poolVars
<1> QED
  BY <1>1, <1>2, <1>3, <1>4, <1>5, <1>6, <1>7, <1>8, <1>9 DEF Next, vars

\* A worker is pushed by the call that holds its id, or by Pool::new with
\* the next id.
LEMMA PushedList ==
  ASSUME TypeInv, ListInv, NEW w \in WorkerId, w \notin Members(workers),
         workers' = Append(workers, w), next_id' \in Nat, w < next_id',
         next_id <= next_id',
         \A q \in Proc : At(q, "add")' => At(q, "add") /\ op'[q] = op[q]
                                          /\ op[q].w # w
  PROVE  ListInv'
<1>1. workers \in Seq(WorkerId) /\ next_id \in Nat
  BY WorkerAssumption DEF TypeInv, TypeOK, PoolTypeOK
<1>2. \A i, j \in DOMAIN workers' : workers'[i] = workers'[j] => i = j
  BY <1>1, AppendDistinct DEF ListInv, DistinctIds
<1>3. Members(workers') = Members(workers) \cup {w}
  BY <1>1, AppendMembers
<1>4. \A v \in Members(workers) : v < next_id'
  <2>1. \A i \in DOMAIN workers : workers[i] < next_id
    BY DEF ListInv, DistinctIds
  <2>2. \A v \in Members(workers) : v < next_id
    BY <1>1, <2>1, MembersBelow
  <2>3. \A v \in Members(workers) : v \in Int
    <3>1. Members(workers) \subseteq WorkerId
      BY <1>1, MembersType
    <3> QED
      BY <3>1 DEF WorkerId
  <2> QED
    BY <2>2, <2>3, <1>1
<1>5. workers' \in Seq(WorkerId)
  BY <1>1
<1>6. \A i \in DOMAIN workers' : workers'[i] < next_id'
  BY <1>3, <1>4, <1>5, MembersBelow
<1>7. \A q \in Proc : At(q, "add")' => (op[q].w)' \notin Members(workers')
  BY <1>3 DEF ListInv, At
<1> QED
  BY <1>2, <1>6, <1>7 DEF ListInv, DistinctIds, Members

LEMMA ListStepKeeps ==
  ASSUME TypeInv, OwnerInv, ListInv, ListStep
  PROVE  ListInv'
<1>0. /\ workers \in Seq(WorkerId) /\ next_id \in Nat /\ next_id >= 1 /\ MaxId \in Nat
      /\ Boot \in Proc /\ Rotator \in Proc /\ Client \subseteq Proc
  BY WorkerAssumption DEF TypeInv, TypeOK, PoolTypeOK, Proc
<1>1. CASE BootNext
  <2>1. /\ workers' = Append(workers, next_id) /\ next_id' = next_id + 1
        /\ Become(Boot, Call("booting", next_id, <<>>, None))
    BY <1>1 DEF BootNext, PushWorker
  <2>2. next_id \in WorkerId /\ next_id \notin Members(workers)
    <3>1. next_id \in WorkerId
      BY <1>0, <1>1, PoolAssumption DEF BootNext, WorkerId
    <3>2. \A i \in DOMAIN workers : workers[i] # next_id
      BY <1>0 DEF ListInv, DistinctIds
    <3> QED
      BY <3>1, <3>2 DEF Members
  <2>3. \A q \in Proc : At(q, "add")' => At(q, "add") /\ op'[q] = op[q]
    BY <1>0, <2>1, OpAfter DEF At, Call
  <2>4. \A q \in Proc : At(q, "add") => op[q].w # next_id
    BY <1>0 DEF OwnerInv, RaisedAlone, Raises, At
  <2> QED
    BY <1>0, <2>1, <2>2, <2>3, <2>4, PushedList
<1>2. ASSUME NEW p \in Client, AddAccount(p) PROVE ListInv'
  <2>1. /\ UNCHANGED workers /\ next_id' = next_id + 1
        /\ Become(p, Call("add", next_id, <<>>, None))
    BY <1>2 DEF AddAccount
  <2>2. \A i \in DOMAIN workers : workers[i] < next_id /\ workers[i] \in Int
    BY <1>0 DEF ListInv, DistinctIds, WorkerId
  <2>3. DistinctIds'
    BY <1>0, <2>1, <2>2 DEF ListInv, DistinctIds
  <2>4. next_id \notin Members(workers)
    BY <1>0, <2>2 DEF Members
  <2>5. \A q \in Proc : op'[q] = IF q = p THEN Call("add", next_id, <<>>, None)
                                 ELSE op[q]
    BY <1>0, <2>1, OpAfter
  <2>6. \A q \in Proc : At(q, "add")' => (op[q].w)' \notin Members(workers)
    BY <2>4, <2>5 DEF ListInv, At, Call
  <2> QED
    BY <2>1, <2>3, <2>6 DEF ListInv
<1>3. ASSUME NEW p \in Client, NEW id \in WorkerId, RemoveAccount(p, id)
      PROVE  ListInv'
  <2>1. PICK K \in SUBSET DOMAIN workers : workers' \in Retained(workers, K)
    BY <1>3 DEF RemoveAccount
  <2>2. UNCHANGED next_id /\ \A q \in Proc : op'[q] = op[q] \/ op'[q].at # "add"
    BY <1>0, <1>3, OpAfter DEF RemoveAccount, Call, Idle
  <2>3. \A j, k \in DOMAIN workers' : workers'[j] = workers'[k] => j = k
    BY <1>0, <2>1, RetainedDistinct DEF ListInv, DistinctIds
  <2>4. Members(workers') \subseteq Members(workers)
    BY <1>0, <2>1, RetainedMembers
  <2>5. \A j \in DOMAIN workers' : workers'[j] < next_id
    <3>1. workers' \in Seq(WorkerId)
      BY <1>0, <2>1, RetainedList
    <3>2. \A j \in DOMAIN workers : workers[j] < next_id
      BY DEF ListInv, DistinctIds
    <3>3. \A w \in Members(workers) : w < next_id
      BY <1>0, <3>2, MembersBelow
    <3> QED
      BY <2>4, <3>1, <3>3, MembersBelow
  <2>6. \A q \in Proc : At(q, "add")' => (op[q].w)' \notin Members(workers')
    BY <2>2, <2>4 DEF ListInv, At
  <2> QED
    BY <2>2, <2>3, <2>5, <2>6 DEF ListInv, DistinctIds, Members
<1>4. ASSUME NEW p \in Client \cup {Rotator}, AddRegistered(p) PROVE ListInv'
  <2>1. /\ workers' = Append(workers, op[p].w) /\ UNCHANGED next_id
        /\ Become(p, Call("adding", op[p].w, <<>>, None)) /\ At(p, "add")
    BY <1>4 DEF AddRegistered, PushWorker
  <2>2. p \in Proc /\ op[p].w \in WorkerId /\ op[p].w \notin Members(workers)
    BY <1>0, <2>1 DEF TypeInv, CallShape, WellFormed, ListInv, At
  <2>3. op[p].w < next_id
    BY <2>1, <2>2 DEF OwnerInv, RaisedAlone, Raises, At
  <2>4. \A q \in Proc : At(q, "add")' => At(q, "add") /\ op'[q] = op[q] /\ q # p
    BY <2>1, <2>2, OpAfter DEF At, Call
  <2>5. \A q \in Proc : At(q, "add") /\ q # p => op[q].w # op[p].w
    BY <2>1, <2>2 DEF OwnerInv, RaisedAlone, Raises, At
  <2> QED
    BY <1>0, <2>1, <2>2, <2>3, <2>4, <2>5, PushedList
<1> QED
  BY <1>1, <1>2, <1>3, <1>4 DEF ListStep

LEMMA ListInit == Init => ListInv
BY DEF Init, PoolInit, ListInv, DistinctIds, Members, At, Call, Idle

-----------------------------------------------------------------------------
(* The results.                                                            *)

\* The pool lists a worker once, under an id that was handed out, however
\* add_account and remove_account overlap.
THEOREM IdsAreDistinct == Spec => []DistinctIds
<1>1. Init => TypeInv /\ OwnerInv /\ ListInv
  BY TypeInit, OwnerInit, ListInit
<1>2. TypeInv /\ OwnerInv /\ ListInv /\ [Next]_vars
        => (TypeInv /\ OwnerInv /\ ListInv)'
  BY TypeStep, OwnerStep, OtherStepsQuiet, QuietKeepsList, ListStepKeeps
<1>3. ListInv => DistinctIds
  BY DEF ListInv
<1> QED
  BY <1>1, <1>2, <1>3, PTL DEF Spec

\* A pool that has an account keeps one: remove_account asks for two entries
\* in the list, and drops all those of one id, which are not both.
THEOREM PoolKeepsOne == Spec => NeverEmptied
<1>1. Init => TypeInv /\ OwnerInv /\ ListInv
  BY TypeInit, OwnerInit, ListInit
<1>2. TypeInv /\ OwnerInv /\ ListInv /\ [Next]_vars
        => (TypeInv /\ OwnerInv /\ ListInv)'
  BY TypeStep, OwnerStep, OtherStepsQuiet, QuietKeepsList, ListStepKeeps
<1>3. TypeInv /\ ListInv /\ [Next]_vars => [workers # <<>> => workers' # <<>>]_vars
  <2> SUFFICES ASSUME TypeInv, ListInv, [Next]_vars, workers # <<>> PROVE workers' # <<>>
    OBVIOUS
  <2>0. workers \in Seq(WorkerId)
    BY DEF TypeInv, TypeOK, PoolTypeOK
  <2>1. CASE QuietList
    BY <2>1 DEF QuietList
  <2>2. ASSUME NEW w, workers' = Append(workers, w) PROVE workers' # <<>>
    BY <2>0, <2>2
  <2>3. ASSUME NEW p \in Client, NEW id \in WorkerId, RemoveAccount(p, id)
        PROVE  workers' # <<>>
    <3>1. Len(workers) > 1 /\ workers' \in Retained(workers, {i \in DOMAIN workers : workers[i] # id})
      BY <2>3 DEF RemoveAccount
    <3>2. \A i, j \in DOMAIN workers : workers[i] = workers[j] => i = j
      BY DEF ListInv, DistinctIds
    <3> QED
      BY <2>0, <3>1, <3>2, RetainedSome
  <2>4. CASE BootNext
    BY <2>2, <2>4 DEF BootNext, PushWorker
  <2>5. ASSUME NEW p \in Client \cup {Rotator}, AddRegistered(p)
        PROVE  workers' # <<>>
    BY <2>2, <2>5 DEF AddRegistered, PushWorker
  <2>6. ASSUME NEW p \in Client, AddAccount(p) PROVE workers' # <<>>
    BY <2>6 DEF AddAccount
  <2> QED
    BY <2>1, <2>3, <2>4, <2>5, <2>6, OtherStepsQuiet DEF ListStep
<1> QED
  BY <1>1, <1>2, <1>3, PTL DEF Spec, NeverEmptied
=============================================================================
