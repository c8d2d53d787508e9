----------------------------- MODULE PickProofs -----------------------------
(***************************************************************************)
(* What pick owes its caller, proved for any number of workers, clients    *)
(* and concurrent changes: while a call walks its snapshot, the workers    *)
(* that have been ready throughout are still ahead of it.                  *)
(***************************************************************************)
EXTENDS PickHistory, PoolProofs

\* What a pick call c still has to offer when the workers S were ready, and
\* the pin stood on k, ever since it began: until it ends, S is ahead of it;
\* it passes by k only when k is not in S.
OnCourse(c, S, k) ==
  /\ c.at \in {"pick", "pinned", "rr", "scan"} => S \subseteq Members(c.todo)
  /\ (c.at \in {"pinned", "picked"} /\ k \in S) => c.w = k
  /\ c.at \in {"rr", "scan"} => k \notin S
  /\ c.at = "refused" => S = {}

\* The histories' types, that they tell the truth about the present, and
\* the course of every call.
PickInv ==
  /\ steady \in [Client -> SUBSET WorkerId]
  /\ pin \in [Client -> 0..MaxId]
  /\ \A p \in Client :
       /\ \A w \in steady[p] : net[w] # None
       /\ pin[p] \in {0, pinned}
       /\ OnCourse(op[p], steady[p], pin[p])

-----------------------------------------------------------------------------
(* The order of the scan.                                                  *)

LEMMA ModOfSum ==
  ASSUME NEW n \in Nat \ {0}, NEW q \in Int, NEW x \in 0..(n - 1)
  PROVE  (n * q + x) % n = x
OBVIOUS

LEMMA DivMod ==
  ASSUME NEW n \in Nat \ {0}, NEW k \in Nat
  PROVE  k \div n \in Int /\ k = n * (k \div n) + (k % n)
OBVIOUS

\* Wherever the round-robin counter makes it start, the scan visits the
\* whole snapshot.
LEMMA StartingAtMembers ==
  ASSUME NEW s \in Seq(WorkerId), s # <<>>, NEW k \in Nat
  PROVE  Members(s) \subseteq Members(StartingAt(s, k))
<1> DEFINE n == Len(s)
           q == k \div n
           r == k % n
           u == StartingAt(s, k)
<1>1. n \in Nat \ {0} /\ DOMAIN s = 1..n
  OBVIOUS
<1>2. r \in 0..(n - 1) /\ q \in Int /\ k = n * q + r
  BY <1>1, ModRange, DivMod
<1>3. DOMAIN u = 1..n /\ \A j \in 1..n : u[j] = s[((k + j - 1) % n) + 1]
  BY <1>1 DEF StartingAt
<1> SUFFICES ASSUME NEW i \in 1..n PROVE s[i] \in Members(u)
  BY <1>1 DEF Members
<1>4. CASE i - 1 >= r
  <2>1. i - r \in 1..n /\ i - 1 \in 0..(n - 1)
    BY <1>1, <1>2, <1>4
  <2>2. k + (i - r) - 1 = n * q + (i - 1)
    <3>1. n * q \in Int
      BY <1>1, <1>2
    <3> HIDE DEF n, q, r
    <3> QED
      BY <1>1, <1>2, <3>1
  <2>3. (k + (i - r) - 1) % n = i - 1
    BY <1>1, <1>2, <2>1, <2>2, ModOfSum
  <2>4. u[i - r] = s[i]
    <3>1. u[i - r] = s[((k + (i - r) - 1) % n) + 1]
      BY <1>3, <2>1, Zenon
    <3>2. (i - 1) + 1 = i
      OBVIOUS
    <3> QED
      BY <2>3, <3>1, <3>2, Zenon
  <2> QED
    BY <1>3, <2>1, <2>4, MembersHas
<1>5. CASE i - 1 < r
  <2>1. (n + i) - r \in 1..n /\ i - 1 \in 0..(n - 1)
    BY <1>1, <1>2, <1>5
  <2>2. k + ((n + i) - r) - 1 = n * (q + 1) + (i - 1)
    <3>1. n * q \in Int /\ n * (q + 1) = n * q + n
      BY <1>1, <1>2
    <3> HIDE DEF n, q, r
    <3> QED
      BY <1>1, <1>2, <3>1
  <2>3. (k + ((n + i) - r) - 1) % n = i - 1
    <3>1. q + 1 \in Int
      BY <1>2
    <3>2. (n * (q + 1) + (i - 1)) % n = i - 1
      BY <1>1, <2>1, <3>1, ModOfSum
    <3> QED
      BY <2>2, <3>2
  <2>4. u[(n + i) - r] = s[i]
    <3>1. u[(n + i) - r] = s[((k + ((n + i) - r) - 1) % n) + 1]
      BY <1>3, <2>1, Zenon
    <3>2. (i - 1) + 1 = i
      OBVIOUS
    <3> QED
      BY <2>3, <3>1, <3>2, Zenon
  <2> QED
    BY <1>3, <2>1, <2>4, MembersHas
<1> QED
  BY <1>1, <1>2, <1>4, <1>5

-----------------------------------------------------------------------------
(* The histories.                                                          *)

\* Record keeps the histories' types and lets nothing into them that does
\* not hold now.
LEMMA RecordTruth ==
  ASSUME TypeInv, TypeInv', PickInv, Record
  PROVE  /\ steady' \in [Client -> SUBSET WorkerId]
         /\ pin' \in [Client -> 0..MaxId]
         /\ \A p \in Client : /\ \A w \in steady'[p] : net'[w] # None
                              /\ pin'[p] \in {0, pinned'}
<1>0. /\ MaxId \in Nat /\ pinned' \in 0..MaxId
      /\ steady \in [Client -> SUBSET WorkerId]
  BY WorkerAssumption DEF TypeInv, TypeOK, PoolTypeOK, PickInv
<1>1. Members(workers') \subseteq WorkerId
  BY MembersType DEF TypeInv, TypeOK, PoolTypeOK
<1>2. ASSUME NEW p \in Client
      PROVE  /\ steady'[p] \in SUBSET WorkerId
             /\ \A w \in steady'[p] : net'[w] # None
  BY <1>0, <1>1 DEF Record
<1>3. ASSUME NEW p \in Client
      PROVE  pin'[p] \in {0, pinned'} /\ pin'[p] \in 0..MaxId
  BY <1>0 DEF Record
<1>4. DOMAIN steady' = Client /\ DOMAIN pin' = Client
  BY DEF Record
<1>5. /\ steady' = [p \in Client |-> steady'[p]]
      /\ pin' = [p \in Client |-> pin'[p]]
  BY DEF Record
<1> QED
  BY <1>2, <1>3, <1>5

\* During a call the histories only shrink.
LEMMA RecordShrinks ==
  ASSUME Record, NEW p \in Client, Picking(op[p])
  PROVE  steady'[p] \subseteq steady[p] /\ pin'[p] \in {0, pin[p]}
BY DEF Record

\* A pick that stays where it is, or that is over, stays on course.
LEMMA SameCourse ==
  ASSUME PickInv, Record, NEW p \in Client,
         op'[p] = op[p] \/ ~Picking(op'[p])
  PROVE  OnCourse(op'[p], steady'[p], pin'[p])
<1>1. CASE ~Picking(op'[p])
  BY <1>1 DEF Picking, OnCourse
<1>2. CASE op'[p] = op[p] /\ Picking(op[p])
  <2>1. steady'[p] \subseteq steady[p] /\ pin'[p] \in {0, pin[p]}
    BY <1>2, RecordShrinks
  <2>2. 0 \notin steady[p] /\ OnCourse(op[p], steady[p], pin[p])
    BY DEF PickInv, WorkerId
  <2> QED
    BY <1>2, <2>1, <2>2 DEF OnCourse
<1> QED
  BY <1>1, <1>2

\* The histories of a pick that begins.
LEMMA PickBegins ==
  ASSUME TypeInv, Record, NEW p \in Client, Pick(p)
  PROVE  OnCourse(op'[p], steady'[p], pin'[p])
<1>1. op'[p] = Call(IF workers = <<>> THEN "refused" ELSE "pick", 0, workers, None)
  BY OpAfter DEF Pick, Proc
<1>2. UNCHANGED workers /\ ~Picking(op[p])
  BY DEF Pick, Begin, At, Picking
<1>3. steady'[p] \subseteq Members(workers)
  BY <1>2 DEF Record
<1>4. workers = <<>> => steady'[p] = {}
  BY <1>3 DEF Members
<1> QED
  BY <1>1, <1>3, <1>4 DEF OnCourse, Call

\* The pin is read: if it stood on a worker that was ready throughout, that
\* worker is in the snapshot and is looked at first.
LEMMA PickPinCourse ==
  ASSUME TypeInv, PickInv, Record, NEW p \in Client, PickPin(p)
  PROVE  OnCourse(op'[p], steady'[p], pin'[p])
<1> DEFINE todo == op[p].todo
<1>1. op'[p] = IF pinned \in Members(todo) THEN Call("pinned", pinned, todo, None)
               ELSE Call("rr", 0, todo, None)
  BY OpAfter DEF PickPin, Proc
<1>2. steady'[p] \subseteq steady[p] /\ pin'[p] \in {0, pin[p]}
  BY RecordShrinks DEF PickPin, At, Picking
<1>3. /\ steady[p] \subseteq Members(todo) /\ 0 \notin steady[p]
      /\ pin[p] \in {0, pinned}
  BY DEF PickInv, OnCourse, PickPin, At, WorkerId
<1>4. pin'[p] \in steady'[p] => pin'[p] = pinned /\ pinned \in Members(todo)
  BY <1>2, <1>3
<1> QED
  BY <1>1, <1>2, <1>3, <1>4 DEF OnCourse, Call

\* The pinned worker is passed by only if it is not ready now.
LEMMA PickPinnedCourse ==
  ASSUME TypeInv, TypeInv', PickInv, Record, NEW p \in Client, PickPinned(p)
  PROVE  OnCourse(op'[p], steady'[p], pin'[p])
<1> DEFINE w == op[p].w
<1>1. op'[p] = IF net[w] = None THEN Call("rr", 0, op[p].todo, None)
               ELSE Call("picked", w, <<>>, None)
  BY OpAfter DEF PickPinned, Proc
<1>2. steady'[p] \subseteq steady[p] /\ pin'[p] \in {0, pin[p]}
  BY RecordShrinks DEF PickPinned, At, Picking
<1>3. /\ steady[p] \subseteq Members(op[p].todo) /\ 0 \notin steady[p]
      /\ pin[p] \in steady[p] => w = pin[p]
  BY DEF PickInv, OnCourse, PickPinned, At, WorkerId
<1>4. \A v \in steady'[p] : net[v] # None
  BY RecordTruth DEF PickPinned, workerVars
<1>5. pin'[p] \in steady'[p] => pin'[p] = w /\ net[w] # None
  BY <1>2, <1>3, <1>4
<1> QED
  BY <1>1, <1>2, <1>3, <1>5 DEF OnCourse, Call

\* The scan begins: it visits the whole snapshot.
LEMMA PickStartCourse ==
  ASSUME TypeInv, PickInv, Record, NEW p \in Client, PickStart(p)
  PROVE  OnCourse(op'[p], steady'[p], pin'[p])
<1>0. p \in Proc
  BY DEF Proc
<1>1. op'[p] = Call("scan", 0, StartingAt(op[p].todo, rr), None)
  BY <1>0, OpAfter DEF PickStart
<1>2. steady'[p] \subseteq steady[p] /\ pin'[p] \in {0, pin[p]}
  BY RecordShrinks DEF PickStart, At, Picking
<1>3. /\ steady[p] \subseteq Members(op[p].todo) /\ 0 \notin steady[p]
      /\ pin[p] \notin steady[p]
  BY DEF PickInv, OnCourse, PickStart, At, WorkerId
<1>4. op[p].todo \in Seq(WorkerId) /\ op[p].todo # <<>> /\ rr \in Nat
  BY <1>0, PoolAssumption
  DEF TypeInv, TypeOK, PoolTypeOK, CallShape, WellFormed, PickStart, At, OpType
<1>5. Members(op[p].todo) \subseteq Members(StartingAt(op[p].todo, rr))
  BY <1>4, StartingAtMembers
<1> QED
  BY <1>1, <1>2, <1>3, <1>5 DEF OnCourse, Call

\* One round of the scan: a worker that was ready throughout is not passed by.
LEMMA PickScanCourse ==
  ASSUME TypeInv, TypeInv', PickInv, Record, NEW p \in Client, PickScan(p)
  PROVE  OnCourse(op'[p], steady'[p], pin'[p])
<1> DEFINE w == Head(op[p].todo)
<1>0. p \in Proc
  BY DEF Proc
<1>1. op'[p] = IF net[w] # None THEN Call("picked", w, <<>>, None)
               ELSE IF Len(op[p].todo) = 1 THEN Call("refused", 0, <<>>, None)
               ELSE Call("scan", 0, Tail(op[p].todo), None)
  BY <1>0, OpAfter DEF PickScan
<1>2. steady'[p] \subseteq steady[p] /\ pin'[p] \in {0, pin[p]}
  BY RecordShrinks DEF PickScan, At, Picking
<1>3. /\ steady[p] \subseteq Members(op[p].todo) /\ 0 \notin steady[p]
      /\ pin[p] \notin steady[p]
  BY DEF PickInv, OnCourse, PickScan, At, WorkerId
<1>4. op[p].todo \in Seq(WorkerId) /\ op[p].todo # <<>>
  BY <1>0 DEF TypeInv, TypeOK, PoolTypeOK, CallShape, WellFormed, PickScan, At, OpType
<1>5. \A v \in steady'[p] : net[v] # None
  BY RecordTruth DEF PickScan, workerVars
<1>6. pin'[p] \notin steady'[p]
  BY <1>2, <1>3
<1>7. ASSUME net[w] = None, NEW v \in steady'[p]
      PROVE  Len(op[p].todo) # 1 /\ v \in Members(Tail(op[p].todo))
  <2>1. v # w /\ v \in Members(op[p].todo)
    BY <1>2, <1>3, <1>5, <1>7
  <2> QED
    BY <1>4, <2>1, TailMembers
<1> QED
  BY <1>1, <1>6, <1>7 DEF OnCourse, Call

-----------------------------------------------------------------------------
(* The steps of everybody else.                                            *)

\* p takes a step of pick.
PickStep(p) == Pick(p) \/ PickPin(p) \/ PickPinned(p) \/ PickStart(p) \/ PickScan(p)

\* Calls that are not picks come and go.
QuietPick ==
  \A q \in Client : op'[q] = op[q] \/ ~Picking(op'[q])

LEMMA PickStepAlone ==
  ASSUME TypeInv, NEW p \in Client, PickStep(p)
  PROVE  \A q \in Client : q # p => op'[q] = op[q]
BY OpAfter DEF PickStep, Pick, PickPin, PickPinned, PickStart, PickScan, Proc

LEMMA OthersQuiet ==
  ASSUME TypeInv, Next
  PROVE  (\E p \in Client : PickStep(p)) \/ QuietPick
<1> SUFFICES ASSUME \A p \in Client : ~PickStep(p) PROVE QuietPick
  OBVIOUS
<1> USE DEF QuietPick, Picking, Call, Idle
<1>0. /\ Boot \in Proc /\ Rotator \in Proc /\ Client \subseteq Proc
      /\ Boot \notin Client /\ Rotator \notin Client
  BY PoolAssumption DEF Proc
<1>1. CASE BootStep
  <2>1. CASE BootNext
    BY <1>0, <2>1, OpAfter DEF BootNext
  <2>2. ASSUME NEW t \in FreshTunnel, BootBuilt(t) PROVE QuietPick
    BY <1>0, <2>2, OpAfter DEF BootBuilt
  <2>3. CASE BootFailed
    BY <1>0, <2>3, OpAfter DEF BootFailed
  <2>4. CASE BootDone
    BY <1>0, <2>4 DEF BootDone, TypeInv, TypeOK, PoolTypeOK
  <2> QED
    BY <1>1, <2>1, <2>2, <2>3, <2>4 DEF BootStep
<1>2. ASSUME NEW p \in Client, CallStep(p) PROVE QuietPick
  <2>1. ASSUME NEW on \in BOOLEAN, SetEnabled(p, on) PROVE QuietPick
    BY <2>1 DEF SetEnabled
  <2>2. ASSUME NEW on \in BOOLEAN, SetHttp2(p, on) PROVE QuietPick
    BY <1>0, <2>2, OpAfter DEF SetHttp2
  <2>3. ASSUME NEW id \in 0..MaxId, Select(p, id) PROVE QuietPick
    BY <2>3 DEF Select
  <2>4. ASSUME NEW id \in 0..MaxId, Reconnect(p, id) PROVE QuietPick
    BY <1>0, <2>4, OpAfter DEF Reconnect
  <2>5. ASSUME NEW id \in 0..MaxId, Rotate(p, id) PROVE QuietPick
    BY <1>0, <2>5, OpAfter DEF Rotate
  <2>6. ASSUME NEW id \in 0..MaxId, RefreshTrace(p, id) PROVE QuietPick
    BY <1>0, <2>6, OpAfter DEF RefreshTrace
  <2>7. ASSUME NEW secs \in Intervals, SetRotateInterval(p, secs) PROVE QuietPick
    BY <2>7 DEF SetRotateInterval
  <2>8. CASE AddAccount(p)
    BY <1>0, <2>8, OpAfter DEF AddAccount
  <2>9. ASSUME NEW id \in WorkerId, RemoveAccount(p, id) PROVE QuietPick
    BY <1>0, <2>9, OpAfter DEF RemoveAccount
  <2> QED
    BY <1>2, <2>1, <2>2, <2>3, <2>4, <2>5, <2>6, <2>7, <2>8, <2>9
    DEF CallStep, PickStep
<1>3. ASSUME NEW p \in Client \cup {Rotator}, LocalStep(p) PROVE QuietPick
  <2>0. p \in Proc
    BY <1>0
  <2>1. CASE NotifyNext(p)
    BY <1>0, <2>0, <2>1, OpAfter DEF NotifyNext
  <2>2. CASE ReconnectAll(p)
    BY <1>0, <2>0, <2>2, OpAfter DEF ReconnectAll
  <2>3. CASE RotateFind(p)
    BY <1>0, <2>0, <2>3, OpAfter DEF RotateFind
  <2>4. CASE RotateDefault(p)
    BY <1>0, <2>0, <2>4, OpAfter DEF RotateDefault
  <2>5. CASE RemoveUnpin(p)
    BY <1>0, <2>0, <2>5, OpAfter DEF RemoveUnpin
  <2>6. CASE TraceNext(p)
    BY <1>0, <2>0, <2>6, OpAfter DEF TraceNext, TraceRest
  <2>7. CASE TraceDone(p)
    BY <1>0, <2>0, <2>7, OpAfter DEF TraceDone, TraceRest
  <2>8. CASE PickPin(p)
    BY <1>0, <2>8, OpAfter DEF PickPin, PickStep
  <2>9. CASE PickPinned(p)
    BY <1>0, <2>9, OpAfter DEF PickPinned, PickStep
  <2>10. CASE PickStart(p)
    BY <1>0, <2>10, OpAfter DEF PickStart, PickStep
  <2>11. CASE PickScan(p)
    BY <1>0, <2>11, OpAfter DEF PickScan, PickStep
  <2> QED
    BY <1>3, <2>1, <2>2, <2>3, <2>4, <2>5, <2>6, <2>7, <2>8, <2>9, <2>10, <2>11
    DEF LocalStep
<1>4. ASSUME NEW p \in Client \cup {Rotator}, AnswerStep(p) PROVE QuietPick
  <2>0. p \in Proc
    BY <1>0
  <2>1. CASE RotateRegistered(p)
    BY <1>0, <2>0, <2>1, OpAfter DEF RotateRegistered
  <2>2. CASE RotateFailed(p)
    BY <1>0, <2>0, <2>2, OpAfter DEF RotateFailed
  <2>3. CASE AddRegistered(p)
    BY <1>0, <2>0, <2>3, OpAfter DEF AddRegistered
  <2>4. CASE AddFailed(p)
    BY <1>0, <2>0, <2>4, OpAfter DEF AddFailed
  <2>5. ASSUME NEW t \in FreshTunnel, AddBuilt(p, t) PROVE QuietPick
    BY <1>0, <2>0, <2>5, OpAfter DEF AddBuilt
  <2>6. CASE AddBuildFailed(p)
    BY <1>0, <2>0, <2>6, OpAfter DEF AddBuildFailed
  <2> QED
    BY <1>4, <2>1, <2>2, <2>3, <2>4, <2>5, <2>6 DEF AnswerStep
<1>5. ASSUME NEW p \in Client, PickEnd(p) PROVE QuietPick
  BY <1>0, <1>5, OpAfter DEF PickEnd
<1>6. CASE RotatorArm
  BY <1>0, <1>6, OpAfter DEF RotatorArm
<1>7. CASE RotatorFire
  BY <1>0, <1>7, OpAfter DEF RotatorFire
<1>8. CASE DropPool
  BY <1>8 DEF DropPool
<1>9. CASE UNCHANGED poolVars
  BY <1>9 DEF poolVars
<1> QED
  BY <1>1, <1>2, <1>3, <1>4, <1>5, <1>6, <1>7, <1>8, <1>9 DEF Next

-----------------------------------------------------------------------------
(* The results.                                                            *)

LEMMA PickInit ==
  ASSUME Init, HistoryInit
  PROVE  PickInv
BY WorkerAssumption, PoolAssumption
DEF Init, PoolInit, HistoryInit, PickInv, OnCourse, Proc, Idle, Call

LEMMA PickStepInv ==
  ASSUME TypeInv, PickInv, [Next /\ Record]_<<vars, historyVars>>
  PROVE  TypeInv' /\ PickInv'
<1>1. CASE UNCHANGED <<vars, historyVars>>
  <2>1. TypeInv'
    BY <1>1, TypeStep
  <2>2. UNCHANGED <<steady, pin, net, pinned, op>>
    BY <1>1 DEF vars, workerVars, poolVars, historyVars
  <2> QED
    BY <2>1, <2>2 DEF PickInv
<1>2. CASE Next /\ Record
  <2>1. TypeInv'
    BY <1>2, TypeStep
  <2>2. \A p \in Client : OnCourse(op'[p], steady'[p], pin'[p])
    <3>1. CASE QuietPick
      BY <1>2, <3>1, SameCourse DEF QuietPick
    <3>2. ASSUME NEW p \in Client, PickStep(p), NEW q \in Client
          PROVE  OnCourse(op'[q], steady'[q], pin'[q])
      <4>1. CASE q # p
        BY <1>2, <3>2, <4>1, PickStepAlone, SameCourse
      <4>2. CASE q = p
        BY <1>2, <2>1, <3>2, <4>2, PickBegins, PickPinCourse, PickPinnedCourse,
           PickStartCourse, PickScanCourse
        DEF PickStep
      <4> QED
        BY <4>1, <4>2
    <3> QED
      BY <1>2, <3>1, <3>2, OthersQuiet
  <2>3. /\ steady' \in [Client -> SUBSET WorkerId]
        /\ pin' \in [Client -> 0..MaxId]
        /\ \A p \in Client : /\ \A w \in steady'[p] : net'[w] # None
                             /\ pin'[p] \in {0, pinned'}
    BY <1>2, <2>1, RecordTruth
  <2> QED
    BY <2>1, <2>2, <2>3 DEF PickInv
<1> QED
  BY <1>1, <1>2

LEMMA PickAlways == HistorySpec => []PickInv
<1>1. Init /\ HistoryInit => TypeInv /\ PickInv
  BY TypeInit, PickInit
<1>2. TypeInv /\ PickInv /\ [Next /\ Record]_<<vars, historyVars>>
        => (TypeInv /\ PickInv)'
  BY PickStepInv
<1> QED
  BY <1>1, <1>2, PTL DEF HistorySpec

\* A connection is refused only if every worker of its snapshot was down at
\* some moment during the pick, wherever the round-robin counter made the
\* scan start and whatever supervisors, removals and re-pins did meanwhile.
THEOREM RefusalIsEarned == HistorySpec => []RefusedOnlyIfNoneReady
<1>1. PickInv => RefusedOnlyIfNoneReady
  BY DEF PickInv, OnCourse, RefusedOnlyIfNoneReady, At
<1> QED
  BY <1>1, PickAlways, PTL

\* A pin that stood, on a worker that was ready, throughout a pick decides
\* which worker the connection goes through.
THEOREM PinDecides == HistorySpec => []PinIsHonoured
<1>1. PickInv => PinIsHonoured
  BY DEF PickInv, OnCourse, PinIsHonoured, At
<1> QED
  BY <1>1, PickAlways, PTL
=============================================================================
