----------------------------- MODULE PickHistory -----------------------------
(***************************************************************************)
(* Pool with two history variables, which no step of the pool depends on:  *)
(* what has been true ever since a client's pick began.  pick reads the    *)
(* workers, the pin and the handles one after the other while supervisors  *)
(* and other clients change them, so what it owes its caller can only be   *)
(* said of what held throughout.                                           *)
(***************************************************************************)
EXTENDS Pool

VARIABLES
  steady,   \* workers of the pick's snapshot that have been ready throughout
  pin       \* the worker that has been pinned throughout, or 0

historyVars == <<steady, pin>>

Picking(call) == call.at \in {"pick", "pinned", "rr", "scan", "picked", "refused"}

HistoryInit ==
  /\ steady = [p \in Client |-> {}]
  /\ pin = [p \in Client |-> 0]

\* Taken with every step of the pool: a history starts in the state after
\* Pick and from then on only loses what stops holding.
Record ==
  /\ steady' = [p \in Client |->
       IF ~Picking(op'[p]) THEN {}
       ELSE {w \in (IF Picking(op[p]) THEN steady[p] ELSE Members(workers')) :
               net'[w] # None}]
  /\ pin' = [p \in Client |->
       IF ~Picking(op'[p]) THEN 0
       ELSE IF Picking(op[p]) /\ pin[p] # pinned' THEN 0 ELSE pinned']

HistorySpec == Init /\ HistoryInit /\ [][Next /\ Record]_<<vars, historyVars>>

\* pick returns `None` if none are ready (pool.rs, pick), and only then: a
\* connection is refused only if every worker of its snapshot was down at
\* some moment during the call.
RefusedOnlyIfNoneReady ==
  \A p \in Client : At(p, "refused") => steady[p] = {}

\* pick takes the pinned worker if ready: when the pin stood and its worker
\* was ready throughout the call, the connection goes through that worker.
PinIsHonoured ==
  \A p \in Client :
    (At(p, "picked") /\ pin[p] \in steady[p]) => op[p].w = pin[p]
=============================================================================
