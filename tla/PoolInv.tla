------------------------------- MODULE PoolInv -------------------------------
(***************************************************************************)
(* The inductive invariant of Pool, in three layers.  Each layer is        *)
(* preserved by every step that starts and ends in the layers below it.    *)
(***************************************************************************)
EXTENDS Pool

\* Layer 1: types, and the shape of a call in each of its states: what it
\* has still to visit is not empty, and the worker it works on is one.
WellFormed(call) ==
  /\ call.at \in {"notify", "trace", "fetch", "pick", "pinned", "rr", "scan"}
       => call.todo # <<>>
  /\ call.at \in {"register", "fetch", "pinned", "add", "adding", "booting"}
       => call.w \in WorkerId

CallShape == \A p \in Proc : WellFormed(op[p])

TypeInv == TypeOK /\ CallShape

\* Layer 2: who works on a worker.  A worker that a call is still bringing
\* up has no supervisor and belongs to that call alone.
Raises(p) == op[p].at \in {"add", "adding", "booting"}

RaisedAlone ==
  /\ ~Raises(Rotator)
  /\ \A p \in Proc :
       Raises(p) => sup[op[p].w] = "absent" /\ op[p].w < next_id
  /\ \A p, q \in Proc : (Raises(p) /\ Raises(q) /\ op[p].w = op[q].w) => p = q
  /\ \A w \in WorkerId : w >= next_id => sup[w] = "absent"

\* build_tunnel runs for a worker on behalf of its supervisor or of the call
\* that brings it up.
BuildOwned ==
  \A w \in WorkerId :
    build[w].at # "none" <=>
      \/ sup[w] = "connect"
      \/ \E p \in Proc : op[p].at \in {"booting", "adding"} /\ op[p].w = w

\* No two workers keep the same tunnel.
TunnelsApart ==
  \A v, w \in WorkerId : (v # w /\ tunnel[v] # None) => tunnel[v] # tunnel[w]

OwnerInv == RaisedAlone /\ BuildOwned /\ ServedTunnelIsWatched /\ TunnelsApart

\* Layer 3: what is outdated is due for a rebuild.  The request that follows
\* a rotation reaches its worker even after it left the pool, the one that
\* follows a transport switch goes to the workers of a later snapshot.
NotifyDue(w) ==
  rebuild[w] \/ \E p \in Proc : At(p, "notify") /\ w \in Members(op[p].todo)

OldConfigIsDue(w) ==
  /\ (net[w] # None /\ conn[net[w]].cfg # config[w]) => NotifyDue(w)
  /\ (build[w].at # "none" /\ build[w].cfg # config[w]) => NotifyDue(w)

OldTransportIsDue(w) ==
  w \in Members(workers) =>
    /\ (net[w] # None /\ conn[net[w]].http2 # http2) => RebuildDue(w)
    /\ (build[w].at = "connect" /\ build[w].http2 # http2) => RebuildDue(w)

DueInv == \A w \in WorkerId : OldConfigIsDue(w) /\ OldTransportIsDue(w)

\* The inductive invariant: it implies StaleTunnelHasRebuild, OneBuilder and
\* ServedTunnelIsWatched, none of which is inductive alone.
IInv == TypeInv /\ OwnerInv /\ DueInv
=============================================================================
