------------------------------- MODULE MCPool -------------------------------
(***************************************************************************)
(* Instances of Pool for TLC: which calls are made, and the symmetry of    *)
(* accounts, tunnels and clients (used by safety runs only).               *)
(***************************************************************************)
EXTENDS PoolInv, TLC

CONSTANT Pickers   \* the clients that use the pool; the others control it

MemberCalls == [p \in Client |-> {"add", "remove", "select", "toggle"}]
RotatorCalls == [p \in Client |-> {"interval", "remove"}]
LiveCalls ==
  [p \in Client |-> {"rotate", "http2", "pick", "select", "trace", "reconnect"}]

Symmetry == Permutations(Account \ Corrupt) \cup Permutations(Tunnel)
              \cup Permutations(Client \ Pickers)
=============================================================================
