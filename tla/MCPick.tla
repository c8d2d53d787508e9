------------------------------- MODULE MCPick -------------------------------
(***************************************************************************)
(* Instance of PickHistory: picks race with pinning and removal.           *)
(***************************************************************************)
EXTENDS PickHistory, TLC

CONSTANT Pickers   \* the clients that pick; the others pin and remove

PickCalls ==
  [p \in Client |-> IF p \in Pickers THEN {"pick"} ELSE {"select", "remove"}]

Symmetry == Permutations(Account \ Corrupt) \cup Permutations(Tunnel)
=============================================================================
