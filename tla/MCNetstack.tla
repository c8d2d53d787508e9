----------------------------- MODULE MCNetstack -----------------------------
(***************************************************************************)
(* Instances of Netstack for TLC.                                          *)
(***************************************************************************)
EXTENDS Netstack, TLC

Symmetry == Permutations(Conn \ Fetcher)
=============================================================================
