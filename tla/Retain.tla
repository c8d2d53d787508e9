------------------------------- MODULE Retain -------------------------------
(***************************************************************************)
(* Vec::retain, as remove_account uses it on the list of workers.          *)
(***************************************************************************)
EXTENDS Naturals, Sequences

\* What may be left of s when the entries at K stay, all of them and in their
\* order (there is one such list).
Retained(s, K) ==
  {[j \in DOMAIN f |-> s[f[j]]] :
     f \in {g \in UNION {[1..n -> K] : n \in 0..Len(s)} :
              /\ \A j, k \in DOMAIN g : j < k => g[j] < g[k]
              /\ \A i \in K : \E j \in DOMAIN g : g[j] = i}}
=============================================================================
