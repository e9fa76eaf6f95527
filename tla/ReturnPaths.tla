---------------------------- MODULE ReturnPaths ----------------------------
(***************************************************************************)
(* How the waypoint managers turn a list of goals into a way back: from    *)
(* the last goal to the first, some left out.                              *)
(***************************************************************************)
EXTENDS Naturals, Sequences, FiniteSets

\* The enumerations of a set of indices from the last to the first.
Backwards(K) ==
  {e \in [1..Cardinality(K) -> K] :
     \A i, j \in 1..Cardinality(K) : i < j => e[i] > e[j]}

\* The goals at the indices K, from the last to the first.
ReturnPath(goals, K) ==
  {[i \in DOMAIN e |-> goals[e[i]]] : e \in Backwards(K)}
=============================================================================
