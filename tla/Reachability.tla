--------------------------- MODULE Reachability ----------------------------
(* Finite directed graphs as edge functions: e[i] is the set of successors  *)
(* of i, and N the set of nodes.                                            *)

\* S holds every successor of its nodes.
Closed(e, S) == \A k \in S : e[k] \subseteq S

\* The nodes reachable from i, i included: what a breadth-first search from i
\* visits, the least closed set that holds i.
Reach(N, e, i) ==
  {j \in N : \A S \in SUBSET N : i \in S /\ Closed(e, S) => j \in S}

\* No path leads from a node back to it.
NoCycle(N, e) == \A i \in N : \A j \in e[i] : i \notin Reach(N, e, j)
=============================================================================
