----------------------------- MODULE Clustering -----------------------------
(***************************************************************************)
(* What one clustering pass of the multilevel coarsener promises about     *)
(* cluster_ids, independent of how concurrent matchings are coordinated:   *)
(* a node that still stands alone may join a cluster whose representative  *)
(* stands for itself, and a node that has been committed (state MATCHED)   *)
(* never changes its cluster again.  ConcurrentClustering implements this  *)
(* specification.                                                          *)
(***************************************************************************)

CONSTANT Nodes

VARIABLES
  cluster,     \* cluster[u]: the representative of u's cluster
  committed    \* nodes whose cluster is final

vars == <<cluster, committed>>

Init ==
  /\ cluster = [u \in Nodes |-> u]
  /\ committed = {}

\* u leaves its singleton cluster for the cluster represented by r.
Join(u, r) ==
  /\ u \notin committed
  /\ u # r
  /\ cluster[r] = r
  /\ \A w \in Nodes : cluster[w] = u <=> w = u
  /\ cluster' = [cluster EXCEPT ![u] = r]
  /\ UNCHANGED committed

\* The cluster of u becomes final, never before that of its representative.
Commit(u) ==
  /\ cluster[u] \in committed \union {u}
  /\ committed' = committed \union {u}
  /\ UNCHANGED cluster

Next == \E u \in Nodes : Commit(u) \/ \E r \in Nodes : Join(u, r)

Spec == Init /\ [][Next]_vars
=============================================================================
