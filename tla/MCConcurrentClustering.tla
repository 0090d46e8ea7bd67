----------------------- MODULE MCConcurrentClustering -----------------------
(* Small instances of ConcurrentClustering for TLC. *)
EXTENDS ConcurrentClusteringInv, TLC

\* Three nodes on a ring, and a fourth one that wants to join one of them.
RingAndTail == 0 :> {1} @@ 1 :> {0, 2} @@ 2 :> {0, 1} @@ 3 :> {1}
UnitWeights == [u \in Nodes |-> 1]
\* The second join of node 0 onto 1, after it has resolved a cyclic dependency, reaches
\* a limit of four; that of node 1 onto 2 exceeds it.
LightSmallest == [u \in Nodes |-> IF u = 0 THEN 1 ELSE 2]
=============================================================================
