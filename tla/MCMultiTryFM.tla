---------------------------- MODULE MCMultiTryFM ----------------------------
(* A small instance of MultiTryFM for TLC. *)
EXTENDS MultiTryFM, TLC

\* Every node starts in a block of its own.
Spread == [u \in Nodes |-> u - 1]
\* One round of three free nodes, two rounds of two of them and a fixed node.
OneOrTwoRounds ==
  {[part |-> Spread, fixed |-> {}, rounds |-> 1, parallel |-> b] : b \in BOOLEAN}
    \union {[part |-> Spread, fixed |-> {3}, rounds |-> 2, parallel |-> TRUE]}
Triangle == [e \in Edges |-> CASE e = "e1" -> {1, 2} [] e = "e2" -> {2, 3} [] e = "e3" -> {1, 2, 3}]
NetWeights == [e \in Edges |-> IF e = "e1" THEN 2 ELSE 1]
UnitWeights == [u \in Nodes |-> 1]
Limits == [b \in Blocks |-> 2]
=============================================================================
