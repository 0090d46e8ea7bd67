--------------------------- MODULE MCKm1GainCache ---------------------------
(* Small instances of Km1GainCache for TLC. *)
EXTENDS Km1GainCache, TLC

TwoNets == [e \in Edges |-> IF e = "e1" THEN Nodes ELSE {1, 2}]
Weights == [u \in Nodes |-> IF u = 3 THEN 2 ELSE 1]
NetWeights == [e \in Edges |-> IF e = "e1" THEN 1 ELSE 2]
Itself == [m \in Movers |-> m]
Split == [u \in Nodes |-> IF u = 1 THEN 0 ELSE 1]
Limits == [b \in Blocks |-> 3]
=============================================================================
