------------------------- MODULE MCLabelPropagation -------------------------
(* Small instances of LabelPropagation for TLC. *)
EXTENDS LabelPropagation, TLC

Slots == Nodes \X {"active", "rebalanced"}
SlotNode == [m \in Slots |-> m[1]]
UnitWeights == [u \in Nodes |-> 1]
Alternating == [u \in Nodes |-> u % 2]
\* 3 and 4 choose each other's block; 2 follows 3, which then goes back.
Follow == [e \in Edges |-> CASE e = "e2" -> {2, 3} [] e = "e3" -> {1, 2} [] e = "e4" -> {3, 4}]
FollowWeights == [e \in Edges |-> CASE e = "e2" -> 3 [] e = "e3" -> 2 [] e = "e4" -> 4]
LastAlone == [u \in Nodes |-> IF u = 4 THEN 1 ELSE 0]
\* 2 wants to join 1 and 3, who want to join 2; all of them in one block are too heavy.
Chain == [e \in Edges |-> IF e = "e1" THEN {1, 2} ELSE {2, 3}]
FirstLight == [u \in Nodes |-> IF u = 1 THEN 1 ELSE 2]
UnitNets == [e \in Edges |-> 1]
Limits == [b \in Blocks |-> 3]
Halves == [b \in Blocks |-> 2]
=============================================================================
