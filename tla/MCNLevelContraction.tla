------------------------ MODULE MCNLevelContraction -------------------------
(* Small instances of NLevelContraction for TLC. *)
EXTENDS NLevelContraction, TLC

UnitWeights == [u \in Nodes |-> 1]
Unfixed == [u \in Nodes |-> NoBlock]
NoLimits == [b \in Blocks |-> 0]
Anyone == [u \in Nodes |-> Nodes]
\* Two nodes are fixed to block 0, whose limit allows one more node, one to block 1.
FixedEnds == [u \in Nodes |-> CASE u \in {0, 3} -> 0 [] u = 4 -> 1 [] OTHER -> NoBlock]
LimitThree == [b \in Blocks |-> 3]
\* The nodes 1 and 3 have two nets, and 2 has three.
ThreeNets == "e1" :> {0, 1, 2} @@ "e2" :> {1, 2, 3, 4} @@ "e3" :> {2, 3}
\* 4 and 5 are contracted onto 0 and 1, these onto 2 and 3; then 4 asks for 3
\* to be contracted onto its representative 0, and 5 for 2 onto 1.
TwoTrees == 0 :> {4} @@ 1 :> {5} @@ 2 :> {0} @@ 3 :> {1} @@ 4 :> {3} @@ 5 :> {2}
OneNet == [e \in Edges |-> Nodes]
\* The schedules of TwoTrees that are explored: the threads of 0 and 1 stall before
\* they perform their contraction, 2 and 3 finish before 4 and 5 start.
Stalled ==
  /\ \A p \in {0, 1} : pc[p] \notin {"done", "acquire_second", "attempt"}
  /\ \A p \in {2, 3} : pc[p] # "idle" => \A q \in {0, 1} : pc[q] = "acquire_first"
  /\ \A p \in {4, 5} : pc[p] # "idle" => \A q \in {2, 3} : pc[q] = "done"
=============================================================================
