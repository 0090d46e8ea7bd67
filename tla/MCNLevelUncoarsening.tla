----------------------- MODULE MCNLevelUncoarsening -------------------------
(* A small instance of NLevelUncoarsening for TLC. *)
EXTENDS NLevelUncoarsening, TLC

\* 2 and 3 are contracted onto 1, in parallel or one after the other; 4 is contracted
\* onto 2 before that, or 5 onto 4, which gives the two threads a root each.  3 is
\* fixed, and so is 4 in the first tree.
FixedTo(S, b) == [u \in Nodes |-> IF u \in S THEN b ELSE NoBlock]
OneOrTwoRoots == {[parent |-> 1 :> 1 @@ 2 :> 1 @@ 3 :> 1 @@ 4 :> 2 @@ 5 :> 5, block |-> FixedTo({3, 4}, 0)],
                  [parent |-> 1 :> 1 @@ 2 :> 1 @@ 3 :> 1 @@ 4 :> 4 @@ 5 :> 4, block |-> FixedTo({3}, 0)]}
NoLimits == [b \in Blocks |-> Cardinality(Nodes)]
ThreeNets == 1 :> {2, 3, 5} @@ 2 :> {1, 3, 4} @@ 3 :> {2, 4}
NetWeights == 1 :> 1 @@ 2 :> 2 @@ 3 :> 1
UnitWeights == [u \in Nodes |-> 1]
=============================================================================
