-------------------------- MODULE MCFlowRefinement --------------------------
(* A small instance of FlowRefinement for TLC. *)
EXTENDS FlowRefinement

MCPins == (1 :> {1, 2}) @@ (2 :> {1, 3})
MCEdgeWeight == (1 :> 1) @@ (2 :> 1)
MCNodeWeight == [u \in Nodes |-> 1]
\* Blocks 0 and 1 have room for one node only, so that searches conflict and sequences are
\* refused at the first block or at a later one.
MCLimit == (0 :> 1) @@ (1 :> 1) @@ (2 :> 2)
MCInitialParts == {(1 :> 0) @@ (2 :> 1) @@ (3 :> 2)}
=============================================================================
