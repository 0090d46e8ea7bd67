----------------------- MODULE PartitionedHypergraph ------------------------
(***************************************************************************)
(* The partition of a hypergraph under concurrent moves                    *)
(* (datastructures/partitioned_hypergraph.h): blocks of nodes, block       *)
(* weights, and per net pin counts and the connectivity set.               *)
(*                                                                         *)
(* A mover is a thread that executes changeNodePart.  Refiners call it     *)
(* for any node and any target block; what they have to guarantee is in    *)
(* Call.  Every atomic operation on a weight, the store of the block and   *)
(* the critical section of a net are steps of their own.                   *)
(***************************************************************************)
EXTENDS Integers, FiniteSets, FiniteSetsExt

CONSTANTS
  Nodes, Edges, Blocks,
  Pins,             \* pins of each net
  NodeWeight,
  MaxPartWeight,    \* context.partition.max_part_weights
  InitialPart,      \* block of each node before the refinement
  Movers,           \* calls of changeNodePart that can be under way at once
  NodeOf,           \* the node that a mover moves
  Limited           \* whether max_weight_to is MaxPartWeight or unlimited

ASSUME PartitionAssumption ==
  /\ IsFiniteSet(Nodes) /\ IsFiniteSet(Blocks)
  /\ IsFiniteSet(Edges) /\ Edges # {}
  /\ Pins \in [Edges -> SUBSET Nodes]
  /\ NodeWeight \in [Nodes -> Nat]
  /\ MaxPartWeight \in [Blocks -> Nat]
  /\ InitialPart \in [Nodes -> Blocks]
  /\ NodeOf \in [Movers -> Nodes]
  /\ Limited \in BOOLEAN

VARIABLES
  part_ids,          \* _part_ids
  part_weights,      \* _part_weights
  pin_count,         \* _con_info: pin counts
  connectivity_set,  \* _con_info: connectivity sets
  pc,                \* next step of changeNodePart, or "idle"
  from, to,          \* arguments of changeNodePart
  todo,              \* incident nets that are still to be updated
  update,            \* sync_update of the net whose delta function is next
  changed            \* return value

partition == <<part_ids, part_weights, pin_count, connectivity_set>>
callVars  == <<pc, from, to, todo, update, changed>>
phgVars   == <<partition, callVars>>

IncidentEdges(u) == {e \in Edges : u \in Pins[e]}
WeightOf(S) == MapThenSumSet(LAMBDA u : NodeWeight[u], S)

\* The values of a sync_update that its users look at.
Updates == [he : Edges, from_after : Int, to_after : Int]
NoUpdate == [he |-> CHOOSE e \in Edges : TRUE, from_after |-> 0, to_after |-> 0]

\* What initializePartition computes from the blocks of the nodes.
BlockWeights(parts) == [b \in Blocks |-> WeightOf({u \in Nodes : parts[u] = b})]
PinCounts(parts) ==
  [e \in Edges |-> [b \in Blocks |-> Cardinality({u \in Pins[e] : parts[u] = b})]]
ConnectivitySets(parts) == [e \in Edges |-> {parts[u] : u \in Pins[e]}]

PhgInit ==
  /\ part_ids = InitialPart
  /\ part_weights = BlockWeights(InitialPart)
  /\ pin_count = PinCounts(InitialPart)
  /\ connectivity_set = ConnectivitySets(InitialPart)
  /\ pc = [m \in Movers |-> "idle"]
  /\ from = [m \in Movers |-> InitialPart[NodeOf[m]]]
  /\ to = [m \in Movers |-> InitialPart[NodeOf[m]]]
  /\ todo = [m \in Movers |-> {}]
  /\ update = [m \in Movers |-> NoUpdate]
  /\ changed = [m \in Movers |-> FALSE]

-----------------------------------------------------------------------------
(* Faulty variants of definitions below. *)

\* The weight is compared before it is increased.
FitsWithoutNode(b, weight) == ~Limited \/ weight - 1 <= MaxPartWeight[b]

\* A refused move leaves its weight in the target block.
UndoWeightForgotten(m) ==
  /\ pc[m] = "undo_weight"
  /\ changed' = [changed EXCEPT ![m] = FALSE]
  /\ pc' = [pc EXCEPT ![m] = "idle"]
  /\ UNCHANGED <<partition, from, to, todo, update>>

\* A block is removed from the connectivity set with its last but one pin.
MoveBlockEarly(blocks, a, b, from_after, to_after) ==
  (IF from_after <= 1 THEN blocks \ {a} ELSE blocks) \union
  (IF to_after = 1 THEN {b} ELSE {})

-----------------------------------------------------------------------------
(* changeNodePart *)

Goto(m, step) == pc' = [pc EXCEPT ![m] = step]

\* Entry of changeNodePart(u, a, b).
ChangeNodePart(m, a, b) ==
  /\ from' = [from EXCEPT ![m] = a]
  /\ to' = [to EXCEPT ![m] = b]
  /\ Goto(m, "add_weight")
  /\ UNCHANGED <<partition, todo, update, changed>>

\* to_weight_after <= max_weight_to
Fits(b, weight) == ~Limited \/ weight <= MaxPartWeight[b]

AddWeight(m) ==
  LET weight_after == part_weights[to[m]] + NodeWeight[NodeOf[m]] IN
  /\ pc[m] = "add_weight"
  /\ part_weights' = [part_weights EXCEPT ![to[m]] = weight_after]
  /\ Goto(m, IF Fits(to[m], weight_after) THEN "set_part" ELSE "undo_weight")
  /\ UNCHANGED <<part_ids, pin_count, connectivity_set, from, to, todo, update, changed>>

UndoWeight(m) ==
  /\ pc[m] = "undo_weight"
  /\ part_weights' = [part_weights EXCEPT ![to[m]] = @ - NodeWeight[NodeOf[m]]]
  /\ changed' = [changed EXCEPT ![m] = FALSE]
  /\ Goto(m, "idle")
  /\ UNCHANGED <<part_ids, pin_count, connectivity_set, from, to, todo, update>>

SetPart(m) ==
  /\ pc[m] = "set_part"
  /\ part_ids' = [part_ids EXCEPT ![NodeOf[m]] = to[m]]
  /\ Goto(m, "sub_weight")
  /\ UNCHANGED <<part_weights, pin_count, connectivity_set, from, to, todo, update, changed>>

SubWeight(m) ==
  /\ pc[m] = "sub_weight"
  /\ part_weights' = [part_weights EXCEPT ![from[m]] = @ - NodeWeight[NodeOf[m]]]
  /\ todo' = [todo EXCEPT ![m] = IncidentEdges(NodeOf[m])]
  /\ Goto(m, "nets")
  /\ UNCHANGED <<part_ids, pin_count, connectivity_set, from, to, update, changed>>

\* decrementPinCountOfBlock(e, a) and incrementPinCountOfBlock(e, b)
MovePin(counts, a, b) == [[counts EXCEPT ![a] = @ - 1] EXCEPT ![b] = @ + 1]
MoveBlock(blocks, a, b, from_after, to_after) ==
  (IF from_after = 0 THEN blocks \ {a} ELSE blocks) \union
  (IF to_after = 1 THEN {b} ELSE {})

\* updatePinCountOfHyperedge, while the lock of net e is held.
UpdatePinCount(m) ==
  /\ pc[m] = "nets"
  /\ \E e \in todo[m] :
       LET counts     == MovePin(pin_count[e], from[m], to[m])
           from_after == pin_count[e][from[m]] - 1
           to_after   == counts[to[m]]
       IN  /\ pin_count' = [pin_count EXCEPT ![e] = counts]
           /\ connectivity_set' = [connectivity_set EXCEPT ![e] =
                MoveBlock(@, from[m], to[m], from_after, to_after)]
           /\ todo' = [todo EXCEPT ![m] = @ \ {e}]
           /\ update' = [update EXCEPT ![m] =
                [he |-> e, from_after |-> from_after, to_after |-> to_after]]
  /\ Goto(m, "delta")
  /\ UNCHANGED <<part_ids, part_weights, from, to, changed>>

\* delta_func(sync_update), after the lock was released.
DeltaFunction(m) ==
  /\ pc[m] = "delta"
  /\ Goto(m, "nets")
  /\ update' = [update EXCEPT ![m] = NoUpdate]
  /\ UNCHANGED <<partition, from, to, todo, changed>>

Return(m) ==
  /\ pc[m] = "nets" /\ todo[m] = {}
  /\ changed' = [changed EXCEPT ![m] = TRUE]
  /\ Goto(m, "idle")
  /\ UNCHANGED <<partition, from, to, todo, update>>

\* The steps of a call other than its entry and its delta functions.
Silent(m) ==
  AddWeight(m) \/ UndoWeight(m) \/ SetPart(m) \/ SubWeight(m) \/ UpdatePinCount(m) \/ Return(m)

\* What a refiner may call: a node is moved by one thread at a time, from its
\* block to another one (ASSERT(partID(u) == from), ASSERT(from != to)).
Call(m) ==
  /\ \A n \in Movers : NodeOf[n] = NodeOf[m] => pc[n] = "idle"
  /\ \E b \in Blocks \ {part_ids[NodeOf[m]]} : ChangeNodePart(m, part_ids[NodeOf[m]], b)

PhgNext == \E m \in Movers : Call(m) \/ Silent(m) \/ DeltaFunction(m)

PhgSpec == PhgInit /\ [][PhgNext]_phgVars
-----------------------------------------------------------------------------
(* Properties *)

MoverSteps == {"idle", "add_weight", "undo_weight", "set_part", "sub_weight", "nets", "delta"}

\* The type invariant of the partition (for the weights see WeightsTracked).
PhgTypeOK ==
  /\ part_ids \in [Nodes -> Blocks]
  /\ DOMAIN part_weights = Blocks
  /\ pin_count \in [Edges -> [Blocks -> Nat]]
  /\ connectivity_set \in [Edges -> SUBSET Blocks]
  /\ pc \in [Movers -> MoverSteps]
  /\ from \in [Movers -> Blocks]
  /\ to \in [Movers -> Blocks]
  /\ todo \in [Movers -> SUBSET Edges]
  /\ update \in [Movers -> Updates]
  /\ changed \in [Movers -> BOOLEAN]

\* A node has one mover at a time, and the mover finds the node in the block that
\* its next step expects: a node is never moved away under a call that is under way.
CallsDoNotOverlap ==
  /\ \A m, n \in Movers :
       NodeOf[m] = NodeOf[n] /\ pc[m] # "idle" /\ pc[n] # "idle" => m = n
  /\ \A m \in Movers :
       /\ pc[m] # "idle" => from[m] # to[m]
       /\ pc[m] \in {"add_weight", "undo_weight", "set_part"} => part_ids[NodeOf[m]] = from[m]
       /\ pc[m] \in {"sub_weight", "nets", "delta"} => part_ids[NodeOf[m]] = to[m]
       /\ todo[m] \subseteq IncidentEdges(NodeOf[m])

\* The mover has stored the new block of its node, but not come to net e yet.
Behind(m, e) ==
  pc[m] = "sub_weight" \/ (pc[m] \in {"nets", "delta"} /\ e \in todo[m])

\* Net e counts node u in block b.
CountedIn(u, e, b) ==
  \/ \E m \in Movers : NodeOf[m] = u /\ Behind(m, e) /\ from[m] = b
  \/ part_ids[u] = b /\ \A m \in Movers : NodeOf[m] = u => ~Behind(m, e)

\* Pin counts are exact at every moment, up to the nets that movers have not come
\* to yet, in whatever order the movers update the nets they share; and a block is
\* in the connectivity set of a net iff a pin is counted in it.
PinCountsTracked ==
  \A e \in Edges, b \in Blocks :
    /\ pin_count[e][b] = Cardinality({u \in Pins[e] : CountedIn(u, e, b)})
    /\ b \in connectivity_set[e] <=> pin_count[e][b] > 0

\* checkTrackedPartitionInformation: without a move under way pin counts and
\* connectivity sets are what can be recomputed from the blocks of the nodes.
TrackedInformationExact ==
  (\A m \in Movers : pc[m] = "idle") =>
    \A e \in Edges, b \in Blocks :
      /\ pin_count[e][b] = PinCounts(part_ids)[e][b]
      /\ b \in connectivity_set[e] <=> pin_count[e][b] > 0

\* A block weight is the weight of the nodes in the block, plus the nodes that are
\* announced, and plus the nodes that have left but are not yet subtracted.
WeightsTracked ==
  \A b \in Blocks :
    part_weights[b] =
      BlockWeights(part_ids)[b]
      + MapThenSumSet(LAMBDA m : NodeWeight[NodeOf[m]],
          {m \in Movers : \/ pc[m] \in {"set_part", "undo_weight"} /\ to[m] = b
                          \/ pc[m] = "sub_weight" /\ from[m] = b})

\* The optimistic check of the block weight never lets a block become overloaded,
\* however many movers announce their nodes at once; an overloaded block does not
\* grow.
BalanceKept ==
  \A b \in Blocks :
    Limited => BlockWeights(part_ids)[b] <= Max({MaxPartWeight[b], BlockWeights(InitialPart)[b]})
=============================================================================
