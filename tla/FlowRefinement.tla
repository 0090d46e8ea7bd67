--------------------------- MODULE FlowRefinement ---------------------------
(***************************************************************************)
(* Parallel flow-based refinement                                          *)
(* (refinement/flows/flow_refinement_scheduler.cpp, problem_construction   *)
(* .cpp, flow_refiner.cpp, quotient_graph.cpp).                            *)
(*                                                                         *)
(* A search computes new blocks for a region of the two blocks of its pair *)
(* without any lock and applies them later, under the lock of applyMoves,  *)
(* to a partition that other searches have changed.  What a maximum flow   *)
(* computation proposes is a free choice (it may also find nothing, or     *)
(* reach its time limit).                                                  *)
(***************************************************************************)
EXTENDS ActiveBlockScheduler

CONSTANTS
  Nodes, Edges, Pins, EdgeWeight, NodeWeight,
  PartWeightLimit,  \* context.partition.max_part_weights
  Fixed,            \* fixed nodes
  InitialParts      \* partitions that the refinement may start from

NoSearch == -1

ASSUME FlowAssumption ==
  /\ IsFiniteSet(Nodes) /\ IsFiniteSet(Edges)
  /\ Pins \in [Edges -> SUBSET Nodes] /\ EdgeWeight \in [Edges -> Nat \ {0}]
  /\ NodeWeight \in [Nodes -> Nat] /\ PartWeightLimit \in [Blocks -> Nat]
  /\ Fixed \subseteq Nodes /\ InitialParts \subseteq [Nodes -> Blocks]

VARIABLES
  part,              \* blocks of the nodes
  part_weights,      \* _part_weights
  max_part_weights,  \* _max_part_weights
  quality,           \* best_metrics.quality + overall_delta
  start_quality,     \* the objective when the refinement begins
  lock,              \* the search that holds _apply_moves_lock
  plan,              \* new blocks of the region of a search
  sequence,          \* its moves: where each node comes from and goes to
  applied,           \* nodes that are already moved (moved back)
  new_cut            \* new_cut_hes

partitionVars == <<part, part_weights, max_part_weights, quality, start_quality, lock>>
flowVars == <<plan, sequence, applied, new_cut>>
vars == <<schedulerVars, pc, positionVars, delta, stopped, partitionVars, flowVars>>

Km1(parts) ==
  MapThenSumSet(LAMBDA e : EdgeWeight[e] * (Cardinality({parts[u] : u \in Pins[e]}) - 1), Edges)
BlockWeights(parts) ==
  [b \in Blocks |-> MapThenSumSet(LAMBDA u : NodeWeight[u], {u \in Nodes : parts[u] = b})]
ConnectivitySet(parts, e) == {parts[u] : u \in Pins[e]}
CutNets(parts, p) == {e \in Edges : p \subseteq ConnectivitySet(parts, e)}

CutWeight(parts, p) == MapThenSumSet(LAMBDA e : EdgeWeight[e], CutNets(parts, p))

\* ActiveBlockScheduler::initialize: the first round has the active pairs in the order of
\* their cut weights, or there is no round.  No pair has a history of improvements.
FirstRounds(parts, pairs) ==
  IF pairs = {} THEN {<<>>}
  ELSE {<<[EmptyRound EXCEPT !.queue = order, !.remaining = Len(order)]>> :
          order \in {s \in SetToSeqs(pairs) : \A i, j \in DOMAIN s :
                       i < j => CutWeight(parts, s[i]) >= CutWeight(parts, s[j])}}

\* initializeImpl: the part weights, the quotient graph and the scheduler.
Init ==
  /\ part \in InitialParts
  /\ part_weights = BlockWeights(part)
  /\ max_part_weights = [b \in Blocks |-> Max({part_weights[b], PartWeightLimit[b]})]
  /\ start_quality = Km1(part) /\ quality = start_quality
  /\ lock = NoSearch
  /\ cut_hes = [p \in Pairs |-> CutNets(part, p)]
  /\ min_improvement \in MinImprovements
  /\ first_active = 1 /\ terminate = FALSE /\ stopped = FALSE /\ owned = {} /\ found = {}
  /\ in_queue = {p \in Pairs : cut_hes[p] # {}}
  /\ rounds \in FirstRounds(part, in_queue)
  /\ pc = [t \in Searches |-> "loop"]
  /\ pair = [t \in Searches |-> {}] /\ round = [t \in Searches |-> 1]
  /\ delta = [t \in Searches |-> 0] /\ adjacent = [t \in Searches |-> {}]
  /\ remaining = [t \in Searches |-> 0]
  /\ plan = [t \in Searches |-> <<>>] /\ sequence = [t \in Searches |-> <<>>]
  /\ applied = [t \in Searches |-> {}] /\ new_cut = [t \in Searches |-> {}]

-----------------------------------------------------------------------------
(* runFlowSearch *)

\* construct: a region of nodes that are not fixed, grown from the cut nets of the pair,
\* and the blocks the flow computation will give to its nodes.
Construct(t) ==
  /\ At(t, "construct")
  /\ LET nodes == IF cut_hes[pair[t]] \intersect CutNets(part, pair[t]) = {} THEN {}
                  ELSE {u \in Nodes \ Fixed : part[u] \in pair[t]}
     IN \E region \in SUBSET nodes : plan' \in {[plan EXCEPT ![t] = f] : f \in [region -> pair[t]]}
  /\ owned' = owned \ {pair[t]}
  /\ Goto(t, "flow")
  /\ UNCHANGED <<rounds, first_active, terminate, min_improvement, in_queue, cut_hes, found, positionVars, delta,
                 partitionVars, sequence, applied, new_cut>>

\* refine: a move for every node of the region that is not in its new block now.  The
\* numbering of the nodes in the flow network, and so the order of the moves, is arbitrary.
ExtractMoves(t) ==
  /\ At(t, "flow")
  /\ LET moved == {u \in DOMAIN plan[t] : part[u] # plan[t][u]} IN
       /\ sequence' = [sequence EXCEPT ![t] =
            [u \in moved |-> [from |-> part[u], to |-> plan[t][u]]]]
       /\ Goto(t, IF moved = {} THEN "report" ELSE "apply")
  /\ plan' = [plan EXCEPT ![t] = <<>>]
  /\ UNCHANGED <<schedulerVars, positionVars, delta, partitionVars, applied, new_cut>>
-----------------------------------------------------------------------------
(* applyMoves *)

\* changeNodePart of one move: the objective delta, and the nets that get a first pin in
\* the target block.
Moved(u, b) == [part EXCEPT ![u] = b]
Gain(u, b) == Km1(part) - Km1(Moved(u, b))
NewCutNets(u, b) ==
  {e \in Edges : u \in Pins[e] /\ Cardinality({v \in Pins[e] : Moved(u, b)[v] = b}) = 1}

\* part_weight_deltas of a sequence.
PartWeightDelta(s, b) ==
  MapThenSumSet(LAMBDA u : (IF s[u].to = b THEN NodeWeight[u] ELSE 0)
                             - (IF s[u].from = b THEN NodeWeight[u] ELSE 0), DOMAIN s)

(* Faulty variants of the definitions below. *)

\* The moves back are made without the function that adds up the gain.
RevertedDeltaUnchanged(t, u) == delta[t]

\* The current block of a node is not looked up again.
CurrentMovesStale(t) == sequence[t]

\* The part weights of a refused sequence are not taken back from the first block on.
TakenBackFromSecond(weights, s, sign, i) ==
  [b \in Blocks |-> IF b # Min(Blocks) /\ b < i THEN weights[b] - sign * PartWeightDelta(s, b) ELSE weights[b]]

-----------------------------------------------------------------------------
\* partWeightUpdate goes through the blocks in order, here for the ones before i ...
UpdatedBefore(s, sign, i) ==
  [b \in Blocks |-> IF b < i THEN part_weights[b] + sign * PartWeightDelta(s, b) ELSE part_weights[b]]

\* ... and if block i would be too heavy it goes back again and takes off what it added.
TakenBack(weights, s, sign, i) ==
  [b \in Blocks |-> IF b < i THEN weights[b] - sign * PartWeightDelta(s, b) ELSE weights[b]]

Overloaded(s, sign) ==
  {b \in Blocks : part_weights[b] + sign * PartWeightDelta(s, b) > max_part_weights[b]}

\* The first overloaded block ends the loop.
PartWeightUpdate(s, sign) ==
  IF Overloaded(s, sign) = {}
  THEN [b \in Blocks |-> part_weights[b] + sign * PartWeightDelta(s, b)]
  ELSE LET i == Min(Overloaded(s, sign)) IN TakenBack(UpdatedBefore(s, sign, i), s, sign, i)

\* move.from is the block that the node is in now.
CurrentMoves(t) ==
  [u \in {v \in DOMAIN sequence[t] : part[v] # sequence[t][v].to} |->
     [from |-> part[u], to |-> sequence[t][u].to]]

\* The lock is taken and the part weights are updated, under a lock of their own; a sequence
\* that overloads a block is refused, and one that has no moves any more is empty.
BeginApply(t) ==
  /\ At(t, "apply") /\ lock = NoSearch
  /\ sequence' = [sequence EXCEPT ![t] = CurrentMoves(t)]
  /\ part_weights' = PartWeightUpdate(CurrentMoves(t), 1)
  /\ IF Overloaded(CurrentMoves(t), 1) = {} /\ DOMAIN CurrentMoves(t) # {}
     THEN lock' = t /\ Goto(t, "move")
     ELSE Goto(t, "report") /\ UNCHANGED lock
  /\ UNCHANGED <<schedulerVars, positionVars, delta, part, max_part_weights, quality, start_quality,
                 plan, applied, new_cut>>

\* After the last move: the moves are kept unless they make the objective worse and the
\* weights allow to take them back.
EndApply(t, improvement, cut) ==
  \/ /\ improvement >= 0
     /\ Goto(t, IF cut = {} THEN "report" ELSE "add_cut")
     /\ lock' = NoSearch /\ new_cut' = [new_cut EXCEPT ![t] = cut] /\ UNCHANGED part_weights
  \/ /\ improvement < 0
     /\ part_weights' = PartWeightUpdate(sequence[t], -1)
     /\ IF Overloaded(sequence[t], -1) = {}
        THEN Goto(t, "revert") /\ UNCHANGED lock
        ELSE Goto(t, "report") /\ lock' = NoSearch
     /\ new_cut' = [new_cut EXCEPT ![t] = {}]

\* applyMoveSequence, move by move: other searches read the partition meanwhile.
ApplyMove(t) ==
  /\ At(t, "move")
  /\ \E u \in DOMAIN sequence[t] \ applied[t] :
       LET b == sequence[t][u].to
           improvement == delta[t] + Gain(u, b)
           cut == new_cut[t] \union {<<e, b>> : e \in NewCutNets(u, b)}
           done == applied[t] \union {u}
       IN  /\ part' = Moved(u, b)
           /\ delta' = [delta EXCEPT ![t] = improvement]
           /\ \/ /\ done # DOMAIN sequence[t]
                 /\ applied' = [applied EXCEPT ![t] = done]
                 /\ new_cut' = [new_cut EXCEPT ![t] = cut]
                 /\ UNCHANGED <<pc, part_weights, lock>>
              \/ /\ done = DOMAIN sequence[t]
                 /\ applied' = [applied EXCEPT ![t] = {}]
                 /\ EndApply(t, improvement, cut)
  /\ UNCHANGED <<schedulerVars, positionVars, max_part_weights, quality, start_quality, plan, sequence>>

RevertedDelta(t, u) == delta[t] + Gain(u, sequence[t][u].from)

\* revertMoveSequence, with the same delta function; the last move releases the lock.
RevertMove(t) ==
  /\ At(t, "revert")
  /\ \E u \in DOMAIN sequence[t] \ applied[t] :
       LET done == applied[t] \union {u}
           last == done = DOMAIN sequence[t]
       IN  /\ part' = Moved(u, sequence[t][u].from)
           /\ delta' = [delta EXCEPT ![t] = RevertedDelta(t, u)]
           /\ applied' = [applied EXCEPT ![t] = done]
           /\ Goto(t, IF last THEN "report" ELSE "revert")
           /\ lock' = IF last THEN NoSearch ELSE lock
  /\ UNCHANGED <<schedulerVars, positionVars, part_weights, max_part_weights, quality, start_quality,
                 plan, sequence, new_cut>>

\* addNewCutHyperedge for one net: the other blocks are the ones the net connects now.
AddNewCutHyperedge(t) ==
  /\ At(t, "add_cut")
  /\ \E n \in new_cut[t] :
       /\ cut_hes' = [p \in Pairs |->
            IF n[2] \in p /\ p \ {n[2]} \subseteq ConnectivitySet(part, n[1])
            THEN cut_hes[p] \union {n[1]} ELSE cut_hes[p]]
       /\ new_cut' = [new_cut EXCEPT ![t] = @ \ {n}]
       /\ Goto(t, IF new_cut[t] = {n} THEN "report" ELSE "add_cut")
  /\ UNCHANGED <<rounds, first_active, terminate, min_improvement, in_queue, owned, found, positionVars, delta,
                 partitionVars, plan, sequence, applied>>

\* overall_delta, and the scheduler is told about the result.
ReportSearch(t) ==
  /\ Report(t)
  /\ quality' = quality - delta[t]
  /\ sequence' = [sequence EXCEPT ![t] = <<>>]
  /\ applied' = [applied EXCEPT ![t] = {}]
  /\ UNCHANGED <<part, part_weights, max_part_weights, start_quality, lock, plan, new_cut>>

SearchStep(t) ==
  /\ \/ SchedulerStep(t) /\ UNCHANGED <<partitionVars, flowVars>>
     \/ Construct(t) \/ ExtractMoves(t) \/ BeginApply(t) \/ ApplyMove(t)
     \/ RevertMove(t) \/ AddNewCutHyperedge(t) \/ ReportSearch(t)
  /\ RecordStop

AllDone == \A t \in Searches : At(t, "done")
Finished == AllDone /\ UNCHANGED vars

Next == (\E t \in Searches : SearchStep(t)) \/ Finished

\* Every search has a thread of its own; the spin lock is not fair, but each search takes
\* it only once per pair.
Spec == Init /\ [][Next]_vars /\ \A t \in Searches : WF_vars(SearchStep(t))

-----------------------------------------------------------------------------
IsBalanced(weights) == \A b \in Blocks : weights[b] <= max_part_weights[b]

\* (safety) Whenever no search applies moves, the part weights that applyMoves checks are
\* the weights of the blocks and within the limits, although every search computes its
\* moves from an older partition.
WeightsTracked ==
  lock = NoSearch => part_weights = BlockWeights(part) /\ IsBalanced(part_weights)

\* (safety) The reported improvements add up to the change of the objective, and searches
\* that act on outdated partitions never make it worse: taking moves back is always
\* possible.
ImprovementAccounted ==
  AllDone => quality = Km1(part) /\ quality <= start_quality

\* (safety, does not hold) The comment in addNewCutHyperedge: a net is added "as a cut
\* hyperedge to each block pair" with its new block, so that in the end all cut nets of a
\* pair are known.  While another search has moved the last pin of a block out, and later
\* takes this move back, the net is not added for that block.
CutNetsKnown ==
  AllDone => \A p \in Pairs : CutNets(part, p) \subseteq cut_hes[p]

\* (liveness) The refinement ends: pairs are only scheduled again after an improvement.
Termination == <>AllDone
=============================================================================
