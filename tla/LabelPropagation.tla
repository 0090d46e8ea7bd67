-------------------------- MODULE LabelPropagation --------------------------
(***************************************************************************)
(* Parallel label propagation                                              *)
(* (refinement/label_propagation/label_propagation_refiner.{h,cpp}).       *)
(*                                                                         *)
(* A round moves the active nodes in parallel, each at most once to the    *)
(* block with the best gain, and reverts a move whose attributed gain      *)
(* turns out to be worse.  Unconstrained label propagation ignores the     *)
(* balance, calls the rebalancer afterwards, and rolls the round back if   *)
(* that did not pay off.                                                   *)
(*                                                                         *)
(* A slot is an index of _active_nodes: <<u, "active">> for an active node *)
(* and <<u, "rebalanced">> for a node that the rebalancer appends.  The    *)
(* iteration of a slot is a mover of the partitioned hypergraph.           *)
(***************************************************************************)
EXTENDS Km1GainCache

CONSTANTS
  PerfectBalance,  \* context.partition.perfect_balance_part_weights
  Rebalancing,     \* context.refinement.label_propagation.rebalancing
  FixedNodes,      \* nodes that are fixed to their block
  MaxRounds        \* context.refinement.label_propagation.maximum_iterations

ASSUME LabelPropagationAssumption ==
  /\ PerfectBalance \in [Blocks -> Nat] /\ Rebalancing \in BOOLEAN
  /\ FixedNodes \subseteq Nodes /\ MaxRounds \in Nat
  /\ Movers = Nodes \X {"active", "rebalanced"}
  /\ NodeOf = [m \in Movers |-> m[1]]

VARIABLES
  phase,        \* what the refiner does: "move", "accept",
                \* "rebalance", "rollback" or "done"
  round,        \* number of finished rounds
  active,       \* _active_nodes, as the slots of the round
  next_active,  \* next_active_nodes
  visited_he,   \* _visited_he
  was_moved,    \* slots with _active_node_was_moved
  old_part,     \* _old_part
  best,         \* best_metrics
  step,         \* next step of the iteration of each slot
  rating,       \* nets that precomputeGains has still to look at
  isolated,     \* isolated_block_gain
  scores,       \* tmp_scores
  gain,         \* best_move.gain
  delta,        \* attributed gains of the iteration (_gain.localDelta())
  listed_twice  \* history: nodes that a rollback found in two slots

roundVars == <<phase, round, active, next_active, visited_he, was_moved, old_part, best,
               listed_twice>>
iterVars  == <<step, rating, isolated, scores, gain, delta>>
vars      == <<km1Vars, roundVars, iterVars>>

Unconstrained == ~Limited
Slot(u, kind) == <<u, kind>>

-----------------------------------------------------------------------------
(* Metrics *)

Overloaded(weights) == {b \in Blocks : weights[b] > MaxPartWeight[b]}

\* metrics::imbalance; blocks have equal shares, and no nodes were removed.
MetricsOf(q, weights) ==
  [quality |-> q,
   heaviest |-> Max({weights[b] : b \in Blocks}),
   unbalanced |-> Overloaded(weights) # {},
   empty |-> \E b \in Blocks : weights[b] = 0]

NumViolations(x) == (IF x.unbalanced THEN 1 ELSE 0) + (IF x.empty THEN 1 ELSE 0)
IsValid(x) == NumViolations(x) = 0

\* Faulty variant: solution quality is compared without the balance.
IsBetterQuality(x, other) == x.quality <= other.quality

\* Metrics::isBetter
IsBetter(x, other) ==
  \/ NumViolations(x) < NumViolations(other)
  \/ /\ NumViolations(x) = NumViolations(other)
     /\ \/ other.unbalanced /\ x.heaviest < other.heaviest
        \/ /\ ~(x.unbalanced /\ other.heaviest < x.heaviest)
           /\ \/ x.quality < other.quality
              \/ x.quality = other.quality /\ x.heaviest < other.heaviest

IsBorderNode(u) == \E e \in IncidentEdges(u) : Cardinality(connectivity_set[e]) > 1

-----------------------------------------------------------------------------
Init ==
  /\ Km1Init
  /\ phase = "move"
  /\ round = 0
  /\ active = {Slot(u, "active") : u \in {v \in Nodes : Rebalancing \/ IsBorderNode(v)}}
  /\ next_active = {}
  /\ visited_he = {}
  /\ was_moved = {}
  /\ old_part = part_ids
  /\ best = MetricsOf(quality, part_weights)
  /\ step = [m \in Movers |-> "start"]
  /\ rating = [m \in Movers |-> {}]
  /\ isolated = [m \in Movers |-> 0]
  /\ scores = [m \in Movers |-> [b \in Blocks |-> 0]]
  /\ gain = [m \in Movers |-> 0]
  /\ delta = [m \in Movers |-> 0]
  /\ listed_twice = {}

At(m, s) == step[m] = s
Proceed(m, s) == step' = [step EXCEPT ![m] = s]

\* moveVertex returns whether it tried to move the node.
ReturnFromMoveVertex(m, is_moved) ==
  /\ Proceed(m, "done")
  /\ was_moved' = IF is_moved THEN was_moved \union {m} ELSE was_moved

-----------------------------------------------------------------------------
(* Faulty variants of the definitions below. *)

\* A move that was reverted does not count as one: its penalty term is not
\* recomputed.
RevertReturnsUnmarked(m) ==
  /\ At(m, "reverting") /\ pc[m] = "idle"
  /\ ReturnFromMoveVertex(m, FALSE)
  /\ UNCHANGED <<km1Vars, phase, round, active, next_active, visited_he, old_part, best,
                 listed_twice, rating, isolated, scores, gain, delta>>

\* The refiner accounts for the gains it computed, not for the attributed ones.
MoveReturnsComputedGain(m) ==
  /\ At(m, "moving") /\ pc[m] = "idle" /\ changed[m]
  /\ quality' = quality - delta[m] + gain[m]
  /\ step' = [step EXCEPT ![m] = "activate"]
  /\ UNCHANGED <<phgVars, cacheVars, moves, was_moved, phase, round, active, next_active,
                 visited_he, old_part, best, listed_twice, rating, isolated, scores, gain, delta>>

\* The nodes that the rebalancer moved are not rolled back.
ActiveNodesOnly(m) ==
  /\ phase = "rollback" /\ At(m, "check")
  /\ step' = [step EXCEPT ![m] =
       IF part_ids[NodeOf[m]] # old_part[NodeOf[m]] /\ m[2] = "active" THEN "roll" ELSE "done"]
  /\ UNCHANGED <<km1Vars, roundVars, rating, isolated, scores, gain, delta>>

-----------------------------------------------------------------------------
(* moveVertex *)

StartMoveVertex(m) ==
  /\ phase = "move" /\ m \in active /\ At(m, "start")
  /\ IF IsBorderNode(NodeOf[m]) /\ NodeOf[m] \notin FixedNodes
     THEN /\ rating' = [rating EXCEPT ![m] = IncidentEdges(NodeOf[m])]
          /\ Proceed(m, "rate")
          /\ UNCHANGED was_moved
     ELSE ReturnFromMoveVertex(m, FALSE) /\ UNCHANGED rating
  /\ UNCHANGED <<km1Vars, phase, round, active, next_active, visited_he, old_part, best,
                 listed_twice, isolated, scores, gain, delta>>

\* precomputeGains looks at the next net.
RateNet(m) ==
  LET block == part_ids[NodeOf[m]] IN
  /\ At(m, "rate")
  /\ \E e \in rating[m] :
       /\ rating' = [rating EXCEPT ![m] = @ \ {e}]
       /\ isolated' = [isolated EXCEPT ![m] =
            IF pin_count[e][block] > 1 THEN @ + EdgeWeight[e] ELSE @]
       /\ scores' = [scores EXCEPT ![m] = [b \in Blocks |->
            IF b \in connectivity_set[e] \ {block} THEN @[b] + EdgeWeight[e] ELSE @[b]]]
  /\ UNCHANGED <<km1Vars, roundVars, step, gain, delta>>

\* computeMaxGainMoveForScores: the feasible blocks with the best gain; a block
\* without gain may win or lose a coin flip against staying.
BestMoves(m) ==
  LET u == NodeOf[m]
      g == [b \in Blocks |-> isolated[m] - scores[m][b]]
      feasible == {b \in Blocks \ {part_ids[u]} :
                     scores[m][b] > 0 /\ Fits(b, part_weights[b] + NodeWeight[u])}
      top == Min({0} \union {g[b] : b \in feasible})
  IN  {[to |-> b, gain |-> top] : b \in {c \in feasible : g[c] = top}}
        \union (IF top = 0 THEN {[to |-> part_ids[u], gain |-> 0]} ELSE {})

\* A move improves the objective or, without gain, the balance.
PerformMove(a, mv) ==
  /\ mv.to # a
  /\ \/ mv.gain < 0
     \/ /\ Rebalancing /\ mv.gain = 0
        /\ part_weights[a] - 1 > part_weights[mv.to] + 1
        /\ part_weights[mv.to] < PerfectBalance[mv.to]

ComputeMaxGainMove(m) ==
  /\ At(m, "rate") /\ rating[m] = {}
  /\ \E mv \in BestMoves(m) :
       IF PerformMove(part_ids[NodeOf[m]], mv)
       THEN /\ ChangeNodePart(m, part_ids[NodeOf[m]], mv.to)
            /\ gain' = [gain EXCEPT ![m] = mv.gain]
            /\ Proceed(m, "moving")
            /\ UNCHANGED was_moved
       ELSE ReturnFromMoveVertex(m, FALSE) /\ UNCHANGED <<phgVars, gain>>
  /\ isolated' = [isolated EXCEPT ![m] = 0]
  /\ scores' = [scores EXCEPT ![m] = [b \in Blocks |-> 0]]
  /\ UNCHANGED <<cacheVars, quality, moves, phase, round, active, next_active, visited_he,
                 old_part, best, listed_twice, rating, delta>>

\* The objective is accounted for with the attributed gains of the move.
MoveStep(m) ==
  /\ At(m, "moving") \/ At(m, "reverting")
  /\ \/ SilentWithCache(m) /\ UNCHANGED delta
     \/ /\ DeltaFunctionWithCache(m)
        /\ delta' = [delta EXCEPT ![m] = @ + AttributedGain(update[m])]
  /\ UNCHANGED <<roundVars, step, rating, isolated, scores, gain>>

\* The real gain of the move is known now.
MoveReturns(m) ==
  /\ At(m, "moving") /\ pc[m] = "idle"
  /\ \/ /\ ~changed[m]
        /\ ReturnFromMoveVertex(m, TRUE)
        /\ UNCHANGED phgVars
     \/ /\ changed[m] /\ (delta[m] = gain[m] \/ delta[m] <= 0)
        /\ IF Unconstrained THEN ReturnFromMoveVertex(m, TRUE)
                            ELSE Proceed(m, "activate") /\ UNCHANGED was_moved
        /\ UNCHANGED phgVars
     \/ /\ changed[m] /\ delta[m] # gain[m] /\ delta[m] > 0
        /\ ChangeNodePart(m, to[m], from[m])
        /\ Proceed(m, "reverting")
        /\ UNCHANGED was_moved
  /\ UNCHANGED <<cacheVars, quality, moves, phase, round, active, next_active, visited_he,
                 old_part, best, listed_twice, rating, isolated, scores, gain, delta>>

\* Whether the revert succeeded is not looked at.
RevertReturns(m) ==
  /\ At(m, "reverting") /\ pc[m] = "idle"
  /\ ReturnFromMoveVertex(m, TRUE)
  /\ UNCHANGED <<km1Vars, phase, round, active, next_active, visited_he, old_part, best,
                 listed_twice, rating, isolated, scores, gain, delta>>

\* activateNodeAndNeighbors: flags and streams are idempotent sets.
Activated(S) ==
  UNION {Pins[e] : e \in UNION {IncidentEdges(u) : u \in S} \ visited_he}
Activate(m) ==
  LET u == NodeOf[m] IN
  /\ At(m, "activate")
  /\ next_active' = next_active \union Activated({u}) \union {u}
  /\ visited_he' = visited_he \union IncidentEdges(u)
  /\ ReturnFromMoveVertex(m, TRUE)
  /\ UNCHANGED <<km1Vars, phase, round, active, old_part, best, listed_twice, rating,
                 isolated, scores, gain, delta>>

-----------------------------------------------------------------------------
(* labelPropagationRound, after all nodes were moved *)

AllReturned == \A m \in active : At(m, "done")
MovedNodes == {NodeOf[m] : m \in was_moved}

\* labelPropagation: the next round, unless the improvement is too small, there is
\* nothing to do or enough rounds were made.
NextRound(improvement, nodes) ==
  /\ round' = round + 1
  /\ active' = {Slot(u, "active") : u \in nodes}
  /\ \/ /\ improvement >= 0 /\ round + 1 < MaxRounds /\ nodes # {}
        /\ phase' = "move"
     \/ phase' = "done"
  /\ next_active' = {}
  /\ visited_he' = {}
  /\ was_moved' = {}
  /\ step' = [m \in Movers |-> "start"]
  /\ gain' = [m \in Movers |-> 0]
  /\ delta' = [m \in Movers |-> 0]
  /\ UNCHANGED <<rating, isolated, scores>>

\* The terms of the moved nodes are recomputed in parallel after the barrier.
RecomputeMovedNodes ==
  /\ RecomputeInvalidTerms(MovedNodes)
  /\ moves' = [u \in Nodes |-> 0]
  /\ UNCHANGED <<phgVars, benefit>>

FinishRound ==
  /\ phase = "move" /\ AllReturned /\ ~Unconstrained
  /\ RecomputeMovedNodes
  /\ best' = MetricsOf(quality, part_weights)
  /\ NextRound(best.quality - quality, next_active)
  /\ UNCHANGED <<quality, old_part, listed_twice>>

FinishUnconstrainedMoves ==
  /\ phase = "move" /\ AllReturned /\ Unconstrained
  /\ RecomputeMovedNodes
  /\ phase' = IF IsValid(MetricsOf(quality, part_weights)) THEN "accept" ELSE "rebalance"
  /\ UNCHANGED <<quality, round, active, next_active, visited_he, was_moved, old_part, best,
                 listed_twice, iterVars>>

\* repairEmptyBlocks: every empty block gets a node, the cheapest nodes that are not
\* alone in their block, fixed or not.  (One of at most three rounds: another one
\* would only follow if this one emptied a block.)
RepairedParts ==
  LET empty == {b \in Blocks : part_weights[b] = 0}
      candidates == {u \in Nodes : /\ NodeWeight[u] # 0
                                   /\ NodeWeight[u] # part_weights[part_ids[u]]}
      Repairs(parts, S) ==
        /\ \A u \in Nodes \ S : parts[u] = part_ids[u]
        /\ \A u \in S : parts[u] \in empty /\ NodeWeight[u] <= MaxPartWeight[parts[u]]
        /\ \A u, v \in S : parts[u] = parts[v] => u = v
        /\ \A u \in S, v \in candidates \ S : penalty[u] <= penalty[v]
        /\ Cardinality(S) = Min({Cardinality(empty), Cardinality(candidates)})
  IN  {parts \in [Nodes -> Blocks] : \E S \in SUBSET candidates : Repairs(parts, S)}

\* findMoves: threads move free nodes out of overloaded blocks.  A thread looks at
\* the weight of the block before it moves a node, so several threads can move more
\* than necessary; a refused node is not tried again, so they can move less.
UnloadedParts(repaired) ==
  LET heavy == Overloaded(BlockWeights(repaired)) IN
  {parts \in [Nodes -> Blocks] :
     \A u \in Nodes : parts[u] # repaired[u] =>
       /\ u \notin FixedNodes
       /\ repaired[u] \in heavy
       /\ BlockWeights(parts)[parts[u]] <= MaxPartWeight[parts[u]]}

\* AdvancedRebalancer::refineInternalParallel moves every node at most once.
RebalancedParts == UNION {UnloadedParts(repaired) : repaired \in RepairedParts}

\* The rebalancer leaves the partition and the gain cache consistent.
ApplyParts(parts) ==
  /\ part_ids' = parts
  /\ part_weights' = BlockWeights(parts)
  /\ pin_count' = PinCounts(parts)
  /\ connectivity_set' = ConnectivitySets(parts)
  /\ penalty' = [u \in Nodes |-> RecomputePenaltyTerm(u)']
  /\ benefit' = [u \in Nodes |-> [b \in Blocks |-> RecomputeBenefitTerm(u, b)']]
  /\ quality' = Quality'
  /\ UNCHANGED <<callVars, moves>>

\* applyRebalancing: nodes that were in their old block are appended to the active
\* nodes; the result is kept if it is better, else all moves are rolled back.
ApplyRebalancing ==
  /\ phase = "rebalance"
  /\ \E parts \in RebalancedParts :
       LET appended == {Slot(u, "rebalanced") : u \in
                          {v \in Nodes : parts[v] # part_ids[v] /\ part_ids[v] = old_part[v]}}
       IN  /\ ApplyParts(parts)
           /\ active' = active \union appended
           /\ was_moved' = was_moved \union appended
  /\ LET better == IsBetter(MetricsOf(quality', part_weights'), best) IN
       /\ phase' = IF better THEN "accept" ELSE "rollback"
       /\ step' = [m \in Movers |-> IF ~better /\ m \in was_moved' THEN "check" ELSE "done"]
       /\ listed_twice' = IF better THEN {} ELSE
            {u \in Nodes : {Slot(u, "active"), Slot(u, "rebalanced")} \subseteq was_moved'}
  /\ UNCHANGED <<round, next_active, visited_he, old_part, best, rating, isolated, scores,
                 gain, delta>>

\* The round is kept: old blocks are updated, then neighbors are activated.
AcceptRound ==
  /\ phase = "accept"
  /\ old_part' = [u \in Nodes |-> IF u \in MovedNodes THEN part_ids[u] ELSE old_part[u]]
  /\ best' = MetricsOf(quality, part_weights)
  /\ NextRound(best.quality - quality,
               {u \in Activated(MovedNodes) : part_ids[u] = old_part'[u]})
  /\ UNCHANGED <<km1Vars, listed_twice>>

-----------------------------------------------------------------------------
(* Rollback of a round, in parallel over the slots *)

RollbackCheck(m) ==
  /\ phase = "rollback" /\ At(m, "check")
  /\ Proceed(m, IF part_ids[NodeOf[m]] # old_part[NodeOf[m]] THEN "roll" ELSE "done")
  /\ UNCHANGED <<km1Vars, roundVars, rating, isolated, scores, gain, delta>>

\* The block is loaded again for the call.
RollbackCall(m) ==
  /\ At(m, "roll")
  /\ ChangeNodePart(m, part_ids[NodeOf[m]], old_part[NodeOf[m]])
  /\ Proceed(m, "rolling")
  /\ UNCHANGED <<cacheVars, quality, moves, roundVars, rating, isolated, scores, gain, delta>>

RollbackStep(m) ==
  /\ At(m, "rolling")
  /\ \/ SilentWithCache(m)
     \/ DeltaFunction(m) /\ DeltaGainUpdate(m) /\ UNCHANGED <<quality, moves>>
  /\ Proceed(m, IF pc'[m] = "idle" THEN "done" ELSE "rolling")
  /\ UNCHANGED <<roundVars, rating, isolated, scores, gain, delta>>

FinishRollback ==
  /\ phase = "rollback" /\ \A m \in was_moved : At(m, "done")
  /\ RecomputeMovedNodes
  /\ quality' = best.quality
  /\ phase' = "done"
  /\ active' = {}
  /\ was_moved' = {}
  /\ UNCHANGED <<round, next_active, visited_he, old_part, best, listed_twice, iterVars>>

-----------------------------------------------------------------------------
MoveVertex(m) ==
  \/ StartMoveVertex(m) \/ RateNet(m) \/ ComputeMaxGainMove(m) \/ MoveStep(m)
  \/ MoveReturns(m) \/ RevertReturns(m) \/ Activate(m)

Rollback(m) == RollbackCheck(m) \/ RollbackCall(m) \/ RollbackStep(m)

Refined == phase = "done" /\ UNCHANGED vars

Next ==
  \/ \E m \in Movers : MoveVertex(m) \/ Rollback(m)
  \/ FinishRound \/ FinishUnconstrainedMoves \/ ApplyRebalancing \/ AcceptRound
  \/ FinishRollback \/ Refined

Spec == Init /\ [][Next]_vars
-----------------------------------------------------------------------------
(* Properties *)

\* The connectivity metric, recomputed from the blocks of the nodes.
QualityOf(parts) ==
  MapThenSumSet(LAMBDA e : EdgeWeight[e] * (Cardinality({parts[u] : u \in Pins[e]}) - 1), Edges)

\* refineImpl: ASSERT(best_metrics.quality == metrics::quality(...)), for a round with
\* moves, reverts and refused reverts of several threads, and for a rolled back one.
ReportedQualityExact == phase = "done" => best.quality = QualityOf(part_ids)

\* refineImpl: ASSERT(was_imbalanced || delta >= 0, "LP refiner worsened solution
\* quality").  It fails for moves that make each other obsolete (README, section 6).
NotWorsened ==
  phase = "done" /\ Overloaded(BlockWeights(InitialPart)) = {} =>
    best.quality <= QualityOf(InitialPart)

\* changeNodePart: ASSERT(force_moving_fixed_vertices || !isFixed(u)), which the
\* refiner calls without the force flag only.  It fails when an empty block is filled
\* with a fixed node (README, section 6).
FixedNodesStay == \A u \in FixedNodes : part_ids[u] = InitialPart[u]

\* applyRebalancing: a rollback restores the partition that best_metrics describes,
\* whatever was moved, reverted and rebalanced in the round.
RollbackRestoresBest ==
  Unconstrained =>
    /\ best = MetricsOf(QualityOf(old_part), BlockWeights(old_part))
    /\ phase = "done" => part_ids = old_part

\* A round that needed the rebalancer only replaces a valid partition by a valid one
\* with an objective that is not worse: ASSERT(!did_rebalance ||
\* !best_metrics.isBetter(current_metrics)), in terms of the blocks.
RebalancedIsNotWorse ==
  [][phase = "rebalance" /\ phase' = "accept" /\ IsValid(MetricsOf(0, BlockWeights(old_part))) =>
       /\ IsValid(MetricsOf(0, BlockWeights(part_ids')))
       /\ QualityOf(part_ids') <= QualityOf(old_part)]_vars

\* Pin counts survive a rollback unless a node is in two slots.
TrackedUnlessListedTwice ==
  listed_twice = {} => TrackedInformationExact /\ GainCacheExact
=============================================================================
