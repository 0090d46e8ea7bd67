----------------------------- MODULE MultiTryFM -----------------------------
(***************************************************************************)
(* Rounds of the parallel FM algorithm (refinement/fm/multitry_kway_fm.cpp,*)
(* global_rollback.{h,cpp}, gains/km1/km1_rollback.h,                      *)
(* strategies/unconstrained_strategy.h).                                   *)
(*                                                                         *)
(* A round runs localized searches (FMSearch), rebalances the partition    *)
(* after an unconstrained round and works the rebalancing moves into the   *)
(* sequence of moves, recomputes the gains of the sequence and reverts     *)
(* everything after its best balanced prefix.  After the searches there is *)
(* a barrier; what follows is parallel over nets and moves that do not     *)
(* interfere with each other, so that each part is one step.               *)
(***************************************************************************)
EXTENDS FMSearch

CONSTANTS
  Inputs,               \* partitions, fixed nodes, numbers of rounds and kinds of rollback
  UnconstrainedRounds,  \* context.refinement.fm.unconstrained_rounds
  Dynamically,          \* context.refinement.fm.activate_unconstrained_dynamically
  ReleaseNodes          \* context.refinement.fm.release_nodes

ASSUME RoundsAssumption ==
  /\ Inputs \subseteq [part : [Nodes -> Blocks], fixed : SUBSET Nodes, rounds : Nat,
                      parallel : BOOLEAN]
  /\ UnconstrainedRounds \in Nat /\ Dynamically \in BOOLEAN
  /\ ReleaseNodes \in BOOLEAN

VARIABLES
  context,     \* context.refinement.fm: multitry_rounds and rollback_parallel
  phase,       \* "init", "search", "rebalance", "interleave", "rollback" or "done"
  round,
  start,       \* the partition at the beginning of the round (initialPartWeights)
  quality,     \* metrics.quality - overall_improvement
  rebalanced,  \* moves_by_part
  enabled,     \* unconstrained_is_enabled
  first_gain,  \* absolute_improvement_first_round
  light        \* enable_light_fm

roundVars == <<context, phase, round, start, quality, rebalanced, enabled, first_gain, light>>
vars == <<searchVars, roundVars>>

Km1(parts) ==
  MapThenSumSet(LAMBDA e : EdgeWeight[e] * (Cardinality({parts[u] : u \in Pins[e]}) - 1), Edges)
IsBorderNode(u) == \E e \in IncidentEdges(u) : \E v \in Pins[e] : part[v] # part[u]
BlockWeights(parts) == [b \in Blocks |-> BlockWeight(parts, b)]
Heaviest(weights) == Max({weights[b] : b \in Blocks})
Overloaded(weights) == {b \in Blocks : weights[b] > MaxPartWeight[b]}
IsValidPartition == \A b \in Blocks : BlockWeight(part, b) \in 1..MaxPartWeight[b]

\* UnconstrainedStrategy::isUnconstrainedRound
IsUnconstrainedRound(r) ==
  /\ r > 0 => enabled
  /\ IF Dynamically THEN r = 1 \/ (r > 1 /\ r - 2 < UnconstrainedRounds)
                    ELSE r < UnconstrainedRounds

Init ==
  /\ \E in \in Inputs : 
       /\ part = in.part /\ fixed = in.fixed
       /\ context = [rounds |-> in.rounds, parallel |-> in.parallel]
  /\ searchOfNode = [u \in Nodes |-> 0]
  /\ highestID = 2 /\ deactivated = 2
  /\ refinementNodes = {}
  /\ moveOrder = <<>> /\ moveOfNode = [u \in Nodes |-> 0] /\ firstMoveID = 1
  /\ finishedTasks = 0
  /\ release_nodes = ReleaseNodes
  /\ unconstrained = FALSE
  /\ pc = [t \in Tasks |-> "finished"]
  /\ search = [t \in Tasks |-> 0]
  /\ queue = [t \in Tasks |-> {}]
  /\ released = [t \in Tasks |-> {}]
  /\ localMoves = [t \in Tasks |-> <<>>]
  /\ move = [t \in Tasks |-> NoMove]
  /\ nets = [t \in Tasks |-> {}]
  /\ phase = "init" /\ round = 0
  /\ start = part
  /\ quality = Km1(part)
  /\ rebalanced = [b \in Blocks |-> <<>>]
  /\ enabled = TRUE /\ first_gain = 0 /\ light = FALSE

-----------------------------------------------------------------------------
(* Faulty variants of the definitions below. *)

\* A node that the rebalancer moved for the second time is left in the sequence twice.
MergeMoveKeepsSource(m) == m

\* The first move into a block is penalized even if the last pin leaves it later.
PenaltyIgnoresLastOut(e, m, ids) ==
  LET moved == {v \in Pins[e] : WasNodeMovedInThisRound(v)} IN
  /\ \A v \in moved : GetMove(v).to = m.to => ids[m.node] <= ids[v]
  /\ ~\E v \in Pins[e] \ moved : part[v] = m.to

\* The balance of a prefix is not looked at.
CandidateUnbalanced(overloaded, gain_sum, best) == gain_sum >= best.gain

\* The first move after the prefix is kept.
RevertedOneLess(index) ==
  [u \in Nodes |->
     IF \E i \in DOMAIN moveOrder : i > index + 1 /\ moveOrder[i].node = u /\ IsValid(moveOrder[i])
     THEN (CHOOSE m \in Range(moveOrder) : m.node = u /\ IsValid(m)).from ELSE part[u]]

-----------------------------------------------------------------------------
(* roundInitialization *)

\* requestNewSearches raises the marker above all ids that were used before.
RequestNewSearches(n) ==
  IF highestID >= MaxSearchID - n - Slack
  THEN /\ searchOfNode' = [u \in Nodes |-> 0]
       /\ highestID' = 2
       /\ deactivated' = 2
  ELSE /\ highestID' = highestID + 1
       /\ deactivated' = highestID + 1
       /\ UNCHANGED searchOfNode

BeginRound ==
  LET border == {u \in Nodes \ fixed : IsBorderNode(u)}
      num_tasks == Min({Cardinality(border), NumTasks})
  IN
  /\ phase = "init"
  /\ start' = part
  /\ unconstrained' = IsUnconstrainedRound(round)
  /\ refinementNodes' = border
  /\ RequestNewSearches(Cardinality(border))
  /\ finishedTasks' = 0
  /\ pc' = [t \in Tasks |-> IF t <= num_tasks THEN "start" ELSE "finished"]
  /\ phase' = IF border = {} THEN "done" ELSE "search"
  /\ enabled' = IF round = 0 THEN TRUE ELSE enabled
  /\ UNCHANGED <<fixed, part, moveVars, release_nodes, search, queue, released, localMoves, move, nets,
                 context, round, quality, rebalanced, first_gain, light>>

Search(t) == phase = "search" /\ SearchStep(t) /\ UNCHANGED roundVars

FinishSearch ==
  /\ phase = "search" /\ AllTasksFinished
  /\ phase' = IF unconstrained /\ ~IsValidPartition THEN "rebalance" ELSE "rollback"
  /\ search' = [t \in Tasks |-> 0]
  /\ refinementNodes' = {}
  /\ UNCHANGED <<fixed, part, trackerVars, moveVars, finishedTasks, release_nodes,
                 unconstrained, pc, queue, released, localMoves, move, nets, context, round, start,
                 quality, rebalanced, enabled, first_gain, light>>

-----------------------------------------------------------------------------
(* rebalancer.refineAndOutputMoves (AdvancedRebalancer) *)

\* repairEmptyBlocks moves a node into every empty block that is not alone in its own.
RepairedParts ==
  LET empty == {b \in Blocks : BlockWeight(part, b) = 0}
      candidates == {u \in Nodes : NodeWeight[u] # 0 /\ NodeWeight[u] # BlockWeight(part, part[u])}
  IN  {parts \in [Nodes -> Blocks] :
         LET moved == {u \in Nodes : parts[u] # part[u]} IN
         /\ moved \subseteq candidates
         /\ \A u \in moved : parts[u] \in empty /\ NodeWeight[u] <= MaxPartWeight[parts[u]]
         /\ \A u, v \in moved : parts[u] = parts[v] => u = v
         /\ Cardinality(moved) = Min({Cardinality(empty), Cardinality(candidates)})}

\* findMoves moves free nodes out of overloaded blocks, not necessarily enough of them.
UnloadedParts(repaired) ==
  {parts \in [Nodes -> Blocks] :
     \A u \in Nodes : parts[u] # repaired[u] =>
       /\ u \notin fixed
       /\ repaired[u] \in Overloaded(BlockWeights(repaired))
       /\ BlockWeight(parts, parts[u]) <= MaxPartWeight[parts[u]]}

\* Every node is moved at most once; the moves of a block are in the order of their ids.
Rebalance ==
  /\ phase = "rebalance"
  /\ \E parts \in UNION {UnloadedParts(repaired) : repaired \in RepairedParts} :
       /\ part' = parts
       /\ \E ids \in [Blocks -> SetToAllKPermutations({u \in Nodes : parts[u] # part[u]})] :
            /\ \A b \in Blocks : Range(ids[b]) = {u \in Nodes : part[u] = b /\ parts[u] # b}
            /\ rebalanced' = [b \in Blocks |->
                 [i \in DOMAIN ids[b] |-> [node |-> ids[b][i], from |-> b, to |-> parts[ids[b][i]]]]]
  /\ phase' = "interleave"
  /\ UNCHANGED <<fixed, trackerVars, refinementNodes, moveVars, finishedTasks, release_nodes,
                 unconstrained, taskVars, context, round, start, quality, enabled, first_gain, light>>

-----------------------------------------------------------------------------
(* interleaveMoveSequenceWithRebalancingMoves *)

Invalidated(m) == [m EXCEPT !.from = NoBlock]
MovedAgain == {m.node : m \in UNION {Range(rebalanced[b]) : b \in Blocks}}
                \intersect {u \in Nodes : WasNodeMovedInThisRound(u)}

\* A rebalancing move of a node that was moved before is merged with the first move, or
\* undoes it.
MergeMove(m) ==
  IF ~WasNodeMovedInThisRound(m.node) THEN m
  ELSE IF GetMove(m.node).from = m.to THEN Invalidated(m)
  ELSE [m EXCEPT !.from = GetMove(m.node).from]

\* A sequence under construction: its moves, the block weights after them, and the
\* rebalancing moves that are left.
Insert(s, m) ==
  [s EXCEPT !.order = Append(@, m),
            !.weights = IF IsValid(m) THEN [b \in Blocks |->
                            @[b] + (IF b = m.to THEN NodeWeight[m.node] ELSE 0)
                                 - (IF b = m.from THEN NodeWeight[m.node] ELSE 0)]
                        ELSE @]

\* One iteration of insertMovesToBalanceBlock; the calls that are active are a stack.
BalanceStep(s) ==
  IF s.stack = <<>> THEN s
  ELSE LET b == Last(s.stack) IN
       IF s.weights[b] > MaxPartWeight[b] /\ s.left[b] # <<>>
       THEN LET m == Head(s.left[b])
                next == Insert([s EXCEPT !.left[b] = Tail(@)], m)
            IN  IF IsValid(m) /\ next.weights[m.to] > MaxPartWeight[m.to]
                THEN [next EXCEPT !.stack = Append(@, m.to)] ELSE next
       ELSE [s EXCEPT !.stack = Front(@)]

\* insertMovesToBalanceBlock: every iteration takes a move or returns from a call.
InsertMovesToBalanceBlock(s, b) ==
  FoldLeft(LAMBDA acc, i : BalanceStep(acc), [s EXCEPT !.stack = <<b>>],
           [i \in 1..(2 * Cardinality(Nodes) + 1) |-> i])

BlockOrder == [i \in 1..Cardinality(Blocks) |-> i - 1]

\* A move of the searches is inserted, and moves that balance its target; the moves of
\* nodes that were moved again have been invalidated.
InsertMove(s, m) ==
  IF IsValid(m) /\ m.node \notin MovedAgain
  THEN InsertMovesToBalanceBlock(Insert(s, m), m.to) ELSE s

InterleavedOrder ==
  LET merged == [b \in Blocks |-> [i \in DOMAIN rebalanced[b] |-> MergeMove(rebalanced[b][i])]]
      initial == [order |-> <<>>, weights |-> BlockWeights(start), left |-> merged, stack |-> <<>>]
      balanced == FoldLeft(InsertMovesToBalanceBlock, initial, BlockOrder)
      moved == FoldLeft(InsertMove, balanced, moveOrder)
  IN  FoldLeft(LAMBDA order, b : order \o moved.left[b], moved.order, BlockOrder)

\* The sequence is replaced; nodes whose moves were undone have no move any more.
InterleaveMoves ==
  /\ phase = "interleave"
  /\ LET order == InterleavedOrder IN
       /\ moveOrder' = order
       /\ moveOfNode' = [u \in Nodes |->
            IF \E i \in DOMAIN order : order[i].node = u /\ IsValid(order[i])
            THEN firstMoveID - 1 + (CHOOSE i \in DOMAIN order : order[i].node = u /\ IsValid(order[i]))
            ELSE IF u \in MovedAgain \/ \E i \in DOMAIN moveOrder : moveOrder[i].node = u
            THEN 0 ELSE moveOfNode[u]]
  /\ rebalanced' = [b \in Blocks |-> <<>>]
  /\ phase' = "rollback"
  /\ UNCHANGED <<fixed, part, trackerVars, refinementNodes, firstMoveID, finishedTasks,
                 release_nodes, unconstrained, taskVars, context, round, start, quality, enabled, first_gain, light>>

-----------------------------------------------------------------------------
(* GlobalRollback *)

\* Km1Rollback: the move takes the last pin out of its block before a pin comes in; or
\* it is the first one into a block that the last pin has left, or that had none.
HasBenefit(e, m, ids) ==
  LET moved == {v \in Pins[e] : WasNodeMovedInThisRound(v)} IN
  /\ \A v \in moved : GetMove(v).from = m.from => ids[v] <= ids[m.node]
  /\ \A v \in moved : GetMove(v).to = m.from => ids[v] > ids[m.node]
  /\ ~\E v \in Pins[e] \ moved : part[v] = m.from
HasPenalty(e, m, ids) ==
  LET moved == {v \in Pins[e] : WasNodeMovedInThisRound(v)} IN
  /\ \A v \in moved : GetMove(v).to = m.to => ids[m.node] <= ids[v]
  /\ \A v \in moved : GetMove(v).from = m.to => ids[v] < ids[m.node]
  /\ ~\E v \in Pins[e] \ moved : part[v] = m.to

\* recalculateGainForHyperedge, for all nets of the moved nodes.
RecalculatedGain(m) ==
  IF ~IsValid(m) THEN 0 ELSE
  MapThenSumSet(LAMBDA e : (IF HasBenefit(e, m, moveOfNode) THEN EdgeWeight[e] ELSE 0)
                         - (IF HasPenalty(e, m, moveOfNode) THEN EdgeWeight[e] ELSE 0),
                IncidentEdges(m.node))

\* BalanceAndBestIndexScan::Prefix; operator<
Better(x, y) ==
  \/ x.gain > y.gain
  \/ x.gain = y.gain /\ x.heaviest < y.heaviest
  \/ x.gain = y.gain /\ x.heaviest = y.heaviest /\ x.index < y.index
BestOf(x, y) == IF Better(y, x) THEN y ELSE x

Candidate(overloaded, gain_sum, best) == overloaded = {} /\ gain_sum >= best.gain

\* final_scan of the moves first..last, with what pre_scan and reverse_join have summed
\* up before; `unset` stands for the largest weight.
FinalScan(first, last, gains) ==
  LET unset == MapThenSumSet(LAMBDA u : NodeWeight[u], Nodes) + 1
      initial == [gain_sum |-> FoldLeft(LAMBDA x, y : x + y, 0, SubSeq(gains, 1, first - 1)),
                  parts |-> ApplyMoves(start, SubSeq(moveOrder, 1, first - 1)),
                  best |-> [gain |-> 0, index |-> 0, heaviest |-> unset]]
      Scan(s, i) ==
        IF ~IsValid(moveOrder[i]) THEN s ELSE
        LET sum == s.gain_sum + gains[i]
            parts == [s.parts EXCEPT ![moveOrder[i].node] = moveOrder[i].to]
            weights == BlockWeights(parts)
        IN  [gain_sum |-> sum, parts |-> parts,
             best |-> IF Candidate(Overloaded(weights), sum, s.best)
                      THEN BestOf(s.best, [gain |-> sum, index |-> i, heaviest |-> Heaviest(weights)])
                      ELSE s.best]
  IN  FoldLeft(Scan, initial, [i \in 1..(last - first + 1) |-> first + i - 1]).best

\* parallel_scan over ranges that end at the given positions; finalize.
BestPrefix(ends, gains) ==
  LET firsts == {1} \union {i + 1 : i \in ends}
      last(i) == Min({j \in ends \union {Len(moveOrder)} : j >= i})
      bests == {FinalScan(i, last(i), gains) : i \in firsts}
      initial == [gain |-> 0, index |-> 0, heaviest |-> Heaviest(BlockWeights(start))]
      all == {initial} \union {p \in bests : p.index # 0}
  IN  CHOOSE p \in all : \A q \in all \ {p} : Better(p, q)

\* revertToBestPrefixSequential rolls forward and keeps the first prefix with the best
\* gain; Gained is minus the attributed gains.
Gained(i) == Km1(start) - Km1(ApplyMoves(start, SubSeq(moveOrder, 1, i)))
BestPrefixSequential ==
  LET Step(best, i) ==
        LET weights == BlockWeights(ApplyMoves(start, SubSeq(moveOrder, 1, i))) IN
        IF IsValid(moveOrder[i]) /\ Overloaded(weights) = {} /\ Gained(i) > best.gain
        THEN [gain |-> Gained(i), index |-> i, heaviest |-> 0] ELSE best
  IN  FoldLeft(Step, [gain |-> 0, index |-> 0, heaviest |-> 0], [i \in DOMAIN moveOrder |-> i])

\* The valid moves after the prefix are reverted.
Reverted(index) ==
  [u \in Nodes |->
     IF \E i \in DOMAIN moveOrder : i > index /\ moveOrder[i].node = u /\ IsValid(moveOrder[i])
     THEN (CHOOSE m \in Range(moveOrder) : m.node = u /\ IsValid(m)).from ELSE part[u]]

\* GlobalMoveTracker::reset
ResetMoves ==
  IF RunningMoveID >= MaxMoveID - Cardinality(Nodes) - Slack
  THEN moveOfNode' = [u \in Nodes |-> 0] /\ firstMoveID' = 1
  ELSE firstMoveID' = RunningMoveID + 1 /\ UNCHANGED moveOfNode

\* reportImprovement may disable unconstrained rounds; the relative improvement is free.
ReportImprovement(improvement) ==
  /\ first_gain' = IF round = 0 THEN improvement ELSE first_gain
  /\ \/ round = 0 /\ UNCHANGED enabled
     \/ round > 0 /\ enabled' = FALSE
     \/ /\ round > 0 /\ ~(round = 1 /\ Dynamically /\ improvement < first_gain)
        /\ UNCHANGED enabled

\* The time limit makes the rounds lighter once, and ends them the second time.
CheckTimeLimit ==
  \/ UNCHANGED <<light, release_nodes>>
  \/ ~light /\ light' = TRUE /\ release_nodes' = FALSE

NextRound(improvement) ==
  /\ round' = round + 1
  /\ \/ /\ improvement > 0 \/ (Dynamically /\ round <= 1)
        /\ round + 1 < context.rounds
        /\ phase' = "init"
     \/ phase' = "done"

RevertTo(prefix) ==
  /\ part' = Reverted(prefix.index)
  /\ quality' = quality - prefix.gain
  /\ ReportImprovement(prefix.gain)
  /\ NextRound(prefix.gain)

\* The parallel version returns early if there are no moves, and does not reset then.
RevertToBestPrefix ==
  /\ phase = "rollback"
  /\ \/ /\ context.parallel /\ moveOrder = <<>>
        /\ RevertTo([gain |-> 0, index |-> 0, heaviest |-> 0])
        /\ UNCHANGED moveVars
     \/ /\ context.parallel /\ moveOrder # <<>>
        /\ \E ends \in SUBSET (1..(Len(moveOrder) - 1)) :
             RevertTo(BestPrefix(ends, [i \in DOMAIN moveOrder |-> RecalculatedGain(moveOrder[i])]))
        /\ ResetMoves
        /\ moveOrder' = <<>>
     \/ /\ ~context.parallel
        /\ RevertTo(BestPrefixSequential)
        /\ ResetMoves
        /\ moveOrder' = <<>>
  /\ CheckTimeLimit
  /\ UNCHANGED <<fixed, trackerVars, refinementNodes, finishedTasks, unconstrained, taskVars,
                 context, start, rebalanced>>

-----------------------------------------------------------------------------
Refined == phase = "done" /\ UNCHANGED vars

Next ==
  \/ BeginRound
  \/ \E t \in Tasks : Search(t)
  \/ FinishSearch \/ Rebalance \/ InterleaveMoves \/ RevertToBestPrefix
  \/ Refined

\* Tasks run until they are finished.  The thread that refines waits for them and goes on
\* from phase to phase; one of its steps is always possible, and all of them change the
\* phase, which is all that weak fairness of its steps asks for.
Phases == {"init", "search", "rebalance", "interleave", "rollback", "done"}
RefinerStep ==
  /\ phase # "done" /\ (phase = "search" => AllTasksFinished)
  /\ phase' \in Phases
Fairness == (\A t \in Tasks : WF_vars(Search(t))) /\ WF_phase(RefinerStep)

Spec == Init /\ [][Next]_vars /\ Fairness
-----------------------------------------------------------------------------
(* Properties *)

QueueNodes(t) == {q[1] : q \in queue[t]}
OwnedNodes(t) == {q[1] : q \in queue[t] \ released[t]}
LocalNodes(t) == {localMoves[t][i].node : i \in DOMAIN localMoves[t]}

\* vertexPQHandles: "each vertex is only held by one thread".  Also when ids are reset or
\* run out, a search owns the nodes in its queue until it stops and releases them, no
\* other search has them in its queue unless it has released them, and a node stays in the
\* block that its search knows it in.  A node that was moved locally is locked.
OneSearchPerNode ==
  /\ \A t \in Tasks : released[t] # {} => At(t, "reset")
  /\ \A t \in Tasks : \A q \in queue[t] \ released[t] :
       searchOfNode[q[1]] = search[t] /\ part[q[1]] = q[2]
  /\ \A t \in Tasks : \A i \in DOMAIN localMoves[t] :
       LET m == localMoves[t][i] IN searchOfNode[m.node] = deactivated /\ part[m.node] = m.from
  /\ \A s, t \in Tasks : s # t =>
       (OwnedNodes(s) \union LocalNodes(s)) \intersect (OwnedNodes(t) \union LocalNodes(t)) = {}

\* The precondition of the rollback: the moves lead from the partition at the beginning of
\* the round to the current one, every node is moved at most once, and the move that
\* is found for a node is its own; also after moves were merged with rebalancing moves.
MovesExplainPartition ==
  phase \in {"search", "rebalance", "rollback"} =>
    /\ \A i, j \in DOMAIN moveOrder :
         IsValid(moveOrder[i]) /\ IsValid(moveOrder[j]) /\ moveOrder[i].node = moveOrder[j].node
           => i = j
    /\ \A i \in DOMAIN moveOrder : IsValid(moveOrder[i]) =>
         /\ start[moveOrder[i].node] = moveOrder[i].from
         /\ moveOfNode[moveOrder[i].node] = firstMoveID - 1 + i
    /\ \A u \in Nodes : WasNodeMovedInThisRound(u) => GetMove(u).node = u
    /\ phase # "rebalance" => ApplyMoves(start, moveOrder) = part
    /\ Len(moveOrder) <= Cardinality(Nodes)

\* verifyGains: gains that were recomputed net by net, from the first and the last move of
\* each block only, are the gains of performing the moves one after another.
RecalculatedGainsExact ==
  phase = "rollback" =>
    \A i \in DOMAIN moveOrder :
      RecalculatedGain(moveOrder[i]) = Gained(i) - Gained(i - 1)

\* A round never makes the partition worse, neither by an overloaded block nor in the
\* objective, and no balanced prefix would have been better, however the scan is split.
RollbackTakesBestPrefix ==
  [][phase = "rollback" =>
       /\ Overloaded(BlockWeights(part')) # {} => part' = start
       /\ \A i \in DOMAIN moveOrder :
            LET parts == ApplyMoves(start, SubSeq(moveOrder, 1, i)) IN
            Overloaded(BlockWeights(parts)) = {} =>
              \/ Km1(part') < Km1(parts)
              \/ Km1(part') = Km1(parts) /\ (context.parallel =>
                   Heaviest(BlockWeights(part')) <= Heaviest(BlockWeights(parts)))
       /\ Km1(part') <= Km1(start)]_vars

\* refineImpl: ASSERT(metrics.quality == metrics::quality(phg, context)), between rounds.
QualityAccounted == phase \in {"init", "done"} => quality = Km1(part)

\* All searches end, whoever finishes first, and so do the rounds.
Termination == <>(phase = "done")

\* "The nets affected by a gain cache update are collected when we apply this improvement
\* on the global partition (used to expand the localized search and update the gain
\* values)": the search expands along the nets that the last applied move changed.
FlushCollectsNets ==
  [][\A t \in Tasks :
       pc[t] = "flush" /\ pc'[t] = "expand" =>
         TriggeredNets(part, Head(localMoves[t])) \subseteq nets'[t]]_vars
=============================================================================
