# Mt-KaHyPar: a TLA+ verification project

Mt-KaHyPar partitions hypergraphs on shared-memory machines.  It coarsens the
input by contracting nodes in parallel, partitions the coarsest hypergraph, and
undoes the contractions while parallel local search improves the partition.
Nearly all of the algorithm is *optimistically* parallel: threads read shared
arrays without locks, decide, and apply changes with atomic operations, so that
what a comment or an assertion says about a data structure has to hold in spite
of interleavings that no unit test forces.  That is what this project models.

* `*.tla` without prefix: components, their faulty variants and properties
* `MC*.tla`, `*.cfg`: instances for TLC
* `*_proofs.tla`: theorems checked by TLAPS
* `PROJECT.json`: runs, mutants, theorems, hazards, findings, and for every
  definition the lines of the source it models

Paths below are relative to `src/mt-kahypar/`.

## 1. Inventory

| component | state | operations | what is hard | what makes it correct |
|---|---|---|---|---|
| **Clustering pass** `partition/coarsening/multilevel/` (concurrent_clustering_data, clustering_context, multilevel_coarsener, rater) | `_matching_state`, `_matching_partner`, `cluster_ids`, `_cluster_weight`, `_already_matched` | `rate`, `matchVertices`, `joinCluster`, `initializeCoarseningPass`, `verifyClustering` | one thread per node, CAS on states, spinning on each other's nodes, cyclic dependencies of any length resolved by the smallest id | every cluster has one representative; a matched node is final; weights are accounted for; every thread returns |
| **Number of nodes tracker** `partition/coarsening/num_nodes_tracker.h` | per-thread counters and thresholds, one shared estimate | `subtractMultiple`, `updateCurrentNumNodes`, `finalNumNodes` | sums of counters that change meanwhile, stored out of order | the estimate is never too small; bounded overshoot of the contraction limit |
| **N-level contraction** `partition/coarsening/nlevel/`, `datastructures/contraction_tree.*`, `datastructures/dynamic_hypergraph.*` | contraction tree (parents, pending counts), node locks, hyperedges, incident nets | `registerContraction`, `contract`, `contractHyperedge`, `unregisterContraction` | representatives are searched without locks; contractions wait for those below them; refused contractions are taken back | forest; counts match the tree; no contraction forgotten or done twice; hypergraph consistent |
| **Fixed vertex support** `datastructures/fixed_vertex_support.*` | fixed block and counter per node, block weights | `fixToBlock`, `contract`, `uncontract` | weights are added first and taken back on failure | block weights match the nodes; clusters do not mix blocks |
| **N-level uncoarsening** `datastructures/contraction_tree.*`, `datastructures/dynamic_hypergraph.cpp`, `datastructures/incident_net_array.cpp`, `partition/coarsening/nlevel/nlevel_uncoarsener.cpp` | time intervals and versions of contractions, batches, lost pins, hidden list entries | `finalize`, `createBatchUncontractionHierarchyForVersion`, `getBatchIndex`, `uncontract`, `restoreSinglePinAndParallelNets` | siblings in reverse order, parents before children; batches are filled by racing threads and reverted in parallel | every contraction has one place; batches respect the order; hypergraph, pin counts and gain cache restored |
| **Partitioned hypergraph** `datastructures/partitioned_hypergraph.h` | block of each node, block weights, pin counts, connectivity sets, one lock per net | `changeNodePart`, `initializePartition`, `resetPartition`, `updatePinCountOfHyperedge` | concurrent moves of pins of one net; optimistic balance check | no block settles above its limit; pin counts and connectivity match; attributed gains add up |
| **Gain caches** `partition/refinement/gains/` | penalty and benefit terms | `initializeGainCache`, `deltaGainUpdate`, `recomputeInvalidTerms`, `uncontractUpdate*` | terms are updated outside the lock, from blocks that change meanwhile | terms equal their definition when no move is under way |
| **FM** `partition/refinement/fm/` | node ownership, shared move sequence, local queues, delta partitions | `tryAcquireNode`, `findMoves`, `applyLocalMovesToGlobalPartition`, `insertMove`, `interleaveMoveSequenceWithRebalancingMoves`, `revertToBestPrefix` | searches take nodes around each other, ids are reused until they run out; the rollback recomputes gains in parallel | a node belongs to one search and moves once per round; the sequence explains the partition; the reverted prefix is the best |
| **Label propagation** `partition/refinement/label_propagation/` | active nodes, next queue | `labelPropagationRound`, `moveVertex` | gains are stale; a move is reverted if its attributed gain is worse | objective accounted for; balance |
| **Flow scheduling** `partition/refinement/flows/` | rounds of block pairs, quotient graph, part weights | `popBlockPairFromQueue`, `finalizeSearch`, `applyMoves`, `partWeightUpdate`, `addNewCutHyperedge` | pairs are handed out and scheduled again concurrently; moves are computed on an outdated partition and refused or reverted | finished rounds are over, few pairs are left over; weights never exceed the limit; improvements add up |
| **Deep multilevel, recursive bipartitioning, initial partitioning** `partition/*.cpp`, `partition/initial_partitioning/` | recursive calls, thread splits, best partitions | `deep_multilevel::partition`, `commit` | splits of blocks and threads | block ranges partition k; best partition kept |
| **Rebalancers, deterministic refiners** | priority queues, proposed moves | | concurrent or synchronous moves | balance; determinism |
| **Preprocessing, mapping, containers, I/O, interfaces** | | | sequential, numeric or data-parallel | not modelled |

**Interaction.**  A coarsener drives passes: `Rate` reads the hypergraph,
`matchVertices` (or `registerContraction`/`contract`) changes the shared state,
the tracker tells the loop when to stop, and fixed vertices may refuse a
contraction.  The result of a multilevel pass is `cluster_ids`, which
`hypergraph.contract` turns into the next level; the n-level coarsener changes
the hypergraph in place.  Uncoarsening projects the partition back; refiners
move nodes with `changeNodePart`, which calls back into the gain cache for every
net whose pin counts changed.  Label propagation and flows keep their result or
take it back move by move; FM collects the moves of all searches in one shared
sequence and decides at the end of the round.  In n-level mode the uncoarsener
reverts one batch of contractions after the other, on the partition and the gain
cache that the refiners use between the batches.

## 2. Modules

```
Clustering                abstract: nodes join representatives
   ^ refines
ConcurrentClustering      matchVertices, joinCluster, conflict resolution
   ^ extends
ConcurrentClusteringInv   inductive invariant
   ^ extends
ConcurrentClustering_proofs    MCConcurrentClustering (TLC)

NumNodesTracker           estimate of the number of nodes
   ^ extends
NumNodesTracker_proofs

FixedVertexSupport        fixed blocks, block weights, acceptance policy
   ^ extends
NLevelContraction         contraction tree, locks, dynamic hypergraph
   ^ extends
NLevelContraction_proofs       MCNLevelContraction (TLC)

PartitionedHypergraph     changeNodePart: weights, pin counts, connectivity sets
   ^ extends, refines
Km1GainCache              gain cache and attributed gains below any refiner
   ^ extends, refines          MCKm1GainCache (TLC)
LabelPropagation          rounds, reverts, rebalancing, rollback
   ^ extends
LabelPropagation_proofs        MCLabelPropagation (TLC)

FMSearch                  localized searches, node and move tracker
   ^ extends
MultiTryFM                rounds, rebalancing moves, global rollback
   ^ extends
MultiTryFM_proofs              MCMultiTryFM (TLC)

ActiveBlockScheduler      rounds of block pairs
   ^ extends
FlowRefinement            searches, applyMoves, quotient graph
   ^ extends
FlowRefinement_proofs          MCFlowRefinement (TLC)

FixedVertexSupport
   ^ extends
ContractionHistory        contractions with time intervals, removed nets
   ^ extends
BatchHierarchy            assignment of contractions to batches
   ^ extends
NLevelUncoarsening        parallel uncontraction, gain cache, restored nets
   ^ extends
NLevelUncoarsening_proofs      MCNLevelUncoarsening (TLC)

SumTheorems               laws of sums and folds, used by all proof modules with sums
```

Faulty variants of definitions stand before the definitions they replace and are
used by no action; each of them breaks a property when it takes the place of the
original (`mutants` in `PROJECT.json`).

### ConcurrentClustering

`tbb::parallel_for` runs one iteration per node; an iteration is a process named
after its node, and `NumThreads` bounds how many are under way.  `pc` holds the
next access to shared memory:

| action | code |
|---|---|
| `Rate`, `Skip` | `performClustering`: the rater chooses a neighbor that fits, or the node was matched or has no partner |
| `CheckWeight`, `AcquireU`, `PublishPartner` | weight check, CAS of the state of `u`, store of `_matching_partner[u]` |
| `InspectV`, `AcquireV`, `ReadRepresentative` | state of `v`: matched, unmatched (CAS), in progress |
| `JoinCheck`, `JoinWrite`, `JoinWeight`, `ReleaseV` | `joinCluster` and the store that publishes `v` |
| `WalkPartners`, `ResolveCycle`, `WaitForV`, `JoinLate` | conflict resolution |
| `MarkAsMatched`, `RetractPartner`, `ReleaseU` | end of `matchVertices`, counting in `ClusteringContext` |

The scores of the rater are data: a target is any neighbor that the code may
return for some scores.  Fixed vertices (`HasFixedVertices`) may refuse any join.
Four history variables (`joins`, `overtaken`, `visited`, `resolvers`) are
written and never read by an action's guard.

`overtaken` names the one window in which the algorithm does not keep what its
comments promise: a thread publishes its partner, another thread resolves the
cyclic dependency and matches its node, and only then the first thread loads the
state of the partner.  It finds the partner matched and joins its cluster without
looking at its own state.  The properties are stated up to that window, and the
run `clustering_comment` shows the window.

### NumNodesTracker

`Subtract` is the `fetch_add` of `subtractMultiple`, `SumUp` one counter read by
`combine_each`, `Store` the store of the estimate and the growth of the thread's
threshold, `NextPass` the end of a coarsening pass with a new limit.

### NLevelContraction and FixedVertexSupport

The iteration of node `hn` rates (`Rate`), registers the contraction
(`LockV` ... `Register`), and performs it and everything that becomes possible
above it (`NextPair`, `AcquireFirst`, `AcquireSecond`, `Attempt`, `SettleFixed`,
`Perform`, `ContractHyperedge`, `MergeIncidentNets`, `Unregister`).  Node locks
are the spin locks `_acquired_hns`; a spin lock is an action that is enabled when
the lock is free.  Steps that only touch nodes whose locks are held are merged;
loads without a lock (the climb to the representative, the final cycle check,
the pending count above) are steps of their own, also where the code uses plain
instead of atomic loads.  Block weights of fixed vertices are changed with atomic
additions between which other threads run (`Attempt` adds, `SettleFixed` commits
or takes back).  `Rate` chooses the direction of a contraction from the degrees and
`HighDegreeThreshold` as the code does.  A node asks for one contraction in a pass, and
a fixed one only for vertices that are fixed to its own block.  Clusters of a pass stay apart
because a free vertex that takes in a fixed one becomes fixed itself; the comparison of blocks in
`FixedVertexSupport::contract` (`DifferentBlocks`) is a second line of defence.  The history variable `revived` records that a contraction was
performed although another thread had taken it back (section 6); the properties are
stated up to that moment, and theorems say when it cannot come.

### PartitionedHypergraph, Km1GainCache, LabelPropagation

The three modules are layers of one system, and share their variables.

*PartitionedHypergraph* is `changeNodePart`, called by any number of *movers* for
any node and block.  What a caller has to guarantee (one mover per node, from the
current block to another one) is the guard of `Call`, and comes from the
assertions at the entry.

| action | code |
|---|---|
| `AddWeight`, `UndoWeight` | `add_fetch` on the weight of the target block and its comparison, `fetch_sub` if the node does not fit |
| `SetPart`, `SubWeight` | store of `_part_ids[u]`, `fetch_sub` on the weight of the old block |
| `UpdatePinCount` | the critical section of a net: both pin counts and the connectivity set |
| `DeltaFunction` | the callback after the lock was released, with the pin counts from inside |
| `Return` | end of the loop over the nets |

Nets are taken in any order, which covers the order of the adjacency array.

*Km1GainCache* adds the callback of the gain cache (`DeltaGainUpdate`) and the
attributed gain, and the end of a round, at which the penalty terms of moved
nodes (at least) are recomputed.  The delta update of one net is one step: each
addition is atomic, nobody reads a term before the end of the round, and a pin
that changes its block meanwhile is recomputed then.

*LabelPropagation* is the refiner.  A *slot* is an index of `_active_nodes`; the
parallel loops over slots are movers.

| action | code |
|---|---|
| `StartMoveVertex`, `RateNet`, `ComputeMaxGainMove` | `moveVertex` up to the move: border check, one net after the other, choice of the block |
| `MoveStep`, `MoveReturns`, `RevertReturns`, `Activate` | the move, the comparison of its attributed with its computed gain, the revert, the activation of neighbors |
| `FinishRound`, `FinishUnconstrainedMoves`, `AcceptRound` | `labelPropagationRound` after the barrier |
| `ApplyRebalancing` | rebalancer, appended nodes, comparison with the best metrics |
| `RollbackCheck`, `RollbackCall`, `RollbackStep`, `FinishRollback` | parallel rollback over the slots that were marked |

Abstractions: the nets of a node are rated one by one, but the border check and
the weights in `computeMaxGainMove` are read at one moment; ties between blocks and the coin flip
for moves without gain are choices; the threshold for the relative improvement
may stop a round without loss; nets are below the activation threshold and nodes
below the degree threshold of `isBorderNode`.  The gain cache is initialized, no
nodes were removed, empty blocks are not allowed, and blocks have equal shares,
so that the imbalance is ordered like the weight of the heaviest block.  The
rebalancer is one step with any result its threads can produce: `RepairedParts`
is exact if a single repair round suffices (with two blocks it does), and
`UnloadedParts` is an over-approximation, free nodes that leave overloaded blocks
for blocks in which they fit.  The history variable `listed_twice` marks the one
defect that the other properties of the rollback are stated up to.

### FMSearch, MultiTryFM

A *task* runs one search after the other; both modules share their variables.

| action | code |
|---|---|
| `BeginTask`, `PopSeed`, `NoMoreSeeds` | `findMoves`: a new search id, seeds from the work container, insertion into the queue |
| `FindNextMove`, `SkipMove` | `findNextMove` of the strategies (the node is locked for the round), a move that does not fit any more or is not worth while |
| `MoveDirectly`, `MoveLocally`, `Flush` | the move in `deltaPhg` or right away, `applyLocalMovesToGlobalPartition` move by move |
| `Expand` | `acquireOrUpdateNeighbors` |
| `Stop`, `ReleaseNode`, `ClearQueues` | the end of a search; `reset` of the strategy releases its nodes one by one, block after block, and empties the queues after the last one |
| `BeginRound`, `Search`, `FinishSearch` | `roundInitialization` with the resets of ids, the tasks, the barrier |
| `Rebalance`, `InterleaveMoves` | rebalancer after an unconstrained round, `interleaveMoveSequenceWithRebalancingMoves` |
| `RevertToBestPrefix` | gain recalculation, the scan for the best prefix split anywhere (or the sequential rollback), `moveOfNode` for the moves that are reverted |

Abstractions: gains and priorities come from a cache that others change, so the
order of a queue, the target among the feasible blocks, whether a sequence is
expected to improve and the stopping rule are choices.  A node that was released is still in
the queue of its search until the queues are cleared; another search may acquire and insert
it meanwhile, so a node can be in two queues, of which one search owns it.  `clear` does not
touch the shared `vertexPQHandles`, which makes this harmless.  `Expand` acquires the
neighbors of a node in one step, each of which it either gets or not.  `changeNodePart` is one
step; its own steps are in `PartitionedHypergraph`.  The work container is the
set of seeds that are left, which covers every order and every theft.  `MaxSearchID` and
`MaxMoveID` stand for 2^32 - 1 and `Slack` for 20; the assumption `NumTasks <= Slack + 1` is
what the ids that tasks draw without finding a seed need, and the code does not
state it.  The recalculation skips nothing: the code marks each net with the
number of the rollback, which is not reset when it reaches its maximum
(`global_rollback.cpp:386`), an effect that needs 2^32 rollbacks of one object.

### ActiveBlockScheduler, FlowRefinement

A *search* is a thread of `refineImpl` that asks for pairs of blocks until there
are none left for it.

| action | code |
|---|---|
| `BeginSum`, `AddRemaining`, `CheckRemaining` | `numRemainingBlocks` summed round by round, the comparison that lets a search give up |
| `PopPair`, `PopFails`, `MarkPopped`, `Acquire` | `popBlockPairFromQueue`, the flag of the pair, `acquire` of the pair for construction |
| `Construct`, `ExtractMoves` | region of the pair and release of the pair, the result of the flow computation compared with the current blocks |
| `BeginApply`, `ApplyMove`, `RevertMove` | `applyMoves` under its lock: current blocks, part weights, the moves, the moves back |
| `AddNewCutHyperedge`, `ReportSearch` | new cut nets after the lock was released, the improvement of the round |
| `Schedule`, `ScheduleAgain`, `Count`, `Decrement` | `finalizeSearch`: adjacent pairs of an improved pair are pushed, then counted; the own pair is uncounted |
| `CheckRound`, `FinishRounds` | the check of the counter without and with the lock, the decision to terminate |

Abstractions: a region is any set of nodes that are not fixed in the two blocks,
if a known net is still cut, and the flow computation returns any assignment of it;
both blocks are read at one moment.  `_first_active_round` and `_terminate` are
plain variables that threads race on; they are modelled as sequentially
consistent.  The counter of a round can be too large by one, as its header says,
and also too small for a moment or wrapped around, because a pair is pushed
before it is counted.  A pair whose `acquire` fails is lost to its round.  The moves
of a search are a function from its nodes to blocks, because a node occurs once, and
they are applied and reverted in any order, which covers the order of the vector.
The history variable `stopped` records that a search decided to terminate early.  `partWeightUpdate` is
one step, because only the holder of the lock of `applyMoves` touches the part weights; inside
it the blocks are updated one after the other, and the way back from a block that would be
overloaded undoes those before it, as the code does.  `Push` sets the flag of a pair and puts it
into the queue at once (`active_block_scheduler.cpp:71`); in between the flag keeps others from pushing the
pair, and the queue can only look emptier than it is, which a reader that comes earlier finds as
well.  `FinishRounds` is the whole loop under the lock (`active_block_scheduler.cpp:214`), although threads read
`_first_active_round` and `_terminate` without it.  What they can see in between is a round that
is finished already and not yet skipped, or the decision of a round that a later one revokes
at once; a search that leaves because of it has left after an early termination was decided
on, and `LeftOverBounded` does not speak of that case.  There
is no history of improvements from earlier levels, `skip_small_cuts` is off, and
the gain cache is not brought up to date afterwards.

### ContractionHistory, BatchHierarchy, NLevelUncoarsening

Three consecutive phases of one run, from the first contraction to the restored
input.

| action | code |
|---|---|
| `BeginContraction`, `OpenInterval`, `ContractHyperedge`, `MergeIncidentNets`, `EndContraction` | `contract` with fixed vertices, start and end time, pins that are replaced or become invalid |
| `EndPass` | `removeSinglePinAndParallelHyperedges`, a new version |
| `StartVersion`, `PopGroup` | `createBatchUncontractionHierarchyForVersion`: roots distributed over threads, siblings whose intervals intersect |
| `FetchAdd`, `CountSize`, `RaiseHighWaterMark`, `SwapLevel`, `ScanBatchIndices`, `TransmitMinimum` | `BatchIndexAssigner`, one access to a shared counter per step, and the next level of the traversal |
| `FinishVersion` | batches of the version as vectors, reset of the counters |
| `InitializePartition`, `Refine` | start of uncoarsening, a move of a refiner between batches |
| `StartBatchUncontraction`, `Splice`, `ReplacePin`, `RestoreEntry`, `RestorePin`, `EnableNode`, `BatchCompleted` | `uncontract` of a batch, one task per contraction, one step per critical section |
| `StartRestore`, `RestoreSinglePinNet`, `NotAcquired`, `LoadWeight`, `StoreWeight` | `restoreSinglePinAndParallelNets` after the last batch of a version: the parallel loop over the removed nets, in which a net takes its weight back from its representative under the lock of the latter |
| `RestoreIncidentNets`, `RestorePinCounts`, `RestoreCompleted`, `TopLevel` | the incident nets, the loop over the removed nets that restores pin counts, connectivity sets and gain cache, the end |

Abstractions: the contraction tree is an input, its registration is the subject
of `NLevelContraction`.  The version numbers in the lists of incident nets are
abstracted to the entries they hide (`nets`, and `shared` for those that both
nodes had).  Parallel nets are found by comparison of pins, which hashes only speed
up.  `LoadWeight` and `StoreWeight` are the two halves of the
subtraction, which only the lock of the representative keeps together.  The incident
nets of all nodes are restored in one step, as each node has a list of its own.  A refiner is
one move with exact updates.  A thread scans the batch indices
of the others in one step; with two threads there is one other index.  The slot of
`u` in a net is found without the lock: pins are only appended, and a pin that is
`u` is replaced only by the task that searches for it, so the position stays
valid.  The trees of the input contain no contraction that fixed vertices forbid;
refusals are the subject of `NLevelContraction`.  Initial partitioning puts fixed
nodes into their blocks, and refiners leave them there.

All models assume sequentially consistent memory: a relaxed load that returns an
older value than the last store is not modelled.

## 3. Runs

| run | instance | shows |
|---|---|---|
| `clustering` | 4 nodes, a ring of three with a tail, 3 threads, one light node, weight limit 4, fixed vertices that may refuse a join | every cluster has a representative unless overtaken, the assertions of `joinCluster`, what cluster weights count at every moment and their bound, refinement of `Clustering`, termination |
| `num_nodes_tracker` | 2 threads, 15 nodes, limits 9 and 10 | the estimate is never too small; overshoot bounded |
| `nlevel` | 5 nodes, 3 nets, degree threshold 1, 2 blocks, 3 fixed nodes | counts and hypergraph consistent; every registered contraction performed or taken back; block weights settle, clusters never mix blocks; termination |
| `gain_cache` | 3 nodes, 3 movers, 2 nets, 2 blocks | pin counts, weights, connectivity sets and cache exact up to outstanding steps; balance |
| `label_propagation` | 4 nodes, one of them fixed, 3 nets, 3 rounds, limits | reported objective; implements `Km1Spec`, the specification that `gain_cache` checks |
| `label_propagation_unconstrained` | 3 nodes, 2 nets, 2 rounds, limits | rollback and its target, gain cache, accepted rounds after rebalancing, empty blocks |
| `fm` | 2 tasks, 3 nodes, 3 nets, 3 blocks, one round or two with a fixed node, the first round unconstrained, one of both rollbacks per input | ownership while nodes are acquired and released one by one, the move sequence, recomputed gains, the best prefix, accounting, termination |
| `flows` | 2 searches, 3 blocks, 3 nodes, one of them fixed, 2 nets, limits 1, 1, 2 | finished rounds are over, left over pairs, part weights, improvements, termination |
| `uncoarsening` | 5 nodes, 3 nets, two contraction trees with one and two fixed nodes, 2 passes, 2 threads, batches of 2, 2 blocks, 1 move | batches complete and ordered, hypergraph, pin counts and gain cache restored after each batch, fixed nodes in their blocks, input restored in the end |
| `clustering_comment`, `nlevel_cycle`, `label_propagation_twice` | | counterexamples, section 6 |

**Bounds.**  A ring of three nodes is the smallest instance with a cyclic
dependency that is longer than a mutual choice; the tail is a node that joins from
outside.  Nodes weigh 2, node 0 weighs 1, and the limit of 4 makes several threads pass the
weight check of one representative at once; the second join of a resolver is admitted if it is
node 0 and refused if it is node 1.  A refusing fixed vertex makes the resolver of a cyclic
dependency fail.  Beyond these the argument is the proof, which has no bound.  In
`nlevel` five nodes give contractions that wait for contractions below them, both
lock orders, and a representative that changes while it is searched; three fixed
ones let two blocks fill up and one of them refuse, and free nodes between fixed ones of
different blocks become fixed before they are contracted.  With three nets and threshold
one the direction of a contraction depends on the degrees.  `Preferred` restricts what
the rater may choose; in `nlevel_cycle` the constraint `Stalled` selects schedules,
which is harmless for a counterexample.

Three movers on one net are the smallest number for which updates of a net are
applied in an order that differs from both the order of the moves and the order
of the critical sections, and with limits of 3 and a node of weight 2 some moves
are refused although they would fit without the others.  `MaxMoves = 1` is one move
per node; a move and its revert, which take two, happen in the runs of label
propagation.  In `label_propagation` nodes 3 and 4 choose each other's block
and node 2 follows 3, which then goes back; the weights of the nets make a revert
happen, and the limits refuse it in some interleavings.  The unconstrained
instance is a chain: node 2 wants to join 1 and 3, which want to join 2.  All
three together are too heavy for one block and leave the other one empty, so
rounds end with an empty block or an overloaded one, are repaired and rebalanced,
and are accepted or rolled back, also with a node that is listed twice.

In `fm` two tasks with one seed each meet at the third node, every node starts in
a block of its own, and blocks have room for two of three nodes, so that an
unconstrained round overloads a block and is rebalanced, also by moving a node that was moved
already.  With `MaxSearchID = 10` and `MaxMoveID = 9` the ids of searches and of
moves run out after the first of two rounds in some behaviours and not in others, and
`Slack = 2` is one more than the two tasks need.  In `num_nodes_tracker` fifteen nodes
are enough for thresholds to grow during a pass and for a sum to be stored late, and
the second limit starts a pass with counters of the first.  In `flows` blocks 0 and 1 have room for one
node each, so that searches conflict and a sequence is refused at the first block it touches or
at a later one, with the way back; three pairs on two searches
leave a pair that is picked up late, scheduled again, or left over.  In
`uncoarsening` nodes 2 and 3 are contracted onto 1 in parallel or one after the
other, which gives groups of one and two and batches of all sizes; a second root
lets two threads assign batches at once; in some of the histories nets lose all but one pin, or all three become parallel
in one pass, so that two of them take their weight back from one representative at once.  A free node is contracted onto a node before or after that
node becomes fixed, and one becomes fixed for two reasons.

**Fairness** is weak fairness of each iteration: TBB executes every iteration,
and the operating system schedules every running thread eventually.  Weak
fairness of a spin lock would in general allow starvation, as the lock can be
taken by others again and again; here each iteration takes locks finitely often,
so a lock that is wanted is free from some point on.  The same holds for `flows`,
where a search takes the lock of `applyMoves` once per pair.  In `fm` each task is
fair, and the sequential parts between the barriers come to an end
(`WF_phase(RefinerStep)`); searches stop because seeds run out and a node is
locked once it was taken.  `uncoarsening` needs only that something happens as long as
something can (`WF_vars(Next)`): no step can be repeated forever.

## 4. Proofs

Eight modules hold theorems.  All of them are about the same specifications that TLC
checks, with constants of any size; what is assumed of the constants is named in
`ASSUME`s of the component's module and evaluated by every run.  TLC checked each
inductive invariant before it was proved.

### SumTheorems: sums over sets, folds over sequences

Weights and gains are sums over finite sets (`MapThenSumSet`, `SumFunctionOnSet`), and
their laws are proved by induction over finite sets.  The library's induction
theorem has a predicate as a parameter, which the provers cannot instantiate;
`SubsetInduction` takes a *set* of subsets instead: if it contains every set whose
proper subsets it contains, it contains all subsets.  A law is
proved by showing that the set of subsets for which it holds is such a set.  From it follow
the sum with an element added or removed (`SumAdd`, `SumRemove`), sums of equal and of
pointwise larger functions, of a function that changes in one place, of
differences, and the extension of a sum by zeros, so that sums over different
sets can be compared.

The loops of FM are folds over sequences (`FoldLeft`), which the library defines by a
recursive function on the *sets* of positions.  `RangeInduction` is induction over an
interval, again with a set in place of a predicate; `LoopType` says that the
recursive function exists for any step function that stays within a set.  Each loop
has an instance of it that turns the fold into a trace `g[0], ..., g[n]` of
values (`ScanLoop`, `BalanceLoop`, ...), about which induction can speak.

### ConcurrentClustering_proofs

For every set of nodes, weights, neighborhoods, weight limit and number of threads
(`NodesAssumption`, `WeightAssumption`, `NeighborAssumption`, `ThreadAssumption`: nodes
are finitely many naturals, weights are naturals):

* `TypeCorrect`: `Spec => []TypeOK`
* `IndInvariant`: `Spec => []IndInv`
* `ClusterSafety`: every cluster id names a representative, unless overtaken
* `JoinSafety`: both assertions of `joinCluster` on the representative hold
* `MatchedFinality`: a matched node stays matched, and its cluster id is written again only by
  its own thread, after that was overtaken; nothing is assumed of the other threads
* `Refinement`: each step is a step of `Clustering` or leaves it unchanged
* `WeightsAreAccounted`: the weight of a representative and the additions under way are the
  weight of its members plus that of those that joined twice, which are resolvers
* `OvershootIsBounded`: a cluster exceeds the limit by what other threads bring at once

**Argument.**  That a node points to a representative is not inductive: when the
smallest node of a cyclic dependency joins its partner, why does the partner
still stand for itself?  Because it waits, and it waits because its own partner
does, around the cycle.  `IndInv` says this without induction over paths.
An iteration chooses its target once, so the published partners are one partial
function.  `WalkerOK`: a search has seen a set `visited` of nodes, each of which
either still waits (`Live`) or has a reason not to (`Excused`: its target is
settled or owned by another thread, or its cycle was resolved), and every set
closed under targets that meets `visited` contains the current node
(`LeadsTo`).  When the search comes back to its start, `visited` is closed, and
no proper part of it is.  If one node of it had stopped waiting, its excuse
propagates to its target, around the whole cycle, to the searching node, which
still waits (lemma `CycleIntact`).  So all other nodes wait, `ResolvingOK`, and
two resolvers of overlapping cycles would have found the same cycle with the same
smallest node (lemma `ResolverUnique`).  The remaining parts (`HolderOK`,
`PointerOK`, `AloneOK`, `JoinOK`, `RejoinOK`) say who owns an acquired partner and
which cluster a join leads to.  They are split into those that hold always (`RoleOK`, from
which `MatchedFinality` follows) and those that hold until a thread is overtaken (`PlaceOK`).  The proof of `IndInvStep` has a lemma per part;
each is split by action through lemmas that say what a step can do to `pc`, to
states, to pointers and to histories (`StepHolds`).

The weights follow from sums over the history of joins.  For the overshoot the
invariant counts, for each representative, what threads between their check and their
addition may still bring (`OvershootInv`): a check that succeeds leaves room for its own
weight, so only the others can exceed the limit.

### LabelPropagation_proofs, first part: partitioned hypergraph and gain cache

For every hypergraph with finitely many nodes and at least one net, any blocks,
weights, limits and movers (`PartitionAssumption`):

* `Tracking`: `PhgSpec => []PhgInv`, the inductive invariant
* `PinCountsAreTracked`: pin counts and connectivity sets are exact, up to the
  nets that movers have not come to yet
* `TrackedInformationIsExact`: `checkTrackedPartitionInformation` succeeds
  whenever no move is under way
* `WeightsAreTracked`, `BalanceIsKept`: block weights are exact up to announced
  and outstanding nodes, and no block settles above its limit
* `CacheIsTracked`: the gain cache is exact up to the updates that movers owe, and
  attributed gains add up to the change of the objective
* `GainCacheIsExact`: it is exact when no move is under way and moved nodes were recomputed
* `PinCountsAreTrackedWithCache`, `BalanceIsKeptWithCache`: the same below every refiner,
  because a refiner with a gain cache takes the steps of `PhgSpec` (`CacheRefinesPartition`)

`PinCountsTracked` alone is not inductive: a step of a mover changes what a net
should count only if no other mover is behind with the same node, which is
`CallsDoNotOverlap`.  The steps that leave the nets alone (`Quiet`) keep the set
of counted pins of every net and block (`QuietCounted`): storing the new block of
a node puts the mover behind in all nets at once, so each net still counts the
node in its old block.  The update of a net moves exactly one pin from one
counted set to another (`UpdateCounted`), hence the two cardinalities by one each
(`UpdateTracked`), and membership in the connectivity set follows the counts.

Weights are sums over nodes and over movers that are between two additions
(`WeightInv`).  Balance needs in addition that the sum of the announced weights that were
accepted fits (`AcceptedFit`): a mover compares the value that its own addition
returned, so whoever is accepted had room for all that were accepted before.

The cache is exact up to a sum of owed deltas per mover.  `DeltaGainUpdate` with the pin
counts from inside the critical section is the difference between two recomputations
of a net, and owed deltas commute (`CacheInv`).  The penalty of a node that moved
in the round is not tracked: that is what `recomputeInvalidTerms` is for.
`TrackedInformationExact` is proved for callers that respect `Call`; the run
`label_propagation_twice` shows that the rollback of label propagation does not.

### LabelPropagation_proofs, second part: label propagation

The proofs are about the same hypergraphs, weights, limits and slots, any number of rounds,
and both variants of the refiner:

* `LabelPropagationInvariant`: `Spec => []LPInv`, the inductive invariant
* `ReportedQualityIsExact`: the reported quality is the objective of the partition
* `RollbackRestoresTheBest`: `best_metrics` describes the old blocks, and a rollback ends there
* `TrackedUnlessInTwoSlots`: pin counts and gain cache survive everything but a rollback
  that finds a node in two slots
* `RebalancedRoundIsNotWorse`: an action property, the assertion behind the rebalancer
* `LabelPropagationIsRefiner`: with weight limits, `Spec => Km1Spec`.  `MaxMoves` bounds how often
  a refiner moves a node in one round; label propagation needs two, a move and its revert
* `LabelPropagationKeepsBalance`: hence what is proved of every refiner holds for this one

**Argument.**  The invariant of the gain cache speaks of callers that never move a node from
two slots at once, so the proof first shows that label propagation is such a caller: only one
slot of a node is active in a round (`MoveInv`), an iteration calls `changeNodePart` at most
twice, and knows the block its node is in.  What the calls do to cache and objective is
then inherited: each step of a call is a step of `Km1GainCache`
(lemma `CallKeepsCache`) and any other step leaves its variables alone (`SilentKeepsCache`).
After the barrier nothing is owed (`SettledInv`), so the sum of the attributed gains *is* the
objective, also if moves made each other obsolete.  The rebalancer replaces all blocks
and recomputes everything (`ApplyTracked`).  For the rollback, `best_metrics` is the metrics of
`_old_part` at every moment (`BestInv`), every node outside of its old block is in some slot
(`SettledInv`), and a slot that is done has its node in its old block (`RollbackInv`).  The
last part also holds if the two slots of a node roll back at the same time: both store
the same block.  But both of them update pin counts, hence the condition `listed_twice = {}`
in `TrackedInv`, without which the statement is false (run `label_propagation_twice`).

### NumNodesTracker_proofs

For any finite set of threads, number of nodes, limits and size of an iteration
(`TrackerAssumption`):

* `TypeCorrect`: the unsigned subtractions of a sum never wrap around
* `NeverTooLow`: the estimate is never smaller than the number of nodes
* `PassOvershoot`: how far a pass contracts beyond its limit

**Argument.**  A partial sum is at most what the counters it has passed hold now
(`CountInv`), because counters only grow.  The overshoot needs a potential that no
step increases once the limit is reached: for every thread the rest of its threshold
(`Allowance`), one iteration that the estimate allows, and one for every sum that was
begun before and will tell the others that the limit is not reached (`Outdated`).  A thread
that has an allowance left got it as its share of what was left then (`AllowanceInv`), so
that allowances and contractions of a pass together are bounded (`OverInv`).

### NLevelContraction_proofs

For every hypergraph with finitely many nodes, and any weights, blocks and fixed
vertices (`NLevelAssumption`, `FixedAssumption`); `ContractionInv` is the conjunction of
the invariants below.

* `ShortCyclesExcluded`: no cycle of two or three nodes (`LocksInv`: who holds which
  lock where; `CycleInv`: what a registration knows of the nodes it has locked).
  Four is sharp: the run `nlevel_cycle`.
* `PendingCountsMatch`: reference counts are the numbers of unfinished children (`TreeInv`)
* `ContractionsAreIsolated`: concurrent contractions do not share a partner, and nobody
  contracts onto a node that is being contracted
* `NothingIsForgotten`, `HypergraphIsContracted`: what the pass leaves behind, if the tree
  is a forest.  `CareInv` says that a registered contraction waits for others or some thread
  takes care of it, and `EdgeInv` which pins of a net are still to be replaced and by whom.
* `BlockWeightsAreTracked`, `ClustersKeepTheirBlock`: `BlockInv`, sums over nodes
  and over threads that have added and not settled.  The second is about whole clusters, along
  chains of any length: the nodes fixed to one block, a set that contains every node that the input
  fixes to it, are closed under the contractions that were performed
* `OnlyOverflowRevives`, `UnfixedNeverRevives`: a contraction that was taken back is
  performed only after a block weight was above its limit; never without fixed
  vertices (`AttemptInv`)

The others are stated up to `revived`; the last two theorems turn them into
unconditional statements for inputs without fixed vertices, or whose blocks do not fill up.

### FlowRefinement_proofs

For any number of searches, blocks and nodes, weights and limits
(`SchedulerAssumption`, `FlowAssumption`):

* `RoundsAreOver`: a round that the scheduler regards as finished is over
* `FewPairsAreLeftOver`: fewer pairs than searches are left over
* `FlowWeightsAreTracked`: part weights are exact and within limits outside of the lock
* `FlowsNeverWorsen`: improvements add up, the objective never gets worse

**Argument.**  Each action has one of six effects on the queues and counters (`Silent`,
`Pops`, `Pushes`, `Counts`, `Finishes`, `Closes`; one lemma per action).  `CountersExact`:
the counter of a round is its queue plus the searches of it minus the pairs that were pushed
and not counted.  Hence a counter can be zero too early only if a pair of the round is
uncounted; but its pusher works on the round before and is counted there, so the
smallest finished round that is not over would have a smaller one.  For the pairs that are left
over, `Watched` says that, while as many pairs as searches are queued, there is a search that
will add up all counters again (`Active`), has counted all pairs of the rounds it has come to
(`Seen`), or has found only empty queues so far (`Walks`).  A search that gives up would
be the last of them only if it had seen fewer pairs than searches.  That a pair is lost only to
a search that is still active is `OwnersKnown`.  Weights and objective:
`ApplyInv` gives, for each point of `applyMoves`, what the partition would be with all moves
applied and with none (`Restored`), which is independent of the outdated partition that the
moves were computed on.  `AllOrNothing` shows that the update of the part weights, block by block
with its way back, adds all weights of a sequence or none.

### MultiTryFM_proofs

For any hypergraph, number of tasks, seeds and limits (`FMAssumption`, `RoundsAssumption`):

* `SearchesAreDisjoint`: `Spec => []OneSearchPerNode`
* `MovesExplainThePartition`: `Spec => []MovesExplainPartition`
* `RecalculatedGainsAreExact`: `Spec => []RecalculatedGainsExact`
* `RollbackTakesTheBestPrefix`: `Spec => RollbackTakesBestPrefix`
* `QualityIsAccounted`: `Spec => []QualityAccounted`

**Searches.**  A node is acquired only if the id at it is below the marker of the round.
The nodes of a search (`Held`: those in its queue that it has not released, and those of its
moves) carry its own id, which is above the marker, or are locked
with the marker itself, so no search can take them from another one (`FreeIsNotHeld`),
and a step that touches only its own and free nodes keeps the searches apart
(`HeldStep`).  This needs that ids of running searches are distinct and above
the marker although they are unsigned and wrap around (`IdsOK`): the next id plus the
seeds that are left plus the tasks that can start a search without a seed (`Eager`) never
exceeds the largest id plus one.  A seed pays for the search that takes it, and the
reserve for one empty search of each task.  With `NumTasks = Slack + 1` the last of these
searches really gets id 0, below the marker; but there is no seed left and no
other task can start one, so it acquires nothing (`WrappedAround`).  The reserve is 20 ids
in the code, which nothing relates to the number of threads; `NumTasks <= Slack + 1` is
the relation that the proof needs.

**Moves.**  The inductive invariant is `MovesInv`, next to the one of the searches.  While
searches run, the nodes of all moves in the sequence are locked, and no search has them
among its own moves (`AppliedOK`): so a node is not moved a second time, and a move that
is applied starts where the round did.  The moves of the rebalancer lead from the
partition the sequence explains to the current one (`RebalancedOK`).  The interleaving is
four nested folds; for each of them it is shown that it stays within sequences whose
moves, together with those that are left, are always the same ones, each once (`JoinConserves`,
`InterleaveKeepsMoves`).  A merged move starts where the first one did and ends where the
second one does; an undone one is invalid.  Since every node is moved at most once, the
partition after a sequence does not depend on the order of its moves (`ApplyClosed`), which
is what lets the order be changed for the sake of balance.

**Gains.**  `Prefix(k)` is the partition after the first k moves.  A node that was moved is in
its target block in it iff its id is not above that of the k-th move (`PrefixClosed`), so
the first and last ids that `recalculateGainForHyperedge` looks at decide whether the block of
a move is empty after it (`BenefitIs`) and its target was empty before it (`PenaltyIs`); the
net's share of the gain is its weight times the change of its connectivity
(`ConnectivityChange`, `GainIsDifference`).

**Rollback.**  `final_scan` of a range finds the best balanced prefix that ends in it with a
gain that is not negative (`FinalScanBest`, by induction over the range), the ranges
cover all moves however they are cut (`RangesCover`), and the order of the candidates is
strict (`BestExists`).  Among prefixes of equal gain the parallel scan takes one whose heaviest block is
lightest, the sequential rollback the first one.  A prefix that ends with an invalid move is the prefix before it.  To
revert the moves after a prefix restores the partition after it (`RevertedIs`), and its gain
is the change of the objective, which `QualityInv` adds up.

### NLevelUncoarsening_proofs: the batch hierarchy

For every contraction tree, any number of nodes, passes and threads and any batch size
(`HistoryAssumption`, `HierarchyAssumption`):

* `BatchesAreComplete`: `Spec => []BatchesComplete`
* `BatchesAreOrdered`: `Spec => []BatchOrder`

**History.**  `HistoryInv` is what coarsening leaves behind: a node is contracted after its
children and in no earlier version, intervals end one after another (so that the children of
a node have one order), and an interval that ends before another one opens is of no later
version.

**Complete.**  `AssignInv` follows a contraction of the version: it is in a queue, in the group a
thread is assigning, or has a slot, and it was reached iff its parent was (`ReachedOK`).
When all threads have returned nothing is queued or held, so a contraction without a slot has a
parent without one, which ends later: there is none (`AllSlotted`).  Positions are
consecutive because a counter that is below the limit is the number of slots of its batch
(`CountersOK`), although it runs away once it is above.  The number of batches is right
because a batch that somebody tries or names as a minimum has members in all batches before it
(`FilledOK`): the high water mark, which threads raise with values that are outdated, is
at the first empty batch or below it, never above.

**Ordered.**  `OrderInv` relates queues to batches.  A thread's index only grows, the search for
a batch starts at it or above, and at the end of a level it is raised once more: so children on
the next level come strictly after their parents (`ParentsFirst`).  What is left in a
queue entry comes after all siblings that were taken from it (`LaterFirst`), and a group is
closed under overlap, since the interval it covers together contains each of theirs
(`GroupFacts`, `OverlapTogether`).  A finished version is appended to the hierarchy in reverse,
after the batches of all versions before it (`AssignedOK`); across versions the order follows
from the history.

### What is only model-checked

* Termination and all other liveness: fairness is out of the prover's reach.
* What the uncontraction of the batches restores (`HypergraphRestored`,
  `GainCacheRestored`, `InputRestored`): not proved yet (section 7).

## 5. Properties that need an explanation

* `OvershootBounded`: the weight of a cluster is checked and raised in two accesses;
  a cluster exceeds the limit by what the other threads can bring at once, not more.
* `PassOvershootBounded`: every other thread may use up a share of the distance to the
  limit that it computed when nothing was contracted yet; beyond that there is one
  iteration per thread and one for each estimate that is stored too late.  A bound
  without the late stores, which looks plausible, is false.
* `JoinTargetIsRepresentative`: assertion of `joinCluster`, checked between all its
  accesses and not only at its entry.
* `CacheTracked`: benefit and penalty terms are exact up to the updates that movers
  still owe, except for penalties of nodes that moved in the round.  A node that
  moved and went back is in its old block but has a wrong penalty term until the
  end of the round, because updates of other movers saw it in the other block.
* `TrackedUnlessListedTwice`: after the refinement pin counts and gain cache are
  exact (`GainCacheExact`), unless a node was listed twice (section 6).
* `BalanceKept`: an initial block above its limit does not grow; all others stay
  within their limits, although the sum of announced weights does not.
* `Km1Spec` as a property of `label_propagation`: the refiner respects what
  `changeNodePart` and the gain cache require from their users.
* `RollbackRestoresBest`: `_old_part` is only written for nodes with a moved
  flag, so the blocks it leads back to are right only if the flags cover all nodes
  that changed since the last accepted round.
* `MovesExplainPartition`: precondition of the rollback, which takes the first and
  last move of a block in a net for the whole story.  It has to survive merged
  rebalancing moves and ids that start again.
* `FinishedRoundsAreOver`, `LeftOverBounded`: the counters of the scheduler are
  wrong for moments, so the first says that no such moment closes a round, and the
  second what a wrong sum costs: a search may leave, but fewer pairs than searches
  are left over, unless an early termination was decided on (also if that decision was
  revoked, section 6).
* `BatchOrder`: a representative is active strictly before a contraction onto it is
  reverted; of siblings the later one is not reverted after the earlier one, and
  those that overlapped in time share a batch.

Definitions that no run names: the type invariants, `MatchedIsFinal`, `NoShortCycle` and
`NoBlockOverflow`, which theorems are about, and the statements at the end of section 6.

## 6. Findings

Runs that expect a violation document where the code does something else than a
comment or an assertion says:

1. `clustering_comment`: an overtaken thread breaks the invariant of the comment
   of `matchVertices`.
2. `nlevel_cycle`: two registrations whose locks are disjoint close a cycle of
   four nodes in the contraction tree.
3. `label_propagation_twice`: a node whose move was reverted, and which the
   rebalancer moves afterwards, is listed twice; in the rollback two threads move
   it at once, and pin counts and block weights are wrong from then on.

The same models refute eleven more statements.  They are kept as definitions, so
that TLC can be asked for the counterexample, but have no run of their own:

* `VerifyClusterWeights` (`ConcurrentClustering`): "Verify that cluster weights are aggregated
  correct" (`concurrent_clustering_data.cpp:207`, asserted after every pass at `clustering_context.h:148`).
  The thread that resolves a cyclic dependency joins its partner (line 166), and joins it again
  (line 178), because its own node is still in progress; if the limit admits the second join its weight
  is counted twice (line 239), and `verifyClustering` fails although no thread was overtaken.  In
  the instance of `clustering` node 0 does this.  `WeightAccounted` says what the weights
  count instead: `verifyClustering` succeeds iff nobody joined twice.
* `FinalNumNodesExact` (`ConcurrentClustering`): if the second join of a resolver is refused the
  contraction is not counted, and the tracker reports too many nodes.
* `UnregisteredIsRegistered` (`NLevelContraction`): a contraction that was refused
  and taken back by one thread is performed by another one (`dynamic_hypergraph.cpp:556`),
  and both assertions of `unregisterContraction` (`contraction_tree.h:470`) fail.
  It takes a block weight that is too high for a moment, which theorem
  `OnlyOverflowRevives` shows to be the only way; without fixed vertices it holds.
  An instance: five nodes, one block with limit 4, nodes 1 and 4 fixed to it, node 3
  of weight 2.
* `NoFixedOntoFree` (`NLevelContraction`): the n-level coarsener contracts fixed
  nodes onto free ones, which the comment of the acceptance policy excludes.
* `NotWorsened` (`LabelPropagation`): the objective can get worse, because a revert
  is decided on an attributed gain that other moves have made obsolete; a comment
  of `labelPropagationRound` concedes what the assertion of `refineImpl` excludes.
* `FixedNodesStay` (`LabelPropagation`): filling an empty block never looks at
  fixed vertices, while an assertion of `changeNodePart` excludes moving one.
* `FlushCollectsNets` (`MultiTryFM`): a comment (`localized_kway_fm_core.cpp:166`)
  says that nets with gain changes are collected when an improvement is applied; the
  delta function passed there (line 198) is empty, so a search does not expand
  along the move that it applied directly.
* `CutNetsKnown` (`FlowRefinement`): new cut nets are entered for the blocks that
  the net connects after the lock was released (`flow_refinement_scheduler.cpp:550`); while
  another search has moves applied that it takes back later, a cut net is missed
  that the comment in `addNewCutHyperedge` (`quotient_graph.cpp:72`) says is added.
* `TerminationIsFinal` (`ActiveBlockScheduler`): "If true, then search is immediatly
  terminated" (`active_block_scheduler.h:154`).  A search that lost its pair closes a later
  round and decides again (`_terminate` is assigned, not only set); if it decides to go on,
  the searches that have left meanwhile do not come back, and their pairs are left over.
* `FixedWeightsRestored` (`NLevelUncoarsening`): `fixedVertexBlockWeight` returns
  "the weight of all fixed vertices assigned to the corresponding block"
  (`fixed_vertex_support.h:105`), but between batches it may be more.  A contraction
  opens its time interval after it released its locks, so another one onto the same
  node that made fixed vertices later can have the earlier interval and is
  reverted later.  In the end all weights are right (`InputRestored`).
* `PositionsBelowLimit` (`BatchHierarchy`): the comment of `BatchIndexAssigner`
  (`contraction_tree.h:59`) bounds positions by the batch size, but a group of
  contractions that overlapped in time stays together and may exceed it.

## 7. Plan

Clustering, tracker, n-level contraction and uncoarsening, the partitioned
hypergraph with its gain cache, label propagation, FM and flows are modelled.
What is left, in this order:

1. Proofs: hypergraph and gain cache after each batch (`HypergraphRestored`,
   `GainCacheRestored`), from the order of the batches, which is proved.
2. *Rebalancer*: node states, guarded priority queues, `findMoves`, shown to
   implement the steps `ApplyRebalancing` of `LabelPropagation` and `Rebalance` of
   `MultiTryFM`.
3. *Two-hop clustering* on top of `ConcurrentClustering`; *deterministic
   coarsening and refinement*, whose results must not depend on the schedule.
4. *Deep multilevel, recursive bipartitioning, initial partitioning*: ranges of
   blocks and numbers of threads of recursive calls, commits of the best
   partition; *work stack*.

## 8. Not modelled

* Preprocessing (community detection): floating point modularity gains.
* Process mapping, Steiner tree objective: sequential heuristics and a distance
  table; the values matter, not the interleavings.
* The flow network and the maximum flow solver, which is a submodule; what they may
  return is a choice in `FlowRefinement`.
* The delta gain cache of FM, the gain caches of the other objectives, and the
  variants of the data structures for plain graphs.
* Contraction of static hypergraphs: a data-parallel rewrite; its result is a
  function of `cluster_ids`.
* Memory pool, I/O, configuration, C and Python interfaces.
* Weak memory: relaxed loads are modelled as loads of the last stored value.
