------------------------ MODULE NLevelUncoarsening --------------------------
(***************************************************************************)
(* The n-level uncoarsener (nlevel_uncoarsener.cpp): batch by batch the    *)
(* contractions of a version are reverted by parallel tasks                *)
(* (DynamicHypergraph::uncontract), which keep the pin counts and the km1  *)
(* gain cache up to date, then the single-pin and parallel nets of the     *)
(* pass are restored.  Between batches the refiners may move nodes.        *)
(*                                                                         *)
(* A task is named after its contraction partner.  What it does under the  *)
(* lock of a hyperedge or a node is one step, except that the weight of a  *)
(* representative is loaded and stored in two.                             *)
(***************************************************************************)
EXTENDS BatchHierarchy

CONSTANT
  MaxMoves     \* moves of the refiners, at most

ASSUME UncoarseningAssumption == IsFiniteSet(Blocks) /\ MaxMoves \in Nat

VARIABLES
  part,        \* _part_ids
  pin_count,   \* pin count of each block in each hyperedge
  penalty, benefit,   \* the gain cache
  quality,     \* _current_metrics.quality
  batch,       \* contraction partners of the batch that is reverted
  upc,         \* per task: next step
  entries,     \* per task: entries of the list of v that restoreIncidentNets has not seen
  restoring,   \* per task: the hyperedge whose size it restores
  flags,       \* _hes_to_resize_flag_array
  to_restore,  \* removed nets that the current loop over them has not reached
  held,        \* nets whose thread is between load and store of the representative's weight
  new_weight,  \* per net: the weight that its thread will store
  moves        \* moves of the refiners so far

gains == <<penalty, benefit>>
tasks == <<batch, upc, entries, restoring, flags>>
restoreVars == <<to_restore, held, new_weight>>
partVars == <<part, pin_count, gains, quality>>
vars == <<phase, history, graph, assignVars, partVars, tasks, restoreVars, moves>>

Unset == -1

-----------------------------------------------------------------------------
(* Reference definitions *)

PinCount(e, b) == Cardinality({u \in pins[e] : part[u] = b})
Total(weights, S) == MapThenSumSet(LAMBDA e : weights[e], S)
Connectivity(count, e) == {b \in Blocks : count[e][b] > 0}
NetsOf(u) == {e \in EnabledEdges : u \in pins[e]}

Penalty(u) == Total(net_weight, {e \in NetsOf(u) : PinCount(e, part[u]) > 1})
Benefit(u, b) == Total(net_weight, {e \in NetsOf(u) : PinCount(e, b) > 0})
Km1 == MapThenSumSet(
         LAMBDA e : net_weight[e] * (Cardinality({b \in Blocks : PinCount(e, b) > 0}) - 1),
         EnabledEdges)

PartitionInit ==
  /\ part = [u \in Nodes |-> Unset]
  /\ pin_count = [e \in Edges |-> [b \in Blocks |-> 0]]
  /\ penalty = [u \in Nodes |-> 0]
  /\ benefit = [u \in Nodes |-> [b \in Blocks |-> 0]]
  /\ quality = 0
  /\ batch = {}
  /\ upc = [v \in Nodes |-> "idle"]
  /\ entries = [v \in Nodes |-> {}]
  /\ restoring = [v \in Nodes |-> NoEdge]
  /\ flags = {}
  /\ to_restore = {} /\ held = {}
  /\ new_weight = [e \in Edges |-> 0]
  /\ moves = 0

Init == HistoryInit /\ AssignInit /\ PartitionInit

\* What the tracked values become when the partition of the active nodes changes
\* while no batch is reverted (initializePartition, initializeGainCache, changeNodePart).
Tracked ==
  /\ pin_count' = [e \in Edges |-> [b \in Blocks |-> IF e \in EnabledEdges
                     THEN PinCount(e, b)' ELSE pin_count[e][b]]]
  /\ penalty' = [u \in Nodes |-> IF u \in enabled THEN Penalty(u)' ELSE penalty[u]]
  /\ benefit' = [u \in Nodes |-> [b \in Blocks |->
                   IF u \in enabled THEN Benefit(u, b)' ELSE benefit[u][b]]]
  /\ quality' = Km1'

-----------------------------------------------------------------------------
(* Faulty variants of the definitions below. *)

\* The flags of the previous batch are kept.
ResetFlagsForgotten == flags

\* The representative of v gets the weight, although another node may have its slot.
SecondPinIsRepresentative(e, v, b) == {parent[v]}

\* The weight of the representative is changed without its lock.
NotAcquiredUnlocked(rep) == TRUE

-----------------------------------------------------------------------------
(* Between batches *)

Idle == phase = "uncontract" /\ batch = {}

\* The partition of the coarsest hypergraph is projected to its nodes; initial
\* partitioning puts fixed nodes into their blocks.
InitializePartition ==
  /\ phase = "partition"
  /\ \E p \in [enabled -> Blocks] :
       /\ \A u \in enabled : IsFixed(u) => p[u] = fixed_block[u]
       /\ part' = [u \in Nodes |-> IF u \in enabled THEN p[u] ELSE Unset]
  /\ phase' = "uncontract"
  /\ UNCHANGED <<history, graph, assignVars, tasks, restoreVars, moves>>
  /\ Tracked

\* A refiner moves a node that is not fixed; its effect on the tracked values is the subject of
\* PartitionedHypergraph and Km1GainCache.
Refine ==
  /\ Idle /\ moves < MaxMoves
  /\ \E u \in enabled, b \in Blocks : ~IsFixed(u) /\ b # part[u] /\ part' = [part EXCEPT ![u] = b]
  /\ moves' = moves + 1
  /\ UNCHANGED <<phase, history, graph, assignVars, tasks, restoreVars>>
  /\ Tracked

FlagsReset == {}

\* The next batch: block ids of the contraction partners, flags, tasks.
StartBatchUncontraction ==
  LET batches == Last(hierarchy) IN
  /\ Idle /\ hierarchy # <<>> /\ batches # <<>>
  /\ batch' = Last(batches)
  /\ hierarchy' = [hierarchy EXCEPT ![Len(hierarchy)] = Front(batches)]
  /\ part' = [v \in Nodes |-> IF v \in batch' THEN part[parent[v]] ELSE part[v]]
  /\ flags' = FlagsReset
  /\ upc' = [v \in Nodes |-> IF v \in batch' THEN "splice" ELSE upc[v]]
  /\ UNCHANGED <<phase, history, graph, current, traversal, assigner, slot, batch_of,
                 pin_count, gains, quality, entries, restoring, restoreVars, moves>>

-----------------------------------------------------------------------------
(* DynamicHypergraph::uncontract, the task of contraction (parent[v], v) *)

\* The list of v is cut out of the list of u, under the lock of u.
Splice(v) ==
  /\ upc[v] = "splice"
  /\ nets' = [nets EXCEPT ![parent[v]] = @ \ nets[v]]
  /\ entries' = [entries EXCEPT ![v] = nets[v] \union shared[v]]
  /\ upc' = [upc EXCEPT ![v] = "nets"]
  /\ UNCHANGED <<enabled, weight, pins, invalid, shared, net_weight, version, removed,
                 partVars, batch, restoring, flags>>

\* uncontractUpdateAfterReplacement
AfterReplacement(u, v, e) ==
  LET w    == net_weight[e]
      only == pin_count[e][part[u]] = 1
      con  == Connectivity(pin_count, e)
  IN
  /\ penalty' = IF only THEN penalty
                ELSE [penalty EXCEPT ![u] = @ - w, ![v] = @ + w]
  /\ benefit' = [benefit EXCEPT
                   ![u] = [b \in Blocks |-> @[b] - IF b \in con THEN w ELSE 0],
                   ![v] = [b \in Blocks |-> @[b] + IF b \in con THEN w ELSE 0]]

\* Case 2: u takes part in e only since the contraction, and v gets its slot back.
ReplacePin(v) ==
  LET u == parent[v] IN
  /\ upc[v] = "nets"
  /\ \E e \in entries[v] \ shared[v] :
       /\ pins' = [pins EXCEPT ![e] = (@ \ {u}) \union {v}]
       /\ AfterReplacement(u, v, e)
       /\ entries' = [entries EXCEPT ![v] = @ \ {e}]
  /\ UNCHANGED <<enabled, weight, invalid, nets, shared, net_weight, version, removed,
                 part, pin_count, quality, batch, upc, restoring, flags>>

\* Case 1: e was shared.  The entry is active again, and the first task of the batch
\* that gets here restores the pins that all tasks of the batch bring back.
RestoreEntry(v) ==
  /\ upc[v] = "nets"
  /\ \E e \in entries[v] \intersect shared[v] :
       /\ nets' = [nets EXCEPT ![v] = @ \union {e}]
       /\ shared' = [shared EXCEPT ![v] = @ \ {e}]
       /\ entries' = [entries EXCEPT ![v] = @ \ {e}]
       /\ flags' = flags \union {e}
       /\ IF e \in flags
          THEN UNCHANGED <<restoring, upc>>
          ELSE /\ restoring' = [restoring EXCEPT ![v] = e]
               /\ upc' = [upc EXCEPT ![v] = "restore"]
  /\ UNCHANGED <<enabled, weight, pins, invalid, net_weight, version, removed, partVars, batch>>

\* The other pin of e in block b, when v is the second one there.
SecondPin(e, v, b) == {u \in pins[e] \ {v} : part[u] = b}

\* uncontractUpdateAfterRestore
AfterRestore(v, e, count) ==
  LET w   == net_weight[e]
      b   == part[parent[v]]
      con == Connectivity([pin_count EXCEPT ![e][b] = count], e)
      credited == IF count = 2 THEN SecondPin(e, v, b) \union {v} ELSE {v}
  IN
  /\ penalty' = [u \in Nodes |-> penalty[u] + IF u \in credited THEN w ELSE 0]
  /\ benefit' = [benefit EXCEPT ![v] = [c \in Blocks |-> @[c] + IF c \in con THEN w ELSE 0]]

\* The pins of the invalid part that come first, sorted by decreasing batch index.
FirstInvalid(e) ==
  {u \in invalid[e] : \A z \in invalid[e] : batch_of[z] <= batch_of[u]}

\* restoreHyperedgeSizeForBatch, one pin per step.
RestorePin(v) ==
  LET e == restoring[v] IN
  /\ upc[v] = "restore"
  /\ \/ /\ \A p \in FirstInvalid(e) : batch_of[p] # batch_of[v]
        /\ upc' = [upc EXCEPT ![v] = "nets"]
        /\ restoring' = [restoring EXCEPT ![v] = NoEdge]
        /\ UNCHANGED <<pins, invalid, pin_count, gains>>
     \/ \E p \in FirstInvalid(e) :
          LET b == part[parent[p]] IN
          /\ batch_of[p] = batch_of[v]
          /\ pins' = [pins EXCEPT ![e] = @ \union {p}]
          /\ invalid' = [invalid EXCEPT ![e] = @ \ {p}]
          /\ pin_count' = [pin_count EXCEPT ![e][b] = @ + 1]
          /\ AfterRestore(p, e, pin_count[e][b] + 1)
          /\ UNCHANGED <<upc, restoring>>
  /\ UNCHANGED <<enabled, weight, nets, shared, net_weight, version, removed, part, quality,
                 batch, entries, flags>>

\* v is enabled and u gives its weight back, under the lock of u; then the fixed vertex
\* support is told, whose values no other task of the batch reads except its counter.
EnableNode(v) ==
  /\ upc[v] = "nets" /\ entries[v] = {}
  /\ enabled' = enabled \union {v}
  /\ weight' = [weight EXCEPT ![parent[v]] = @ - weight[v]]
  /\ UncontractFixed(parent[v], v)
  /\ upc' = [upc EXCEPT ![v] = "idle"]
  /\ UNCHANGED <<pins, invalid, nets, shared, net_weight, version, removed, partVars,
                 batch, entries, restoring, flags>>

Task(v) ==
  /\ \/ (Splice(v) \/ ReplacePin(v) \/ RestoreEntry(v) \/ RestorePin(v)) /\ UNCHANGED fixedVars
     \/ EnableNode(v)
  /\ UNCHANGED <<phase, history, assignVars, restoreVars, moves>>

BatchCompleted ==
  /\ batch # {} /\ \A v \in batch : upc[v] = "idle"
  /\ batch' = {}
  /\ UNCHANGED <<phase, history, graph, assignVars, partVars, upc, entries, restoring, flags,
                 restoreVars, moves>>

-----------------------------------------------------------------------------
(* restoreSinglePinAndParallelNets *)

Back == Last(removed)
topology == <<enabled, weight, pins, invalid, shared, fixedVars>>

\* All batches of the version are reverted: the nets that were removed after it come
\* back, in a first parallel loop over them.
StartRestore ==
  /\ Idle /\ hierarchy # <<>> /\ Last(hierarchy) = <<>> /\ removed # <<>>
  /\ phase' = "restore_nets"
  /\ to_restore' = DOMAIN Back
  /\ UNCHANGED <<history, graph, assignVars, partVars, tasks, held, new_weight, moves>>

\* A single-pin net is only enabled.
RestoreSinglePinNet(e) ==
  /\ phase = "restore_nets" /\ e \in to_restore /\ Back[e] = NoEdge
  /\ to_restore' = to_restore \ {e}
  /\ UNCHANGED <<phase, history, graph, assignVars, partVars, tasks, held, new_weight, moves>>

\* acquireHyperedge(rep) waits for the other nets of the representative.
NotAcquired(rep) == \A f \in held : Back[f] # rep

\* The representative keeps the weight of the net (faulty).
WeightKept(e) == net_weight[Back[e]]

WeightWithout(e) == net_weight[Back[e]] - net_weight[e]

\* A parallel net takes its weight from its representative, under the lock of that one.
LoadWeight(e) ==
  /\ phase = "restore_nets" /\ e \in to_restore /\ Back[e] # NoEdge
  /\ NotAcquired(Back[e])
  /\ to_restore' = to_restore \ {e}
  /\ held' = held \union {e}
  /\ new_weight' = [new_weight EXCEPT ![e] = WeightWithout(e)]
  /\ UNCHANGED <<phase, history, graph, assignVars, partVars, tasks, moves>>

StoreWeight(e) ==
  /\ phase = "restore_nets" /\ e \in held
  /\ net_weight' = [net_weight EXCEPT ![Back[e]] = new_weight[e]]
  /\ held' = held \ {e}
  /\ new_weight' = [new_weight EXCEPT ![e] = 0]
  /\ UNCHANGED <<phase, history, topology, nets, version, removed, assignVars, partVars, tasks,
                 to_restore, moves>>

\* After the first loop the nodes get the nets into their lists, each node its own, and
\* the second loop begins.
RestoreIncidentNets ==
  /\ phase = "restore_nets" /\ to_restore = {} /\ held = {}
  /\ nets' = [u \in Nodes |-> IF u \in enabled
                THEN nets[u] \union {e \in DOMAIN Back : u \in pins[e]} ELSE nets[u]]
  /\ version' = version - 1
  /\ phase' = "restore_counts"
  /\ to_restore' = DOMAIN Back
  /\ UNCHANGED <<history, topology, net_weight, removed, assignVars, partVars, tasks, held,
                 new_weight, moves>>

\* The pin of a single-pin net is counted, and its node benefits from its own block.
CountSinglePin(e) ==
  \E u \in pins[e] :
    /\ pin_count' = [pin_count EXCEPT ![e][part[u]] = 1]
    /\ benefit' = [benefit EXCEPT ![u][part[u]] = @ + net_weight[e]]

\* A parallel net has the pin counts of its representative; its weight is part of the
\* gain cache already.
CopyPinCounts(e) ==
  /\ pin_count' = [pin_count EXCEPT ![e] = [b \in Blocks |->
       IF pin_count[Back[e]][b] > 0 THEN pin_count[Back[e]][b] ELSE @[b]]]
  /\ UNCHANGED benefit

RestorePinCounts(e) ==
  /\ phase = "restore_counts" /\ e \in to_restore
  /\ to_restore' = to_restore \ {e}
  /\ IF Cardinality(pins[e]) = 1 THEN CountSinglePin(e) ELSE CopyPinCounts(e)
  /\ UNCHANGED <<phase, history, graph, assignVars, part, penalty, quality, tasks, held,
                 new_weight, moves>>

RestoreCompleted ==
  /\ phase = "restore_counts" /\ to_restore = {}
  /\ phase' = "uncontract"
  /\ removed' = Front(removed)
  /\ hierarchy' = Front(hierarchy)
  /\ UNCHANGED <<history, topology, nets, net_weight, version, current, traversal, assigner, slot,
                 batch_of, partVars, tasks, restoreVars, moves>>

RestoreNets ==
  \/ StartRestore \/ RestoreIncidentNets \/ RestoreCompleted
  \/ \E e \in Edges : \/ RestoreSinglePinNet(e) \/ LoadWeight(e) \/ StoreWeight(e)
                       \/ RestorePinCounts(e)

\* The batches of the first version are reverted: the input hypergraph is reached.
TopLevel ==
  /\ Idle /\ Len(hierarchy) = 1 /\ Last(hierarchy) = <<>>
  /\ phase' = "done"
  /\ hierarchy' = <<>>
  /\ UNCHANGED <<history, graph, current, traversal, assigner, slot, batch_of, partVars,
                 tasks, restoreVars, moves>>

Done == phase = "done" /\ UNCHANGED vars

-----------------------------------------------------------------------------
Next ==
  \/ Coarsen /\ UNCHANGED <<assignVars, partVars, tasks, restoreVars, moves>>
  \/ Assign /\ UNCHANGED <<history, graph, partVars, tasks, restoreVars, moves>>
  \/ InitializePartition \/ Refine \/ StartBatchUncontraction
  \/ \E v \in Nodes : Task(v)
  \/ BatchCompleted \/ RestoreNets \/ TopLevel \/ Done

Spec == Init /\ [][Next]_vars /\ WF_vars(Next)

-----------------------------------------------------------------------------
(* Properties *)

\* The active node that stands for u.
Active(u) ==
  CHOOSE r \in enabled : \A S \in SUBSET Nodes :
    u \in S /\ (\A z \in S \ enabled : parent[z] \in S) => r \in S

\* verifyIncidenceArrayAndIncidentNets, and more: after every batch and every restore,
\* each hyperedge has the active nodes that stand for its pins, the lists of incident
\* nets agree, each active node weighs what it stands for, and it is fixed exactly if
\* it stands for a fixed vertex, whose block it is in: the refiners rely on it.
HypergraphRestored ==
  Idle => LET rep == [u \in Nodes |-> Active(u)] IN
    /\ \A e \in EnabledEdges : pins[e] = {rep[u] : u \in Pins[e]}
    /\ \A u \in enabled : nets[u] = NetsOf(u)
    /\ \A u \in enabled : weight[u] = Total(NodeWeight, {v \in Nodes : rep[v] = u})
    /\ \A u \in enabled : IsFixed(u) => \E v \in Nodes : rep[v] = u /\ initial_block[v] # NoBlock
    /\ \A v \in Nodes : initial_block[v] # NoBlock =>
         fixed_block[rep[v]] = initial_block[v] /\ part[rep[v]] = initial_block[v]

\* checkTrackedPartitionInformation and the assertions on the quality: after every
\* batch and every restore, pin counts and gain cache are those of the partition and
\* its quality is the one before, although tasks update one hyperedge in any order.
GainCacheRestored ==
  Idle =>
    /\ \A e \in EnabledEdges, b \in Blocks : pin_count[e][b] = PinCount(e, b)
    /\ \A u \in enabled : /\ penalty[u] = Penalty(u)
                          /\ \A b \in Blocks : benefit[u][b] = Benefit(u, b)
    /\ Km1 = quality

\* The uncoarsening comes to an end, with the input hypergraph restored and its fixed
\* vertices too, although their contractions are not reverted in the reverse order.
InputRestored ==
  <>(/\ phase = "done" /\ enabled = Nodes /\ EnabledEdges = Edges
     /\ pins = Pins /\ net_weight = EdgeWeight /\ weight = NodeWeight
     /\ fixed_block = initial_block /\ block_weight = InitialBlockWeights)

\* "the weight of all fixed vertices assigned to the corresponding block", comment of
\* fixedVertexBlockWeight.  Between batches it can be too large (README, section 6).
FixedWeightsRestored ==
  Idle => \A b \in Blocks :
    block_weight[b] = Total(weight, {u \in enabled : fixed_block[u] = b})
=============================================================================
