------------------------ MODULE ContractionHistory --------------------------
(***************************************************************************)
(* What n-level coarsening leaves behind for the uncoarsening              *)
(* (dynamic_hypergraph.cpp, incident_net_array.cpp): threads contract      *)
(* nodes on a hypergraph whose hyperedges keep the pins they lose, each    *)
(* contraction with the time interval it took, and every pass ends with    *)
(* the removal of single-pin and parallel nets.                            *)
(*                                                                         *)
(* How contractions are registered is the subject of NLevelContraction;    *)
(* here the contraction tree is an input, free of contractions that fixed  *)
(* vertices forbid, and a contraction runs as soon as nothing is pending   *)
(* below it.  The pins of a hyperedge are the valid     *)
(* part of its incidence array and the pins it lost are the invalid part.  *)
(***************************************************************************)
EXTENDS FixedVertexSupport, Sequences, FiniteSets, FiniteSetsExt, SequencesExt

CONSTANTS
  Edges,        \* hyperedges, numbers
  Pins,         \* pins of each hyperedge of the input
  EdgeWeight,   \* weight of each hyperedge of the input
  NodeWeight,   \* weight of each node of the input
  Inputs,       \* contraction trees (parent of each node, itself for a root) and fixed blocks
  MaxPasses,    \* number of coarsening passes
  NumThreads    \* contractions that run at the same time

ASSUME HistoryAssumption ==
  /\ Nodes \subseteq Nat \ {0} /\ IsFiniteSet(Nodes)
  /\ Edges \subseteq Nat /\ IsFiniteSet(Edges)
  /\ Pins \in [Edges -> SUBSET Nodes] /\ EdgeWeight \in [Edges -> Nat \ {0}]
  /\ NodeWeight \in [Nodes -> Nat \ {0}]
  /\ Inputs \subseteq [parent : [Nodes -> Nodes], block : [Nodes -> Blocks \union {NoBlock}]]
  /\ MaxPasses \in Nat \ {0} /\ NumThreads \in Nat \ {0}

VARIABLES
  phase,       \* coarsen, assign, partition, uncontract, restore_nets, restore_counts or done
  parent,      \* contraction tree
  interval,    \* contraction tree: time interval of each contraction
  version_of,  \* contraction tree: version each node was contracted in
  version,     \* _version
  index,       \* _contraction_index
  enabled,     \* enabled hypernodes
  weight,      \* weight of each hypernode
  pins,        \* valid part of the incidence array
  invalid,     \* invalid part of the incidence array
  nets,        \* _incident_nets: active entries of each node
  shared,      \* _incident_nets: entries taken out when the node was contracted
  net_weight,  \* weight of each hyperedge
  initial_block, \* fixed vertex blocks of the input
  removed,     \* removed_hyperedges_batches: what each pass removed
  cpc,         \* per node: progress of its contraction
  todo         \* per node: hyperedges still to be contracted

history == <<parent, initial_block, interval, version_of, index, cpc, todo>>
graph   == <<enabled, weight, pins, invalid, nets, shared, net_weight, version, removed,
             fixedVars>>

NoEdge == -1
Unversioned == -1

InitialBlockWeights ==
  [b \in Blocks |-> MapThenSumSet(LAMBDA u : NodeWeight[u], {u \in Nodes : initial_block[u] = b})]

HistoryInit ==
  /\ phase = "coarsen"
  /\ \E in \in Inputs : parent = in.parent /\ initial_block = in.block
  /\ FixedInit(initial_block, NodeWeight, InitialBlockWeights)
  /\ interval = [u \in Nodes |-> [start |-> 0, end |-> 0]]
  /\ version_of = [u \in Nodes |-> Unversioned]
  /\ version = 0
  /\ index = 0
  /\ enabled = Nodes
  /\ weight = NodeWeight
  /\ pins = Pins
  /\ invalid = [e \in Edges |-> {}]
  /\ nets = [u \in Nodes |-> {e \in Edges : u \in Pins[e]}]
  /\ shared = [u \in Nodes |-> {}]
  /\ net_weight = EdgeWeight
  /\ removed = <<>>
  /\ cpc = [u \in Nodes |-> "idle"]
  /\ todo = [u \in Nodes |-> {}]

Children(u) == {v \in Nodes \ {u} : parent[v] = u}
Contracted == {u \in Nodes : cpc[u] = "done"}
Running == {u \in Nodes : cpc[u] \notin {"idle", "done"}}

RemovedEdges == UNION {DOMAIN removed[i] : i \in DOMAIN removed}
EnabledEdges == Edges \ RemovedEdges

-----------------------------------------------------------------------------
(* contract(u, v) *)

\* Both locks are held: fixed vertices, v is disabled and u takes its weight.
BeginContraction(v) ==
  LET u == parent[v] IN
  /\ phase = "coarsen" /\ cpc[v] = "idle"
  /\ u # v
  /\ Children(v) \subseteq Contracted
  /\ Cardinality(Running) < NumThreads
  /\ weight' = [weight EXCEPT ![u] = @ + weight[v]]
  /\ enabled' = enabled \ {v}
  /\ ContractFixed(u, v, weight)
  /\ version_of' = [version_of EXCEPT ![v] = version]
  /\ cpc' = [cpc EXCEPT ![v] = "start"]
  /\ UNCHANGED <<phase, parent, initial_block, interval, version, index, todo, pins, invalid, nets,
                 shared, net_weight, removed>>

\* The locks were released before the interval opens: other contractions onto u can begin
\* and end meanwhile.
OpenInterval(v) ==
  /\ cpc[v] = "start"
  /\ interval' = [interval EXCEPT ![v].start = index]
  /\ todo' = [todo EXCEPT ![v] = nets[v]]
  /\ cpc' = [cpc EXCEPT ![v] = "nets"]
  /\ UNCHANGED <<phase, parent, initial_block, version_of, index, graph>>

\* contractHyperedge, under the lock of the hyperedge.  Case 1: u is a pin, and v goes
\* to the invalid part.  Case 2: u takes the slot of v.
ContractHyperedge(v) ==
  LET u == parent[v] IN
  /\ cpc[v] = "nets"
  /\ \E e \in todo[v] :
       /\ todo' = [todo EXCEPT ![v] = @ \ {e}]
       /\ IF u \in pins[e]
          THEN /\ pins' = [pins EXCEPT ![e] = @ \ {v}]
               /\ invalid' = [invalid EXCEPT ![e] = @ \union {v}]
               /\ shared' = [shared EXCEPT ![v] = @ \union {e}]
          ELSE /\ pins' = [pins EXCEPT ![e] = (@ \ {v}) \union {u}]
               /\ UNCHANGED <<invalid, shared>>
  /\ UNCHANGED <<phase, parent, initial_block, interval, version_of, index, cpc,
                 enabled, weight, nets, net_weight, version, removed, fixedVars>>

\* IncidentNetArray::contract: the list of v loses the shared nets and is appended
\* to the list of u.
MergeIncidentNets(v) ==
  /\ cpc[v] = "nets" /\ todo[v] = {}
  /\ nets' = [nets EXCEPT ![v] = @ \ shared[v],
                          ![parent[v]] = @ \union (nets[v] \ shared[v])]
  /\ cpc' = [cpc EXCEPT ![v] = "index"]
  /\ UNCHANGED <<phase, parent, initial_block, interval, version_of, index, todo,
                 enabled, weight, pins, invalid, shared, net_weight, version, removed, fixedVars>>

\* The interval closes and the contraction is unregistered.
EndContraction(v) ==
  /\ cpc[v] = "index"
  /\ index' = index + 1
  /\ interval' = [interval EXCEPT ![v].end = index + 1]
  /\ cpc' = [cpc EXCEPT ![v] = "done"]
  /\ UNCHANGED <<phase, parent, initial_block, version_of, todo, graph>>

-----------------------------------------------------------------------------
(* removeSinglePinAndParallelHyperedges *)

SinglePin == {e \in EnabledEdges : Cardinality(pins[e]) = 1}

\* The enabled nets with the pins of e; the one with the smallest id represents them.
Identical(e) == {f \in EnabledEdges : pins[f] = pins[e]}

\* Each removed net with its representative.
Removable ==
  LET nets_to_remove == SinglePin \union {e \in EnabledEdges : e # Min(Identical(e))}
  IN  [e \in nets_to_remove |-> IF e \in SinglePin THEN NoEdge ELSE Min(Identical(e))]

AggregatedWeight(e) ==
  IF e \in EnabledEdges \ DOMAIN Removable
  THEN MapThenSumSet(LAMBDA f : net_weight[f], Identical(e))
  ELSE net_weight[e]

\* A pass ends: the nets are removed and a new version of the hypergraph begins.
EndPass ==
  /\ phase = "coarsen" /\ Running = {}
  /\ version + 1 < MaxPasses \/ Nodes \ Contracted = {u \in Nodes : parent[u] = u}
  /\ removed' = Append(removed, Removable)
  /\ net_weight' = [e \in Edges |-> AggregatedWeight(e)]
  /\ nets' = [u \in Nodes |-> IF u \in enabled THEN nets[u] \ DOMAIN Removable ELSE nets[u]]
  /\ version' = version + 1
  /\ phase' = IF version + 1 = MaxPasses THEN "assign" ELSE "coarsen"
  /\ UNCHANGED <<history, enabled, weight, pins, invalid, shared, fixedVars>>

Coarsen ==
  \/ EndPass
  \/ \E v \in Nodes : \/ BeginContraction(v) \/ OpenInterval(v) \/ ContractHyperedge(v)
                      \/ MergeIncidentNets(v) \/ EndContraction(v)
=============================================================================
