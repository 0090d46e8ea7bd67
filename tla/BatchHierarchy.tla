-------------------------- MODULE BatchHierarchy ----------------------------
(***************************************************************************)
(* createBatchUncontractionHierarchy (dynamic_hypergraph.cpp,              *)
(* contraction_tree.cpp): threads traverse the contraction tree of one     *)
(* version level by level and ask the shared BatchIndexAssigner            *)
(* (contraction_tree.h) for a batch and a position in it for every group   *)
(* of contractions that has to be reverted together.                       *)
(*                                                                         *)
(* Every access to a shared counter is a step of its own.                  *)
(***************************************************************************)
EXTENDS ContractionHistory

CONSTANTS
  Threads,       \* hardware threads
  MaxBatchSize   \* context.refinement.max_batch_size

ASSUME HierarchyAssumption == IsFiniteSet(Threads) /\ Threads # {} /\ MaxBatchSize \in Nat \ {0}

VARIABLES
  current,        \* the version whose hierarchy is computed
  apc,            \* per thread: next step
  pq,             \* local_pqs: children that are left, of each node of the BFS level
  next_pq,        \* the same for the next level
  group,          \* contraction partners of the group that is assigned
  batch_index,    \* local_batch_indices
  found,          \* per thread: the batch tried by findBatchAssignment
  raise,          \* per thread: value for increaseHighWaterMark, or Lowest
  slot,           \* batch_assignments: batch and position of each contraction
  high_water_mark, counter, sizes,   \* BatchIndexAssigner
  hierarchy,      \* per version: the batches, in the order of the vector
  batch_of        \* batchIndex of each hypernode

traversal == <<apc, pq, next_pq, group, batch_index, found, raise>>
assigner  == <<high_water_mark, counter, sizes>>
assignVars == <<current, traversal, assigner, slot, hierarchy, batch_of>>

Lowest == -1
Unassigned == [batch |-> Lowest, pos |-> Lowest]
Batches == 0 .. Cardinality(Nodes)

AssignInit ==
  /\ current = 0
  /\ apc = [t \in Threads |-> "idle"]
  /\ pq = [t \in Threads |-> {}]
  /\ next_pq = [t \in Threads |-> {}]
  /\ group = [t \in Threads |-> {}]
  /\ batch_index = [t \in Threads |-> 0]
  /\ found = [t \in Threads |-> 0]
  /\ raise = [t \in Threads |-> Lowest]
  /\ slot = [v \in Nodes |-> Unassigned]
  /\ high_water_mark = 0
  /\ counter = [b \in Batches |-> 0]
  /\ sizes = [b \in Batches |-> 0]
  /\ hierarchy = <<>>
  /\ batch_of = [v \in Nodes |-> Lowest]

-----------------------------------------------------------------------------
(* ContractionTree::finalize *)

Descendants(u) ==
  {v \in Nodes \ {u} : \A S \in SUBSET Nodes :
     v \in S /\ (\A z \in S : parent[z] \in S) => u \in S}

SubtreeSize(u) == Cardinality(Descendants(u))

\* Later contractions first.
SortedBefore(v, w) ==
  \/ interval[v].end > interval[w].end
  \/ interval[v].end = interval[w].end /\ interval[v].start > interval[w].start

\* The contractions onto u in a version; no two of them end at the same time, so this
\* order is the one of the child iterator.
ChildsOfVersion(u, k) == {v \in Children(u) : version_of[v] = k}
Before(childs, v) == {w \in childs : SortedBefore(w, v)}
First(childs) == CHOOSE v \in childs : Before(childs, v) = {}

\* A node that was never contracted has the largest version number.
RootsOfVersion(k) ==
  {u \in Nodes : /\ ChildsOfVersion(u, k) # {}
                 /\ version_of[u] = Unversioned \/ k < version_of[u]}

-----------------------------------------------------------------------------
(* Faulty variants of the definitions below. *)

\* The search always starts at the high water mark.
StartBatchIgnoresMinimum(t) == high_water_mark

\* The batches above the high water mark are not counted.
NumBatchesToMark == high_water_mark

-----------------------------------------------------------------------------
(* createBatchUncontractionHierarchyForVersion *)

DoesIntervalIntersect(i, j) ==
  \/ i.start <= j.end /\ i.end >= j.end
  \/ j.start <= i.end /\ j.end >= i.end

\* The interval that some children cover together.
Covered(childs) ==
  [start |-> Min({interval[v].start : v \in childs}),
   end   |-> Max({interval[v].end : v \in childs})]

\* The first child and those after it, as long as the next one intersects.
Group(childs) ==
  {v \in childs :
     \A w \in Before(childs, v) \union {v} : Before(childs, w) # {} =>
       DoesIntervalIntersect(Covered(Before(childs, w)), interval[w])}

\* The batch at which getBatchIndex starts to search.
StartBatch(t) ==
  IF batch_index[t] <= high_water_mark THEN high_water_mark ELSE batch_index[t]

\* The roots are distributed to the threads.
StartVersion ==
  /\ phase = "assign" /\ current <= version
  /\ \A t \in Threads : apc[t] = "idle"
  /\ \E thread \in [RootsOfVersion(current) -> Threads] :
       pq' = [t \in Threads |->
                {ChildsOfVersion(u, current) : u \in {r \in DOMAIN thread : thread[r] = t}}]
  /\ apc' = [t \in Threads |-> "pop"]
  /\ UNCHANGED <<current, next_pq, group, batch_index, found, raise, assigner, slot,
                 hierarchy, batch_of>>

\* The group with the largest subtree is taken from the queue; getBatchIndex decides
\* where to search and whether the high water mark is raised afterwards.
PopGroup(t) ==
  /\ apc[t] = "pop" /\ pq[t] # {}
  /\ \E childs \in pq[t] :
       LET taken == Group(childs)
           new   == {ChildsOfVersion(v, current) : v \in taken}
       IN
       /\ \A other \in pq[t] : SubtreeSize(First(other)) <= SubtreeSize(First(childs))
       /\ group' = [group EXCEPT ![t] = taken]
       /\ pq' = [pq EXCEPT ![t] = (@ \ {childs}) \union ({childs \ taken} \ {{}})]
       /\ next_pq' = [next_pq EXCEPT ![t] = @ \union (new \ {{}})]
  /\ found' = [found EXCEPT ![t] = StartBatch(t)]
  /\ raise' = [raise EXCEPT ![t] = IF batch_index[t] <= high_water_mark THEN 0 ELSE Lowest]
  /\ apc' = [apc EXCEPT ![t] = "add"]
  /\ UNCHANGED <<current, batch_index, assigner, slot, hierarchy, batch_of>>

\* findBatchAssignment: fetch_add until the position is smaller than the limit.
FetchAdd(t) ==
  LET b   == found[t]
      pos == counter[b]
  IN
  /\ apc[t] = "add"
  /\ counter' = [counter EXCEPT ![b] = @ + Cardinality(group[t])]
  /\ IF pos < MaxBatchSize
     THEN /\ slot' = [v \in Nodes |->
                        IF v \in group[t]
                        THEN [batch |-> b, pos |-> pos + Cardinality(Before(group[t], v))]
                        ELSE slot[v]]
          /\ apc' = [apc EXCEPT ![t] = "size"]
          /\ UNCHANGED found
     ELSE /\ found' = [found EXCEPT ![t] = b + 1]
          /\ UNCHANGED <<slot, apc>>
  /\ UNCHANGED <<current, pq, next_pq, group, batch_index, raise, high_water_mark, sizes,
                 hierarchy, batch_of>>

CountSize(t) ==
  /\ apc[t] = "size"
  /\ sizes' = [sizes EXCEPT ![found[t]] = @ + Cardinality(group[t])]
  /\ raise' = [raise EXCEPT ![t] = IF @ = Lowest THEN Lowest ELSE found[t]]
  /\ apc' = [apc EXCEPT ![t] = "raise"]
  /\ UNCHANGED <<current, pq, next_pq, group, batch_index, found, high_water_mark, counter,
                 slot, hierarchy, batch_of>>

\* increaseHighWaterMark, then the local batch index is set.
RaiseHighWaterMark(t) ==
  /\ apc[t] = "raise"
  /\ high_water_mark' = Max({high_water_mark, raise[t]})
  /\ batch_index' = [batch_index EXCEPT ![t] = found[t]]
  /\ apc' = [apc EXCEPT ![t] = IF pq[t] = {} THEN "swap" ELSE "pop"]
  /\ UNCHANGED <<current, pq, next_pq, group, found, raise, counter, sizes, slot,
                 hierarchy, batch_of>>

\* The level is finished; the next one goes to later batches.
SwapLevel(t) ==
  /\ apc[t] = "swap"
  /\ pq' = [pq EXCEPT ![t] = next_pq[t]]
  /\ next_pq' = [next_pq EXCEPT ![t] = {}]
  /\ batch_index' = [batch_index EXCEPT ![t] = @ + 1]
  /\ apc' = [apc EXCEPT ![t] = "scan"]
  /\ UNCHANGED <<current, group, found, raise, assigner, slot, hierarchy, batch_of>>

\* The smallest of the batch indices, which the other threads go on changing, ...
ScanBatchIndices(t) ==
  /\ apc[t] = "scan"
  /\ raise' = [raise EXCEPT ![t] = Min(Range(batch_index))]
  /\ apc' = [apc EXCEPT ![t] = "transmit"]
  /\ UNCHANGED <<current, pq, next_pq, group, batch_index, found, assigner, slot,
                 hierarchy, batch_of>>

\* ... is transmitted to the assigner.
TransmitMinimum(t) ==
  /\ apc[t] = "transmit"
  /\ high_water_mark' = Max({high_water_mark, raise[t]})
  /\ apc' = [apc EXCEPT ![t] = "pop"]
  /\ UNCHANGED <<current, pq, next_pq, group, batch_index, found, raise, counter, sizes, slot,
                 hierarchy, batch_of>>

VersionAssigned == \A t \in Threads : apc[t] = "pop" /\ pq[t] = {}

NumberOfNonEmptyBatches ==
  LET nonempty == {b \in Batches : sizes[b] > 0} IN
  IF high_water_mark \in nonempty
  THEN Min({b \in Batches : b > high_water_mark /\ b \notin nonempty})
  ELSE Max({b + 1 : b \in {c \in nonempty : c < high_water_mark}} \union {0})

\* The assignments of all threads are written to the batches, the batches are
\* reversed, and the assigner is reset for the next version.
FinishVersion ==
  LET num    == NumberOfNonEmptyBatches
      offset == FoldLeft(LAMBDA n, batches : n + Len(batches), 0, hierarchy)
      Members(b) == {v \in Nodes : version_of[v] = current /\ slot[v].batch = b}
  IN
  /\ phase = "assign" /\ VersionAssigned
  /\ hierarchy' = Append(hierarchy, [i \in 1 .. num |-> Members(num - i)])
  /\ batch_of' = [v \in Nodes |->
       IF \E b \in 0 .. num - 1 : v \in Members(b)
       THEN offset + num - 1 - slot[v].batch ELSE batch_of[v]]
  /\ high_water_mark' = 0
  /\ counter' = [b \in Batches |-> IF b < num THEN 0 ELSE counter[b]]
  /\ sizes' = [b \in Batches |-> IF b < num THEN 0 ELSE sizes[b]]
  /\ current' = current + 1
  /\ phase' = IF current = version THEN "partition" ELSE phase
  /\ apc' = [t \in Threads |-> "idle"]
  /\ group' = [t \in Threads |-> {}]
  /\ batch_index' = [t \in Threads |-> 0]
  /\ found' = [t \in Threads |-> 0]
  /\ raise' = [t \in Threads |-> Lowest]
  /\ slot' = [v \in Nodes |-> Unassigned]
  /\ UNCHANGED <<pq, next_pq>>

AssignThread(t) ==
  \/ PopGroup(t) \/ FetchAdd(t) \/ CountSize(t) \/ RaiseHighWaterMark(t)
  \/ SwapLevel(t) \/ ScanBatchIndices(t) \/ TransmitMinimum(t)

Assign ==
  \/ FinishVersion
  \/ (StartVersion \/ \E t \in Threads : AssignThread(t)) /\ UNCHANGED phase

-----------------------------------------------------------------------------
(* Properties *)

OfVersion(k) == {v \in Nodes : version_of[v] = k}

\* verifyBatchIndexAssignments, and more: when all threads have returned, every
\* contraction of the version has a slot, "each combination of (batch_index,
\* batch_position) is unique and consecutive" (BatchIndexAssigner), the sizes agree,
\* and no batch lies outside the vector, however the threads raced.
BatchesComplete ==
  phase = "assign" /\ VersionAssigned =>
    \A b \in Batches :
      LET members == {v \in OfVersion(current) : slot[v].batch = b} IN
      /\ \A v \in OfVersion(current) : slot[v] # Unassigned
      /\ {slot[v].pos : v \in members} = 0 .. Cardinality(members) - 1
      /\ sizes[b] = Cardinality(members)
      /\ members # {} <=> b < NumberOfNonEmptyBatches

\* Both conditions of createBatchUncontractionHierarchyForVersion: a representative is
\* active when a contraction onto it is reverted, so its own comes strictly earlier,
\* and of two contractions onto one node the later one is not reverted after the
\* earlier one; contractions that overlap in time share a batch.
BatchOrder ==
  phase = "partition" =>
    \A v, w \in Nodes : version_of[v] # Unversioned /\ version_of[w] # Unversioned =>
      /\ parent[v] = w => batch_of[v] < batch_of[w]
      /\ parent[v] = parent[w] /\ v # w =>
           /\ interval[v].end < interval[w].start => batch_of[v] <= batch_of[w]
           /\ version_of[v] = version_of[w]
                /\ DoesIntervalIntersect(interval[v], interval[w]) => batch_of[v] = batch_of[w]

\* "it is ensured that batch_position is always smaller than max_batch_size", comment
\* of BatchIndexAssigner.  A group may exceed it (README, section 6).
PositionsBelowLimit == \A v \in Nodes : slot[v].pos < MaxBatchSize
=============================================================================
