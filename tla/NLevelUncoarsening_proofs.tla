---------------------- MODULE NLevelUncoarsening_proofs ----------------------
(***************************************************************************)
(* Proofs about the batch uncontraction hierarchy for every contraction    *)
(* tree, every number of threads and every batch size: however the threads *)
(* race in the BatchIndexAssigner, the batches of a version are complete   *)
(* and consecutive, and they revert the contractions in an order in which  *)
(* they can be reverted.                                                   *)
(***************************************************************************)
EXTENDS NLevelUncoarsening, SumTheorems, SequenceTheorems, TLAPS

-----------------------------------------------------------------------------
(* The history of contractions *)

Opened == {"nets", "index", "done"}
Uncoarsening == {"uncontract", "restore_nets", "restore_counts"}
HistoryTypeOK ==
  /\ phase \in {"coarsen", "assign", "partition", "done"} \union Uncoarsening
  /\ parent \in [Nodes -> Nodes] /\ version_of \in [Nodes -> Int] /\ index \in Nat
  /\ interval \in [Nodes -> [start : Nat, end : Nat]]
  /\ cpc \in [Nodes -> {"idle", "start", "nets", "index", "done"}]
  /\ phase \in {"coarsen", "assign", "partition"} => version \in Nat

\* A pass ends when no contraction runs, so all that run are of the same version.
VersionsOK ==
  /\ phase # "coarsen" => Running = {}
  /\ \A v \in Nodes : version_of[v] >= Unversioned /\ (version_of[v] = Unversioned <=> cpc[v] = "idle")
  /\ phase \in {"coarsen", "assign", "partition"} => \A v \in Nodes : version_of[v] <= version
  /\ \A v \in Running : version_of[v] = version

\* A node is contracted after its children.
TreeOK ==
  /\ \A v \in Nodes : cpc[v] # "idle" => parent[v] # v /\ Children(v) \subseteq Contracted
  /\ \A v, w \in Nodes : parent[v] = w /\ v # w /\ cpc[v] # "idle" /\ cpc[w] # "idle" =>
       /\ version_of[v] <= version_of[w]
       /\ cpc[w] = "done" => interval[v].end < interval[w].end

\* Intervals end one after another.
IntervalsOK ==
  /\ \A v \in Nodes : cpc[v] \in {"nets", "index"} => interval[v].start <= index
  /\ \A v \in Contracted : interval[v].start < interval[v].end /\ interval[v].end <= index
  /\ \A v, w \in Contracted : interval[v].end = interval[w].end => v = w
  /\ \A v \in Contracted, w \in Nodes :
       cpc[w] \in Opened /\ interval[v].end <= interval[w].start => version_of[v] <= version_of[w]

HistoryInv == HistoryTypeOK /\ VersionsOK /\ TreeOK /\ IntervalsOK

-----------------------------------------------------------------------------
(* The assignment of batches *)

V == OfVersion(current)
Queues(t) == pq[t] \union next_pq[t]
InQueue(x) == \E t \in Threads : \E S \in Queues(t) : x \in S
Held(x) == \E t \in Threads : apc[t] = "add" /\ x \in group[t]
Slotted == {v \in Nodes : slot[v].batch # Lowest}
InBatch(b) == {v \in Nodes : slot[v].batch = b}
Uncounted == UNION {group[t] : t \in {s \in Threads : apc[s] = "size"}}

Steps == {"idle", "pop", "add", "size", "raise", "swap", "scan", "transmit"}
AssignTypeOK ==
  /\ current \in Nat
  /\ apc \in [Threads -> Steps]
  /\ pq \in [Threads -> SUBSET SUBSET Nodes] /\ next_pq \in [Threads -> SUBSET SUBSET Nodes]
  /\ group \in [Threads -> SUBSET Nodes]
  /\ batch_index \in [Threads -> Nat] /\ found \in [Threads -> Nat] /\ raise \in [Threads -> Nat \union {Lowest}]
  /\ slot \in [Nodes -> [batch : Nat \union {Lowest}, pos : Nat \union {Lowest}]]
  /\ high_water_mark \in Nat /\ counter \in [Batches -> Nat] /\ sizes \in [Batches -> Nat]

\* No version is being assigned.
Fresh ==
  /\ apc = [t \in Threads |-> "idle"]
  /\ pq = [t \in Threads |-> {}] /\ next_pq = [t \in Threads |-> {}] /\ group = [t \in Threads |-> {}]
  /\ batch_index = [t \in Threads |-> 0] /\ found = [t \in Threads |-> 0] /\ raise = [t \in Threads |-> Lowest]
  /\ slot = [v \in Nodes |-> Unassigned]
  /\ high_water_mark = 0 /\ counter = [b \in Batches |-> 0] /\ sizes = [b \in Batches |-> 0]

\* Queues hold what is left of the children of some nodes.
QueuesOK ==
  /\ \A t \in Threads : \A S \in Queues(t) : S # {} /\ S \subseteq V /\ \A x, y \in S : parent[x] = parent[y]
  /\ \A t, s \in Threads : \A S \in Queues(t), R \in Queues(s) : S \intersect R # {} => t = s /\ S = R
  /\ \A t \in Threads : pq[t] \intersect next_pq[t] = {}
  /\ \A t \in Threads : /\ apc[t] = "pop" /\ pq[t] = {} => next_pq[t] = {}
                        /\ apc[t] = "swap" => pq[t] = {}
                        /\ apc[t] \in {"scan", "transmit"} => next_pq[t] = {}

\* A node is in a queue, in the group that is assigned, or has a slot.
GroupsOK ==
  /\ \A t \in Threads : apc[t] \in {"add", "size"} =>
       group[t] # {} /\ group[t] \subseteq V /\ \A x, y \in group[t] : parent[x] = parent[y]
  /\ \A t, s \in Threads : apc[t] \in {"add", "size"} /\ apc[s] \in {"add", "size"} /\ t # s =>
       group[t] \intersect group[s] = {}
  /\ \A t \in Threads : apc[t] = "size" => group[t] \subseteq InBatch(found[t])
  /\ \A x \in Nodes : (InQueue(x) => ~Held(x) /\ x \notin Slotted) /\ (Held(x) => x \notin Slotted)
  /\ Slotted \subseteq V

\* The nodes that were reached are those whose parents were taken from the queues.
ReachedOK ==
  \A x \in V : (InQueue(x) \/ Held(x) \/ x \in Slotted) <=>
                 (parent[x] \in V => Held(parent[x]) \/ parent[x] \in Slotted)

\* Counters, positions and sizes.
CountersOK ==
  \A b \in Batches :
    /\ counter[b] < MaxBatchSize => counter[b] = Cardinality(InBatch(b))
    /\ counter[b] > 0 <=> InBatch(b) # {}
    /\ {slot[v].pos : v \in InBatch(b)} = 0..(Cardinality(InBatch(b)) - 1)
    /\ sizes[b] = Cardinality(InBatch(b) \ Uncounted)

\* All batches below n have members.
Filled(n) == \A b \in 0..(n - 1) : InBatch(b) # {}
FilledOK ==
  /\ Filled(high_water_mark)
  /\ \A t \in Threads :
       /\ Filled(batch_index[t]) /\ Filled(raise[t])
       /\ apc[t] \in {"add", "size", "raise"} => Filled(found[t])
       /\ apc[t] \in {"size", "raise"} => InBatch(found[t]) # {}
       /\ apc[t] = "swap" => InBatch(batch_index[t]) # {}
  /\ \A v \in Slotted : Filled(slot[v].batch)

\* A version is being assigned.
AssignOK ==
  /\ \A t \in Threads : apc[t] # "idle"
  /\ QueuesOK /\ GroupsOK /\ ReachedOK /\ CountersOK /\ FilledOK

AssignInv ==
  /\ phase = "coarsen" => Fresh /\ current = 0
  /\ phase = "assign" => AssignTypeOK /\ current <= version /\ (Fresh \/ AssignOK)

-----------------------------------------------------------------------------
(* The order of batches *)

\* The last batch a thread has used.
Reached(t) == IF apc[t] \in {"add", "size", "raise"} THEN found[t] ELSE batch_index[t]
HeldBy(t, x) == apc[t] = "add" /\ x \in group[t]
Below(x, b) == x \in Slotted /\ slot[x].batch <= b
Siblings(x, y) == parent[x] = parent[y] /\ x # y

\* A parent gets its batch before its children.
ParentsFirst ==
  /\ \A t \in Threads : apc[t] \in {"add", "size", "raise"} => batch_index[t] <= found[t]
  /\ \A t \in Threads : \A S \in pq[t] : \A x \in S : parent[x] \in V => Below(parent[x], batch_index[t] - 1)
  /\ \A t \in Threads : \A S \in next_pq[t] : \A x \in S :
       HeldBy(t, parent[x]) \/ Below(parent[x], Reached(t))
  /\ \A t \in Threads : \A x \in V : HeldBy(t, x) /\ parent[x] \in V => Below(parent[x], batch_index[t] - 1)
  /\ \A x \in Slotted : parent[x] \in V => Below(parent[x], slot[x].batch - 1)

\* A later contraction gets its batch before an earlier one onto the same node.
LaterFirst ==
  /\ \A t \in Threads : \A S \in Queues(t) : \A x \in S, y \in V \ S : Siblings(x, y) =>
       SortedBefore(y, x) /\ (HeldBy(t, y) \/ Below(y, Reached(t)))
  /\ \A t \in Threads : \A x, y \in V : HeldBy(t, x) /\ Siblings(x, y) =>
       HeldBy(t, y) \/ (SortedBefore(y, x) /\ Below(y, batch_index[t])) \/ (\E S \in pq[t] : y \in S)
  /\ \A x \in Slotted, y \in V : Siblings(x, y) /\ SortedBefore(y, x) => Below(y, slot[x].batch)

\* Overlapping contractions onto the same node stay together.
OverlapTogether ==
  \A x, y \in V : Siblings(x, y) /\ DoesIntervalIntersect(interval[x], interval[y]) =>
    /\ \A t \in Threads : \A S \in Queues(t) : x \in S => y \in S
    /\ \A t \in Threads : HeldBy(t, x) => HeldBy(t, y)
    /\ x \in Slotted => y \in Slotted /\ slot[y].batch = slot[x].batch

\* The batches of the versions before.
OffsetOf(h) == FoldLeft(LAMBDA n, batches : n + Len(batches), 0, h)
Assigned == {v \in Nodes : version_of[v] # Unversioned /\ version_of[v] < current}
AssignedOK ==
  /\ hierarchy \in Seq(Seq(SUBSET Nodes))
  /\ batch_of \in [Nodes -> Int]
  /\ \A v \in Assigned : batch_of[v] \in 0..(OffsetOf(hierarchy) - 1)
  /\ \A v, w \in Assigned :
       /\ version_of[v] < version_of[w] => batch_of[v] < batch_of[w]
       /\ parent[v] = w => batch_of[v] < batch_of[w]
       /\ Siblings(v, w) /\ interval[v].end < interval[w].start => batch_of[v] <= batch_of[w]
       /\ Siblings(v, w) /\ version_of[v] = version_of[w] /\ DoesIntervalIntersect(interval[v], interval[w]) =>
            batch_of[v] = batch_of[w]

\* The order within the version that is assigned.
OrderOK == ParentsFirst /\ LaterFirst /\ OverlapTogether

OrderInv ==
  /\ phase \in {"coarsen", "assign", "partition"} => AssignedOK
  /\ phase = "assign" /\ ~Fresh => OrderOK
  /\ phase = "partition" => current = version + 1

-----------------------------------------------------------------------------
(* The history is consistent *)

hvars == <<phase, parent, interval, version_of, version, index, cpc>>

\* The first hypergraph has no history.
LEMMA HistoryInvInit ==
  ASSUME HistoryInit PROVE HistoryInv
<1>1. parent \in [Nodes -> Nodes]
  BY HistoryAssumption DEF HistoryInit
<1>2. HistoryTypeOK
  BY <1>1 DEF HistoryInit, HistoryTypeOK, Unversioned
<1>3. VersionsOK /\ TreeOK /\ IntervalsOK
  BY DEF HistoryInit, VersionsOK, TreeOK, IntervalsOK, Contracted, Running, Unversioned
<1> QED BY <1>2, <1>3 DEF HistoryInv

\* Nothing of the history changes.
LEMMA HistoryInvUnchanged ==
  ASSUME HistoryInv, UNCHANGED hvars PROVE HistoryInv'
BY DEF HistoryInv, hvars, HistoryTypeOK, VersionsOK, TreeOK, IntervalsOK, Contracted, Running, Children

\* The phases after the coarsening do not look at the version.
LEMMA HistoryInvLater ==
  ASSUME HistoryInv, phase # "coarsen", phase' \in {"assign", "partition", "done"} \union Uncoarsening,
         phase' \in {"assign", "partition"} => phase \in {"assign", "partition"} /\ version' = version,
         UNCHANGED <<parent, interval, version_of, index, cpc>>
  PROVE  HistoryInv'
<1>1. HistoryTypeOK'
  BY DEF HistoryInv, HistoryTypeOK, Uncoarsening
<1>2. Running = {} /\ Running' = {}
  BY DEF HistoryInv, VersionsOK, Running
<1>3. VersionsOK'
  BY <1>2 DEF HistoryInv, VersionsOK, Uncoarsening
<1>4. TreeOK' /\ IntervalsOK'
  BY DEF HistoryInv, TreeOK, IntervalsOK, Contracted, Children
<1> QED BY <1>1, <1>3, <1>4 DEF HistoryInv

\* A pass ends: contractions of the next version come later.
LEMMA HistoryInvEndPass ==
  ASSUME HistoryInv, EndPass PROVE HistoryInv'
<1>1. Running = {} /\ phase = "coarsen" /\ version \in Nat /\ version' = version + 1 /\ phase' \in {"coarsen", "assign"}
  BY DEF EndPass, HistoryInv, HistoryTypeOK
<1>2. UNCHANGED <<parent, interval, version_of, index, cpc>>
  BY DEF EndPass, history
<1>3. HistoryTypeOK'
  BY <1>1, <1>2 DEF HistoryInv, HistoryTypeOK
<1>4. Running' = {}
  BY <1>1, <1>2 DEF Running
<1>5. \A v \in Nodes : version_of[v] \in Int /\ version_of[v] <= version
  BY <1>1 DEF HistoryInv, HistoryTypeOK, VersionsOK
<1>6. VersionsOK'
  BY <1>1, <1>2, <1>4, <1>5 DEF HistoryInv, VersionsOK
<1>7. TreeOK' /\ IntervalsOK'
  BY <1>2 DEF HistoryInv, TreeOK, IntervalsOK, Contracted, Children
<1> QED BY <1>3, <1>6, <1>7 DEF HistoryInv

\* What the steps of a contraction leave alone.
LEMMA HistoryRunning ==
  ASSUME HistoryInv, NEW v \in Nodes, cpc[v] \in {"start", "nets", "index"}
  PROVE  phase = "coarsen" /\ v \in Running /\ version_of[v] = version
BY DEF HistoryInv, VersionsOK, Running

\* A contraction begins: its children are contracted, its parent is not.
LEMMA HistoryInvBegin ==
  ASSUME HistoryInv, NEW v \in Nodes, BeginContraction(v) PROVE HistoryInv'
<1>1. /\ phase = "coarsen" /\ cpc[v] = "idle" /\ parent[v] # v /\ Children(v) \subseteq Contracted
      /\ version_of' = [version_of EXCEPT ![v] = version] /\ cpc' = [cpc EXCEPT ![v] = "start"]
      /\ UNCHANGED <<phase, parent, interval, version, index>>
  BY DEF BeginContraction
<1>2. version \in Nat
  BY <1>1 DEF HistoryInv, HistoryTypeOK
<1>3. HistoryTypeOK'
  BY <1>1, <1>2 DEF HistoryInv, HistoryTypeOK
<1>4. Contracted' = Contracted /\ Running' = Running \union {v}
  BY <1>1 DEF HistoryInv, HistoryTypeOK, Contracted, Running
<1>5. \A w \in Nodes : Children(w)' = Children(w)
  BY <1>1 DEF Children
<1>6. \A w \in Nodes \ {v} : version_of'[w] = version_of[w] /\ cpc'[w] = cpc[w]
  BY <1>1 DEF HistoryInv, HistoryTypeOK
<1>7. version_of'[v] = version /\ cpc'[v] = "start"
  BY <1>1 DEF HistoryInv, HistoryTypeOK
<1>8. VersionsOK'
  <2>1. \A w \in Nodes : version_of'[w] >= Unversioned /\ (version_of'[w] = Unversioned <=> cpc'[w] = "idle")
    BY <1>2, <1>6, <1>7 DEF HistoryInv, VersionsOK, Unversioned
  <2>2. \A w \in Nodes : version_of'[w] <= version'
    BY <1>1, <1>2, <1>6, <1>7 DEF HistoryInv, VersionsOK
  <2>3. \A w \in Running' : version_of'[w] = version'
    BY <1>1, <1>4, <1>6, <1>7 DEF HistoryInv, VersionsOK, Running
  <2> QED BY <2>1, <2>2, <2>3, <1>1 DEF VersionsOK, Unversioned
<1>9. TreeOK'
  <2>1. \A w \in Nodes : cpc'[w] # "idle" => parent[w] # w /\ Children(w) \subseteq Contracted
    BY <1>1, <1>6 DEF HistoryInv, TreeOK
  <2>2. ASSUME NEW x \in Nodes, NEW w \in Nodes, parent[x] = w, x # w, cpc'[x] # "idle", cpc'[w] # "idle"
        PROVE  version_of'[x] <= version_of'[w] /\ (cpc'[w] = "done" => interval[x].end < interval[w].end)
    <3>1. x # v
      BY <1>1, <2>1, <2>2 DEF Children, Contracted
    <3>2. CASE w = v
      BY <1>1, <1>6, <1>7, <3>1, <3>2 DEF HistoryInv, VersionsOK
    <3>3. CASE w # v
      BY <1>6, <2>2, <3>1, <3>3 DEF HistoryInv, TreeOK
    <3> QED BY <3>2, <3>3
  <2> QED BY <2>1, <2>2, <1>1, <1>4, <1>5 DEF TreeOK
<1>10. IntervalsOK'
  <2>1. \A w \in Nodes : cpc'[w] \in {"nets", "index"} => interval[w].start <= index
    BY <1>6, <1>7 DEF HistoryInv, IntervalsOK
  <2>2. \A x \in Contracted, w \in Nodes : cpc'[w] \in Opened /\ interval[x].end <= interval[w].start =>
          version_of'[x] <= version_of'[w]
    <3> SUFFICES ASSUME NEW x \in Contracted, NEW w \in Nodes, cpc'[w] \in Opened, interval[x].end <= interval[w].start
                 PROVE  version_of'[x] <= version_of'[w]
      OBVIOUS
    <3>1. w # v /\ x # v /\ x \in Nodes
      BY <1>1, <1>7 DEF Opened, Contracted
    <3> QED BY <1>6, <3>1 DEF HistoryInv, IntervalsOK
  <2> QED BY <1>1, <1>4, <2>1, <2>2 DEF HistoryInv, IntervalsOK, Contracted
<1> QED BY <1>3, <1>8, <1>9, <1>10 DEF HistoryInv

\* The interval of a contraction opens after all that have ended.
LEMMA HistoryInvOpen ==
  ASSUME HistoryInv, NEW v \in Nodes, OpenInterval(v) PROVE HistoryInv'
<1>1. /\ cpc[v] = "start" /\ interval' = [interval EXCEPT ![v].start = index] /\ cpc' = [cpc EXCEPT ![v] = "nets"]
      /\ UNCHANGED <<phase, parent, version_of, version, index>>
  BY DEF OpenInterval, graph
<1>2. phase = "coarsen" /\ v \in Running /\ version_of[v] = version
  BY <1>1, HistoryRunning
<1>3. /\ \A w \in Nodes \ {v} : cpc'[w] = cpc[w] /\ interval'[w] = interval[w]
      /\ cpc'[v] = "nets" /\ interval'[v].start = index /\ interval'[v].end = interval[v].end
      /\ interval' \in [Nodes -> [start : Nat, end : Nat]]
  BY <1>1 DEF HistoryInv, HistoryTypeOK
<1>4. HistoryTypeOK'
  BY <1>1, <1>3 DEF HistoryInv, HistoryTypeOK
<1>5. Contracted' = Contracted /\ Running' = Running /\ v \notin Contracted
  BY <1>1, <1>3 DEF Contracted, Running
<1>6. \A w \in Nodes : Children(w)' = Children(w)
  BY <1>1 DEF Children
<1>7. VersionsOK'
  BY <1>1, <1>2, <1>3, <1>5 DEF HistoryInv, VersionsOK
<1>8. TreeOK'
  BY <1>1, <1>3, <1>5, <1>6 DEF HistoryInv, TreeOK
<1>9. IntervalsOK'
  <2>1. \A w \in Nodes : cpc'[w] \in {"nets", "index"} => interval'[w].start <= index
    BY <1>3 DEF HistoryInv, HistoryTypeOK, IntervalsOK
  <2>2. ASSUME NEW x \in Contracted, NEW w \in Nodes, cpc'[w] \in Opened, interval'[x].end <= interval'[w].start
        PROVE  version_of[x] <= version_of[w]
    <3>1. x \in Nodes /\ x # v
      BY <1>5 DEF Contracted
    <3>2. CASE w = v
      BY <1>2, <3>1, <3>2 DEF HistoryInv, VersionsOK
    <3>3. CASE w # v
      BY <1>3, <2>2, <3>1, <3>3 DEF HistoryInv, IntervalsOK
    <3> QED BY <3>2, <3>3
  <2>3. \A x \in Contracted : x \in Nodes /\ x # v
    BY <1>5 DEF Contracted
  <2> QED BY <1>1, <1>3, <1>5, <2>1, <2>2, <2>3 DEF HistoryInv, IntervalsOK
<1> QED BY <1>4, <1>7, <1>8, <1>9 DEF HistoryInv

\* The lists of incident nets are merged.
LEMMA HistoryInvMerge ==
  ASSUME HistoryInv, NEW v \in Nodes, MergeIncidentNets(v) PROVE HistoryInv'
<1>1. /\ cpc[v] = "nets" /\ cpc' = [cpc EXCEPT ![v] = "index"]
      /\ UNCHANGED <<phase, parent, interval, version_of, version, index>>
  BY DEF MergeIncidentNets
<1>2. phase = "coarsen" /\ v \in Running /\ version_of[v] = version
  BY <1>1, HistoryRunning
<1>3. (\A w \in Nodes \ {v} : cpc'[w] = cpc[w]) /\ cpc'[v] = "index"
  BY <1>1 DEF HistoryInv, HistoryTypeOK
<1>4. HistoryTypeOK'
  BY <1>1 DEF HistoryInv, HistoryTypeOK
<1>5. Contracted' = Contracted /\ Running' = Running /\ v \notin Contracted
  BY <1>1, <1>3 DEF Contracted, Running
<1>6. \A w \in Nodes : Children(w)' = Children(w)
  BY <1>1 DEF Children
<1>7. VersionsOK'
  BY <1>1, <1>2, <1>3, <1>5 DEF HistoryInv, VersionsOK
<1>8. TreeOK'
  BY <1>1, <1>3, <1>5, <1>6 DEF HistoryInv, TreeOK
<1>9. IntervalsOK'
  BY <1>1, <1>3, <1>5 DEF HistoryInv, IntervalsOK, Opened
<1> QED BY <1>4, <1>7, <1>8, <1>9 DEF HistoryInv

\* A contraction ends later than all that have ended, and no interval that is open began after it.
LEMMA HistoryInvEnd ==
  ASSUME HistoryInv, NEW v \in Nodes, EndContraction(v) PROVE HistoryInv'
<1>1. /\ cpc[v] = "index" /\ index' = index + 1 /\ interval' = [interval EXCEPT ![v].end = index + 1]
      /\ cpc' = [cpc EXCEPT ![v] = "done"]
      /\ UNCHANGED <<phase, parent, version_of, version>>
  BY DEF EndContraction, graph
<1>2. phase = "coarsen" /\ v \in Running /\ version_of[v] = version
  BY <1>1, HistoryRunning
<1>3. /\ \A w \in Nodes \ {v} : cpc'[w] = cpc[w] /\ interval'[w] = interval[w]
      /\ cpc'[v] = "done" /\ interval'[v].start = interval[v].start /\ interval'[v].end = index + 1
      /\ interval' \in [Nodes -> [start : Nat, end : Nat]] /\ index \in Nat
      /\ interval \in [Nodes -> [start : Nat, end : Nat]]
  BY <1>1 DEF HistoryInv, HistoryTypeOK
<1>4. HistoryTypeOK'
  BY <1>1, <1>3 DEF HistoryInv, HistoryTypeOK
<1>5. Contracted' = Contracted \union {v} /\ Running' = Running \ {v} /\ v \notin Contracted
  BY <1>1, <1>3 DEF Contracted, Running
<1>6. \A w \in Nodes : Children(w)' = Children(w)
  BY <1>1 DEF Children
<1>7. VersionsOK'
  BY <1>1, <1>2, <1>3, <1>5 DEF HistoryInv, VersionsOK
<1>8. \A x \in Contracted : x \in Nodes /\ x # v /\ interval[x].end \in Nat /\ interval[x].end <= index
  BY <1>5, <1>3 DEF HistoryInv, IntervalsOK, Contracted
<1>9. TreeOK'
  <2>1. ASSUME NEW w \in Nodes, cpc'[w] # "idle" PROVE parent[w] # w /\ Children(w) \subseteq Contracted
    BY <1>1, <1>3, <2>1 DEF HistoryInv, TreeOK
  <2>2. ASSUME NEW x \in Nodes, NEW w \in Nodes, parent[x] = w, x # w, cpc'[x] # "idle", cpc'[w] # "idle"
        PROVE  version_of[x] <= version_of[w] /\ (cpc'[w] = "done" => interval'[x].end < interval'[w].end)
    <3>1. x \in Contracted
      BY <2>1, <2>2 DEF Children
    <3>2. version_of[x] <= version_of[w] /\ (cpc[w] = "done" => interval[x].end < interval[w].end)
      BY <1>1, <1>3, <2>2, <3>1, <1>8 DEF HistoryInv, TreeOK
    <3> QED BY <1>3, <1>8, <3>1, <3>2
  <2> QED BY <2>1, <2>2, <1>1, <1>5, <1>6 DEF TreeOK
<1>10. IntervalsOK'
  <2>1. ASSUME NEW w \in Nodes, cpc'[w] \in Opened PROVE interval'[w].start \in Nat /\ interval'[w].start <= index
    <3>1. CASE w = v
      BY <1>1, <1>3, <3>1 DEF HistoryInv, IntervalsOK
    <3>2. CASE w # v /\ w \in Contracted
      BY <1>3, <3>2, <1>8 DEF HistoryInv, IntervalsOK
    <3>3. CASE w # v /\ w \notin Contracted
      BY <1>3, <3>3, <2>1 DEF HistoryInv, IntervalsOK, Contracted, Opened
    <3> QED BY <3>1, <3>2, <3>3
  <2>2. \A x \in Contracted' : interval'[x].start < interval'[x].end /\ interval'[x].end <= index'
    <3>1. interval'[v].start < interval'[v].end /\ interval'[v].end <= index'
      BY <1>1, <1>3, <2>1 DEF Opened
    <3>2. \A x \in Contracted : interval'[x].start < interval'[x].end /\ interval'[x].end <= index'
      BY <1>1, <1>3, <1>8 DEF HistoryInv, IntervalsOK
    <3> QED BY <3>1, <3>2, <1>5
  <2>3. \A x, w \in Contracted' : interval'[x].end = interval'[w].end => x = w
    <3>1. \A x, w \in Contracted : interval'[x].end = interval'[w].end => x = w
      BY <1>3, <1>8 DEF HistoryInv, IntervalsOK
    <3>2. \A x \in Contracted : interval'[x].end # interval'[v].end
      BY <1>3, <1>8
    <3> QED BY <3>1, <3>2, <1>5
  <2>4. \A w \in Nodes : cpc'[w] \in {"nets", "index"} => interval'[w].start <= index'
    BY <1>1, <1>3, <2>1 DEF Opened
  <2>5. ASSUME NEW x \in Contracted', NEW w \in Nodes, cpc'[w] \in Opened, interval'[x].end <= interval'[w].start
        PROVE  version_of[x] <= version_of[w]
    <3>1. x # v
      BY <1>3, <2>1, <2>5
    <3>2. x \in Contracted
      BY <1>5, <3>1
    <3>3. CASE w = v
      BY <1>2, <3>2, <3>3, <1>8 DEF HistoryInv, VersionsOK
    <3>4. CASE w # v
      BY <1>3, <1>8, <2>5, <3>2, <3>4 DEF HistoryInv, IntervalsOK
    <3> QED BY <3>3, <3>4
  <2> HIDE DEF Opened
  <2> QED BY <1>1, <2>2, <2>3, <2>4, <2>5 DEF IntervalsOK
<1> QED BY <1>4, <1>7, <1>9, <1>10 DEF HistoryInv

\* Every step keeps the history consistent.
\* Restoring nets is a matter of the uncoarsening alone.
LEMMA RestoringNets ==
  ASSUME RestoreNets
  PROVE  phase \in Uncoarsening /\ phase' \in Uncoarsening /\ UNCHANGED history
BY DEF RestoreNets, StartRestore, RestoreIncidentNets, RestoreCompleted, RestoreSinglePinNet, LoadWeight,
       StoreWeight, RestorePinCounts, Idle, Uncoarsening

LEMMA HistoryInvNext ==
  ASSUME HistoryInv, [Next]_vars PROVE HistoryInv'
<1>1. CASE Coarsen
  <2>1. CASE EndPass
    BY <2>1, HistoryInvEndPass
  <2>2. ASSUME NEW v \in Nodes, BeginContraction(v) \/ OpenInterval(v) \/ ContractHyperedge(v)
                                \/ MergeIncidentNets(v) \/ EndContraction(v)
        PROVE  HistoryInv'
    <3>1. CASE ContractHyperedge(v)
      BY <3>1, HistoryInvUnchanged DEF ContractHyperedge, hvars
    <3> QED BY <2>2, <3>1, HistoryInvBegin, HistoryInvOpen, HistoryInvMerge, HistoryInvEnd
  <2> QED BY <1>1, <2>1, <2>2 DEF Coarsen
<1>2. CASE Assign /\ UNCHANGED <<history, graph, partVars, tasks, restoreVars, moves>>
  <2>1. UNCHANGED <<parent, interval, version_of, index, cpc, version>>
    BY <1>2 DEF history, graph
  <2>2. CASE FinishVersion
    BY <2>1, <2>2, HistoryInvLater DEF FinishVersion
  <2>3. CASE UNCHANGED phase
    BY <2>1, <2>3, HistoryInvUnchanged DEF hvars
  <2> QED BY <1>2, <2>2, <2>3 DEF Assign
<1>3. CASE InitializePartition
  BY <1>3, HistoryInvLater DEF InitializePartition, Uncoarsening, history
<1>4. CASE Refine
  BY <1>4, HistoryInvUnchanged DEF Refine, history, graph, hvars
<1>5. CASE StartBatchUncontraction
  BY <1>5, HistoryInvUnchanged DEF StartBatchUncontraction, history, graph, hvars
<1>6. ASSUME NEW v \in Nodes, Task(v) PROVE HistoryInv'
  <2>1. UNCHANGED <<phase, parent, interval, version_of, index, cpc>>
    BY <1>6 DEF Task, history
  <2>2. UNCHANGED version
    BY <1>6 DEF Task, Splice, ReplacePin, RestoreEntry, RestorePin, EnableNode
  <2> QED BY <2>1, <2>2, HistoryInvUnchanged DEF hvars
<1>7. CASE BatchCompleted
  BY <1>7, HistoryInvUnchanged DEF BatchCompleted, history, graph, hvars
<1>8. CASE RestoreNets
  BY <1>8, RestoringNets, HistoryInvLater DEF Uncoarsening, history
<1>9. CASE TopLevel
  BY <1>9, HistoryInvLater DEF TopLevel, Idle, history
<1>10. CASE Done \/ UNCHANGED vars
  BY <1>10, HistoryInvUnchanged DEF Done, vars, history, graph, hvars
<1> QED BY <1>1, <1>2, <1>3, <1>4, <1>5, <1>6, <1>7, <1>8, <1>9, <1>10 DEF Next

-----------------------------------------------------------------------------
(* Contractions of a version, and groups of them *)

\* What the history says of the contractions of the version.
LEMMA OfTheVersion ==
  ASSUME HistoryInv, phase = "assign", AssignTypeOK, NEW v \in V
  PROVE  /\ v \in Nodes /\ v \in Contracted /\ parent[v] \in Nodes /\ parent[v] # v
         /\ interval[v].start \in Nat /\ interval[v].end \in Nat /\ interval[v].start < interval[v].end
         /\ version_of[v] = current
<1>1. v \in Nodes /\ version_of[v] = current /\ current \in Nat
  BY DEF V, OfVersion, AssignTypeOK
<1>2. cpc[v] # "idle"
  BY <1>1 DEF HistoryInv, VersionsOK, Unversioned
<1>3. v \in Contracted
  BY <1>1, <1>2 DEF HistoryInv, VersionsOK, Running, Contracted
<1> QED BY <1>1, <1>2, <1>3 DEF HistoryInv, HistoryTypeOK, TreeOK, IntervalsOK

\* A node of the version whose parent is of the version, too, was contracted before it.
LEMMA ParentEndsLater ==
  ASSUME HistoryInv, phase = "assign", AssignTypeOK, NEW v \in V, parent[v] \in V
  PROVE  interval[v].end < interval[parent[v]].end
<1>1. v \in Contracted /\ parent[v] \in Contracted /\ parent[v] # v /\ v \in Nodes /\ parent[v] \in Nodes
  BY OfTheVersion
<1>2. cpc[v] # "idle" /\ cpc[parent[v]] # "idle" /\ cpc[parent[v]] = "done"
  BY <1>1 DEF Contracted
<1> QED BY <1>1, <1>2 DEF HistoryInv, TreeOK

\* The parent of a contraction of the version, which was not contracted, is a root of the version.
LEMMA ParentIsRoot ==
  ASSUME HistoryInv, phase = "assign", AssignTypeOK, NEW v \in V
  PROVE  /\ parent[v] \notin V <=> parent[v] \in RootsOfVersion(current)
         /\ v \in ChildsOfVersion(parent[v], current)
<1>1. /\ v \in Contracted /\ parent[v] # v /\ v \in Nodes /\ parent[v] \in Nodes
      /\ version_of[v] = current
  BY OfTheVersion
<1>2. v \in ChildsOfVersion(parent[v], current)
  BY <1>1 DEF ChildsOfVersion, Children
<1>3. cpc[v] # "idle" /\ (version_of[parent[v]] # Unversioned => cpc[parent[v]] # "idle")
  BY <1>1 DEF Contracted, HistoryInv, VersionsOK
<1>4. version_of[parent[v]] # Unversioned => current <= version_of[parent[v]]
  BY <1>1, <1>3 DEF HistoryInv, TreeOK
<1>5. version_of[parent[v]] \in Int /\ current \in Nat
  BY <1>1 DEF HistoryInv, HistoryTypeOK, AssignTypeOK
<1>6. parent[v] \notin V <=> version_of[parent[v]] = Unversioned \/ current < version_of[parent[v]]
  BY <1>1, <1>4, <1>5 DEF V, OfVersion, Unversioned
<1> QED BY <1>1, <1>2, <1>6 DEF RootsOfVersion

\* The children of a node in the version.
LEMMA ChildsOfTheVersion ==
  ASSUME HistoryInv, phase = "assign", AssignTypeOK, NEW u \in Nodes
  PROVE  /\ ChildsOfVersion(u, current) = {v \in V : parent[v] = u}
         /\ \A v \in ChildsOfVersion(u, current) : parent[v] = u
<1>1. ChildsOfVersion(u, current) = {v \in V : v # u /\ parent[v] = u}
  BY DEF ChildsOfVersion, Children, V, OfVersion
<1>2. \A v \in V : parent[v] = u => v # u
  BY OfTheVersion
<1> QED BY <1>1, <1>2

\* Contractions of the version are sorted by the end of their intervals.
LEMMA SortedByEnd ==
  ASSUME HistoryInv, phase = "assign", AssignTypeOK, NEW v \in V, NEW w \in V
  PROVE  /\ SortedBefore(v, w) <=> interval[v].end > interval[w].end
         /\ v # w => interval[v].end # interval[w].end
         /\ v # w => SortedBefore(v, w) \/ SortedBefore(w, v)
<1>1. v \in Contracted /\ w \in Contracted /\ interval[v].end \in Nat /\ interval[w].end \in Nat
      /\ interval[v].start \in Nat /\ interval[w].start \in Nat
  BY OfTheVersion
<1>2. v # w => interval[v].end # interval[w].end
  BY <1>1 DEF HistoryInv, IntervalsOK
<1> QED BY <1>1, <1>2 DEF SortedBefore

\* The nodes of the version are finitely many.
LEMMA NodesFinite ==
  IsFiniteSet(Nodes) /\ \A S \in SUBSET Nodes : IsFiniteSet(S)
BY HistoryAssumption, FS_Subset

\* Some contraction is the last of a set of them.
LEMMA LastContraction ==
  ASSUME HistoryInv, phase = "assign", AssignTypeOK, NEW S \in SUBSET V, S # {}
  PROVE  \E v \in S : \A w \in S : interval[w].end <= interval[v].end
<1> DEFINE f == [v \in Nodes |-> interval[v].end]
<1>1. \A v \in S : v \in Nodes /\ interval[v].end \in Nat
  BY OfTheVersion
<1>2. \A v \in S : f[v] = interval[v].end /\ f[v] \in Int
  BY <1>1
<1>3. IsFiniteSet(S)
  BY <1>1, NodesFinite
<1>4. \E v \in S : \A w \in S : f[w] <= f[v]
  <2> HIDE DEF f
  <2> QED BY <1>2, <1>3, LargestValue
<1> QED BY <1>2, <1>4

\* Some contraction is the first of a set of them.
LEMMA FirstContraction ==
  ASSUME HistoryInv, phase = "assign", AssignTypeOK, NEW S \in SUBSET V, S # {}
  PROVE  \E v \in S : \A w \in S : interval[v].end <= interval[w].end
<1> DEFINE f == [v \in Nodes |-> 0 - interval[v].end]
<1>1. \A v \in S : v \in Nodes /\ interval[v].end \in Nat
  BY OfTheVersion
<1>2. \A v \in S : f[v] = 0 - interval[v].end /\ f[v] \in Int
  BY <1>1
<1>3. IsFiniteSet(S)
  BY <1>1, NodesFinite
<1>4. PICK v \in S : \A w \in S : f[w] <= f[v]
  <2> HIDE DEF f
  <2> QED BY <1>2, <1>3, LargestValue
<1>5. \A w \in S : interval[v].end <= interval[w].end
  <2> HIDE DEF f
  <2> QED BY <1>1, <1>2, <1>4
<1> QED BY <1>5

\* A group is not empty, takes the children that come before its members, and all
\* children that overlap with one of them.
LEMMA GroupFacts ==
  ASSUME HistoryInv, phase = "assign", AssignTypeOK, NEW S \in SUBSET V, S # {}
  PROVE  /\ Group(S) \subseteq S /\ Group(S) # {}
         /\ \A x \in Group(S), y \in S : SortedBefore(y, x) => y \in Group(S)
         /\ \A x \in Group(S), y \in S :
              DoesIntervalIntersect(interval[x], interval[y]) => y \in Group(S)
<1> DEFINE B(w) == Before(S, w)
           Ok(w) == B(w) # {} => DoesIntervalIntersect(Covered(B(w)), interval[w])
<1>1. Group(S) = {v \in S : \A w \in B(v) \union {v} : Ok(w)}
  BY DEF Group
<1>2. \A v \in S : /\ interval[v].end \in Nat /\ interval[v].start \in Nat /\ interval[v].start < interval[v].end
                   /\ B(v) \subseteq S
                   /\ \A w \in S : (w \in B(v) <=> interval[w].end > interval[v].end)
  BY OfTheVersion, SortedByEnd DEF Before
<1>3. PICK m \in S : \A w \in S : interval[w].end <= interval[m].end
  BY LastContraction
<1>4. B(m) = {}
  <2> HIDE DEF B
  <2> QED BY <1>2, <1>3
<1>5. m \in Group(S)
  BY <1>1, <1>4
<1>6. ASSUME NEW x \in Group(S), NEW y \in S, SortedBefore(y, x) PROVE y \in Group(S)
  <2>1. y \in B(x) /\ x \in S
    BY <1>1, <1>6 DEF Before
  <2>2. \A w \in B(y) : w \in B(x)
    <3> HIDE DEF B
    <3> QED BY <1>2, <2>1
  <2>3. \A w \in B(y) \union {y} : Ok(w)
    <3> HIDE DEF B, Ok
    <3> QED BY <1>1, <2>1, <2>2
  <2> HIDE DEF B, Ok
  <2> QED BY <1>1, <2>3
<1>7. ASSUME NEW x \in Group(S), NEW y \in S, DoesIntervalIntersect(interval[x], interval[y])
      PROVE  y \in Group(S)
  <2> SUFFICES ASSUME y \notin Group(S) PROVE FALSE
    OBVIOUS
  <2>1. x \in S /\ ~SortedBefore(y, x) /\ y # x
    BY <1>1, <1>6
  <2>2. interval[y].end < interval[x].end
    <3>1. SortedBefore(x, y)
      BY <2>1, SortedByEnd
    <3> QED BY <2>1, <3>1, SortedByEnd, <1>2
  <2>3. PICK w \in B(y) \union {y} : ~Ok(w)
    <3> HIDE DEF B, Ok
    <3> QED BY <1>1
  <2>4. w \in S /\ interval[y].end <= interval[w].end
    <3> HIDE DEF B
    <3> QED BY <1>2, <2>3
  <2>5. w \notin B(x) \union {x}
    <3> HIDE DEF B, Ok
    <3> QED BY <1>1, <2>3
  <2>6. x \in B(w)
    <3>1. x # w /\ ~(interval[w].end > interval[x].end)
      <4> HIDE DEF B
      <4> QED BY <1>2, <2>1, <2>4, <2>5
    <3>2. interval[x].end # interval[w].end
      BY <2>1, <2>4, <3>1, SortedByEnd
    <3>3. interval[x].end > interval[w].end
      BY <1>2, <2>1, <2>4, <3>1, <3>2
    <3> HIDE DEF B
    <3> QED BY <1>2, <2>1, <2>4, <3>3
  <2> DEFINE starts == {interval[z].start : z \in B(w)}
             ends == {interval[z].end : z \in B(w)}
  <2>7. B(w) \subseteq S /\ IsFiniteSet(B(w))
    <3>1. B(w) \subseteq S
      BY DEF Before
    <3>2. S \subseteq Nodes
      BY OfTheVersion
    <3> QED BY <3>1, <3>2, NodesFinite
  <2>8. Min(starts) \in Int /\ Min(starts) <= interval[x].start
    <3> DEFINE f == [z \in B(w) |-> interval[z].start]
    <3>1. f \in Surjection(B(w), starts)
      BY DEF Surjection
    <3>2. IsFiniteSet(starts)
      <4> HIDE DEF f, starts, B
      <4> QED BY <3>1, <2>7, FS_Surjection
    <3>3. starts \subseteq Int /\ interval[x].start \in starts
      <4> HIDE DEF B
      <4> QED BY <1>2, <2>6, <2>7
    <3> HIDE DEF starts
    <3> QED BY <3>2, <3>3, SmallestElement
  <2>9. Max(ends) \in Int /\ interval[x].end <= Max(ends)
    <3> DEFINE f == [z \in B(w) |-> interval[z].end]
    <3>1. f \in Surjection(B(w), ends)
      BY DEF Surjection
    <3>2. IsFiniteSet(ends)
      <4> HIDE DEF f, ends, B
      <4> QED BY <3>1, <2>7, FS_Surjection
    <3>3. ends \subseteq Int /\ interval[x].end \in ends
      <4> HIDE DEF B
      <4> QED BY <1>2, <2>6, <2>7
    <3> HIDE DEF ends
    <3> QED BY <3>2, <3>3, LargestElement
  <2>10. ~DoesIntervalIntersect(Covered(B(w)), interval[w])
    BY <2>3
  <2>11. Covered(B(w)).start = Min(starts) /\ Covered(B(w)).end = Max(ends)
    BY DEF Covered
  <2>12. interval[w].end < interval[x].end
    <3> HIDE DEF B
    <3> QED BY <1>2, <2>4, <2>6, <2>7
  <2>13. ~(Min(starts) <= interval[w].end)
    <3> HIDE DEF starts, ends, B
    <3> QED BY <1>2, <2>1, <2>4, <2>9, <2>10, <2>11, <2>12 DEF DoesIntervalIntersect
  <2>14. interval[x].start > interval[y].end
    <3> HIDE DEF starts, ends, B
    <3> QED BY <1>2, <2>1, <2>4, <2>8, <2>13
  <2> HIDE DEF starts, ends, B
  <2> QED BY <1>2, <1>7, <2>1, <2>2, <2>14 DEF DoesIntervalIntersect
<1> QED BY <1>1, <1>5, <1>6, <1>7

\* The positions in a group are 0, 1, ...
LEMMA Ranks ==
  ASSUME HistoryInv, phase = "assign", AssignTypeOK, NEW S \in SUBSET V
  PROVE  {Cardinality(Before(S, v)) : v \in S} = 0..(Cardinality(S) - 1)
<1> DEFINE Q == {R \in SUBSET S : {Cardinality(Before(R, v)) : v \in R} = 0..(Cardinality(R) - 1)}
<1>0. \A v \in V : v \in Nodes /\ interval[v].end \in Nat
  BY OfTheVersion
<1>1. ASSUME NEW R \in SUBSET S, \A u \in SUBSET R : u # R => u \in Q
      PROVE  R \in Q
  <2>1. CASE R = {}
    BY <2>1, FS_EmptySet
  <2>2. CASE R # {}
    <3>1. PICK m \in R : \A w \in R : interval[m].end <= interval[w].end
      BY <2>2, FirstContraction
    <3> DEFINE T == R \ {m}
    <3>2. T \in SUBSET R /\ T # R /\ T \in SUBSET V /\ R \in SUBSET V
      OBVIOUS
    <3>3. {Cardinality(Before(T, v)) : v \in T} = 0..(Cardinality(T) - 1)
      <4>1. T \in Q
        <5> HIDE DEF Q, T
        <5> QED BY <1>1, <3>2
      <4> QED BY <4>1
    <3>4. \A v \in T : Before(R, v) = Before(T, v)
      <4> SUFFICES ASSUME NEW v \in T PROVE ~SortedBefore(m, v)
        BY DEF Before
      <4>1. interval[m].end <= interval[v].end
        BY <3>1
      <4> QED BY <3>1, <3>2, <4>1, <1>0, SortedByEnd
    <3>5. Before(R, m) = T
      <4>1. ASSUME NEW v \in T PROVE SortedBefore(v, m)
        <5>1. interval[m].end <= interval[v].end /\ v # m /\ v \in V /\ m \in V
          BY <3>1
        <5>2. interval[v].end # interval[m].end
          BY <5>1, SortedByEnd
        <5>3. interval[v].end > interval[m].end
          BY <5>1, <5>2, <1>0
        <5> QED BY <5>1, <5>3, SortedByEnd
      <4>2. ~SortedBefore(m, m)
        BY <3>1, <1>0, SortedByEnd
      <4> QED BY <4>1, <4>2 DEF Before
    <3>6. IsFiniteSet(R) /\ IsFiniteSet(T) /\ Cardinality(T) \in Nat /\ Cardinality(R) = Cardinality(T) + 1
      <4>1. R \in SUBSET Nodes
        BY <1>0
      <4>2. IsFiniteSet(R)
        BY <4>1, NodesFinite
      <4>3. IsFiniteSet(T) /\ Cardinality(T) = Cardinality(R) - 1 /\ Cardinality(R) \in Nat /\ Cardinality(T) \in Nat
        BY <4>2, <3>1, FS_RemoveElement, FS_CardinalityType
      <4> QED BY <4>2, <4>3
    <3>7. {Cardinality(Before(R, v)) : v \in R} = {Cardinality(Before(T, v)) : v \in T} \union {Cardinality(T)}
      <4>1. R = T \union {m}
        OBVIOUS
      <4>2. \A v \in T : Cardinality(Before(R, v)) = Cardinality(Before(T, v))
        BY <3>4
      <4>3. Cardinality(Before(R, m)) = Cardinality(T)
        BY <3>5
      <4> HIDE DEF T
      <4> QED BY <4>1, <4>2, <4>3
    <3>8. 0..(Cardinality(T) - 1) \union {Cardinality(T)} = 0..(Cardinality(R) - 1)
      <4> HIDE DEF T
      <4> QED BY <3>6
    <3>9. {Cardinality(Before(R, v)) : v \in R} = 0..(Cardinality(R) - 1)
      <4> HIDE DEF T
      <4> QED BY <3>3, <3>7, <3>8
    <3> QED BY <3>9
  <2> QED BY <2>1, <2>2
<1>2. IsFiniteSet(S)
  BY <1>0, NodesFinite
<1>3. \A R \in SUBSET S : R \in Q
  <2> HIDE DEF Q
  <2> QED BY <1>1, <1>2, SubsetInduction
<1> QED BY <1>3

-----------------------------------------------------------------------------
(* The assignment of batches, step by step *)

\* A version is assigned, and the history stays as it is.
Working ==
  HistoryInv /\ phase = "assign" /\ AssignTypeOK /\ AssignOK
Kept == UNCHANGED <<parent, version_of, interval, current>>

\* There are not more batches with members than nodes.
LEMMA FilledBound ==
  ASSUME NEW n \in Nat, Filled(n) PROVE n <= Cardinality(Nodes) /\ n \in Batches
<1> DEFINE f == [b \in 0..(n - 1) |-> CHOOSE v \in Nodes : slot[v].batch = b]
<1>1. \A b \in 0..(n - 1) : \E v \in Nodes : slot[v].batch = b
  BY DEF Filled, InBatch
<1>2. \A b \in 0..(n - 1) : f[b] \in Nodes /\ slot[f[b]].batch = b
  BY <1>1
<1>3. f \in Injection(0..(n - 1), Nodes)
  <2>1. f \in [0..(n - 1) -> Nodes]
    BY <1>2
  <2> HIDE DEF f
  <2> QED BY <2>1, <1>2 DEF Injection, IsInjective
<1>4. Cardinality(0..(n - 1)) <= Cardinality(Nodes)
  <2> DEFINE S == 0..(n - 1)
  <2>1. f \in Injection(S, Nodes)
    BY <1>3
  <2> HIDE DEF f, S
  <2>2. Cardinality(S) <= Cardinality(Nodes)
    BY <2>1, NodesFinite, FS_Injection
  <2> QED BY <2>2 DEF S
<1>5. Cardinality(0..(n - 1)) = n
  BY FS_Interval
<1>6. Cardinality(Nodes) \in Nat
  BY NodesFinite, FS_CardinalityType
<1> QED BY <1>4, <1>5, <1>6 DEF Batches

\* All batches below a batch with members have members.
LEMMA FilledBelow ==
  ASSUME AssignTypeOK, FilledOK, NEW b \in Nat, InBatch(b) # {}
  PROVE  Filled(b) /\ Filled(b + 1) /\ b \in Batches
<1>1. PICK v \in Nodes : slot[v].batch = b
  BY DEF InBatch
<1>2. Filled(b)
  BY <1>1 DEF FilledOK, Slotted, Lowest
<1>3. Filled(b + 1)
  BY <1>2 DEF Filled
<1> QED BY <1>2, <1>3, FilledBound

\* Batches, queues and groups whose variables do not change.
LEMMA SlotsKept ==
  ASSUME slot' = slot
  PROVE  /\ Slotted' = Slotted
         /\ \A b \in Int : InBatch(b)' = InBatch(b)
         /\ \A n \in Int : (\A b \in 0..(n - 1) : InBatch(b)' # {}) <=> Filled(n)
BY DEF Slotted, InBatch, Filled

\* The larger of two numbers.
LEMMA LargerOne ==
  \A a, b \in Int : Max({a, b}) \in {a, b} /\ Max({a, b}) >= a /\ Max({a, b}) >= b
<1> SUFFICES ASSUME NEW a \in Int, NEW b \in Int
             PROVE  Max({a, b}) \in {a, b} /\ Max({a, b}) >= a /\ Max({a, b}) >= b
  OBVIOUS
<1>1. CASE a >= b
  BY <1>1 DEF Max
<1>2. CASE a < b
  BY <1>2 DEF Max
<1> QED BY <1>1, <1>2

\* findBatchAssignment succeeds: the size of the batch is updated.
LEMMA AssignCountSize ==
  ASSUME Working, Kept, NEW t \in Threads, CountSize(t)
  PROVE  AssignTypeOK' /\ AssignOK'
<1> USE DEF Working, Kept
<1>1. /\ apc[t] = "size" /\ sizes' = [sizes EXCEPT ![found[t]] = @ + Cardinality(group[t])]
      /\ raise' = [raise EXCEPT ![t] = IF @ = Lowest THEN Lowest ELSE found[t]]
      /\ apc' = [apc EXCEPT ![t] = "raise"]
      /\ UNCHANGED <<pq, next_pq, group, batch_index, found, high_water_mark, counter, slot>>
  BY DEF CountSize
<1>2. /\ group[t] \subseteq InBatch(found[t]) /\ group[t] \subseteq Nodes /\ group[t] # {}
      /\ \A s \in Threads : apc[s] = "size" /\ s # t => group[s] \intersect group[t] = {}
      /\ found[t] \in Nat /\ Filled(found[t]) /\ InBatch(found[t]) # {}
  BY <1>1 DEF AssignOK, GroupsOK, FilledOK, AssignTypeOK
<1>3. found[t] \in Batches
  BY <1>2, FilledBound
<1>4. IsFiniteSet(group[t]) /\ Cardinality(group[t]) \in Nat
  BY <1>2, NodesFinite, FS_CardinalityType
<1>5. AssignTypeOK'
  <2>1. sizes' \in [Batches -> Nat]
    BY <1>1, <1>3, <1>4 DEF AssignTypeOK
  <2>2. raise' \in [Threads -> Nat \union {Lowest}]
    BY <1>1, <1>2 DEF AssignTypeOK
  <2>3. apc' \in [Threads -> Steps]
    BY <1>1 DEF AssignTypeOK, Steps
  <2> QED BY <1>1, <2>1, <2>2, <2>3 DEF AssignTypeOK
<1>6. /\ \A s \in Threads \ {t} : apc'[s] = apc[s] /\ raise'[s] = raise[s]
      /\ apc'[t] = "raise" /\ raise'[t] \in {Lowest, found[t]}
  BY <1>1 DEF AssignTypeOK
<1>7. V' = V /\ Queues(t)' = Queues(t) /\ \A s \in Threads : Queues(s)' = Queues(s)
  BY <1>1 DEF V, OfVersion, Queues
<1>8. QueuesOK'
  BY <1>1, <1>6, <1>7 DEF AssignOK, QueuesOK
<1>9. (\A x \in Nodes : (InQueue(x)' <=> InQueue(x)) /\ (Held(x)' <=> Held(x)))
  <2>1. \A x \in Nodes : InQueue(x)' <=> InQueue(x)
    BY <1>7 DEF InQueue
  <2>2. \A x \in Nodes : Held(x)' <=> Held(x)
    BY <1>1, <1>6 DEF Held
  <2> QED BY <2>1, <2>2
<1>10. Slotted' = Slotted /\ (\A b : InBatch(b)' = InBatch(b)) /\ \A n \in Int : (\A b \in 0..(n - 1) : InBatch(b)' # {}) <=> Filled(n)
  BY <1>1, SlotsKept DEF InBatch
<1>11. GroupsOK'
  <2>1. \A s \in Threads : apc'[s] \in {"add", "size"} =>
          group[s] # {} /\ group[s] \subseteq V /\ \A x, y \in group[s] : parent[x] = parent[y]
    BY <1>6 DEF AssignOK, GroupsOK
  <2>2. \A r, s \in Threads : apc'[r] \in {"add", "size"} /\ apc'[s] \in {"add", "size"} /\ r # s =>
          group[r] \intersect group[s] = {}
    BY <1>6 DEF AssignOK, GroupsOK
  <2>3. \A s \in Threads : apc'[s] = "size" => group[s] \subseteq InBatch(found[s])
    BY <1>6 DEF AssignOK, GroupsOK
  <2>4. \A x \in Nodes : (InQueue(x) => ~Held(x) /\ x \notin Slotted) /\ (Held(x) => x \notin Slotted)
    BY DEF AssignOK, GroupsOK
  <2>5. Slotted \subseteq V
    BY DEF AssignOK, GroupsOK
  <2> QED BY <1>1, <1>7, <1>9, <1>10, <2>1, <2>2, <2>3, <2>4, <2>5 DEF GroupsOK
<1>12. ReachedOK'
  <2>1. \A x \in V : x \in Nodes /\ parent[x] \in Nodes
    BY OfTheVersion
  <2> QED BY <1>1, <1>7, <1>9, <1>10, <2>1 DEF AssignOK, ReachedOK
<1>13. CountersOK'
  <2>1. Uncounted' = Uncounted \ group[t] /\ group[t] \subseteq Uncounted
    BY <1>1, <1>2, <1>6 DEF Uncounted
  <2>2. ASSUME NEW b \in Batches PROVE sizes'[b] = Cardinality(InBatch(b) \ Uncounted')
    <3>1. sizes[b] = Cardinality(InBatch(b) \ Uncounted)
      BY DEF AssignOK, CountersOK
    <3>2. CASE b = found[t]
      <4> DEFINE A == InBatch(b) \ Uncounted
      <4>1. InBatch(b) \ Uncounted' = A \union group[t] /\ A \intersect group[t] = {}
        BY <1>2, <2>1, <3>2
      <4>2. IsFiniteSet(A)
        <5>1. A \in SUBSET Nodes
          BY DEF InBatch
        <5> QED BY <5>1, NodesFinite
      <4>3. Cardinality(A \union group[t]) = Cardinality(A) + Cardinality(group[t])
        <5> HIDE DEF A
        <5>1. Cardinality(A \union group[t]) = Cardinality(A) + Cardinality(group[t]) - Cardinality(A \intersect group[t])
          BY <4>2, <1>4, FS_Union
        <5>2. Cardinality(A \intersect group[t]) = 0
          BY <4>1, FS_EmptySet
        <5> QED BY <5>1, <5>2, <4>2, <1>4, FS_CardinalityType
      <4> QED BY <1>1, <3>1, <3>2, <4>1, <4>3 DEF AssignTypeOK
    <3>3. CASE b # found[t]
      <4>1. InBatch(b) \intersect group[t] = {}
        BY <1>2, <3>3 DEF InBatch
      <4>2. InBatch(b) \ Uncounted' = InBatch(b) \ Uncounted
        BY <2>1, <4>1
      <4> QED BY <1>1, <3>1, <3>3, <4>2 DEF AssignTypeOK
    <3> QED BY <3>2, <3>3
  <2> QED BY <1>1, <1>10, <2>2 DEF AssignOK, CountersOK
<1>14. FilledOK'
  <2>1. \A s \in Threads : /\ Filled(batch_index[s]) /\ Filled(raise'[s])
                           /\ apc'[s] \in {"add", "size", "raise"} => Filled(found[s])
                           /\ apc'[s] \in {"size", "raise"} => InBatch(found[s]) # {}
                           /\ apc'[s] = "swap" => InBatch(batch_index[s]) # {}
    <3>1. \A s \in Threads \ {t} : Filled(raise'[s])
      BY <1>6 DEF AssignOK, FilledOK
    <3>2. Filled(raise'[t])
      BY <1>2, <1>6 DEF Filled, Lowest
    <3> QED BY <1>2, <1>6, <3>1, <3>2 DEF AssignOK, FilledOK
  <2>2. \A s \in Threads : batch_index[s] \in Int /\ raise'[s] \in Int /\ found[s] \in Int
    BY <1>1, <1>5 DEF AssignTypeOK, Lowest
  <2>3. \A v \in Slotted : slot[v].batch \in Int /\ Filled(slot[v].batch)
    BY DEF AssignTypeOK, AssignOK, FilledOK, Slotted, Lowest
  <2>4. high_water_mark \in Int /\ Filled(high_water_mark)
    BY DEF AssignTypeOK, AssignOK, FilledOK
  <2> QED BY <1>1, <1>10, <2>1, <2>2, <2>3, <2>4 DEF FilledOK, Filled
<1>15. \A s \in Threads : apc'[s] # "idle"
  BY <1>6 DEF AssignOK
<1> QED BY <1>5, <1>8, <1>11, <1>12, <1>13, <1>14, <1>15 DEF AssignOK

\* A thread goes on after its group was assigned; groups, slots and queues stay.
LEMMA AssignMovesOn ==
  ASSUME Working, Kept, NEW t \in Threads, apc[t] \notin {"add", "size"},
         NEW p \in Steps \ {"idle", "add", "size"}, apc' = [apc EXCEPT ![t] = p],
         UNCHANGED <<group, found, counter, sizes, slot>>,
         \A s \in Threads : Queues(s)' = Queues(s)
  PROVE  /\ GroupsOK' /\ ReachedOK' /\ CountersOK'
         /\ V' = V /\ (\A s \in Threads \ {t} : apc'[s] = apc[s]) /\ apc'[t] = p
         /\ \A s \in Threads : apc'[s] # "idle"
<1> USE DEF Working, Kept
<1>1. (\A s \in Threads \ {t} : apc'[s] = apc[s]) /\ apc'[t] = p
  BY DEF AssignTypeOK
<1>2. V' = V
  BY DEF V, OfVersion
<1>3. \A x \in Nodes : (InQueue(x)' <=> InQueue(x)) /\ (Held(x)' <=> Held(x))
  <2>1. \A x \in Nodes : InQueue(x)' <=> InQueue(x)
    BY DEF InQueue
  <2>2. \A x \in Nodes : Held(x)' <=> Held(x)
    BY <1>1 DEF Held
  <2> QED BY <2>1, <2>2
<1>4. Slotted' = Slotted /\ (\A b : InBatch(b)' = InBatch(b))
  BY SlotsKept DEF InBatch
<1>5. GroupsOK'
  <2>1. \A s \in Threads : apc'[s] \in {"add", "size"} =>
          group[s] # {} /\ group[s] \subseteq V /\ \A x, y \in group[s] : parent[x] = parent[y]
    BY <1>1 DEF AssignOK, GroupsOK
  <2>2. \A r, s \in Threads : apc'[r] \in {"add", "size"} /\ apc'[s] \in {"add", "size"} /\ r # s =>
          group[r] \intersect group[s] = {}
    BY <1>1 DEF AssignOK, GroupsOK
  <2>3. \A s \in Threads : apc'[s] = "size" => group[s] \subseteq InBatch(found[s])
    BY <1>1 DEF AssignOK, GroupsOK
  <2>4. \A x \in Nodes : (InQueue(x) => ~Held(x) /\ x \notin Slotted) /\ (Held(x) => x \notin Slotted)
    BY DEF AssignOK, GroupsOK
  <2>5. Slotted \subseteq V
    BY DEF AssignOK, GroupsOK
  <2> QED BY <1>2, <1>3, <1>4, <2>1, <2>2, <2>3, <2>4, <2>5 DEF GroupsOK
<1>6. ReachedOK'
  <2>1. \A x \in V : x \in Nodes /\ parent[x] \in Nodes
    BY OfTheVersion
  <2> QED BY <1>2, <1>3, <1>4, <2>1 DEF AssignOK, ReachedOK
<1>7. CountersOK'
  <2>1. Uncounted' = Uncounted
    BY <1>1 DEF Uncounted
  <2> QED BY <1>4, <2>1 DEF AssignOK, CountersOK
<1>8. \A s \in Threads : apc'[s] # "idle"
  BY <1>1 DEF AssignOK
<1> QED BY <1>1, <1>2, <1>5, <1>6, <1>7, <1>8

\* What FilledOK says of numbers that need not be those of the state.
LEMMA FilledAgain ==
  ASSUME Working, slot' = slot, AssignTypeOK', Filled(high_water_mark'),
         \A s \in Threads : /\ Filled(batch_index'[s]) /\ Filled(raise'[s])
                            /\ apc'[s] \in {"add", "size", "raise"} => Filled(found'[s])
                            /\ apc'[s] \in {"size", "raise"} => InBatch(found'[s]) # {}
                            /\ apc'[s] = "swap" => InBatch(batch_index'[s]) # {}
  PROVE  FilledOK'
<1> USE DEF Working
<1>1. Slotted' = Slotted /\ (\A b : InBatch(b)' = InBatch(b)) /\ \A n \in Int : (\A b \in 0..(n - 1) : InBatch(b)' # {}) <=> Filled(n)
  BY SlotsKept DEF InBatch
<1>2. \A s \in Threads : batch_index'[s] \in Int /\ raise'[s] \in Int /\ found'[s] \in Int
  BY DEF AssignTypeOK, Lowest
<1>3. \A v \in Slotted : slot[v].batch \in Int /\ Filled(slot[v].batch)
  BY DEF AssignTypeOK, AssignOK, FilledOK, Slotted, Lowest
<1>4. high_water_mark' \in Int
  BY DEF AssignTypeOK
<1> QED BY <1>1, <1>2, <1>3, <1>4 DEF FilledOK, Filled

\* increaseHighWaterMark, to the batch that was found.
LEMMA AssignRaise ==
  ASSUME Working, Kept, NEW t \in Threads, RaiseHighWaterMark(t)
  PROVE  AssignTypeOK' /\ AssignOK'
<1> USE DEF Working
<1> DEFINE p == IF pq[t] = {} THEN "swap" ELSE "pop"
<1>1. /\ apc[t] = "raise" /\ high_water_mark' = Max({high_water_mark, raise[t]})
      /\ batch_index' = [batch_index EXCEPT ![t] = found[t]]
      /\ apc' = [apc EXCEPT ![t] = p]
      /\ UNCHANGED <<pq, next_pq, group, found, raise, counter, sizes, slot>>
  BY DEF RaiseHighWaterMark
<1>2. p \in Steps \ {"idle", "add", "size"}
  BY DEF Steps
<1>3. \A s \in Threads : Queues(s)' = Queues(s)
  BY <1>1 DEF Queues
<1>4. /\ GroupsOK' /\ ReachedOK' /\ CountersOK'
      /\ V' = V /\ (\A s \in Threads \ {t} : apc'[s] = apc[s]) /\ apc'[t] = p
      /\ \A s \in Threads : apc'[s] # "idle"
  <2> HIDE DEF p
  <2> QED BY <1>1, <1>2, <1>3, AssignMovesOn
<1>5. high_water_mark' \in {high_water_mark, raise[t]} /\ high_water_mark' \in Nat
  <2>1. high_water_mark \in Nat /\ high_water_mark \in Int /\ raise[t] \in Int
    BY DEF AssignTypeOK, Lowest
  <2>2. /\ Max({high_water_mark, raise[t]}) \in {high_water_mark, raise[t]}
        /\ Max({high_water_mark, raise[t]}) >= high_water_mark
    BY ONLY <2>1, LargerOne, Zenon
  <2> QED BY ONLY <1>1, <2>1, <2>2
<1>6. AssignTypeOK'
  BY <1>1, <1>2, <1>5, Kept DEF AssignTypeOK, Kept
<1>7. QueuesOK'
  BY <1>1, <1>3, <1>4, Kept DEF AssignOK, QueuesOK, Kept
<1>8. FilledOK'
  <2>1. (\A s \in Threads \ {t} : batch_index'[s] = batch_index[s]) /\ batch_index'[t] = found[t]
    BY <1>1 DEF AssignTypeOK
  <2>2. Filled(high_water_mark')
    BY <1>5 DEF AssignOK, FilledOK
  <2>3. Filled(found[t]) /\ InBatch(found[t]) # {}
    BY <1>1 DEF AssignOK, FilledOK
  <2>4. \A s \in Threads : /\ Filled(batch_index'[s]) /\ Filled(raise'[s])
                           /\ apc'[s] \in {"add", "size", "raise"} => Filled(found'[s])
                           /\ apc'[s] \in {"size", "raise"} => InBatch(found'[s]) # {}
                           /\ apc'[s] = "swap" => InBatch(batch_index'[s]) # {}
    BY <1>1, <1>4, <2>1, <2>3 DEF AssignOK, FilledOK
  <2> QED BY <1>1, <1>6, <2>2, <2>4, FilledAgain
<1> QED BY <1>4, <1>6, <1>7, <1>8 DEF AssignOK

\* The queue of the level is empty, so all groups of it have batches.
LEMMA AssignSwap ==
  ASSUME Working, Kept, NEW t \in Threads, SwapLevel(t)
  PROVE  AssignTypeOK' /\ AssignOK'
<1> USE DEF Working
<1>1. /\ apc[t] = "swap" /\ pq' = [pq EXCEPT ![t] = next_pq[t]]
      /\ next_pq' = [next_pq EXCEPT ![t] = {}]
      /\ batch_index' = [batch_index EXCEPT ![t] = @ + 1]
      /\ apc' = [apc EXCEPT ![t] = "scan"]
      /\ UNCHANGED <<group, found, raise, high_water_mark, counter, sizes, slot>>
  BY DEF SwapLevel, assigner
<1>2. "scan" \in Steps \ {"idle", "add", "size"}
  BY DEF Steps
<1>3. /\ pq'[t] = next_pq[t] /\ next_pq'[t] = {} /\ pq[t] = {}
      /\ \A s \in Threads \ {t} : pq'[s] = pq[s] /\ next_pq'[s] = next_pq[s]
  BY <1>1 DEF AssignTypeOK, AssignOK, QueuesOK
<1>4. \A s \in Threads : Queues(s)' = Queues(s)
  BY <1>3 DEF Queues
<1>5. /\ GroupsOK' /\ ReachedOK' /\ CountersOK'
      /\ V' = V /\ (\A s \in Threads \ {t} : apc'[s] = apc[s]) /\ apc'[t] = "scan"
      /\ \A s \in Threads : apc'[s] # "idle"
  BY <1>1, <1>2, <1>4, AssignMovesOn
<1>6. AssignTypeOK'
  BY <1>1, <1>2, Kept DEF AssignTypeOK, Kept
<1>7. QueuesOK'
  BY <1>3, <1>4, <1>5, Kept DEF AssignOK, QueuesOK, Kept
<1>8. FilledOK'
  <2>1. (\A s \in Threads \ {t} : batch_index'[s] = batch_index[s]) /\ batch_index'[t] = batch_index[t] + 1
    BY <1>1 DEF AssignTypeOK
  <2>2. Filled(batch_index[t] + 1)
    <3>1. Filled(batch_index[t]) /\ InBatch(batch_index[t]) # {} /\ batch_index[t] \in Nat
      BY <1>1 DEF AssignOK, FilledOK, AssignTypeOK
    <3> QED BY <3>1 DEF Filled
  <2>3. \A s \in Threads : /\ Filled(batch_index'[s]) /\ Filled(raise'[s])
                           /\ apc'[s] \in {"add", "size", "raise"} => Filled(found'[s])
                           /\ apc'[s] \in {"size", "raise"} => InBatch(found'[s]) # {}
                           /\ apc'[s] = "swap" => InBatch(batch_index'[s]) # {}
    BY <1>1, <1>5, <2>1, <2>2 DEF AssignOK, FilledOK
  <2>4. Filled(high_water_mark')
    BY <1>1 DEF AssignOK, FilledOK
  <2> QED BY <1>1, <1>6, <2>3, <2>4, FilledAgain
<1> QED BY <1>5, <1>6, <1>7, <1>8 DEF AssignOK

\* The minimum of the batch indices is one of them.
LEMMA AssignScan ==
  ASSUME Working, Kept, NEW t \in Threads, ScanBatchIndices(t)
  PROVE  AssignTypeOK' /\ AssignOK'
<1> USE DEF Working
<1>1. /\ apc[t] = "scan" /\ raise' = [raise EXCEPT ![t] = Min(Range(batch_index))]
      /\ apc' = [apc EXCEPT ![t] = "transmit"]
      /\ UNCHANGED <<pq, next_pq, group, batch_index, found, high_water_mark, counter, sizes, slot>>
  BY DEF ScanBatchIndices, assigner
<1>2. "transmit" \in Steps \ {"idle", "add", "size"}
  BY DEF Steps
<1>3. \A s \in Threads : Queues(s)' = Queues(s)
  BY <1>1 DEF Queues
<1>4. /\ GroupsOK' /\ ReachedOK' /\ CountersOK'
      /\ V' = V /\ (\A s \in Threads \ {t} : apc'[s] = apc[s]) /\ apc'[t] = "transmit"
      /\ \A s \in Threads : apc'[s] # "idle"
  BY <1>1, <1>2, <1>3, AssignMovesOn
<1>5. \E s \in Threads : Min(Range(batch_index)) = batch_index[s]
  <2> DEFINE R == Range(batch_index)
  <2>1. R = {batch_index[s] : s \in Threads}
    BY DEF Range, AssignTypeOK
  <2>2. batch_index \in Surjection(Threads, R)
    BY <2>1 DEF Surjection, AssignTypeOK
  <2>3. IsFiniteSet(R)
    <3> HIDE DEF R
    <3> QED BY <2>2, HierarchyAssumption, FS_Surjection
  <2>4. R # {} /\ R \subseteq Int
    BY <2>1, HierarchyAssumption DEF AssignTypeOK
  <2>5. Min(R) \in R
    <3> HIDE DEF R
    <3> QED BY <2>3, <2>4, SmallestElement
  <2> QED BY <2>1, <2>5
<1>6. AssignTypeOK'
  <2>1. raise' \in [Threads -> Nat \union {Lowest}]
    BY <1>1, <1>5 DEF AssignTypeOK
  <2> QED BY <1>1, <1>2, <2>1, Kept DEF AssignTypeOK, Kept
<1>7. QueuesOK'
  BY <1>1, <1>3, <1>4, Kept DEF AssignOK, QueuesOK, Kept
<1>8. FilledOK'
  <2>1. (\A s \in Threads \ {t} : raise'[s] = raise[s]) /\ \E s \in Threads : raise'[t] = batch_index[s]
    BY <1>1, <1>5 DEF AssignTypeOK
  <2>2. \A s \in Threads : Filled(raise'[s])
    BY <2>1 DEF AssignOK, FilledOK
  <2>3. \A s \in Threads : /\ Filled(batch_index'[s]) /\ Filled(raise'[s])
                           /\ apc'[s] \in {"add", "size", "raise"} => Filled(found'[s])
                           /\ apc'[s] \in {"size", "raise"} => InBatch(found'[s]) # {}
                           /\ apc'[s] = "swap" => InBatch(batch_index'[s]) # {}
    BY <1>1, <1>4, <2>2 DEF AssignOK, FilledOK
  <2>4. Filled(high_water_mark')
    BY <1>1 DEF AssignOK, FilledOK
  <2> QED BY <1>1, <1>6, <2>3, <2>4, FilledAgain
<1> QED BY <1>4, <1>6, <1>7, <1>8 DEF AssignOK

\* The minimum is transmitted to the assigner.
LEMMA AssignTransmit ==
  ASSUME Working, Kept, NEW t \in Threads, TransmitMinimum(t)
  PROVE  AssignTypeOK' /\ AssignOK'
<1> USE DEF Working
<1>1. /\ apc[t] = "transmit" /\ high_water_mark' = Max({high_water_mark, raise[t]})
      /\ apc' = [apc EXCEPT ![t] = "pop"]
      /\ UNCHANGED <<pq, next_pq, group, batch_index, found, raise, counter, sizes, slot>>
  BY DEF TransmitMinimum
<1>2. "pop" \in Steps \ {"idle", "add", "size"}
  BY DEF Steps
<1>3. \A s \in Threads : Queues(s)' = Queues(s)
  BY <1>1 DEF Queues
<1>4. /\ GroupsOK' /\ ReachedOK' /\ CountersOK'
      /\ V' = V /\ (\A s \in Threads \ {t} : apc'[s] = apc[s]) /\ apc'[t] = "pop"
      /\ \A s \in Threads : apc'[s] # "idle"
  BY <1>1, <1>2, <1>3, AssignMovesOn
<1>5. high_water_mark' \in {high_water_mark, raise[t]} /\ high_water_mark' \in Nat
  <2>1. high_water_mark \in Nat /\ high_water_mark \in Int /\ raise[t] \in Int
    BY DEF AssignTypeOK, Lowest
  <2>2. /\ Max({high_water_mark, raise[t]}) \in {high_water_mark, raise[t]}
        /\ Max({high_water_mark, raise[t]}) >= high_water_mark
    BY ONLY <2>1, LargerOne, Zenon
  <2> QED BY ONLY <1>1, <2>1, <2>2
<1>6. AssignTypeOK'
  BY <1>1, <1>2, <1>5, Kept DEF AssignTypeOK, Kept
<1>7. QueuesOK'
  BY <1>1, <1>3, <1>4, Kept DEF AssignOK, QueuesOK, Kept
<1>8. FilledOK'
  <2>2. Filled(high_water_mark')
    BY <1>5 DEF AssignOK, FilledOK
  <2>3. \A s \in Threads : /\ Filled(batch_index'[s]) /\ Filled(raise'[s])
                           /\ apc'[s] \in {"add", "size", "raise"} => Filled(found'[s])
                           /\ apc'[s] \in {"size", "raise"} => InBatch(found'[s]) # {}
                           /\ apc'[s] = "swap" => InBatch(batch_index'[s]) # {}
    BY <1>1, <1>4 DEF AssignOK, FilledOK
  <2> QED BY <1>1, <1>6, <2>2, <2>3, FilledAgain
<1> QED BY <1>4, <1>6, <1>7, <1>8 DEF AssignOK

\* The batch that is tried is full: the next one is tried.
LEMMA AssignTryNext ==
  ASSUME Working, Kept, NEW t \in Threads, FetchAdd(t), ~(counter[found[t]] < MaxBatchSize)
  PROVE  AssignTypeOK' /\ AssignOK'
<1> USE DEF Working
<1>1. /\ apc[t] = "add"
      /\ counter' = [counter EXCEPT ![found[t]] = @ + Cardinality(group[t])]
      /\ found' = [found EXCEPT ![t] = found[t] + 1]
      /\ UNCHANGED <<slot, apc, pq, next_pq, group, batch_index, raise, high_water_mark, sizes>>
  BY DEF FetchAdd
<1>2. group[t] \subseteq Nodes /\ group[t] # {} /\ found[t] \in Nat /\ Filled(found[t])
  BY <1>1 DEF AssignOK, GroupsOK, FilledOK, AssignTypeOK
<1>3. found[t] \in Batches
  BY <1>2, FilledBound
<1>4. IsFiniteSet(group[t]) /\ Cardinality(group[t]) \in Nat
  BY <1>2, NodesFinite, FS_CardinalityType
<1>5. MaxBatchSize \in Nat /\ MaxBatchSize > 0
  BY HierarchyAssumption
<1>6. counter[found[t]] \in Nat /\ counter[found[t]] >= MaxBatchSize
  BY <1>3, <1>5 DEF AssignTypeOK
<1>7. InBatch(found[t]) # {}
  <2>1. counter[found[t]] > 0 <=> InBatch(found[t]) # {}
    BY <1>3 DEF AssignOK, CountersOK
  <2> QED BY ONLY <1>5, <1>6, <2>1
<1>8. Filled(found[t] + 1)
  BY <1>2, <1>7 DEF Filled
<1>9. AssignTypeOK'
  <2>1. counter' \in [Batches -> Nat]
    BY <1>1, <1>3, <1>4 DEF AssignTypeOK
  <2>2. found' \in [Threads -> Nat]
    BY <1>1, <1>2 DEF AssignTypeOK
  <2> QED BY <1>1, <2>1, <2>2, Kept DEF AssignTypeOK, Kept
<1>10. V' = V /\ \A s \in Threads : Queues(s)' = Queues(s)
  BY <1>1, Kept DEF V, OfVersion, Queues, Kept
<1>11. QueuesOK'
  BY <1>1, <1>10, Kept DEF AssignOK, QueuesOK, Kept
<1>12. Slotted' = Slotted /\ (\A b : InBatch(b)' = InBatch(b)) /\ Uncounted' = Uncounted
  BY <1>1 DEF Slotted, InBatch, Uncounted
<1>13. \A x : (InQueue(x)' <=> InQueue(x)) /\ (Held(x)' <=> Held(x))
  BY <1>1, <1>10 DEF InQueue, Held
<1>14. \A s \in Threads \ {t} : found'[s] = found[s]
  BY <1>1 DEF AssignTypeOK
<1>15. GroupsOK'
  <2>1. \A s \in Threads : apc[s] = "size" => group[s] \subseteq InBatch(found'[s])
    BY <1>1, <1>14 DEF AssignOK, GroupsOK
  <2> QED BY <1>1, <1>10, <1>12, <1>13, <2>1, Kept DEF AssignOK, GroupsOK, Kept
<1>16. ReachedOK'
  BY <1>10, <1>12, <1>13, Kept DEF AssignOK, ReachedOK, Kept
<1>17. CountersOK'
  <2> SUFFICES ASSUME NEW b \in Batches
               PROVE  /\ counter'[b] < MaxBatchSize => counter'[b] = Cardinality(InBatch(b))
                      /\ counter'[b] > 0 <=> InBatch(b) # {}
    BY <1>1, <1>12 DEF AssignOK, CountersOK
  <2>1. CASE b = found[t]
    <3>1. counter'[b] >= MaxBatchSize /\ counter'[b] \in Nat
      BY <1>1, <1>3, <1>4, <1>5, <1>6, <2>1 DEF AssignTypeOK
    <3> QED BY <1>5, <1>7, <2>1, <3>1
  <2>2. CASE b # found[t]
    BY <1>1, <2>2 DEF AssignOK, CountersOK, AssignTypeOK
  <2> QED BY <2>1, <2>2
<1>18. FilledOK'
  <2>1. found'[t] = found[t] + 1
    BY <1>1 DEF AssignTypeOK
  <2>2. \A s \in Threads : /\ Filled(batch_index'[s]) /\ Filled(raise'[s])
                           /\ apc'[s] \in {"add", "size", "raise"} => Filled(found'[s])
                           /\ apc'[s] \in {"size", "raise"} => InBatch(found'[s]) # {}
                           /\ apc'[s] = "swap" => InBatch(batch_index'[s]) # {}
    BY <1>1, <1>8, <1>14, <2>1 DEF AssignOK, FilledOK
  <2>3. Filled(high_water_mark')
    BY <1>1 DEF AssignOK, FilledOK
  <2> QED BY <1>1, <1>9, <2>2, <2>3, FilledAgain
<1> QED BY <1>1, <1>9, <1>11, <1>15, <1>16, <1>17, <1>18 DEF AssignOK

\* What a successful fetch_add does to the slots.
LEMMA FetchAddSlots ==
  ASSUME Working, Kept, NEW t \in Threads, FetchAdd(t), counter[found[t]] < MaxBatchSize
  PROVE  /\ apc[t] = "add" /\ apc'[t] = "size" /\ \A s \in Threads \ {t} : apc'[s] = apc[s]
         /\ UNCHANGED <<pq, next_pq, group, batch_index, found, raise, high_water_mark, sizes>>
         /\ group[t] \subseteq V /\ group[t] \subseteq Nodes /\ group[t] # {} /\ group[t] \intersect Slotted = {}
         /\ IsFiniteSet(group[t]) /\ Cardinality(group[t]) \in Nat
         /\ found[t] \in Batches /\ Filled(found[t]) /\ counter[found[t]] \in Nat
         /\ Slotted' = Slotted \union group[t]
         /\ InBatch(found[t])' = InBatch(found[t]) \union group[t]
         /\ \A b \in Nat \ {found[t]} : InBatch(b)' = InBatch(b)
         /\ \A x \in Nodes \ group[t] : slot'[x] = slot[x]
         /\ \A x \in group[t] : slot'[x].batch = found[t] /\ slot'[x].pos = counter[found[t]] + Cardinality(Before(group[t], x))
         /\ AssignTypeOK' /\ V' = V
<1> USE DEF Working
<1>1. /\ apc[t] = "add" /\ apc' = [apc EXCEPT ![t] = "size"]
      /\ counter' = [counter EXCEPT ![found[t]] = @ + Cardinality(group[t])]
      /\ slot' = [v \in Nodes |->
                    IF v \in group[t]
                    THEN [batch |-> found[t], pos |-> counter[found[t]] + Cardinality(Before(group[t], v))]
                    ELSE slot[v]]
      /\ UNCHANGED <<pq, next_pq, group, batch_index, found, raise, high_water_mark, sizes>>
  BY DEF FetchAdd
<1>2. group[t] \subseteq V /\ group[t] \subseteq Nodes /\ group[t] # {} /\ found[t] \in Nat /\ Filled(found[t])
  BY <1>1 DEF AssignOK, GroupsOK, FilledOK, AssignTypeOK
<1>3. found[t] \in Batches
  BY <1>2, FilledBound
<1>4. IsFiniteSet(group[t]) /\ Cardinality(group[t]) \in Nat
  BY <1>2, NodesFinite, FS_CardinalityType
<1>5. counter[found[t]] \in Nat
  BY <1>3 DEF AssignTypeOK
<1>6. apc'[t] = "size" /\ \A s \in Threads \ {t} : apc'[s] = apc[s]
  BY <1>1 DEF AssignTypeOK
<1>7. group[t] \intersect Slotted = {}
  <2>1. \A x \in group[t] : Held(x)
    BY <1>1 DEF Held
  <2> QED BY <1>2, <2>1 DEF AssignOK, GroupsOK
<1>8. \A x \in group[t] : Cardinality(Before(group[t], x)) \in Nat
  <2>1. \A x \in group[t] : Before(group[t], x) \in SUBSET Nodes
    BY <1>2 DEF Before
  <2> QED BY <2>1, NodesFinite, FS_CardinalityType
<1>9. AssignTypeOK'
  <2>1. slot' \in [Nodes -> [batch : Nat \union {Lowest}, pos : Nat \union {Lowest}]]
    BY <1>1, <1>2, <1>5, <1>8 DEF AssignTypeOK
  <2>2. counter' \in [Batches -> Nat]
    BY <1>1, <1>3, <1>4, <1>5 DEF AssignTypeOK
  <2>3. apc' \in [Threads -> Steps]
    BY <1>1 DEF AssignTypeOK, Steps
  <2> QED BY <1>1, <2>1, <2>2, <2>3, Kept DEF AssignTypeOK, Kept
<1>10. /\ \A x \in Nodes \ group[t] : slot'[x] = slot[x]
       /\ \A x \in group[t] : slot'[x].batch = found[t] /\ slot'[x].pos = counter[found[t]] + Cardinality(Before(group[t], x))
  BY <1>1, <1>2
<1>11. Slotted' = Slotted \union group[t]
  BY <1>2, <1>10 DEF Slotted, Lowest
<1>12. InBatch(found[t])' = InBatch(found[t]) \union group[t]
  BY <1>1, <1>2, <1>10 DEF InBatch
<1>13. \A b \in Nat \ {found[t]} : InBatch(b)' = InBatch(b)
  BY <1>2, <1>7, <1>10 DEF InBatch, Slotted, Lowest
<1>14. V' = V
  BY Kept DEF Kept, V, OfVersion
<1> QED BY <1>1, <1>2, <1>3, <1>4, <1>5, <1>6, <1>7, <1>9, <1>10, <1>11, <1>12, <1>13, <1>14

\* The group gets the positions from the counter on, in the batch that was tried.
LEMMA AssignGroup ==
  ASSUME Working, Kept, NEW t \in Threads, FetchAdd(t), counter[found[t]] < MaxBatchSize
  PROVE  AssignTypeOK' /\ AssignOK'
<1> USE DEF Working
<1> SUFFICES ASSUME NEW bt, bt = found[t], NEW G, G = group[t] PROVE AssignTypeOK' /\ AssignOK'
  OBVIOUS
<1>1. /\ apc[t] = "add" /\ apc'[t] = "size" /\ \A s \in Threads \ {t} : apc'[s] = apc[s]
      /\ UNCHANGED <<pq, next_pq, group, batch_index, found, raise, high_water_mark, sizes>>
      /\ G \subseteq V /\ G \subseteq Nodes /\ G # {} /\ G \intersect Slotted = {}
      /\ IsFiniteSet(G) /\ Cardinality(G) \in Nat
      /\ bt \in Batches /\ Filled(bt) /\ counter[bt] \in Nat
  BY FetchAddSlots
<1>2. /\ Slotted' = Slotted \union G
      /\ InBatch(bt)' = InBatch(bt) \union G
      /\ \A b \in Nat \ {bt} : InBatch(b)' = InBatch(b)
      /\ \A x \in Nodes \ G : slot'[x] = slot[x]
      /\ \A x \in G : slot'[x].batch = bt /\ slot'[x].pos = counter[bt] + Cardinality(Before(G, x))
      /\ AssignTypeOK' /\ V' = V
  BY FetchAddSlots
<1>3. counter' = [counter EXCEPT ![bt] = @ + Cardinality(G)]
  BY DEF FetchAdd
<1>4. bt \in Nat /\ \A b \in Nat : InBatch(b) \subseteq InBatch(b)'
  BY <1>1, <1>2 DEF Batches
<1>5. \A s \in Threads : Queues(s)' = Queues(s)
  BY <1>1 DEF Queues
<1>6. QueuesOK'
  BY <1>1, <1>2, <1>5, Kept DEF AssignOK, QueuesOK, Kept
<1>7. \A x : InQueue(x)' <=> InQueue(x)
  BY <1>5 DEF InQueue
<1>8. \A x : Held(x) <=> Held(x)' \/ x \in G
  BY <1>1 DEF Held
<1>9. \A x \in G : ~(\E s \in Threads : apc'[s] = "add" /\ x \in group[s])
  <2>1. \A s \in Threads \ {t} : apc[s] = "add" => group[s] \intersect G = {}
    BY <1>1 DEF AssignOK, GroupsOK
  <2> QED BY <1>1, <2>1
<1>10. \A x \in G : ~Held(x)'
  BY <1>1, <1>9 DEF Held
<1>11. GroupsOK'
  <2>1. \A s \in Threads : apc'[s] \in {"add", "size"} => apc[s] \in {"add", "size"}
    BY <1>1
  <2>2. \A s \in Threads : apc'[s] \in {"add", "size"} =>
          group[s] # {} /\ group[s] \subseteq V /\ \A x, y \in group[s] : parent[x] = parent[y]
    BY <2>1 DEF AssignOK, GroupsOK
  <2>3. \A r, s \in Threads : apc'[r] \in {"add", "size"} /\ apc'[s] \in {"add", "size"} /\ r # s =>
          group[r] \intersect group[s] = {}
    BY <2>1 DEF AssignOK, GroupsOK
  <2>4. \A s \in Threads : apc'[s] = "size" => group[s] \subseteq InBatch(found[s])'
    <3>1. group[t] \subseteq InBatch(found[t])'
      BY <1>1, <1>2
    <3>2. \A s \in Threads \ {t} : apc'[s] = "size" => group[s] \subseteq InBatch(found[s])
      BY <1>1 DEF AssignOK, GroupsOK
    <3>3. \A s \in Threads : InBatch(found[s]) \subseteq InBatch(found[s])'
      <4>1. \A s \in Threads : found[s] \in Nat
        BY DEF AssignTypeOK
      <4> QED BY <1>1, <1>4, <4>1 DEF InBatch
    <3> QED BY <3>1, <3>2, <3>3
  <2>5. \A x \in Nodes : (InQueue(x) => ~Held(x)' /\ x \notin Slotted') /\ (Held(x)' => x \notin Slotted')
    <3>1. \A x \in Nodes : (InQueue(x) => ~Held(x) /\ x \notin Slotted) /\ (Held(x) => x \notin Slotted)
      BY DEF AssignOK, GroupsOK
    <3> QED BY <1>2, <1>8, <1>10, <3>1
  <2>6. Slotted' \subseteq V
    BY <1>1, <1>2 DEF AssignOK, GroupsOK
  <2> QED BY <1>1, <1>2, <1>7, <2>2, <2>3, <2>4, <2>5, <2>6, Kept DEF GroupsOK, Kept
<1>12. ReachedOK'
  <2>1. \A x : (Held(x) \/ x \in Slotted) <=> (Held(x)' \/ x \in Slotted')
    BY <1>2, <1>8
  <2> QED BY <1>2, <1>7, <2>1, Kept DEF AssignOK, ReachedOK, Kept
<1>13. CountersOK'
  <2>1. G \intersect InBatch(bt) = {} /\ G \intersect Uncounted = {} /\ Uncounted' = Uncounted \union G
    <3>1. G \intersect InBatch(bt) = {}
      BY <1>1, <1>4 DEF Slotted, InBatch, Lowest
    <3>2. \A s \in Threads : apc[s] = "size" => group[s] \intersect G = {}
      BY <1>1 DEF AssignOK, GroupsOK
    <3>3. Uncounted' = Uncounted \union G
      BY <1>1 DEF Uncounted
    <3> QED BY <3>1, <3>2, <3>3 DEF Uncounted
  <2> SUFFICES ASSUME NEW b \in Batches
               PROVE  /\ counter'[b] < MaxBatchSize => counter'[b] = Cardinality(InBatch(b)')
                      /\ counter'[b] > 0 <=> InBatch(b)' # {}
                      /\ {slot'[v].pos : v \in InBatch(b)'} = 0..(Cardinality(InBatch(b)') - 1)
                      /\ sizes[b] = Cardinality(InBatch(b)' \ Uncounted')
    BY <1>1 DEF CountersOK
  <2>2. /\ counter[b] < MaxBatchSize => counter[b] = Cardinality(InBatch(b))
        /\ counter[b] > 0 <=> InBatch(b) # {}
        /\ {slot[v].pos : v \in InBatch(b)} = 0..(Cardinality(InBatch(b)) - 1)
        /\ sizes[b] = Cardinality(InBatch(b) \ Uncounted)
    BY DEF AssignOK, CountersOK
  <2>3. InBatch(b) \subseteq Nodes
    BY DEF InBatch
  <2>4. sizes[b] = Cardinality(InBatch(b)' \ Uncounted')
    <3>1. InBatch(b) \ Uncounted = InBatch(b)' \ Uncounted'
      <4>1. CASE b = bt
        BY <1>2, <2>1, <4>1
      <4>2. CASE b # bt
        <5>1. G \intersect InBatch(b) = {}
          BY <1>1 DEF Slotted, InBatch, Lowest, Batches
        <5>2. InBatch(b)' = InBatch(b)
          BY <1>2, <4>2 DEF Batches
        <5> QED BY <2>1, <5>1, <5>2
      <4> QED BY <4>1, <4>2
    <3> QED BY <2>2, <3>1
  <2>5. CASE b # bt
    <3>1. InBatch(b)' = InBatch(b)
      BY <1>2, <2>5 DEF Batches
    <3>2. counter'[b] = counter[b]
      BY <1>3, <2>5 DEF AssignTypeOK
    <3>3. \A v \in InBatch(b) : slot'[v] = slot[v]
      <4>1. \A v \in InBatch(b) : v \in Nodes /\ v \notin G
        BY <1>1 DEF InBatch, Slotted, Lowest, Batches
      <4> QED BY <1>2, <4>1
    <3>4. {slot'[v].pos : v \in InBatch(b)} = {slot[v].pos : v \in InBatch(b)}
      BY <3>3
    <3> QED BY <2>2, <2>4, <3>1, <3>2, <3>4
  <2>6. CASE b = bt
    <3> DEFINE c == Cardinality(InBatch(bt))
               g == Cardinality(G)
    <3>1. counter[bt] = c /\ c \in Nat /\ g \in Nat
      BY <1>1, <2>2, <2>6
    <3>2. Cardinality(InBatch(bt) \union G) = c + g
      <4>1. IsFiniteSet(InBatch(bt))
        BY <2>3, <2>6, NodesFinite
      <4>2. Cardinality(InBatch(bt) \union G) = c + g - Cardinality(InBatch(bt) \intersect G)
        BY <1>1, <4>1, FS_Union
      <4>3. Cardinality(InBatch(bt) \intersect G) = 0
        BY <2>1, FS_EmptySet
      <4> QED BY <3>1, <4>2, <4>3
    <3>3. counter'[bt] = c + g
      BY <1>1, <1>3, <3>1 DEF AssignTypeOK
    <3>4. g > 0
      BY <1>1, <3>1, FS_EmptySet
    <3>5. InBatch(bt)' # {}
      BY <1>1, <1>2
    <3>6. {slot'[v].pos : v \in InBatch(bt) \union G} = 0..(c + g - 1)
      <4>1. {slot'[v].pos : v \in InBatch(bt)} = {slot[v].pos : v \in InBatch(bt)}
        <5>1. \A v \in InBatch(bt) : slot'[v] = slot[v]
          BY <1>2, <2>1, <2>3, <2>6
        <5> QED BY <5>1
      <4>2. {slot'[v].pos : v \in G} = {c + Cardinality(Before(G, v)) : v \in G}
        BY <1>2, <3>1
      <4>3. {Cardinality(Before(G, v)) : v \in G} = 0..(g - 1)
        <5>1. G \in SUBSET V
          BY <1>1
        <5> QED BY <5>1, Ranks
      <4>4. {c + Cardinality(Before(G, v)) : v \in G} = c..(c + g - 1)
        <5> HIDE DEF c, g
        <5>1. ASSUME NEW i \in c..(c + g - 1) PROVE \E v \in G : i = c + Cardinality(Before(G, v))
          <6>1. i - c \in 0..(g - 1)
            BY <3>1
          <6>2. PICK v \in G : i - c = Cardinality(Before(G, v))
            BY <4>3, <6>1
          <6> QED BY <3>1, <6>1, <6>2
        <5>2. ASSUME NEW v \in G PROVE c + Cardinality(Before(G, v)) \in c..(c + g - 1)
          <6>1. Cardinality(Before(G, v)) \in 0..(g - 1)
            BY <4>3
          <6> QED BY <3>1, <6>1
        <5> QED BY <5>1, <5>2
      <4>5. 0..(c - 1) \union c..(c + g - 1) = 0..(c + g - 1)
        <5> HIDE DEF c, g
        <5> QED BY <3>1
      <4>6. {slot'[v].pos : v \in InBatch(bt)} = 0..(c - 1)
        BY <2>2, <2>6, <4>1
      <4>7. {slot'[v].pos : v \in G} = c..(c + g - 1)
        BY <4>2, <4>4
      <4>8. {slot'[v].pos : v \in InBatch(bt) \union G} = {slot'[v].pos : v \in InBatch(bt)} \union {slot'[v].pos : v \in G}
        OBVIOUS
      <4> HIDE DEF c, g
      <4> QED BY <4>5, <4>6, <4>7, <4>8
    <3> HIDE DEF c, g
    <3>7. InBatch(bt)' = InBatch(bt) \union G
      BY <1>2
    <3>8. counter'[bt] > 0 /\ counter'[bt] = Cardinality(InBatch(bt)')
      BY <3>1, <3>2, <3>3, <3>4, <3>7
    <3>9. {slot'[v].pos : v \in InBatch(bt)'} = 0..(Cardinality(InBatch(bt)') - 1)
      <4>1. {slot'[v].pos : v \in InBatch(bt)'} = {slot'[v].pos : v \in InBatch(bt) \union G}
        BY ONLY <3>7, Zenon
      <4>2. Cardinality(InBatch(bt)') = c + g
        BY ONLY <3>2, <3>7, Zenon
      <4> DEFINE P == {slot'[v].pos : v \in InBatch(bt)'}
                 n == Cardinality(InBatch(bt)')
      <4>3. P = 0..(c + g - 1)
        BY ONLY <3>6, <4>1, Zenon
      <4>4. n = c + g
        BY <4>2
      <4>5. P = 0..(n - 1)
        <5> HIDE DEF P, n
        <5> QED BY ONLY <3>1, <4>3, <4>4
      <4> QED BY <4>5
    <3> QED BY <2>4, <2>6, <3>5, <3>8, <3>9
  <2> QED BY <2>5, <2>6
<1>14. FilledOK'
  <2>1. \A n \in Int : Filled(n) => \A b \in 0..(n - 1) : InBatch(b)' # {}
    BY <1>4 DEF Filled
  <2>2. \A s \in Threads : batch_index[s] \in Int /\ raise[s] \in Int /\ found[s] \in Int /\ found[s] \in Nat /\ batch_index[s] \in Nat
    BY DEF AssignTypeOK, Lowest
  <2>3. \A s \in Threads : /\ Filled(batch_index[s]) /\ Filled(raise[s])
                           /\ apc'[s] \in {"add", "size", "raise"} => Filled(found[s])
                           /\ apc'[s] \in {"size", "raise"} => InBatch(found[s])' # {}
                           /\ apc'[s] = "swap" => InBatch(batch_index[s])' # {}
    <3>1. \A s \in Threads : InBatch(found[s]) \subseteq InBatch(found[s])' /\ InBatch(batch_index[s]) \subseteq InBatch(batch_index[s])'
      BY <1>1, <1>4, <2>2 DEF InBatch
    <3>2. InBatch(found[t])' # {}
      BY <1>1, <1>2
    <3> QED BY <1>1, <3>1, <3>2 DEF AssignOK, FilledOK
  <2>4. high_water_mark \in Int /\ Filled(high_water_mark)
    BY DEF AssignTypeOK, AssignOK, FilledOK
  <2>5. \A v \in Slotted' : slot'[v].batch \in Int /\ Filled(slot'[v].batch)
    <3>1. \A v \in Slotted : v \in Nodes /\ slot[v].batch \in Int /\ Filled(slot[v].batch)
      <4>1. \A v \in Slotted : v \in Nodes /\ slot[v].batch \in Nat
        BY DEF AssignTypeOK, Slotted, Lowest
      <4> QED BY <4>1 DEF AssignOK, FilledOK
    <3> QED BY <1>1, <1>2, <1>4, <3>1
  <2> QED BY <1>1, <2>1, <2>2, <2>3, <2>4, <2>5 DEF FilledOK, Filled
<1>15. \A s \in Threads : apc'[s] # "idle"
  BY <1>1 DEF AssignOK
<1> QED BY <1>2, <1>6, <1>11, <1>12, <1>13, <1>14, <1>15 DEF AssignOK

\* The number of a batch at which the search starts: all batches below it have members.
LEMMA StartBatchFilled ==
  ASSUME Working, NEW t \in Threads
  PROVE  StartBatch(t) \in Nat /\ Filled(StartBatch(t)) /\ batch_index[t] <= StartBatch(t)
BY DEF StartBatch, Working, AssignTypeOK, AssignOK, FilledOK

\* What PopGroup takes from the queue, and what it puts there.
Taken(t, C) ==
  /\ group' = [group EXCEPT ![t] = Group(C)]
  /\ pq' = [pq EXCEPT ![t] = (@ \ {C}) \union ({C \ Group(C)} \ {{}})]
  /\ next_pq' = [next_pq EXCEPT ![t] = @ \union ({ChildsOfVersion(v, current) : v \in Group(C)} \ {{}})]

\* The children of the nodes that are taken were not reached before.
LEMMA TakenFacts ==
  ASSUME Working, Kept, NEW t \in Threads, NEW C \in pq[t], Taken(t, C)
  PROVE  /\ C \subseteq V /\ C # {} /\ Group(C) \subseteq C /\ Group(C) # {}
         /\ (\A x, y \in C : parent[x] = parent[y])
         /\ \A x \in C : InQueue(x) /\ ~Held(x) /\ x \notin Slotted
         /\ \A x \in V : parent[x] \in C => ~InQueue(x) /\ ~Held(x) /\ x \notin Slotted
         /\ \A s \in Threads \ {t} : pq'[s] = pq[s] /\ next_pq'[s] = next_pq[s] /\ group'[s] = group[s]
         /\ group'[t] = Group(C)
         /\ pq'[t] = (pq[t] \ {C}) \union ({C \ Group(C)} \ {{}})
         /\ next_pq'[t] = next_pq[t] \union ({{x \in V : parent[x] = v} : v \in Group(C)} \ {{}})
         /\ V' = V
<1> USE DEF Working
<1>1. C \in Queues(t)
  BY DEF Queues
<1>2. C \subseteq V /\ C # {} /\ \A x, y \in C : parent[x] = parent[y]
  BY <1>1 DEF AssignOK, QueuesOK
<1>3. Group(C) \subseteq C /\ Group(C) # {}
  <2>1. C \in SUBSET V
    BY <1>2
  <2> QED BY <1>2, <2>1, GroupFacts
<1>4. \A x \in C : x \in Nodes /\ x \in V
  BY <1>2, OfTheVersion
<1>5. \A x \in C : InQueue(x) /\ ~Held(x) /\ x \notin Slotted
  <2>1. \A x \in C : InQueue(x)
    BY <1>1 DEF InQueue
  <2> QED BY <1>4, <2>1 DEF AssignOK, GroupsOK
<1>6. \A x \in V : parent[x] \in C => ~InQueue(x) /\ ~Held(x) /\ x \notin Slotted
  BY <1>4, <1>5 DEF AssignOK, ReachedOK
<1>7. \A s \in Threads \ {t} : pq'[s] = pq[s] /\ next_pq'[s] = next_pq[s] /\ group'[s] = group[s]
  BY DEF Taken, AssignTypeOK
<1>8. group'[t] = Group(C) /\ pq'[t] = (pq[t] \ {C}) \union ({C \ Group(C)} \ {{}})
  BY DEF Taken, AssignTypeOK
<1>9. next_pq'[t] = next_pq[t] \union ({{x \in V : parent[x] = v} : v \in Group(C)} \ {{}})
  <2>1. \A v \in Group(C) : ChildsOfVersion(v, current) = {x \in V : parent[x] = v}
    BY <1>3, <1>4, ChildsOfTheVersion
  <2>2. next_pq'[t] = next_pq[t] \union ({ChildsOfVersion(v, current) : v \in Group(C)} \ {{}})
    BY DEF Taken, AssignTypeOK
  <2>3. {ChildsOfVersion(v, current) : v \in Group(C)} = {{x \in V : parent[x] = v} : v \in Group(C)}
    BY <2>1
  <2> QED BY <2>2, <2>3
<1>10. V' = V
  BY Kept DEF Kept, V, OfVersion
<1> QED BY <1>2, <1>3, <1>5, <1>6, <1>7, <1>8, <1>9, <1>10

\* What is in the queues after a group was taken.
LEMMA TakenQueues ==
  ASSUME Working, Kept, NEW t \in Threads, NEW C \in pq[t], Taken(t, C)
  PROVE  /\ \A s \in Threads : \A S : S \in Queues(s)' =>
              \/ S \in Queues(s) /\ ~(s = t /\ S = C)
              \/ s = t /\ S = C \ Group(C) /\ S # {}
              \/ s = t /\ S # {} /\ \E v \in Group(C) : S = {x \in V : parent[x] = v}
         /\ \A x : InQueue(x)' <=> (InQueue(x) /\ x \notin Group(C)) \/ (x \in V /\ parent[x] \in Group(C))
<1> USE DEF Working
<1> DEFINE G == Group(C)
           ch(v) == {x \in V : parent[x] = v}
<1>1. /\ C \subseteq V /\ C # {} /\ G \subseteq C /\ G # {}
      /\ \A s \in Threads \ {t} : pq'[s] = pq[s] /\ next_pq'[s] = next_pq[s]
      /\ pq'[t] = (pq[t] \ {C}) \union ({C \ G} \ {{}})
      /\ next_pq'[t] = next_pq[t] \union ({ch(v) : v \in G} \ {{}})
  BY TakenFacts
<1>2. /\ pq[t] \intersect next_pq[t] = {} /\ C \in Queues(t)
      /\ \A r, s \in Threads : \A S \in Queues(s), R \in Queues(r) : S \intersect R # {} => s = r /\ S = R
  BY DEF AssignOK, QueuesOK, Queues
<1> HIDE DEF G
<1>3. \A s \in Threads \ {t} : Queues(s)' = Queues(s)
  BY <1>1 DEF Queues
<1>4. Queues(t)' = (Queues(t) \ {C}) \union ({C \ G} \ {{}}) \union ({ch(v) : v \in G} \ {{}})
  <2>1. Queues(t)' = pq'[t] \union next_pq'[t]
    BY DEF Queues
  <2>2. Queues(t) \ {C} = (pq[t] \ {C}) \union next_pq[t]
    BY <1>2 DEF Queues
  <2> HIDE DEF ch
  <2> QED BY <1>1, <2>1, <2>2
<1>5. ASSUME NEW s \in Threads, NEW S, S \in Queues(s)'
      PROVE  \/ S \in Queues(s) /\ ~(s = t /\ S = C)
             \/ s = t /\ S = C \ G /\ S # {}
             \/ s = t /\ S # {} /\ \E v \in G : S = ch(v)
  <2> HIDE DEF ch
  <2> QED BY <1>3, <1>4, <1>5
<1>6. ASSUME NEW x PROVE InQueue(x)' <=> (InQueue(x) /\ x \notin G) \/ (x \in V /\ parent[x] \in G)
  <2>1. ASSUME InQueue(x)' PROVE (InQueue(x) /\ x \notin G) \/ (x \in V /\ parent[x] \in G)
    <3>1. PICK s \in Threads : \E S \in Queues(s)' : x \in S
      BY <2>1 DEF InQueue
    <3>2. PICK S \in Queues(s)' : x \in S
      BY <3>1
    <3>3. CASE S \in Queues(s) /\ ~(s = t /\ S = C)
      <4>1. x \notin C
        BY <1>2, <3>2, <3>3
      <4> QED BY <1>1, <3>2, <3>3, <4>1 DEF InQueue
    <3>4. CASE S = C \ G
      BY <1>2, <3>2, <3>4 DEF InQueue
    <3>5. CASE \E v \in G : S = ch(v)
      BY <3>2, <3>5
    <3> QED
      <4> HIDE DEF ch
      <4> QED BY <1>5, <3>2, <3>3, <3>4, <3>5
  <2>2. ASSUME InQueue(x), x \notin G PROVE InQueue(x)'
    <3>1. PICK s \in Threads : \E S \in Queues(s) : x \in S
      BY <2>2 DEF InQueue
    <3>2. PICK S \in Queues(s) : x \in S
      BY <3>1
    <3>3. CASE s # t \/ S # C
      <4>1. S \in Queues(s)'
        <5> HIDE DEF ch
        <5> QED BY <1>3, <1>4, <3>2, <3>3
      <4> QED BY <3>2, <4>1 DEF InQueue
    <3>4. CASE s = t /\ S = C
      <4>1. C \ G \in Queues(t)' /\ x \in C \ G
        <5> HIDE DEF ch
        <5> QED BY <1>4, <2>2, <3>2, <3>4
      <4> QED BY <4>1 DEF InQueue
    <3> QED BY <3>3, <3>4
  <2>3. ASSUME x \in V, parent[x] \in G PROVE InQueue(x)'
    <3>1. x \in ch(parent[x])
      BY <2>3
    <3>2. ch(parent[x]) \in Queues(t)'
      <4> HIDE DEF ch
      <4> QED BY <1>4, <2>3, <3>1
    <3> HIDE DEF ch
    <3> QED BY <3>1, <3>2 DEF InQueue
  <2> QED BY <2>1, <2>2, <2>3
<1> QED BY <1>5, <1>6 DEF G

\* The group with the largest subtree is taken from the queue.
LEMMA AssignPop ==
  ASSUME Working, Kept, NEW t \in Threads, PopGroup(t)
  PROVE  AssignTypeOK' /\ AssignOK'
<1> USE DEF Working
<1>1. PICK C \in pq[t] : Taken(t, C)
  BY DEF PopGroup, Taken
<1>2. /\ apc[t] = "pop" /\ apc' = [apc EXCEPT ![t] = "add"]
      /\ found' = [found EXCEPT ![t] = StartBatch(t)]
      /\ raise' = [raise EXCEPT ![t] = IF batch_index[t] <= high_water_mark THEN 0 ELSE Lowest]
      /\ UNCHANGED <<batch_index, high_water_mark, counter, sizes, slot>>
  BY DEF PopGroup, assigner
<1> SUFFICES ASSUME NEW G, G = Group(C) PROVE AssignTypeOK' /\ AssignOK'
  OBVIOUS
<1>3. /\ C \subseteq V /\ C # {} /\ G \subseteq C /\ G # {}
      /\ (\A x, y \in C : parent[x] = parent[y])
      /\ \A x \in C : InQueue(x) /\ ~Held(x) /\ x \notin Slotted
      /\ \A x \in V : parent[x] \in C => ~InQueue(x) /\ ~Held(x) /\ x \notin Slotted
      /\ \A s \in Threads \ {t} : pq'[s] = pq[s] /\ next_pq'[s] = next_pq[s] /\ group'[s] = group[s]
      /\ group'[t] = G
  BY <1>1, TakenFacts
<1>4. /\ pq'[t] = (pq[t] \ {C}) \union ({C \ G} \ {{}})
      /\ next_pq'[t] = next_pq[t] \union ({{x \in V : parent[x] = v} : v \in G} \ {{}})
      /\ V' = V
  BY <1>1, TakenFacts
<1>5. \A s \in Threads : \A S : S \in Queues(s)' =>
        \/ S \in Queues(s) /\ ~(s = t /\ S = C)
        \/ s = t /\ S = C \ G /\ S # {}
        \/ s = t /\ S # {} /\ \E v \in G : S = {x \in V : parent[x] = v}
  BY <1>1, TakenQueues
<1>6. \A x : InQueue(x)' <=> (InQueue(x) /\ x \notin G) \/ (x \in V /\ parent[x] \in G)
  BY <1>1, TakenQueues
<1>7. V \subseteq Nodes
  BY DEF V, OfVersion
<1>8. apc'[t] = "add" /\ (\A s \in Threads \ {t} : apc'[s] = apc[s] /\ found'[s] = found[s] /\ raise'[s] = raise[s])
      /\ found'[t] = StartBatch(t) /\ raise'[t] \in {0, Lowest}
  BY <1>2 DEF AssignTypeOK
<1>9. AssignTypeOK'
  <2>1. \A S \in pq'[t] : S \subseteq Nodes
    <3>1. \A S \in pq[t] : S \subseteq Nodes
      BY DEF AssignTypeOK
    <3> QED BY <1>3, <1>4, <1>7, <3>1
  <2>2. \A S \in next_pq'[t] : S \subseteq Nodes
    <3>1. \A S \in next_pq[t] : S \subseteq Nodes
      BY DEF AssignTypeOK
    <3> QED BY <1>4, <1>7, <3>1
  <2>3. pq' \in [Threads -> SUBSET SUBSET Nodes]
    BY <1>1, <2>1 DEF Taken, AssignTypeOK
  <2>4. next_pq' \in [Threads -> SUBSET SUBSET Nodes]
    BY <1>1, <2>2 DEF Taken, AssignTypeOK
  <2>5. group' \in [Threads -> SUBSET Nodes]
    BY <1>1, <1>3, <1>7 DEF Taken, AssignTypeOK
  <2>6. found' \in [Threads -> Nat]
    BY <1>2, StartBatchFilled DEF AssignTypeOK
  <2>7. raise' \in [Threads -> Nat \union {Lowest}]
    BY <1>2 DEF AssignTypeOK
  <2>8. apc' \in [Threads -> Steps]
    BY <1>2 DEF AssignTypeOK, Steps
  <2> QED BY <1>2, <2>3, <2>4, <2>5, <2>6, <2>7, <2>8, Kept DEF AssignTypeOK, Kept
<1>10. \A x : Held(x)' <=> Held(x) \/ x \in G
  BY <1>2, <1>3, <1>8 DEF Held
<1>11. /\ \A r, s \in Threads : \A S \in Queues(s), R \in Queues(r) : S \intersect R # {} => s = r /\ S = R
       /\ \A s \in Threads : \A S \in Queues(s) : S # {} /\ S \subseteq V /\ \A x, y \in S : parent[x] = parent[y]
       /\ C \in Queues(t) /\ \A s \in Threads : pq[s] \intersect next_pq[s] = {}
  BY DEF AssignOK, QueuesOK, Queues
<1>12. \A s \in Threads : \A S \in Queues(s) : \A x \in S : InQueue(x)
  BY DEF InQueue
<1>13. QueuesOK'
  <2>1. ASSUME NEW s \in Threads, NEW S \in Queues(s)'
        PROVE  S # {} /\ S \subseteq V /\ \A x, y \in S : parent[x] = parent[y]
    BY <1>3, <1>5, <1>11
  <2>2. ASSUME NEW r \in Threads, NEW s \in Threads, NEW R \in Queues(r)', NEW S \in Queues(s)',
               NEW x \in R, x \in S
        PROVE  r = s /\ R = S
    <3>1. CASE R \in Queues(r) /\ ~(r = t /\ R = C)
      <4>1. x \notin C /\ InQueue(x) /\ x \in V
        BY <1>11, <1>12, <2>2, <3>1
      <4>2. S \in Queues(s)
        BY <1>3, <1>5, <2>2, <4>1
      <4> QED BY <1>11, <2>2, <3>1, <4>2
    <3>2. CASE r = t /\ R = C \ G
      <4>1. x \in C /\ InQueue(x) /\ x \in V
        BY <1>3, <2>2, <3>2
      <4>2. ~(S \in Queues(s) /\ ~(s = t /\ S = C))
        BY <1>11, <2>2, <4>1
      <4>3. ~\E v \in G : S = {y \in V : parent[y] = v}
        BY <1>3, <2>2, <4>1
      <4> QED BY <1>5, <3>2, <4>2, <4>3
    <3>3. CASE r = t /\ \E v \in G : R = {y \in V : parent[y] = v}
      <4>1. parent[x] \in G /\ x \in V /\ ~InQueue(x) /\ R = {y \in V : parent[y] = parent[x]}
        BY <1>3, <2>2, <3>3
      <4>2. S \notin Queues(s) /\ S # C \ G
        BY <1>3, <1>12, <2>2, <4>1
      <4> QED BY <1>5, <2>2, <3>3, <4>1, <4>2
    <3> QED BY <1>5, <3>1, <3>2, <3>3
  <2>3. ASSUME NEW s \in Threads, NEW S \in pq'[s] \intersect next_pq'[s] PROVE FALSE
    <3>1. s = t
      BY <1>3, <1>11, <2>3
    <3>2. CASE S \in pq[t] /\ S # C
      <4>1. S \in Queues(t) /\ S # {} /\ S \notin next_pq[t]
        BY <1>11, <3>2 DEF Queues
      <4>2. PICK v \in G : S = {x \in V : parent[x] = v}
        BY <1>4, <2>3, <3>1, <4>1
      <4>3. PICK x : x \in S
        BY <4>1
      <4>4. InQueue(x)
        BY <1>12, <4>1, <4>3
      <4> QED BY <1>3, <4>2, <4>3, <4>4
    <3>3. CASE S = C \ G /\ S # {}
      <4>1. PICK x : x \in C \ G
        BY <3>3
      <4>2. CASE S \in next_pq[t]
        <5>1. S \in Queues(t)
          BY <4>2 DEF Queues
        <5>2. S = C
          BY <1>11, <3>3, <4>1, <5>1
        <5> QED BY <1>11, <4>2, <5>2
      <4>3. CASE \E v \in G : S = {y \in V : parent[y] = v}
        BY <1>3, <3>3, <4>1, <4>3
      <4> QED BY <1>4, <2>3, <3>1, <4>2, <4>3
    <3> QED BY <1>4, <2>3, <3>1, <3>2, <3>3
  <2>4. \A s \in Threads : /\ apc'[s] = "pop" /\ pq'[s] = {} => next_pq'[s] = {}
                           /\ apc'[s] = "swap" => pq'[s] = {}
                           /\ apc'[s] \in {"scan", "transmit"} => next_pq'[s] = {}
    BY <1>3, <1>8 DEF AssignOK, QueuesOK
  <2>5. \A r, s \in Threads : \A R \in Queues(r)', S \in Queues(s)' : R \intersect S # {} => r = s /\ R = S
    BY <2>2
  <2>6. \A s \in Threads : pq'[s] \intersect next_pq'[s] = {}
    BY <2>3
  <2> QED BY <1>4, <2>1, <2>4, <2>5, <2>6, Kept DEF QueuesOK, Kept
<1>14. GroupsOK'
  <2>1. \A s \in Threads : apc[s] \in {"add", "size"} => group[s] \intersect C = {}
    <3>1. \A s \in Threads : apc[s] = "add" => \A x \in group[s] : Held(x)
      BY DEF Held
    <3>2. \A s \in Threads : apc[s] = "size" => \A x \in group[s] : x \in Slotted
      <4>1. \A s \in Threads : apc[s] = "size" => group[s] \subseteq InBatch(found[s])
        BY DEF AssignOK, GroupsOK
      <4>2. \A s \in Threads : InBatch(found[s]) \subseteq Slotted
        BY DEF InBatch, Slotted, AssignTypeOK, Lowest
      <4> QED BY <4>1, <4>2
    <3> QED BY <1>3, <3>1, <3>2
  <2>2. \A s \in Threads : apc'[s] \in {"add", "size"} =>
          group'[s] # {} /\ group'[s] \subseteq V /\ \A x, y \in group'[s] : parent[x] = parent[y]
    BY <1>3, <1>8 DEF AssignOK, GroupsOK
  <2>3. \A r, s \in Threads : apc'[r] \in {"add", "size"} /\ apc'[s] \in {"add", "size"} /\ r # s =>
          group'[r] \intersect group'[s] = {}
    <3> SUFFICES ASSUME NEW r \in Threads, NEW s \in Threads, r # s, apc'[r] \in {"add", "size"}, apc'[s] \in {"add", "size"}
                 PROVE  group'[r] \intersect group'[s] = {}
      OBVIOUS
    <3>1. CASE r # t /\ s # t
      BY <1>3, <1>8, <3>1 DEF AssignOK, GroupsOK
    <3>2. CASE r = t
      BY <1>3, <1>8, <2>1, <3>2
    <3>3. CASE s = t
      BY <1>3, <1>8, <2>1, <3>3
    <3> QED BY <3>1, <3>2, <3>3
  <2>4. \A s \in Threads : apc'[s] = "size" => group'[s] \subseteq InBatch(found'[s])
    BY <1>3, <1>8 DEF AssignOK, GroupsOK
  <2>5. \A x \in Nodes : (InQueue(x)' => ~Held(x)' /\ x \notin Slotted) /\ (Held(x)' => x \notin Slotted)
    <3>1. \A x \in Nodes : (InQueue(x) => ~Held(x) /\ x \notin Slotted) /\ (Held(x) => x \notin Slotted)
      BY DEF AssignOK, GroupsOK
    <3> QED BY <1>3, <1>6, <1>10, <3>1
  <2>6. Slotted \subseteq V
    BY DEF AssignOK, GroupsOK
  <2>7. Slotted' = Slotted /\ \A b : InBatch(b)' = InBatch(b)
    BY <1>2 DEF Slotted, InBatch
  <2> QED BY <1>4, <2>2, <2>3, <2>4, <2>5, <2>6, <2>7, Kept DEF GroupsOK, Kept
<1>15. ReachedOK'
  <2>1. Slotted' = Slotted
    BY <1>2 DEF Slotted
  <2>2. \A x \in V : (InQueue(x)' \/ Held(x)' \/ x \in Slotted) <=>
                     (InQueue(x) \/ Held(x) \/ x \in Slotted \/ parent[x] \in G)
    BY <1>3, <1>6, <1>10
  <2>3. \A x \in V : (Held(parent[x])' \/ parent[x] \in Slotted) <=> (Held(parent[x]) \/ parent[x] \in G \/ parent[x] \in Slotted)
    BY <1>10, Kept DEF Kept
  <2>4. \A x \in V : (InQueue(x) \/ Held(x) \/ x \in Slotted) <=>
                     (parent[x] \in V => Held(parent[x]) \/ parent[x] \in Slotted)
    BY DEF AssignOK, ReachedOK
  <2>5. \A x \in V : (InQueue(x)' \/ Held(x)' \/ x \in Slotted) <=>
                     (parent[x] \in V => Held(parent[x])' \/ parent[x] \in Slotted)
    BY <1>3, <2>2, <2>3, <2>4
  <2> QED BY <1>4, <2>1, <2>5, Kept DEF ReachedOK, Kept
<1>16. CountersOK'
  <2>1. Uncounted' = Uncounted
    BY <1>2, <1>3, <1>8 DEF Uncounted
  <2>2. \A b : InBatch(b)' = InBatch(b)
    BY <1>2 DEF InBatch
  <2> QED BY <1>2, <2>1, <2>2 DEF AssignOK, CountersOK
<1>17. FilledOK'
  <2>1. Filled(StartBatch(t)) /\ Filled(raise'[t])
    BY <1>8, StartBatchFilled DEF Filled, Lowest
  <2>2. \A s \in Threads : /\ Filled(batch_index'[s]) /\ Filled(raise'[s])
                           /\ apc'[s] \in {"add", "size", "raise"} => Filled(found'[s])
                           /\ apc'[s] \in {"size", "raise"} => InBatch(found'[s]) # {}
                           /\ apc'[s] = "swap" => InBatch(batch_index'[s]) # {}
    BY <1>2, <1>8, <2>1 DEF AssignOK, FilledOK
  <2>3. Filled(high_water_mark')
    BY <1>2 DEF AssignOK, FilledOK
  <2> QED BY <1>2, <1>9, <2>2, <2>3, FilledAgain
<1>18. \A s \in Threads : apc'[s] # "idle"
  BY <1>8 DEF AssignOK
<1> QED BY <1>9, <1>13, <1>14, <1>15, <1>16, <1>17, <1>18 DEF AssignOK

\* The roots are distributed: the children of roots are in the queues.
LEMMA AssignStart ==
  ASSUME HistoryInv, phase = "assign", AssignTypeOK, Fresh, Kept, StartVersion
  PROVE  AssignTypeOK' /\ AssignOK'
<1>1. PICK thread \in [RootsOfVersion(current) -> Threads] :
        pq' = [t \in Threads |->
                {ChildsOfVersion(u, current) : u \in {r \in DOMAIN thread : thread[r] = t}}]
  BY DEF StartVersion
<1>2. /\ apc' = [t \in Threads |-> "pop"]
      /\ UNCHANGED <<next_pq, group, batch_index, found, raise, high_water_mark, counter, sizes, slot>>
  BY DEF StartVersion, assigner
<1> DEFINE Roots == RootsOfVersion(current)
           ch(u) == {v \in V : parent[v] = u}
<1>3. \A u \in Roots : u \in Nodes /\ ChildsOfVersion(u, current) = ch(u) /\ ch(u) # {}
  <2>1. \A u \in Roots : u \in Nodes /\ ChildsOfVersion(u, current) # {}
    BY DEF RootsOfVersion
  <2>2. \A u \in Nodes : ChildsOfVersion(u, current) = ch(u)
    BY ChildsOfTheVersion
  <2> HIDE DEF ch, Roots
  <2> QED BY <2>1, <2>2
<1>4. \A v \in V : parent[v] \notin V <=> parent[v] \in Roots
  BY ParentIsRoot
<1>5. thread \in [Roots -> Threads]
  OBVIOUS
<1>6. \A t \in Threads : pq'[t] = {ch(u) : u \in {r \in Roots : thread[r] = t}}
  <2>1. ASSUME NEW t \in Threads PROVE pq'[t] = {ch(u) : u \in {r \in Roots : thread[r] = t}}
    <3>1. pq'[t] = {ChildsOfVersion(u, current) : u \in {r \in Roots : thread[r] = t}}
      BY <1>1
    <3> HIDE DEF ch, Roots
    <3> QED BY <1>3, <3>1
  <2> QED BY <2>1
<1> HIDE DEF Roots
<1>7. next_pq = [t \in Threads |-> {}] /\ \A t \in Threads : Queues(t)' = pq'[t]
  BY <1>2 DEF Fresh, Queues
<1>8. V' = V /\ V \subseteq Nodes
  BY Kept DEF Kept, V, OfVersion
<1>9. \A t \in Threads : \A S \in pq'[t] : \E u \in Roots : thread[u] = t /\ S = ch(u)
  <2> HIDE DEF ch
  <2> QED BY <1>6
<1>10. AssignTypeOK'
  <2>1. \A t \in Threads : pq'[t] \in SUBSET SUBSET Nodes
    BY <1>8, <1>9
  <2>2. pq' \in [Threads -> SUBSET SUBSET Nodes]
    BY <1>1, <2>1
  <2>3. apc' \in [Threads -> Steps]
    BY <1>2 DEF Steps
  <2> QED BY <1>2, <2>2, <2>3, Kept DEF AssignTypeOK, Kept
<1>11. \A t \in Threads : apc'[t] = "pop"
  BY <1>2
<1>12. QueuesOK'
  <2>1. ASSUME NEW t \in Threads, NEW S \in Queues(t)'
        PROVE  S # {} /\ S \subseteq V /\ \A x, y \in S : parent[x] = parent[y]
    BY <1>3, <1>7, <1>9
  <2>2. ASSUME NEW t \in Threads, NEW s \in Threads, NEW S \in Queues(t)', NEW R \in Queues(s)', S \intersect R # {}
        PROVE  t = s /\ S = R
    <3>1. PICK u \in Roots : thread[u] = t /\ S = ch(u)
      BY <1>7, <1>9
    <3>2. PICK w \in Roots : thread[w] = s /\ R = ch(w)
      BY <1>7, <1>9
    <3>3. u = w
      BY <2>2, <3>1, <3>2
    <3> QED BY <3>1, <3>2, <3>3
  <2>3. \A t \in Threads : next_pq'[t] = {}
    BY <1>2, <1>7
  <2> QED BY <1>8, <1>11, <2>1, <2>2, <2>3, Kept DEF QueuesOK, Kept
<1>13. Slotted' = {} /\ \A b \in Nat : InBatch(b)' = {}
  BY <1>2 DEF Slotted, InBatch, Fresh, Unassigned, Lowest
<1>14. \A x : ~Held(x)'
  BY <1>11 DEF Held
<1>15. GroupsOK'
  BY <1>11, <1>13, <1>14 DEF GroupsOK
<1>16. \A x : InQueue(x)' <=> x \in V /\ parent[x] \in Roots
  <2>1. ASSUME NEW x, InQueue(x)' PROVE x \in V /\ parent[x] \in Roots
    <3>1. PICK t \in Threads : \E S \in Queues(t)' : x \in S
      BY <2>1 DEF InQueue
    <3> QED BY <1>7, <1>9, <3>1
  <2>2. ASSUME NEW x \in V, parent[x] \in Roots PROVE InQueue(x)'
    <3>1. PICK u \in Roots : u = parent[x]
      BY <2>2
    <3>2. PICK t \in Threads : t = thread[u]
      BY <1>5
    <3>3. ch(u) \in pq'[t]
      <4> HIDE DEF ch
      <4> QED BY <1>6, <3>2
    <3>4. x \in ch(u)
      BY <2>2, <3>1
    <3>5. \E S \in pq'[t] : x \in S
      <4> HIDE DEF ch
      <4> QED BY <3>3, <3>4
    <3> QED BY <1>7, <3>5 DEF InQueue
  <2> QED BY <2>1, <2>2
<1>17. ReachedOK'
  BY <1>4, <1>8, <1>13, <1>14, <1>16, Kept DEF ReachedOK, Kept
<1>18. CountersOK'
  <2>1. counter = [b \in Batches |-> 0] /\ sizes = [b \in Batches |-> 0]
    BY DEF Fresh
  <2>2. ASSUME NEW b \in Batches
        PROVE  /\ counter'[b] < MaxBatchSize => counter'[b] = Cardinality(InBatch(b)')
               /\ counter'[b] > 0 <=> InBatch(b)' # {}
               /\ {slot'[v].pos : v \in InBatch(b)'} = 0..(Cardinality(InBatch(b)') - 1)
               /\ sizes'[b] = Cardinality(InBatch(b)' \ Uncounted')
    <3>1. InBatch(b)' = {}
      BY <1>13 DEF Batches
    <3>2. Cardinality(InBatch(b)') = 0 /\ Cardinality(InBatch(b)' \ Uncounted') = 0
      BY <3>1, FS_EmptySet
    <3>3. {slot'[v].pos : v \in InBatch(b)'} = {}
      BY <3>1
    <3>4. 0..(0 - 1) = {}
      OBVIOUS
    <3> QED BY <1>2, <2>1, <3>1, <3>2, <3>3, <3>4
  <2> QED BY <2>2 DEF CountersOK
<1>19. FilledOK'
  BY <1>2, <1>11, <1>13 DEF FilledOK, Filled, Fresh, Lowest
<1>20. \A t \in Threads : apc'[t] # "idle"
  BY <1>11
<1> QED BY <1>10, <1>12, <1>15, <1>17, <1>18, <1>19, <1>20 DEF AssignOK

\* The smallest member of a set of numbers.
LEMMA MinIs ==
  ASSUME NEW S, NEW n \in Int, n \in S, \A x \in S : n <= x, \A x \in S : x \in Int
  PROVE  Min(S) = n
<1>1. Min(S) \in S /\ \A x \in S : Min(S) <= x
  BY DEF Min
<1>2. Min(S) <= n /\ n <= Min(S) /\ Min(S) \in Int
  BY <1>1
<1> QED BY <1>2

\* The largest member, likewise.
LEMMA MaxIs ==
  ASSUME NEW S, NEW n \in Int, n \in S, \A x \in S : x \in Int /\ x <= n
  PROVE  Max(S) = n
<1>0. \A x \in S : n >= x
  OBVIOUS
<1>1. Max(S) \in S /\ \A x \in S : Max(S) >= x
  BY <1>0 DEF Max
<1>2. Max(S) >= n /\ Max(S) <= n /\ Max(S) \in Int
  BY <1>1
<1> QED BY <1>2

\* When all threads are done, the number of non-empty batches is the first empty one,
\* wherever the high water mark ended up.
LEMMA NumberIsExact ==
  ASSUME Working, VersionAssigned
  PROVE  /\ NumberOfNonEmptyBatches \in Nat
         /\ \A b \in Batches : InBatch(b) # {} <=> b < NumberOfNonEmptyBatches
         /\ \A b \in Batches : InBatch(b) # {} <=> sizes[b] > 0
         /\ \A b \in Batches : sizes[b] = Cardinality(InBatch(b))
         /\ \A b \in Batches : InBatch(b) # {} <=> counter[b] > 0
<1> USE DEF Working
<1> DEFINE nonempty == {b \in Batches : sizes[b] > 0}
           C == Cardinality(Nodes)
<1>1. Uncounted = {}
  BY DEF Uncounted, VersionAssigned
<1>2. \A b \in Batches : InBatch(b) # {} <=> sizes[b] > 0
  <2>1. ASSUME NEW b \in Batches PROVE InBatch(b) # {} <=> sizes[b] > 0
    <3>1. InBatch(b) \in SUBSET Nodes
      BY DEF InBatch
    <3>2. IsFiniteSet(InBatch(b)) /\ InBatch(b) \ Uncounted = InBatch(b)
      BY <1>1, <3>1, NodesFinite
    <3>3. sizes[b] = Cardinality(InBatch(b))
      BY <3>2 DEF AssignOK, CountersOK
    <3>4. Cardinality(InBatch(b)) \in Nat /\ (Cardinality(InBatch(b)) = 0 <=> InBatch(b) = {})
      BY <3>2, FS_CardinalityType, FS_EmptySet
    <3> QED BY <3>3, <3>4
  <2> QED BY <2>1
<1>3. \A b \in Batches : InBatch(b) # {} <=> counter[b] > 0
  BY DEF AssignOK, CountersOK
<1>31. \A b \in Batches : sizes[b] = Cardinality(InBatch(b))
  <2>1. \A b \in Batches : InBatch(b) \ Uncounted = InBatch(b)
    BY <1>1
  <2> QED BY <2>1 DEF AssignOK, CountersOK
<1>4. C \in Nat /\ Batches = 0..C /\ IsFiniteSet(Batches)
  <2>1. C \in Nat
    BY NodesFinite, FS_CardinalityType
  <2>2. Batches = 0..C
    BY DEF Batches
  <2> QED BY <2>1, <2>2, FS_Interval
<1> DEFINE empty == {b \in Batches : b \notin nonempty}
           N == Min(empty)
<1>5. empty # {}
  <2> SUFFICES ASSUME empty = {} PROVE FALSE
    OBVIOUS
  <2>1. \A b \in Batches : InBatch(b) # {}
    BY <1>2
  <2>2. C + 1 \in Nat /\ Filled(C + 1)
    <3> HIDE DEF C
    <3> QED BY <1>4, <2>1 DEF Filled
  <2>3. C + 1 <= C
    BY <2>2, FilledBound
  <2> HIDE DEF C
  <2> QED BY <1>4, <2>3
<1>6. N \in empty /\ \A b \in empty : N <= b
  <2>1. IsFiniteSet(empty) /\ empty \subseteq Int
    <3>1. empty \in SUBSET Batches
      OBVIOUS
    <3>2. Batches \subseteq Int
      BY <1>4
    <3> HIDE DEF empty
    <3> QED BY <1>4, <3>1, <3>2, FS_Subset
  <2> HIDE DEF empty
  <2> QED BY <1>5, <2>1, SmallestElement
<1> HIDE DEF N
<1>7. N \in Nat /\ N \in Batches /\ N \notin nonempty
  <2>1. N \in Batches /\ N \notin nonempty
    BY <1>6
  <2> HIDE DEF C, nonempty, empty
  <2> QED BY <1>4, <2>1
<1>8. \A b \in Batches : b < N => b \in nonempty
  BY <1>4, <1>6, <1>7
<1>9. \A b \in Batches : b \in nonempty => b < N
  <2> SUFFICES ASSUME NEW b \in Batches, b \in nonempty, ~(b < N) PROVE FALSE
    OBVIOUS
  <2>1. b \in Nat /\ N < b
    BY <1>4, <1>7
  <2>2. InBatch(b) # {}
    BY <1>2
  <2>3. Filled(b)
    BY <2>1, <2>2, FilledBelow DEF AssignOK
  <2>4. InBatch(N) # {}
    BY <1>7, <2>1, <2>3 DEF Filled
  <2> QED BY <1>2, <1>7, <2>4
<1> HIDE DEF C
<1>10. high_water_mark \in Nat /\ high_water_mark <= N
  <2>1. high_water_mark \in Nat /\ Filled(high_water_mark)
    BY DEF AssignTypeOK, AssignOK, FilledOK
  <2>2. CASE high_water_mark > N
    <3>1. InBatch(N) # {}
      BY <1>7, <2>1, <2>2 DEF Filled
    <3> QED BY <1>2, <1>7, <3>1
  <2> QED BY <1>7, <2>1, <2>2
<1>11. NumberOfNonEmptyBatches =
         IF high_water_mark \in nonempty
         THEN Min({b \in Batches : b > high_water_mark /\ b \notin nonempty})
         ELSE Max({b + 1 : b \in {c \in nonempty : c < high_water_mark}} \union {0})
  BY DEF NumberOfNonEmptyBatches
<1>12. nonempty \subseteq Batches
  OBVIOUS
<1>13. \A b \in Batches : b \in nonempty <=> InBatch(b) # {}
  BY <1>2
<1> HIDE DEF nonempty, empty
<1>14. NumberOfNonEmptyBatches = N
  <2>1. CASE high_water_mark \in nonempty
    <3> DEFINE E == {b \in Batches : b > high_water_mark /\ b \notin nonempty}
    <3>1. high_water_mark < N
      BY <1>9, <1>12, <2>1
    <3>2. N \in E
      BY <1>7, <1>10, <3>1
    <3>3. \A b \in E : N <= b
      BY <1>4, <1>7, <1>8
    <3>4. \A b \in E : b \in Int
      BY <1>4
    <3>5. Min(E) = N
      <4> HIDE DEF E
      <4> QED BY <1>7, <3>2, <3>3, <3>4, MinIs
    <3> QED BY <1>11, <2>1, <3>5
  <2>2. CASE high_water_mark \notin nonempty
    <3>1. high_water_mark = N
      <4>1. high_water_mark \in Batches
        BY <1>4, <1>7, <1>10
      <4> QED BY <1>7, <1>8, <1>10, <2>2, <4>1
    <3> DEFINE E == {b + 1 : b \in {c \in nonempty : c < high_water_mark}} \union {0}
    <3>2. \A x \in E : x \in Int /\ x <= N
      BY <1>4, <1>7, <1>12, <3>1
    <3>3. N \in E
      <4>1. CASE N = 0
        BY <4>1
      <4>2. CASE N # 0
        <5>1. N - 1 \in Batches /\ N - 1 < N /\ N = (N - 1) + 1
          BY <1>4, <1>7, <4>2
        <5>2. N - 1 \in {c \in nonempty : c < high_water_mark}
          BY <1>8, <3>1, <5>1
        <5> QED BY <5>1, <5>2
      <4> QED BY <4>1, <4>2
    <3>4. Max(E) = N
      <4> HIDE DEF E
      <4> QED BY <1>7, <3>2, <3>3, MaxIs
    <3> QED BY <1>11, <2>2, <3>4
  <2> QED BY <2>1, <2>2
<1> QED BY <1>2, <1>3, <1>31, <1>7, <1>8, <1>9, <1>13, <1>14

\* When all threads are done, every contraction of the version has a slot: one that had
\* none would have a parent that has none, too.
LEMMA AllSlotted ==
  ASSUME Working, VersionAssigned
  PROVE  Slotted = V
<1> USE DEF Working
<1>1. \A t \in Threads : Queues(t) = {}
  BY DEF VersionAssigned, Queues, AssignOK, QueuesOK
<1>2. \A x : ~InQueue(x) /\ ~Held(x)
  BY <1>1 DEF InQueue, Held, VersionAssigned
<1>3. V \ Slotted = {}
  <2> SUFFICES ASSUME V \ Slotted # {} PROVE FALSE
    OBVIOUS
  <2>1. V \ Slotted \in SUBSET V
    OBVIOUS
  <2>2. PICK x \in V \ Slotted : \A y \in V \ Slotted : interval[y].end <= interval[x].end
    BY <2>1, LastContraction
  <2>3. parent[x] \in V \ Slotted
    BY <1>2, <2>2 DEF AssignOK, ReachedOK
  <2>4. interval[x].end < interval[parent[x]].end
    BY <2>2, <2>3, ParentEndsLater
  <2>5. interval[parent[x]].end <= interval[x].end
    BY <2>2, <2>3
  <2>6. interval[x].end \in Nat /\ interval[parent[x]].end \in Nat
    BY <2>2, <2>3, OfTheVersion
  <2> QED BY <2>4, <2>5, <2>6
<1> QED BY <1>3 DEF AssignOK, GroupsOK

\* Every contraction of the version is in one of the batches that are kept.
LEMMA SlotsInRange ==
  ASSUME Working, VersionAssigned, NEW v \in V
  PROVE  slot[v].batch \in 0..(NumberOfNonEmptyBatches - 1)
<1> USE DEF Working
<1>1. v \in Nodes /\ v \in Slotted
  BY AllSlotted, OfTheVersion
<1>2. slot[v].batch \in Nat
  BY <1>1 DEF Slotted, AssignTypeOK, Lowest
<1>3. InBatch(slot[v].batch) # {}
  BY <1>1 DEF InBatch
<1>4. slot[v].batch \in Batches
  BY <1>2, <1>3, FilledBelow DEF AssignOK
<1>5. slot[v].batch < NumberOfNonEmptyBatches /\ NumberOfNonEmptyBatches \in Nat
  BY <1>3, <1>4, NumberIsExact
<1> QED BY <1>2, <1>5

\* The invariant of the assignment implies the property.
LEMMA AssignedCompletely ==
  ASSUME HistoryInv, AssignInv PROVE BatchesComplete
<1> SUFFICES ASSUME phase = "assign", VersionAssigned, NEW b \in Batches
             PROVE  LET members == {v \in OfVersion(current) : slot[v].batch = b} IN
                    /\ \A v \in OfVersion(current) : slot[v] # Unassigned
                    /\ {slot[v].pos : v \in members} = 0 .. Cardinality(members) - 1
                    /\ sizes[b] = Cardinality(members)
                    /\ members # {} <=> b < NumberOfNonEmptyBatches
  BY DEF BatchesComplete
<1>1. Working
  <2>1. ~Fresh
    <3>1. PICK t \in Threads : TRUE
      BY HierarchyAssumption
    <3> QED BY <3>1 DEF Fresh, VersionAssigned
  <2> QED BY <2>1 DEF AssignInv, Working
<1>2. Slotted = V
  BY <1>1, AllSlotted
<1>3. {v \in OfVersion(current) : slot[v].batch = b} = InBatch(b)
  <2>1. b # Lowest
    BY DEF Batches, Lowest
  <2> QED BY <1>2, <2>1 DEF V, InBatch, Slotted
<1>4. \A v \in OfVersion(current) : slot[v] # Unassigned
  BY <1>2 DEF V, Slotted, Unassigned
<1>5. /\ {slot[v].pos : v \in InBatch(b)} = 0..(Cardinality(InBatch(b)) - 1)
      /\ sizes[b] = Cardinality(InBatch(b))
      /\ InBatch(b) # {} <=> b < NumberOfNonEmptyBatches
  BY <1>1, NumberIsExact DEF Working, AssignOK, CountersOK
<1> QED BY <1>3, <1>4, <1>5

\* The assigner is fresh again for the next version.
LEMMA AssignFinish ==
  ASSUME Working, current <= version, version \in Nat, FinishVersion, version' = version
  PROVE  AssignInv'
<1> USE DEF Working
<1> DEFINE num == NumberOfNonEmptyBatches
<1>1. VersionAssigned /\ phase' \in {"assign", "partition"} /\ (phase' = "assign" => current # version)
  BY DEF FinishVersion
<1>2. pq = [t \in Threads |-> {}] /\ next_pq = [t \in Threads |-> {}]
  <2>1. \A t \in Threads : pq[t] = {} /\ next_pq[t] = {}
    BY <1>1 DEF VersionAssigned, AssignOK, QueuesOK
  <2>2. pq = [t \in Threads |-> pq[t]] /\ next_pq = [t \in Threads |-> next_pq[t]]
    BY DEF AssignTypeOK
  <2> QED BY <2>1, <2>2
<1>3. \A b \in Batches : ~(b < num) => counter[b] = 0 /\ sizes[b] = 0
  <2>1. \A b \in Batches : counter[b] \in Nat /\ sizes[b] \in Nat
    BY DEF AssignTypeOK
  <2>2. \A b \in Batches : /\ InBatch(b) # {} <=> b < num
                           /\ InBatch(b) # {} <=> sizes[b] > 0
                           /\ InBatch(b) # {} <=> counter[b] > 0
    BY <1>1, NumberIsExact
  <2> HIDE DEF num
  <2> QED BY <2>1, <2>2
<1>4. counter' = [b \in Batches |-> 0] /\ sizes' = [b \in Batches |-> 0]
  <2>1. /\ counter' = [b \in Batches |-> IF b < num THEN 0 ELSE counter[b]]
        /\ sizes' = [b \in Batches |-> IF b < num THEN 0 ELSE sizes[b]]
    BY DEF FinishVersion
  <2> HIDE DEF num
  <2> QED BY <1>3, <2>1
<1>5. Fresh'
  BY <1>2, <1>4 DEF FinishVersion, Fresh
<1>6. current' = current + 1 /\ current \in Nat
  BY DEF FinishVersion, AssignTypeOK
<1>7. AssignTypeOK'
  BY <1>5, <1>6 DEF Fresh, AssignTypeOK, Steps, Unassigned, Lowest
<1> QED BY <1>1, <1>5, <1>6, <1>7 DEF AssignInv

\* Every step keeps the assignment consistent.
LEMMA AssignInvNext ==
  ASSUME HistoryInv, AssignInv, [Next]_vars PROVE AssignInv'
<1>1. CASE phase = "coarsen"
  <2>1. Fresh /\ current = 0 /\ version \in Nat
    BY <1>1 DEF AssignInv, HistoryInv, HistoryTypeOK
  <2>2. UNCHANGED assignVars /\ (phase' = "assign" => version' = version + 1) /\ phase' \in {"coarsen", "assign"}
    <3>1. CASE Coarsen /\ UNCHANGED <<assignVars, partVars, tasks, restoreVars, moves>>
      BY <1>1, <3>1 DEF Coarsen, EndPass, BeginContraction, OpenInterval, ContractHyperedge, MergeIncidentNets, EndContraction
    <3>2. CASE Assign /\ UNCHANGED <<history, graph, partVars, tasks, restoreVars, moves>>
      <4>1. ~\E t \in Threads : AssignThread(t)
        BY <2>1 DEF Fresh, AssignThread, PopGroup, FetchAdd, CountSize, RaiseHighWaterMark, SwapLevel,
                    ScanBatchIndices, TransmitMinimum
      <4> QED BY <1>1, <3>2, <4>1 DEF Assign, FinishVersion, StartVersion
    <3>3. CASE \E v \in Nodes : Task(v)
      BY <1>1, <3>3 DEF Task
    <3>4. CASE BatchCompleted \/ Done \/ UNCHANGED vars
      BY <1>1, <3>4 DEF BatchCompleted, Done, vars
    <3> QED BY <1>1, <3>1, <3>2, <3>3, <3>4, RestoringNets DEF Next, InitializePartition, Refine, StartBatchUncontraction,
               TopLevel, Idle, Uncoarsening
  <2>3. Fresh' /\ current' = 0
    BY <2>1, <2>2 DEF assignVars, traversal, assigner, Fresh
  <2>4. AssignTypeOK'
    BY <2>3 DEF Fresh, AssignTypeOK, Steps, Unassigned, Lowest
  <2> QED BY <2>1, <2>2, <2>3, <2>4 DEF AssignInv
<1>2. CASE phase = "assign"
  <2>1. AssignTypeOK /\ current <= version /\ (Fresh \/ AssignOK) /\ version \in Nat
    BY <1>2 DEF AssignInv, HistoryInv, HistoryTypeOK
  <2>2. CASE Assign /\ UNCHANGED <<history, graph, partVars, tasks, restoreVars, moves>>
    <3>1. UNCHANGED <<parent, version_of, interval, version>>
      BY <2>2 DEF history, graph
    <3>2. PICK t0 \in Threads : TRUE
      BY HierarchyAssumption
    <3>3. CASE FinishVersion
      <4>1. ~Fresh
        BY <3>2, <3>3 DEF FinishVersion, VersionAssigned, Fresh
      <4> QED BY <1>2, <2>1, <3>1, <3>3, <4>1, AssignFinish DEF Working
    <3>4. CASE StartVersion /\ UNCHANGED phase
      <4>1. Fresh /\ Kept
        BY <2>1, <3>1, <3>2, <3>4 DEF StartVersion, AssignOK, Kept
      <4>2. AssignTypeOK' /\ AssignOK'
        BY <1>2, <2>1, <3>4, <4>1, AssignStart
      <4> QED BY <1>2, <2>1, <3>1, <3>4, <4>1, <4>2 DEF AssignInv, Kept
    <3>5. ASSUME NEW t \in Threads, AssignThread(t), UNCHANGED phase PROVE AssignInv'
      <4>1. AssignOK /\ Kept
        <5>1. ~Fresh
          BY <3>5 DEF Fresh, AssignThread, PopGroup, FetchAdd, CountSize, RaiseHighWaterMark, SwapLevel,
                      ScanBatchIndices, TransmitMinimum
        <5>2. UNCHANGED current
          BY <3>5 DEF AssignThread, PopGroup, FetchAdd, CountSize, RaiseHighWaterMark, SwapLevel,
                      ScanBatchIndices, TransmitMinimum
        <5> QED BY <2>1, <3>1, <5>1, <5>2 DEF Kept
      <4>2. Working
        BY <1>2, <2>1, <4>1 DEF Working
      <4>3. AssignTypeOK' /\ AssignOK'
        BY <3>5, <4>1, <4>2, AssignPop, AssignTryNext, AssignGroup, AssignCountSize, AssignRaise, AssignSwap,
           AssignScan, AssignTransmit DEF AssignThread
      <4> QED BY <1>2, <2>1, <3>1, <3>5, <4>1, <4>3 DEF AssignInv, Kept
    <3> QED BY <2>2, <3>3, <3>4, <3>5 DEF Assign
  <2>3. CASE UNCHANGED <<phase, assignVars, history, version>>
    <3>1. UNCHANGED <<parent, version_of, interval, current, apc, pq, next_pq, group, batch_index, found, raise,
                      high_water_mark, counter, sizes, slot>>
      BY <2>3 DEF assignVars, traversal, assigner, history
    <3>2. (Fresh' <=> Fresh) /\ (AssignTypeOK' <=> AssignTypeOK) /\ UNCHANGED <<phase, version, current>>
      BY <2>3, <3>1 DEF Fresh, AssignTypeOK
    <3>3. AssignOK => AssignOK'
      <4>1. UNCHANGED <<V, Slotted, Uncounted>> /\ (\A b : InBatch(b)' = InBatch(b)) /\ (\A s : Queues(s)' = Queues(s))
        BY <3>1 DEF V, OfVersion, Slotted, Uncounted, InBatch, Queues
      <4>2. \A x : (InQueue(x)' <=> InQueue(x)) /\ (Held(x)' <=> Held(x))
        BY <3>1, <4>1 DEF InQueue, Held
      <4>3. QueuesOK => QueuesOK'
        BY <3>1, <4>1 DEF QueuesOK
      <4>4. GroupsOK => GroupsOK'
        BY <3>1, <4>1, <4>2 DEF GroupsOK
      <4>5. ReachedOK => ReachedOK'
        BY <3>1, <4>1, <4>2 DEF ReachedOK
      <4>6. CountersOK => CountersOK'
        BY <3>1, <4>1 DEF CountersOK
      <4>7. FilledOK => FilledOK'
        BY <3>1, <4>1 DEF FilledOK, Filled
      <4> QED BY <3>1, <4>3, <4>4, <4>5, <4>6, <4>7 DEF AssignOK
    <3> QED BY <1>2, <2>1, <3>2, <3>3 DEF AssignInv
  <2>4. Coarsen => FALSE
    <3>1. Running = {}
      BY <1>2 DEF HistoryInv, VersionsOK
    <3>2. \A v \in Nodes : cpc[v] \notin {"start", "nets", "index"}
      BY <3>1 DEF Running
    <3> QED BY <1>2, <3>2 DEF Coarsen, EndPass, BeginContraction, OpenInterval, ContractHyperedge, MergeIncidentNets, EndContraction
  <2>5. ASSUME NEW v \in Nodes, Task(v) PROVE UNCHANGED <<phase, assignVars, history, version>>
    BY <2>5 DEF Task, Splice, ReplacePin, RestoreEntry, RestorePin, EnableNode
  <2>6. BatchCompleted \/ Done \/ UNCHANGED vars => UNCHANGED <<phase, assignVars, history, version>>
    BY DEF BatchCompleted, Done, vars, graph
  <2> QED BY <1>2, <2>2, <2>3, <2>4, <2>5, <2>6, RestoringNets DEF Next, InitializePartition, Refine, StartBatchUncontraction,
             TopLevel, Idle, Uncoarsening
<1>3. CASE phase \notin {"coarsen", "assign"}
  <2>1. phase' \notin {"coarsen", "assign"}
    <3>1. ~Coarsen
      <4>1. Running = {}
        BY <1>3 DEF HistoryInv, VersionsOK
      <4>2. \A v \in Nodes : cpc[v] \notin {"start", "nets", "index"}
        BY <4>1 DEF Running
      <4> QED BY <1>3, <4>2 DEF Coarsen, EndPass, BeginContraction, OpenInterval, ContractHyperedge, MergeIncidentNets, EndContraction
    <3>2. Assign => UNCHANGED phase
      BY <1>3 DEF Assign, FinishVersion
    <3>3. \A v \in Nodes : Task(v) => UNCHANGED phase
      BY DEF Task
    <3>4. Refine \/ StartBatchUncontraction \/ BatchCompleted \/ Done \/ UNCHANGED vars => UNCHANGED phase
      BY DEF Refine, StartBatchUncontraction, BatchCompleted, Done, vars
    <3>5. InitializePartition \/ TopLevel \/ RestoreNets => phase' \in {"done"} \union Uncoarsening
      BY RestoringNets DEF InitializePartition, TopLevel, Uncoarsening
    <3> QED BY <1>3, <3>1, <3>2, <3>3, <3>4, <3>5 DEF Next, Uncoarsening
  <2> QED BY <2>1 DEF AssignInv
<1> QED BY <1>1, <1>2, <1>3

-----------------------------------------------------------------------------
\* However the threads race, the batches of a version are complete and consecutive when
\* all have returned (createBatchUncontractionHierarchyForVersion, BatchIndexAssigner).
THEOREM BatchesAreComplete == Spec => []BatchesComplete
<1>1. Init => HistoryInv /\ AssignInv
  <2>1. ASSUME Init PROVE AssignInv
    BY <2>1 DEF Init, HistoryInit, AssignInit, AssignInv, Fresh
  <2> QED BY <2>1, HistoryInvInit DEF Init
<1>2. HistoryInv /\ AssignInv /\ [Next]_vars => HistoryInv' /\ AssignInv'
  BY HistoryInvNext, AssignInvNext
<1>3. HistoryInv /\ AssignInv => BatchesComplete
  BY AssignedCompletely
<1> QED BY <1>1, <1>2, <1>3, PTL DEF Spec

-----------------------------------------------------------------------------
(* Batches of the versions before *)

\* The recursive function that the fold over the hierarchy evaluates.
OffsetFun(h) ==
  CHOOSE g : g = [T \in SUBSET (DOMAIN h) |->
                    IF T = {} THEN 0 ELSE g[T \ {Max(T)}] + Len(h[Max(T)])]

\* The fold is that function.
LEMMA OffsetIsLoop ==
  ASSUME NEW h
  PROVE  OffsetOf(h) = OffsetFun(h)[DOMAIN h]
BY DEF OffsetOf, FoldLeft, MapThenFoldSet, OffsetFun

\* The batches are counted version by version.
LEMMA OffsetLoop ==
  ASSUME NEW h \in Seq(Seq(SUBSET Nodes))
  PROVE  \E g \in [0..Len(h) -> Nat] :
           /\ g[0] = 0
           /\ \A k \in 1..Len(h) : g[k] = g[k - 1] + Len(h[k])
           /\ OffsetOf(h) = g[Len(h)]
<1> DEFINE n == Len(h)
           H == [k \in 1..n |-> [m \in Nat |-> m + Len(h[k])]]
<1>1. n \in Nat /\ DOMAIN h = 1..n /\ \A k \in 1..n : Len(h[k]) \in Nat
  OBVIOUS
<1> HIDE DEF n
<1>2. H \in [1..n -> [Nat -> Nat]]
  BY <1>1
<1>3. PICK f \in [SUBSET (1..n) -> Nat] : IsLoop(f, H, 0, 1..n)
  <2> HIDE DEF H
  <2> QED BY <1>1, <1>2, LoopType
<1>4. f = [T \in SUBSET (1..n) |-> IF T = {} THEN 0 ELSE f[T \ {Max(T)}] + Len(h[Max(T)])]
  <2>1. ASSUME NEW T \in SUBSET (1..n), T # {}
        PROVE  H[Max(T)][f[T \ {Max(T)}]] = f[T \ {Max(T)}] + Len(h[Max(T)])
    <3>1. Max(T) \in 1..n
      BY <1>1, <2>1, MaxUpTo
    <3>2. f[T \ {Max(T)}] \in Nat
      OBVIOUS
    <3> QED BY <3>1, <3>2
  <2> HIDE DEF H
  <2>2. f = [T \in SUBSET (1..n) |-> IF T = {} THEN 0 ELSE H[Max(T)][f[T \ {Max(T)}]]]
    BY <1>3 DEF IsLoop
  <2> QED BY <2>1, <2>2
<1> DEFINE a == OffsetFun(h)
<1>5. a = [T \in SUBSET (1..n) |-> IF T = {} THEN 0 ELSE a[T \ {Max(T)}] + Len(h[Max(T)])]
  <2> HIDE DEF H
  <2> QED BY <1>1, <1>4 DEF OffsetFun
<1>6. OffsetOf(h) = a[1..n]
  BY <1>1, OffsetIsLoop
<1> HIDE DEF a
<1> DEFINE g == [k \in 0..n |-> a[1..k]]
<1>7. a[1..0] = 0
  BY <1>5, 1..0 = {}
<1>8. ASSUME NEW k \in 1..n PROVE a[1..k] = a[1..(k - 1)] + Len(h[k])
  <2>1. Max(1..k) = k /\ (1..k) \ {k} = 1..(k - 1) /\ 1..k # {}
    BY <1>1, MaxOfSegment
  <2>2. 1..k \in SUBSET (1..n)
    BY <1>1
  <2> QED BY <1>5, <2>1, <2>2
<1>9. \A k \in 0..n : a[1..k] \in Nat
  <2> DEFINE Q == {k \in 0..n : a[1..k] \in Nat}
  <2>1. 0 \in Q
    BY <1>1, <1>7
  <2>2. ASSUME NEW k \in 1..n, k - 1 \in Q PROVE k \in Q
    BY <1>1, <1>8, <2>2
  <2>3. \A k \in 0..n : k \in Q
    <3> HIDE DEF Q
    <3> QED BY <1>1, <2>1, <2>2, RangeInduction
  <2> QED BY <2>3
<1>10. g \in [0..n -> Nat] /\ g[0] = 0 /\ g[n] = OffsetOf(h)
  BY <1>1, <1>6, <1>7, <1>9
<1>11. \A k \in 1..n : g[k] = g[k - 1] + Len(h[k])
  BY <1>1, <1>8
<1> HIDE DEF g
<1> QED BY <1>10, <1>11 DEF n

\* No versions, no batches.
LEMMA OffsetEmpty == OffsetOf(<<>>) = 0
<1> DEFINE h == <<>>
<1>1. h \in Seq(Seq(SUBSET Nodes)) /\ Len(h) = 0
  OBVIOUS
<1> HIDE DEF h
<1>2. PICK g \in [0..Len(h) -> Nat] : g[0] = 0 /\ OffsetOf(h) = g[Len(h)]
  BY <1>1, OffsetLoop, ZenonT(40)
<1> QED BY <1>1, <1>2 DEF h

\* One version more.
LEMMA OffsetAppend ==
  ASSUME NEW h \in Seq(Seq(SUBSET Nodes)), NEW b \in Seq(SUBSET Nodes)
  PROVE  OffsetOf(Append(h, b)) = OffsetOf(h) + Len(b) /\ OffsetOf(h) \in Nat
<1> DEFINE n == Len(h)
           j == Append(h, b)
<1>1. n \in Nat /\ j \in Seq(Seq(SUBSET Nodes)) /\ Len(j) = n + 1 /\ j[n + 1] = b
      /\ \A k \in 1..n : j[k] = h[k]
  OBVIOUS
<1>2. PICK g \in [0..n -> Nat] :
        /\ g[0] = 0
        /\ \A k \in 1..n : g[k] = g[k - 1] + Len(h[k])
        /\ OffsetOf(h) = g[n]
  BY OffsetLoop
<1> HIDE DEF n, j
<1>3. PICK f \in [0..(n + 1) -> Nat] :
        /\ f[0] = 0
        /\ \A k \in 1..(n + 1) : f[k] = f[k - 1] + Len(j[k])
        /\ OffsetOf(j) = f[n + 1]
  <2>1. PICK f \in [0..Len(j) -> Nat] :
          /\ f[0] = 0
          /\ \A k \in 1..Len(j) : f[k] = f[k - 1] + Len(j[k])
          /\ OffsetOf(j) = f[Len(j)]
    BY <1>1, OffsetLoop
  <2> QED BY <1>1, <2>1
<1>4. \A k \in 0..n : f[k] = g[k]
  <2> DEFINE Q == {k \in 0..n : f[k] = g[k]}
  <2>1. 0 \in Q
    BY <1>1, <1>2, <1>3
  <2>2. ASSUME NEW k \in 1..n, k - 1 \in Q PROVE k \in Q
    <3>1. k \in 0..n /\ k \in 1..(n + 1) /\ f[k - 1] = g[k - 1]
      BY <1>1, <2>2
    <3>2. f[k] = f[k - 1] + Len(j[k])
      BY <1>3, <3>1
    <3>3. g[k] = g[k - 1] + Len(h[k]) /\ j[k] = h[k]
      BY <1>1, <1>2
    <3> QED BY <3>1, <3>2, <3>3
  <2>3. \A k \in 0..n : k \in Q
    <3> HIDE DEF Q
    <3> QED BY <1>1, <2>1, <2>2, RangeInduction
  <2> QED BY <2>3
<1>5. f[n + 1] = f[n] + Len(b) /\ f[n] = g[n] /\ g[n] \in Nat
  BY <1>1, <1>2, <1>3, <1>4
<1> QED BY <1>2, <1>3, <1>5 DEF j

-----------------------------------------------------------------------------
(* The order of batches, step by step *)

\* A node stays below a batch that grows.
LEMMA BelowMonotone ==
  ASSUME AssignTypeOK, NEW x, NEW a \in Int, NEW b \in Int, a <= b, Below(x, a) PROVE Below(x, b)
<1>1. x \in Nodes /\ slot[x].batch \in Int /\ slot[x].batch <= a
  BY DEF Below, Slotted, AssignTypeOK, Lowest
<1> QED BY <1>1 DEF Below

\* The last batch of a thread is a number.
LEMMA ReachedType ==
  ASSUME AssignTypeOK, NEW t \in Threads PROVE Reached(t) \in Nat /\ batch_index[t] \in Nat
BY DEF Reached, AssignTypeOK

\* What is kept of a version that is assigned.
LEMMA KeptFacts ==
  ASSUME Kept
  PROVE  /\ V' = V /\ \A x, y : (Siblings(x, y)' <=> Siblings(x, y)) /\ (SortedBefore(x, y)' <=> SortedBefore(x, y))
         /\ \A x, y : DoesIntervalIntersect(interval[x], interval[y])' <=> DoesIntervalIntersect(interval[x], interval[y])
BY DEF Kept, V, OfVersion, Siblings, SortedBefore, DoesIntervalIntersect

\* A thread goes on, or another batch is tried: the batches in question grow.
LEMMA OrderMovesOn ==
  ASSUME Working, OrderOK, Kept, AssignTypeOK', UNCHANGED <<slot, pq, next_pq>>,
         \A s \in Threads : batch_index[s] <= batch_index'[s] /\ Reached(s) <= Reached(s)',
         \A s \in Threads, x \in Nodes : HeldBy(s, x)' <=> HeldBy(s, x),
         \A s \in Threads : apc'[s] \in {"add", "size", "raise"} => batch_index'[s] <= found'[s]
  PROVE  OrderOK'
<1> USE DEF Working
<1>1. /\ V' = V /\ \A x, y : (Siblings(x, y)' <=> Siblings(x, y)) /\ (SortedBefore(x, y)' <=> SortedBefore(x, y))
      /\ \A x, y : DoesIntervalIntersect(interval[x], interval[y])' <=> DoesIntervalIntersect(interval[x], interval[y])
      /\ parent' = parent
  BY KeptFacts DEF Kept
<1>2. Slotted' = Slotted /\ \A x, b : Below(x, b)' <=> Below(x, b)
  BY DEF Slotted, Below
<1>3. \A s \in Threads : batch_index[s] \in Nat /\ batch_index'[s] \in Nat /\ Reached(s) \in Nat /\ Reached(s)' \in Nat
  BY ReachedType DEF Reached, AssignTypeOK
<1>4. \A s \in Threads : \A x : Below(x, Reached(s)) => Below(x, Reached(s)')
  BY <1>3, BelowMonotone
<1>5. \A s \in Threads : \A x : Below(x, batch_index[s]) => Below(x, batch_index'[s])
  BY <1>3, BelowMonotone
<1>6. \A s \in Threads : \A x : Below(x, batch_index[s] - 1) => Below(x, batch_index'[s] - 1)
  <2> SUFFICES ASSUME NEW s \in Threads, NEW x, Below(x, batch_index[s] - 1) PROVE Below(x, batch_index'[s] - 1)
    OBVIOUS
  <2>1. batch_index[s] - 1 \in Int /\ batch_index'[s] - 1 \in Int /\ batch_index[s] - 1 <= batch_index'[s] - 1
    BY <1>3
  <2> QED BY <2>1, BelowMonotone
<1>7. V \subseteq Nodes /\ \A x \in V : parent[x] \in Nodes
  BY OfTheVersion
<1>8. \A s \in Threads : Queues(s)' = Queues(s) /\ \A S \in Queues(s) : S \subseteq V
  BY DEF Queues, AssignOK, QueuesOK
<1>9. \A s \in Threads : \A S \in pq[s] \union next_pq[s] : S \subseteq V
  BY <1>8 DEF Queues
<1>10. ParentsFirst'
  <2>1. \A s \in Threads : \A S \in pq[s] : \A x \in S : parent[x] \in V => Below(parent[x], batch_index'[s] - 1)
    BY <1>6 DEF OrderOK, ParentsFirst
  <2>2. \A s \in Threads : \A S \in next_pq[s] : \A x \in S : HeldBy(s, parent[x])' \/ Below(parent[x], Reached(s)')
    <3> SUFFICES ASSUME NEW s \in Threads, NEW S \in next_pq[s], NEW x \in S
                 PROVE  HeldBy(s, parent[x])' \/ Below(parent[x], Reached(s)')
      OBVIOUS
    <3>1. HeldBy(s, parent[x]) \/ Below(parent[x], Reached(s))
      BY DEF OrderOK, ParentsFirst
    <3>2. parent[x] \in Nodes
      BY <1>7, <1>9
    <3> QED BY <1>1, <1>4, <3>1, <3>2 DEF HeldBy
  <2>3. \A s \in Threads : \A x \in V : HeldBy(s, x) /\ parent[x] \in V => Below(parent[x], batch_index'[s] - 1)
    BY <1>6 DEF OrderOK, ParentsFirst
  <2>4. \A x \in Slotted : parent[x] \in V => Below(parent[x], slot[x].batch - 1)
    BY DEF OrderOK, ParentsFirst
  <2>5. \A s \in Threads, x \in V : HeldBy(s, x)' <=> HeldBy(s, x)
    BY <1>7
  <2> QED BY <1>1, <1>2, <2>1, <2>2, <2>3, <2>4, <2>5 DEF ParentsFirst, Below
<1>11. LaterFirst'
  <2>1. \A s \in Threads : \A S \in Queues(s) : \A x \in S, y \in V \ S : Siblings(x, y) =>
          SortedBefore(y, x) /\ (HeldBy(s, y) \/ Below(y, Reached(s)'))
    BY <1>4 DEF OrderOK, LaterFirst
  <2>2. \A s \in Threads : \A x, y \in V : HeldBy(s, x) /\ Siblings(x, y) =>
          HeldBy(s, y) \/ (SortedBefore(y, x) /\ Below(y, batch_index'[s])) \/ (\E S \in pq[s] : y \in S)
    BY <1>5 DEF OrderOK, LaterFirst
  <2>3. \A x \in Slotted, y \in V : Siblings(x, y) /\ SortedBefore(y, x) => Below(y, slot[x].batch)
    BY DEF OrderOK, LaterFirst
  <2>4. \A s \in Threads, x \in V : HeldBy(s, x)' <=> HeldBy(s, x)
    BY <1>7
  <2>5. \A s \in Threads : \A S \in Queues(s)' : \A x \in S, y \in V' \ S : Siblings(x, y)' =>
          SortedBefore(y, x)' /\ (HeldBy(s, y)' \/ Below(y, Reached(s))')
    BY <1>1, <1>2, <1>8, <2>1, <2>4 DEF Below
  <2>6. \A s \in Threads : \A x, y \in V' : HeldBy(s, x)' /\ Siblings(x, y)' =>
          HeldBy(s, y)' \/ (SortedBefore(y, x)' /\ Below(y, batch_index[s])') \/ (\E S \in pq'[s] : y \in S)
    BY <1>1, <1>2, <2>2, <2>4 DEF Below
  <2>7. \A x \in Slotted', y \in V' : Siblings(x, y)' /\ SortedBefore(y, x)' => Below(y, slot[x].batch)'
    BY <1>1, <1>2, <2>3 DEF Below
  <2> QED BY <2>5, <2>6, <2>7 DEF LaterFirst
<1>12. OverlapTogether'
  <2>1. \A s \in Threads, x \in V : HeldBy(s, x)' <=> HeldBy(s, x)
    BY <1>7
  <2> QED BY <1>1, <1>2, <1>8, <2>1 DEF OrderOK, OverlapTogether
<1> QED BY <1>10, <1>11, <1>12 DEF OrderOK

\* A full batch is left for the next one.
LEMMA OrderTryNext ==
  ASSUME Working, OrderOK, Kept, NEW t \in Threads, FetchAdd(t), ~(counter[found[t]] < MaxBatchSize)
  PROVE  OrderOK'
<1>1. /\ apc[t] = "add" /\ found' = [found EXCEPT ![t] = found[t] + 1]
      /\ UNCHANGED <<slot, apc, pq, next_pq, group, batch_index>>
  BY DEF FetchAdd
<1>2. AssignTypeOK' /\ AssignTypeOK
  BY AssignTryNext DEF Working
<1>3. found'[t] = found[t] + 1 /\ found[t] \in Nat /\ \A s \in Threads \ {t} : found'[s] = found[s]
  BY <1>1, <1>2 DEF AssignTypeOK
<1>4. \A s \in Threads : batch_index[s] \in Nat /\ found[s] \in Nat
  BY <1>2 DEF AssignTypeOK
<1>5. \A s \in Threads : batch_index[s] <= batch_index'[s] /\ Reached(s) <= Reached(s)'
  BY <1>1, <1>3, <1>4 DEF Reached
<1>6. \A s \in Threads, x \in Nodes : HeldBy(s, x)' <=> HeldBy(s, x)
  BY <1>1 DEF HeldBy
<1>7. \A s \in Threads : apc'[s] \in {"add", "size", "raise"} => batch_index'[s] <= found'[s]
  BY <1>1, <1>3, <1>4 DEF OrderOK, ParentsFirst
<1> QED BY <1>1, <1>2, <1>5, <1>6, <1>7, OrderMovesOn

\* The other steps after which nothing is ordered differently.
LEMMA OrderGoesOn ==
  ASSUME Working, OrderOK, Kept, NEW t \in Threads,
         CountSize(t) \/ RaiseHighWaterMark(t) \/ ScanBatchIndices(t) \/ TransmitMinimum(t)
  PROVE  OrderOK'
<1>1. AssignTypeOK' /\ AssignTypeOK
  BY AssignCountSize, AssignRaise, AssignScan, AssignTransmit DEF Working
<1>2. UNCHANGED <<slot, pq, next_pq, group, found>>
  BY DEF CountSize, RaiseHighWaterMark, ScanBatchIndices, TransmitMinimum
<1>3. \A s \in Threads : batch_index[s] \in Nat /\ found[s] \in Nat
  BY <1>1 DEF AssignTypeOK
<1>4. \A s \in Threads : apc[s] \in {"add", "size", "raise"} => batch_index[s] <= found[s]
  BY DEF OrderOK, ParentsFirst
<1>5. \A s \in Threads \ {t} : apc'[s] = apc[s] /\ batch_index'[s] = batch_index[s]
  BY <1>1 DEF AssignTypeOK, CountSize, RaiseHighWaterMark, ScanBatchIndices, TransmitMinimum
<1>6. /\ batch_index[t] <= batch_index'[t] /\ Reached(t) <= Reached(t)'
      /\ apc'[t] # "add" /\ apc[t] # "add"
      /\ apc'[t] \in {"add", "size", "raise"} => batch_index'[t] <= found'[t]
  <2>1. CASE CountSize(t)
    BY <1>1, <1>3, <1>4, <2>1 DEF CountSize, AssignTypeOK, Reached
  <2>2. CASE RaiseHighWaterMark(t)
    <3>1. apc[t] = "raise" /\ apc'[t] \in {"swap", "pop"} /\ batch_index'[t] = found[t]
      BY <1>1, <2>2 DEF RaiseHighWaterMark, AssignTypeOK
    <3> QED BY <1>3, <1>4, <3>1 DEF Reached
  <2>3. CASE ScanBatchIndices(t)
    <3>1. apc[t] = "scan" /\ apc'[t] = "transmit" /\ batch_index' = batch_index
      BY <1>1, <2>3 DEF ScanBatchIndices, AssignTypeOK
    <3> QED BY <1>3, <3>1 DEF Reached
  <2>4. CASE TransmitMinimum(t)
    <3>1. apc[t] = "transmit" /\ apc'[t] = "pop" /\ batch_index' = batch_index
      BY <1>1, <2>4 DEF TransmitMinimum, AssignTypeOK
    <3> QED BY <1>3, <3>1 DEF Reached
  <2> QED BY <2>1, <2>2, <2>3, <2>4
<1>7. \A s \in Threads : batch_index[s] <= batch_index'[s] /\ Reached(s) <= Reached(s)'
  BY <1>2, <1>3, <1>5, <1>6 DEF Reached
<1>8. \A s \in Threads, x \in Nodes : HeldBy(s, x)' <=> HeldBy(s, x)
  BY <1>2, <1>5, <1>6 DEF HeldBy
<1>9. \A s \in Threads : apc'[s] \in {"add", "size", "raise"} => batch_index'[s] <= found'[s]
  BY <1>2, <1>4, <1>5, <1>6
<1> QED BY <1>1, <1>2, <1>7, <1>8, <1>9, OrderMovesOn

\* What is held and what has a batch after a step.
HeldNext(s, x) == apc'[s] = "add" /\ x \in group'[s]
ReachedNext(s) == IF apc'[s] \in {"add", "size", "raise"} THEN found'[s] ELSE batch_index'[s]
BelowNext(x, b) == x \in Slotted' /\ slot'[x].batch <= b

\* The order after a step, for the history that did not change.
LEMMA OrderAgain ==
  ASSUME Kept,
         \A s \in Threads : apc'[s] \in {"add", "size", "raise"} => batch_index'[s] <= found'[s],
         \A s \in Threads : \A S \in pq'[s] : \A x \in S : parent[x] \in V => BelowNext(parent[x], batch_index'[s] - 1),
         \A s \in Threads : \A S \in next_pq'[s] : \A x \in S :
           HeldNext(s, parent[x]) \/ BelowNext(parent[x], ReachedNext(s)),
         \A s \in Threads : \A x \in V : HeldNext(s, x) /\ parent[x] \in V => BelowNext(parent[x], batch_index'[s] - 1),
         \A x \in Slotted' : parent[x] \in V => BelowNext(parent[x], slot'[x].batch - 1),
         \A s \in Threads : \A S \in Queues(s)' : \A x \in S, y \in V \ S : Siblings(x, y) =>
           SortedBefore(y, x) /\ (HeldNext(s, y) \/ BelowNext(y, ReachedNext(s))),
         \A s \in Threads : \A x, y \in V : HeldNext(s, x) /\ Siblings(x, y) =>
           HeldNext(s, y) \/ (SortedBefore(y, x) /\ BelowNext(y, batch_index'[s])) \/ (\E S \in pq'[s] : y \in S),
         \A x \in Slotted', y \in V : Siblings(x, y) /\ SortedBefore(y, x) => BelowNext(y, slot'[x].batch),
         \A x, y \in V : Siblings(x, y) /\ DoesIntervalIntersect(interval[x], interval[y]) =>
           /\ \A s \in Threads : \A S \in Queues(s)' : x \in S => y \in S
           /\ \A s \in Threads : HeldNext(s, x) => HeldNext(s, y)
           /\ x \in Slotted' => y \in Slotted' /\ slot'[y].batch = slot'[x].batch
  PROVE  OrderOK'
<1>1. /\ V' = V /\ \A x, y : (Siblings(x, y)' <=> Siblings(x, y)) /\ (SortedBefore(x, y)' <=> SortedBefore(x, y))
      /\ \A x, y : DoesIntervalIntersect(interval[x], interval[y])' <=> DoesIntervalIntersect(interval[x], interval[y])
      /\ parent' = parent
  BY KeptFacts DEF Kept
<1>2. ParentsFirst'
  BY <1>1 DEF ParentsFirst, HeldNext, ReachedNext, Reached, BelowNext, HeldBy, Below
<1>3. LaterFirst'
  BY <1>1 DEF LaterFirst, HeldNext, ReachedNext, Reached, BelowNext, HeldBy, Below
<1>4. OverlapTogether'
  BY <1>1 DEF OverlapTogether, HeldNext, BelowNext, HeldBy, Below
<1> QED BY <1>2, <1>3, <1>4 DEF OrderOK

\* The level is finished, so all parents of the next level have batches.
LEMMA OrderSwap ==
  ASSUME Working, OrderOK, Kept, NEW t \in Threads, SwapLevel(t)
  PROVE  OrderOK'
<1> USE DEF Working
<1>1. /\ apc[t] = "swap" /\ pq' = [pq EXCEPT ![t] = next_pq[t]]
      /\ next_pq' = [next_pq EXCEPT ![t] = {}]
      /\ batch_index' = [batch_index EXCEPT ![t] = @ + 1]
      /\ apc' = [apc EXCEPT ![t] = "scan"]
      /\ UNCHANGED <<group, found, slot>>
  BY DEF SwapLevel
<1>2. /\ pq'[t] = next_pq[t] /\ next_pq'[t] = {} /\ pq[t] = {} /\ apc'[t] = "scan"
      /\ \A s \in Threads \ {t} : pq'[s] = pq[s] /\ next_pq'[s] = next_pq[s] /\ apc'[s] = apc[s]
  BY <1>1 DEF AssignTypeOK, AssignOK, QueuesOK
<1>3. /\ batch_index'[t] = batch_index[t] + 1 /\ \A s \in Threads \ {t} : batch_index'[s] = batch_index[s]
      /\ \A s \in Threads : batch_index[s] \in Nat /\ found[s] \in Nat
  BY <1>1 DEF AssignTypeOK
<1>4. \A s \in Threads : Queues(s)' = Queues(s)
  BY <1>2 DEF Queues
<1>5. \A x, b : BelowNext(x, b) <=> Below(x, b)
  BY <1>1 DEF BelowNext, Below, Slotted
<1>6. (\A s \in Threads : \A x : HeldNext(s, x) <=> HeldBy(s, x)) /\ \A x : ~HeldBy(t, x)
  BY <1>1, <1>2 DEF HeldNext, HeldBy
<1>7. /\ Reached(t) = batch_index[t] /\ ReachedNext(t) = batch_index[t] + 1
      /\ \A s \in Threads \ {t} : ReachedNext(s) = Reached(s)
  BY <1>1, <1>2, <1>3 DEF Reached, ReachedNext
<1>8. \A s \in Threads : \A x : Below(x, Reached(s)) => Below(x, ReachedNext(s))
  <2> SUFFICES ASSUME NEW s \in Threads, NEW x, Below(x, Reached(s)) PROVE Below(x, ReachedNext(s))
    OBVIOUS
  <2>1. Reached(s) \in Int /\ ReachedNext(s) \in Int /\ Reached(s) <= ReachedNext(s)
    BY <1>3, <1>7, ReachedType
  <2> QED BY <2>1, BelowMonotone
<1>9. batch_index'[t] - 1 = Reached(t)
  BY <1>3, <1>7
<1>10. Slotted' = Slotted /\ slot' = slot
  BY <1>1 DEF Slotted
<1>11. \A s \in Threads : apc'[s] \in {"add", "size", "raise"} => batch_index'[s] <= found'[s]
  BY <1>1, <1>2, <1>3 DEF OrderOK, ParentsFirst
<1>12. \A s \in Threads : \A S \in pq'[s] : \A x \in S : parent[x] \in V => BelowNext(parent[x], batch_index'[s] - 1)
  BY <1>2, <1>3, <1>5, <1>6, <1>9 DEF OrderOK, ParentsFirst
<1>13. \A s \in Threads : \A S \in next_pq'[s] : \A x \in S :
         HeldNext(s, parent[x]) \/ BelowNext(parent[x], ReachedNext(s))
  BY <1>2, <1>5, <1>6, <1>7 DEF OrderOK, ParentsFirst
<1>14. \A s \in Threads : \A x \in V : HeldNext(s, x) /\ parent[x] \in V => BelowNext(parent[x], batch_index'[s] - 1)
  BY <1>3, <1>5, <1>6 DEF OrderOK, ParentsFirst
<1>15. \A x \in Slotted' : parent[x] \in V => BelowNext(parent[x], slot'[x].batch - 1)
  BY <1>5, <1>10 DEF OrderOK, ParentsFirst
<1>16. \A s \in Threads : \A S \in Queues(s)' : \A x \in S, y \in V \ S : Siblings(x, y) =>
         SortedBefore(y, x) /\ (HeldNext(s, y) \/ BelowNext(y, ReachedNext(s)))
  BY <1>4, <1>5, <1>6, <1>8 DEF OrderOK, LaterFirst
<1>17. \A s \in Threads : \A x, y \in V : HeldNext(s, x) /\ Siblings(x, y) =>
         HeldNext(s, y) \/ (SortedBefore(y, x) /\ BelowNext(y, batch_index'[s])) \/ (\E S \in pq'[s] : y \in S)
  BY <1>2, <1>3, <1>5, <1>6 DEF OrderOK, LaterFirst
<1>18. \A x \in Slotted', y \in V : Siblings(x, y) /\ SortedBefore(y, x) => BelowNext(y, slot'[x].batch)
  BY <1>5, <1>10 DEF OrderOK, LaterFirst
<1>19. \A x, y \in V : Siblings(x, y) /\ DoesIntervalIntersect(interval[x], interval[y]) =>
         /\ \A s \in Threads : \A S \in Queues(s)' : x \in S => y \in S
         /\ \A s \in Threads : HeldNext(s, x) => HeldNext(s, y)
         /\ x \in Slotted' => y \in Slotted' /\ slot'[y].batch = slot'[x].batch
  BY <1>4, <1>6, <1>10 DEF OrderOK, OverlapTogether
<1> QED BY <1>11, <1>12, <1>13, <1>14, <1>15, <1>16, <1>17, <1>18, <1>19, OrderAgain

\* The group gets its slots: it comes after what is sorted before it.
LEMMA OrderGroup ==
  ASSUME Working, OrderOK, Kept, NEW t \in Threads, FetchAdd(t), counter[found[t]] < MaxBatchSize
  PROVE  OrderOK'
<1> USE DEF Working
<1> SUFFICES ASSUME NEW bt, bt = found[t], NEW G, G = group[t] PROVE OrderOK'
  OBVIOUS
<1>1. /\ apc[t] = "add" /\ apc'[t] = "size" /\ \A s \in Threads \ {t} : apc'[s] = apc[s]
      /\ UNCHANGED <<pq, next_pq, group, batch_index, found>>
      /\ G \subseteq V /\ G \subseteq Nodes /\ G \intersect Slotted = {}
      /\ bt \in Batches
  BY FetchAddSlots
<1>2. /\ Slotted' = Slotted \union G
      /\ \A x \in Nodes \ G : slot'[x] = slot[x]
      /\ \A x \in G : slot'[x].batch = bt
      /\ AssignTypeOK' /\ V' = V
  BY FetchAddSlots
<1>3. bt \in Nat /\ \A s \in Threads : batch_index[s] \in Nat
  BY DEF AssignTypeOK
<1>4. Slotted \subseteq Nodes /\ \A x \in Slotted : slot'[x] = slot[x] /\ slot[x].batch \in Nat
  BY <1>1, <1>2 DEF Slotted, AssignTypeOK, Lowest
<1>5. \A x, b : BelowNext(x, b) <=> Below(x, b) \/ (x \in G /\ bt <= b)
  BY <1>1, <1>2, <1>4 DEF BelowNext, Below
<1>6. (\A x : HeldBy(t, x) <=> x \in G) /\ \A s \in Threads : \A x : HeldNext(s, x) <=> s # t /\ HeldBy(s, x)
  BY <1>1 DEF HeldNext, HeldBy
<1>7. Reached(t) = bt /\ \A s \in Threads : Queues(s)' = Queues(s) /\ ReachedNext(s) = Reached(s)
  BY <1>1 DEF Queues, Reached, ReachedNext
<1>8. batch_index[t] <= bt
  BY <1>1 DEF OrderOK, ParentsFirst
<1>9. \A x : (Below(x, batch_index[t]) => Below(x, bt)) /\ (Below(x, batch_index[t] - 1) => Below(x, bt - 1))
  BY <1>3, <1>8, BelowMonotone
<1>10. \A x \in Slotted' : (x \in Slotted /\ slot'[x].batch = slot[x].batch) \/ (x \in G /\ slot'[x].batch = bt)
  <2>1. \A x \in Slotted : slot'[x].batch = slot[x].batch
    BY <1>4
  <2> QED BY <1>2, <2>1
<1>11. \A s \in Threads : apc'[s] \in {"add", "size", "raise"} => batch_index'[s] <= found'[s]
  BY <1>1, <1>8 DEF OrderOK, ParentsFirst
<1>12. \A s \in Threads : \A S \in pq'[s] : \A x \in S : parent[x] \in V => BelowNext(parent[x], batch_index'[s] - 1)
  BY <1>1, <1>5 DEF OrderOK, ParentsFirst
<1>13. \A s \in Threads : \A S \in next_pq'[s] : \A x \in S :
         HeldNext(s, parent[x]) \/ BelowNext(parent[x], ReachedNext(s))
  BY <1>1, <1>3, <1>5, <1>6, <1>7 DEF OrderOK, ParentsFirst
<1>14. \A s \in Threads : \A x \in V : HeldNext(s, x) /\ parent[x] \in V => BelowNext(parent[x], batch_index'[s] - 1)
  BY <1>1, <1>5, <1>6 DEF OrderOK, ParentsFirst
<1>15. \A x \in Slotted' : parent[x] \in V => BelowNext(parent[x], slot'[x].batch - 1)
  <2>1. \A x \in G : parent[x] \in V => Below(parent[x], bt - 1)
    BY <1>1, <1>6, <1>9 DEF OrderOK, ParentsFirst
  <2>2. \A x \in Slotted : parent[x] \in V => Below(parent[x], slot[x].batch - 1)
    BY DEF OrderOK, ParentsFirst
  <2> QED BY <1>5, <1>10, <2>1, <2>2
<1>16. \A s \in Threads : \A S \in Queues(s)' : \A x \in S, y \in V \ S : Siblings(x, y) =>
         SortedBefore(y, x) /\ (HeldNext(s, y) \/ BelowNext(y, ReachedNext(s)))
  BY <1>3, <1>5, <1>6, <1>7 DEF OrderOK, LaterFirst
<1>17. \A s \in Threads : \A x, y \in V : HeldNext(s, x) /\ Siblings(x, y) =>
         HeldNext(s, y) \/ (SortedBefore(y, x) /\ BelowNext(y, batch_index'[s])) \/ (\E S \in pq'[s] : y \in S)
  BY <1>1, <1>5, <1>6 DEF OrderOK, LaterFirst
<1>18. ASSUME NEW x \in G, NEW y \in V, Siblings(x, y), SortedBefore(y, x) PROVE BelowNext(y, bt)
  <2>1. HeldBy(t, x) /\ x \in V
    BY <1>1, <1>6
  <2>2. HeldBy(t, y) \/ (SortedBefore(y, x) /\ Below(y, batch_index[t])) \/ (\E S \in pq[t] : y \in S)
    BY <1>18, <2>1 DEF OrderOK, LaterFirst
  <2>3. CASE HeldBy(t, y)
    BY <1>3, <1>5, <1>6, <2>3
  <2>4. CASE Below(y, batch_index[t])
    BY <1>5, <1>9, <2>4
  <2>5. ASSUME NEW S \in pq[t], y \in S PROVE FALSE
    <3>1. S \in Queues(t)
      BY DEF Queues
    <3>2. x \notin S
      <4>1. Held(x)
        BY <1>1 DEF Held
      <4>2. ~InQueue(x)
        BY <1>1, <4>1 DEF AssignOK, GroupsOK
      <4> QED BY <3>1, <4>2 DEF InQueue
    <3>3. SortedBefore(x, y)
      <4>1. Siblings(y, x)
        BY <1>18 DEF Siblings
      <4> QED BY <2>1, <2>5, <3>1, <3>2, <4>1 DEF OrderOK, LaterFirst
    <3>4. interval[x].end > interval[y].end /\ interval[y].end > interval[x].end
      BY <1>18, <2>1, <3>3, SortedByEnd
    <3>5. interval[x].end \in Nat /\ interval[y].end \in Nat
      BY <2>1, OfTheVersion
    <3> QED BY <3>4, <3>5
  <2> QED BY <2>2, <2>3, <2>4, <2>5
<1>19. \A x \in Slotted', y \in V : Siblings(x, y) /\ SortedBefore(y, x) => BelowNext(y, slot'[x].batch)
  <2>1. \A x \in Slotted, y \in V : Siblings(x, y) /\ SortedBefore(y, x) => Below(y, slot[x].batch)
    BY DEF OrderOK, LaterFirst
  <2> QED BY <1>5, <1>10, <1>18, <2>1
<1>20. ASSUME NEW x \in V, NEW y \in V, Siblings(x, y), DoesIntervalIntersect(interval[x], interval[y])
       PROVE  /\ \A s \in Threads : \A S \in Queues(s)' : x \in S => y \in S
              /\ \A s \in Threads : HeldNext(s, x) => HeldNext(s, y)
              /\ x \in Slotted' => y \in Slotted' /\ slot'[y].batch = slot'[x].batch
  <2>1. /\ \A s \in Threads : \A S \in Queues(s) : x \in S => y \in S
        /\ \A s \in Threads : HeldBy(s, x) => HeldBy(s, y)
        /\ x \in Slotted => y \in Slotted /\ slot[y].batch = slot[x].batch
    BY <1>20 DEF OrderOK, OverlapTogether
  <2> QED BY <1>2, <1>4, <1>6, <1>7, <2>1
<1> QED BY <1>11, <1>12, <1>13, <1>14, <1>15, <1>16, <1>17, <1>19, <1>20, OrderAgain

\* Contractions overlap or they do not, whichever is named first.
LEMMA OverlapIsSymmetric ==
  ASSUME NEW x, NEW y
  PROVE  DoesIntervalIntersect(interval[x], interval[y]) => DoesIntervalIntersect(interval[y], interval[x])
BY DEF DoesIntervalIntersect

\* A group is taken from the queue: it holds what comes first of the children, and all
\* that overlap with it.
LEMMA OrderPop ==
  ASSUME Working, OrderOK, Kept, NEW t \in Threads, PopGroup(t)
  PROVE  OrderOK'
<1> USE DEF Working
<1>1. PICK C \in pq[t] : Taken(t, C)
  BY DEF PopGroup, Taken
<1>2. /\ apc[t] = "pop" /\ apc' = [apc EXCEPT ![t] = "add"]
      /\ found' = [found EXCEPT ![t] = StartBatch(t)]
      /\ UNCHANGED <<batch_index, slot>>
  BY DEF PopGroup
<1> SUFFICES ASSUME NEW G, G = Group(C) PROVE OrderOK'
  OBVIOUS
<1>3. /\ C \subseteq V /\ C # {} /\ G \subseteq C
      /\ (\A x, y \in C : parent[x] = parent[y])
      /\ \A s \in Threads \ {t} : pq'[s] = pq[s] /\ next_pq'[s] = next_pq[s] /\ group'[s] = group[s]
      /\ group'[t] = G
      /\ pq'[t] = (pq[t] \ {C}) \union ({C \ G} \ {{}})
  BY <1>1, TakenFacts
<1>4. next_pq'[t] = next_pq[t] \union ({{x \in V : parent[x] = v} : v \in G} \ {{}})
  BY <1>1, TakenFacts
<1>5. \A s \in Threads : \A S : S \in Queues(s)' =>
        \/ S \in Queues(s) /\ ~(s = t /\ S = C)
        \/ s = t /\ S = C \ G /\ S # {}
        \/ s = t /\ S # {} /\ \E v \in G : S = {x \in V : parent[x] = v}
  BY <1>1, TakenQueues
<1>6. /\ \A x \in G, y \in C : SortedBefore(y, x) => y \in G
      /\ \A x \in G, y \in C : DoesIntervalIntersect(interval[x], interval[y]) => y \in G
  <2>1. C \in SUBSET V
    BY <1>3
  <2> QED BY <1>3, <2>1, GroupFacts
<1>7. /\ apc'[t] = "add" /\ found'[t] = StartBatch(t)
      /\ \A s \in Threads \ {t} : apc'[s] = apc[s] /\ found'[s] = found[s]
      /\ \A s \in Threads : batch_index[s] \in Nat /\ found[s] \in Nat
  BY <1>2 DEF AssignTypeOK
<1>8. StartBatch(t) \in Nat /\ batch_index[t] <= StartBatch(t)
  BY StartBatchFilled
<1>9. \A x, b : BelowNext(x, b) <=> Below(x, b)
  BY <1>2 DEF BelowNext, Below, Slotted
<1>10. /\ \A s \in Threads : \A x : HeldNext(s, x) <=> HeldBy(s, x) \/ (s = t /\ x \in G)
       /\ \A x : ~HeldBy(t, x)
  BY <1>2, <1>3, <1>7 DEF HeldNext, HeldBy
<1>11. /\ Reached(t) = batch_index[t] /\ ReachedNext(t) = StartBatch(t)
       /\ \A s \in Threads \ {t} : ReachedNext(s) = Reached(s)
  BY <1>2, <1>7 DEF Reached, ReachedNext
<1>12. \A s \in Threads : \A x : Below(x, Reached(s)) => Below(x, ReachedNext(s))
  <2> SUFFICES ASSUME NEW s \in Threads, NEW x, Below(x, Reached(s)) PROVE Below(x, ReachedNext(s))
    OBVIOUS
  <2>1. Reached(s) \in Int /\ ReachedNext(s) \in Int /\ Reached(s) <= ReachedNext(s)
    BY <1>7, <1>8, <1>11, ReachedType
  <2> QED BY <2>1, BelowMonotone
<1>13. Slotted' = Slotted /\ slot' = slot /\ batch_index' = batch_index
  BY <1>2 DEF Slotted
<1>14. C \in Queues(t)
  BY DEF Queues
<1>15. \A x \in C, y \in V \ C : Siblings(x, y) => SortedBefore(y, x) /\ Below(y, batch_index[t])
  BY <1>10, <1>11, <1>14 DEF OrderOK, LaterFirst
<1>16. \A x \in C, y \in V : Siblings(x, y) /\ DoesIntervalIntersect(interval[x], interval[y]) => y \in C
  BY <1>3, <1>14 DEF OrderOK, OverlapTogether
<1>21. \A s \in Threads : apc'[s] \in {"add", "size", "raise"} => batch_index'[s] <= found'[s]
  BY <1>7, <1>8, <1>13 DEF OrderOK, ParentsFirst
<1>22. \A s \in Threads : \A S \in pq'[s] : \A x \in S : parent[x] \in V => BelowNext(parent[x], batch_index'[s] - 1)
  <2> SUFFICES ASSUME NEW s \in Threads, NEW S \in pq'[s], NEW x \in S, parent[x] \in V
               PROVE  Below(parent[x], batch_index[s] - 1)
    BY <1>9, <1>13
  <2>1. \E R \in pq[s] : x \in R
    BY <1>3
  <2> QED BY <2>1 DEF OrderOK, ParentsFirst
<1>23. \A s \in Threads : \A S \in next_pq'[s] : \A x \in S :
         HeldNext(s, parent[x]) \/ BelowNext(parent[x], ReachedNext(s))
  <2> SUFFICES ASSUME NEW s \in Threads, NEW S \in next_pq'[s], NEW x \in S
               PROVE  HeldNext(s, parent[x]) \/ BelowNext(parent[x], ReachedNext(s))
    OBVIOUS
  <2>1. S \in next_pq[s] \/ (s = t /\ \E v \in G : S = {y \in V : parent[y] = v})
    BY <1>3, <1>4
  <2>2. CASE S \in next_pq[s]
    BY <1>9, <1>10, <1>12, <2>2 DEF OrderOK, ParentsFirst
  <2>3. CASE s = t /\ \E v \in G : S = {y \in V : parent[y] = v}
    BY <1>10, <2>3
  <2> QED BY <2>1, <2>2, <2>3
<1>24. \A s \in Threads : \A x \in V : HeldNext(s, x) /\ parent[x] \in V => BelowNext(parent[x], batch_index'[s] - 1)
  <2>1. \A x \in C : parent[x] \in V => Below(parent[x], batch_index[t] - 1)
    BY DEF OrderOK, ParentsFirst
  <2> QED BY <1>3, <1>9, <1>10, <1>13, <2>1 DEF OrderOK, ParentsFirst
<1>25. \A x \in Slotted' : parent[x] \in V => BelowNext(parent[x], slot'[x].batch - 1)
  BY <1>9, <1>13 DEF OrderOK, ParentsFirst
<1>26. \A s \in Threads : \A S \in Queues(s)' : \A x \in S, y \in V \ S : Siblings(x, y) =>
         SortedBefore(y, x) /\ (HeldNext(s, y) \/ BelowNext(y, ReachedNext(s)))
  <2> SUFFICES ASSUME NEW s \in Threads, NEW S \in Queues(s)', NEW x \in S, NEW y \in V \ S, Siblings(x, y)
               PROVE  SortedBefore(y, x) /\ (HeldNext(s, y) \/ BelowNext(y, ReachedNext(s)))
    OBVIOUS
  <2>1. CASE S \in Queues(s)
    BY <1>9, <1>10, <1>12, <2>1 DEF OrderOK, LaterFirst
  <2>2. CASE s = t /\ S = C \ G
    <3>1. CASE y \in G
      <4>1. SortedBefore(y, x)
        <5>1. x \in V /\ y \in V /\ x # y /\ ~SortedBefore(x, y)
          BY <1>3, <1>6, <2>2, <3>1
        <5> QED BY <5>1, SortedByEnd
      <4> QED BY <1>10, <2>2, <3>1, <4>1
    <3>2. CASE y \notin G
      <4>1. SortedBefore(y, x) /\ Below(y, batch_index[t])
        BY <1>15, <2>2, <3>2
      <4> QED BY <1>9, <1>11, <1>12, <2>2, <4>1
    <3> QED BY <3>1, <3>2
  <2>3. CASE \E v \in G : S = {z \in V : parent[z] = v}
    BY <2>3 DEF Siblings
  <2> QED BY <1>5, <2>1, <2>2, <2>3
<1>27. \A s \in Threads : \A x, y \in V : HeldNext(s, x) /\ Siblings(x, y) =>
         HeldNext(s, y) \/ (SortedBefore(y, x) /\ BelowNext(y, batch_index'[s])) \/ (\E S \in pq'[s] : y \in S)
  <2> SUFFICES ASSUME NEW s \in Threads, NEW x \in V, NEW y \in V, HeldNext(s, x), Siblings(x, y)
               PROVE  HeldNext(s, y) \/ (SortedBefore(y, x) /\ Below(y, batch_index[s])) \/ (\E S \in pq'[s] : y \in S)
    BY <1>9, <1>13
  <2>1. CASE s # t
    BY <1>3, <1>10, <2>1 DEF OrderOK, LaterFirst
  <2>2. CASE s = t
    <3>1. x \in G /\ x \in C
      BY <1>3, <1>10, <2>2
    <3>2. CASE y \in G
      BY <1>10, <2>2, <3>2
    <3>3. CASE y \in C \ G
      <4>1. C \ G \in pq'[t]
        BY <1>3, <3>3
      <4> QED BY <2>2, <3>3, <4>1
    <3>4. CASE y \notin C
      BY <1>15, <2>2, <3>1, <3>4
    <3> QED BY <3>2, <3>3, <3>4
  <2> QED BY <2>1, <2>2
<1>28. \A x \in Slotted', y \in V : Siblings(x, y) /\ SortedBefore(y, x) => BelowNext(y, slot'[x].batch)
  BY <1>9, <1>13 DEF OrderOK, LaterFirst
<1>29. ASSUME NEW x \in V, NEW y \in V, Siblings(x, y), DoesIntervalIntersect(interval[x], interval[y])
       PROVE  /\ \A s \in Threads : \A S \in Queues(s)' : x \in S => y \in S
              /\ \A s \in Threads : HeldNext(s, x) => HeldNext(s, y)
              /\ x \in Slotted' => y \in Slotted' /\ slot'[y].batch = slot'[x].batch
  <2>1. /\ \A s \in Threads : \A S \in Queues(s) : x \in S => y \in S
        /\ \A s \in Threads : HeldBy(s, x) => HeldBy(s, y)
        /\ x \in Slotted => y \in Slotted /\ slot[y].batch = slot[x].batch
    BY <1>29 DEF OrderOK, OverlapTogether
  <2>2. x \in C => y \in C
    BY <1>16, <1>29
  <2>3. x \in C => (x \in G <=> y \in G)
    <3>1. DoesIntervalIntersect(interval[y], interval[x])
      BY <1>29, OverlapIsSymmetric
    <3> QED BY <1>6, <1>29, <2>2, <3>1
  <2>4. ASSUME NEW s \in Threads, NEW S \in Queues(s)', x \in S PROVE y \in S
    <3>1. CASE S \in Queues(s)
      BY <2>1, <2>4, <3>1
    <3>2. CASE S = C \ G
      BY <2>2, <2>3, <2>4, <3>2
    <3>3. CASE \E v \in G : S = {z \in V : parent[z] = v}
      BY <1>29, <2>4, <3>3 DEF Siblings
    <3> QED BY <1>5, <3>1, <3>2, <3>3
  <2>5. \A s \in Threads : HeldNext(s, x) => HeldNext(s, y)
    BY <1>3, <1>10, <2>1, <2>3
  <2> QED BY <1>13, <2>1, <2>4, <2>5
<1> QED BY <1>21, <1>22, <1>23, <1>24, <1>25, <1>26, <1>27, <1>28, <1>29, OrderAgain

\* A version starts with all children of its roots.
LEMMA OrderStart ==
  ASSUME HistoryInv, phase = "assign", AssignTypeOK, Fresh, Kept, StartVersion
  PROVE  OrderOK'
<1>1. PICK thread \in [RootsOfVersion(current) -> Threads] :
        pq' = [t \in Threads |->
                {ChildsOfVersion(u, current) : u \in {r \in DOMAIN thread : thread[r] = t}}]
  BY DEF StartVersion
<1>2. apc' = [t \in Threads |-> "pop"] /\ UNCHANGED <<next_pq, slot>>
  BY DEF StartVersion
<1>3. \A s \in Threads : next_pq'[s] = {} /\ Queues(s)' = pq'[s] /\ apc'[s] = "pop"
  BY <1>2 DEF Fresh, Queues
<1>4. Slotted' = {}
  BY <1>2 DEF Slotted, Fresh, Unassigned
<1>5. \A s \in Threads : \A x : ~HeldNext(s, x)
  BY <1>3 DEF HeldNext
<1>6. \A s \in Threads : \A S \in pq'[s] : \E u \in Nodes : S = {v \in V : parent[v] = u} /\ u \in RootsOfVersion(current)
  <2> SUFFICES ASSUME NEW s \in Threads, NEW S \in pq'[s]
               PROVE  \E u \in Nodes : S = {v \in V : parent[v] = u} /\ u \in RootsOfVersion(current)
    OBVIOUS
  <2>1. PICK u \in RootsOfVersion(current) : S = ChildsOfVersion(u, current)
    BY <1>1
  <2>2. u \in Nodes
    BY DEF RootsOfVersion
  <2> QED BY <2>1, <2>2, ChildsOfTheVersion
<1>7. \A s \in Threads : \A S \in Queues(s)' : \A x \in S : x \in V /\ parent[x] \notin V /\ S = {v \in V : parent[v] = parent[x]}
  <2> SUFFICES ASSUME NEW s \in Threads, NEW S \in pq'[s], NEW x \in S
               PROVE  x \in V /\ parent[x] \notin V /\ S = {v \in V : parent[v] = parent[x]}
    BY <1>3
  <2>1. PICK u \in Nodes : S = {v \in V : parent[v] = u} /\ u \in RootsOfVersion(current)
    BY <1>6
  <2>2. x \in V /\ parent[x] = u
    BY <2>1
  <2> QED BY <2>1, <2>2, ParentIsRoot
<1>11. \A s \in Threads : apc'[s] \in {"add", "size", "raise"} => batch_index'[s] <= found'[s]
  BY <1>3
<1>12. \A s \in Threads : \A S \in pq'[s] : \A x \in S : parent[x] \in V => BelowNext(parent[x], batch_index'[s] - 1)
  BY <1>3, <1>7
<1>13. \A s \in Threads : \A S \in next_pq'[s] : \A x \in S :
         HeldNext(s, parent[x]) \/ BelowNext(parent[x], ReachedNext(s))
  BY <1>3
<1>14. \A s \in Threads : \A S \in Queues(s)' : \A x \in S, y \in V \ S : ~Siblings(x, y)
  BY <1>7 DEF Siblings
<1>15. \A x, y \in V : Siblings(x, y) => \A s \in Threads : \A S \in Queues(s)' : x \in S => y \in S
  BY <1>14
<1> QED BY <1>4, <1>5, <1>11, <1>12, <1>13, <1>14, <1>15, OrderAgain

\* The contractions of the version get the batches after those of the versions before,
\* in the reverse of the order they were assigned in.
LEMMA FinishedBatches ==
  ASSUME Working, AssignedOK, FinishVersion
  PROVE  /\ OffsetOf(hierarchy) \in Nat /\ NumberOfNonEmptyBatches \in Nat
         /\ hierarchy' \in Seq(Seq(SUBSET Nodes)) /\ batch_of' \in [Nodes -> Int]
         /\ OffsetOf(hierarchy') = OffsetOf(hierarchy) + NumberOfNonEmptyBatches
         /\ \A v \in V : /\ v \in Nodes /\ slot[v].batch \in 0..(NumberOfNonEmptyBatches - 1)
                         /\ batch_of'[v] = OffsetOf(hierarchy) + NumberOfNonEmptyBatches - 1 - slot[v].batch
         /\ \A v \in Nodes \ V : batch_of'[v] = batch_of[v]
<1> USE DEF Working
<1>1. VersionAssigned
  BY DEF FinishVersion
<1> SUFFICES ASSUME NEW num, num = NumberOfNonEmptyBatches, NEW off, off = OffsetOf(hierarchy)
             PROVE  /\ off \in Nat /\ num \in Nat
                    /\ hierarchy' \in Seq(Seq(SUBSET Nodes)) /\ batch_of' \in [Nodes -> Int]
                    /\ OffsetOf(hierarchy') = off + num
                    /\ \A v \in V : /\ v \in Nodes /\ slot[v].batch \in 0..(num - 1)
                                    /\ batch_of'[v] = off + num - 1 - slot[v].batch
                    /\ \A v \in Nodes \ V : batch_of'[v] = batch_of[v]
  OBVIOUS
<1>2. num \in Nat
  BY <1>1, NumberIsExact
<1> DEFINE Members(b) == {v \in Nodes : version_of[v] = current /\ slot[v].batch = b}
           B == [i \in 1..num |-> Members(num - i)]
<1>3. hierarchy' = Append(hierarchy, B)
  BY DEF FinishVersion
<1>4. batch_of' = [v \in Nodes |-> IF \E b \in 0..(num - 1) : v \in Members(b)
                                   THEN off + num - 1 - slot[v].batch ELSE batch_of[v]]
  BY DEF FinishVersion, OffsetOf
<1>5. B \in Seq(SUBSET Nodes) /\ Len(B) = num
  BY <1>2
<1>6. hierarchy \in Seq(Seq(SUBSET Nodes)) /\ batch_of \in [Nodes -> Int]
  BY DEF AssignedOK
<1> HIDE DEF B
<1>7. off \in Nat /\ OffsetOf(hierarchy') = off + num
  BY <1>3, <1>5, <1>6, OffsetAppend
<1>8. hierarchy' \in Seq(Seq(SUBSET Nodes))
  BY <1>3, <1>5, <1>6
<1>9. \A v \in V : v \in Nodes /\ slot[v].batch \in 0..(num - 1) /\ version_of[v] = current
  BY <1>1, SlotsInRange, OfTheVersion
<1>10. \A v \in Nodes : (\E b \in 0..(num - 1) : v \in Members(b)) <=> v \in V
  BY <1>9 DEF V, OfVersion
<1> HIDE DEF Members
<1>11. batch_of' = [v \in Nodes |-> IF v \in V THEN off + num - 1 - slot[v].batch ELSE batch_of[v]]
  BY <1>4, <1>10
<1>12. \A v \in V : slot[v].batch \in Int
  BY <1>9
<1>13. batch_of' \in [Nodes -> Int]
  <2>1. \A v \in Nodes : (IF v \in V THEN off + num - 1 - slot[v].batch ELSE batch_of[v]) \in Int
    BY <1>2, <1>6, <1>7, <1>12
  <2> QED BY <1>11, <2>1
<1> QED BY <1>2, <1>7, <1>8, <1>9, <1>11, <1>13

\* A version is finished: its batches come after those of the versions before it.
LEMMA OrderFinish ==
  ASSUME Working, OrderOK, AssignedOK, FinishVersion, UNCHANGED <<parent, version_of, interval>>
  PROVE  AssignedOK'
<1> USE DEF Working
<1> SUFFICES ASSUME NEW num, num = NumberOfNonEmptyBatches, NEW off, off = OffsetOf(hierarchy) PROVE AssignedOK'
  OBVIOUS
<1>1. /\ off \in Nat /\ num \in Nat
      /\ hierarchy' \in Seq(Seq(SUBSET Nodes)) /\ batch_of' \in [Nodes -> Int]
      /\ OffsetOf(hierarchy') = off + num
      /\ \A v \in V : v \in Nodes /\ slot[v].batch \in 0..(num - 1) /\ batch_of'[v] = off + num - 1 - slot[v].batch
      /\ \A v \in Nodes \ V : batch_of'[v] = batch_of[v]
  BY FinishedBatches
<1>2. current \in Nat /\ current' = current + 1 /\ Slotted = V
  BY AllSlotted DEF FinishVersion, AssignTypeOK
<1>3. \A v \in Nodes : version_of[v] \in Int
  BY DEF HistoryInv, HistoryTypeOK
<1>4. Assigned' = Assigned \union V
  BY <1>2, <1>3 DEF Assigned, V, OfVersion, Unversioned
<1>5. /\ \A v \in Assigned : /\ v \in Nodes /\ v \notin V /\ version_of[v] \in Int /\ version_of[v] < current
                             /\ batch_of'[v] = batch_of[v] /\ batch_of[v] \in 0..(off - 1)
      /\ \A v \in V : v \in Nodes /\ version_of[v] = current /\ batch_of'[v] \in off..(off + num - 1)
  <2>1. \A v \in Assigned : v \in Nodes /\ v \notin V /\ version_of[v] \in Int /\ version_of[v] < current
    BY <1>2, <1>3 DEF Assigned, V, OfVersion
  <2>2. \A v \in Assigned : batch_of'[v] = batch_of[v] /\ batch_of[v] \in 0..(off - 1)
    BY <1>1, <2>1 DEF AssignedOK
  <2>3. \A v \in V : v \in Nodes /\ version_of[v] = current
    BY DEF V, OfVersion
  <2>4. \A v \in V : batch_of'[v] \in off..(off + num - 1)
    <3> SUFFICES ASSUME NEW v \in V, NEW b, b = slot[v].batch PROVE batch_of'[v] \in off..(off + num - 1)
      OBVIOUS
    <3>1. b \in 0..(num - 1) /\ batch_of'[v] = off + num - 1 - b
      BY <1>1
    <3> QED BY <1>1, <3>1
  <2> QED BY <2>1, <2>2, <2>3, <2>4
<1>6. \A v \in Assigned \union V : v \in Contracted /\ v \in Nodes /\ cpc[v] = "done" /\ parent[v] # v
  <2>1. \A v \in Assigned \union V : v \in Nodes /\ version_of[v] # Unversioned
    BY <1>2, <1>5 DEF Assigned, Unversioned
  <2>2. \A v \in Assigned \union V : cpc[v] # "idle"
    BY <2>1 DEF HistoryInv, VersionsOK
  <2>3. \A v \in Assigned \union V : cpc[v] = "done"
    BY <2>1, <2>2 DEF HistoryInv, VersionsOK, Running
  <2> QED BY <2>1, <2>2, <2>3 DEF HistoryInv, TreeOK, Contracted
<1>7. \A v, w \in Assigned :
        /\ version_of[v] < version_of[w] => batch_of[v] < batch_of[w]
        /\ parent[v] = w => batch_of[v] < batch_of[w]
        /\ Siblings(v, w) /\ interval[v].end < interval[w].start => batch_of[v] <= batch_of[w]
        /\ Siblings(v, w) /\ version_of[v] = version_of[w] /\ DoesIntervalIntersect(interval[v], interval[w]) =>
             batch_of[v] = batch_of[w]
  BY DEF AssignedOK
<1>8. \A v \in Assigned, w \in V : batch_of'[v] < batch_of'[w]
  BY <1>1, <1>5
<1>9. \A v \in V, w \in Assigned : parent[v] # w
  <2> SUFFICES ASSUME NEW v \in V, NEW w \in Assigned, parent[v] = w PROVE FALSE
    OBVIOUS
  <2>1. version_of[v] <= version_of[w]
    BY <1>6 DEF HistoryInv, TreeOK
  <2> QED BY <1>2, <1>5, <2>1
<1>10. \A v \in V, w \in Assigned : ~(interval[v].end < interval[w].start)
  <2> SUFFICES ASSUME NEW v \in V, NEW w \in Assigned, interval[v].end < interval[w].start PROVE FALSE
    OBVIOUS
  <2>1. v \in Contracted /\ w \in Nodes /\ cpc[w] \in Opened /\ v \in Nodes
    BY <1>6 DEF Opened
  <2>2. interval[v].end <= interval[w].start
    BY <2>1 DEF HistoryInv, HistoryTypeOK
  <2>3. version_of[v] <= version_of[w]
    BY <2>1, <2>2 DEF HistoryInv, IntervalsOK
  <2> QED BY <1>2, <1>5, <2>3
<1>11. \A v, w \in V : parent[v] = w => batch_of'[v] < batch_of'[w]
  <2> SUFFICES ASSUME NEW v \in V, NEW w \in V, parent[v] = w PROVE batch_of'[v] < batch_of'[w]
    OBVIOUS
  <2>1. slot[w].batch <= slot[v].batch - 1
    BY <1>2 DEF OrderOK, ParentsFirst, Below
  <2>2. /\ slot[v].batch \in Int /\ batch_of'[v] = off + num - 1 - slot[v].batch
        /\ slot[w].batch \in Int /\ batch_of'[w] = off + num - 1 - slot[w].batch
    BY <1>1
  <2>3. off \in Int /\ num \in Int
    BY <1>1
  <2> QED BY <2>1, <2>2, <2>3
<1>12. \A v, w \in V : Siblings(v, w) /\ interval[v].end < interval[w].start => batch_of'[v] <= batch_of'[w]
  <2> SUFFICES ASSUME NEW v \in V, NEW w \in V, Siblings(v, w), interval[v].end < interval[w].start
               PROVE  batch_of'[v] <= batch_of'[w]
    OBVIOUS
  <2>1. interval[w].end > interval[v].end
    BY OfTheVersion
  <2>2. SortedBefore(w, v)
    BY <2>1, SortedByEnd
  <2>3. slot[w].batch <= slot[v].batch
    BY <1>2, <2>2 DEF OrderOK, LaterFirst, Below
  <2> QED BY <1>1, <2>3
<1>13. \A v, w \in V : Siblings(v, w) /\ DoesIntervalIntersect(interval[v], interval[w]) => batch_of'[v] = batch_of'[w]
  <2> SUFFICES ASSUME NEW v \in V, NEW w \in V, Siblings(v, w), DoesIntervalIntersect(interval[v], interval[w])
               PROVE  batch_of'[v] = batch_of'[w]
    OBVIOUS
  <2>1. slot[w].batch = slot[v].batch
    BY <1>2 DEF OrderOK, OverlapTogether
  <2> QED BY <1>1, <2>1
<1>14. \A v \in Assigned \union V : batch_of'[v] \in 0..(off + num - 1)
  BY <1>1, <1>5
<1>15. \A v, w \in Assigned \union V :
         /\ version_of[v] < version_of[w] => batch_of'[v] < batch_of'[w]
         /\ parent[v] = w => batch_of'[v] < batch_of'[w]
         /\ Siblings(v, w) /\ interval[v].end < interval[w].start => batch_of'[v] <= batch_of'[w]
         /\ Siblings(v, w) /\ version_of[v] = version_of[w] /\ DoesIntervalIntersect(interval[v], interval[w]) =>
              batch_of'[v] = batch_of'[w]
  <2> SUFFICES ASSUME NEW v \in Assigned \union V, NEW w \in Assigned \union V
               PROVE  /\ version_of[v] < version_of[w] => batch_of'[v] < batch_of'[w]
                      /\ parent[v] = w => batch_of'[v] < batch_of'[w]
                      /\ Siblings(v, w) /\ interval[v].end < interval[w].start => batch_of'[v] <= batch_of'[w]
                      /\ Siblings(v, w) /\ version_of[v] = version_of[w]
                           /\ DoesIntervalIntersect(interval[v], interval[w]) => batch_of'[v] = batch_of'[w]
    OBVIOUS
  <2>1. CASE v \in Assigned /\ w \in Assigned
    BY <1>5, <1>7, <2>1
  <2>2. CASE v \in Assigned /\ w \in V
    <3>1. batch_of'[v] < batch_of'[w] /\ batch_of'[v] <= batch_of'[w] /\ version_of[v] # version_of[w]
      BY <1>1, <1>2, <1>5, <1>8, <2>2
    <3> QED BY <3>1
  <2>3. CASE v \in V /\ w \in Assigned
    <3>1. ~(version_of[v] < version_of[w]) /\ version_of[v] # version_of[w]
      BY <1>2, <1>5, <2>3
    <3> QED BY <1>9, <1>10, <2>3, <3>1
  <2>4. CASE v \in V /\ w \in V
    <3>1. ~(version_of[v] < version_of[w])
      BY <1>2, <1>5, <2>4
    <3> QED BY <1>11, <1>12, <1>13, <2>4, <3>1
  <2> QED BY <2>1, <2>2, <2>3, <2>4
<1>16. \A v, w : Siblings(v, w)' <=> Siblings(v, w)
  BY DEF Siblings
<1>17. \A v, w : DoesIntervalIntersect(interval[v], interval[w])' <=> DoesIntervalIntersect(interval[v], interval[w])
  BY DEF DoesIntervalIntersect
<1>18. \A v \in Assigned' : batch_of'[v] \in 0..(OffsetOf(hierarchy') - 1)
  BY <1>1, <1>4, <1>14
<1> QED BY <1>1, <1>4, <1>15, <1>16, <1>17, <1>18 DEF AssignedOK

\* What the order is about.
ovars == <<parent, version_of, interval, current, apc, pq, next_pq, group, batch_index, found, slot,
           hierarchy, batch_of>>

\* Nothing of it changes.
LEMMA OrderUnchanged ==
  ASSUME UNCHANGED ovars PROVE (OrderOK => OrderOK') /\ (AssignedOK => AssignedOK')
<1> USE DEF ovars
<1>1. UNCHANGED <<V, Slotted, Assigned>> /\ \A s : Queues(s)' = Queues(s) /\ Reached(s)' = Reached(s)
  BY DEF V, OfVersion, Slotted, Assigned, Queues, Reached
<1>2. \A x, y : (Siblings(x, y)' <=> Siblings(x, y)) /\ (SortedBefore(x, y)' <=> SortedBefore(x, y))
                /\ (DoesIntervalIntersect(interval[x], interval[y])' <=> DoesIntervalIntersect(interval[x], interval[y]))
                /\ (Below(x, y)' <=> Below(x, y)) /\ (HeldBy(x, y)' <=> HeldBy(x, y))
  BY <1>1 DEF Siblings, SortedBefore, DoesIntervalIntersect, Below, HeldBy
<1>3. ParentsFirst => ParentsFirst'
  BY <1>1 DEF ParentsFirst, Below, HeldBy
<1>4. LaterFirst => LaterFirst'
  BY <1>1, <1>2 DEF LaterFirst, Below, HeldBy
<1>5. OverlapTogether => OverlapTogether'
  BY <1>1, <1>2 DEF OverlapTogether
<1>6. AssignedOK => AssignedOK'
  BY <1>1, <1>2 DEF AssignedOK
<1> QED BY <1>3, <1>4, <1>5, <1>6 DEF OrderOK

\* Every step keeps the order.
LEMMA OrderInvNext ==
  ASSUME HistoryInv, AssignInv, OrderInv, [Next]_vars PROVE OrderInv'
<1>1. CASE phase = "coarsen"
  <2>1. Fresh /\ current = 0 /\ version \in Nat /\ AssignedOK
    BY <1>1 DEF AssignInv, OrderInv, HistoryInv, HistoryTypeOK
  <2>2. UNCHANGED assignVars /\ phase' \in {"coarsen", "assign"}
    <3>1. CASE Coarsen /\ UNCHANGED <<assignVars, partVars, tasks, restoreVars, moves>>
      BY <1>1, <3>1 DEF Coarsen, EndPass, BeginContraction, OpenInterval, ContractHyperedge, MergeIncidentNets, EndContraction
    <3>2. CASE Assign /\ UNCHANGED <<history, graph, partVars, tasks, restoreVars, moves>>
      <4>1. ~\E t \in Threads : AssignThread(t)
        BY <2>1 DEF Fresh, AssignThread, PopGroup, FetchAdd, CountSize, RaiseHighWaterMark, SwapLevel,
                    ScanBatchIndices, TransmitMinimum
      <4> QED BY <1>1, <3>2, <4>1 DEF Assign, FinishVersion, StartVersion
    <3>3. CASE \E v \in Nodes : Task(v)
      BY <1>1, <3>3 DEF Task
    <3>4. CASE BatchCompleted \/ Done \/ UNCHANGED vars
      BY <1>1, <3>4 DEF BatchCompleted, Done, vars
    <3> QED BY <1>1, <3>1, <3>2, <3>3, <3>4, RestoringNets DEF Next, InitializePartition, Refine, StartBatchUncontraction,
               TopLevel, Idle, Uncoarsening
  <2>3. Fresh' /\ current' = 0 /\ UNCHANGED <<hierarchy, batch_of>>
    BY <2>1, <2>2 DEF assignVars, traversal, assigner, Fresh
  <2>4. Assigned' = {}
    <3>1. HistoryInv'
      BY HistoryInvNext
    <3>2. \A v \in Nodes : version_of'[v] \in Int /\ version_of'[v] >= Unversioned
      BY <3>1 DEF HistoryInv, HistoryTypeOK, VersionsOK
    <3> QED BY <2>3, <3>2 DEF Assigned, Unversioned
  <2>5. AssignedOK'
    BY <2>1, <2>3, <2>4 DEF AssignedOK
  <2> QED BY <2>2, <2>3, <2>5 DEF OrderInv
<1>2. CASE phase = "assign"
  <2>1. AssignTypeOK /\ current <= version /\ (Fresh \/ AssignOK) /\ version \in Nat /\ AssignedOK /\ (~Fresh => OrderOK)
    BY <1>2 DEF AssignInv, OrderInv, HistoryInv, HistoryTypeOK
  <2>2. CASE Assign /\ UNCHANGED <<history, graph, partVars, tasks, restoreVars, moves>>
    <3>1. UNCHANGED <<parent, version_of, interval, version>>
      BY <2>2 DEF history, graph
    <3>2. PICK t0 \in Threads : TRUE
      BY HierarchyAssumption
    <3>3. CASE FinishVersion
      <4>1. ~Fresh
        BY <3>2, <3>3 DEF FinishVersion, VersionAssigned, Fresh
      <4>2. Working
        BY <1>2, <2>1, <4>1 DEF Working
      <4>3. AssignedOK'
        BY <2>1, <3>1, <3>3, <4>1, <4>2, OrderFinish
      <4>4. AssignInv' /\ phase' \in {"assign", "partition"} /\ (phase' = "partition" => current' = version' + 1)
        BY <1>2, <2>1, <3>1, <3>3, <4>2, AssignFinish DEF FinishVersion
      <4>5. phase' = "assign" => Fresh'
        <5>1. phase' = "assign" => Fresh' \/ AssignOK'
          BY <4>4 DEF AssignInv
        <5>2. apc'[t0] = "idle"
          BY <3>2, <3>3 DEF FinishVersion
        <5> QED BY <3>2, <5>1, <5>2 DEF AssignOK
      <4> QED BY <4>3, <4>4, <4>5 DEF OrderInv
    <3>4. CASE StartVersion /\ UNCHANGED phase
      <4>1. Fresh /\ Kept /\ UNCHANGED <<hierarchy, batch_of>>
        BY <2>1, <3>1, <3>2, <3>4 DEF StartVersion, AssignOK, Kept
      <4>2. OrderOK'
        BY <1>2, <2>1, <3>4, <4>1, OrderStart
      <4>3. AssignedOK'
        <5>1. Assigned' = Assigned /\ \A v, w : Siblings(v, w)' <=> Siblings(v, w)
          BY <4>1 DEF Kept, Assigned, Siblings
        <5>2. \A v, w : DoesIntervalIntersect(interval[v], interval[w])' <=> DoesIntervalIntersect(interval[v], interval[w])
          BY <4>1 DEF Kept, DoesIntervalIntersect
        <5> QED BY <2>1, <4>1, <5>1, <5>2 DEF AssignedOK, Kept
      <4> QED BY <1>2, <3>4, <4>2, <4>3 DEF OrderInv
    <3>5. ASSUME NEW t \in Threads, AssignThread(t), UNCHANGED phase PROVE OrderInv'
      <4>1. ~Fresh
        BY <3>5 DEF Fresh, AssignThread, PopGroup, FetchAdd, CountSize, RaiseHighWaterMark, SwapLevel,
                    ScanBatchIndices, TransmitMinimum
      <4>2. UNCHANGED <<current, hierarchy, batch_of>>
        BY <3>5 DEF AssignThread, PopGroup, FetchAdd, CountSize, RaiseHighWaterMark, SwapLevel,
                    ScanBatchIndices, TransmitMinimum
      <4>3. Kept /\ Working /\ OrderOK
        BY <1>2, <2>1, <3>1, <4>1, <4>2 DEF Kept, Working
      <4>4. OrderOK'
        BY <3>5, <4>3, OrderPop, OrderTryNext, OrderGroup, OrderGoesOn, OrderSwap DEF AssignThread
      <4>5. AssignedOK'
        <5>1. Assigned' = Assigned /\ \A v, w : Siblings(v, w)' <=> Siblings(v, w)
          BY <4>3 DEF Kept, Assigned, Siblings
        <5>2. \A v, w : DoesIntervalIntersect(interval[v], interval[w])' <=> DoesIntervalIntersect(interval[v], interval[w])
          BY <4>3 DEF Kept, DoesIntervalIntersect
        <5> QED BY <2>1, <4>2, <4>3, <5>1, <5>2 DEF AssignedOK, Kept
      <4> QED BY <1>2, <3>5, <4>4, <4>5 DEF OrderInv
    <3> QED BY <2>2, <3>3, <3>4, <3>5 DEF Assign
  <2>3. CASE UNCHANGED <<phase, assignVars, history>>
    <3>1. UNCHANGED ovars /\ UNCHANGED phase
      BY <2>3 DEF assignVars, traversal, assigner, history, ovars
    <3>2. Fresh' <=> Fresh
      BY <2>3 DEF assignVars, traversal, assigner, Fresh
    <3> QED BY <1>2, <2>1, <3>1, <3>2, OrderUnchanged DEF OrderInv
  <2>4. Coarsen => FALSE
    <3>1. Running = {}
      BY <1>2 DEF HistoryInv, VersionsOK
    <3>2. \A v \in Nodes : cpc[v] \notin {"start", "nets", "index"}
      BY <3>1 DEF Running
    <3> QED BY <1>2, <3>2 DEF Coarsen, EndPass, BeginContraction, OpenInterval, ContractHyperedge, MergeIncidentNets, EndContraction
  <2>5. ASSUME NEW v \in Nodes, Task(v) PROVE UNCHANGED <<phase, assignVars, history>>
    BY <2>5 DEF Task, Splice, ReplacePin, RestoreEntry, RestorePin, EnableNode
  <2>6. BatchCompleted \/ Done \/ UNCHANGED vars => UNCHANGED <<phase, assignVars, history>>
    BY DEF BatchCompleted, Done, vars, graph
  <2> QED BY <1>2, <2>2, <2>3, <2>4, <2>5, <2>6, RestoringNets DEF Next, InitializePartition, Refine, StartBatchUncontraction,
             TopLevel, Idle, Uncoarsening
<1>3. CASE phase \notin {"coarsen", "assign"}
  <2>0. ~Coarsen
    <3>1. Running = {}
      BY <1>3 DEF HistoryInv, VersionsOK
    <3>2. \A v \in Nodes : cpc[v] \notin {"start", "nets", "index"}
      BY <3>1 DEF Running
    <3> QED BY <1>3, <3>2 DEF Coarsen, EndPass, BeginContraction, OpenInterval, ContractHyperedge, MergeIncidentNets, EndContraction
  <2>1. CASE phase' \in {"coarsen", "assign", "partition"}
    <3>1. ~InitializePartition /\ ~TopLevel /\ ~RestoreNets
      BY <2>1, RestoringNets DEF InitializePartition, TopLevel, Uncoarsening
    <3>2. phase' = phase
      <4>2. Assign => UNCHANGED phase
        BY <1>3 DEF Assign, FinishVersion
      <4>3. \A v \in Nodes : Task(v) => UNCHANGED phase
        BY DEF Task
      <4>4. Refine \/ StartBatchUncontraction \/ BatchCompleted \/ Done \/ UNCHANGED vars => UNCHANGED phase
        BY DEF Refine, StartBatchUncontraction, BatchCompleted, Done, vars
      <4> QED BY <2>0, <3>1, <4>2, <4>3, <4>4 DEF Next
    <3>3. phase = "partition"
      BY <1>3, <2>1, <3>2
    <3>4. AssignedOK /\ current = version + 1
      BY <3>3 DEF OrderInv
    <3>5. UNCHANGED <<hierarchy, batch_of, current, parent, version_of, interval, version>>
      <4>1. CASE Assign /\ UNCHANGED <<history, graph, partVars, tasks, restoreVars, moves>>
        <5>1. UNCHANGED <<current, hierarchy, batch_of>>
          BY <3>3, <4>1 DEF Assign, FinishVersion, StartVersion, AssignThread, PopGroup, FetchAdd, CountSize,
                            RaiseHighWaterMark, SwapLevel, ScanBatchIndices, TransmitMinimum
        <5> QED BY <4>1, <5>1 DEF history, graph
      <4>2. ASSUME NEW v \in Nodes, Task(v) PROVE UNCHANGED <<assignVars, history, version>>
        BY <4>2 DEF Task, Splice, ReplacePin, RestoreEntry, RestorePin, EnableNode
      <4>3. BatchCompleted \/ Done \/ UNCHANGED vars => UNCHANGED <<assignVars, history, version>>
        BY DEF BatchCompleted, Done, vars, graph
      <4>4. ~Refine /\ ~StartBatchUncontraction
        BY <3>3 DEF Refine, StartBatchUncontraction, Idle
      <4>5. UNCHANGED <<assignVars, history, version>> =>
              UNCHANGED <<hierarchy, batch_of, current, parent, version_of, interval, version>>
        BY DEF assignVars, history
      <4> QED BY <2>0, <3>1, <4>1, <4>2, <4>3, <4>4, <4>5 DEF Next
    <3>6. AssignedOK'
      <4>1. Assigned' = Assigned /\ \A v, w : Siblings(v, w)' <=> Siblings(v, w)
        BY <3>5 DEF Assigned, Siblings
      <4>2. \A v, w : DoesIntervalIntersect(interval[v], interval[w])' <=> DoesIntervalIntersect(interval[v], interval[w])
        BY <3>5 DEF DoesIntervalIntersect
      <4> QED BY <3>4, <3>5, <4>1, <4>2 DEF AssignedOK
    <3> QED BY <3>2, <3>3, <3>4, <3>5, <3>6 DEF OrderInv
  <2>2. CASE phase' \notin {"coarsen", "assign", "partition"}
    BY <2>2 DEF OrderInv
  <2> QED BY <2>1, <2>2
<1> QED BY <1>1, <1>2, <1>3

\* In the end every contraction has its batch.
LEMMA OrderedInTheEnd ==
  ASSUME HistoryInv, OrderInv PROVE BatchOrder
<1> SUFFICES ASSUME phase = "partition", NEW v \in Nodes, NEW w \in Nodes,
                    version_of[v] # Unversioned, version_of[w] # Unversioned
             PROVE  /\ parent[v] = w => batch_of[v] < batch_of[w]
                    /\ parent[v] = parent[w] /\ v # w =>
                         /\ interval[v].end < interval[w].start => batch_of[v] <= batch_of[w]
                         /\ version_of[v] = version_of[w]
                              /\ DoesIntervalIntersect(interval[v], interval[w]) => batch_of[v] = batch_of[w]
  BY DEF BatchOrder
<1>1. AssignedOK /\ current = version + 1 /\ version \in Nat
  BY DEF OrderInv, HistoryInv, HistoryTypeOK
<1>2. \A u \in Nodes : version_of[u] \in Int /\ version_of[u] <= version
  BY DEF HistoryInv, HistoryTypeOK, VersionsOK
<1>3. v \in Assigned /\ w \in Assigned
  BY <1>1, <1>2 DEF Assigned
<1> QED BY <1>1, <1>3 DEF AssignedOK, Siblings

\* However the threads race, a contraction is reverted before the contractions onto its
\* partner, later ones before earlier ones, and those that overlapped in time together
\* (createBatchUncontractionHierarchyForVersion).
THEOREM BatchesAreOrdered == Spec => []BatchOrder
<1>1. Init => HistoryInv /\ AssignInv /\ OrderInv
  <2>1. ASSUME Init PROVE AssignInv
    BY <2>1 DEF Init, HistoryInit, AssignInit, AssignInv, Fresh
  <2>2. ASSUME Init PROVE HistoryInv
    BY <2>2, HistoryInvInit DEF Init
  <2>3. ASSUME Init PROVE OrderInv
    <3>1. phase = "coarsen" /\ hierarchy = <<>> /\ batch_of = [v \in Nodes |-> Lowest]
      BY <2>3 DEF Init, HistoryInit, AssignInit
    <3>2. Assigned = {}
      BY <2>3 DEF Init, HistoryInit, AssignInit, Assigned
    <3>3. hierarchy \in Seq(Seq(SUBSET Nodes)) /\ batch_of \in [Nodes -> Int]
      BY <3>1 DEF Lowest
    <3>4. AssignedOK
      BY <3>2, <3>3 DEF AssignedOK
    <3> QED BY <3>1, <3>4 DEF OrderInv
  <2> QED BY <2>1, <2>2, <2>3
<1>2. HistoryInv /\ AssignInv /\ OrderInv /\ [Next]_vars => HistoryInv' /\ AssignInv' /\ OrderInv'
  BY HistoryInvNext, AssignInvNext, OrderInvNext
<1>3. HistoryInv /\ OrderInv => BatchOrder
  BY OrderedInTheEnd
<1> QED BY <1>1, <1>2, <1>3, PTL DEF Spec
=============================================================================
