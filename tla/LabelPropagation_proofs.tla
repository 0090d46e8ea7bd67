---------------------- MODULE LabelPropagation_proofs -----------------------
(***************************************************************************)
(* Proofs about concurrent moves, the gain cache and label propagation,    *)
(* for every hypergraph, every number of blocks and every number of        *)
(* threads.                                                                *)
(*                                                                         *)
(* First, for a refiner that moves nodes in any order: pin counts and      *)
(* connectivity sets are exact, up to the nets that a move has not come to *)
(* yet, and block weights up to the moves that are under way; for every    *)
(* order in which the delta updates arrive the cache and the attributed    *)
(* gains are exact, up to the updates that are outstanding.                *)
(*                                                                         *)
(* Then, for label propagation: the quality that the refiner reports is    *)
(* the quality of the partition it leaves, a rollback restores the         *)
(* partition that was best so far, and the tracked information survives it *)
(* unless a node is in two slots.  A refiner that keeps the weight limits  *)
(* moves nodes like any refiner, so that the first part applies to it.     *)
(***************************************************************************)
EXTENDS LabelPropagation, SumTheorems, FiniteSetTheorems, TLAPS

\* The inductive invariant.
PhgInv == PhgTypeOK /\ CallsDoNotOverlap /\ PinCountsTracked

\* The pins of net e that count for block b.
Counted(e, b) == {u \in Pins[e] : CountedIn(u, e, b)}

-----------------------------------------------------------------------------
(* Counting pins *)

\* Sets of pins can be counted.
LEMMA PinsFinite ==
  ASSUME NEW e \in Edges, NEW S \in SUBSET Pins[e]
  PROVE  IsFiniteSet(S) /\ Cardinality(S) \in Nat
<1>1. Pins[e] \in SUBSET Nodes
  BY PartitionAssumption
<1>2. IsFiniteSet(Pins[e])
  BY <1>1, PartitionAssumption, FS_Subset
<1>3. IsFiniteSet(S)
  BY <1>2, FS_Subset
<1> QED
  BY <1>3, FS_CardinalityType

\* A pin count is zero exactly if there is no such pin.
LEMMA SomePinCounted ==
  ASSUME NEW e \in Edges, NEW S \in SUBSET Pins[e]
  PROVE  Cardinality(S) > 0 <=> S # {}
<1>1. IsFiniteSet(S) /\ Cardinality(S) \in Nat
  BY PinsFinite
<1>2. Cardinality(S) = 0 <=> S = {}
  BY <1>1, FS_EmptySet
<1> QED
  BY <1>1, <1>2

-----------------------------------------------------------------------------
(* Initial states *)

\* The initial partition is well-typed.
LEMMA InitType == PhgInit => PhgTypeOK
<1> SUFFICES ASSUME PhgInit PROVE PhgTypeOK
  OBVIOUS
<1>1. PinCounts(InitialPart) \in [Edges -> [Blocks -> Nat]]
  <2> SUFFICES ASSUME NEW e \in Edges, NEW b \in Blocks
               PROVE  Cardinality({u \in Pins[e] : InitialPart[u] = b}) \in Nat
    BY DEF PinCounts
  <2> QED
    BY PinsFinite
<1>2. ConnectivitySets(InitialPart) \in [Edges -> SUBSET Blocks]
  BY PartitionAssumption DEF ConnectivitySets
<1>3. DOMAIN part_weights = Blocks
  BY DEF PhgInit, BlockWeights
<1>4. NoUpdate \in Updates
  <2>1. (CHOOSE e \in Edges : TRUE) \in Edges
    BY PartitionAssumption
  <2> QED
    BY <2>1 DEF NoUpdate, Updates
<1>5. "idle" \in MoverSteps
  BY DEF MoverSteps
<1> QED
  BY <1>1, <1>2, <1>3, <1>4, <1>5, PartitionAssumption DEF PhgInit, PhgTypeOK

\* The invariant holds for the initial partition.
LEMMA InitInv == PhgInit => PhgInv
<1> SUFFICES ASSUME PhgInit PROVE PhgInv
  OBVIOUS
<1>1. PhgTypeOK
  BY InitType
<1>2. CallsDoNotOverlap
  BY DEF PhgInit, CallsDoNotOverlap
<1>3. PinCountsTracked
  <2> SUFFICES ASSUME NEW e \in Edges, NEW b \in Blocks
               PROVE  /\ pin_count[e][b] = Cardinality({u \in Pins[e] : CountedIn(u, e, b)})
                      /\ b \in connectivity_set[e] <=> pin_count[e][b] > 0
    BY DEF PinCountsTracked
  <2> DEFINE S == {u \in Pins[e] : InitialPart[u] = b}
  <2>1. \A u \in Pins[e] : CountedIn(u, e, b) <=> InitialPart[u] = b
    BY DEF PhgInit, CountedIn, Behind
  <2>2. {u \in Pins[e] : CountedIn(u, e, b)} = S
    BY <2>1
  <2>3. pin_count[e][b] = Cardinality(S)
    BY DEF PhgInit, PinCounts
  <2>4. b \in connectivity_set[e] <=> S # {}
    BY DEF PhgInit, ConnectivitySets
  <2> HIDE DEF S
  <2>5. S \in SUBSET Pins[e]
    BY DEF S
  <2> QED
    BY <2>2, <2>3, <2>4, <2>5, SomePinCounted
<1> QED
  BY <1>1, <1>2, <1>3 DEF PhgInv

-----------------------------------------------------------------------------
(* Steps that leave the nets alone *)

\* Calls, and steps of calls, other than the update of a net.
Quiet(m) ==
  \/ Call(m) \/ AddWeight(m) \/ UndoWeight(m) \/ SetPart(m) \/ SubWeight(m)
  \/ DeltaFunction(m) \/ Return(m)

\* One mover at a time: the other movers of its node are idle.
LEMMA OthersIdle ==
  ASSUME CallsDoNotOverlap, NEW m \in Movers, NEW n \in Movers,
         pc[m] # "idle", NodeOf[n] = NodeOf[m], n # m
  PROVE  pc[n] = "idle"
BY DEF CallsDoNotOverlap

\* A step that updates no pin count keeps the calls on a node apart.
LEMMA QuietExclusive ==
  ASSUME PhgTypeOK, CallsDoNotOverlap, NEW m \in Movers, Quiet(m)
  PROVE  CallsDoNotOverlap'
<1> USE PartitionAssumption DEF PhgTypeOK, CallsDoNotOverlap, Goto, partition
<1>1. CASE Call(m)
  BY <1>1 DEF Call, ChangeNodePart
<1>2. CASE AddWeight(m)
  BY <1>2 DEF AddWeight
<1>3. CASE UndoWeight(m)
  BY <1>3 DEF UndoWeight
<1>4. CASE SetPart(m)
  BY <1>4 DEF SetPart
<1>5. CASE SubWeight(m)
  BY <1>5 DEF SubWeight, IncidentEdges
<1>6. CASE DeltaFunction(m)
  BY <1>6 DEF DeltaFunction
<1>7. CASE Return(m)
  BY <1>7 DEF Return
<1> QED
  BY <1>1, <1>2, <1>3, <1>4, <1>5, <1>6, <1>7 DEF Quiet

\* It keeps the types,
LEMMA QuietType ==
  ASSUME PhgTypeOK, NEW m \in Movers, Quiet(m)
  PROVE  PhgTypeOK'
<1>1. NoUpdate \in Updates
  <2>1. (CHOOSE e \in Edges : TRUE) \in Edges
    BY PartitionAssumption
  <2> QED
    BY <2>1 DEF NoUpdate, Updates
<1> USE PartitionAssumption DEF PhgTypeOK, MoverSteps, Goto, partition
<1>2. CASE Call(m)
  BY <1>2 DEF Call, ChangeNodePart
<1>3. CASE AddWeight(m)
  BY <1>3 DEF AddWeight
<1>4. CASE UndoWeight(m)
  BY <1>4 DEF UndoWeight
<1>5. CASE SetPart(m)
  BY <1>5 DEF SetPart
<1>6. CASE SubWeight(m)
  BY <1>6 DEF SubWeight, IncidentEdges
<1>7. CASE DeltaFunction(m)
  BY <1>1, <1>7 DEF DeltaFunction
<1>8. CASE Return(m)
  BY <1>8 DEF Return
<1> QED
  BY <1>2, <1>3, <1>4, <1>5, <1>6, <1>7, <1>8 DEF Quiet

\* A step that leaves the nets alone does not change where a pin is counted.
LEMMA QuietCounted ==
  ASSUME PhgTypeOK, CallsDoNotOverlap, NEW m \in Movers, Quiet(m),
         NEW e \in Edges, NEW u \in Pins[e], NEW b \in Blocks
  PROVE  CountedIn(u, e, b)' <=> CountedIn(u, e, b)
<1> USE DEF PhgTypeOK, Goto, partition
<1>0. u \in Nodes /\ NodeOf[m] \in Nodes
  BY PartitionAssumption
<1>1. CASE Call(m) \/ AddWeight(m) \/ UndoWeight(m)
  <2>1. \A n \in Movers : Behind(n, e)' <=> Behind(n, e)
    BY <1>1 DEF Call, ChangeNodePart, AddWeight, UndoWeight, Behind
  <2>2. \A n \in Movers : Behind(n, e) => from'[n] = from[n]
    BY <1>1 DEF Call, ChangeNodePart, AddWeight, UndoWeight, Behind
  <2>3. part_ids' = part_ids
    BY <1>1 DEF Call, ChangeNodePart, AddWeight, UndoWeight
  <2> QED
    BY <2>1, <2>2, <2>3 DEF CountedIn
<1>2. CASE SetPart(m)
  <2>1. /\ pc[m] = "set_part" /\ ~Behind(m, e) /\ Behind(m, e)'
        /\ \A n \in Movers \ {m} : Behind(n, e)' <=> Behind(n, e)
        /\ from' = from
        /\ part_ids' = [part_ids EXCEPT ![NodeOf[m]] = to[m]]
    BY <1>2 DEF SetPart, Behind
  <2>2. CASE NodeOf[m] # u
    BY <1>0, <2>1, <2>2 DEF CountedIn
  <2>3. CASE NodeOf[m] = u
    <3>1. \A n \in Movers : NodeOf[n] = u => ~Behind(n, e)
      BY <2>1, <2>3, OthersIdle DEF Behind
    <3>2. CountedIn(u, e, b) <=> part_ids[u] = b
      BY <3>1 DEF CountedIn
    <3>3. part_ids[u] = from[m]
      BY <2>1, <2>3 DEF CallsDoNotOverlap
    <3>4. CountedIn(u, e, b)' <=> from[m] = b
      BY <2>1, <2>3, <3>1 DEF CountedIn
    <3> QED
      BY <3>2, <3>3, <3>4
  <2> QED
    BY <2>2, <2>3
<1>3. CASE SubWeight(m)
  <2>1. /\ from' = from /\ part_ids' = part_ids
        /\ \A n \in Movers \ {m} : Behind(n, e)' <=> Behind(n, e)
        /\ Behind(m, e)
    BY <1>3 DEF SubWeight, Behind
  <2>2. NodeOf[m] = u => Behind(m, e)'
    BY <1>3 DEF SubWeight, Behind, IncidentEdges
  <2> QED
    BY <2>1, <2>2 DEF CountedIn
<1>4. CASE DeltaFunction(m) \/ Return(m)
  <2>1. /\ from' = from /\ part_ids' = part_ids
        /\ \A n \in Movers : Behind(n, e)' <=> Behind(n, e)
    BY <1>4 DEF DeltaFunction, Return, Behind
  <2> QED
    BY <2>1 DEF CountedIn
<1> QED
  BY <1>1, <1>2, <1>3, <1>4 DEF Quiet

\* and the pin counts tracked: the pins that are already moved are the same.
LEMMA QuietTracked ==
  ASSUME PhgInv, NEW m \in Movers, Quiet(m)
  PROVE  PinCountsTracked'
<1>1. pin_count' = pin_count /\ connectivity_set' = connectivity_set
  BY DEF Quiet, Call, ChangeNodePart, AddWeight, UndoWeight, SetPart, SubWeight,
         DeltaFunction, Return, partition
<1> SUFFICES ASSUME NEW e \in Edges, NEW b \in Blocks
             PROVE  /\ pin_count'[e][b] = Cardinality({u \in Pins[e] : CountedIn(u, e, b)'})
                    /\ b \in connectivity_set'[e] <=> pin_count'[e][b] > 0
  BY DEF PinCountsTracked
<1>2. {u \in Pins[e] : CountedIn(u, e, b)'} = {u \in Pins[e] : CountedIn(u, e, b)}
  BY QuietCounted DEF PhgInv
<1> QED
  BY <1>1, <1>2 DEF PhgInv, PinCountsTracked

-----------------------------------------------------------------------------
(* The update of a net *)

\* Node v leaves block a and enters block c in the counts of net e, and in no other.
Recounted(e, a, c, v) ==
  /\ \A d \in Edges \ {e}, b \in Blocks : Counted(d, b)' = Counted(d, b)
  /\ \A b \in Blocks \ {a, c} : Counted(e, b)' = Counted(e, b)
  /\ Counted(e, a)' = Counted(e, a) \ {v}
  /\ Counted(e, c)' = Counted(e, c) \union {v}
  /\ v \in Counted(e, a) /\ v \notin Counted(e, c)
  /\ a # c

\* Where pins are counted changes for the moved node and for the updated net only.
LEMMA UpdateCounted ==
  ASSUME PhgInv, NEW m \in Movers, pc[m] = "nets", NEW e \in todo[m],
         NEW a \in Blocks, NEW c \in Blocks, a = from[m], c = to[m],
         todo' = [todo EXCEPT ![m] = @ \ {e}], pc' = [pc EXCEPT ![m] = "delta"],
         UNCHANGED <<part_ids, from>>
  PROVE  Recounted(e, a, c, NodeOf[m])
<1> DEFINE v == NodeOf[m]
<1> USE DEF PhgInv, PhgTypeOK
<1>1. e \in Edges /\ v \in Pins[e] /\ part_ids[v] = c /\ a # c
  BY DEF CallsDoNotOverlap, IncidentEdges
<1>2. \A d \in Edges, n \in Movers :
        Behind(n, d)' <=> Behind(n, d) /\ ~(n = m /\ d = e)
  BY <1>1 DEF Behind
<1>3. Behind(m, e)
  BY DEF Behind
<1>4. \A n \in Movers, d \in Edges : NodeOf[n] = v /\ n # m => ~Behind(n, d)
  BY OthersIdle DEF Behind
<1>5. \A d \in Edges \ {e}, b \in Blocks : \A u \in Pins[d] :
        CountedIn(u, d, b)' <=> CountedIn(u, d, b)
  BY <1>2 DEF CountedIn
<1>6. \A u \in Pins[e] \ {v}, b \in Blocks : CountedIn(u, e, b)' <=> CountedIn(u, e, b)
  BY <1>1, <1>2 DEF CountedIn
<1>7. \A b \in Blocks : CountedIn(v, e, b) <=> b = a
  BY <1>3, <1>4, <1>1 DEF CountedIn
<1>8. \A b \in Blocks : CountedIn(v, e, b)' <=> b = c
  BY <1>1, <1>2, <1>4 DEF CountedIn
<1> HIDE DEF v
<1>9. \A d \in Edges \ {e}, b \in Blocks : Counted(d, b)' = Counted(d, b)
  BY <1>5 DEF Counted
<1>10. \A b \in Blocks \ {a, c} : Counted(e, b)' = Counted(e, b)
  BY <1>6, <1>7, <1>8 DEF Counted
<1>11. Counted(e, a)' = Counted(e, a) \ {v}
  BY <1>1, <1>6, <1>8 DEF Counted
<1>12. Counted(e, c)' = Counted(e, c) \union {v}
  BY <1>1, <1>6, <1>8 DEF Counted
<1>13. v \in Counted(e, a) /\ v \notin Counted(e, c)
  BY <1>1, <1>7 DEF Counted
<1> QED
  BY <1>1, <1>9, <1>10, <1>11, <1>12, <1>13 DEF v, Recounted

\* Under the lock of the net, the counts and the connectivity set follow.
LEMMA UpdateTracked ==
  ASSUME PhgInv, NEW m \in Movers, UpdatePinCount(m)
  PROVE  PinCountsTracked' /\ PhgTypeOK'
<1> DEFINE v == NodeOf[m]
<1>1. PhgTypeOK /\ CallsDoNotOverlap /\ PinCountsTracked
  BY DEF PhgInv
<1>2. PICK a \in Blocks, c \in Blocks : a = from[m] /\ c = to[m]
  BY <1>1 DEF PhgTypeOK
<1>3. PICK e \in todo[m] :
       /\ pin_count' = [pin_count EXCEPT ![e] = MovePin(pin_count[e], a, c)]
       /\ connectivity_set' = [connectivity_set EXCEPT ![e] =
            MoveBlock(connectivity_set[e], a, c, pin_count[e][a] - 1,
                      MovePin(pin_count[e], a, c)[c])]
       /\ todo' = [todo EXCEPT ![m] = @ \ {e}]
       /\ update' = [update EXCEPT ![m] =
            [he |-> e, from_after |-> pin_count[e][a] - 1,
             to_after |-> MovePin(pin_count[e], a, c)[c]]]
  BY <1>2 DEF UpdatePinCount
<1>4. /\ pc[m] = "nets" /\ pc' = [pc EXCEPT ![m] = "delta"]
      /\ UNCHANGED <<part_ids, part_weights, from, to, changed>>
  BY DEF UpdatePinCount, Goto
<1>5. e \in Edges
  BY <1>1, <1>3 DEF PhgTypeOK
<1>6. /\ \A d \in Edges \ {e}, b \in Blocks : Counted(d, b)' = Counted(d, b)
      /\ \A b \in Blocks \ {a, c} : Counted(e, b)' = Counted(e, b)
      /\ Counted(e, a)' = Counted(e, a) \ {v}
      /\ Counted(e, c)' = Counted(e, c) \union {v}
      /\ v \in Counted(e, a) /\ v \notin Counted(e, c)
      /\ a # c
  <2>1. /\ e \in todo[m] /\ a = from[m] /\ c = to[m] /\ pc[m] = "nets"
        /\ todo' = [todo EXCEPT ![m] = @ \ {e}] /\ pc' = [pc EXCEPT ![m] = "delta"]
        /\ UNCHANGED <<part_ids, from>>
    BY <1>2, <1>3, <1>4
  <2>2. Recounted(e, a, c, v)
    BY <2>1, UpdateCounted
  <2> QED
    BY <2>2 DEF Recounted
<1>7. \A d \in Edges, b \in Blocks :
        /\ pin_count[d][b] = Cardinality(Counted(d, b))
        /\ b \in connectivity_set[d] <=> pin_count[d][b] > 0
  BY <1>1 DEF PinCountsTracked, Counted
<1>8. /\ Cardinality(Counted(e, a) \ {v}) = Cardinality(Counted(e, a)) - 1
      /\ Cardinality(Counted(e, c) \union {v}) = Cardinality(Counted(e, c)) + 1
  <2>1. IsFiniteSet(Counted(e, a)) /\ IsFiniteSet(Counted(e, c))
    BY <1>5, PinsFinite DEF Counted
  <2>2. Cardinality(Counted(e, a) \ {v}) = Cardinality(Counted(e, a)) - 1
    BY <1>6, <2>1, FS_RemoveElement
  <2>3. Cardinality(Counted(e, c) \union {v}) = Cardinality(Counted(e, c)) + 1
    BY <1>6, <2>1, FS_AddElement
  <2> QED
    BY <2>2, <2>3
<1>9. pin_count[e] \in [Blocks -> Nat] /\ connectivity_set[e] \in SUBSET Blocks
  BY <1>1, <1>5 DEF PhgTypeOK
<1>10. pin_count[e][a] > 0
  <2>1. Counted(e, a) \in SUBSET Pins[e]
    BY DEF Counted
  <2> QED
    BY <1>2, <1>5, <1>6, <1>7, <2>1, SomePinCounted
<1>11. /\ pin_count'[e] \in [Blocks -> Nat]
       /\ pin_count'[e][a] = pin_count[e][a] - 1
       /\ pin_count'[e][c] = pin_count[e][c] + 1
       /\ \A b \in Blocks \ {a, c} : pin_count'[e][b] = pin_count[e][b]
       /\ MovePin(pin_count[e], a, c)[c] = pin_count[e][c] + 1
  <2>1. pin_count'[e] = MovePin(pin_count[e], a, c)
    BY <1>1, <1>3, <1>5 DEF PhgTypeOK
  <2> QED
    BY <1>2, <1>6, <1>9, <1>10, <2>1 DEF MovePin
<1>12. connectivity_set'[e] =
         (IF pin_count[e][a] - 1 = 0 THEN connectivity_set[e] \ {a} ELSE connectivity_set[e])
         \union (IF pin_count[e][c] + 1 = 1 THEN {c} ELSE {})
  BY <1>1, <1>3, <1>5, <1>11 DEF PhgTypeOK, MoveBlock
<1>13. \A d \in Edges \ {e} : /\ pin_count'[d] = pin_count[d]
                              /\ connectivity_set'[d] = connectivity_set[d]
  BY <1>1, <1>3 DEF PhgTypeOK
<1> HIDE DEF v
<1>14. \A d \in Edges, b \in Blocks :
         /\ pin_count'[d][b] = Cardinality(Counted(d, b)')
         /\ b \in connectivity_set'[d] <=> pin_count'[d][b] > 0
  <2> SUFFICES ASSUME NEW d \in Edges, NEW b \in Blocks
               PROVE  /\ pin_count'[d][b] = Cardinality(Counted(d, b)')
                      /\ b \in connectivity_set'[d] <=> pin_count'[d][b] > 0
    OBVIOUS
  <2>1. CASE d # e
    BY <1>6, <1>7, <1>13, <2>1
  <2>2. CASE d = e /\ b \notin {a, c}
    BY <1>5, <1>6, <1>7, <1>11, <1>12, <2>2
  <2>3. CASE d = e /\ b = a
    <3>1. Cardinality(Counted(e, a)') = pin_count[e][a] - 1
      BY <1>2, <1>5, <1>6, <1>7, <1>8
    <3>2. a \in connectivity_set[e] /\ pin_count[e][a] \in Nat
      BY <1>5, <1>7, <1>9, <1>10
    <3>3. a \in connectivity_set'[e] <=> pin_count[e][a] - 1 # 0
      BY <1>6, <1>12, <3>2
    <3>4. a \in connectivity_set'[e] <=> pin_count'[e][a] > 0
      BY <1>10, <1>11, <3>2, <3>3
    <3> QED
      BY <1>11, <2>3, <3>1, <3>4
  <2>4. CASE d = e /\ b = c
    <3>1. Cardinality(Counted(e, c)') = pin_count[e][c] + 1
      BY <1>2, <1>5, <1>6, <1>7, <1>8
    <3>2. pin_count[e][c] \in Nat /\ (c \in connectivity_set[e] <=> pin_count[e][c] > 0)
      BY <1>5, <1>7, <1>9
    <3>3. c \in connectivity_set'[e]
      BY <1>6, <1>12, <3>2
    <3> QED
      BY <1>11, <2>4, <3>1, <3>2, <3>3
  <2> QED
    BY <2>1, <2>2, <2>3, <2>4
<1>15. PinCountsTracked'
  BY <1>14 DEF PinCountsTracked, Counted
<1>16. pin_count' \in [Edges -> [Blocks -> Nat]]
  <2>1. pin_count' = [pin_count EXCEPT ![e] = pin_count'[e]]
    BY <1>1, <1>3, <1>5 DEF PhgTypeOK
  <2> QED
    BY <1>1, <1>5, <1>11, <2>1 DEF PhgTypeOK
<1>17. connectivity_set' \in [Edges -> SUBSET Blocks]
  <2>1. connectivity_set'[e] \in SUBSET Blocks
    BY <1>2, <1>9, <1>12
  <2>2. connectivity_set' = [connectivity_set EXCEPT ![e] = connectivity_set'[e]]
    BY <1>1, <1>3, <1>5 DEF PhgTypeOK
  <2> QED
    BY <1>1, <1>5, <2>1, <2>2 DEF PhgTypeOK
<1>18. update' \in [Movers -> Updates]
  <2>1. pin_count[e][a] - 1 \in Int /\ MovePin(pin_count[e], a, c)[c] \in Int
    BY <1>2, <1>9, <1>11
  <2> QED
    BY <1>1, <1>3, <1>5, <2>1 DEF PhgTypeOK, Updates
<1>19. todo' \in [Movers -> SUBSET Edges] /\ pc' \in [Movers -> MoverSteps]
  BY <1>1, <1>3, <1>4 DEF PhgTypeOK, MoverSteps
<1>20. PhgTypeOK'
  BY <1>1, <1>4, <1>16, <1>17, <1>18, <1>19 DEF PhgTypeOK
<1> QED
  BY <1>15, <1>20

\* The update of a pin count keeps the calls on a node apart.
LEMMA UpdateExclusive ==
  ASSUME PhgTypeOK, CallsDoNotOverlap, NEW m \in Movers, UpdatePinCount(m)
  PROVE  CallsDoNotOverlap'
BY PartitionAssumption DEF UpdatePinCount, Goto, PhgTypeOK, CallsDoNotOverlap

-----------------------------------------------------------------------------
(* Theorems *)

\* Every step keeps the invariant.
LEMMA InvStep == PhgInv /\ [PhgNext]_phgVars => PhgInv'
<1> SUFFICES ASSUME PhgInv, [PhgNext]_phgVars PROVE PhgInv'
  OBVIOUS
<1>1. CASE PhgNext
  <2> PICK m \in Movers : Quiet(m) \/ UpdatePinCount(m)
    BY <1>1 DEF PhgNext, Silent, Quiet
  <2>1. CASE Quiet(m)
    BY <2>1, QuietType, QuietExclusive, QuietTracked DEF PhgInv
  <2>2. CASE UpdatePinCount(m)
    BY <2>2, UpdateTracked, UpdateExclusive DEF PhgInv
  <2> QED
    BY <2>1, <2>2
<1>2. CASE UNCHANGED phgVars
  <2>1. PhgTypeOK' /\ CallsDoNotOverlap'
    BY <1>2 DEF PhgInv, phgVars, partition, callVars, PhgTypeOK, CallsDoNotOverlap
  <2>2. PinCountsTracked'
    BY <1>2 DEF PhgInv, phgVars, partition, callVars, PinCountsTracked, CountedIn, Behind
  <2> QED
    BY <2>1, <2>2 DEF PhgInv
<1> QED
  BY <1>1, <1>2

\* The invariant of changeNodePart under any number of concurrent moves.
THEOREM Tracking == PhgSpec => []PhgInv
<1> QED
  BY InitInv, InvStep, PTL DEF PhgSpec

\* Pin counts and connectivity sets are exact up to the nets that movers have not
\* come to yet: no concurrent update of a net is lost (updatePinCountOfHyperedge).
THEOREM PinCountsAreTracked == PhgSpec => []PinCountsTracked
<1>1. PhgInv => PinCountsTracked
  BY DEF PhgInv
<1> QED
  BY <1>1, Tracking, PTL

\* Without a move under way every pin is counted in its block.
LEMMA IdleExact == PhgInv => TrackedInformationExact
<1> SUFFICES ASSUME PhgInv, \A m \in Movers : pc[m] = "idle",
                    NEW e \in Edges, NEW b \in Blocks
             PROVE  /\ pin_count[e][b] = PinCounts(part_ids)[e][b]
                    /\ b \in connectivity_set[e] <=> pin_count[e][b] > 0
  BY DEF TrackedInformationExact
<1>1. \A u \in Pins[e] : CountedIn(u, e, b) <=> part_ids[u] = b
  BY DEF CountedIn, Behind
<1>2. {u \in Pins[e] : CountedIn(u, e, b)} = {u \in Pins[e] : part_ids[u] = b}
  BY <1>1
<1> QED
  BY <1>2 DEF PhgInv, PinCountsTracked, PinCounts

\* While no move is under way checkTrackedPartitionInformation succeeds: pin counts
\* and connectivity sets are those of the blocks of the nodes.
THEOREM TrackedInformationIsExact == PhgSpec => []TrackedInformationExact
<1> QED
  BY IdleExact, Tracking, PTL

-----------------------------------------------------------------------------
(* Block weights *)

\* The nodes of block b, the movers whose node is counted for block b on top of
\* them, and the movers among these whose node fits.
InBlock(b) == {u \in Nodes : part_ids[u] = b}
Pending(b) ==
  {m \in Movers : \/ pc[m] \in {"set_part", "undo_weight"} /\ to[m] = b
                  \/ pc[m] = "sub_weight" /\ from[m] = b}
Accepted(b) == {m \in Movers : pc[m] = "set_part" /\ to[m] = b}

\* The weight that a mover moves.
MoverWeight == [m \in Movers |-> NodeWeight[NodeOf[m]]]

\* Both sums of WeightsTracked, as sums of functions.
LEMMA WeightSums ==
  /\ \A b \in Blocks : BlockWeights(part_ids)[b] = SumFunctionOnSet(NodeWeight, InBlock(b))
  /\ \A b \in Blocks : BlockWeights(InitialPart)[b] =
                         SumFunctionOnSet(NodeWeight, {u \in Nodes : InitialPart[u] = b})
  /\ WeightsTracked <=>
       \A b \in Blocks : part_weights[b] =
         SumFunctionOnSet(NodeWeight, InBlock(b)) + SumFunctionOnSet(MoverWeight, Pending(b))
<1>1. ASSUME NEW S
      PROVE  WeightOf(S) = SumFunctionOnSet(NodeWeight, S)
  BY DEF WeightOf, MapThenSumSet, SumFunctionOnSet, FoldFunctionOnSet
<1>2. ASSUME NEW S \in SUBSET Movers
      PROVE  MapThenSumSet(LAMBDA m : NodeWeight[NodeOf[m]], S) = SumFunctionOnSet(MoverWeight, S)
  BY DEF MoverWeight, MapThenSumSet, SumFunctionOnSet, FoldFunctionOnSet, MapThenFoldSet
<1>3. ASSUME NEW b \in Blocks
      PROVE  BlockWeights(part_ids)[b] = SumFunctionOnSet(NodeWeight, InBlock(b))
  BY <1>1 DEF BlockWeights, InBlock
<1>4. ASSUME NEW b \in Blocks
      PROVE  BlockWeights(InitialPart)[b] =
               SumFunctionOnSet(NodeWeight, {u \in Nodes : InitialPart[u] = b})
  BY <1>1 DEF BlockWeights
<1>5. ASSUME NEW b \in Blocks
      PROVE  MapThenSumSet(LAMBDA m : NodeWeight[NodeOf[m]], Pending(b)) =
               SumFunctionOnSet(MoverWeight, Pending(b))
  BY <1>2 DEF Pending
<1>6. WeightsTracked <=>
       \A b \in Blocks : part_weights[b] = BlockWeights(part_ids)[b]
         + MapThenSumSet(LAMBDA m : NodeWeight[NodeOf[m]], Pending(b))
  BY DEF WeightsTracked, Pending
<1> QED BY <1>3, <1>4, <1>5, <1>6

\* Only finitely many movers are under way: each has a node of its own.
LEMMA ActiveFinite ==
  ASSUME CallsDoNotOverlap, NEW S \in SUBSET Movers, \A m \in S : pc[m] # "idle"
  PROVE  IsFiniteSet(S)
<1> DEFINE f == [m \in S |-> NodeOf[m]]
<1>1. f \in [S -> Nodes]
  BY PartitionAssumption
<1>2. \A m, n \in S : f[m] = f[n] => m = n
  BY DEF CallsDoNotOverlap
<1>3. f \in Injection(S, Nodes)
  BY <1>1, <1>2 DEF Injection, IsInjective
<1> QED
  BY <1>3, FS_Injection, PartitionAssumption

\* The weights of nodes and movers are natural numbers ...
LEMMA WeightTypes ==
  /\ \A u \in Nodes : NodeWeight[u] \in Nat
  /\ \A m \in Movers : /\ MoverWeight[m] \in Nat /\ NodeOf[m] \in Nodes
                       /\ MoverWeight[m] = NodeWeight[NodeOf[m]]
BY PartitionAssumption DEF MoverWeight

\* ... and so are their sums.
LEMMA SumTypes ==
  ASSUME CallsDoNotOverlap, NEW b
  PROVE  /\ IsFiniteSet(InBlock(b)) /\ IsFiniteSet(Pending(b)) /\ IsFiniteSet(Accepted(b))
         /\ SumFunctionOnSet(NodeWeight, InBlock(b)) \in Nat
         /\ SumFunctionOnSet(MoverWeight, Pending(b)) \in Nat
         /\ SumFunctionOnSet(MoverWeight, Accepted(b)) \in Nat
         /\ SumFunctionOnSet(MoverWeight, Accepted(b)) <= SumFunctionOnSet(MoverWeight, Pending(b))
<1>1. InBlock(b) \in SUBSET Nodes /\ Accepted(b) \in SUBSET Pending(b)
      /\ Pending(b) \in SUBSET Movers
  BY DEF InBlock, Accepted, Pending
<1>2. IsFiniteSet(InBlock(b))
  BY <1>1, FS_Subset, PartitionAssumption
<1>3. IsFiniteSet(Pending(b)) /\ IsFiniteSet(Accepted(b))
  BY ActiveFinite DEF Pending, Accepted
<1>4. SumFunctionOnSet(NodeWeight, InBlock(b)) \in Nat
  <2>1. \A u \in InBlock(b) : NodeWeight[u] \in Nat
    BY <1>1, WeightTypes
  <2> QED BY <1>2, <2>1, SumSubset
<1>5. /\ SumFunctionOnSet(MoverWeight, Pending(b)) \in Nat
      /\ SumFunctionOnSet(MoverWeight, Accepted(b)) \in Nat
      /\ SumFunctionOnSet(MoverWeight, Accepted(b)) <= SumFunctionOnSet(MoverWeight, Pending(b))
  <2>1. \A m \in Pending(b) : MoverWeight[m] \in Nat
    BY <1>1, WeightTypes
  <2> QED BY <1>1, <1>3, <2>1, SumSubset
<1> QED BY <1>2, <1>3, <1>4, <1>5

\* What a step of mover m does to the sets that the weights are summed over.
LEMMA PendingSteps ==
  ASSUME PhgTypeOK, CallsDoNotOverlap, NEW m \in Movers, NEW b \in Blocks
  PROVE  /\ AddWeight(m) =>
              /\ InBlock(b)' = InBlock(b) /\ m \notin Pending(b)
              /\ Pending(b)' = IF b = to[m] THEN Pending(b) \cup {m} ELSE Pending(b)
         /\ UndoWeight(m) =>
              /\ InBlock(b)' = InBlock(b) /\ (b = to[m] => m \in Pending(b))
              /\ Pending(b)' = IF b = to[m] THEN Pending(b) \ {m} ELSE Pending(b)
         /\ SetPart(m) =>
              /\ from[m] # to[m]
              /\ b = to[m] => /\ NodeOf[m] \notin InBlock(b) /\ m \in Pending(b)
                              /\ InBlock(b)' = InBlock(b) \cup {NodeOf[m]}
                              /\ Pending(b)' = Pending(b) \ {m}
              /\ b = from[m] => /\ NodeOf[m] \in InBlock(b) /\ m \notin Pending(b)
                                /\ InBlock(b)' = InBlock(b) \ {NodeOf[m]}
                                /\ Pending(b)' = Pending(b) \cup {m}
              /\ b \notin {from[m], to[m]} => /\ InBlock(b)' = InBlock(b)
                                              /\ Pending(b)' = Pending(b)
         /\ SubWeight(m) =>
              /\ InBlock(b)' = InBlock(b) /\ (b = from[m] => m \in Pending(b))
              /\ Pending(b)' = IF b = from[m] THEN Pending(b) \ {m} ELSE Pending(b)
         /\ (Call(m) \/ UpdatePinCount(m) \/ DeltaFunction(m) \/ Return(m)) =>
              InBlock(b)' = InBlock(b) /\ Pending(b)' = Pending(b)
<1> USE DEF PhgTypeOK, Goto, partition
<1>0. NodeOf[m] \in Nodes
  BY PartitionAssumption
<1>1. ASSUME AddWeight(m)
      PROVE  /\ InBlock(b)' = InBlock(b) /\ m \notin Pending(b)
             /\ Pending(b)' = IF b = to[m] THEN Pending(b) \cup {m} ELSE Pending(b)
  BY <1>1 DEF AddWeight, InBlock, Pending
<1>2. ASSUME UndoWeight(m)
      PROVE  /\ InBlock(b)' = InBlock(b) /\ (b = to[m] => m \in Pending(b))
             /\ Pending(b)' = IF b = to[m] THEN Pending(b) \ {m} ELSE Pending(b)
  BY <1>2 DEF UndoWeight, InBlock, Pending
<1>3. ASSUME SetPart(m)
      PROVE  /\ from[m] # to[m]
             /\ b = to[m] => /\ NodeOf[m] \notin InBlock(b) /\ m \in Pending(b)
                             /\ InBlock(b)' = InBlock(b) \cup {NodeOf[m]}
                             /\ Pending(b)' = Pending(b) \ {m}
             /\ b = from[m] => /\ NodeOf[m] \in InBlock(b) /\ m \notin Pending(b)
                               /\ InBlock(b)' = InBlock(b) \ {NodeOf[m]}
                               /\ Pending(b)' = Pending(b) \cup {m}
             /\ b \notin {from[m], to[m]} => /\ InBlock(b)' = InBlock(b)
                                             /\ Pending(b)' = Pending(b)
  <2>1. from[m] # to[m] /\ part_ids[NodeOf[m]] = from[m]
    BY <1>3 DEF SetPart, CallsDoNotOverlap
  <2>2. InBlock(b)' = IF b = to[m] THEN InBlock(b) \cup {NodeOf[m]} ELSE InBlock(b) \ {NodeOf[m]}
    BY <1>0, <1>3 DEF SetPart, InBlock
  <2>3. NodeOf[m] \in InBlock(b) <=> b = from[m]
    BY <1>0, <2>1 DEF InBlock
  <2>4. m \in Pending(b) <=> b = to[m]
    BY <1>3 DEF SetPart, Pending
  <2>5. Pending(b)' = IF b = from[m] THEN Pending(b) \cup {m} ELSE Pending(b) \ {m}
    BY <1>3 DEF SetPart, Pending
  <2> QED BY <2>1, <2>2, <2>3, <2>4, <2>5
<1>4. ASSUME SubWeight(m)
      PROVE  /\ InBlock(b)' = InBlock(b) /\ (b = from[m] => m \in Pending(b))
             /\ Pending(b)' = IF b = from[m] THEN Pending(b) \ {m} ELSE Pending(b)
  BY <1>4 DEF SubWeight, InBlock, Pending
<1>5. ASSUME Call(m) \/ UpdatePinCount(m) \/ DeltaFunction(m) \/ Return(m)
      PROVE  InBlock(b)' = InBlock(b) /\ Pending(b)' = Pending(b)
  <2>1. CASE Call(m)
    BY <2>1 DEF Call, ChangeNodePart, InBlock, Pending
  <2>2. CASE UpdatePinCount(m)
    BY <2>2 DEF UpdatePinCount, InBlock, Pending
  <2>3. CASE DeltaFunction(m) \/ Return(m)
    BY <2>3 DEF DeltaFunction, Return, InBlock, Pending
  <2> QED BY <1>5, <2>1, <2>2, <2>3
<1> QED BY <1>1, <1>2, <1>3, <1>4, <1>5

\* The sets of movers whose node fits, after a step of mover m.
LEMMA AcceptedSteps ==
  ASSUME PhgTypeOK, NEW m \in Movers, NEW b \in Blocks
  PROVE  /\ AddWeight(m) => Accepted(b)' \subseteq Accepted(b) \cup {m}
         /\ AddWeight(m) /\ (b # to[m] \/ ~Fits(b, part_weights'[b])) => Accepted(b)' = Accepted(b)
         /\ SetPart(m) => /\ b = to[m] => m \in Accepted(b) /\ Accepted(b)' = Accepted(b) \ {m}
                          /\ b # to[m] => Accepted(b)' = Accepted(b)
         /\ (Call(m) \/ UndoWeight(m) \/ SubWeight(m) \/ UpdatePinCount(m) \/ DeltaFunction(m)
             \/ Return(m)) => Accepted(b)' = Accepted(b)
<1> USE DEF PhgTypeOK, Goto, partition, Accepted
<1>1. AddWeight(m) => Accepted(b)' \subseteq Accepted(b) \cup {m}
  BY DEF AddWeight
<1>2. AddWeight(m) /\ (b # to[m] \/ ~Fits(b, part_weights'[b])) => Accepted(b)' = Accepted(b)
  <2> SUFFICES ASSUME AddWeight(m), b # to[m] \/ ~Fits(b, part_weights'[b])
               PROVE  Accepted(b)' = Accepted(b)
    OBVIOUS
  <2>1. b = to[m] => pc'[m] = "undo_weight"
    BY DEF AddWeight
  <2> QED BY <2>1 DEF AddWeight
<1>3. SetPart(m) => /\ b = to[m] => m \in Accepted(b) /\ Accepted(b)' = Accepted(b) \ {m}
                    /\ b # to[m] => Accepted(b)' = Accepted(b)
  BY DEF SetPart
<1>4. UndoWeight(m) \/ SubWeight(m) \/ DeltaFunction(m) \/ Return(m) =>
        Accepted(b)' = Accepted(b)
  BY DEF UndoWeight, SubWeight, DeltaFunction, Return
<1>5. Call(m) => Accepted(b)' = Accepted(b)
  BY DEF Call, ChangeNodePart
<1>6. UpdatePinCount(m) => Accepted(b)' = Accepted(b)
  BY DEF UpdatePinCount
<1> QED BY <1>1, <1>2, <1>3, <1>4, <1>5, <1>6

\* The weights as sums, and the bound that the blocks keep: what a block may weigh,
\* or what it weighed at the beginning.
WeightsSummed ==
  \A b \in Blocks :
    part_weights[b] =
      SumFunctionOnSet(NodeWeight, InBlock(b)) + SumFunctionOnSet(MoverWeight, Pending(b))
Bound(b) == Max({MaxPartWeight[b], BlockWeights(InitialPart)[b]})
AcceptedFit ==
  Limited => \A b \in Blocks :
    SumFunctionOnSet(NodeWeight, InBlock(b)) + SumFunctionOnSet(MoverWeight, Accepted(b)) <= Bound(b)

\* The bound of a block is at least its limit and its initial weight.
LEMMA BoundType ==
  ASSUME NEW b \in Blocks
  PROVE  /\ Bound(b) \in Nat /\ MaxPartWeight[b] <= Bound(b)
         /\ SumFunctionOnSet(NodeWeight, {u \in Nodes : InitialPart[u] = b}) <= Bound(b)
<1> DEFINE S == {u \in Nodes : InitialPart[u] = b}
           x == SumFunctionOnSet(NodeWeight, S)
           y == MaxPartWeight[b]
<1>1. x \in Nat
  <2>1. IsFiniteSet(S) /\ S \in SUBSET Nodes
    BY FS_Subset, PartitionAssumption
  <2> HIDE DEF S
  <2> QED BY <2>1, SumSubset, PartitionAssumption
<1>2. y \in Nat
  BY PartitionAssumption
<1>3. Bound(b) = Max({y, x})
  BY WeightSums DEF Bound
<1> HIDE DEF x, y
<1>4. \E z \in {y, x} : \A w \in {y, x} : z >= w
  BY <1>1, <1>2
<1>5. Max({y, x}) \in {y, x} /\ \A w \in {y, x} : Max({y, x}) >= w
  BY <1>4 DEF Max
<1>6. Bound(b) \in Nat /\ y <= Bound(b) /\ x <= Bound(b)
  BY <1>1, <1>2, <1>3, <1>5
<1> QED BY <1>6 DEF x, y

\* The weights of the initial partition are exact.
LEMMA InitWeights == PhgInit => WeightsSummed /\ AcceptedFit
<1> SUFFICES ASSUME PhgInit, NEW b \in Blocks
             PROVE  /\ part_weights[b] = SumFunctionOnSet(NodeWeight, InBlock(b))
                                         + SumFunctionOnSet(MoverWeight, Pending(b))
                    /\ SumFunctionOnSet(NodeWeight, InBlock(b))
                       + SumFunctionOnSet(MoverWeight, Accepted(b)) <= Bound(b)
  BY DEF WeightsSummed, AcceptedFit
<1>1. Pending(b) = {} /\ Accepted(b) = {}
  BY DEF PhgInit, Pending, Accepted
<1>2. InBlock(b) = {u \in Nodes : InitialPart[u] = b}
  BY DEF PhgInit, InBlock
<1>3. part_weights[b] = SumFunctionOnSet(NodeWeight, InBlock(b))
  BY <1>2, WeightSums DEF PhgInit
<1>4. SumFunctionOnSet(NodeWeight, InBlock(b)) \in Nat
  BY SumTypes, InitInv DEF PhgInv
<1>5. SumFunctionOnSet(NodeWeight, InBlock(b)) <= Bound(b)
  BY <1>2, BoundType
<1>6. SumFunctionOnSet(MoverWeight, {}) = 0
  BY SumEmpty
<1> QED BY <1>1, <1>3, <1>4, <1>5, <1>6, BoundType

\* Each step keeps the weight of block b the sum of the two.
LEMMA WeightsStep ==
  ASSUME PhgTypeOK, CallsDoNotOverlap, WeightsSummed, NEW m \in Movers,
         Quiet(m) \/ UpdatePinCount(m)
  PROVE  WeightsSummed'
<1> DEFINE Held(b) == SumFunctionOnSet(NodeWeight, InBlock(b))
           Extra(b) == SumFunctionOnSet(MoverWeight, Pending(b))
           w == NodeWeight[NodeOf[m]]
<1> SUFFICES ASSUME NEW b \in Blocks
             PROVE  part_weights'[b] = Held(b)' + Extra(b)'
  BY DEF WeightsSummed
<1>1. /\ Held(b) \in Nat /\ Extra(b) \in Nat /\ w \in Nat
      /\ IsFiniteSet(InBlock(b)) /\ IsFiniteSet(Pending(b))
  BY SumTypes, WeightTypes
<1>2. part_weights[b] = Held(b) + Extra(b) /\ DOMAIN part_weights = Blocks
  BY DEF WeightsSummed, PhgTypeOK
<1>3. m \notin Pending(b) => SumFunctionOnSet(MoverWeight, Pending(b) \cup {m}) = w + Extra(b)
  <2>1. \A x \in Pending(b) \cup {m} : MoverWeight[x] \in Int
    BY WeightTypes DEF Pending
  <2>2. MoverWeight[m] = w
    BY WeightTypes
  <2> QED BY <1>1, <2>1, <2>2, SumAdd
<1>4. m \in Pending(b) => SumFunctionOnSet(MoverWeight, Pending(b) \ {m}) = Extra(b) - w
  <2>1. \A x \in Pending(b) : MoverWeight[x] \in Int
    BY WeightTypes DEF Pending
  <2>2. MoverWeight[m] = w
    BY WeightTypes
  <2>3. IsFiniteSet(Pending(b) \ {m})
    BY <1>1, FS_RemoveElement
  <2>4. SumFunctionOnSet(MoverWeight, Pending(b) \ {m}) \in Int
    BY <2>1, <2>3, SumInt
  <2>5. m \in Pending(b) =>
          Extra(b) = MoverWeight[m] + SumFunctionOnSet(MoverWeight, Pending(b) \ {m})
    BY <1>1, <2>1, SumRemove
  <2> HIDE DEF w, Extra
  <2> QED BY <1>1, <2>2, <2>4, <2>5
<1>5. /\ NodeOf[m] \notin InBlock(b) =>
           SumFunctionOnSet(NodeWeight, InBlock(b) \cup {NodeOf[m]}) = w + Held(b)
      /\ NodeOf[m] \in InBlock(b) =>
           SumFunctionOnSet(NodeWeight, InBlock(b) \ {NodeOf[m]}) = Held(b) - w
  <2>1. \A x \in InBlock(b) \cup {NodeOf[m]} : NodeWeight[x] \in Int
    BY WeightTypes DEF InBlock
  <2>2. NodeOf[m] \notin InBlock(b) =>
          SumFunctionOnSet(NodeWeight, InBlock(b) \cup {NodeOf[m]}) = w + Held(b)
    BY <1>1, <2>1, SumAdd
  <2>3. IsFiniteSet(InBlock(b) \ {NodeOf[m]})
    BY <1>1, FS_RemoveElement
  <2>4. SumFunctionOnSet(NodeWeight, InBlock(b) \ {NodeOf[m]}) \in Int
    BY <2>1, <2>3, SumInt
  <2>5. NodeOf[m] \in InBlock(b) =>
          Held(b) = w + SumFunctionOnSet(NodeWeight, InBlock(b) \ {NodeOf[m]})
    BY <1>1, <2>1, SumRemove
  <2>6. NodeOf[m] \in InBlock(b) =>
           SumFunctionOnSet(NodeWeight, InBlock(b) \ {NodeOf[m]}) = Held(b) - w
    <3> HIDE DEF w, Held
    <3> QED BY <1>1, <2>4, <2>5
  <2> QED BY <2>2, <2>6
<1>6. CASE AddWeight(m)
  <2>1. part_weights'[b] = part_weights[b] + (IF b = to[m] THEN w ELSE 0)
    BY <1>1, <1>2, <1>6 DEF AddWeight
  <2>2. /\ InBlock(b)' = InBlock(b) /\ m \notin Pending(b)
        /\ Pending(b)' = IF b = to[m] THEN Pending(b) \cup {m} ELSE Pending(b)
    BY <1>6, PendingSteps
  <2>3. Held(b)' = Held(b) /\ Extra(b)' = Extra(b) + (IF b = to[m] THEN w ELSE 0)
    BY <1>1, <1>3, <2>2
  <2> HIDE DEF w, Held, Extra
  <2> QED BY <1>1, <1>2, <2>1, <2>3
<1>7. CASE UndoWeight(m)
  <2>1. part_weights'[b] = part_weights[b] - (IF b = to[m] THEN w ELSE 0)
    BY <1>1, <1>2, <1>7 DEF UndoWeight
  <2>2. /\ InBlock(b)' = InBlock(b) /\ (b = to[m] => m \in Pending(b))
        /\ Pending(b)' = IF b = to[m] THEN Pending(b) \ {m} ELSE Pending(b)
    BY <1>7, PendingSteps
  <2>3. Held(b)' = Held(b) /\ Extra(b)' = Extra(b) - (IF b = to[m] THEN w ELSE 0)
    BY <1>1, <1>4, <2>2
  <2> HIDE DEF w, Held, Extra
  <2> QED BY <1>1, <1>2, <2>1, <2>3
<1>8. CASE SetPart(m)
  <2>1. part_weights' = part_weights
    BY <1>8 DEF SetPart
  <2>2. CASE b = to[m]
    <3>1. /\ NodeOf[m] \notin InBlock(b) /\ m \in Pending(b)
          /\ InBlock(b)' = InBlock(b) \cup {NodeOf[m]} /\ Pending(b)' = Pending(b) \ {m}
      BY <1>8, <2>2, PendingSteps
    <3>2. Held(b)' = w + Held(b) /\ Extra(b)' = Extra(b) - w
      BY <1>4, <1>5, <3>1
    <3> HIDE DEF w, Held, Extra
    <3> QED BY <1>1, <1>2, <2>1, <3>2
  <2>3. CASE b = from[m]
    <3>1. /\ NodeOf[m] \in InBlock(b) /\ m \notin Pending(b)
          /\ InBlock(b)' = InBlock(b) \ {NodeOf[m]} /\ Pending(b)' = Pending(b) \cup {m}
      BY <1>8, <2>3, PendingSteps
    <3>2. Held(b)' = Held(b) - w /\ Extra(b)' = w + Extra(b)
      BY <1>3, <1>5, <3>1
    <3> HIDE DEF w, Held, Extra
    <3> QED BY <1>1, <1>2, <2>1, <3>2
  <2>4. CASE b \notin {from[m], to[m]}
    <3>1. InBlock(b)' = InBlock(b) /\ Pending(b)' = Pending(b)
      BY <1>8, <2>4, PendingSteps
    <3> QED BY <1>2, <2>1, <3>1
  <2> QED BY <2>2, <2>3, <2>4
<1>9. CASE SubWeight(m)
  <2>1. part_weights'[b] = part_weights[b] - (IF b = from[m] THEN w ELSE 0)
    BY <1>1, <1>2, <1>9 DEF SubWeight
  <2>2. /\ InBlock(b)' = InBlock(b) /\ (b = from[m] => m \in Pending(b))
        /\ Pending(b)' = IF b = from[m] THEN Pending(b) \ {m} ELSE Pending(b)
    BY <1>9, PendingSteps
  <2>3. Held(b)' = Held(b) /\ Extra(b)' = Extra(b) - (IF b = from[m] THEN w ELSE 0)
    BY <1>1, <1>4, <2>2
  <2> HIDE DEF w, Held, Extra
  <2> QED BY <1>1, <1>2, <2>1, <2>3
<1>10. CASE Call(m) \/ UpdatePinCount(m) \/ DeltaFunction(m) \/ Return(m)
  <2>1. part_weights' = part_weights
    BY <1>10 DEF Call, ChangeNodePart, UpdatePinCount, DeltaFunction, Return, partition
  <2>2. InBlock(b)' = InBlock(b) /\ Pending(b)' = Pending(b)
    BY <1>10, PendingSteps
  <2> QED BY <1>2, <2>1, <2>2
<1> QED BY <1>6, <1>7, <1>8, <1>9, <1>10 DEF Quiet

\* A node is accepted only when its block, with all nodes announced so far, fits:
\* what else is announced can only be taken back.
LEMMA AcceptedStep ==
  ASSUME PhgTypeOK, CallsDoNotOverlap, WeightsSummed, WeightsSummed', AcceptedFit,
         NEW m \in Movers, Quiet(m) \/ UpdatePinCount(m)
  PROVE  AcceptedFit'
<1> DEFINE Held(b) == SumFunctionOnSet(NodeWeight, InBlock(b))
           Sure(b) == SumFunctionOnSet(MoverWeight, Accepted(b))
           w == NodeWeight[NodeOf[m]]
<1> SUFFICES ASSUME Limited, NEW b \in Blocks
             PROVE  Held(b)' + Sure(b)' <= Bound(b)
  BY DEF AcceptedFit, Bound
<1>1. /\ Held(b) \in Nat /\ Sure(b) \in Nat /\ w \in Nat /\ Bound(b) \in Nat
      /\ IsFiniteSet(InBlock(b)) /\ IsFiniteSet(Pending(b)) /\ IsFiniteSet(Accepted(b))
      /\ MaxPartWeight[b] <= Bound(b) /\ MaxPartWeight[b] \in Nat
  BY SumTypes, WeightTypes, BoundType, PartitionAssumption
<1>2. Held(b) + Sure(b) <= Bound(b)
  BY DEF AcceptedFit
<1>3. CASE AddWeight(m) /\ b = to[m] /\ Fits(b, part_weights'[b])
  <2>1. InBlock(b)' = InBlock(b) /\ Pending(b)' = Pending(b) \cup {m}
    BY <1>3, PendingSteps
  <2>2. Accepted(b)' \subseteq Pending(b) \cup {m}
    BY <1>3, AcceptedSteps DEF Accepted, Pending
  <2>3. IsFiniteSet(Pending(b) \cup {m}) /\ \A x \in Pending(b) \cup {m} : MoverWeight[x] \in Nat
    BY <1>1, FS_AddElement, WeightTypes DEF Pending
  <2>4. /\ Sure(b)' <= SumFunctionOnSet(MoverWeight, Pending(b)')
        /\ Sure(b)' \in Nat /\ SumFunctionOnSet(MoverWeight, Pending(b)') \in Nat
    BY <2>1, <2>2, <2>3, SumSubset
  <2>5. part_weights'[b] = Held(b)' + SumFunctionOnSet(MoverWeight, Pending(b)')
    BY DEF WeightsSummed
  <2>6. part_weights'[b] <= MaxPartWeight[b]
    BY <1>3 DEF Fits
  <2>7. Held(b)' = Held(b)
    BY <2>1
  <2> HIDE DEF w, Held, Sure
  <2> QED BY <1>1, <2>4, <2>5, <2>6, <2>7
<1>4. CASE SetPart(m) /\ b = to[m]
  <2>1. /\ NodeOf[m] \notin InBlock(b) /\ m \in Accepted(b)
        /\ InBlock(b)' = InBlock(b) \cup {NodeOf[m]} /\ Accepted(b)' = Accepted(b) \ {m}
    BY <1>4, PendingSteps, AcceptedSteps
  <2>2. \A x \in InBlock(b) \cup {NodeOf[m]} : NodeWeight[x] \in Int
    BY WeightTypes DEF InBlock
  <2>3. \A x \in Accepted(b) : MoverWeight[x] \in Int
    BY WeightTypes DEF Accepted
  <2>4. Held(b)' = w + Held(b)
    BY <1>1, <2>1, <2>2, SumAdd
  <2>5. Sure(b) = MoverWeight[m] + SumFunctionOnSet(MoverWeight, Accepted(b) \ {m})
    BY <1>1, <2>1, <2>3, SumRemove
  <2>6. IsFiniteSet(Accepted(b) \ {m})
    BY <1>1, FS_RemoveElement
  <2>7. SumFunctionOnSet(MoverWeight, Accepted(b) \ {m}) \in Int
    BY <2>3, <2>6, SumInt
  <2>8. Sure(b) = w + Sure(b)' /\ Sure(b)' \in Int
    BY <2>1, <2>5, <2>7, WeightTypes
  <2> HIDE DEF w, Held, Sure
  <2> QED BY <1>1, <1>2, <2>4, <2>8
<1>5. CASE SetPart(m) /\ b = from[m]
  <2>1. /\ NodeOf[m] \in InBlock(b) /\ InBlock(b)' = InBlock(b) \ {NodeOf[m]}
        /\ from[m] # to[m]
    BY <1>5, PendingSteps
  <2>2. Accepted(b)' = Accepted(b)
    BY <1>5, <2>1, AcceptedSteps
  <2>3. \A x \in InBlock(b) : NodeWeight[x] \in Nat
    BY WeightTypes DEF InBlock
  <2>4. Held(b)' <= Held(b) /\ Held(b)' \in Nat
    BY <1>1, <2>1, <2>3, SumSubset
  <2>5. Sure(b)' = Sure(b)
    BY <2>2
  <2> HIDE DEF w, Held, Sure
  <2> QED BY <1>1, <1>2, <2>4, <2>5
<1>6. ASSUME InBlock(b)' = InBlock(b), Accepted(b)' = Accepted(b)
      PROVE  Held(b)' + Sure(b)' <= Bound(b)
  BY <1>2, <1>6
<1>7. CASE SetPart(m) /\ b \notin {from[m], to[m]}
  BY <1>6, <1>7, PendingSteps, AcceptedSteps
<1>8. CASE AddWeight(m) /\ ~(b = to[m] /\ Fits(b, part_weights'[b]))
  BY <1>6, <1>8, PendingSteps, AcceptedSteps
<1>9. CASE UndoWeight(m) \/ SubWeight(m)
  BY <1>6, <1>9, PendingSteps, AcceptedSteps
<1>10. CASE Call(m) \/ UpdatePinCount(m) \/ DeltaFunction(m) \/ Return(m)
  BY <1>6, <1>10, PendingSteps, AcceptedSteps
<1> QED BY <1>3, <1>4, <1>5, <1>7, <1>8, <1>9, <1>10 DEF Quiet

\* The invariant about the weights is inductive.
LEMMA WeightInvariant == PhgSpec => [](WeightsSummed /\ AcceptedFit)
<1>1. ASSUME PhgInv, WeightsSummed, AcceptedFit, [PhgNext]_phgVars
      PROVE  WeightsSummed' /\ AcceptedFit'
  <2>1. PhgTypeOK /\ CallsDoNotOverlap
    BY <1>1 DEF PhgInv
  <2>2. CASE PhgNext
    <3>1. PICK m \in Movers : Quiet(m) \/ UpdatePinCount(m)
      BY <2>2 DEF PhgNext, Silent, Quiet
    <3>2. WeightsSummed'
      BY <1>1, <2>1, <3>1, WeightsStep
    <3> QED BY <1>1, <2>1, <3>1, <3>2, AcceptedStep
  <2>3. CASE UNCHANGED phgVars
    BY <1>1, <2>3 DEF phgVars, partition, callVars, WeightsSummed, AcceptedFit, InBlock,
                      Pending, Accepted
  <2> QED BY <1>1, <2>2, <2>3
<1> QED BY <1>1, InitWeights, Tracking, PTL DEF PhgSpec

\* Under concurrent moves a block weight is at every moment the weight of the nodes
\* in the block, plus what is announced and what is not subtracted yet: no atomic
\* update of changeNodePart is lost or made twice.
THEOREM WeightsAreTracked == PhgSpec => []WeightsTracked
<1>1. WeightsSummed => WeightsTracked
  BY WeightSums DEF WeightsSummed
<1> QED BY <1>1, WeightInvariant, PTL

\* The optimistic check of changeNodePart keeps the blocks balanced for every number
\* of concurrent moves: no block gets heavier than its bound, or than it was before
\* the refinement.
THEOREM BalanceIsKept == PhgSpec => []BalanceKept
<1>1. PhgInv /\ AcceptedFit => BalanceKept
  <2> SUFFICES ASSUME PhgInv, AcceptedFit, Limited, NEW b \in Blocks
               PROVE  BlockWeights(part_ids)[b] <= Bound(b)
    BY DEF BalanceKept, Bound
  <2>1. /\ SumFunctionOnSet(NodeWeight, InBlock(b)) \in Nat
        /\ SumFunctionOnSet(MoverWeight, Accepted(b)) \in Nat
    BY SumTypes DEF PhgInv
  <2>2. SumFunctionOnSet(NodeWeight, InBlock(b)) + SumFunctionOnSet(MoverWeight, Accepted(b))
          <= Bound(b)
    BY DEF AcceptedFit
  <2>3. BlockWeights(part_ids)[b] = SumFunctionOnSet(NodeWeight, InBlock(b))
    BY WeightSums
  <2>4. Bound(b) \in Nat
    BY BoundType
  <2> QED BY <2>1, <2>2, <2>3, <2>4
<1> QED BY <1>1, WeightInvariant, Tracking, PTL

-----------------------------------------------------------------------------
(* The partition below a gain cache *)

\* The partition with a gain cache begins like the partition without one.
LEMMA InitRefines == Km1Init => PhgInit
BY DEF Km1Init

\* Every step with a gain cache is a step of the partition, or changes nothing of it.
LEMMA StepRefines == [Km1Next]_km1Vars => [PhgNext]_phgVars
<1> SUFFICES ASSUME [Km1Next]_km1Vars PROVE [PhgNext]_phgVars
  OBVIOUS
<1>1. ASSUME NEW m \in Movers, CallWithCache(m)
      PROVE  PhgNext
  BY <1>1 DEF CallWithCache, PhgNext
<1>2. ASSUME NEW m \in Movers, SilentWithCache(m)
      PROVE  PhgNext
  BY <1>2 DEF SilentWithCache, PhgNext
<1>3. ASSUME NEW m \in Movers, DeltaFunctionWithCache(m)
      PROVE  PhgNext
  BY <1>3 DEF DeltaFunctionWithCache, PhgNext
<1>4. CASE EndOfRound
  BY <1>4 DEF EndOfRound
<1>5. CASE UNCHANGED km1Vars
  BY <1>5 DEF km1Vars
<1> QED
  BY <1>1, <1>2, <1>3, <1>4, <1>5 DEF Km1Next

\* changeNodePart with a gain cache is changeNodePart with a delta function.
THEOREM CacheRefinesPartition == Km1Spec => PhgSpec
<1> QED
  BY InitRefines, StepRefines, PTL DEF Km1Spec, PhgSpec

\* So a refiner finds pin counts exact up to moves under way, whatever the delta
\* gain updates do.
THEOREM PinCountsAreTrackedWithCache == Km1Spec => []PinCountsTracked
<1> QED
  BY CacheRefinesPartition, PinCountsAreTracked, PTL

\* The same for block weights and for the balance of the partition.
THEOREM BalanceIsKeptWithCache == Km1Spec => [](WeightsTracked /\ BalanceKept)
<1> QED
  BY CacheRefinesPartition, WeightsAreTracked, BalanceIsKept, PTL

-----------------------------------------------------------------------------
(* The terms of the gain cache as sums of functions *)

\* What mover m has not added yet to the terms of node u.
BenefitDeltas(u, b) ==
  [m \in Movers |-> BenefitDelta(u, b, from[m], to[m], update[m].he,
                                 update[m].from_after, update[m].to_after)]
PenaltyDeltas(u) ==
  [m \in Movers |-> PenaltyDelta(u, from[m], to[m], update[m].he,
                                 update[m].from_after, update[m].to_after)]

\* The nets that the terms of node u sum over.
BenefitNets(u, b) == {e \in IncidentEdges(u) : pin_count[e][b] >= 1}
PenaltyNets(u) == {e \in IncidentEdges(u) : pin_count[e][part_ids[u]] > 1}

BenefitSummed ==
  \A u \in Nodes, b \in Blocks :
    benefit[u][b] + SumFunctionOnSet(BenefitDeltas(u, b), Outstanding)
      = SumFunctionOnSet(EdgeWeight, BenefitNets(u, b))
PenaltySummed ==
  \A u \in Nodes \ Moved :
    penalty[u] + SumFunctionOnSet(PenaltyDeltas(u), Outstanding)
      = SumFunctionOnSet(EdgeWeight, PenaltyNets(u))

\* The types of the cache.
CacheTypeOK ==
  /\ penalty \in [Nodes -> Int]
  /\ benefit \in [Nodes -> [Blocks -> Int]]
  /\ moves \in [Nodes -> Nat]

\* The weight of a set of nets, as a sum the lemmas about sums apply to.
LEMMA EdgeWeightSum ==
  ASSUME NEW S
  PROVE  EdgeWeightOf(S) = SumFunctionOnSet(EdgeWeight, S)
BY DEF EdgeWeightOf, MapThenSumSet, SumFunctionOnSet, FoldFunctionOnSet

\* The same for the terms of the cache and the updates that are outstanding.
LEMMA CacheSums ==
  /\ BenefitTracked <=> BenefitSummed
  /\ PenaltyTracked <=> PenaltySummed
<1>0. \A u \in Nodes, b \in Blocks :
        RecomputeBenefitTerm(u, b) = SumFunctionOnSet(EdgeWeight, BenefitNets(u, b))
  BY EdgeWeightSum DEF RecomputeBenefitTerm, BenefitNets
<1>1. \A u \in Nodes : RecomputePenaltyTerm(u) = SumFunctionOnSet(EdgeWeight, PenaltyNets(u))
  BY EdgeWeightSum DEF RecomputePenaltyTerm, PenaltyNets
<1>2. Outstanding \in SUBSET Movers
  BY DEF Outstanding
<1> HIDE DEF Outstanding
<1>3. ASSUME NEW u \in Nodes, NEW b \in Blocks
      PROVE  MapThenSumSet(LAMBDA m : BenefitDelta(u, b, from[m], to[m], update[m].he,
               update[m].from_after, update[m].to_after), Outstanding)
             = SumFunctionOnSet(BenefitDeltas(u, b), Outstanding)
  BY <1>2, ZenonT(30) DEF BenefitDeltas, MapThenSumSet, SumFunctionOnSet, FoldFunctionOnSet, MapThenFoldSet
<1>4. ASSUME NEW u \in Nodes
      PROVE  MapThenSumSet(LAMBDA m : PenaltyDelta(u, from[m], to[m], update[m].he,
               update[m].from_after, update[m].to_after), Outstanding)
             = SumFunctionOnSet(PenaltyDeltas(u), Outstanding)
  BY <1>2, ZenonT(30) DEF PenaltyDeltas, MapThenSumSet, SumFunctionOnSet, FoldFunctionOnSet, MapThenFoldSet
<1>5. BenefitTracked <=> BenefitSummed
  BY <1>0, <1>3, Zenon DEF BenefitTracked, BenefitSummed
<1>6. PenaltyTracked <=> PenaltySummed
  BY <1>1, <1>4, Zenon DEF PenaltyTracked, PenaltySummed
<1> QED BY <1>5, <1>6

\* Deltas are integers.
LEMMA DeltaTypes ==
  ASSUME PhgTypeOK, NEW u, NEW b, NEW m \in Movers
  PROVE  /\ BenefitDeltas(u, b)[m] =
              BenefitDelta(u, b, from[m], to[m], update[m].he, update[m].from_after,
                           update[m].to_after)
         /\ PenaltyDeltas(u)[m] =
              PenaltyDelta(u, from[m], to[m], update[m].he, update[m].from_after,
                           update[m].to_after)
         /\ BenefitDeltas(u, b)[m] \in Int /\ PenaltyDeltas(u)[m] \in Int
<1>1. update[m].he \in Edges
  BY DEF PhgTypeOK, Updates
<1>2. EdgeWeight[update[m].he] \in Int
  BY <1>1, GainCacheAssumption
<1> QED BY <1>2 DEF BenefitDeltas, PenaltyDeltas, BenefitDelta, PenaltyDelta

\* Sums of net weights, and how one net changes them.
LEMMA NetSums ==
  ASSUME NEW S \in SUBSET Edges, NEW e \in Edges
  PROVE  /\ IsFiniteSet(S)
         /\ SumFunctionOnSet(EdgeWeight, S) \in Int /\ EdgeWeight[e] \in Int
         /\ e \in S => SumFunctionOnSet(EdgeWeight, S \ {e}) =
                         SumFunctionOnSet(EdgeWeight, S) - EdgeWeight[e]
         /\ e \notin S => SumFunctionOnSet(EdgeWeight, S \cup {e}) =
                            SumFunctionOnSet(EdgeWeight, S) + EdgeWeight[e]
<1>1. IsFiniteSet(S) /\ IsFiniteSet(S \ {e})
  <2>1. IsFiniteSet(S)
    BY FS_Subset, PartitionAssumption
  <2> QED BY <2>1, FS_RemoveElement
<1>2. \A d \in Edges : EdgeWeight[d] \in Int
  BY GainCacheAssumption
<1>3. SumFunctionOnSet(EdgeWeight, S) \in Int
  BY <1>1, <1>2, SumInt
<1>4. SumFunctionOnSet(EdgeWeight, S \ {e}) \in Int
  <2>1. \A d \in S \ {e} : EdgeWeight[d] \in Int
    BY <1>2
  <2> QED BY <1>1, <2>1, SumInt
<1>5. e \in S => SumFunctionOnSet(EdgeWeight, S) =
                   EdgeWeight[e] + SumFunctionOnSet(EdgeWeight, S \ {e})
  BY <1>1, <1>2, SumRemove
<1>6. e \notin S => SumFunctionOnSet(EdgeWeight, S \cup {e}) =
                      EdgeWeight[e] + SumFunctionOnSet(EdgeWeight, S)
  <2>1. \A d \in S \cup {e} : EdgeWeight[d] \in Int
    BY <1>2
  <2> QED BY <1>1, <2>1, SumAdd
<1>7. EdgeWeight[e] \in Int
  BY <1>2
<1> QED BY <1>1, <1>3, <1>4, <1>5, <1>6, <1>7

\* Only finitely many updates are outstanding.
LEMMA OutstandingFinite ==
  ASSUME CallsDoNotOverlap
  PROVE  IsFiniteSet(Outstanding) /\ Outstanding \in SUBSET Movers
BY ActiveFinite DEF Outstanding

\* A step that leaves the cache, the nets and the outstanding updates alone, and
\* that moves no node whose penalty term is still valid afterwards.
LEMMA CacheUntouched ==
  ASSUME PhgTypeOK, CallsDoNotOverlap, BenefitSummed, PenaltySummed,
         UNCHANGED <<penalty, benefit, pin_count>>, Outstanding' = Outstanding,
         \A n \in Outstanding : from'[n] = from[n] /\ to'[n] = to[n] /\ update'[n] = update[n],
         \A u \in Nodes \ Moved' : u \notin Moved /\ part_ids'[u] = part_ids[u]
  PROVE  BenefitSummed' /\ PenaltySummed'
<1>1. IsFiniteSet(Outstanding) /\ Outstanding \in SUBSET Movers
  BY OutstandingFinite
<1>2. ASSUME NEW u \in Nodes, NEW b \in Blocks
      PROVE  benefit'[u][b] + SumFunctionOnSet(BenefitDeltas(u, b)', Outstanding')
               = SumFunctionOnSet(EdgeWeight, BenefitNets(u, b)')
  <2>1. \A n \in Outstanding : BenefitDeltas(u, b)'[n] = BenefitDeltas(u, b)[n]
    BY <1>1 DEF BenefitDeltas, BenefitDelta
  <2>2. SumFunctionOnSet(BenefitDeltas(u, b)', Outstanding) =
          SumFunctionOnSet(BenefitDeltas(u, b), Outstanding)
    BY <1>1, <2>1, SumCongruence
  <2>3. BenefitNets(u, b)' = BenefitNets(u, b)
    BY DEF BenefitNets
  <2> QED BY <2>2, <2>3 DEF BenefitSummed
<1>3. ASSUME NEW u \in Nodes \ Moved'
      PROVE  penalty'[u] + SumFunctionOnSet(PenaltyDeltas(u)', Outstanding')
               = SumFunctionOnSet(EdgeWeight, PenaltyNets(u)')
  <2>1. \A n \in Outstanding : PenaltyDeltas(u)'[n] = PenaltyDeltas(u)[n]
    BY <1>1, <1>3 DEF PenaltyDeltas, PenaltyDelta
  <2>2. SumFunctionOnSet(PenaltyDeltas(u)', Outstanding) =
          SumFunctionOnSet(PenaltyDeltas(u), Outstanding)
    BY <1>1, <2>1, SumCongruence
  <2>3. PenaltyNets(u)' = PenaltyNets(u)
    BY <1>3 DEF PenaltyNets
  <2>4. u \in Nodes \ Moved
    BY <1>3
  <2> QED BY <2>2, <2>3, <2>4 DEF PenaltySummed
<1> QED BY <1>2, <1>3 DEF BenefitSummed, PenaltySummed

\* An update of net e moves one pin from block a to block c.
PinMoved(e, a, c) ==
  /\ e \in Edges /\ a \in Blocks /\ c \in Blocks /\ a # c
  /\ pin_count \in [Edges -> [Blocks -> Nat]] /\ pin_count' \in [Edges -> [Blocks -> Nat]]
  /\ pin_count'[e][a] = pin_count[e][a] - 1
  /\ pin_count'[e][c] = pin_count[e][c] + 1
  /\ \A b \in Blocks \ {a, c} : pin_count'[e][b] = pin_count[e][b]
  /\ \A d \in Edges \ {e} : pin_count'[d] = pin_count[d]

\* An update of the pin counts moves one pin of one net, and the mover remembers what it
\* has left behind.
LEMMA UpdateMovesPin ==
  ASSUME PhgInv, NEW m \in Movers, UpdatePinCount(m)
  PROVE  \E e \in Edges :
           /\ PinMoved(e, from[m], to[m])
           /\ update' = [update EXCEPT ![m] = [he |-> e, from_after |-> pin_count'[e][from[m]],
                                               to_after |-> pin_count'[e][to[m]]]]
           /\ pc[m] = "nets" /\ pc' = [pc EXCEPT ![m] = "delta"]
           /\ UNCHANGED <<part_ids, from, to>>
           /\ connectivity_set' = [connectivity_set EXCEPT ![e] =
                MoveBlock(connectivity_set[e], from[m], to[m], pin_count'[e][from[m]],
                          pin_count'[e][to[m]])]
<1>1. PhgTypeOK /\ CallsDoNotOverlap /\ PhgTypeOK'
  BY UpdateTracked DEF PhgInv
<1>2. pc[m] = "nets" /\ pc' = [pc EXCEPT ![m] = "delta"] /\ UNCHANGED <<part_ids, from, to>>
  BY DEF UpdatePinCount, Goto
<1>3. from[m] \in Blocks /\ to[m] \in Blocks /\ from[m] # to[m]
  BY <1>1, <1>2 DEF PhgTypeOK, CallsDoNotOverlap
<1>4. PICK e \in todo[m] :
       /\ pin_count' = [pin_count EXCEPT ![e] = MovePin(pin_count[e], from[m], to[m])]
       /\ connectivity_set' = [connectivity_set EXCEPT ![e] =
            MoveBlock(connectivity_set[e], from[m], to[m], pin_count[e][from[m]] - 1,
                      MovePin(pin_count[e], from[m], to[m])[to[m]])]
       /\ update' = [update EXCEPT ![m] =
            [he |-> e, from_after |-> pin_count[e][from[m]] - 1,
             to_after |-> MovePin(pin_count[e], from[m], to[m])[to[m]]]]
  BY DEF UpdatePinCount
<1>5. e \in Edges
  BY <1>1 DEF PhgTypeOK
<1>6. pin_count[e] \in [Blocks -> Nat]
  BY <1>1, <1>5 DEF PhgTypeOK
<1>7. pin_count'[e] = MovePin(pin_count[e], from[m], to[m])
  BY <1>1, <1>4, <1>5 DEF PhgTypeOK
<1>8. /\ pin_count'[e][from[m]] = pin_count[e][from[m]] - 1
      /\ pin_count'[e][to[m]] = pin_count[e][to[m]] + 1
      /\ \A b \in Blocks \ {from[m], to[m]} : pin_count'[e][b] = pin_count[e][b]
  BY <1>3, <1>6, <1>7 DEF MovePin
<1>9. \A d \in Edges \ {e} : pin_count'[d] = pin_count[d]
  BY <1>1, <1>4 DEF PhgTypeOK
<1>10. PinMoved(e, from[m], to[m])
  BY <1>1, <1>3, <1>5, <1>8, <1>9 DEF PinMoved, PhgTypeOK
<1> QED BY <1>2, <1>4, <1>5, <1>7, <1>8, <1>10

\* The net that was updated enters or leaves the terms of its pins, by as much as the
\* mover will add.
LEMMA NetsMove ==
  ASSUME NEW e, NEW a, NEW c, PinMoved(e, a, c), UNCHANGED part_ids,
         part_ids \in [Nodes -> Blocks], NEW u \in Nodes, NEW b \in Blocks
  PROVE  /\ SumFunctionOnSet(EdgeWeight, BenefitNets(u, b)') =
              SumFunctionOnSet(EdgeWeight, BenefitNets(u, b))
              + BenefitDelta(u, b, a, c, e, pin_count'[e][a], pin_count'[e][c])
         /\ SumFunctionOnSet(EdgeWeight, PenaltyNets(u)') =
              SumFunctionOnSet(EdgeWeight, PenaltyNets(u))
              + PenaltyDelta(u, a, c, e, pin_count'[e][a], pin_count'[e][c])
<1> DEFINE w == EdgeWeight[e]
           B == BenefitNets(u, b)
           P == PenaltyNets(u)
           p == part_ids[u]
           db == BenefitDelta(u, b, a, c, e, pin_count'[e][a], pin_count'[e][c])
           dp == PenaltyDelta(u, a, c, e, pin_count'[e][a], pin_count'[e][c])
<1>1. /\ e \in Edges /\ a \in Blocks /\ c \in Blocks /\ a # c
      /\ pin_count[e] \in [Blocks -> Nat] /\ pin_count'[e] \in [Blocks -> Nat]
      /\ pin_count'[e][a] = pin_count[e][a] - 1
      /\ pin_count'[e][c] = pin_count[e][c] + 1
      /\ \A x \in Blocks \ {a, c} : pin_count'[e][x] = pin_count[e][x]
      /\ \A d \in Edges \ {e} : pin_count'[d] = pin_count[d]
  BY DEF PinMoved
<1>2. w \in Int /\ B \in SUBSET Edges /\ P \in SUBSET Edges /\ p \in Blocks
  BY <1>1, GainCacheAssumption DEF BenefitNets, PenaltyNets, IncidentEdges
<1>3. \A d \in Edges \ {e} : (d \in B' <=> d \in B) /\ (d \in P' <=> d \in P)
  BY <1>1 DEF BenefitNets, PenaltyNets
<1>4. B' \in SUBSET Edges /\ P' \in SUBSET Edges
  BY DEF BenefitNets, PenaltyNets, IncidentEdges
<1>5. /\ e \in B <=> u \in Pins[e] /\ pin_count[e][b] >= 1
      /\ e \in B' <=> u \in Pins[e] /\ pin_count'[e][b] >= 1
      /\ e \in P <=> u \in Pins[e] /\ pin_count[e][p] > 1
      /\ e \in P' <=> u \in Pins[e] /\ pin_count'[e][p] > 1
  BY <1>1 DEF BenefitNets, PenaltyNets, IncidentEdges
<1>6. db = IF e \in B /\ e \notin B' THEN -w ELSE IF e \notin B /\ e \in B' THEN w ELSE 0
  <2> HIDE DEF B
  <2>1. CASE u \notin Pins[e]
    BY <1>2, <1>5, <2>1 DEF BenefitDelta
  <2>2. CASE u \in Pins[e] /\ b = a
    BY <1>1, <1>2, <1>5, <2>2 DEF BenefitDelta
  <2>3. CASE u \in Pins[e] /\ b = c
    BY <1>1, <1>2, <1>5, <2>3 DEF BenefitDelta
  <2>4. CASE u \in Pins[e] /\ b \notin {a, c}
    BY <1>1, <1>2, <1>5, <2>4 DEF BenefitDelta
  <2> QED BY <2>1, <2>2, <2>3, <2>4
<1>7. dp = IF e \in P /\ e \notin P' THEN -w ELSE IF e \notin P /\ e \in P' THEN w ELSE 0
  <2> HIDE DEF P
  <2>1. CASE u \notin Pins[e]
    BY <1>2, <1>5, <2>1 DEF PenaltyDelta
  <2>2. CASE u \in Pins[e] /\ p = a
    BY <1>1, <1>2, <1>5, <2>2 DEF PenaltyDelta
  <2>3. CASE u \in Pins[e] /\ p = c
    BY <1>1, <1>2, <1>5, <2>3 DEF PenaltyDelta
  <2>4. CASE u \in Pins[e] /\ p \notin {a, c}
    BY <1>1, <1>2, <1>5, <2>4 DEF PenaltyDelta
  <2> QED BY <2>1, <2>2, <2>3, <2>4
<1>8. ASSUME NEW S \in SUBSET Edges, NEW T \in SUBSET Edges,
             \A d \in Edges \ {e} : d \in T <=> d \in S
      PROVE  SumFunctionOnSet(EdgeWeight, T) = SumFunctionOnSet(EdgeWeight, S)
               + (IF e \in S /\ e \notin T THEN -w ELSE IF e \notin S /\ e \in T THEN w ELSE 0)
  <2>1. CASE e \in S /\ e \notin T
    <3>1. T = S \ {e}
      BY <1>8, <2>1
    <3> QED BY <1>1, <2>1, <3>1, NetSums
  <2>2. CASE e \notin S /\ e \in T
    <3>1. T = S \cup {e}
      BY <1>8, <2>2
    <3> QED BY <1>1, <2>2, <3>1, NetSums
  <2>3. CASE e \in S <=> e \in T
    <3>1. T = S
      BY <1>8, <2>3
    <3>2. SumFunctionOnSet(EdgeWeight, S) \in Int
      BY <1>1, NetSums
    <3> QED BY <2>3, <3>1, <3>2
  <2> QED BY <2>1, <2>2, <2>3
<1> HIDE DEF B, P, w, db, dp
<1>9. SumFunctionOnSet(EdgeWeight, B') = SumFunctionOnSet(EdgeWeight, B) + db
  BY <1>2, <1>3, <1>4, <1>6, <1>8
<1>10. SumFunctionOnSet(EdgeWeight, P') = SumFunctionOnSet(EdgeWeight, P) + dp
  BY <1>2, <1>3, <1>4, <1>7, <1>8
<1> QED BY <1>9, <1>10 DEF B, P, db, dp

-----------------------------------------------------------------------------
(* The steps *)

\* While a net is locked its update becomes outstanding ...
LEMMA CacheAtUpdate ==
  ASSUME PhgInv, BenefitSummed, PenaltySummed, NEW m \in Movers, UpdatePinCount(m), PhgInv',
         UNCHANGED <<penalty, benefit, Moved>>, CacheTypeOK
  PROVE  BenefitSummed' /\ PenaltySummed'
<1>1. PhgTypeOK /\ CallsDoNotOverlap /\ PhgTypeOK'
  BY DEF PhgInv
<1>2. PICK e \in Edges :
         /\ PinMoved(e, from[m], to[m])
         /\ update' = [update EXCEPT ![m] = [he |-> e, from_after |-> pin_count'[e][from[m]],
                                             to_after |-> pin_count'[e][to[m]]]]
         /\ pc[m] = "nets" /\ pc' = [pc EXCEPT ![m] = "delta"]
         /\ UNCHANGED <<part_ids, from, to>>
  BY UpdateMovesPin
<1>3. IsFiniteSet(Outstanding) /\ Outstanding \in SUBSET Movers
  BY <1>1, OutstandingFinite
<1>4. m \notin Outstanding /\ Outstanding' = Outstanding \cup {m}
  BY <1>1, <1>2 DEF Outstanding, PhgTypeOK
<1>5. /\ update'[m] = [he |-> e, from_after |-> pin_count'[e][from[m]],
                       to_after |-> pin_count'[e][to[m]]]
      /\ \A n \in Outstanding : update'[n] = update[n]
  BY <1>1, <1>2, <1>3, <1>4 DEF PhgTypeOK
<1>6. ASSUME NEW u \in Nodes, NEW b \in Blocks
      PROVE  benefit'[u][b] + SumFunctionOnSet(BenefitDeltas(u, b)', Outstanding')
               = SumFunctionOnSet(EdgeWeight, BenefitNets(u, b)')
  <2> DEFINE f == BenefitDeltas(u, b)
             g == BenefitDeltas(u, b)'
  <2>1. \A n \in Outstanding : f[n] = g[n] /\ f[n] \in Int
    <3>1. \A n \in Outstanding : f[n] \in Int
      BY <1>1, <1>3, DeltaTypes
    <3>2. \A n \in Outstanding : f[n] = g[n]
      BY <1>2, <1>3, <1>5 DEF BenefitDeltas, BenefitDelta
    <3> QED BY <3>1, <3>2
  <2>2. g[m] = BenefitDelta(u, b, from[m], to[m], e, pin_count'[e][from[m]], pin_count'[e][to[m]])
    BY <1>2, <1>5 DEF BenefitDeltas, BenefitDelta
  <2>3. g[m] \in Int
    BY <2>2, GainCacheAssumption DEF BenefitDelta
  <2> HIDE DEF f, g
  <2>4. SumFunctionOnSet(g, Outstanding') = g[m] + SumFunctionOnSet(f, Outstanding)
    BY <1>3, <1>4, <2>1, <2>3, SumGrow
  <2>5. SumFunctionOnSet(EdgeWeight, BenefitNets(u, b)') =
          SumFunctionOnSet(EdgeWeight, BenefitNets(u, b)) + g[m]
    <3>1. part_ids \in [Nodes -> Blocks] /\ UNCHANGED part_ids /\ PinMoved(e, from[m], to[m])
      BY <1>1, <1>2 DEF PhgTypeOK
    <3> QED BY <2>2, <3>1, NetsMove
  <2>6. benefit[u][b] + SumFunctionOnSet(f, Outstanding)
          = SumFunctionOnSet(EdgeWeight, BenefitNets(u, b))
    BY DEF BenefitSummed, f
  <2>7. SumFunctionOnSet(f, Outstanding) \in Int /\ benefit[u][b] \in Int
    BY <1>3, <2>1, SumInt DEF CacheTypeOK
  <2>8. benefit'[u][b] + SumFunctionOnSet(g, Outstanding')
               = SumFunctionOnSet(EdgeWeight, BenefitNets(u, b)')
    BY <2>3, <2>4, <2>5, <2>6, <2>7
  <2> QED BY <2>8 DEF g
<1>7. ASSUME NEW u \in Nodes \ Moved
      PROVE  penalty'[u] + SumFunctionOnSet(PenaltyDeltas(u)', Outstanding')
               = SumFunctionOnSet(EdgeWeight, PenaltyNets(u)')
  <2> DEFINE f == PenaltyDeltas(u)
             g == PenaltyDeltas(u)'
  <2>1. \A n \in Outstanding : f[n] = g[n] /\ f[n] \in Int
    <3>1. \A n \in Outstanding : f[n] \in Int
      BY <1>1, <1>3, DeltaTypes
    <3>2. \A n \in Outstanding : f[n] = g[n]
      BY <1>2, <1>3, <1>5 DEF PenaltyDeltas, PenaltyDelta
    <3> QED BY <3>1, <3>2
  <2>2. g[m] = PenaltyDelta(u, from[m], to[m], e, pin_count'[e][from[m]], pin_count'[e][to[m]])
    BY <1>2, <1>5 DEF PenaltyDeltas, PenaltyDelta
  <2>3. g[m] \in Int
    BY <2>2, GainCacheAssumption DEF PenaltyDelta
  <2> HIDE DEF f, g
  <2>4. SumFunctionOnSet(g, Outstanding') = g[m] + SumFunctionOnSet(f, Outstanding)
    BY <1>3, <1>4, <2>1, <2>3, SumGrow
  <2>5. SumFunctionOnSet(EdgeWeight, PenaltyNets(u)') =
          SumFunctionOnSet(EdgeWeight, PenaltyNets(u)) + g[m]
    <3>1. part_ids \in [Nodes -> Blocks] /\ UNCHANGED part_ids /\ PinMoved(e, from[m], to[m])
      BY <1>1, <1>2 DEF PhgTypeOK
    <3>2. from[m] \in Blocks
      BY <3>1 DEF PinMoved
    <3> QED BY <2>2, <3>1, <3>2, NetsMove
  <2>6. penalty[u] + SumFunctionOnSet(f, Outstanding)
          = SumFunctionOnSet(EdgeWeight, PenaltyNets(u))
    BY DEF PenaltySummed, f
  <2>7. SumFunctionOnSet(f, Outstanding) \in Int /\ penalty[u] \in Int
    BY <1>3, <2>1, SumInt DEF CacheTypeOK
  <2>8. penalty'[u] + SumFunctionOnSet(g, Outstanding')
               = SumFunctionOnSet(EdgeWeight, PenaltyNets(u)')
    BY <2>3, <2>4, <2>5, <2>6, <2>7
  <2> QED BY <2>8 DEF g
<1> QED BY <1>6, <1>7 DEF BenefitSummed, PenaltySummed

\* ... and the delta function makes up for it.
LEMMA CacheAtDelta ==
  ASSUME PhgInv, BenefitSummed, PenaltySummed, CacheTypeOK,
         NEW m \in Movers, DeltaFunction(m), DeltaGainUpdate(m), UNCHANGED moves
  PROVE  BenefitSummed' /\ PenaltySummed' /\ CacheTypeOK'
<1>1. PhgTypeOK /\ CallsDoNotOverlap
  BY DEF PhgInv
<1>2. /\ pc[m] = "delta" /\ pc' = [pc EXCEPT ![m] = "nets"]
      /\ update' = [update EXCEPT ![m] = NoUpdate]
      /\ UNCHANGED <<part_ids, pin_count, from, to, moves>>
  BY DEF DeltaFunction, Goto, partition
<1>3. IsFiniteSet(Outstanding) /\ Outstanding \in SUBSET Movers
  BY <1>1, OutstandingFinite
<1>4. m \in Outstanding /\ Outstanding' = Outstanding \ {m} /\ Moved' = Moved
  BY <1>1, <1>2 DEF Outstanding, PhgTypeOK, Moved
<1>5. \A n \in Outstanding \ {m} : update'[n] = update[n]
  BY <1>1, <1>2, <1>3 DEF PhgTypeOK
<1>6. /\ \A u \in Nodes : penalty'[u] = penalty[u] + PenaltyDeltas(u)[m]
      /\ \A u \in Nodes, b \in Blocks : benefit'[u][b] = benefit[u][b] + BenefitDeltas(u, b)[m]
      /\ penalty' = [u \in Nodes |-> penalty'[u]]
      /\ benefit' = [u \in Nodes |-> [b \in Blocks |-> benefit'[u][b]]]
  BY DEF DeltaGainUpdate, PenaltyDeltas, BenefitDeltas
<1>7. CacheTypeOK'
  <2>1. \A u \in Nodes : penalty'[u] \in Int
    <3>1. \A u \in Nodes : penalty[u] \in Int /\ PenaltyDeltas(u)[m] \in Int
      BY <1>1, DeltaTypes DEF CacheTypeOK
    <3> QED BY <1>6, <3>1
  <2>2. \A u \in Nodes, b \in Blocks : benefit'[u][b] \in Int
    <3>1. \A u \in Nodes, b \in Blocks : benefit[u][b] \in Int /\ BenefitDeltas(u, b)[m] \in Int
      BY <1>1, DeltaTypes DEF CacheTypeOK
    <3> QED BY <1>6, <3>1
  <2> QED BY <1>2, <1>6, <2>1, <2>2 DEF CacheTypeOK
<1>8. ASSUME NEW u \in Nodes, NEW b \in Blocks
      PROVE  benefit'[u][b] + SumFunctionOnSet(BenefitDeltas(u, b)', Outstanding')
               = SumFunctionOnSet(EdgeWeight, BenefitNets(u, b)')
  <2> DEFINE f == BenefitDeltas(u, b)
             g == BenefitDeltas(u, b)'
  <2>1. \A n \in Outstanding : f[n] \in Int
    BY <1>1, <1>3, DeltaTypes
  <2>2. \A n \in Outstanding \ {m} : f[n] = g[n]
    BY <1>2, <1>3, <1>5 DEF BenefitDeltas, BenefitDelta
  <2>3. BenefitNets(u, b)' = BenefitNets(u, b)
    BY <1>2 DEF BenefitNets
  <2>4. benefit'[u][b] = benefit[u][b] + f[m]
    BY <1>6
  <2>5. benefit[u][b] + SumFunctionOnSet(f, Outstanding)
          = SumFunctionOnSet(EdgeWeight, BenefitNets(u, b))
    BY DEF BenefitSummed
  <2> HIDE DEF f, g
  <2>6. SumFunctionOnSet(f, Outstanding) = f[m] + SumFunctionOnSet(g, Outstanding')
    BY <1>3, <1>4, <2>1, <2>2, SumShrink
  <2>7. SumFunctionOnSet(g, Outstanding') \in Int
    <3>1. IsFiniteSet(Outstanding') /\ \A n \in Outstanding' : g[n] \in Int
      BY <1>3, <1>4, <2>1, <2>2, FS_RemoveElement
    <3> QED BY <3>1, SumInt
  <2>8. benefit[u][b] \in Int /\ f[m] \in Int
    BY <1>4, <2>1 DEF CacheTypeOK
  <2>9. benefit'[u][b] + SumFunctionOnSet(g, Outstanding')
          = SumFunctionOnSet(EdgeWeight, BenefitNets(u, b)')
    BY <2>3, <2>4, <2>5, <2>6, <2>7, <2>8
  <2> QED BY <2>9 DEF g
<1>9. ASSUME NEW u \in Nodes \ Moved
      PROVE  penalty'[u] + SumFunctionOnSet(PenaltyDeltas(u)', Outstanding')
               = SumFunctionOnSet(EdgeWeight, PenaltyNets(u)')
  <2> DEFINE f == PenaltyDeltas(u)
             g == PenaltyDeltas(u)'
  <2>1. \A n \in Outstanding : f[n] \in Int
    BY <1>1, <1>3, DeltaTypes
  <2>2. \A n \in Outstanding \ {m} : f[n] = g[n]
    BY <1>2, <1>3, <1>5 DEF PenaltyDeltas, PenaltyDelta
  <2>3. PenaltyNets(u)' = PenaltyNets(u)
    BY <1>2 DEF PenaltyNets
  <2>4. penalty'[u] = penalty[u] + f[m]
    BY <1>6
  <2>5. penalty[u] + SumFunctionOnSet(f, Outstanding)
          = SumFunctionOnSet(EdgeWeight, PenaltyNets(u))
    BY DEF PenaltySummed
  <2> HIDE DEF f, g
  <2>6. SumFunctionOnSet(f, Outstanding) = f[m] + SumFunctionOnSet(g, Outstanding')
    BY <1>3, <1>4, <2>1, <2>2, SumShrink
  <2>7. SumFunctionOnSet(g, Outstanding') \in Int
    <3>1. IsFiniteSet(Outstanding') /\ \A n \in Outstanding' : g[n] \in Int
      BY <1>3, <1>4, <2>1, <2>2, FS_RemoveElement
    <3> QED BY <3>1, SumInt
  <2>8. penalty[u] \in Int /\ f[m] \in Int
    BY <1>4, <2>1 DEF CacheTypeOK
  <2>9. penalty'[u] + SumFunctionOnSet(g, Outstanding')
          = SumFunctionOnSet(EdgeWeight, PenaltyNets(u)')
    BY <2>3, <2>4, <2>5, <2>6, <2>7, <2>8
  <2> QED BY <2>9 DEF g
<1> QED BY <1>4, <1>7, <1>8, <1>9 DEF BenefitSummed, PenaltySummed

-----------------------------------------------------------------------------
(* The objective *)

\* What each net costs, and what the movers have not added yet to the quality.
NetCosts == [e \in Edges |-> EdgeWeight[e] * (Cardinality(connectivity_set[e]) - 1)]
Gains == [m \in Movers |-> AttributedGain(update[m])]

QualitySummed ==
  quality + SumFunctionOnSet(Gains, Outstanding) = SumFunctionOnSet(NetCosts, Edges)

\* The objective and the gains, as sums over nets and movers.
LEMMA QualitySum == /\ Quality = SumFunctionOnSet(NetCosts, Edges)
                    /\ QualityTracked <=> QualitySummed
<1>1. Quality = SumFunctionOnSet(NetCosts, Edges)
  BY DEF Quality, NetCosts, MapThenSumSet, SumFunctionOnSet, FoldFunctionOnSet, MapThenFoldSet
<1>2. Outstanding \in SUBSET Movers
  BY DEF Outstanding
<1>3. MapThenSumSet(LAMBDA m : AttributedGain(update[m]), Outstanding) =
        SumFunctionOnSet(Gains, Outstanding)
  BY <1>2 DEF Gains, MapThenSumSet, SumFunctionOnSet, FoldFunctionOnSet, MapThenFoldSet
<1> QED BY <1>1, <1>3, Zenon DEF QualityTracked, QualitySummed

\* The costs of the nets and the gains are integers.
LEMMA CostTypes ==
  ASSUME PhgTypeOK
  PROVE  /\ \A e \in Edges : NetCosts[e] \in Int
         /\ \A e \in Edges : IsFiniteSet(connectivity_set[e]) /\ Cardinality(connectivity_set[e]) \in Nat
         /\ \A m \in Movers : Gains[m] \in Int
         /\ SumFunctionOnSet(NetCosts, Edges) \in Int
<1>1. ASSUME NEW e \in Edges
      PROVE  IsFiniteSet(connectivity_set[e]) /\ Cardinality(connectivity_set[e]) \in Nat
  <2>1. connectivity_set[e] \in SUBSET Blocks
    BY DEF PhgTypeOK
  <2>2. IsFiniteSet(connectivity_set[e])
    BY <2>1, FS_Subset, PartitionAssumption
  <2> QED BY <2>2, FS_CardinalityType
<1>2. ASSUME NEW e \in Edges PROVE NetCosts[e] \in Int
  <2>1. EdgeWeight[e] \in Int
    BY GainCacheAssumption
  <2> QED BY <1>1, <2>1 DEF NetCosts
<1>3. ASSUME NEW m \in Movers PROVE Gains[m] \in Int
  <2>1. update[m].he \in Edges
    BY DEF PhgTypeOK, Updates
  <2>2. EdgeWeight[update[m].he] \in Int
    BY <2>1, GainCacheAssumption
  <2> QED BY <2>2 DEF Gains, AttributedGain
<1>4. SumFunctionOnSet(NetCosts, Edges) \in Int
  BY <1>2, SumInt, PartitionAssumption
<1> QED BY <1>1, <1>2, <1>3, <1>4

\* An update of a net changes its cost by the gain that is attributed to the mover.
LEMMA QualityAtUpdate ==
  ASSUME PhgInv, QualitySummed, NEW m \in Movers, UpdatePinCount(m), PhgInv',
         UNCHANGED quality, quality \in Int
  PROVE  QualitySummed'
<1>1. PhgTypeOK /\ CallsDoNotOverlap /\ PhgTypeOK'
  BY DEF PhgInv
<1>2. PICK e \in Edges :
         /\ PinMoved(e, from[m], to[m])
         /\ update' = [update EXCEPT ![m] = [he |-> e, from_after |-> pin_count'[e][from[m]],
                                             to_after |-> pin_count'[e][to[m]]]]
         /\ pc[m] = "nets" /\ pc' = [pc EXCEPT ![m] = "delta"]
         /\ connectivity_set' = [connectivity_set EXCEPT ![e] =
              MoveBlock(connectivity_set[e], from[m], to[m], pin_count'[e][from[m]],
                        pin_count'[e][to[m]])]
  BY UpdateMovesPin
<1> DEFINE a == from[m]
           c == to[m]
           w == EdgeWeight[e]
           C == connectivity_set[e]
           x == pin_count'[e][a]
           y == pin_count'[e][c]
<1>3. IsFiniteSet(Outstanding) /\ Outstanding \in SUBSET Movers
  BY <1>1, OutstandingFinite
<1>4. m \notin Outstanding /\ Outstanding' = Outstanding \cup {m}
  BY <1>1, <1>2 DEF Outstanding, PhgTypeOK
<1>5. /\ update'[m] = [he |-> e, from_after |-> x, to_after |-> y]
      /\ \A n \in Outstanding : update'[n] = update[n]
  BY <1>1, <1>2, <1>3, <1>4 DEF PhgTypeOK
<1>6. /\ connectivity_set'[e] = (IF x = 0 THEN C \ {a} ELSE C) \cup (IF y = 1 THEN {c} ELSE {})
      /\ \A d \in Edges \ {e} : connectivity_set'[d] = connectivity_set[d]
  BY <1>1, <1>2 DEF PhgTypeOK, MoveBlock
<1>7. /\ a \in Blocks /\ c \in Blocks /\ a # c
      /\ x = pin_count[e][a] - 1 /\ y = pin_count[e][c] + 1
      /\ pin_count[e][a] \in Nat /\ pin_count[e][c] \in Nat /\ x \in Nat /\ y \in Nat
  BY <1>2 DEF PinMoved
<1>8. a \in C /\ (c \in C <=> y # 1)
  <2>1. \A b \in Blocks : b \in C <=> pin_count[e][b] > 0
    BY DEF PhgInv, PinCountsTracked
  <2> QED BY <1>7, <2>1
<1>9. IsFiniteSet(C) /\ Cardinality(C) \in Nat /\ w \in Int
  BY <1>1, CostTypes, GainCacheAssumption
<1>10. Cardinality(connectivity_set'[e]) =
         Cardinality(C) - (IF x = 0 THEN 1 ELSE 0) + (IF y = 1 THEN 1 ELSE 0)
  <2> DEFINE D == IF x = 0 THEN C \ {a} ELSE C
  <2>1. IsFiniteSet(D) /\ Cardinality(D) = Cardinality(C) - (IF x = 0 THEN 1 ELSE 0)
    <3>1. IsFiniteSet(C \ {a}) /\ Cardinality(C \ {a}) = Cardinality(C) - 1
      BY <1>8, <1>9, FS_RemoveElement
    <3> QED BY <1>9, <3>1
  <2>2. c \in D <=> y # 1
    BY <1>7, <1>8
  <2>3. connectivity_set'[e] = IF y = 1 THEN D \cup {c} ELSE D
    BY <1>6
  <2> HIDE DEF D, x, y, C, a, c
  <2>4. y = 1 => Cardinality(D \cup {c}) = Cardinality(D) + 1
    BY <2>1, <2>2, FS_AddElement
  <2>5. Cardinality(D) \in Int
    BY <1>9, <2>1
  <2> QED BY <1>9, <2>1, <2>3, <2>4, <2>5
<1>11. NetCosts'[e] = NetCosts[e] + Gains'[m]
  <2>1. Gains'[m] = (IF y = 1 THEN w ELSE 0) - (IF x = 0 THEN w ELSE 0)
    BY <1>5 DEF Gains, AttributedGain
  <2>2. /\ NetCosts[e] = w * (Cardinality(C) - 1)
        /\ NetCosts'[e] = w * (Cardinality(connectivity_set'[e]) - 1)
    BY DEF NetCosts
  <2>3. ASSUME NEW k \in Int, NEW v \in Int
        PROVE  /\ v * ((k - 1 + 1) - 1) = v * (k - 1)
               /\ v * ((k - 1 + 0) - 1) = v * (k - 1) - v
               /\ v * ((k - 0 + 1) - 1) = v * (k - 1) + v
               /\ v * ((k - 0 + 0) - 1) = v * (k - 1)
    OBVIOUS
  <2>4. w \in Int /\ Cardinality(C) \in Int
    BY <1>9
  <2> HIDE DEF x, y, w, C
  <2>5. CASE x = 0 /\ y = 1
    BY <1>10, <2>1, <2>2, <2>3, <2>4, <2>5
  <2>6. CASE x = 0 /\ y # 1
    BY <1>10, <2>1, <2>2, <2>3, <2>4, <2>6
  <2>7. CASE x # 0 /\ y = 1
    BY <1>10, <2>1, <2>2, <2>3, <2>4, <2>7
  <2>8. CASE x # 0 /\ y # 1
    BY <1>10, <2>1, <2>2, <2>3, <2>4, <2>8
  <2> QED BY <2>5, <2>6, <2>7, <2>8
<1>12. /\ \A d \in Edges : NetCosts[d] \in Int /\ NetCosts'[d] \in Int
       /\ \A d \in Edges \ {e} : NetCosts[d] = NetCosts'[d]
  <2>1. \A d \in Edges : NetCosts[d] \in Int
    BY <1>1, CostTypes
  <2>2. \A d \in Edges \ {e} : NetCosts[d] = NetCosts'[d]
    BY <1>6 DEF NetCosts
  <2>3. Gains'[m] \in Int
    BY <1>5, <1>9 DEF Gains, AttributedGain
  <2> QED BY <1>11, <2>1, <2>2, <2>3
<1>13. SumFunctionOnSet(NetCosts', Edges) =
         SumFunctionOnSet(NetCosts, Edges) - NetCosts[e] + NetCosts'[e]
  BY <1>12, SumChange, PartitionAssumption
<1>14. /\ \A n \in Outstanding : Gains[n] = Gains'[n] /\ Gains[n] \in Int
       /\ Gains'[m] \in Int
  <2>1. \A n \in Outstanding : Gains[n] \in Int
    BY <1>1, <1>3, CostTypes
  <2>2. \A n \in Outstanding : Gains[n] = Gains'[n]
    BY <1>3, <1>5 DEF Gains
  <2>3. Gains'[m] \in Int
    BY <1>5, <1>9 DEF Gains, AttributedGain
  <2> QED BY <2>1, <2>2, <2>3
<1>15. SumFunctionOnSet(Gains', Outstanding') = Gains'[m] + SumFunctionOnSet(Gains, Outstanding)
  BY <1>3, <1>4, <1>14, SumGrow
<1>16. SumFunctionOnSet(Gains, Outstanding) \in Int
  BY <1>3, <1>14, SumInt
<1>17. SumFunctionOnSet(NetCosts, Edges) \in Int
  BY <1>1, CostTypes
<1>18. quality + SumFunctionOnSet(Gains, Outstanding) = SumFunctionOnSet(NetCosts, Edges)
  BY DEF QualitySummed
<1>19. quality' = quality /\ NetCosts[e] \in Int
  BY <1>12
<1> HIDE DEF a, c, w, C, x, y
<1>20. quality' + SumFunctionOnSet(Gains', Outstanding') = SumFunctionOnSet(NetCosts', Edges)
  BY <1>11, <1>13, <1>14, <1>15, <1>16, <1>17, <1>18, <1>19
<1> QED BY <1>20 DEF QualitySummed

\* The delta function adds to the quality what the update took from the objective.
LEMMA QualityAtDelta ==
  ASSUME PhgInv, QualitySummed, NEW m \in Movers, DeltaFunctionWithCache(m), quality \in Int
  PROVE  QualitySummed' /\ quality' \in Int
<1>1. PhgTypeOK /\ CallsDoNotOverlap
  BY DEF PhgInv
<1>2. /\ pc[m] = "delta" /\ pc' = [pc EXCEPT ![m] = "nets"]
      /\ update' = [update EXCEPT ![m] = NoUpdate]
      /\ UNCHANGED connectivity_set
      /\ quality' = quality + Gains[m]
  BY DEF DeltaFunctionWithCache, DeltaFunction, Goto, partition, Gains
<1>3. IsFiniteSet(Outstanding) /\ Outstanding \in SUBSET Movers
  BY <1>1, OutstandingFinite
<1>4. m \in Outstanding /\ Outstanding' = Outstanding \ {m}
  BY <1>1, <1>2 DEF Outstanding, PhgTypeOK
<1>5. /\ \A n \in Outstanding : Gains[n] \in Int
      /\ \A n \in Outstanding \ {m} : Gains[n] = Gains'[n]
  <2>1. \A n \in Outstanding : Gains[n] \in Int
    BY <1>1, <1>3, CostTypes
  <2> QED BY <1>1, <1>2, <1>3, <2>1 DEF Gains, PhgTypeOK
<1>6. SumFunctionOnSet(Gains, Outstanding) = Gains[m] + SumFunctionOnSet(Gains', Outstanding')
  BY <1>3, <1>4, <1>5, SumShrink
<1>7. SumFunctionOnSet(Gains', Outstanding') \in Int
  <2>1. IsFiniteSet(Outstanding') /\ \A n \in Outstanding' : Gains'[n] \in Int
    BY <1>3, <1>4, <1>5, FS_RemoveElement
  <2> QED BY <2>1, SumInt
<1>8. NetCosts' = NetCosts
  BY <1>2 DEF NetCosts
<1>9. Gains[m] \in Int
  BY <1>4, <1>5
<1> QED BY <1>2, <1>6, <1>7, <1>8, <1>9 DEF QualitySummed

-----------------------------------------------------------------------------
(* The invariant *)

\* The terms of the cache and the reported objective, each as far as it is tracked.
CacheTerms == CacheTypeOK /\ BenefitSummed /\ PenaltySummed
Objective == quality \in Int /\ QualitySummed
CacheInv == CacheTerms /\ Objective

\* The cache is exact when it is initialized.
LEMMA InitCacheInv == Km1Init => CacheInv
<1> SUFFICES ASSUME Km1Init PROVE CacheInv
  OBVIOUS
<1>1. PhgInv /\ PhgTypeOK /\ CallsDoNotOverlap
  BY InitInv DEF Km1Init, PhgInv
<1>2. Outstanding = {} /\ Moved = {}
  BY DEF Km1Init, PhgInit, Outstanding, Moved
<1>3. ASSUME NEW u \in Nodes
      PROVE  penalty[u] = SumFunctionOnSet(EdgeWeight, PenaltyNets(u))
  BY EdgeWeightSum DEF Km1Init, InitializeGainCache, RecomputePenaltyTerm, PenaltyNets
<1>4. ASSUME NEW u \in Nodes, NEW b \in Blocks
      PROVE  benefit[u][b] = SumFunctionOnSet(EdgeWeight, BenefitNets(u, b))
  <2>1. benefit[u][b] = SumFunctionOnSet(EdgeWeight, {e \in IncidentEdges(u) : b \in connectivity_set[e]})
    BY EdgeWeightSum DEF Km1Init, InitializeGainCache
  <2>2. \A e \in Edges : b \in connectivity_set[e] <=> pin_count[e][b] >= 1
    <3>1. \A e \in Edges : pin_count[e][b] \in Nat /\ (b \in connectivity_set[e] <=> pin_count[e][b] > 0)
      BY <1>1 DEF PhgInv, PinCountsTracked, PhgTypeOK
    <3> QED BY <3>1
  <2>3. {e \in IncidentEdges(u) : b \in connectivity_set[e]} = BenefitNets(u, b)
    BY <2>2 DEF BenefitNets, IncidentEdges
  <2> QED BY <2>1, <2>3
<1>5. ASSUME NEW u \in Nodes, NEW b
      PROVE  /\ SumFunctionOnSet(EdgeWeight, PenaltyNets(u)) \in Int
             /\ SumFunctionOnSet(EdgeWeight, BenefitNets(u, b)) \in Int
  <2>1. PenaltyNets(u) \in SUBSET Edges /\ BenefitNets(u, b) \in SUBSET Edges
    BY DEF PenaltyNets, BenefitNets, IncidentEdges
  <2> QED BY <2>1, NetSums, PartitionAssumption
<1>6. \A f : SumFunctionOnSet(f, Outstanding) = 0
  BY <1>2, SumEmpty
<1>7. CacheTypeOK
  <2>1. \A u \in Nodes : penalty[u] \in Int
    BY <1>3, <1>5
  <2>2. \A u \in Nodes, b \in Blocks : benefit[u][b] \in Int
    BY <1>4, <1>5
  <2> QED BY <2>1, <2>2 DEF CacheTypeOK, Km1Init, InitializeGainCache
<1>8. BenefitSummed
  BY <1>4, <1>5, <1>6 DEF BenefitSummed
<1>9. PenaltySummed
  BY <1>3, <1>5, <1>6 DEF PenaltySummed
<1>10. quality \in Int /\ QualitySummed
  <2>1. quality = SumFunctionOnSet(NetCosts, Edges)
    BY QualitySum DEF Km1Init
  <2>2. SumFunctionOnSet(NetCosts, Edges) \in Int
    BY <1>1, CostTypes
  <2>3. SumFunctionOnSet(Gains, Outstanding) = 0
    BY <1>6
  <2> QED BY <2>1, <2>2, <2>3 DEF QualitySummed
<1> QED BY <1>7, <1>8, <1>9, <1>10 DEF CacheInv, CacheTerms, Objective

\* A step that leaves cache, nets and outstanding updates alone keeps the terms, and
\* the objective if the quality stays.
LEMMA QuietCache ==
  ASSUME PhgInv, CacheTerms, UNCHANGED <<penalty, benefit, pin_count, connectivity_set>>,
         moves' \in [Nodes -> Nat], Outstanding' = Outstanding,
         \A n \in Outstanding : from'[n] = from[n] /\ to'[n] = to[n] /\ update'[n] = update[n],
         \A u \in Nodes \ Moved' : u \notin Moved /\ part_ids'[u] = part_ids[u]
  PROVE  CacheTerms' /\ (Objective /\ UNCHANGED quality => Objective')
<1>1. PhgTypeOK /\ CallsDoNotOverlap
  BY DEF PhgInv
<1>2. BenefitSummed' /\ PenaltySummed'
  BY <1>1, CacheUntouched DEF CacheTerms
<1>3. IsFiniteSet(Outstanding) /\ Outstanding \in SUBSET Movers
  BY <1>1, OutstandingFinite
<1>4. SumFunctionOnSet(Gains', Outstanding) = SumFunctionOnSet(Gains, Outstanding)
  <2>1. \A n \in Outstanding : Gains'[n] = Gains[n]
    BY <1>3 DEF Gains
  <2> QED BY <1>3, <2>1, SumCongruence
<1>5. NetCosts' = NetCosts
  BY DEF NetCosts
<1> QED BY <1>2, <1>4, <1>5 DEF CacheTerms, CacheTypeOK, Objective, QualitySummed

\* The call of changeNodePart changes nothing of the cache.
LEMMA CallKeepsCache ==
  ASSUME PhgInv, CacheTerms, NEW m \in Movers, Call(m), UNCHANGED <<penalty, benefit, moves>>
  PROVE  CacheTerms' /\ (Objective /\ UNCHANGED quality => Objective')
<1>0. PhgTypeOK /\ CallsDoNotOverlap /\ moves \in [Nodes -> Nat]
  BY DEF PhgInv, CacheTerms, CacheTypeOK
<1>1. UNCHANGED <<partition, update>>
  BY DEF Call, ChangeNodePart
<1>2. pc[m] = "idle" /\ pc' = [pc EXCEPT ![m] = "add_weight"]
  BY DEF Call, ChangeNodePart, Goto
<1>3. Outstanding' = Outstanding /\ m \notin Outstanding
  BY <1>0, <1>2 DEF Outstanding, PhgTypeOK
<1>4. \A n \in Outstanding : from'[n] = from[n] /\ to'[n] = to[n] /\ update'[n] = update[n]
  BY <1>0, <1>1, <1>3 DEF Call, ChangeNodePart, Outstanding, PhgTypeOK
<1>5. Moved' = Moved
  BY DEF Moved
<1> QED BY <1>0, <1>1, <1>3, <1>4, <1>5, QuietCache DEF partition

\* The steps of a call other than its delta functions keep it, too.
LEMMA SilentKeepsCache ==
  ASSUME PhgInv, PhgInv', CacheTerms, NEW m \in Movers, SilentWithCache(m)
  PROVE  CacheTerms' /\ (Objective => Objective')
<1>0. PhgTypeOK /\ CallsDoNotOverlap /\ moves \in [Nodes -> Nat] /\ NodeOf[m] \in Nodes
  BY PartitionAssumption DEF PhgInv, CacheTerms, CacheTypeOK
<1>1. /\ UNCHANGED <<penalty, benefit, quality>>
      /\ moves' = [moves EXCEPT ![NodeOf[m]] = IF pc[m] = "set_part" THEN @ + 1 ELSE @]
      /\ Silent(m)
  BY DEF SilentWithCache, cacheVars
<1>2. moves' \in [Nodes -> Nat]
  BY <1>0, <1>1
<1>3. CASE UpdatePinCount(m)
  <2>1. Moved' = Moved
    BY <1>0, <1>1, <1>3 DEF UpdatePinCount, Moved
  <2>2. BenefitSummed' /\ PenaltySummed'
    BY <1>1, <1>3, <2>1, CacheAtUpdate DEF CacheTerms
  <2>3. Objective => Objective'
    BY <1>1, <1>3, QualityAtUpdate DEF Objective
  <2> QED BY <1>1, <1>2, <2>2, <2>3 DEF CacheTerms, CacheTypeOK
<1>4. CASE AddWeight(m) \/ UndoWeight(m) \/ SetPart(m) \/ SubWeight(m) \/ Return(m)
  <2>1. UNCHANGED <<pin_count, connectivity_set, from, to, update>>
    BY <1>4 DEF AddWeight, UndoWeight, SetPart, SubWeight, Return, partition
  <2>2. Outstanding' = Outstanding
    BY <1>0, <1>4 DEF AddWeight, UndoWeight, SetPart, SubWeight, Return, Goto, Outstanding,
                      PhgTypeOK
  <2>3. \A u \in Nodes \ Moved' : u \notin Moved /\ part_ids'[u] = part_ids[u]
    <3>1. CASE pc[m] = "set_part"
      <4>1. part_ids' = [part_ids EXCEPT ![NodeOf[m]] = to[m]]
        BY <1>4, <3>1 DEF AddWeight, UndoWeight, SetPart, SubWeight, Return
      <4>2. NodeOf[m] \in Moved' /\ \A u \in Nodes \ {NodeOf[m]} : moves'[u] = moves[u]
        BY <1>0, <1>1, <3>1 DEF Moved
      <4> QED BY <1>0, <4>1, <4>2 DEF Moved, PhgTypeOK
    <3>2. CASE pc[m] # "set_part"
      <4>1. part_ids' = part_ids /\ moves' = moves
        BY <1>0, <1>1, <1>4, <3>2 DEF AddWeight, UndoWeight, SetPart, SubWeight, Return, partition
      <4> QED BY <4>1 DEF Moved
    <3> QED BY <3>1, <3>2
  <2> QED BY <1>1, <1>2, <2>1, <2>2, <2>3, QuietCache
<1> QED BY <1>1, <1>3, <1>4 DEF Silent

\* When no move is under way, recomputing the terms of at least the moved nodes
\* leaves no term invalid.
LEMMA RecomputeKeepsTerms ==
  ASSUME CacheTerms, \A m \in Movers : pc[m] = "idle",
         NEW S \in SUBSET Nodes, Moved \subseteq S, RecomputeInvalidTerms(S),
         moves' = [u \in Nodes |-> 0], UNCHANGED <<phgVars, benefit>>
  PROVE  CacheTerms' /\ Moved' = {}
<1>1. Outstanding = {} /\ Outstanding' = {} /\ Moved' = {}
  BY DEF Outstanding, Moved, phgVars, callVars
<1>2. \A f : SumFunctionOnSet(f, Outstanding) = 0 /\ SumFunctionOnSet(f, Outstanding') = 0
  BY <1>1, SumEmpty
<1>3. ASSUME NEW u \in Nodes
      PROVE  penalty'[u] = SumFunctionOnSet(EdgeWeight, PenaltyNets(u)) /\ penalty'[u] \in Int
  <2>1. CASE u \in S
    <3>1. penalty'[u] = SumFunctionOnSet(EdgeWeight, PenaltyNets(u))
      BY <2>1, EdgeWeightSum DEF RecomputeInvalidTerms, RecomputePenaltyTerm, PenaltyNets
    <3>2. PenaltyNets(u) \in SUBSET Edges
      BY DEF PenaltyNets, IncidentEdges
    <3> QED BY <3>1, <3>2, NetSums, PartitionAssumption
  <2>2. CASE u \notin S
    <3>1. penalty'[u] = penalty[u] /\ penalty[u] \in Int
      BY <2>2 DEF RecomputeInvalidTerms, CacheTerms, CacheTypeOK
    <3>2. penalty[u] + SumFunctionOnSet(PenaltyDeltas(u), Outstanding)
            = SumFunctionOnSet(EdgeWeight, PenaltyNets(u))
      BY <2>2 DEF CacheTerms, PenaltySummed
    <3>3. SumFunctionOnSet(PenaltyDeltas(u), Outstanding) = 0
      BY <1>2
    <3> QED BY <3>1, <3>2, <3>3
  <2> QED BY <2>1, <2>2
<1>4. \A u \in Nodes : PenaltyNets(u)' = PenaltyNets(u)
  BY DEF PenaltyNets, phgVars, partition
<1>5. PenaltySummed'
  <2> SUFFICES ASSUME NEW u \in Nodes
               PROVE  penalty'[u] + SumFunctionOnSet(PenaltyDeltas(u)', Outstanding')
                        = SumFunctionOnSet(EdgeWeight, PenaltyNets(u)')
    BY DEF PenaltySummed
  <2>1. SumFunctionOnSet(PenaltyDeltas(u)', Outstanding') = 0
    BY <1>2
  <2> QED BY <1>3, <1>4, <2>1
<1>6. BenefitSummed'
  BY ZenonT(30) DEF CacheTerms, BenefitSummed, phgVars, partition, callVars, BenefitDeltas,
                    BenefitDelta, Outstanding, BenefitNets
<1>7. CacheTypeOK'
  <2>1. penalty' = [u \in Nodes |-> penalty'[u]]
    BY DEF RecomputeInvalidTerms
  <2> QED BY <1>3, <2>1 DEF CacheTerms, CacheTypeOK
<1> QED BY <1>1, <1>5, <1>6, <1>7 DEF CacheTerms

\* Every step keeps the invariant of the cache.
LEMMA CacheInvStep ==
  ASSUME PhgInv, PhgInv', CacheInv, [Km1Next]_km1Vars
  PROVE  CacheInv'
<1>0. CacheTerms /\ Objective /\ moves \in [Nodes -> Nat]
  BY DEF CacheInv, CacheTerms, CacheTypeOK
<1>1. ASSUME NEW m \in Movers, CallWithCache(m)
      PROVE  CacheInv'
  BY <1>0, <1>1, CallKeepsCache DEF CallWithCache, cacheVars, CacheInv
<1>2. ASSUME NEW m \in Movers, SilentWithCache(m)
      PROVE  CacheInv'
  BY <1>0, <1>2, SilentKeepsCache DEF CacheInv
<1>3. ASSUME NEW m \in Movers, DeltaFunctionWithCache(m)
      PROVE  CacheInv'
  <2>1. DeltaFunction(m) /\ DeltaGainUpdate(m) /\ UNCHANGED moves
    BY <1>3 DEF DeltaFunctionWithCache
  <2>2. CacheTerms'
    BY <1>0, <2>1, CacheAtDelta DEF CacheTerms
  <2> QED BY <1>0, <1>3, <2>2, QualityAtDelta DEF CacheInv, Objective
<1>4. CASE EndOfRound
  <2>1. PICK S \in SUBSET Nodes : Moved \subseteq S /\ RecomputeInvalidTerms(S)
    BY <1>4 DEF EndOfRound
  <2>2. /\ \A m \in Movers : pc[m] = "idle"
        /\ moves' = [u \in Nodes |-> 0]
        /\ UNCHANGED <<phgVars, benefit, quality>>
    BY <1>4 DEF EndOfRound
  <2>3. CacheTerms'
    BY <1>0, <2>1, <2>2, RecomputeKeepsTerms
  <2>4. Objective'
    BY <1>0, <2>2 DEF Objective, QualitySummed, phgVars, partition, callVars, Gains, NetCosts,
                      Outstanding
  <2> QED BY <2>3, <2>4 DEF CacheInv
<1>5. CASE UNCHANGED km1Vars
  <2>1. UNCHANGED <<penalty, benefit, quality, moves, part_ids, pin_count, connectivity_set,
                    pc, from, to, update>>
    BY <1>5 DEF km1Vars, phgVars, partition, callVars, cacheVars
  <2>2. Outstanding' = Outstanding /\ Moved' = Moved
    BY <2>1 DEF Outstanding, Moved
  <2> QED BY <1>0, <2>1, <2>2, QuietCache DEF CacheInv
<1> QED BY <1>1, <1>2, <1>3, <1>4, <1>5 DEF Km1Next

\* Benefit terms, penalty terms of nodes that did not move, and the objective are
\* exact up to outstanding updates, for every number of threads and every order in
\* which the delta gain updates of one net arrive (deltaGainUpdate, gain).
THEOREM CacheIsTracked == Km1Spec => []CacheTracked
<1>1. Km1Spec => []PhgInv
  BY CacheRefinesPartition, Tracking, PTL
<1>2. PhgInv /\ PhgInv' /\ CacheInv /\ [Km1Next]_km1Vars => CacheInv'
  BY CacheInvStep
<1>3. CacheInv => CacheTracked
  BY CacheSums, QualitySum DEF CacheInv, CacheTerms, Objective, CacheTracked
<1> QED BY <1>1, <1>2, <1>3, InitCacheInv, PTL DEF Km1Spec

\* With no move under way and no invalid term, the tracked terms are exact.
LEMMA TermsExact == CacheTerms => GainCacheExact
<1> SUFFICES ASSUME CacheTerms, Moved = {}, \A m \in Movers : pc[m] = "idle", NEW u \in Nodes
             PROVE  /\ penalty[u] = RecomputePenaltyTerm(u)
                    /\ \A b \in Blocks : benefit[u][b] = RecomputeBenefitTerm(u, b)
  BY DEF GainCacheExact
<1>1. Outstanding = {}
  BY DEF Outstanding
<1>2. \A f : SumFunctionOnSet(f, Outstanding) = 0
  BY <1>1, SumEmpty
<1>3. penalty[u] = RecomputePenaltyTerm(u)
  <2>1. penalty[u] + SumFunctionOnSet(PenaltyDeltas(u), Outstanding)
          = SumFunctionOnSet(EdgeWeight, PenaltyNets(u))
    BY DEF CacheTerms, PenaltySummed
  <2>2. SumFunctionOnSet(PenaltyDeltas(u), Outstanding) = 0 /\ penalty[u] \in Int
    BY <1>2 DEF CacheTerms, CacheTypeOK
  <2>3. RecomputePenaltyTerm(u) = SumFunctionOnSet(EdgeWeight, PenaltyNets(u))
    BY EdgeWeightSum DEF RecomputePenaltyTerm, PenaltyNets
  <2> QED BY <2>1, <2>2, <2>3
<1>4. ASSUME NEW b \in Blocks PROVE benefit[u][b] = RecomputeBenefitTerm(u, b)
  <2>1. benefit[u][b] + SumFunctionOnSet(BenefitDeltas(u, b), Outstanding)
          = SumFunctionOnSet(EdgeWeight, BenefitNets(u, b))
    BY DEF CacheTerms, BenefitSummed
  <2>2. SumFunctionOnSet(BenefitDeltas(u, b), Outstanding) = 0 /\ benefit[u][b] \in Int
    BY <1>2 DEF CacheTerms, CacheTypeOK
  <2>3. RecomputeBenefitTerm(u, b) = SumFunctionOnSet(EdgeWeight, BenefitNets(u, b))
    BY EdgeWeightSum DEF RecomputeBenefitTerm, BenefitNets
  <2> QED BY <2>1, <2>2, <2>3
<1> QED BY <1>3, <1>4

\* After a round, once the terms of the moved nodes were recomputed, the whole gain
\* cache is what initializeGainCache would compute (checkTrackedPartitionInformation).
THEOREM GainCacheIsExact == Km1Spec => []GainCacheExact
<1>1. CacheInv => GainCacheExact
  BY TermsExact DEF CacheInv
<1>2. Km1Spec => []PhgInv
  BY CacheRefinesPartition, Tracking, PTL
<1>3. PhgInv /\ PhgInv' /\ CacheInv /\ [Km1Next]_km1Vars => CacheInv'
  BY CacheInvStep
<1> QED BY <1>1, <1>2, <1>3, InitCacheInv, PTL DEF Km1Spec

-----------------------------------------------------------------------------
(* The invariant *)

\* No move is under way.
AllIdle == \A m \in Movers : pc[m] = "idle"

\* What is tracked of partition and cache, without the objective.
Tracked == PhgInv /\ WeightsSummed /\ CacheTerms

\* The types of the refiner.
LPTypeOK ==
  /\ phase \in {"move", "accept", "rebalance", "rollback", "done"}
  /\ active \subseteq Movers /\ was_moved \subseteq Movers
  /\ next_active \subseteq Nodes
  /\ old_part \in [Nodes -> Blocks]
  /\ step \in [Movers -> {"start", "rate", "moving", "reverting", "activate",
                          "check", "roll", "rolling", "done"}]

\* What is known of the calls even while a node is rolled back from two slots.
CallTypeOK ==
  /\ part_ids \in [Nodes -> Blocks]
  /\ pc \in [Movers -> MoverSteps]
  /\ from \in [Movers -> Blocks] /\ to \in [Movers -> Blocks]
  /\ changed \in [Movers -> BOOLEAN]
  /\ moves \in [Nodes -> Nat]

\* Only unconstrained label propagation rebalances, and only a rollback finds nodes
\* in two slots.
PhaseInv ==
  /\ Limited => phase \in {"move", "done"}
  /\ phase \in {"move", "accept", "rebalance"} => listed_twice = {}
  /\ phase \in {"accept", "rebalance", "done"} =>
       \A m \in Movers : step[m] \in {"start", "done"}

\* A rollback does not account for the objective.
TrackedInv ==
  listed_twice = {} => Tracked /\ (phase # "rollback" => Objective)

\* best_metrics describes _old_part.
BestInv == Unconstrained => best = MetricsOf(QualityOf(old_part), BlockWeights(old_part))

\* The iteration of a slot has called changeNodePart, or has not moved its node yet.
Moving(m) == step[m] \in {"moving", "reverting"}
BeforeMove(m) ==
  \/ step[m] \in {"start", "rate"}
  \/ step[m] = "moving" /\ pc[m] \in {"add_weight", "undo_weight", "set_part"}

\* A round moves the node of an active slot at most once before it reverts the move,
\* and knows where the node is when it does.
SlotInv(m) ==
  /\ m \notin active => step[m] = "start"
  /\ step[m] \notin {"check", "roll", "rolling"}
  /\ ~Moving(m) => pc[m] = "idle"
  /\ step[m] = "moving" /\ pc[m] = "idle" =>
       from[m] # to[m] /\ (changed[m] => part_ids[NodeOf[m]] = to[m])
  /\ m \in active /\ BeforeMove(m) => moves[NodeOf[m]] = 0
  /\ step[m] = "moving" => moves[NodeOf[m]] <= 1

\* What the round has done to a node is, or will be, noted in _active_node_was_moved.
Touched(u) == moves[u] > 0 \/ (Unconstrained /\ part_ids[u] # old_part[u])
Noted(u) ==
  \E m \in active : /\ NodeOf[m] = u
                    /\ Moving(m) \/ step[m] = "activate" \/ m \in was_moved

MoveInv ==
  phase = "move" =>
    /\ active \subseteq Nodes \X {"active"}
    /\ \A m \in Movers : SlotInv(m)
    /\ \A u \in Nodes : Touched(u) => Noted(u)

\* After the moves, and after the rebalancer.
SettledInv ==
  phase \in {"accept", "rebalance"} =>
    /\ AllIdle
    /\ moves = [u \in Nodes |-> 0]
    /\ \A u \in Nodes : part_ids[u] # old_part[u] => u \in MovedNodes

\* A slot has written the old block of its node, or found it there.
Restored(m) ==
  \/ step[m] = "rolling" /\ pc[m] \in {"sub_weight", "nets", "delta"}
  \/ step[m] = "done" /\ m \in was_moved

RollInv(m) ==
  /\ step[m] \in {"check", "roll", "rolling", "done"}
  /\ step[m] # "done" => m \in was_moved
  /\ step[m] # "rolling" => pc[m] = "idle"
  /\ step[m] = "rolling" =>
       to[m] = old_part[NodeOf[m]] /\ pc[m] \notin {"idle", "undo_weight"}
  /\ Restored(m) => part_ids[NodeOf[m]] = old_part[NodeOf[m]]

InTwoSlots == {u \in Nodes : {Slot(u, "active"), Slot(u, "rebalanced")} \subseteq was_moved}

RollbackInv ==
  phase = "rollback" =>
    /\ \A m \in Movers : RollInv(m)
    /\ \A u \in Nodes \ MovedNodes : part_ids[u] = old_part[u]
    /\ listed_twice = InTwoSlots
    /\ listed_twice = {} =>
         /\ Moved \subseteq MovedNodes
         /\ \A m \in Movers : step[m] = "roll" => part_ids[NodeOf[m]] # old_part[NodeOf[m]]

\* The refiner has returned.
DoneInv ==
  phase = "done" =>
    /\ AllIdle
    /\ moves = [u \in Nodes |-> 0]
    /\ best.quality = QualityOf(part_ids)
    /\ Unconstrained => part_ids = old_part

LPInv ==
  /\ LPTypeOK /\ CallTypeOK /\ PhaseInv /\ TrackedInv /\ BestInv
  /\ MoveInv /\ SettledInv /\ RollbackInv /\ DoneInv

-----------------------------------------------------------------------------
(* Slots *)

\* A mover is a slot of its node.
LEMMA Slots ==
  ASSUME NEW m \in Movers
  PROVE  /\ NodeOf[m] \in Nodes /\ m[2] \in {"active", "rebalanced"}
         /\ m = Slot(NodeOf[m], m[2])
BY LabelPropagationAssumption DEF Slot

\* A node has one active slot, and an active slot is a mover.
LEMMA ActiveSlots ==
  /\ \A m \in Movers, n \in Movers :
       m \in Nodes \X {"active"} /\ n \in Nodes \X {"active"} /\ NodeOf[m] = NodeOf[n] => m = n
  /\ \A u \in Nodes, k \in {"active", "rebalanced"} :
       Slot(u, k) \in Movers /\ NodeOf[Slot(u, k)] = u
<1>1. ASSUME NEW m \in Movers, NEW n \in Movers, m \in Nodes \X {"active"},
             n \in Nodes \X {"active"}, NodeOf[m] = NodeOf[n]
      PROVE  m = n
  <2>1. m[2] = "active" /\ n[2] = "active"
    BY <1>1
  <2> QED BY <1>1, <2>1, Slots
<1>2. ASSUME NEW u \in Nodes, NEW k \in {"active", "rebalanced"}
      PROVE  Slot(u, k) \in Movers /\ NodeOf[Slot(u, k)] = u
  BY LabelPropagationAssumption DEF Slot
<1> QED BY <1>1, <1>2

\* If no node is in two slots, a slot is known by its node.
LEMMA SingleSlots ==
  ASSUME InTwoSlots = {}, was_moved \subseteq Movers, NEW m \in was_moved, NEW n \in was_moved,
         NodeOf[m] = NodeOf[n]
  PROVE  m = n
<1>1. /\ m = Slot(NodeOf[m], m[2]) /\ n = Slot(NodeOf[m], n[2]) /\ NodeOf[m] \in Nodes
      /\ m[2] \in {"active", "rebalanced"} /\ n[2] \in {"active", "rebalanced"}
  BY Slots
<1>2. ~({Slot(NodeOf[m], "active"), Slot(NodeOf[m], "rebalanced")} \subseteq was_moved)
  BY <1>1 DEF InTwoSlots
<1>3. m[2] = n[2]
  BY <1>1, <1>2
<1> QED BY <1>1, <1>3

-----------------------------------------------------------------------------
(* Quality and weights of a partition *)

\* What a net costs in a partition.
CostsOf(parts) ==
  [e \in Edges |-> EdgeWeight[e] * (Cardinality({parts[u] : u \in Pins[e]}) - 1)]

\* The quality of a partition as a sum the lemmas about sums apply to.
LEMMA QualityOfSum ==
  ASSUME NEW parts \in [Nodes -> Blocks]
  PROVE  QualityOf(parts) = SumFunctionOnSet(CostsOf(parts), Edges) /\ QualityOf(parts) \in Int
<1>1. QualityOf(parts) = SumFunctionOnSet(CostsOf(parts), Edges)
  BY ZenonT(40) DEF QualityOf, CostsOf, MapThenSumSet, SumFunctionOnSet, FoldFunctionOnSet, MapThenFoldSet
<1>2. ASSUME NEW e \in Edges PROVE CostsOf(parts)[e] \in Int
  <2>1. {parts[u] : u \in Pins[e]} \in SUBSET Blocks
    BY PartitionAssumption
  <2>2. IsFiniteSet({parts[u] : u \in Pins[e]})
    BY <2>1, FS_Subset, PartitionAssumption
  <2>3. Cardinality({parts[u] : u \in Pins[e]}) \in Nat
    BY <2>2, FS_CardinalityType
  <2>4. EdgeWeight[e] \in Int
    BY GainCacheAssumption
  <2> QED BY <2>3, <2>4 DEF CostsOf
<1> QED BY <1>1, <1>2, SumInt, PartitionAssumption

\* The quality that the connectivity sets of a partition give.
LEMMA ComputedQuality ==
  ASSUME connectivity_set = ConnectivitySets(part_ids)
  PROVE  NetCosts = CostsOf(part_ids)
BY DEF ConnectivitySets, NetCosts, CostsOf

\* Without a move under way connectivity sets, quality and block weights are those
\* of the blocks of the nodes.
LEMMA IdleQuality ==
  ASSUME PhgInv, AllIdle
  PROVE  /\ connectivity_set = ConnectivitySets(part_ids)
         /\ Objective => quality = QualityOf(part_ids)
         /\ quality = QualityOf(part_ids) => Objective
         /\ WeightsSummed => \A b \in Blocks : part_weights[b] = BlockWeights(part_ids)[b]
<1>1. PhgTypeOK /\ part_ids \in [Nodes -> Blocks]
  BY DEF PhgInv, PhgTypeOK
<1>2. connectivity_set = ConnectivitySets(part_ids)
  <2>1. ASSUME NEW e \in Edges PROVE connectivity_set[e] = {part_ids[u] : u \in Pins[e]}
    <3>1. ASSUME NEW b \in Blocks
          PROVE  b \in connectivity_set[e] <=> \E u \in Pins[e] : part_ids[u] = b
      <4> DEFINE S == {u \in Pins[e] : part_ids[u] = b}
      <4>1. pin_count[e][b] = Cardinality(S) /\ (b \in connectivity_set[e] <=> pin_count[e][b] > 0)
        BY IdleExact DEF AllIdle, TrackedInformationExact, PinCounts
      <4>2. S \in SUBSET Pins[e]
        OBVIOUS
      <4>3. Cardinality(S) > 0 <=> S # {}
        BY <4>2, SomePinCounted
      <4> QED BY <4>1, <4>3
    <3>2. connectivity_set[e] \subseteq Blocks /\ \A u \in Pins[e] : part_ids[u] \in Blocks
      BY <1>1, PartitionAssumption DEF PhgTypeOK
    <3> QED BY <3>1, <3>2
  <2> QED BY <1>1, <2>1 DEF PhgTypeOK, ConnectivitySets
<1>3. Outstanding = {} /\ SumFunctionOnSet(Gains, Outstanding) = 0
  BY SumEmpty DEF AllIdle, Outstanding
<1>4. SumFunctionOnSet(NetCosts, Edges) = QualityOf(part_ids) /\ QualityOf(part_ids) \in Int
  BY <1>1, <1>2, ComputedQuality, QualityOfSum
<1>5. /\ Objective => quality = QualityOf(part_ids)
      /\ quality = QualityOf(part_ids) => Objective
  BY <1>3, <1>4 DEF Objective, QualitySummed
<1>6. ASSUME WeightsSummed, NEW b \in Blocks PROVE part_weights[b] = BlockWeights(part_ids)[b]
  <2>1. Pending(b) = {} /\ SumFunctionOnSet(MoverWeight, Pending(b)) = 0
    BY SumEmpty DEF AllIdle, Pending
  <2>2. SumFunctionOnSet(NodeWeight, InBlock(b)) \in Nat
    BY <1>1, SumTypes DEF PhgInv
  <2>3. BlockWeights(part_ids)[b] = SumFunctionOnSet(NodeWeight, InBlock(b))
    BY WeightSums
  <2> QED BY <1>6, <2>1, <2>2, <2>3 DEF WeightsSummed
<1> QED BY <1>2, <1>5, <1>6

\* Metrics look at the weights of the blocks.
LEMMA SameMetrics ==
  ASSUME NEW q, NEW v, NEW w, \A b \in Blocks : v[b] = w[b]
  PROVE  MetricsOf(q, v) = MetricsOf(q, w)
<1>1. Overloaded(v) = Overloaded(w)
  BY DEF Overloaded
<1>2. {v[b] : b \in Blocks} = {w[b] : b \in Blocks}
  OBVIOUS
<1>3. (\E b \in Blocks : v[b] = 0) <=> (\E b \in Blocks : w[b] = 0)
  OBVIOUS
<1> QED BY <1>1, <1>2, <1>3 DEF MetricsOf

\* The metrics of the partition when no move is under way.
LEMMA IdleMetrics ==
  ASSUME Tracked, Objective, AllIdle
  PROVE  MetricsOf(quality, part_weights) =
           MetricsOf(QualityOf(part_ids), BlockWeights(part_ids))
<1>1. /\ quality = QualityOf(part_ids)
      /\ \A b \in Blocks : part_weights[b] = BlockWeights(part_ids)[b]
  BY IdleQuality DEF Tracked
<1> QED BY <1>1, SameMetrics

-----------------------------------------------------------------------------
(* What the steps keep of partition and cache *)

\* A call is a step of the partition.
LEMMA CallTracked ==
  ASSUME Tracked, NEW m \in Movers, Call(m), UNCHANGED <<penalty, benefit, moves>>
  PROVE  Tracked' /\ (Objective /\ UNCHANGED quality => Objective')
<1>1. PhgInv /\ PhgTypeOK /\ CallsDoNotOverlap /\ WeightsSummed /\ CacheTerms
  BY DEF Tracked, PhgInv
<1>2. PhgInv'
  BY <1>1, InvStep DEF PhgNext
<1>3. WeightsSummed'
  BY <1>1, WeightsStep DEF Quiet
<1>4. CacheTerms' /\ (Objective /\ UNCHANGED quality => Objective')
  BY <1>1, CallKeepsCache
<1> QED BY <1>2, <1>3, <1>4 DEF Tracked

\* So are the steps of a call.
LEMMA SilentTracked ==
  ASSUME Tracked, NEW m \in Movers, SilentWithCache(m)
  PROVE  Tracked' /\ (Objective => Objective')
<1>1. PhgInv /\ PhgTypeOK /\ CallsDoNotOverlap /\ WeightsSummed /\ CacheTerms /\ Silent(m)
  BY DEF Tracked, PhgInv, SilentWithCache
<1>2. PhgInv'
  BY <1>1, InvStep DEF PhgNext
<1>3. WeightsSummed'
  BY <1>1, WeightsStep DEF Quiet, Silent
<1>4. CacheTerms' /\ (Objective => Objective')
  BY <1>1, <1>2, SilentKeepsCache
<1> QED BY <1>2, <1>3, <1>4 DEF Tracked

\* The delta function, whether the gain is accounted for or not.
LEMMA DeltaTracked ==
  ASSUME Tracked, NEW m \in Movers, DeltaFunction(m), DeltaGainUpdate(m), UNCHANGED moves
  PROVE  Tracked' /\ (Objective /\ DeltaFunctionWithCache(m) => Objective')
<1>1. PhgInv /\ PhgTypeOK /\ CallsDoNotOverlap /\ WeightsSummed /\ CacheTerms
  BY DEF Tracked, PhgInv
<1>2. PhgInv'
  BY <1>1, InvStep DEF PhgNext
<1>3. WeightsSummed'
  BY <1>1, WeightsStep DEF Quiet
<1>4. CacheTerms'
  BY <1>1, CacheAtDelta DEF CacheTerms
<1>5. Objective /\ DeltaFunctionWithCache(m) => Objective'
  BY <1>1, QualityAtDelta DEF Objective
<1> QED BY <1>2, <1>3, <1>4, <1>5 DEF Tracked

\* A step of the refiner that changes neither partition nor cache.
LEMMA SameTracked ==
  ASSUME UNCHANGED km1Vars
  PROVE  (Tracked => Tracked') /\ (Tracked /\ Objective => Objective')
<1> SUFFICES ASSUME Tracked PROVE Tracked' /\ (Objective => Objective')
  OBVIOUS
<1>1. UNCHANGED <<phgVars, penalty, benefit, quality, moves, part_ids, part_weights, pin_count,
                  connectivity_set, pc, from, to, update>>
  BY DEF km1Vars, phgVars, partition, callVars, cacheVars
<1>2. PhgInv'
  BY <1>1, InvStep DEF Tracked
<1>3. WeightsSummed'
  BY <1>1 DEF Tracked, WeightsSummed, InBlock, Pending
<1>4. Outstanding' = Outstanding /\ Moved' = Moved /\ moves' \in [Nodes -> Nat]
  BY <1>1 DEF Outstanding, Moved, Tracked, CacheTerms, CacheTypeOK
<1>5. CacheTerms' /\ (Objective => Objective')
  BY <1>1, <1>4, QuietCache DEF Tracked
<1> QED BY <1>2, <1>3, <1>5 DEF Tracked

\* The recomputation of the moved nodes at the end of a round.
LEMMA RecomputeTracked ==
  ASSUME Tracked, AllIdle, RecomputeMovedNodes, Moved \subseteq MovedNodes,
         was_moved \subseteq Movers
  PROVE  Tracked' /\ (Objective /\ UNCHANGED quality => Objective')
<1>1. /\ RecomputeInvalidTerms(MovedNodes) /\ moves' = [u \in Nodes |-> 0]
      /\ UNCHANGED <<phgVars, benefit>>
  BY DEF RecomputeMovedNodes
<1>2. UNCHANGED <<part_ids, part_weights, pin_count, connectivity_set, pc, from, to, update>>
  BY <1>1 DEF phgVars, partition, callVars
<1>3. MovedNodes \in SUBSET Nodes
  BY Slots DEF MovedNodes
<1>4. PhgInv'
  BY <1>1, InvStep DEF Tracked
<1>5. WeightsSummed'
  BY <1>2 DEF Tracked, WeightsSummed, InBlock, Pending
<1>6. CacheTerms'
  BY <1>1, <1>3, RecomputeKeepsTerms DEF Tracked, AllIdle
<1>7. Objective /\ UNCHANGED quality => Objective'
  BY <1>2 DEF Objective, QualitySummed, Gains, NetCosts, Outstanding
<1> QED BY <1>4, <1>5, <1>6, <1>7 DEF Tracked

-----------------------------------------------------------------------------
(* The rebalancer *)

\* Everything is computed from the blocks of the nodes.
Computed ==
  /\ part_ids \in [Nodes -> Blocks]
  /\ part_weights = BlockWeights(part_ids)
  /\ pin_count = PinCounts(part_ids)
  /\ connectivity_set = ConnectivitySets(part_ids)
  /\ penalty = [u \in Nodes |-> RecomputePenaltyTerm(u)]
  /\ benefit = [u \in Nodes |-> [b \in Blocks |-> RecomputeBenefitTerm(u, b)]]
  /\ quality = Quality
  /\ moves \in [Nodes -> Nat]
  /\ pc = [m \in Movers |-> "idle"]
  /\ from \in [Movers -> Blocks] /\ to \in [Movers -> Blocks]
  /\ update \in [Movers -> Updates] /\ changed \in [Movers -> BOOLEAN]
  /\ todo \in [Movers -> SUBSET Edges]
  /\ \A m \in Movers : todo[m] \subseteq IncidentEdges(NodeOf[m])

\* The pin counts and connectivity sets of a partition agree.
LEMMA ComputedPhg == Computed => PhgInv /\ AllIdle
<1> SUFFICES ASSUME Computed PROVE PhgInv /\ AllIdle
  OBVIOUS
<1>1. PinCounts(part_ids) \in [Edges -> [Blocks -> Nat]]
  <2> SUFFICES ASSUME NEW e \in Edges, NEW b \in Blocks
               PROVE  Cardinality({u \in Pins[e] : part_ids[u] = b}) \in Nat
    BY DEF PinCounts
  <2> QED BY PinsFinite
<1>2. ConnectivitySets(part_ids) \in [Edges -> SUBSET Blocks]
  BY PartitionAssumption DEF ConnectivitySets, Computed
<1>3. PhgTypeOK
  <2>1. DOMAIN part_weights = Blocks
    BY DEF Computed, BlockWeights
  <2>2. "idle" \in MoverSteps
    BY DEF MoverSteps
  <2> QED BY <1>1, <1>2, <2>1, <2>2 DEF Computed, PhgTypeOK
<1>4. CallsDoNotOverlap
  BY DEF Computed, CallsDoNotOverlap
<1>5. PinCountsTracked
  <2> SUFFICES ASSUME NEW e \in Edges, NEW b \in Blocks
               PROVE  /\ pin_count[e][b] = Cardinality({u \in Pins[e] : CountedIn(u, e, b)})
                      /\ b \in connectivity_set[e] <=> pin_count[e][b] > 0
    BY DEF PinCountsTracked
  <2> DEFINE S == {u \in Pins[e] : part_ids[u] = b}
  <2>1. \A u \in Pins[e] : CountedIn(u, e, b) <=> part_ids[u] = b
    BY DEF Computed, CountedIn, Behind
  <2>2. {u \in Pins[e] : CountedIn(u, e, b)} = S
    BY <2>1
  <2>3. pin_count[e][b] = Cardinality(S)
    BY DEF Computed, PinCounts
  <2>4. b \in connectivity_set[e] <=> S # {}
    BY DEF Computed, ConnectivitySets
  <2>5. S \in SUBSET Pins[e]
    OBVIOUS
  <2> HIDE DEF S
  <2> QED BY <2>2, <2>3, <2>4, <2>5, SomePinCounted
<1> QED BY <1>3, <1>4, <1>5 DEF PhgInv, AllIdle, Computed

\* What is computed is tracked.
LEMMA ComputedTracked == Computed => Tracked /\ Objective /\ AllIdle
<1> SUFFICES ASSUME Computed PROVE Tracked /\ Objective
  BY ComputedPhg
<1>1. PhgInv /\ PhgTypeOK /\ AllIdle
  BY ComputedPhg DEF PhgInv
<1>2. WeightsSummed
  <2> SUFFICES ASSUME NEW b \in Blocks
               PROVE  part_weights[b] = SumFunctionOnSet(NodeWeight, InBlock(b))
                                        + SumFunctionOnSet(MoverWeight, Pending(b))
    BY DEF WeightsSummed
  <2>1. Pending(b) = {} /\ SumFunctionOnSet(MoverWeight, Pending(b)) = 0
    BY <1>1, SumEmpty DEF AllIdle, Pending
  <2>2. SumFunctionOnSet(NodeWeight, InBlock(b)) \in Nat
    BY <1>1, SumTypes DEF PhgInv
  <2>3. part_weights[b] = SumFunctionOnSet(NodeWeight, InBlock(b))
    BY WeightSums DEF Computed
  <2> QED BY <2>1, <2>2, <2>3
<1>3. \A f : SumFunctionOnSet(f, Outstanding) = 0
  <2>1. Outstanding = {}
    BY <1>1 DEF AllIdle, Outstanding
  <2> QED BY <2>1, SumEmpty
<1>4. ASSUME NEW u \in Nodes
      PROVE  /\ penalty[u] = SumFunctionOnSet(EdgeWeight, PenaltyNets(u))
             /\ penalty[u] \in Int
  <2>1. PenaltyNets(u) \in SUBSET Edges
    BY DEF PenaltyNets, IncidentEdges
  <2>2. penalty[u] = SumFunctionOnSet(EdgeWeight, PenaltyNets(u))
    BY EdgeWeightSum DEF Computed, RecomputePenaltyTerm, PenaltyNets
  <2> QED BY <2>1, <2>2, NetSums, PartitionAssumption
<1>5. ASSUME NEW u \in Nodes, NEW b \in Blocks
      PROVE  /\ benefit[u][b] = SumFunctionOnSet(EdgeWeight, BenefitNets(u, b))
             /\ benefit[u][b] \in Int
  <2>1. BenefitNets(u, b) \in SUBSET Edges
    BY DEF BenefitNets, IncidentEdges
  <2>2. benefit[u][b] = SumFunctionOnSet(EdgeWeight, BenefitNets(u, b))
    BY EdgeWeightSum DEF Computed, RecomputeBenefitTerm, BenefitNets
  <2> QED BY <2>1, <2>2, NetSums, PartitionAssumption
<1>6. CacheTypeOK
  BY <1>4, <1>5 DEF CacheTypeOK, Computed
<1>7. BenefitSummed
  BY <1>3, <1>5 DEF BenefitSummed
<1>8. PenaltySummed
  BY <1>3, <1>4 DEF PenaltySummed
<1>9. Objective
  <2>1. quality = QualityOf(part_ids)
    <3>1. quality = SumFunctionOnSet(NetCosts, Edges)
      BY QualitySum DEF Computed
    <3>2. NetCosts = CostsOf(part_ids)
      BY ComputedQuality DEF Computed
    <3> QED BY <3>1, <3>2, QualityOfSum DEF Computed
  <2> QED BY <1>1, <2>1, IdleQuality
<1> QED BY <1>1, <1>2, <1>6, <1>7, <1>8, <1>9 DEF Tracked, CacheTerms

\* The rebalancer leaves a tracked partition.
LEMMA ApplyTracked ==
  ASSUME Tracked, AllIdle, NEW parts \in [Nodes -> Blocks], ApplyParts(parts)
  PROVE  Tracked' /\ Objective' /\ AllIdle' /\ Computed'
<1>1. PhgTypeOK /\ CallsDoNotOverlap /\ CacheTypeOK
  BY DEF Tracked, PhgInv, CacheTerms
<1>2. UNCHANGED <<pc, from, to, todo, update, changed, moves>>
  BY DEF ApplyParts, callVars
<1>3. pc = [m \in Movers |-> "idle"]
  BY <1>1 DEF AllIdle, PhgTypeOK
<1>4. Computed'
  BY <1>1, <1>2, <1>3 DEF ApplyParts, Computed, PhgTypeOK, CallsDoNotOverlap, CacheTypeOK
<1>5. Computed' => Tracked' /\ Objective' /\ AllIdle'
  BY ComputedTracked, PTL
<1> QED BY <1>4, <1>5

-----------------------------------------------------------------------------
(* The steps of a call *)

\* What a step of a call changes of the call and of the blocks of the nodes.
StepOf(m) ==
  /\ pc[m] # "idle" /\ pc' = [pc EXCEPT ![m] = pc'[m]] /\ pc'[m] \in MoverSteps
  /\ from' = from /\ to' = to
  /\ changed' = [changed EXCEPT ![m] = changed'[m]] /\ changed'[m] \in BOOLEAN
  /\ part_ids' = IF pc[m] = "set_part" THEN [part_ids EXCEPT ![NodeOf[m]] = to[m]] ELSE part_ids
  /\ pc[m] = "set_part" => pc'[m] = "sub_weight"
  /\ pc'[m] \in {"add_weight", "set_part", "undo_weight"} => pc[m] = "add_weight"
  /\ pc'[m] = "undo_weight" => Limited
  /\ pc'[m] \in {"nets", "delta"} => pc[m] \in {"sub_weight", "nets", "delta"}
  /\ pc'[m] = "sub_weight" => pc[m] = "set_part"
  /\ pc'[m] = "idle" => pc[m] = "undo_weight" \/ (pc[m] = "nets")
  /\ pc'[m] = "idle" /\ changed'[m] => pc[m] = "nets"

\* The steps of a call, and its delta functions, do this.
LEMMA StepsOfCalls ==
  ASSUME CallTypeOK, NEW m \in Movers, Silent(m) \/ DeltaFunction(m)
  PROVE  StepOf(m)
<1> USE DEF CallTypeOK, StepOf, Goto, MoverSteps, partition
<1>1. CASE AddWeight(m)
  BY <1>1 DEF AddWeight, Fits
<1>2. CASE UndoWeight(m)
  BY <1>2 DEF UndoWeight
<1>3. CASE SetPart(m)
  BY <1>3 DEF SetPart
<1>4. CASE SubWeight(m)
  BY <1>4 DEF SubWeight
<1>5. CASE UpdatePinCount(m)
  <2>1. /\ pc[m] = "nets" /\ pc' = [pc EXCEPT ![m] = "delta"]
        /\ UNCHANGED <<part_ids, part_weights, from, to, changed>>
    BY <1>5 DEF UpdatePinCount
  <2> QED BY <2>1
<1>6. CASE Return(m)
  BY <1>6 DEF Return
<1>7. CASE DeltaFunction(m)
  BY <1>7 DEF DeltaFunction
<1> QED BY <1>1, <1>2, <1>3, <1>4, <1>5, <1>6, <1>7 DEF Silent

\* They keep the types.
LEMMA StepTypes ==
  ASSUME CallTypeOK, NEW m \in Movers, StepOf(m), moves' \in [Nodes -> Nat]
  PROVE  CallTypeOK'
BY DEF CallTypeOK, StepOf

-----------------------------------------------------------------------------
(* moveVertex *)

\* A slot in the middle of its iteration, or of its rollback, tells the phase.
LEMMA PhaseOfStep ==
  ASSUME LPInv, NEW m \in Movers
  PROVE  /\ step[m] \in {"rate", "moving", "reverting", "activate"} =>
              phase = "move" /\ m \in active
         /\ step[m] \in {"check", "roll", "rolling"} => phase = "rollback" /\ m \in was_moved
<1>1. CASE phase = "move"
  BY <1>1 DEF LPInv, MoveInv, SlotInv
<1>2. CASE phase = "rollback"
  BY <1>2 DEF LPInv, RollbackInv, RollInv
<1>3. CASE phase \in {"accept", "rebalance", "done"}
  BY <1>3 DEF LPInv, PhaseInv
<1> QED BY <1>1, <1>2, <1>3 DEF LPInv, LPTypeOK

\* In a round nobody else moves the node of an active slot.
LEMMA RoundAlone ==
  ASSUME LPInv, phase = "move", NEW m \in active, NEW n \in Movers, n # m, NodeOf[n] = NodeOf[m]
  PROVE  n \notin active /\ step[n] = "start" /\ pc[n] = "idle"
<1>1. m \in Movers /\ active \subseteq Nodes \X {"active"} /\ SlotInv(n)
  BY DEF LPInv, LPTypeOK, MoveInv
<1>2. n \notin active
  BY <1>1, ActiveSlots
<1> QED BY <1>1, <1>2 DEF SlotInv, Moving

\* What has to be shown for a step of the iteration of slot m.
LEMMA MoveFrame ==
  ASSUME LPInv, phase = "move", UNCHANGED <<phase, active, old_part, best, listed_twice>>,
         NEW m \in active, next_active' \subseteq Nodes,
         was_moved \subseteq was_moved', was_moved' \subseteq was_moved \cup {m},
         NEW s \in {"rate", "moving", "reverting", "activate", "done"},
         step' = [step EXCEPT ![m] = s],
         CallTypeOK', Tracked', Objective',
         \A n \in Movers \ {m} : /\ pc'[n] = pc[n] /\ from'[n] = from[n] /\ to'[n] = to[n]
                                 /\ changed'[n] = changed[n],
         \A u \in Nodes \ {NodeOf[m]} : part_ids'[u] = part_ids[u] /\ moves'[u] = moves[u],
         SlotInv(m)',
         Touched(NodeOf[m])' => Noted(NodeOf[m])'
  PROVE  LPInv'
<1>0. /\ LPTypeOK /\ m \in Movers /\ NodeOf[m] \in Nodes
      /\ active \subseteq Nodes \X {"active"} /\ \A n \in Movers : SlotInv(n)
      /\ \A u \in Nodes : Touched(u) => Noted(u)
  BY Slots DEF LPInv, LPTypeOK, MoveInv
<1>1. LPTypeOK'
  BY <1>0 DEF LPTypeOK
<1>2. PhaseInv' /\ TrackedInv' /\ BestInv'
  BY DEF LPInv, PhaseInv, TrackedInv, BestInv
<1>3. SettledInv' /\ RollbackInv' /\ DoneInv'
  BY DEF SettledInv, RollbackInv, DoneInv
<1>4. ASSUME NEW n \in Movers PROVE SlotInv(n)'
  <2>1. CASE n = m
    BY <2>1
  <2>2. CASE n # m /\ NodeOf[n] # NodeOf[m]
    <3>1. /\ step'[n] = step[n] /\ pc'[n] = pc[n] /\ from'[n] = from[n] /\ to'[n] = to[n]
          /\ changed'[n] = changed[n] /\ NodeOf[n] \in Nodes \ {NodeOf[m]}
      BY <1>0, <2>2, Slots DEF LPTypeOK
    <3>2. part_ids'[NodeOf[n]] = part_ids[NodeOf[n]] /\ moves'[NodeOf[n]] = moves[NodeOf[n]]
      BY <3>1
    <3> QED BY <1>0, <3>1, <3>2 DEF SlotInv, Moving, BeforeMove
  <2>3. CASE n # m /\ NodeOf[n] = NodeOf[m]
    <3>1. n \notin active /\ step[n] = "start" /\ pc[n] = "idle"
      BY <2>3, RoundAlone
    <3>2. step'[n] = "start" /\ pc'[n] = "idle"
      BY <1>0, <2>3, <3>1 DEF LPTypeOK
    <3> QED BY <3>1, <3>2 DEF SlotInv, Moving
  <2> QED BY <2>1, <2>2, <2>3
<1>5. ASSUME NEW u \in Nodes, Touched(u)' PROVE Noted(u)'
  <2>1. CASE u = NodeOf[m]
    BY <1>5, <2>1
  <2>2. CASE u # NodeOf[m]
    <3>1. Touched(u)
      BY <1>5, <2>2 DEF Touched
    <3>2. PICK n \in active : NodeOf[n] = u /\ (Moving(n) \/ step[n] = "activate" \/ n \in was_moved)
      BY <1>0, <3>1 DEF Noted
    <3>3. n # m /\ n \in Movers /\ step'[n] = step[n]
      BY <1>0, <2>2, <3>2 DEF LPTypeOK
    <3> QED BY <3>2, <3>3 DEF Noted, Moving
  <2> QED BY <2>1, <2>2
<1>6. MoveInv'
  BY <1>0, <1>4, <1>5 DEF MoveInv
<1> QED BY <1>1, <1>2, <1>3, <1>6 DEF LPInv

\* An iteration that does not touch the partition in this step.
LEMMA MoveFrameQuiet ==
  ASSUME LPInv, phase = "move", UNCHANGED <<phase, active, old_part, best, listed_twice>>,
         NEW m \in active, next_active' \subseteq Nodes,
         was_moved \subseteq was_moved', was_moved' \subseteq was_moved \cup {m},
         NEW s \in {"rate", "activate", "done"},
         step' = [step EXCEPT ![m] = s], UNCHANGED km1Vars, pc[m] = "idle",
         s = "rate" => moves[NodeOf[m]] = 0,
         ~Touched(NodeOf[m]) \/ s = "activate" \/ m \in was_moved'
  PROVE  LPInv'
<1>0. /\ LPTypeOK /\ CallTypeOK /\ m \in Movers /\ NodeOf[m] \in Nodes
      /\ Tracked /\ Objective
  BY Slots DEF LPInv, LPTypeOK, PhaseInv, TrackedInv
<1>1. UNCHANGED <<part_ids, pc, from, to, changed, moves>>
  BY DEF km1Vars, phgVars, partition, callVars
<1>2. CallTypeOK' /\ Tracked' /\ Objective'
  BY <1>0, <1>1, SameTracked DEF CallTypeOK
<1>3. step'[m] = s
  BY <1>0 DEF LPTypeOK
<1>4. SlotInv(m)'
  BY <1>1, <1>3 DEF SlotInv, BeforeMove, Moving
<1>5. Touched(NodeOf[m])' => Noted(NodeOf[m])'
  BY <1>1, <1>3 DEF Touched, Noted
<1> QED BY <1>0, <1>1, <1>2, <1>4, <1>5, MoveFrame

\* moveVertex begins, or returns at once.
LEMMA StartStep ==
  ASSUME LPInv, NEW m \in Movers, StartMoveVertex(m)
  PROVE  LPInv'
<1>1. /\ phase = "move" /\ m \in active /\ step[m] = "start"
      /\ UNCHANGED <<km1Vars, phase, active, next_active, old_part, best, listed_twice>>
  BY DEF StartMoveVertex, At
<1>2. next_active \subseteq Nodes /\ pc[m] = "idle" /\ moves[NodeOf[m]] = 0
  BY <1>1 DEF LPInv, LPTypeOK, MoveInv, SlotInv, Moving, BeforeMove
<1>3. Touched(NodeOf[m]) => m \in was_moved
  <2>1. Touched(NodeOf[m]) => Noted(NodeOf[m])
    BY <1>1, Slots DEF LPInv, MoveInv
  <2>2. \A n \in active : NodeOf[n] = NodeOf[m] => n = m
    BY <1>1, RoundAlone DEF LPInv, LPTypeOK
  <2> QED BY <1>1, <2>1, <2>2 DEF Noted, Moving
<1>4. PICK s \in {"rate", "done"} : step' = [step EXCEPT ![m] = s] /\ was_moved' = was_moved
  BY DEF StartMoveVertex, ReturnFromMoveVertex, Proceed
<1> QED BY <1>1, <1>2, <1>3, <1>4, MoveFrameQuiet

\* precomputeGains changes nothing that the invariant is about.
LEMMA RateStep ==
  ASSUME LPInv, NEW m \in Movers, RateNet(m)
  PROVE  LPInv'
<1>1. phase = "move" /\ m \in active /\ step[m] = "rate"
  BY PhaseOfStep DEF RateNet, At
<1>2. UNCHANGED <<km1Vars, phase, active, next_active, old_part, best, listed_twice, was_moved, step>>
  BY DEF RateNet, roundVars
<1>3. next_active \subseteq Nodes /\ pc[m] = "idle" /\ moves[NodeOf[m]] = 0
  BY <1>1 DEF LPInv, LPTypeOK, MoveInv, SlotInv, Moving, BeforeMove
<1>4. Touched(NodeOf[m]) => m \in was_moved
  <2>1. Touched(NodeOf[m]) => Noted(NodeOf[m])
    BY <1>1, Slots DEF LPInv, MoveInv
  <2>2. \A n \in active : NodeOf[n] = NodeOf[m] => n = m
    BY <1>1, RoundAlone DEF LPInv, LPTypeOK
  <2> QED BY <1>1, <2>1, <2>2 DEF Noted, Moving
<1>5. step' = [step EXCEPT ![m] = "rate"]
  BY <1>1, <1>2 DEF LPInv, LPTypeOK
<1> QED BY <1>1, <1>2, <1>3, <1>4, <1>5, MoveFrameQuiet

\* A call in a round is one that a refiner may make.
LEMMA RoundCall ==
  ASSUME LPInv, phase = "move", NEW m \in active, pc[m] = "idle", NEW b \in Blocks,
         b # part_ids[NodeOf[m]], ChangeNodePart(m, part_ids[NodeOf[m]], b),
         UNCHANGED <<penalty, benefit, quality, moves>>
  PROVE  /\ Call(m) /\ CallTypeOK' /\ Tracked' /\ Objective'
         /\ pc' = [pc EXCEPT ![m] = "add_weight"] /\ to' = [to EXCEPT ![m] = b]
         /\ from' = [from EXCEPT ![m] = part_ids[NodeOf[m]]]
         /\ UNCHANGED <<part_ids, changed>>
<1>0. CallTypeOK /\ m \in Movers /\ NodeOf[m] \in Nodes /\ Tracked /\ Objective
  BY Slots DEF LPInv, LPTypeOK, PhaseInv, TrackedInv
<1>1. \A n \in Movers : NodeOf[n] = NodeOf[m] => pc[n] = "idle"
  BY RoundAlone
<1>2. Call(m)
  BY <1>1 DEF Call
<1>3. /\ pc' = [pc EXCEPT ![m] = "add_weight"] /\ to' = [to EXCEPT ![m] = b]
      /\ from' = [from EXCEPT ![m] = part_ids[NodeOf[m]]]
      /\ UNCHANGED <<part_ids, changed>>
  BY DEF ChangeNodePart, Goto, partition
<1>4. CallTypeOK'
  BY <1>0, <1>3 DEF CallTypeOK, MoverSteps
<1> QED BY <1>0, <1>2, <1>3, <1>4, CallTracked

\* computeMaxGainMoveForScores returns a block.
LEMMA BestMovesType ==
  ASSUME CallTypeOK, NEW m \in Movers, NEW mv \in BestMoves(m)
  PROVE  mv.to \in Blocks
<1> DEFINE u == NodeOf[m]
           g == [b \in Blocks |-> isolated[m] - scores[m][b]]
           feasible == {b \in Blocks \ {part_ids[u]} :
                          scores[m][b] > 0 /\ Fits(b, part_weights[b] + NodeWeight[u])}
           top == Min({0} \union {g[b] : b \in feasible})
<1>1. mv \in {[to |-> b, gain |-> top] : b \in {c \in feasible : g[c] = top}}
               \union (IF top = 0 THEN {[to |-> part_ids[u], gain |-> 0]} ELSE {})
  BY DEF BestMoves
<1>2. feasible \subseteq Blocks /\ part_ids[u] \in Blocks
  BY Slots DEF CallTypeOK
<1> HIDE DEF u, g, feasible, top
<1> QED BY <1>1, <1>2

\* The call of a move, or the decision to stay.
LEMMA ComputeStep ==
  ASSUME LPInv, NEW m \in Movers, ComputeMaxGainMove(m)
  PROVE  LPInv'
<1>1. phase = "move" /\ m \in active /\ step[m] = "rate"
  BY PhaseOfStep DEF ComputeMaxGainMove, At
<1>2. UNCHANGED <<penalty, benefit, quality, moves, phase, active, next_active, old_part, best,
                  listed_twice>>
  BY DEF ComputeMaxGainMove, cacheVars
<1>3. /\ next_active \subseteq Nodes /\ pc[m] = "idle" /\ moves[NodeOf[m]] = 0
      /\ LPTypeOK /\ CallTypeOK
  BY <1>1 DEF LPInv, LPTypeOK, MoveInv, SlotInv, Moving, BeforeMove
<1>4. PICK mv \in BestMoves(m) :
        IF PerformMove(part_ids[NodeOf[m]], mv)
        THEN /\ ChangeNodePart(m, part_ids[NodeOf[m]], mv.to)
             /\ Proceed(m, "moving") /\ UNCHANGED was_moved
        ELSE ReturnFromMoveVertex(m, FALSE) /\ UNCHANGED phgVars
  BY DEF ComputeMaxGainMove
<1>5. mv.to \in Blocks
  BY <1>3, BestMovesType
<1>6. CASE PerformMove(part_ids[NodeOf[m]], mv)
  <2>1. mv.to # part_ids[NodeOf[m]]
    BY <1>6 DEF PerformMove
  <2>2. /\ ChangeNodePart(m, part_ids[NodeOf[m]], mv.to) /\ was_moved' = was_moved
        /\ step' = [step EXCEPT ![m] = "moving"]
    BY <1>4, <1>6 DEF Proceed
  <2>3. /\ CallTypeOK' /\ Tracked' /\ Objective'
        /\ pc' = [pc EXCEPT ![m] = "add_weight"] /\ to' = [to EXCEPT ![m] = mv.to]
        /\ from' = [from EXCEPT ![m] = part_ids[NodeOf[m]]]
        /\ UNCHANGED <<part_ids, changed>>
    BY <1>1, <1>2, <1>3, <1>5, <2>1, <2>2, RoundCall
  <2>4. /\ pc'[m] = "add_weight" /\ step'[m] = "moving"
        /\ \A n \in Movers \ {m} : pc'[n] = pc[n] /\ from'[n] = from[n] /\ to'[n] = to[n]
    BY <1>3, <2>2, <2>3 DEF CallTypeOK, LPTypeOK
  <2>5. SlotInv(m)'
    BY <1>1, <1>2, <1>3, <2>4 DEF SlotInv, Moving, BeforeMove
  <2>6. Noted(NodeOf[m])'
    BY <1>1, <1>2, <2>4 DEF Noted, Moving
  <2> QED BY <1>1, <1>2, <1>3, <2>2, <2>3, <2>4, <2>5, <2>6, MoveFrame
<1>7. CASE ~PerformMove(part_ids[NodeOf[m]], mv)
  <2>1. step' = [step EXCEPT ![m] = "done"] /\ was_moved' = was_moved /\ UNCHANGED km1Vars
    BY <1>2, <1>4, <1>7 DEF ReturnFromMoveVertex, Proceed, km1Vars, cacheVars
  <2>2. Touched(NodeOf[m]) => m \in was_moved
    <3>1. Touched(NodeOf[m]) => Noted(NodeOf[m])
      BY <1>1, Slots DEF LPInv, MoveInv
    <3>2. \A n \in active : NodeOf[n] = NodeOf[m] => n = m
      BY <1>1, RoundAlone DEF LPInv, LPTypeOK
    <3> QED BY <1>1, <3>1, <3>2 DEF Noted, Moving
  <2> QED BY <1>1, <1>2, <1>3, <2>1, <2>2, MoveFrameQuiet
<1> QED BY <1>6, <1>7

\* A step of the call of a move, or of its revert.
LEMMA CallStep ==
  ASSUME LPInv, NEW m \in Movers, MoveStep(m)
  PROVE  LPInv'
<1>0. /\ phase = "move" /\ m \in active /\ Moving(m) /\ LPTypeOK /\ CallTypeOK
      /\ Tracked /\ Objective /\ NodeOf[m] \in Nodes /\ SlotInv(m)
  <2>1. Moving(m)
    BY DEF MoveStep, At, Moving
  <2>2. phase = "move" /\ m \in active
    BY <2>1, PhaseOfStep DEF Moving
  <2> QED BY <2>1, <2>2, Slots DEF LPInv, PhaseInv, TrackedInv, MoveInv
<1>1. UNCHANGED <<phase, active, next_active, old_part, best, listed_twice, was_moved, step>>
  BY DEF MoveStep, roundVars
<1>2. /\ Tracked' /\ Objective' /\ (Silent(m) \/ DeltaFunction(m))
      /\ moves' = [moves EXCEPT ![NodeOf[m]] = IF pc[m] = "set_part" THEN @ + 1 ELSE @]
  <2>1. CASE SilentWithCache(m)
    BY <1>0, <2>1, SilentTracked DEF SilentWithCache
  <2>2. CASE DeltaFunctionWithCache(m)
    <3>1. DeltaFunction(m) /\ DeltaGainUpdate(m) /\ UNCHANGED moves /\ pc[m] = "delta"
      BY <2>2 DEF DeltaFunctionWithCache, DeltaFunction
    <3> QED BY <1>0, <2>2, <3>1, DeltaTracked DEF CallTypeOK
  <2> QED BY <2>1, <2>2 DEF MoveStep
<1>3. StepOf(m)
  BY <1>0, <1>2, StepsOfCalls
<1>4. /\ moves' \in [Nodes -> Nat] /\ \A u \in Nodes \ {NodeOf[m]} : moves'[u] = moves[u]
      /\ moves'[NodeOf[m]] = IF pc[m] = "set_part" THEN moves[NodeOf[m]] + 1 ELSE moves[NodeOf[m]]
  BY <1>0, <1>2 DEF CallTypeOK
<1>5. CallTypeOK'
  BY <1>0, <1>3, <1>4, StepTypes
<1>6. /\ \A n \in Movers \ {m} : /\ pc'[n] = pc[n] /\ from'[n] = from[n] /\ to'[n] = to[n]
                                 /\ changed'[n] = changed[n]
      /\ \A u \in Nodes \ {NodeOf[m]} : part_ids'[u] = part_ids[u]
  BY <1>0, <1>3 DEF CallTypeOK, StepOf
<1>7. SlotInv(m)'
  <2>1. step'[m] = step[m] /\ active' = active /\ from' = from /\ to' = to
    BY <1>1, <1>3 DEF StepOf
  <2>2. step[m] = "moving" /\ pc'[m] = "idle" =>
          from[m] # to[m] /\ (changed'[m] => part_ids'[NodeOf[m]] = to[m])
    BY <1>0, <1>3 DEF StepOf, Tracked, PhgInv, CallsDoNotOverlap
  <2>3. step[m] = "moving" /\ pc'[m] \in {"add_weight", "undo_weight", "set_part"} =>
          moves'[NodeOf[m]] = 0
    BY <1>0, <1>3, <1>4 DEF StepOf, SlotInv, BeforeMove
  <2>4. step[m] = "moving" => moves'[NodeOf[m]] <= 1
    <3>1. step[m] = "moving" /\ pc[m] = "set_part" => moves[NodeOf[m]] = 0
      BY <1>0 DEF SlotInv, BeforeMove
    <3> QED BY <1>0, <1>4, <3>1 DEF SlotInv
  <2> QED BY <1>0, <2>1, <2>2, <2>3, <2>4 DEF SlotInv, BeforeMove, Moving
<1>8. Noted(NodeOf[m])'
  BY <1>0, <1>1 DEF Noted, Moving
<1>9. PICK s \in {"moving", "reverting"} : step' = [step EXCEPT ![m] = s]
  BY <1>0, <1>1 DEF LPTypeOK, Moving
<1>10. next_active' \subseteq Nodes
  BY <1>0, <1>1 DEF LPTypeOK
<1>11. UNCHANGED <<phase, active, old_part, best, listed_twice>> /\ was_moved' = was_moved
  BY <1>1
<1>12. \A u \in Nodes \ {NodeOf[m]} : part_ids'[u] = part_ids[u] /\ moves'[u] = moves[u]
  BY <1>4, <1>6
<1>13. Tracked' /\ Objective'
  BY <1>2
<1> QED BY <1>0, <1>5, <1>6, <1>7, <1>8, <1>9, <1>10, <1>11, <1>12, <1>13, MoveFrame

\* The call has returned: the move is kept, or reverted with another call.
LEMMA ReturnStep ==
  ASSUME LPInv, NEW m \in Movers, MoveReturns(m)
  PROVE  LPInv'
<1>1. phase = "move" /\ m \in active /\ step[m] = "moving" /\ pc[m] = "idle"
  BY PhaseOfStep DEF MoveReturns, At
<1>2. UNCHANGED <<penalty, benefit, quality, moves, phase, active, next_active, old_part, best,
                  listed_twice>>
  BY DEF MoveReturns, cacheVars
<1>3. /\ next_active \subseteq Nodes /\ LPTypeOK /\ CallTypeOK /\ SlotInv(m)
  BY <1>1 DEF LPInv, LPTypeOK, MoveInv
<1>4. CASE UNCHANGED phgVars /\ ReturnFromMoveVertex(m, TRUE)
  <2>1. step' = [step EXCEPT ![m] = "done"] /\ was_moved' = was_moved \union {m} /\ UNCHANGED km1Vars
    BY <1>2, <1>4 DEF ReturnFromMoveVertex, Proceed, km1Vars, cacheVars
  <2> QED BY <1>1, <1>2, <1>3, <2>1, MoveFrameQuiet
<1>5. CASE UNCHANGED phgVars /\ Proceed(m, "activate") /\ UNCHANGED was_moved
  <2>1. step' = [step EXCEPT ![m] = "activate"] /\ was_moved' = was_moved /\ UNCHANGED km1Vars
    BY <1>2, <1>5 DEF Proceed, km1Vars, cacheVars
  <2> QED BY <1>1, <1>2, <1>3, <2>1, MoveFrameQuiet
<1>6. CASE /\ changed[m] /\ ChangeNodePart(m, to[m], from[m])
           /\ Proceed(m, "reverting") /\ UNCHANGED was_moved
  <2>1. part_ids[NodeOf[m]] = to[m] /\ from[m] # to[m] /\ from[m] \in Blocks
    BY <1>1, <1>3, <1>6 DEF SlotInv, CallTypeOK
  <2>2. /\ CallTypeOK' /\ Tracked' /\ Objective'
        /\ pc' = [pc EXCEPT ![m] = "add_weight"] /\ to' = [to EXCEPT ![m] = from[m]]
        /\ from' = [from EXCEPT ![m] = part_ids[NodeOf[m]]]
        /\ UNCHANGED <<part_ids, changed>>
    BY <1>1, <1>2, <1>6, <2>1, RoundCall
  <2>3. step' = [step EXCEPT ![m] = "reverting"] /\ was_moved' = was_moved
    BY <1>6 DEF Proceed
  <2>4. /\ pc'[m] = "add_weight" /\ step'[m] = "reverting"
        /\ \A n \in Movers \ {m} : pc'[n] = pc[n] /\ from'[n] = from[n] /\ to'[n] = to[n]
    BY <1>3, <2>2, <2>3 DEF CallTypeOK, LPTypeOK
  <2>5. SlotInv(m)'
    BY <1>1, <1>2, <2>4 DEF SlotInv, Moving, BeforeMove
  <2>6. Noted(NodeOf[m])'
    BY <1>1, <1>2, <2>4 DEF Noted, Moving
  <2> QED BY <1>1, <1>2, <1>3, <2>2, <2>3, <2>4, <2>5, <2>6, MoveFrame
<1> QED BY <1>4, <1>5, <1>6 DEF MoveReturns

\* The iteration ends after a revert, or after it has activated the neighbors.
LEMMA EndStep ==
  ASSUME LPInv, NEW m \in Movers, RevertReturns(m) \/ Activate(m)
  PROVE  LPInv'
<1>1. phase = "move" /\ m \in active /\ step[m] \in {"reverting", "activate"}
  BY PhaseOfStep DEF RevertReturns, Activate, At
<1>2. /\ UNCHANGED <<km1Vars, phase, active, old_part, best, listed_twice>>
      /\ step' = [step EXCEPT ![m] = "done"] /\ was_moved' = was_moved \union {m}
  BY DEF RevertReturns, Activate, ReturnFromMoveVertex, Proceed
<1>3. pc[m] = "idle"
  BY <1>1 DEF LPInv, MoveInv, SlotInv, Moving, RevertReturns, Activate, At
<1>4. next_active' \subseteq Nodes
  <2>1. next_active \subseteq Nodes /\ NodeOf[m] \in Nodes
    BY Slots DEF LPInv, LPTypeOK
  <2>2. Activated({NodeOf[m]}) \subseteq Nodes
    BY PartitionAssumption DEF Activated, IncidentEdges
  <2> QED BY <2>1, <2>2 DEF RevertReturns, Activate
<1> QED BY <1>1, <1>2, <1>3, <1>4, MoveFrameQuiet

-----------------------------------------------------------------------------
(* The end of a round *)

\* When all slots have returned no move is under way, and all that was done to a
\* node is noted.
LEMMA RoundReturned ==
  ASSUME LPInv, phase = "move", AllReturned
  PROVE  /\ AllIdle /\ Moved \subseteq MovedNodes /\ MovedNodes \subseteq Nodes
         /\ \A m \in Movers : step[m] \in {"start", "done"}
         /\ Unconstrained => \A u \in Nodes : part_ids[u] # old_part[u] => u \in MovedNodes
<1>1. \A m \in Movers : step[m] \in {"start", "done"} /\ pc[m] = "idle"
  BY DEF LPInv, MoveInv, SlotInv, AllReturned, At, Moving
<1>2. \A u \in Nodes : Touched(u) => u \in MovedNodes
  <2> SUFFICES ASSUME NEW u \in Nodes, Touched(u) PROVE u \in MovedNodes
    OBVIOUS
  <2>1. PICK m \in active : NodeOf[m] = u /\ (Moving(m) \/ step[m] = "activate" \/ m \in was_moved)
    BY DEF LPInv, MoveInv, Noted
  <2>2. step[m] = "done"
    BY DEF AllReturned, At
  <2> QED BY <2>1, <2>2 DEF Moving, MovedNodes
<1>3. MovedNodes \subseteq Nodes
  BY Slots DEF MovedNodes, LPInv, LPTypeOK
<1> QED BY <1>1, <1>2, <1>3 DEF AllIdle, Moved, Touched

\* The next round begins, or there is none.
LEMMA NextRoundInv ==
  ASSUME NEW improvement, NEW nodes \in SUBSET Nodes, NextRound(improvement, nodes),
         old_part' \in [Nodes -> Blocks], CallTypeOK', Tracked', Objective', AllIdle',
         listed_twice' = {}, BestInv',
         moves' = [u \in Nodes |-> 0],
         best'.quality = QualityOf(part_ids'),
         Unconstrained => part_ids' = old_part'
  PROVE  LPInv'
<1>1. /\ active' = {Slot(u, "active") : u \in nodes}
      /\ phase' \in {"move", "done"}
      /\ next_active' = {} /\ was_moved' = {}
      /\ step' = [m \in Movers |-> "start"]
  BY DEF NextRound
<1>2. active' \subseteq Movers /\ active' \subseteq Nodes \X {"active"}
  <2>1. \A u \in nodes : Slot(u, "active") \in Movers
    BY ActiveSlots
  <2>2. \A u \in nodes : Slot(u, "active") \in Nodes \X {"active"}
    BY DEF Slot
  <2> QED BY <1>1, <2>1, <2>2
<1>3. LPTypeOK'
  BY <1>1, <1>2 DEF LPTypeOK
<1>4. PhaseInv' /\ TrackedInv'
  BY <1>1 DEF PhaseInv, TrackedInv
<1>5. \A m \in Movers : SlotInv(m)'
  <2> SUFFICES ASSUME NEW m \in Movers PROVE SlotInv(m)'
    OBVIOUS
  <2>1. step'[m] = "start" /\ pc'[m] = "idle" /\ moves'[NodeOf[m]] = 0
    BY <1>1, Slots DEF AllIdle
  <2> QED BY <2>1 DEF SlotInv, Moving
<1>6. \A u \in Nodes : ~Touched(u)'
  BY DEF Touched
<1>7. MoveInv'
  BY <1>2, <1>5, <1>6 DEF MoveInv
<1>8. SettledInv' /\ RollbackInv' /\ DoneInv'
  BY <1>1 DEF SettledInv, RollbackInv, DoneInv
<1> QED BY <1>3, <1>4, <1>7, <1>8 DEF LPInv

\* A round of constrained label propagation.
LEMMA FinishStep ==
  ASSUME LPInv, FinishRound
  PROVE  LPInv'
<1>1. /\ phase = "move" /\ AllReturned /\ Limited /\ RecomputeMovedNodes
      /\ best' = MetricsOf(quality, part_weights)
      /\ NextRound(best.quality - quality, next_active)
      /\ UNCHANGED <<quality, old_part, listed_twice>>
  BY DEF FinishRound, Unconstrained
<1>2. /\ Tracked /\ Objective /\ listed_twice = {} /\ next_active \in SUBSET Nodes
      /\ was_moved \subseteq Movers /\ old_part \in [Nodes -> Blocks] /\ CallTypeOK
  BY <1>1 DEF LPInv, PhaseInv, TrackedInv, LPTypeOK
<1>3. AllIdle /\ Moved \subseteq MovedNodes
  BY <1>1, RoundReturned
<1>4. Tracked' /\ Objective'
  BY <1>1, <1>2, <1>3, RecomputeTracked
<1>5. UNCHANGED <<part_ids, pc, from, to, changed>> /\ moves' = [u \in Nodes |-> 0]
  BY <1>1 DEF RecomputeMovedNodes, phgVars, partition, callVars
<1>6. CallTypeOK' /\ AllIdle'
  BY <1>2, <1>3, <1>5 DEF CallTypeOK, AllIdle
<1>7. best'.quality = QualityOf(part_ids')
  <2>1. quality = QualityOf(part_ids)
    BY <1>2, <1>3, IdleQuality DEF Tracked
  <2>2. MetricsOf(quality, part_weights).quality = quality
    BY DEF MetricsOf
  <2> QED BY <1>1, <1>5, <2>1, <2>2
<1>8. BestInv'
  BY <1>1 DEF BestInv, Unconstrained
<1> QED BY <1>1, <1>2, <1>4, <1>5, <1>6, <1>7, <1>8, NextRoundInv DEF Unconstrained

\* The moves of a round of unconstrained label propagation.
LEMMA FinishMovesStep ==
  ASSUME LPInv, FinishUnconstrainedMoves
  PROVE  LPInv'
<1>1. /\ phase = "move" /\ AllReturned /\ Unconstrained /\ RecomputeMovedNodes
      /\ phase' \in {"accept", "rebalance"}
      /\ UNCHANGED <<quality, active, next_active, was_moved, old_part, best, listed_twice, step>>
  BY DEF FinishUnconstrainedMoves, iterVars
<1>2. /\ Tracked /\ Objective /\ listed_twice = {} /\ was_moved \subseteq Movers
      /\ LPTypeOK /\ CallTypeOK /\ BestInv
  BY <1>1 DEF LPInv, PhaseInv, TrackedInv, LPTypeOK
<1>3. /\ AllIdle /\ Moved \subseteq MovedNodes
      /\ \A m \in Movers : step[m] \in {"start", "done"}
      /\ \A u \in Nodes : part_ids[u] # old_part[u] => u \in MovedNodes
  BY <1>1, RoundReturned
<1>4. Tracked' /\ Objective'
  BY <1>1, <1>2, <1>3, RecomputeTracked
<1>5. UNCHANGED <<part_ids, pc, from, to, changed>> /\ moves' = [u \in Nodes |-> 0]
  BY <1>1 DEF RecomputeMovedNodes, phgVars, partition, callVars
<1>6. LPTypeOK' /\ CallTypeOK' /\ BestInv'
  BY <1>1, <1>2, <1>5 DEF LPTypeOK, CallTypeOK, BestInv
<1>7. PhaseInv' /\ TrackedInv'
  BY <1>1, <1>2, <1>3, <1>4 DEF PhaseInv, TrackedInv, Unconstrained
<1>8. SettledInv'
  BY <1>1, <1>3, <1>5 DEF SettledInv, AllIdle, MovedNodes
<1>9. MoveInv' /\ RollbackInv' /\ DoneInv'
  BY <1>1 DEF MoveInv, RollbackInv, DoneInv
<1> QED BY <1>6, <1>7, <1>8, <1>9 DEF LPInv

\* The rebalancer moves nodes to blocks.
LEMMA RebalancedType == RebalancedParts \subseteq [Nodes -> Blocks]
BY DEF RebalancedParts, UnloadedParts

\* The round is rebalanced: every node that is not in its old block is in a slot.
LEMMA RebalanceStep ==
  ASSUME LPInv, ApplyRebalancing
  PROVE  LPInv'
<1>0. PICK parts \in RebalancedParts :
        LET slots == {Slot(u, "rebalanced") : u \in
                        {v \in Nodes : parts[v] # part_ids[v] /\ part_ids[v] = old_part[v]}}
        IN  ApplyParts(parts) /\ active' = active \union slots /\ was_moved' = was_moved \union slots
  BY DEF ApplyRebalancing
<1> DEFINE appended == {Slot(u, "rebalanced") : u \in
                          {v \in Nodes : parts[v] # part_ids[v] /\ part_ids[v] = old_part[v]}}
<1>1. /\ parts \in [Nodes -> Blocks] /\ ApplyParts(parts)
      /\ active' = active \union appended
      /\ was_moved' = was_moved \union appended
  BY <1>0, RebalancedType
<1>2. phase = "rebalance" /\ UNCHANGED <<next_active, old_part, best>>
  BY DEF ApplyRebalancing
<1>3. /\ LPTypeOK /\ CallTypeOK /\ Unconstrained /\ listed_twice = {} /\ Tracked /\ AllIdle
      /\ moves = [u \in Nodes |-> 0] /\ BestInv
      /\ \A u \in Nodes : part_ids[u] # old_part[u] => u \in MovedNodes
  BY <1>2 DEF LPInv, PhaseInv, TrackedInv, SettledInv, Unconstrained
<1>4. Tracked' /\ Objective' /\ AllIdle'
  BY <1>1, <1>3, ApplyTracked
<1>5. part_ids' = parts /\ UNCHANGED <<pc, from, to, changed, moves>>
  BY <1>1 DEF ApplyParts, callVars
<1>6. CallTypeOK'
  BY <1>1, <1>3, <1>5 DEF CallTypeOK
<1>7. appended \subseteq Movers /\ \A u \in Nodes :
        parts[u] # part_ids[u] /\ part_ids[u] = old_part[u] =>
          Slot(u, "rebalanced") \in appended /\ NodeOf[Slot(u, "rebalanced")] = u
  BY ActiveSlots
<1> HIDE DEF appended
<1>8. \A u \in Nodes : part_ids'[u] # old_part'[u] => u \in MovedNodes'
  <2> SUFFICES ASSUME NEW u \in Nodes, parts[u] # old_part[u]
               PROVE  \E m \in was_moved' : NodeOf[m] = u
    BY <1>2, <1>5 DEF MovedNodes
  <2>1. CASE part_ids[u] # old_part[u]
    BY <1>1, <1>3, <2>1 DEF MovedNodes
  <2>2. CASE part_ids[u] = old_part[u]
    BY <1>1, <1>7, <2>2
  <2> QED BY <2>1, <2>2
<1>9. PICK better \in BOOLEAN :
        /\ phase' = IF better THEN "accept" ELSE "rollback"
        /\ step' = [m \in Movers |-> IF ~better /\ m \in was_moved' THEN "check" ELSE "done"]
        /\ listed_twice' = IF better THEN {} ELSE InTwoSlots'
  BY DEF ApplyRebalancing, InTwoSlots
<1>10. LPTypeOK'
  BY <1>1, <1>2, <1>3, <1>7, <1>9 DEF LPTypeOK
<1>11. BestInv' /\ MoveInv' /\ DoneInv'
  BY <1>2, <1>3, <1>9 DEF BestInv, MoveInv, DoneInv
<1>12. PhaseInv' /\ TrackedInv'
  BY <1>3, <1>4, <1>9 DEF PhaseInv, TrackedInv, Unconstrained
<1>13. SettledInv'
  BY <1>3, <1>4, <1>5, <1>8 DEF SettledInv
<1>14. RollbackInv'
  <2> SUFFICES ASSUME ~better PROVE RollbackInv'
    BY <1>9 DEF RollbackInv
  <2>1. \A m \in Movers : RollInv(m)'
    BY <1>4, <1>9 DEF RollInv, Restored, AllIdle
  <2>2. \A u \in Nodes \ MovedNodes' : part_ids'[u] = old_part'[u]
    BY <1>8
  <2>3. Moved' = {}
    BY <1>3, <1>5 DEF Moved
  <2>4. \A m \in Movers : step'[m] # "roll"
    BY <1>9
  <2> QED BY <1>9, <2>1, <2>2, <2>3, <2>4 DEF RollbackInv
<1> QED BY <1>6, <1>10, <1>11, <1>12, <1>13, <1>14 DEF LPInv

\* A round is kept: its blocks are the old blocks of the next one.
LEMMA AcceptStep ==
  ASSUME LPInv, AcceptRound
  PROVE  LPInv'
<1>1. /\ phase = "accept"
      /\ old_part' = [u \in Nodes |-> IF u \in MovedNodes THEN part_ids[u] ELSE old_part[u]]
      /\ best' = MetricsOf(quality, part_weights)
      /\ NextRound(best.quality - quality,
                   {u \in Activated(MovedNodes) : part_ids[u] = old_part'[u]})
      /\ UNCHANGED <<km1Vars, listed_twice>>
  BY DEF AcceptRound
<1>2. /\ CallTypeOK /\ listed_twice = {} /\ Tracked /\ Objective /\ AllIdle /\ Unconstrained
      /\ moves = [u \in Nodes |-> 0]
      /\ \A u \in Nodes : part_ids[u] # old_part[u] => u \in MovedNodes
  BY <1>1 DEF LPInv, PhaseInv, TrackedInv, SettledInv, Unconstrained
<1>3. UNCHANGED <<part_ids, part_weights, quality, pc, from, to, changed, moves>>
  BY <1>1 DEF km1Vars, phgVars, partition, callVars
<1>4. old_part' = part_ids /\ old_part' \in [Nodes -> Blocks]
  BY <1>1, <1>2 DEF CallTypeOK
<1>5. Tracked' /\ Objective' /\ CallTypeOK' /\ AllIdle'
  BY <1>1, <1>2, <1>3, SameTracked DEF CallTypeOK, AllIdle
<1>6. best' = MetricsOf(QualityOf(part_ids), BlockWeights(part_ids))
  BY <1>1, <1>2, IdleMetrics
<1>7. BestInv' /\ best'.quality = QualityOf(part_ids')
  BY <1>3, <1>4, <1>6 DEF BestInv, MetricsOf
<1>8. {u \in Activated(MovedNodes) : part_ids[u] = old_part'[u]} \in SUBSET Nodes
  BY PartitionAssumption DEF Activated, IncidentEdges
<1> QED BY <1>1, <1>2, <1>3, <1>4, <1>5, <1>7, <1>8, NextRoundInv

-----------------------------------------------------------------------------
(* Rollback *)

\* What has to be shown for a step of the rollback of slot m.
LEMMA RollFrame ==
  ASSUME LPInv, phase = "rollback", NEW m \in was_moved,
         UNCHANGED <<phase, active, next_active, was_moved, old_part, best, listed_twice>>,
         NEW s \in {"check", "roll", "rolling", "done"}, step' = [step EXCEPT ![m] = s],
         CallTypeOK', listed_twice = {} => Tracked',
         \A n \in Movers \ {m} : pc'[n] = pc[n] /\ to'[n] = to[n],
         \A u \in Nodes \ {NodeOf[m]} : part_ids'[u] = part_ids[u] /\ moves'[u] = moves[u],
         part_ids'[NodeOf[m]] \in {part_ids[NodeOf[m]], old_part[NodeOf[m]]},
         RollInv(m)',
         listed_twice = {} /\ s = "roll" => part_ids'[NodeOf[m]] # old_part[NodeOf[m]]
  PROVE  LPInv'
<1>0. /\ LPTypeOK /\ m \in Movers /\ NodeOf[m] \in Nodes /\ PhaseInv /\ BestInv
      /\ \A n \in Movers : RollInv(n)
      /\ \A u \in Nodes \ MovedNodes : part_ids[u] = old_part[u]
      /\ listed_twice = InTwoSlots
      /\ listed_twice = {} =>
           /\ Moved \subseteq MovedNodes
           /\ \A n \in Movers : step[n] = "roll" => part_ids[NodeOf[n]] # old_part[NodeOf[n]]
  BY Slots DEF LPInv, LPTypeOK, RollbackInv
<1>1. LPTypeOK'
  BY <1>0 DEF LPTypeOK
<1>2. PhaseInv' /\ BestInv' /\ TrackedInv'
  BY <1>0 DEF PhaseInv, BestInv, TrackedInv
<1>3. MoveInv' /\ SettledInv' /\ DoneInv'
  BY DEF MoveInv, SettledInv, DoneInv
<1>4. ASSUME NEW n \in Movers PROVE RollInv(n)'
  <2>1. CASE n = m
    BY <2>1
  <2>2. CASE n # m
    <3>1. step'[n] = step[n] /\ pc'[n] = pc[n] /\ to'[n] = to[n]
      BY <1>0, <2>2 DEF LPTypeOK
    <3>2. part_ids'[NodeOf[n]] \in {part_ids[NodeOf[n]], old_part[NodeOf[n]]}
      BY Slots
    <3> QED BY <1>0, <3>1, <3>2 DEF RollInv, Restored
  <2> QED BY <2>1, <2>2
<1>5. MovedNodes' = MovedNodes /\ NodeOf[m] \in MovedNodes /\ InTwoSlots' = InTwoSlots
  BY DEF MovedNodes, InTwoSlots
<1>6. \A u \in Nodes \ MovedNodes' : part_ids'[u] = old_part'[u]
  BY <1>0, <1>5
<1>7. ASSUME listed_twice = {}
      PROVE  /\ Moved' \subseteq MovedNodes'
             /\ \A n \in Movers : step'[n] = "roll" => part_ids'[NodeOf[n]] # old_part'[NodeOf[n]]
  <2>1. Moved' \subseteq MovedNodes'
    BY <1>0, <1>5, <1>7 DEF Moved
  <2>2. ASSUME NEW n \in Movers, step'[n] = "roll"
        PROVE  part_ids'[NodeOf[n]] # old_part'[NodeOf[n]]
    <3>1. CASE n = m
      BY <1>0, <1>7, <2>2, <3>1 DEF LPTypeOK
    <3>2. CASE n # m
      <4>1. step[n] = "roll"
        BY <1>0, <2>2, <3>2 DEF LPTypeOK
      <4>2. n \in was_moved
        BY <1>0, <4>1 DEF RollInv
      <4>3. NodeOf[n] # NodeOf[m]
        BY <1>0, <1>7, <3>2, <4>2, SingleSlots DEF LPTypeOK
      <4>4. part_ids'[NodeOf[n]] = part_ids[NodeOf[n]]
        BY <4>3, Slots
      <4> QED BY <1>0, <1>7, <4>1, <4>4
    <3> QED BY <3>1, <3>2
  <2> QED BY <2>1, <2>2
<1>8. RollbackInv'
  BY <1>0, <1>4, <1>5, <1>6, <1>7 DEF RollbackInv
<1> QED BY <1>1, <1>2, <1>3, <1>8 DEF LPInv

\* A slot looks whether its node has left its old block.
LEMMA RollCheckStep ==
  ASSUME LPInv, NEW m \in Movers, RollbackCheck(m)
  PROVE  LPInv'
<1>1. phase = "rollback" /\ step[m] = "check" /\ m \in was_moved
  BY PhaseOfStep DEF RollbackCheck, At
<1>2. UNCHANGED <<km1Vars, phase, active, next_active, was_moved, old_part, best, listed_twice>>
  BY DEF RollbackCheck, roundVars
<1>3. UNCHANGED <<part_ids, pc, from, to, changed, moves>>
  BY <1>2 DEF km1Vars, phgVars, partition, callVars
<1>4. PICK s \in {"roll", "done"} :
        /\ step' = [step EXCEPT ![m] = s]
        /\ s = IF part_ids[NodeOf[m]] # old_part[NodeOf[m]] THEN "roll" ELSE "done"
  BY DEF RollbackCheck, Proceed
<1>5. LPTypeOK /\ CallTypeOK /\ RollInv(m) /\ (listed_twice = {} => Tracked)
  BY <1>1 DEF LPInv, RollbackInv, TrackedInv
<1>6. CallTypeOK' /\ (listed_twice = {} => Tracked')
  BY <1>2, <1>3, <1>5, SameTracked DEF CallTypeOK
<1>7. RollInv(m)'
  <2>1. step'[m] = s
    BY <1>4, <1>5 DEF LPTypeOK
  <2> QED BY <1>1, <1>2, <1>3, <1>4, <1>5, <2>1 DEF RollInv, Restored
<1> QED BY <1>1, <1>2, <1>3, <1>4, <1>6, <1>7, RollFrame

\* It calls changeNodePart with the block that it finds then.
LEMMA RollCallStep ==
  ASSUME LPInv, NEW m \in Movers, RollbackCall(m)
  PROVE  LPInv'
<1>1. phase = "rollback" /\ step[m] = "roll" /\ m \in was_moved
  BY PhaseOfStep DEF RollbackCall, At
<1>2. UNCHANGED <<penalty, benefit, quality, moves, phase, active, next_active, was_moved,
                  old_part, best, listed_twice>>
  BY DEF RollbackCall, roundVars, cacheVars
<1>3. /\ LPTypeOK /\ CallTypeOK /\ (listed_twice = {} => Tracked) /\ NodeOf[m] \in Nodes
      /\ \A n \in Movers : RollInv(n)
      /\ listed_twice = InTwoSlots
      /\ listed_twice = {} => part_ids[NodeOf[m]] # old_part[NodeOf[m]]
  BY <1>1, Slots DEF LPInv, RollbackInv, TrackedInv
<1>4. /\ ChangeNodePart(m, part_ids[NodeOf[m]], old_part[NodeOf[m]])
      /\ step' = [step EXCEPT ![m] = "rolling"]
  BY DEF RollbackCall, Proceed
<1>5. /\ pc' = [pc EXCEPT ![m] = "add_weight"]
      /\ from' = [from EXCEPT ![m] = part_ids[NodeOf[m]]]
      /\ to' = [to EXCEPT ![m] = old_part[NodeOf[m]]]
      /\ UNCHANGED <<part_ids, changed>>
  BY <1>4 DEF ChangeNodePart, Goto, partition
<1>6. CallTypeOK'
  BY <1>2, <1>3, <1>5 DEF CallTypeOK, LPTypeOK, MoverSteps
<1>7. ASSUME listed_twice = {} PROVE Tracked'
  <2>1. \A n \in Movers : NodeOf[n] = NodeOf[m] => pc[n] = "idle"
    <3> SUFFICES ASSUME NEW n \in Movers, NodeOf[n] = NodeOf[m], pc[n] # "idle" PROVE FALSE
      OBVIOUS
    <3>1. step[n] = "rolling" /\ n \in was_moved
      BY <1>3 DEF RollInv
    <3>2. n = m
      BY <1>1, <1>3, <1>7, <3>1, SingleSlots DEF LPTypeOK
    <3> QED BY <1>1, <3>1, <3>2
  <2>2. old_part[NodeOf[m]] \in Blocks \ {part_ids[NodeOf[m]]}
    BY <1>3, <1>7 DEF LPTypeOK
  <2>3. Call(m)
    BY <1>4, <2>1, <2>2 DEF Call
  <2> QED BY <1>2, <1>3, <1>7, <2>3, CallTracked
<1>8. /\ pc'[m] = "add_weight" /\ to'[m] = old_part[NodeOf[m]] /\ step'[m] = "rolling"
      /\ \A n \in Movers \ {m} : pc'[n] = pc[n] /\ to'[n] = to[n]
  BY <1>3, <1>4, <1>5 DEF CallTypeOK, LPTypeOK
<1>9. RollInv(m)'
  BY <1>1, <1>2, <1>8 DEF RollInv, Restored
<1> QED BY <1>1, <1>2, <1>4, <1>5, <1>6, <1>7, <1>8, <1>9, RollFrame

\* A step of that call.
LEMMA RollingStep ==
  ASSUME LPInv, NEW m \in Movers, RollbackStep(m)
  PROVE  LPInv'
<1>1. phase = "rollback" /\ step[m] = "rolling" /\ m \in was_moved
  BY PhaseOfStep DEF RollbackStep, At
<1>2. UNCHANGED <<phase, active, next_active, was_moved, old_part, best, listed_twice>>
  BY DEF RollbackStep, roundVars
<1>3. /\ LPTypeOK /\ CallTypeOK /\ (listed_twice = {} => Tracked) /\ NodeOf[m] \in Nodes
      /\ RollInv(m) /\ ~Limited
  BY <1>1, Slots DEF LPInv, RollbackInv, TrackedInv, PhaseInv
<1>4. /\ listed_twice = {} => Tracked'
      /\ Silent(m) \/ DeltaFunction(m)
      /\ moves' = [moves EXCEPT ![NodeOf[m]] = IF pc[m] = "set_part" THEN @ + 1 ELSE @]
  <2>1. CASE SilentWithCache(m)
    BY <1>3, <2>1, SilentTracked DEF SilentWithCache
  <2>2. CASE DeltaFunction(m) /\ DeltaGainUpdate(m) /\ UNCHANGED <<quality, moves>>
    <3>1. pc[m] = "delta"
      BY <2>2 DEF DeltaFunction
    <3> QED BY <1>3, <2>2, <3>1, DeltaTracked DEF CallTypeOK
  <2> QED BY <2>1, <2>2 DEF RollbackStep
<1>5. StepOf(m)
  BY <1>3, <1>4, StepsOfCalls
<1>6. /\ moves' \in [Nodes -> Nat]
      /\ \A u \in Nodes \ {NodeOf[m]} : part_ids'[u] = part_ids[u] /\ moves'[u] = moves[u]
      /\ \A n \in Movers \ {m} : pc'[n] = pc[n] /\ to'[n] = to[n]
  BY <1>3, <1>4, <1>5 DEF CallTypeOK, StepOf
<1>7. CallTypeOK'
  BY <1>3, <1>5, <1>6, StepTypes
<1>8. PICK s \in {"done", "rolling"} :
        /\ step' = [step EXCEPT ![m] = s]
        /\ s = IF pc'[m] = "idle" THEN "done" ELSE "rolling"
  BY DEF RollbackStep, Proceed
<1>9. part_ids'[NodeOf[m]] = IF pc[m] = "set_part" THEN old_part[NodeOf[m]]
                                                   ELSE part_ids[NodeOf[m]]
  BY <1>1, <1>3, <1>5 DEF StepOf, CallTypeOK, RollInv
<1>10. RollInv(m)'
  <2>1. step'[m] = s
    BY <1>3, <1>8 DEF LPTypeOK
  <2>2. to'[m] = old_part[NodeOf[m]] /\ pc[m] \notin {"idle", "undo_weight"}
    BY <1>1, <1>3, <1>5 DEF RollInv, StepOf
  <2>3. pc'[m] # "undo_weight"
    BY <1>3, <1>5 DEF StepOf
  <2>4. pc'[m] \in {"idle", "sub_weight", "nets", "delta"} =>
          part_ids'[NodeOf[m]] = old_part[NodeOf[m]]
    <3>1. pc[m] \in {"sub_weight", "nets", "delta"} => part_ids[NodeOf[m]] = old_part[NodeOf[m]]
      BY <1>1, <1>3 DEF RollInv, Restored
    <3> QED BY <1>5, <1>9, <2>2, <3>1 DEF StepOf
  <2> QED BY <1>1, <1>2, <1>8, <2>1, <2>2, <2>3, <2>4 DEF RollInv, Restored
<1> QED BY <1>1, <1>2, <1>4, <1>6, <1>7, <1>8, <1>9, <1>10, RollFrame

\* Without a move under way the objective may be set.
LEMMA IdleObjective == PhgInv /\ AllIdle /\ quality = QualityOf(part_ids) => Objective
BY IdleQuality

\* The objective is then the quality of the partition.
LEMMA IdleReported == PhgInv /\ AllIdle /\ Objective => quality = QualityOf(part_ids)
BY IdleQuality

\* All slots are rolled back.
LEMMA FinishRollbackStep ==
  ASSUME LPInv, FinishRollback
  PROVE  LPInv'
<1>1. /\ phase = "rollback" /\ \A m \in was_moved : step[m] = "done"
      /\ RecomputeMovedNodes /\ quality' = best.quality /\ phase' = "done"
      /\ active' = {} /\ was_moved' = {}
      /\ UNCHANGED <<next_active, old_part, best, listed_twice, step>>
  BY DEF FinishRollback, At, iterVars
<1>2. /\ LPTypeOK /\ CallTypeOK /\ (listed_twice = {} => Tracked) /\ Unconstrained
      /\ \A m \in Movers : RollInv(m)
      /\ \A u \in Nodes \ MovedNodes : part_ids[u] = old_part[u]
      /\ listed_twice = {} => Moved \subseteq MovedNodes
      /\ best = MetricsOf(QualityOf(old_part), BlockWeights(old_part))
  BY <1>1 DEF LPInv, RollbackInv, TrackedInv, PhaseInv, Unconstrained, BestInv
<1>3. \A m \in Movers : step[m] = "done" /\ pc[m] = "idle"
  BY <1>1, <1>2 DEF RollInv
<1>4. AllIdle
  BY <1>3 DEF AllIdle
<1>5. part_ids = old_part
  <2>1. \A u \in Nodes : part_ids[u] = old_part[u]
    <3> SUFFICES ASSUME NEW u \in MovedNodes PROVE part_ids[u] = old_part[u]
      BY <1>2
    <3>1. PICK m \in was_moved : NodeOf[m] = u
      BY DEF MovedNodes
    <3> QED BY <1>1, <1>2, <3>1 DEF RollInv, Restored, LPTypeOK
  <2> QED BY <1>2, <2>1 DEF CallTypeOK, LPTypeOK
<1>6. /\ UNCHANGED <<part_ids, pc, from, to, changed>>
      /\ moves' = [u \in Nodes |-> 0]
  BY <1>1 DEF RecomputeMovedNodes, phgVars, partition, callVars
<1>7. CallTypeOK' /\ AllIdle'
  BY <1>2, <1>4, <1>6 DEF CallTypeOK, AllIdle
<1>8. best.quality = QualityOf(old_part)
  BY <1>2 DEF MetricsOf
<1>9. ASSUME listed_twice = {} PROVE Tracked' /\ Objective'
  <2>1. Tracked'
    BY <1>1, <1>2, <1>4, <1>9, RecomputeTracked DEF LPTypeOK
  <2>2. quality' = QualityOf(part_ids')
    BY <1>1, <1>5, <1>6, <1>8
  <2>3. PhgInv' /\ AllIdle' /\ (quality = QualityOf(part_ids))' => Objective'
    BY IdleObjective, PTL
  <2> QED BY <1>7, <2>1, <2>2, <2>3 DEF Tracked
<1>10. LPTypeOK' /\ BestInv'
  BY <1>1, <1>2 DEF LPTypeOK, BestInv
<1>11. PhaseInv' /\ TrackedInv'
  BY <1>1, <1>3, <1>9 DEF PhaseInv, TrackedInv
<1>12. MoveInv' /\ SettledInv' /\ RollbackInv'
  BY <1>1 DEF MoveInv, SettledInv, RollbackInv
<1>13. DoneInv'
  BY <1>1, <1>5, <1>6, <1>7, <1>8 DEF DoneInv
<1> QED BY <1>7, <1>10, <1>11, <1>12, <1>13 DEF LPInv

-----------------------------------------------------------------------------
(* Theorems *)

\* The refiner begins with a tracked partition.
LEMMA InitLP == Init => LPInv
<1> SUFFICES ASSUME Init PROVE LPInv
  OBVIOUS
<1>1. /\ Km1Init /\ PhgInit /\ phase = "move" /\ next_active = {} /\ was_moved = {}
      /\ active = {Slot(u, "active") : u \in {v \in Nodes : Rebalancing \/ IsBorderNode(v)}}
      /\ old_part = part_ids /\ best = MetricsOf(quality, part_weights)
      /\ step = [m \in Movers |-> "start"] /\ listed_twice = {}
      /\ moves = [u \in Nodes |-> 0] /\ pc = [m \in Movers |-> "idle"]
      /\ part_ids = InitialPart
  BY DEF Init, Km1Init, PhgInit
<1>2. Tracked /\ Objective
  BY <1>1, InitInv, InitWeights, InitCacheInv DEF Tracked, CacheInv
<1>3. AllIdle
  BY <1>1 DEF AllIdle
<1>4. CallTypeOK
  BY <1>2 DEF CallTypeOK, Tracked, PhgInv, PhgTypeOK, CacheTerms, CacheTypeOK
<1>5. active \subseteq Movers /\ active \subseteq Nodes \X {"active"}
  <2>1. \A u \in Nodes : Slot(u, "active") \in Movers
    BY ActiveSlots
  <2>2. \A u \in Nodes : Slot(u, "active") \in Nodes \X {"active"}
    BY DEF Slot
  <2> QED BY <1>1, <2>1, <2>2
<1>6. LPTypeOK
  BY <1>1, <1>4, <1>5 DEF LPTypeOK, CallTypeOK
<1>7. PhaseInv /\ TrackedInv
  BY <1>1, <1>2 DEF PhaseInv, TrackedInv
<1>8. BestInv
  BY <1>1, <1>2, <1>3, IdleMetrics DEF BestInv
<1>9. \A m \in Movers : SlotInv(m)
  <2> SUFFICES ASSUME NEW m \in Movers PROVE SlotInv(m)
    OBVIOUS
  <2>1. step[m] = "start" /\ pc[m] = "idle" /\ moves[NodeOf[m]] = 0
    BY <1>1, Slots
  <2> QED BY <2>1 DEF SlotInv, Moving
<1>10. MoveInv
  BY <1>1, <1>5, <1>9 DEF MoveInv, Touched
<1>11. SettledInv /\ RollbackInv /\ DoneInv
  BY <1>1 DEF SettledInv, RollbackInv, DoneInv
<1> QED BY <1>4, <1>6, <1>7, <1>8, <1>10, <1>11 DEF LPInv

\* Nothing happens.
LEMMA StutterLP ==
  ASSUME LPInv, UNCHANGED vars
  PROVE  LPInv'
<1>1. UNCHANGED <<km1Vars, phase, active, next_active, was_moved, old_part, best, listed_twice, step>>
  BY DEF vars, roundVars, iterVars
<1>2. UNCHANGED <<part_ids, pc, from, to, changed, moves>>
  BY <1>1 DEF km1Vars, phgVars, partition, callVars
<1>3. LPTypeOK' /\ CallTypeOK' /\ PhaseInv' /\ BestInv'
  BY <1>1, <1>2 DEF LPInv, LPTypeOK, CallTypeOK, PhaseInv, BestInv
<1>4. TrackedInv'
  BY <1>1, SameTracked DEF LPInv, TrackedInv
<1>5. MoveInv'
  BY <1>1, <1>2 DEF LPInv, MoveInv, SlotInv, Moving, BeforeMove, Touched, Noted
<1>6. SettledInv' /\ DoneInv'
  BY <1>1, <1>2 DEF LPInv, SettledInv, DoneInv, AllIdle, MovedNodes
<1>7. RollbackInv'
  BY <1>1, <1>2 DEF LPInv, RollbackInv, RollInv, Restored, MovedNodes, InTwoSlots, Moved
<1> QED BY <1>3, <1>4, <1>5, <1>6, <1>7 DEF LPInv

\* Every step keeps the invariant.
LEMMA StepLP == LPInv /\ [Next]_vars => LPInv'
<1> SUFFICES ASSUME LPInv, [Next]_vars PROVE LPInv'
  OBVIOUS
<1>1. ASSUME NEW m \in Movers, MoveVertex(m) PROVE LPInv'
  BY <1>1, StartStep, RateStep, ComputeStep, CallStep, ReturnStep, EndStep DEF MoveVertex
<1>2. ASSUME NEW m \in Movers, Rollback(m) PROVE LPInv'
  BY <1>2, RollCheckStep, RollCallStep, RollingStep DEF Rollback
<1>3. CASE FinishRound
  BY <1>3, FinishStep
<1>4. CASE FinishUnconstrainedMoves
  BY <1>4, FinishMovesStep
<1>5. CASE ApplyRebalancing
  BY <1>5, RebalanceStep
<1>6. CASE AcceptRound
  BY <1>6, AcceptStep
<1>7. CASE FinishRollback
  BY <1>7, FinishRollbackStep
<1>8. CASE Refined \/ UNCHANGED vars
  BY <1>8, StutterLP DEF Refined
<1> QED BY <1>1, <1>2, <1>3, <1>4, <1>5, <1>6, <1>7, <1>8 DEF Next

\* The invariant of label propagation, constrained or not, in any number of rounds.
THEOREM LabelPropagationInvariant == Spec => []LPInv
<1> QED BY InitLP, StepLP, PTL DEF Spec

\* The quality that the refiner reports is the quality of the partition it leaves,
\* after any moves, reverts and refused reverts of any number of threads, and after a
\* rollback (refineImpl: ASSERT(best_metrics.quality == metrics::quality(...))).
THEOREM ReportedQualityIsExact == Spec => []ReportedQualityExact
<1>1. LPInv => ReportedQualityExact
  BY DEF LPInv, DoneInv, ReportedQualityExact
<1> QED BY <1>1, LabelPropagationInvariant, PTL

\* best_metrics describes the old blocks at every moment, and the refiner never ends
\* with other blocks, even if two slots roll back the same node (applyRebalancing).
THEOREM RollbackRestoresTheBest == Spec => []RollbackRestoresBest
<1>1. LPInv => RollbackRestoresBest
  BY DEF LPInv, BestInv, DoneInv, RollbackRestoresBest
<1> QED BY <1>1, LabelPropagationInvariant, PTL

\* Pin counts, connectivity sets and the gain cache survive rounds, the rebalancer and
\* rollbacks, unless a rollback finds a node in two slots.
THEOREM TrackedUnlessInTwoSlots == Spec => []TrackedUnlessListedTwice
<1>1. LPInv => TrackedUnlessListedTwice
  BY IdleExact, TermsExact DEF LPInv, TrackedInv, Tracked, TrackedUnlessListedTwice
<1> QED BY <1>1, LabelPropagationInvariant, PTL

\* Two partitions of which one is better: a valid one is only replaced by a valid one
\* with an objective that is not worse (Metrics::isBetter).
LEMMA BetterIsValid ==
  ASSUME NEW q \in Int, NEW r \in Int, NEW v, NEW w, IsValid(MetricsOf(0, w)),
         IsBetter(MetricsOf(q, v), MetricsOf(r, w))
  PROVE  IsValid(MetricsOf(0, v)) /\ q <= r
<1> DEFINE a == MetricsOf(0, w)
           c == MetricsOf(r, w)
<1>1. a.unbalanced = c.unbalanced /\ a.empty = c.empty
  BY Zenon DEF MetricsOf
<1>2. NumViolations(c) = 0 /\ ~c.unbalanced
  <2>1. NumViolations(a) = 0
    BY DEF IsValid
  <2> HIDE DEF a, c
  <2> QED BY <1>1, <2>1 DEF NumViolations
<1>3. NumViolations(MetricsOf(q, v)) \in Nat
  BY DEF NumViolations
<1>4. NumViolations(MetricsOf(q, v)) = 0
  BY <1>2, <1>3 DEF IsBetter
<1>5. NumViolations(MetricsOf(0, v)) = NumViolations(MetricsOf(q, v))
  BY DEF NumViolations, MetricsOf
<1>6. MetricsOf(q, v).quality = q /\ MetricsOf(r, w).quality = r
  BY DEF MetricsOf
<1>7. q < r \/ q = r
  BY <1>2, <1>4, <1>6 DEF IsBetter
<1> QED BY <1>4, <1>5, <1>7 DEF IsValid

\* A round that needed the rebalancer replaces a valid partition only by a valid one
\* with an objective that is not worse (ASSERT(!did_rebalance || !best_metrics.isBetter)).
THEOREM RebalancedRoundIsNotWorse == Spec => RebalancedIsNotWorse
<1>1. ASSUME LPInv, [Next]_vars, phase = "rebalance", phase' = "accept",
             IsValid(MetricsOf(0, BlockWeights(old_part)))
      PROVE  /\ IsValid(MetricsOf(0, BlockWeights(part_ids')))
             /\ QualityOf(part_ids') <= QualityOf(old_part)
  <2>1. ApplyRebalancing
    <3>1. \A m \in Movers : step[m] \in {"start", "done"}
      BY <1>1 DEF LPInv, PhaseInv
    <3>2. \A m \in Movers : ~MoveVertex(m) /\ ~Rollback(m)
      BY <1>1, <3>1 DEF MoveVertex, StartMoveVertex, RateNet, ComputeMaxGainMove, MoveStep,
                        MoveReturns, RevertReturns, Activate, Rollback, RollbackCheck,
                        RollbackCall, RollbackStep, At
    <3>3. phase' # phase
      BY <1>1
    <3> QED BY <1>1, <3>2, <3>3 DEF Next, FinishRound, FinishUnconstrainedMoves, AcceptRound,
                        FinishRollback, Refined, vars, roundVars
  <2>2. PICK parts \in [Nodes -> Blocks] : ApplyParts(parts)
    BY <2>1, RebalancedType DEF ApplyRebalancing
  <2>3. IsBetter(MetricsOf(quality', part_weights'), best)
    BY <1>1, <2>1 DEF ApplyRebalancing
  <2>4. /\ Unconstrained /\ Tracked /\ AllIdle /\ old_part \in [Nodes -> Blocks]
        /\ best = MetricsOf(QualityOf(old_part), BlockWeights(old_part))
    BY <1>1 DEF LPInv, PhaseInv, TrackedInv, SettledInv, BestInv, LPTypeOK, Unconstrained
  <2>5. Tracked' /\ Objective' /\ AllIdle'
    BY <2>2, <2>4, ApplyTracked
  <2>6. part_ids' = parts /\ part_weights' = BlockWeights(parts)
    BY <2>2 DEF ApplyParts
  <2>7. PhgInv' /\ AllIdle' /\ Objective' => (quality = QualityOf(part_ids))'
    BY IdleReported, PTL
  <2>8. quality' = QualityOf(parts)
    BY <2>5, <2>6, <2>7 DEF Tracked
  <2>9. QualityOf(parts) \in Int /\ QualityOf(old_part) \in Int
    BY <2>4, QualityOfSum
  <2> QED BY <1>1, <2>3, <2>4, <2>6, <2>8, <2>9, BetterIsValid
<1>2. LPInv /\ [Next]_vars =>
        [phase = "rebalance" /\ phase' = "accept" /\ IsValid(MetricsOf(0, BlockWeights(old_part)))
           => /\ IsValid(MetricsOf(0, BlockWeights(part_ids')))
              /\ QualityOf(part_ids') <= QualityOf(old_part)]_vars
  BY <1>1
<1> QED BY <1>2, LabelPropagationInvariant, PTL DEF Spec, RebalancedIsNotWorse

-----------------------------------------------------------------------------
(* Constrained label propagation is a refiner *)

\* Every step of a round moves nodes, and recomputes terms, as any refiner may.
LEMMA ConstrainedStep ==
  ASSUME Limited, MaxMoves >= 2, LPInv, [Next]_vars
  PROVE  [Km1Next]_km1Vars
<1>0. MaxMoves \in Nat
  BY GainCacheAssumption
<1>1. /\ phase \in {"move", "done"} /\ CallTypeOK /\ LPTypeOK
      /\ \A m \in Movers : step[m] \notin {"check", "roll", "rolling"}
  BY PhaseOfStep DEF LPInv, PhaseInv
<1>2. ASSUME NEW m \in Movers, Rollback(m) PROVE FALSE
  BY <1>1, <1>2 DEF Rollback, RollbackCheck, RollbackCall, RollbackStep, At
<1>3. ASSUME NEW m \in Movers, NEW b \in Blocks, phase = "move", m \in active, pc[m] = "idle",
             b # part_ids[NodeOf[m]], ChangeNodePart(m, part_ids[NodeOf[m]], b),
             moves[NodeOf[m]] <= 1, UNCHANGED <<penalty, benefit, quality, moves>>
      PROVE  Km1Next
  <2>1. Call(m)
    BY <1>3, RoundCall
  <2>2. moves[NodeOf[m]] < MaxMoves
    BY <1>0, <1>1, <1>3, Slots DEF CallTypeOK
  <2> QED BY <1>3, <2>1, <2>2 DEF CallWithCache, Km1Next, cacheVars
<1>4. ASSUME NEW m \in Movers, MoveVertex(m) PROVE [Km1Next]_km1Vars
  <2>1. CASE StartMoveVertex(m) \/ RateNet(m) \/ RevertReturns(m) \/ Activate(m)
    BY <2>1 DEF StartMoveVertex, RateNet, RevertReturns, Activate
  <2>2. CASE ComputeMaxGainMove(m)
    <3>1. phase = "move" /\ m \in active /\ step[m] = "rate"
      BY <2>2, PhaseOfStep DEF ComputeMaxGainMove, At
    <3>2. pc[m] = "idle" /\ moves[NodeOf[m]] = 0
      BY <3>1 DEF LPInv, MoveInv, SlotInv, Moving, BeforeMove
    <3>3. UNCHANGED <<penalty, benefit, quality, moves>>
      BY <2>2 DEF ComputeMaxGainMove, cacheVars
    <3>4. PICK mv \in BestMoves(m) :
            \/ mv.to # part_ids[NodeOf[m]] /\ ChangeNodePart(m, part_ids[NodeOf[m]], mv.to)
            \/ UNCHANGED phgVars
      BY <2>2 DEF ComputeMaxGainMove, PerformMove
    <3>5. mv.to \in Blocks
      BY <1>1, BestMovesType
    <3> QED BY <1>3, <3>1, <3>2, <3>3, <3>4, <3>5 DEF km1Vars, cacheVars
  <2>3. CASE MoveStep(m)
    BY <2>3 DEF MoveStep, Km1Next
  <2>4. CASE MoveReturns(m)
    <3>1. phase = "move" /\ m \in active /\ step[m] = "moving" /\ pc[m] = "idle"
      BY <2>4, PhaseOfStep DEF MoveReturns, At
    <3>2. SlotInv(m)
      BY <3>1 DEF LPInv, MoveInv
    <3>3. UNCHANGED <<penalty, benefit, quality, moves>>
      BY <2>4 DEF MoveReturns, cacheVars
    <3>4. CASE UNCHANGED phgVars
      BY <3>3, <3>4 DEF km1Vars, cacheVars
    <3>5. CASE changed[m] /\ ChangeNodePart(m, to[m], from[m])
      <4>1. /\ part_ids[NodeOf[m]] = to[m] /\ from[m] # to[m] /\ from[m] \in Blocks
            /\ moves[NodeOf[m]] <= 1
        BY <1>1, <3>1, <3>2, <3>5 DEF SlotInv, CallTypeOK
      <4> QED BY <1>3, <3>1, <3>3, <3>5, <4>1
    <3> QED BY <2>4, <3>4, <3>5 DEF MoveReturns
  <2> QED BY <1>4, <2>1, <2>2, <2>3, <2>4 DEF MoveVertex
<1>5. CASE FinishRound
  <2>1. phase = "move" /\ AllReturned /\ RecomputeMovedNodes /\ UNCHANGED quality
    BY <1>5 DEF FinishRound
  <2>2. AllIdle /\ Moved \subseteq MovedNodes /\ MovedNodes \subseteq Nodes
    BY <2>1, RoundReturned
  <2>3. EndOfRound
    BY <2>1, <2>2 DEF EndOfRound, RecomputeMovedNodes, AllIdle
  <2> QED BY <2>3 DEF Km1Next
<1>6. CASE FinishUnconstrainedMoves \/ ApplyRebalancing \/ AcceptRound \/ FinishRollback
  BY <1>1, <1>6 DEF FinishUnconstrainedMoves, ApplyRebalancing, AcceptRound, FinishRollback,
                    Unconstrained
<1>7. CASE Refined \/ UNCHANGED vars
  BY <1>7 DEF Refined, vars
<1> QED BY <1>2, <1>4, <1>5, <1>6, <1>7 DEF Next

\* Label propagation with weight limits moves nodes like the refiners that the theorems
\* about the partition and its gain cache are about: one thread at a time per node, from
\* its block to another one, at most twice in a round, with all moved nodes recomputed.
THEOREM LabelPropagationIsRefiner ==
  ASSUME Limited, MaxMoves >= 2
  PROVE  Spec => Km1Spec
<1>1. Init => Km1Init
  BY DEF Init
<1>2. LPInv /\ [Next]_vars => [Km1Next]_km1Vars
  BY ConstrainedStep
<1> QED BY <1>1, <1>2, LabelPropagationInvariant, PTL DEF Spec, Km1Spec

\* So label propagation with weight limits never makes a block heavier than its limit,
\* or than it was before.
THEOREM LabelPropagationKeepsBalance ==
  ASSUME Limited, MaxMoves >= 2
  PROVE  Spec => []BalanceKept
<1>1. Spec => Km1Spec
  BY LabelPropagationIsRefiner
<1> QED BY <1>1, BalanceIsKeptWithCache, PTL
=============================================================================
