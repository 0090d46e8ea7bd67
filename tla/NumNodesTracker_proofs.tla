----------------------- MODULE NumNodesTracker_proofs -----------------------
(***************************************************************************)
(* Proofs about the counter of nodes, for every number of threads, every   *)
(* sequence of limits and every interleaving of the unsynchronized reads   *)
(* and stores.                                                             *)
(***************************************************************************)
EXTENDS NumNodesTracker, SumTheorems, TLAPS

-----------------------------------------------------------------------------
(* Counting *)

\* The number of contractions that the counters of S show.
Counted(S) == SumFunctionOnSet(contracted, S)

\* What t will store if no other thread contracts anything until then.
View(t) == updated[t] - Counted(todo[t])

Types ==
  /\ contracted \in [Threads -> Nat]
  /\ threshold \in [Threads -> Nat]
  /\ current \in Int
  /\ limit \in Limits
  /\ pc \in [Threads -> {"idle", "contract", "sum"}]
  /\ updated \in [Threads -> 1 .. InitialNumNodes]
  /\ todo \in [Threads -> SUBSET Threads]
  /\ base \in [Threads -> Nat]

\* The last node is never contracted, and no estimate, stored or under way, is lower
\* than the number of nodes or higher than at the beginning.
CountInv ==
  /\ Types
  /\ Counted(Threads) < InitialNumNodes
  /\ InitialNumNodes - Counted(Threads) <= current
  /\ current <= InitialNumNodes
  /\ \A t \in Threads : base[t] <= contracted[t]
  /\ \A t \in Threads : pc[t] = "sum" =>
       /\ InitialNumNodes - Counted(Threads) <= View(t)
       /\ threshold[t] <= contracted[t]

\* The sum in the model is a fold of a function.
LEMMA TotalIsSum ==
  ASSUME NEW f
  PROVE  Total(f) = SumFunctionOnSet(f, Threads)
BY DEF Total, MapThenSumSet, SumFunctionOnSet, FoldFunctionOnSet, MapThenFoldSet

\* Counters are natural numbers, so a part of them counts no more than all.
LEMMA CountedTypes ==
  ASSUME contracted \in [Threads -> Nat], NEW S \in SUBSET Threads
  PROVE  /\ IsFiniteSet(S)
         /\ Counted(S) \in Nat /\ Counted(Threads) \in Nat
         /\ Counted(S) <= Counted(Threads)
<1>1. IsFiniteSet(Threads)
  BY TrackerAssumption
<1>2. \A t \in Threads : contracted[t] \in Nat
  OBVIOUS
<1> QED
  BY <1>1, <1>2, SumSubset, FS_Subset DEF Counted

\* One counter counts no more than all.
LEMMA CounterBounded ==
  ASSUME contracted \in [Threads -> Nat], NEW t \in Threads
  PROVE  contracted[t] <= Counted(Threads)
<1>1. Counted(Threads) = contracted[t] + SumFunctionOnSet(contracted, Threads \ {t})
  BY SumRemove, TrackerAssumption DEF Counted
<1>2. SumFunctionOnSet(contracted, Threads \ {t}) \in Nat
  BY CountedTypes DEF Counted
<1> QED
  BY <1>1, <1>2

\* What contracting n nodes in the thread u does to the sums.
LEMMA CountedGrows ==
  ASSUME contracted \in [Threads -> Nat], NEW u \in Threads, NEW n \in Nat,
         contracted' = [contracted EXCEPT ![u] = @ + n], NEW S \in SUBSET Threads
  PROVE  /\ contracted' \in [Threads -> Nat]
         /\ SumFunctionOnSet(contracted', S) =
              IF u \in S THEN Counted(S) + n ELSE Counted(S)
<1>1. contracted' \in [Threads -> Nat]
  OBVIOUS
<1>2. IsFiniteSet(S) /\ Counted(S) \in Nat
  BY CountedTypes
<1>3. CASE u \in S
  <2>1. \A x \in S : contracted[x] \in Int /\ contracted'[x] \in Int
    BY <1>1
  <2>2. \A x \in S \ {u} : contracted[x] = contracted'[x]
    OBVIOUS
  <2>3. SumFunctionOnSet(contracted', S)
          = SumFunctionOnSet(contracted, S) - contracted[u] + contracted'[u]
    <3> DEFINE g == contracted'
    <3>1. /\ \A x \in S : contracted[x] \in Int /\ g[x] \in Int
          /\ \A x \in S \ {u} : contracted[x] = g[x]
      BY <2>1, <2>2
    <3> HIDE DEF g
    <3>2. SumFunctionOnSet(g, S) = SumFunctionOnSet(contracted, S) - contracted[u] + g[u]
      BY ONLY <1>2, <1>3, <3>1, SumChange
    <3> QED
      BY <3>2 DEF g
  <2>4. contracted[u] \in Nat /\ contracted'[u] = contracted[u] + n
    OBVIOUS
  <2> QED
    BY <1>1, <1>2, <1>3, <2>3, <2>4 DEF Counted
<1>4. CASE u \notin S
  <2>1. \A x \in S : contracted[x] = contracted'[x]
    BY <1>4
  <2>2. SumFunctionOnSet(contracted, S) = SumFunctionOnSet(contracted', S)
    BY <1>2, <2>1, SumCongruence
  <2> QED
    BY <1>1, <1>4, <2>2 DEF Counted
<1> QED
  BY <1>3, <1>4

\* What a contraction of n nodes by u changes.
SubtractOf(u, n) ==
  /\ pc[u] = "contract"
  /\ n \in 0 .. MaxContractions
  /\ Counted(Threads) + n < InitialNumNodes
  /\ contracted' = [contracted EXCEPT ![u] = @ + n]
  /\ IF contracted[u] >= threshold[u]
     THEN /\ pc' = [pc EXCEPT ![u] = "sum"]
          /\ updated' = [updated EXCEPT ![u] = InitialNumNodes]
          /\ todo' = [todo EXCEPT ![u] = Threads]
     ELSE /\ pc' = [pc EXCEPT ![u] = "idle"]
          /\ UNCHANGED <<updated, todo>>
  /\ UNCHANGED <<threshold, current, limit, base>>

\* Subtract contracts a number of nodes that leaves at least one.
LEMMA SubtractIs ==
  ASSUME Types, NEW u \in Threads, Subtract(u)
  PROVE  \E n \in Nat : SubtractOf(u, n)
<1>1. PICK n \in 0 .. MaxContractions :
        /\ n < ActualNumNodes
        /\ contracted' = [contracted EXCEPT ![u] = @ + n]
        /\ IF contracted[u] >= threshold[u]
           THEN /\ pc' = [pc EXCEPT ![u] = "sum"]
                /\ updated' = [updated EXCEPT ![u] = InitialNumNodes]
                /\ todo' = [todo EXCEPT ![u] = Threads]
           ELSE /\ pc' = [pc EXCEPT ![u] = "idle"]
                /\ UNCHANGED <<updated, todo>>
  BY DEF Subtract
<1>2. n \in Nat
  BY TrackerAssumption
<1>3. Counted(Threads) + n < InitialNumNodes
  <2>1. ActualNumNodes = InitialNumNodes - Counted(Threads)
    BY TotalIsSum DEF ActualNumNodes, Counted
  <2>2. Counted(Threads) \in Nat
    BY CountedTypes DEF Types
  <2> QED
    BY <1>1, <1>2, <2>1, <2>2, TrackerAssumption
<1> QED
  BY <1>1, <1>2, <1>3 DEF Subtract, SubtractOf

\* A contraction lowers every view at most as much as the number of nodes.
LEMMA ViewAfterSubtract ==
  ASSUME Types, NEW u \in Threads, NEW n \in Nat, SubtractOf(u, n), NEW t \in Threads
  PROVE  /\ Counted(Threads)' = Counted(Threads) + n
         /\ t # u => View(t)' = IF u \in todo[t] THEN View(t) - n ELSE View(t)
         /\ pc'[u] = "sum" => View(u)' = InitialNumNodes - Counted(Threads)'
<1>1. contracted \in [Threads -> Nat] /\ contracted' = [contracted EXCEPT ![u] = @ + n]
  BY DEF Types, SubtractOf
<1>2. Counted(Threads)' = Counted(Threads) + n
  BY <1>1, CountedGrows DEF Counted
<1>3. ASSUME t # u PROVE View(t)' = IF u \in todo[t] THEN View(t) - n ELSE View(t)
  <2>1. updated'[t] = updated[t] /\ todo'[t] = todo[t] /\ todo[t] \in SUBSET Threads
    BY <1>3 DEF SubtractOf, Types
  <2>2. SumFunctionOnSet(contracted', todo[t]) =
          IF u \in todo[t] THEN Counted(todo[t]) + n ELSE Counted(todo[t])
    BY <1>1, <2>1, CountedGrows
  <2>3. Counted(todo[t]) \in Nat /\ updated[t] \in Int
    BY <2>1, CountedTypes DEF Types
  <2>4. View(t)' = updated[t] - SumFunctionOnSet(contracted', todo[t])
    BY <2>1 DEF View, Counted
  <2> QED
    BY <2>2, <2>3, <2>4 DEF View
<1>4. ASSUME pc'[u] = "sum" PROVE View(u)' = InitialNumNodes - Counted(Threads)'
  BY <1>4 DEF SubtractOf, View, Types
<1> QED
  BY <1>2, <1>3, <1>4

\* Reading a counter does not change what t will store.
LEMMA ViewAfterSumUp ==
  ASSUME Types, NEW u \in Threads, SumUp(u), NEW t \in Threads
  PROVE  /\ View(t)' = View(t)
         /\ t # u => updated'[t] = updated[t] /\ todo'[t] = todo[t]
         /\ updated' = [updated EXCEPT ![u] = updated'[u]] /\ updated'[u] \in Int
         /\ updated'[u] <= updated[u]
         /\ todo' = [todo EXCEPT ![u] = todo'[u]] /\ todo'[u] \in SUBSET Threads
<1>1. PICK s \in todo[u] : /\ updated' = [updated EXCEPT ![u] = @ - contracted[s]]
                           /\ todo' = [todo EXCEPT ![u] = @ \ {s}]
  BY DEF SumUp
<1>2. /\ updated'[u] = updated[u] - contracted[s] /\ todo'[u] = todo[u] \ {s}
      /\ todo[u] \in SUBSET Threads /\ s \in Threads
      /\ updated[u] \in Int /\ contracted[s] \in Nat
      /\ contracted' = contracted
  BY <1>1 DEF Types, SumUp
<1>3. t # u => updated'[t] = updated[t] /\ todo'[t] = todo[t]
  BY <1>1
<1>4. CASE t # u
  BY <1>1, <1>2, <1>3, <1>4 DEF View, Counted, Types
<1>5. CASE t = u
  <2>1. SumFunctionOnSet(contracted, todo[u])
          = contracted[s] + SumFunctionOnSet(contracted, todo[u] \ {s})
    <3>1. IsFiniteSet(todo[u]) /\ \A x \in todo[u] : contracted[x] \in Int
      BY <1>2, CountedTypes DEF Types
    <3> QED
      BY <3>1, SumRemove
  <2>2. SumFunctionOnSet(contracted, todo[u] \ {s}) \in Int
    <3>1. todo[u] \ {s} \in SUBSET Threads
      BY <1>2
    <3> QED
      BY <3>1, CountedTypes DEF Types, Counted
  <2>3. View(u)' = updated'[u] - SumFunctionOnSet(contracted, todo[u] \ {s})
    BY <1>2 DEF View, Counted
  <2> QED
    BY <1>1, <1>2, <1>5, <2>1, <2>2, <2>3 DEF View, Counted, Types
<1> QED
  BY <1>4, <1>5

\* The number of threads is positive.
LEMMA NumThreadsType == NumThreads \in Nat \ {0}
<1>1. Cardinality(Threads) \in Nat
  BY TrackerAssumption, FS_CardinalityType
<1>2. Cardinality(Threads) # 0
  BY TrackerAssumption, FS_EmptySet
<1> QED
  BY <1>1, <1>2 DEF NumThreads

\* The quotient of natural numbers, by its two bounds.
LEMMA DivBounds ==
  ASSUME NEW a \in Nat, NEW n \in Nat \ {0}
  PROVE  /\ a \div n \in Nat
         /\ n * (a \div n) <= a
         /\ a < n * (a \div n) + n
OBVIOUS

\* The quotient is the largest such number.
LEMMA DivLargest ==
  ASSUME NEW a \in Nat, NEW n \in Nat \ {0}, NEW q \in Int, n * q <= a
  PROVE  q <= a \div n
<1> DEFINE d == a \div n
<1>1. d \in Nat /\ a < n * d + n
  BY DivBounds
<1> HIDE DEF d
<1>2. SUFFICES ASSUME q >= d + 1 PROVE FALSE
  BY <1>1 DEF d
<1>3. n * q >= n * (d + 1)
  BY <1>1, <1>2
<1>4. n * (d + 1) = n * d + n
  BY <1>1
<1>5. n * d \in Int /\ n * q \in Int
  BY <1>1
<1> QED
  BY <1>1, <1>3, <1>4, <1>5

\* Initially nothing is contracted.
LEMMA CountInvInit == Init => CountInv
<1> SUFFICES ASSUME Init PROVE CountInv
  OBVIOUS
<1>1. Types
  BY TrackerAssumption DEF Init, Types
<1>2. Counted(Threads) = 0
  <2>1. \A t \in Threads : contracted[t] \in Int /\ contracted[t] <= 0
    BY DEF Init
  <2>2. Counted(Threads) <= Cardinality(Threads) * 0 /\ Cardinality(Threads) \in Nat
    BY <2>1, TrackerAssumption, SumBounded, FS_CardinalityType DEF Counted
  <2>3. Counted(Threads) \in Nat
    BY <1>1, CountedTypes DEF Types
  <2> QED
    BY <2>2, <2>3
<1> QED
  BY <1>1, <1>2, TrackerAssumption DEF Init, CountInv

\* Whatever a thread does, no estimate falls below the number of nodes.
LEMMA CountInvStep == CountInv /\ [Next]_vars => CountInv'
<1> SUFFICES ASSUME CountInv, [Next]_vars PROVE CountInv'
  OBVIOUS
<1> DEFINE A == InitialNumNodes - Counted(Threads)
<1>t. Types /\ Counted(Threads) \in Nat /\ InitialNumNodes \in Nat \ {0}
  BY CountedTypes, TrackerAssumption DEF CountInv, Types
<1>1. CASE UNCHANGED vars
  <2>1. Counted(Threads)' = Counted(Threads) /\ \A t \in Threads : View(t)' = View(t)
    BY <1>1 DEF vars, Counted, View
  <2> QED
    BY <1>1, <2>1 DEF vars, CountInv, Types
<1>2. ASSUME NEW u \in Threads, Continue(u) PROVE CountInv'
  <2>1. Counted(Threads)' = Counted(Threads) /\ \A t \in Threads : View(t)' = View(t)
    BY <1>2 DEF Continue, Counted, View
  <2>2. Types'
    BY <1>2, <1>t DEF Continue, Types
  <2>3. \A t \in Threads : pc'[t] = "sum" => pc[t] = "sum"
    BY <1>2, <1>t DEF Continue, Types
  <2> QED
    BY <1>2, <2>1, <2>2, <2>3 DEF Continue, CountInv
<1>3. ASSUME NEW u \in Threads, Subtract(u) PROVE CountInv'
  <2>1. PICK n \in Nat : SubtractOf(u, n)
    BY <1>3, <1>t, SubtractIs
  <2>2. contracted' \in [Threads -> Nat] /\ contracted'[u] = contracted[u] + n
    BY <1>t, <2>1 DEF Types, SubtractOf
  <2>3. Types'
    <3>1. pc' \in [Threads -> {"idle", "contract", "sum"}]
          /\ updated' \in [Threads -> 1 .. InitialNumNodes]
          /\ todo' \in [Threads -> SUBSET Threads]
      BY <1>t, <2>1 DEF Types, SubtractOf
    <3> QED
      BY <1>t, <2>1, <2>2, <3>1 DEF Types, SubtractOf
  <2>4. Counted(Threads)' = Counted(Threads) + n
    BY <1>t, <2>1, ViewAfterSubtract
  <2>5. Counted(Threads) + n < InitialNumNodes /\ current' = current /\ base' = base
    BY <2>1 DEF SubtractOf
  <2>6. ASSUME NEW t \in Threads PROVE base'[t] <= contracted'[t]
    BY <1>t, <2>1, <2>5 DEF SubtractOf, CountInv, Types
  <2>7. ASSUME NEW t \in Threads, pc'[t] = "sum"
        PROVE  InitialNumNodes - Counted(Threads)' <= View(t)' /\ threshold'[t] <= contracted'[t]
    <3>1. CASE t = u
      <4>1. View(u)' = InitialNumNodes - Counted(Threads)'
        BY <1>t, <2>1, <2>7, <3>1, ViewAfterSubtract
      <4>2. threshold'[u] <= contracted'[u]
        BY <1>t, <2>1, <2>2, <2>7, <3>1 DEF SubtractOf, Types
      <4> QED
        BY <1>t, <2>4, <3>1, <4>1, <4>2
    <3>2. CASE t # u
      <4>1. pc[t] = "sum" /\ contracted'[t] = contracted[t] /\ threshold'[t] = threshold[t]
        BY <1>t, <2>1, <2>7, <3>2 DEF SubtractOf, Types
      <4>2. A <= View(t) /\ threshold[t] <= contracted[t]
        BY <4>1 DEF CountInv
      <4>3. View(t)' = IF u \in todo[t] THEN View(t) - n ELSE View(t)
        BY <1>t, <2>1, <3>2, ViewAfterSubtract
      <4>4. View(t) \in Int
        BY <1>t, CountedTypes DEF Types, View
      <4> QED
        BY <1>t, <2>4, <4>1, <4>2, <4>3, <4>4
    <3> QED
      BY <3>1, <3>2
  <2>8. InitialNumNodes - Counted(Threads)' <= current' /\ current' <= InitialNumNodes
    BY <1>t, <2>4, <2>5 DEF CountInv, Types
  <2>9. Counted(Threads)' < InitialNumNodes
    BY <2>4, <2>5
  <2> QED
    BY <2>3, <2>6, <2>7, <2>8, <2>9 DEF CountInv
<1>4. ASSUME NEW u \in Threads, SumUp(u) PROVE CountInv'
  <2>1. Counted(Threads)' = Counted(Threads) /\ \A t \in Threads : View(t)' = View(t)
    BY <1>4, <1>t, ViewAfterSumUp DEF SumUp, Counted
  <2>2. updated'[u] \in 1 .. InitialNumNodes
    <3>1. pc[u] = "sum"
      BY <1>4 DEF SumUp
    <3>2. View(u)' = View(u) /\ A <= View(u)
      BY <2>1, <3>1 DEF CountInv
    <3>3. /\ updated'[u] \in Int /\ updated'[u] <= updated[u]
          /\ todo'[u] \in SUBSET Threads
      BY <1>4, <1>t, ViewAfterSumUp
    <3>4. View(u)' = updated'[u] - Counted(todo'[u])
      BY <1>4 DEF View, SumUp, Counted
    <3>5. Counted(todo'[u]) \in Nat
      BY <1>t, <3>3, CountedTypes DEF Types
    <3>6. 1 <= A
      BY <1>t DEF CountInv
    <3>7. updated[u] \in Int /\ updated[u] <= InitialNumNodes /\ View(u) \in Int
      BY <1>t, CountedTypes DEF Types, View
    <3> HIDE DEF A
    <3>8. A \in Int
      BY <1>t DEF A
    <3>9. 1 <= updated'[u]
      BY <3>2, <3>3, <3>4, <3>5, <3>6, <3>7, <3>8
    <3> QED
      BY <1>t, <3>3, <3>7, <3>9
  <2>3. Types'
    <3>1. updated' = [updated EXCEPT ![u] = updated'[u]]
          /\ todo' = [todo EXCEPT ![u] = todo'[u]] /\ todo'[u] \in SUBSET Threads
      BY <1>4, <1>t, ViewAfterSumUp
    <3>2. updated' \in [Threads -> 1 .. InitialNumNodes] /\ todo' \in [Threads -> SUBSET Threads]
      BY <1>t, <2>2, <3>1 DEF Types
    <3> QED
      BY <1>4, <1>t, <3>2 DEF SumUp, Types
  <2> QED
    BY <1>4, <2>1, <2>3 DEF SumUp, CountInv
<1>5. ASSUME NEW u \in Threads, Store(u) PROVE CountInv'
  <2>1. /\ Counted(Threads)' = Counted(Threads) /\ \A t \in Threads : View(t)' = View(t)
        /\ contracted' = contracted
    BY <1>5 DEF Store, Counted, View
  <2>2. pc[u] = "sum" /\ todo[u] = {} /\ current' = updated[u] /\ updated[u] \in Int
        /\ updated[u] <= InitialNumNodes
    BY <1>5, <1>t DEF Store, Types
  <2>3. View(u) = updated[u]
    <3>1. Counted({}) = 0
      BY SumEmpty DEF Counted
    <3> QED
      BY <2>2, <3>1 DEF View
  <2>4. A <= current' /\ current' <= InitialNumNodes
    BY <2>2, <2>3 DEF CountInv
  <2>5. /\ threshold' \in [Threads -> Nat]
        /\ \A t \in Threads \ {u} : threshold'[t] = threshold[t]
    <3> DEFINE dist == IF updated[u] > limit THEN updated[u] - limit ELSE 0
    <3>1. dist \in Nat
      BY <1>t, TrackerAssumption DEF Types
    <3>2. NumThreads \in Nat \ {0}
      BY NumThreadsType
    <3>3. dist \div NumThreads \in Nat
      <4> HIDE DEF dist
      <4> QED
        BY <3>1, <3>2, DivBounds
    <3>4. threshold' = [threshold EXCEPT ![u] = threshold[u] + dist \div NumThreads]
      BY <1>5 DEF Store
    <3> HIDE DEF dist
    <3>5. threshold[u] + dist \div NumThreads \in Nat
      BY <1>t, <3>3 DEF Types
    <3> QED
      BY <1>t, <3>4, <3>5 DEF Types
  <2>6. Types'
    BY <1>5, <1>t, <2>2, <2>5 DEF Store, Types
  <2>7. \A t \in Threads : pc'[t] = "sum" => pc[t] = "sum" /\ t # u
    BY <1>5, <1>t DEF Store, Types
  <2> QED
    BY <1>5, <2>1, <2>4, <2>5, <2>6, <2>7 DEF Store, CountInv
<1>6. CASE NextPass
  <2>1. /\ Counted(Threads)' = Counted(Threads) /\ \A t \in Threads : View(t)' = View(t)
        /\ contracted' = contracted /\ base' = contracted /\ pc' = pc
    BY <1>6 DEF NextPass, Counted, View
  <2>2. current' = A
    BY <1>6, TotalIsSum DEF NextPass, ActualNumNodes, Counted
  <2>3. Types'
    BY <1>6, <1>t, <2>2 DEF NextPass, Types
  <2>4. A <= current' /\ current' <= InitialNumNodes
    BY <1>t, <2>2
  <2>5. \A t \in Threads : pc[t] # "sum" /\ base'[t] <= contracted'[t]
    BY <1>6, <1>t, <2>1 DEF NextPass, Types
  <2> QED
    BY <2>1, <2>3, <2>4, <2>5 DEF CountInv
<1> QED
  BY <1>1, <1>2, <1>3, <1>4, <1>5, <1>6 DEF Next

\* The inductive part of the tracker.
LEMMA Counting == Spec => []CountInv
BY CountInvInit, CountInvStep, PTL DEF Spec

\* The type invariant: in particular updated_num_nodes, an unsigned number from which
\* the counters are subtracted while they grow, never wraps around.
THEOREM TypeCorrect == Spec => []TypeOK
<1>1. CountInv => TypeOK
  <2> SUFFICES ASSUME CountInv PROVE TypeOK
    OBVIOUS
  <2>1. Types /\ Counted(Threads) \in Nat /\ InitialNumNodes \in Nat \ {0}
    BY CountedTypes, TrackerAssumption DEF CountInv, Types
  <2>2. ASSUME NEW t \in Threads
        PROVE  contracted[t] \in 0 .. InitialNumNodes - 1 /\ base[t] \in 0 .. InitialNumNodes - 1
    <3>1. contracted[t] <= Counted(Threads)
      BY <2>1, CounterBounded DEF Types
    <3>2. contracted[t] \in Nat /\ base[t] \in Nat /\ base[t] <= contracted[t]
          /\ Counted(Threads) < InitialNumNodes
      BY <2>1 DEF Types, CountInv
    <3> QED
      BY <2>1, <3>1, <3>2
  <2>3. current \in 1 .. InitialNumNodes
    BY <2>1 DEF CountInv, Types
  <2> QED
    BY <2>1, <2>2, <2>3 DEF Types, TypeOK
<1> QED
  BY <1>1, Counting, PTL

\* The estimate of currentNumNodes never falls below the number of nodes, although the
\* counters are read one by one while the other threads contract, and although an
\* old sum may be stored after a newer one: a pass never stops too early.
THEOREM NeverTooLow == Spec => []NeverUnderestimates
<1>1. CountInv => NeverUnderestimates
  <2> SUFFICES ASSUME CountInv PROVE current >= ActualNumNodes
    BY DEF NeverUnderestimates
  <2>1. ActualNumNodes = InitialNumNodes - Counted(Threads)
    BY TotalIsSum DEF ActualNumNodes, Counted
  <2>2. InitialNumNodes - Counted(Threads) \in Int /\ current \in Int
    BY CountedTypes, TrackerAssumption DEF CountInv, Types
  <2> QED
    BY <2>1, <2>2 DEF CountInv
<1> QED
  BY <1>1, Counting, PTL

-----------------------------------------------------------------------------
(***************************************************************************)
(* How far a pass overshoots its limit.                                    *)
(*                                                                         *)
(* Once the limit is reached, what a thread may still contract is bounded  *)
(* by a potential that no step increases: the rest of its threshold, or    *)
(* the one it gets from a sum that it began before, one iteration because  *)
(* of the estimate, and one for every outdated sum.                        *)
(***************************************************************************)

Positive(n) == IF n > 0 THEN n ELSE 0

\* What t may contract before it has to sum up again.
Allowance(t) ==
  IF pc[t] = "sum" THEN Positive(View(t) - limit) \div NumThreads
  ELSE Positive(threshold[t] - contracted[t])

\* The threads whose sum makes the others believe that the limit is not reached.
Outdated == {t \in Threads : pc[t] = "sum" /\ View(t) > limit}

\* The iteration of t is under way, or the estimate allows one.
Started(t) ==
  IF pc[t] = "contract" \/ (pc[t] = "idle" /\ current > limit) THEN 1 ELSE 0

Potential ==
  [t \in Threads |-> Allowance(t) + (IF Allowance(t) > 0 THEN MaxContractions - 1 ELSE 0)
                       + MaxContractions * (Cardinality(Outdated) + Started(t))]

StartNodes == InitialNumNodes - SumFunctionOnSet(base, Threads)

\* A thread that saw nothing but its own contractions was given its share of what
\* was left at that moment.
AllowanceInv ==
  \A t \in Threads :
    /\ pc[t] = "sum" => View(t) + (contracted[t] - base[t]) <= StartNodes
    /\ Allowance(t) > 0 =>
         NumThreads * Allowance(t) + (contracted[t] - base[t]) <= StartNodes - limit

\* The nodes beyond the limit and the potential.
Excess ==
  (IF StartNodes > limit THEN limit ELSE StartNodes)
    - (InitialNumNodes - Counted(Threads)) + SumFunctionOnSet(Potential, Threads)

Bound == ((NumThreads - 1) * Positive(StartNodes - limit)) \div NumThreads + Slack

OvershootInv ==
  InitialNumNodes - Counted(Threads) <= limit => Excess <= Bound

\* A larger number has a larger quotient.
LEMMA DivMonotone ==
  ASSUME NEW a \in Nat, NEW b \in Nat, a <= b, NEW n \in Nat \ {0}
  PROVE  a \div n <= b \div n
<1> DEFINE q == a \div n
<1>1. q \in Nat /\ n * q <= a
  BY DivBounds
<1> HIDE DEF q
<1>2. n * q \in Int
  BY <1>1
<1>3. n * q <= b
  BY <1>1, <1>2
<1>4. q <= b \div n
  BY <1>1, <1>3, DivLargest
<1> QED
  BY <1>4 DEF q

\* The values of which the potential is made are natural numbers.
PotentialOK ==
  /\ NumThreads \in Nat \ {0} /\ MaxContractions \in Nat \ {0}
  /\ limit \in Nat /\ InitialNumNodes \in Nat
  /\ Counted(Threads) \in Nat /\ StartNodes \in Int
  /\ IsFiniteSet(Outdated) /\ Cardinality(Outdated) \in Nat
  /\ \A t \in Threads : /\ View(t) \in Int /\ contracted[t] \in Nat
                        /\ threshold[t] \in Nat /\ base[t] \in Nat
                        /\ Allowance(t) \in Nat
                        /\ Potential[t] \in Nat
  /\ SumFunctionOnSet(Potential, Threads) \in Nat

\* They are, by the invariant of the counters.
LEMMA PotentialTypes == CountInv => PotentialOK
<1> SUFFICES ASSUME CountInv PROVE PotentialOK
  OBVIOUS
<1>1. NumThreads \in Nat \ {0} /\ MaxContractions \in Nat \ {0}
      /\ limit \in Nat /\ InitialNumNodes \in Nat
  BY NumThreadsType, TrackerAssumption DEF CountInv, Types
<1>2. Counted(Threads) \in Nat /\ StartNodes \in Int
  <2>1. \A t \in Threads : base[t] \in Int
    BY DEF CountInv, Types
  <2>2. SumFunctionOnSet(base, Threads) \in Int
    BY <2>1, SumInt, TrackerAssumption
  <2> QED
    BY <1>1, <2>2, CountedTypes DEF CountInv, Types, StartNodes
<1>3. IsFiniteSet(Outdated) /\ Cardinality(Outdated) \in Nat
  <2>1. Outdated \in SUBSET Threads
    BY DEF Outdated
  <2>2. IsFiniteSet(Outdated)
    BY <2>1, FS_Subset, TrackerAssumption
  <2> QED
    BY <2>2, FS_CardinalityType
<1>4. ASSUME NEW t \in Threads
      PROVE  /\ View(t) \in Int /\ contracted[t] \in Nat
             /\ threshold[t] \in Nat /\ base[t] \in Nat
             /\ Allowance(t) \in Nat
             /\ Potential[t] \in Nat
  <2>1. contracted[t] \in Nat /\ threshold[t] \in Nat /\ base[t] \in Nat
        /\ updated[t] \in Int /\ todo[t] \in SUBSET Threads
    BY DEF CountInv, Types
  <2>2. View(t) \in Int
    BY <2>1, CountedTypes DEF View, CountInv, Types
  <2>3. Allowance(t) \in Nat
    <3>1. Positive(View(t) - limit) \in Nat /\ Positive(threshold[t] - contracted[t]) \in Nat
      BY <1>1, <2>1, <2>2 DEF Positive
    <3>2. Positive(View(t) - limit) \div NumThreads \in Nat
      BY <1>1, <3>1, DivBounds
    <3> QED
      BY <3>1, <3>2 DEF Allowance
  <2>4. Potential[t] \in Nat
    <3> DEFINE k == Cardinality(Outdated) + Started(t)
    <3>1. k \in Nat
      BY <1>3 DEF Started
    <3>2. MaxContractions * k \in Nat
      <4> HIDE DEF k
      <4> QED
        BY <1>1, <3>1
    <3>3. (IF Allowance(t) > 0 THEN MaxContractions - 1 ELSE 0) \in Nat
      BY <1>1
    <3> QED
      BY <2>3, <3>2, <3>3 DEF Potential
  <2> QED
    BY <2>1, <2>2, <2>3, <2>4
<1>5. SumFunctionOnSet(Potential, Threads) \in Nat
  <2>1. \A t \in Threads : Potential[t] \in Nat
    BY <1>4
  <2> QED
    BY <2>1, SumSubset, TrackerAssumption
<1> QED
  BY <1>1, <1>2, <1>3, <1>4, <1>5 DEF PotentialOK

\* They are, after a step.
LEMMA PotentialTypesNext == CountInv' => PotentialOK'
BY PotentialTypes, PTL

\* The potential of t with its allowance a, k outdated sums and s started iterations.
Pot(a, k, s) == a + (IF a > 0 THEN MaxContractions - 1 ELSE 0) + MaxContractions * (k + s)

\* What the step of u may do once the limit is reached: n nodes are contracted and the
\* potential of u pays for them.
LEMMA PotMonotone ==
  ASSUME NEW a \in Nat, NEW b \in Nat, NEW k \in Nat, NEW j \in Nat, NEW s \in Nat, NEW r \in Nat,
         b <= a, j + r <= k + s
  PROVE  Pot(b, j, r) <= Pot(a, k, s)
<1>1. MaxContractions \in Nat \ {0}
  BY TrackerAssumption
<1>2. MaxContractions * (j + r) <= MaxContractions * (k + s)
      /\ MaxContractions * (j + r) \in Nat /\ MaxContractions * (k + s) \in Nat
  <2>1. ASSUME NEW x \in Nat, NEW y \in Nat, x <= y
        PROVE  MaxContractions * x <= MaxContractions * y
               /\ MaxContractions * x \in Nat /\ MaxContractions * y \in Nat
    BY <1>1, <2>1
  <2>2. j + r \in Nat /\ k + s \in Nat
    OBVIOUS
  <2> QED
    BY <2>1, <2>2
<1> QED
  BY <1>1, <1>2 DEF Pot

\* The thread that contracts n nodes out of its allowance.
LEMMA PotSpend ==
  ASSUME NEW a \in Nat, NEW b \in Nat, NEW k \in Nat, NEW j \in Nat, NEW s \in Nat, NEW r \in Nat,
         NEW n \in Nat, n <= MaxContractions, a > 0, b = Positive(a - n), j + r <= k + s
  PROVE  Pot(b, j, r) <= Pot(a, k, s) - n
<1>1. MaxContractions \in Nat \ {0}
  BY TrackerAssumption
<1>2. Pot(0, j, r) <= Pot(0, k, s)
  BY PotMonotone
<1>3. MaxContractions * (j + r) <= MaxContractions * (k + s)
  BY <1>1, <1>2 DEF Pot
<1>4. MaxContractions * (j + r) \in Int /\ MaxContractions * (k + s) \in Int
  BY <1>1
<1> QED
  BY <1>1, <1>3, <1>4 DEF Pot, Positive

\* The thread that contracts n nodes and sums up.
LEMMA PotIteration ==
  ASSUME NEW k \in Nat, NEW j \in Nat, NEW n \in Nat, n <= MaxContractions, j <= k
  PROVE  Pot(0, j, 0) <= Pot(0, k, 1) - n
<1>1. MaxContractions \in Nat \ {0}
  BY TrackerAssumption
<1>2. Pot(0, j, 0) <= Pot(0, k, 0)
  BY PotMonotone
<1>3. MaxContractions * (k + 1) = MaxContractions * (k + 0) + MaxContractions
  BY <1>1
<1>4. MaxContractions * (k + 0) \in Int /\ MaxContractions * (j + 0) \in Int
  BY <1>1
<1> QED
  BY <1>1, <1>2, <1>3, <1>4 DEF Pot

\* Every potential is made of an allowance, the outdated sums and an iteration.
LEMMA PotentialIs ==
  \A t \in Threads : Potential[t] = Pot(Allowance(t), Cardinality(Outdated), Started(t))
BY DEF Potential, Pot

\* A step that pays for what it contracts does not increase the excess.
LEMMA PaidStep ==
  ASSUME CountInv, CountInv', limit' = limit, base' = base,
         NEW u \in Threads, NEW n \in Nat, Counted(Threads)' = Counted(Threads) + n,
         \A t \in Threads \ {u} : Potential'[t] <= Potential[t],
         Potential'[u] <= Potential[u] - n
  PROVE  Excess' <= Excess /\ Bound' = Bound
<1>1. /\ \A t \in Threads : Potential[t] \in Int
      /\ SumFunctionOnSet(Potential, Threads) \in Int
      /\ Counted(Threads) \in Int /\ InitialNumNodes \in Int /\ StartNodes \in Int /\ limit \in Int
  BY PotentialTypes DEF PotentialOK
<1>2. /\ \A t \in Threads : Potential'[t] \in Int
      /\ SumFunctionOnSet(Potential', Threads) \in Int
  BY PotentialTypesNext DEF PotentialOK
<1>3. SumFunctionOnSet(Potential', Threads) <= SumFunctionOnSet(Potential, Threads) - n
  <2> DEFINE f == Potential
             g == Potential'
  <2>1. /\ \A t \in Threads : f[t] \in Int /\ g[t] \in Int
        /\ \A t \in Threads \ {u} : g[t] <= f[t]
        /\ g[u] <= f[u] - n
    BY <1>1, <1>2
  <2>2. IsFiniteSet(Threads) /\ n \in Int
    BY TrackerAssumption
  <2> HIDE DEF f, g
  <2>3. SumFunctionOnSet(g, Threads) <= SumFunctionOnSet(f, Threads) - n
    BY ONLY <2>1, <2>2, u \in Threads, SumDrop
  <2> QED
    BY <2>3 DEF f, g
<1>4. StartNodes' = StartNodes
  BY DEF StartNodes
<1>5. Bound' = Bound
  BY <1>4 DEF Bound, Slack, Iterations, Positive, NumThreads
<1> DEFINE p == SumFunctionOnSet(Potential, Threads)
           q == SumFunctionOnSet(Potential', Threads)
           g == IF StartNodes > limit THEN limit ELSE StartNodes
           c == Counted(Threads)
<1>6. Excess = g - (InitialNumNodes - c) + p
      /\ Excess' = g - (InitialNumNodes - (c + n)) + q
  BY <1>4 DEF Excess
<1>7. p \in Int /\ q \in Int /\ g \in Int /\ c \in Int /\ q <= p - n
  BY <1>1, <1>2, <1>3
<1> HIDE DEF p, q, g, c
<1>8. Excess' <= Excess
  BY <1>1, <1>6, <1>7
<1> QED
  BY <1>5, <1>8

\* Steps that change neither counters nor allowances nor views.
LEMMA QuietStep ==
  ASSUME contracted' = contracted, base' = base, limit' = limit, Outdated' = Outdated,
         \A t \in Threads : /\ View(t)' = View(t) /\ Allowance(t)' = Allowance(t)
                            /\ Started(t)' = Started(t)
                            /\ pc'[t] = "sum" <=> pc[t] = "sum",
         AllowanceInv, OvershootInv
  PROVE  AllowanceInv' /\ OvershootInv'
<1>1. StartNodes' = StartNodes /\ Counted(Threads)' = Counted(Threads)
  BY DEF StartNodes, Counted
<1>2. AllowanceInv'
  BY <1>1 DEF AllowanceInv, NumThreads
<1>3. Potential' = Potential
  BY DEF Potential
<1>4. Bound' = Bound /\ Excess' = Excess
  BY <1>1, <1>3 DEF Bound, Slack, Iterations, Positive, NumThreads, Excess
<1>5. OvershootInv'
  BY <1>1, <1>4 DEF OvershootInv
<1> QED
  BY <1>2, <1>5

\* An iteration starts.
LEMMA ContinuePotential ==
  ASSUME CountInv, NEW u \in Threads, Continue(u), AllowanceInv, OvershootInv
  PROVE  AllowanceInv' /\ OvershootInv'
<1>1. /\ contracted' = contracted /\ base' = base /\ limit' = limit /\ current' = current
      /\ threshold' = threshold /\ updated' = updated /\ todo' = todo /\ current > limit
      /\ pc[u] = "idle" /\ pc' = [pc EXCEPT ![u] = "contract"]
  BY DEF Continue
<1>2. \A t \in Threads : View(t)' = View(t) /\ (pc'[t] = "sum" <=> pc[t] = "sum")
  BY <1>1 DEF View, Counted, CountInv, Types
<1>3. \A t \in Threads : Started(t)' = Started(t)
  BY <1>1 DEF Started, CountInv, Types
<1>4. Outdated' = Outdated
  BY <1>1, <1>2 DEF Outdated
<1>5. \A t \in Threads : Allowance(t)' = Allowance(t)
  BY <1>1, <1>2 DEF Allowance, Positive, NumThreads
<1> QED
  BY <1>1, <1>2, <1>3, <1>4, <1>5, QuietStep

\* A counter is read.
LEMMA SumUpPotential ==
  ASSUME CountInv, NEW u \in Threads, SumUp(u), AllowanceInv, OvershootInv
  PROVE  AllowanceInv' /\ OvershootInv'
<1>1. /\ contracted' = contracted /\ base' = base /\ limit' = limit /\ current' = current
      /\ threshold' = threshold /\ pc' = pc
  BY DEF SumUp
<1>2. \A t \in Threads : View(t)' = View(t) /\ (pc'[t] = "sum" <=> pc[t] = "sum")
  BY <1>1, ViewAfterSumUp DEF CountInv
<1>3. \A t \in Threads : Started(t)' = Started(t)
  BY <1>1 DEF Started
<1>4. Outdated' = Outdated
  BY <1>1, <1>2 DEF Outdated
<1>5. \A t \in Threads : Allowance(t)' = Allowance(t)
  BY <1>1, <1>2 DEF Allowance, Positive, NumThreads
<1> QED
  BY <1>1, <1>2, <1>3, <1>4, <1>5, QuietStep

\* Allowances that do not grow keep their bound.
LEMMA AllowanceShrinks ==
  ASSUME CountInv, CountInv', NEW t \in Threads, limit' = limit, base' = base,
         contracted'[t] = contracted[t], Allowance(t)' <= Allowance(t),
         pc'[t] = "sum" => pc[t] = "sum" /\ View(t)' <= View(t), AllowanceInv
  PROVE  /\ pc'[t] = "sum" => View(t)' + (contracted'[t] - base'[t]) <= StartNodes'
         /\ Allowance(t)' > 0 =>
              NumThreads * Allowance(t)' + (contracted'[t] - base'[t]) <= StartNodes' - limit'
<1>1. StartNodes' = StartNodes
  BY DEF StartNodes
<1>2. /\ Allowance(t) \in Nat /\ View(t) \in Int /\ contracted[t] \in Nat /\ base[t] \in Nat
      /\ StartNodes \in Int /\ limit \in Nat /\ NumThreads \in Nat \ {0}
  BY PotentialTypes DEF PotentialOK
<1>3. Allowance(t)' \in Nat /\ View(t)' \in Int
  BY PotentialTypesNext DEF PotentialOK
<1>4. pc'[t] = "sum" => View(t)' + (contracted'[t] - base'[t]) <= StartNodes'
  BY <1>1, <1>2, <1>3 DEF AllowanceInv
<1>5. ASSUME Allowance(t)' > 0
      PROVE  NumThreads * Allowance(t)' + (contracted'[t] - base'[t]) <= StartNodes' - limit'
  <2> DEFINE a == Allowance(t)
             b == Allowance(t)'
  <2>1. NumThreads * a + (contracted[t] - base[t]) <= StartNodes - limit
    BY <1>2, <1>3, <1>5 DEF AllowanceInv
  <2>2. a \in Nat /\ b \in Nat /\ b <= a
    BY <1>2, <1>3
  <2> HIDE DEF a, b
  <2>3. NumThreads * b <= NumThreads * a /\ NumThreads * b \in Int /\ NumThreads * a \in Int
    BY <1>2, <2>2
  <2>4. NumThreads * b + (contracted[t] - base[t]) <= StartNodes - limit
    BY <1>2, <2>1, <2>3
  <2> QED
    BY <1>1, <2>4 DEF b
<1> QED
  BY <1>4, <1>5

\* Excess and bound are integers.
LEMMA ExcessTypes ==
  PotentialOK => Excess \in Int /\ Bound \in Int /\ Positive(StartNodes - limit) \in Nat
                 /\ ((NumThreads - 1) * Positive(StartNodes - limit)) \div NumThreads \in Nat
                 /\ Slack \in Int /\ Iterations \in Nat
<1> SUFFICES ASSUME PotentialOK
             PROVE  /\ Excess \in Int /\ Bound \in Int /\ Positive(StartNodes - limit) \in Nat
                    /\ ((NumThreads - 1) * Positive(StartNodes - limit)) \div NumThreads \in Nat
                    /\ Slack \in Int /\ Iterations \in Nat
  OBVIOUS
<1>1. NumThreads \in Nat \ {0} /\ NumThreads - 1 \in Nat /\ MaxContractions \in Nat
  BY DEF PotentialOK
<1>2. Excess \in Int
  BY DEF PotentialOK, Excess
<1> DEFINE d == Positive(StartNodes - limit)
<1>3. d \in Nat
  BY DEF PotentialOK, Positive
<1>4. ((NumThreads - 1) * d) \div NumThreads \in Nat
  <2> HIDE DEF d
  <2>1. (NumThreads - 1) * d \in Nat
    BY <1>1, <1>3
  <2> QED
    BY <1>1, <2>1, DivBounds
<1>5. Iterations \in Nat
  <2>1. (NumThreads - 1) * (NumThreads - 1) \in Nat
    BY <1>1
  <2> QED
    BY <1>1, <2>1 DEF Iterations
<1>6. Slack \in Int
  <2>1. NumThreads * (MaxContractions - 1) \in Int
    BY <1>1
  <2>2. Iterations * MaxContractions \in Int
    BY <1>1, <1>5
  <2> QED
    BY <2>1, <2>2 DEF Slack
<1> QED
  BY <1>2, <1>3, <1>4, <1>5, <1>6 DEF Bound

\* They are, after a step.
LEMMA ExcessTypesNext == PotentialOK' => (Excess \in Int /\ Bound \in Int)'
<1>1. PotentialOK => Excess \in Int /\ Bound \in Int
  BY ExcessTypes
<1> QED
  BY <1>1, PTL

\* An estimate is stored.
LEMMA StorePotential ==
  ASSUME CountInv, CountInv', NEW u \in Threads, Store(u), AllowanceInv, OvershootInv
  PROVE  AllowanceInv' /\ OvershootInv'
<1> DEFINE share == Positive(View(u) - limit) \div NumThreads
<1>t. PotentialOK /\ PotentialOK'
  BY PotentialTypes, PotentialTypesNext
<1>1. /\ contracted' = contracted /\ base' = base /\ limit' = limit
      /\ updated' = updated /\ todo' = todo /\ current' = updated[u]
      /\ pc[u] = "sum" /\ todo[u] = {} /\ pc' = [pc EXCEPT ![u] = "idle"]
  BY DEF Store
<1>2. \A t \in Threads : View(t)' = View(t)
  BY <1>1 DEF View, Counted
<1>3. View(u) = updated[u] /\ View(u) \in Int
  <2>1. Counted({}) = 0 /\ updated[u] \in Int
    BY SumEmpty DEF Counted, CountInv, Types
  <2> QED
    BY <1>1, <2>1 DEF View
<1>4. threshold' = [threshold EXCEPT ![u] = threshold[u] + share]
  <2>1. (IF updated[u] > limit THEN updated[u] - limit ELSE 0) = Positive(View(u) - limit)
    BY <1>3, <1>t DEF Positive, PotentialOK
  <2> QED
    BY <2>1 DEF Store
<1>5. Allowance(u) = share /\ share \in Nat
  BY <1>1, <1>t DEF Allowance, PotentialOK
<1>6. Allowance(u)' <= Allowance(u)
  <2>1. threshold[u] <= contracted[u] /\ threshold[u] \in Nat /\ contracted[u] \in Nat
    BY <1>1, <1>t DEF CountInv, PotentialOK
  <2> HIDE DEF share
  <2>2. Allowance(u)' = Positive((threshold[u] + share) - contracted[u])
    BY <1>1, <1>4, <1>t DEF Allowance, Positive, CountInv, Types
  <2> QED
    BY <1>5, <2>1, <2>2 DEF Positive
<1>7. \A t \in Threads \ {u} : Allowance(t)' = Allowance(t) /\ pc'[t] = pc[t]
  BY <1>1, <1>2, <1>4 DEF Allowance, Positive, NumThreads, CountInv, Types
<1>8. AllowanceInv'
  <2> SUFFICES ASSUME NEW t \in Threads PROVE
        /\ pc'[t] = "sum" => View(t)' + (contracted'[t] - base'[t]) <= StartNodes'
        /\ Allowance(t)' > 0 =>
             NumThreads * Allowance(t)' + (contracted'[t] - base'[t]) <= StartNodes' - limit'
    BY DEF AllowanceInv, NumThreads
  <2>1. Allowance(t)' <= Allowance(t)
    BY <1>6, <1>7, <1>t DEF PotentialOK
  <2>2. pc'[t] = "sum" => pc[t] = "sum" /\ View(t)' <= View(t)
    BY <1>1, <1>2, <1>7, <1>t DEF CountInv, Types, PotentialOK
  <2> QED
    BY <1>1, <2>1, <2>2, AllowanceShrinks
<1>9. Outdated' = Outdated \ {u}
  BY <1>1, <1>2, <1>7 DEF Outdated, CountInv, Types
<1>10. ASSUME NEW t \in Threads
       PROVE  Cardinality(Outdated)' + Started(t)' <= Cardinality(Outdated) + Started(t)
  <2>1. Started(t) \in {0, 1} /\ Started(t)' \in {0, 1} /\ Cardinality(Outdated) \in Nat
    BY <1>t DEF Started, PotentialOK
  <2>2. CASE View(u) > limit
    <3>1. Cardinality(Outdated)' = Cardinality(Outdated) - 1
      <4>1. u \in Outdated
        BY <1>1, <2>2 DEF Outdated
      <4>2. Cardinality(Outdated \ {u}) = Cardinality(Outdated) - 1
        BY <1>t, <4>1, FS_RemoveElement DEF PotentialOK
      <4> QED
        BY <1>9, <4>2
    <3> QED
      BY <2>1, <3>1
  <2>3. CASE ~(View(u) > limit)
    <3>1. Outdated' = Outdated
      BY <1>9, <2>3 DEF Outdated
    <3>2. Started(t)' <= Started(t)
      <4>1. ~(current' > limit')
        BY <1>1, <1>3, <2>3
      <4> QED
        BY <1>1, <1>7, <4>1 DEF Started, CountInv, Types
    <3> QED
      BY <2>1, <3>1, <3>2
  <2> QED
    BY <2>2, <2>3
<1>11. ASSUME NEW t \in Threads PROVE Potential'[t] <= Potential[t]
  <2>1. Allowance(t)' <= Allowance(t) /\ Allowance(t) \in Nat /\ Allowance(t)' \in Nat
    BY <1>6, <1>7, <1>t DEF PotentialOK
  <2>2. Started(t) \in Nat /\ Started(t)' \in Nat
    BY DEF Started
  <2>3. Cardinality(Outdated) \in Nat /\ Cardinality(Outdated)' \in Nat
    BY <1>t DEF PotentialOK
  <2>4. Potential'[t] = Pot(Allowance(t)', Cardinality(Outdated)', Started(t)')
    BY DEF Potential, Pot
  <2>5. Pot(Allowance(t)', Cardinality(Outdated)', Started(t)')
          <= Pot(Allowance(t), Cardinality(Outdated), Started(t))
    BY <1>10, <2>1, <2>2, <2>3, PotMonotone
  <2> QED
    BY <2>4, <2>5, PotentialIs
<1>12. Excess' <= Excess /\ Bound' = Bound /\ Counted(Threads)' = Counted(Threads)
  <2>1. Counted(Threads)' = Counted(Threads) /\ Counted(Threads) \in Nat
    BY <1>1, <1>t DEF Counted, PotentialOK
  <2>2. Counted(Threads)' = Counted(Threads) + 0
    BY <2>1
  <2>3. Potential'[u] <= Potential[u] - 0
    BY <1>11, <1>t DEF PotentialOK
  <2> QED
    BY <1>1, <1>11, <2>1, <2>2, <2>3, PaidStep
<1>13. OvershootInv'
  <2> SUFFICES ASSUME InitialNumNodes - Counted(Threads) <= limit PROVE Excess' <= Bound'
    BY <1>1, <1>12 DEF OvershootInv
  <2>1. Excess <= Bound
    BY DEF OvershootInv
  <2>2. Excess \in Int /\ Excess' \in Int /\ Bound \in Int
    BY <1>t, ExcessTypes, ExcessTypesNext
  <2> QED
    BY <1>12, <2>1, <2>2
<1> QED
  BY <1>8, <1>13

\* What a contraction does to the others: their views and allowances shrink.
LEMMA SubtractOthers ==
  ASSUME CountInv, CountInv', NEW u \in Threads, NEW n \in Nat, SubtractOf(u, n)
  PROVE  /\ base' = base /\ limit' = limit /\ threshold' = threshold /\ current' = current
         /\ pc[u] = "contract" /\ n <= MaxContractions
         /\ \A t \in Threads \ {u} : contracted'[t] = contracted[t] /\ pc'[t] = pc[t]
         /\ contracted'[u] = contracted[u] + n
         /\ Counted(Threads)' = Counted(Threads) + n
         /\ \A t \in Threads \ {u} : View(t)' <= View(t) /\ Allowance(t)' <= Allowance(t)
<1>t. PotentialOK /\ PotentialOK' /\ Types
  BY PotentialTypes, PotentialTypesNext DEF CountInv
<1>1. /\ base' = base /\ limit' = limit /\ threshold' = threshold /\ current' = current
      /\ pc[u] = "contract" /\ n <= MaxContractions
      /\ \A t \in Threads \ {u} : contracted'[t] = contracted[t] /\ pc'[t] = pc[t]
      /\ contracted'[u] = contracted[u] + n
  BY <1>t, TrackerAssumption DEF SubtractOf, Types
<1>2. Counted(Threads)' = Counted(Threads) + n
  BY <1>t, ViewAfterSubtract
<1>3. ASSUME NEW t \in Threads \ {u} PROVE View(t)' <= View(t)
  <2>1. View(t)' = IF u \in todo[t] THEN View(t) - n ELSE View(t)
    BY <1>t, ViewAfterSubtract
  <2> QED
    BY <1>t, <2>1 DEF PotentialOK
<1>4. ASSUME NEW t \in Threads \ {u} PROVE Allowance(t)' <= Allowance(t)
  <2>1. CASE pc[t] = "sum"
    <3>1. Positive(View(t)' - limit) \in Nat /\ Positive(View(t) - limit) \in Nat
          /\ Positive(View(t)' - limit) <= Positive(View(t) - limit)
      BY <1>3, <1>t DEF Positive, PotentialOK
    <3>2. Positive(View(t)' - limit) \div NumThreads <= Positive(View(t) - limit) \div NumThreads
      BY <3>1, DivMonotone, NumThreadsType
    <3>3. Allowance(t)' = Positive(View(t)' - limit) \div NumThreads
      BY <1>1, <2>1 DEF Allowance, Positive, NumThreads
    <3> QED
      BY <2>1, <3>2, <3>3 DEF Allowance
  <2>2. CASE pc[t] # "sum"
    <3>1. Allowance(t)' = Allowance(t)
      BY <1>1, <2>2 DEF Allowance, Positive
    <3> QED
      BY <1>t, <3>1 DEF PotentialOK
  <2> QED
    BY <2>1, <2>2
<1> QED
  BY <1>1, <1>2, <1>3, <1>4

\* The other counters have not fallen since the start of the pass.
LEMMA RestCounted ==
  ASSUME CountInv', PotentialOK', NEW u \in Threads
  PROVE  SumFunctionOnSet(contracted', Threads) - contracted'[u]
           >= SumFunctionOnSet(base', Threads) - base'[u]
<1> DEFINE f == base'
           g == contracted'
           R == Threads \ {u}
<1>1. \A t \in Threads : f[t] \in Int /\ g[t] \in Int /\ f[t] <= g[t]
  BY DEF CountInv, PotentialOK
<1>2. IsFiniteSet(Threads) /\ IsFiniteSet(R)
  BY TrackerAssumption, FS_RemoveElement
<1> HIDE DEF f, g
<1>3. /\ SumFunctionOnSet(f, Threads) = f[u] + SumFunctionOnSet(f, R)
      /\ SumFunctionOnSet(g, Threads) = g[u] + SumFunctionOnSet(g, R)
  BY <1>1, <1>2, SumRemove
<1>4. \A t \in R : f[t] \in Int /\ g[t] \in Int /\ f[t] <= g[t]
  BY <1>1
<1> HIDE DEF R
<1>5. SumFunctionOnSet(f, R) <= SumFunctionOnSet(g, R)
  BY <1>2, <1>4, SumMonotone
<1>6. SumFunctionOnSet(f, R) \in Int /\ SumFunctionOnSet(g, R) \in Int
  BY <1>2, <1>4, SumInt
<1>7. SumFunctionOnSet(g, Threads) - g[u] >= SumFunctionOnSet(f, Threads) - f[u]
  BY <1>1, <1>3, <1>5, <1>6
<1> QED
  BY <1>7 DEF f, g

\* After a contraction the allowances keep their bound.
LEMMA SubtractAllowance ==
  ASSUME CountInv, CountInv', NEW u \in Threads, NEW n \in Nat, SubtractOf(u, n), AllowanceInv
  PROVE  AllowanceInv'
<1>t. PotentialOK /\ PotentialOK' /\ Types
  BY PotentialTypes, PotentialTypesNext DEF CountInv
<1>1. /\ base' = base /\ limit' = limit /\ threshold' = threshold /\ current' = current
      /\ pc[u] = "contract" /\ n <= MaxContractions
      /\ \A t \in Threads \ {u} : contracted'[t] = contracted[t] /\ pc'[t] = pc[t]
      /\ contracted'[u] = contracted[u] + n
      /\ Counted(Threads)' = Counted(Threads) + n
  BY SubtractOthers
<1>3. ASSUME NEW t \in Threads \ {u}
      PROVE  /\ pc'[t] = "sum" => View(t)' + (contracted'[t] - base'[t]) <= StartNodes'
             /\ Allowance(t)' > 0 =>
                  NumThreads * Allowance(t)' + (contracted'[t] - base'[t]) <= StartNodes' - limit'
  <2>1. View(t)' <= View(t) /\ Allowance(t)' <= Allowance(t)
    BY SubtractOthers
  <2> QED
    BY <1>1, <2>1, AllowanceShrinks
<1>4. SUFFICES /\ pc'[u] = "sum" => View(u)' + (contracted'[u] - base'[u]) <= StartNodes'
               /\ Allowance(u)' > 0 =>
                    NumThreads * Allowance(u)' + (contracted'[u] - base'[u]) <= StartNodes' - limit'
  BY <1>3 DEF AllowanceInv, NumThreads
<1>5. CASE contracted[u] >= threshold[u]
  <2>1. pc'[u] = "sum" /\ View(u)' = InitialNumNodes - Counted(Threads)'
    BY <1>5, <1>t, ViewAfterSubtract DEF SubtractOf, Types
  <2>2. View(u)' + (contracted'[u] - base'[u]) <= StartNodes'
    <3>1. SumFunctionOnSet(contracted', Threads) - contracted'[u]
            >= SumFunctionOnSet(base, Threads) - base[u]
      BY <1>1, <1>t, RestCounted
    <3>2. StartNodes' = InitialNumNodes - SumFunctionOnSet(base, Threads)
      BY <1>1 DEF StartNodes
    <3>3. /\ contracted'[u] \in Int /\ base[u] \in Int /\ InitialNumNodes \in Int
          /\ SumFunctionOnSet(contracted', Threads) \in Int
      BY <1>t DEF PotentialOK, Counted
    <3>4. SumFunctionOnSet(base, Threads) \in Int
      BY <1>t, SumInt, TrackerAssumption DEF PotentialOK
    <3>5. View(u)' = InitialNumNodes - SumFunctionOnSet(contracted', Threads)
      BY <2>1 DEF Counted
    <3> QED
      BY <1>1, <3>1, <3>2, <3>3, <3>4, <3>5
  <2>3. Allowance(u)' > 0 =>
          NumThreads * Allowance(u)' + (contracted'[u] - base'[u]) <= StartNodes' - limit'
    <3> SUFFICES ASSUME Allowance(u)' > 0
        PROVE  NumThreads * Allowance(u)' + (contracted'[u] - base'[u]) <= StartNodes' - limit'
      OBVIOUS
    <3> DEFINE x == Positive(View(u)' - limit)
    <3>1. Allowance(u)' = x \div NumThreads /\ x \in Nat
      BY <1>1, <1>t, <2>1 DEF Allowance, Positive, NumThreads, PotentialOK
    <3>2. NumThreads * Allowance(u)' <= x
      <4> HIDE DEF x
      <4> QED
        BY <3>1, DivBounds, NumThreadsType
    <3>3. x > 0
      <4> HIDE DEF x
      <4>1. NumThreads * Allowance(u)' >= 1
        BY <1>t, NumThreadsType DEF PotentialOK
      <4>2. NumThreads * Allowance(u)' \in Int
        BY <1>t, NumThreadsType DEF PotentialOK
      <4> QED
        BY <3>1, <3>2, <4>1, <4>2
    <3>4. x = View(u)' - limit
      BY <1>t, <3>3 DEF Positive, PotentialOK
    <3>5. NumThreads * Allowance(u)' \in Int /\ View(u)' \in Int /\ limit \in Int
          /\ contracted'[u] \in Int /\ base'[u] \in Int /\ StartNodes' \in Int
      BY <1>1, <1>t, NumThreadsType DEF PotentialOK
    <3> HIDE DEF x
    <3> QED
      BY <1>1, <2>2, <3>2, <3>4, <3>5
  <2> QED
    BY <2>2, <2>3
<1>6. CASE ~(contracted[u] >= threshold[u])
  <2>1. pc'[u] = "idle"
    BY <1>6, <1>t DEF SubtractOf, Types
  <2>2. Allowance(u)' = Positive(Allowance(u) - n) /\ Allowance(u) > 0
    <3>1. Allowance(u) = threshold[u] - contracted[u] /\ Allowance(u) > 0
      BY <1>1, <1>6, <1>t DEF Allowance, Positive, PotentialOK
    <3>2. Allowance(u)' = Positive(threshold[u] - (contracted[u] + n))
      BY <1>1, <2>1 DEF Allowance, Positive
    <3>3. threshold[u] - (contracted[u] + n) = (threshold[u] - contracted[u]) - n
      BY <1>t DEF PotentialOK
    <3> QED
      BY <3>1, <3>2, <3>3
  <2>3. Allowance(u)' > 0 =>
          NumThreads * Allowance(u)' + (contracted'[u] - base'[u]) <= StartNodes' - limit'
    <3> SUFFICES ASSUME Allowance(u)' > 0
        PROVE  NumThreads * Allowance(u)' + (contracted'[u] - base'[u]) <= StartNodes' - limit'
      OBVIOUS
    <3> DEFINE a == Allowance(u)
    <3>1. Allowance(u)' = a - n /\ a \in Nat
      BY <1>t, <2>2 DEF Positive, PotentialOK
    <3>2. NumThreads * a + (contracted[u] - base[u]) <= StartNodes - limit
      BY <2>2 DEF AllowanceInv
    <3>3. StartNodes' = StartNodes /\ StartNodes \in Int /\ limit \in Int
          /\ contracted[u] \in Int /\ base[u] \in Int
      BY <1>1, <1>t DEF StartNodes, PotentialOK
    <3> HIDE DEF a
    <3>4. NumThreads * (a - n) + n <= NumThreads * a
          /\ NumThreads * (a - n) \in Int /\ NumThreads * a \in Int
      <4>1. NumThreads * (a - n) = NumThreads * a - NumThreads * n /\ n <= NumThreads * n
            /\ NumThreads * n \in Int /\ NumThreads * a \in Int
        BY <3>1, NumThreadsType
      <4> QED
        BY <4>1
    <3> QED
      BY <1>1, <3>1, <3>2, <3>3, <3>4
  <2> QED
    BY <2>1, <2>3
<1> QED
  BY <1>5, <1>6

\* If the limit is reached after a contraction, the potential has paid for it.
LEMMA SubtractPays ==
  ASSUME CountInv, CountInv', NEW u \in Threads, NEW n \in Nat, SubtractOf(u, n),
         InitialNumNodes - Counted(Threads)' <= limit
  PROVE  Excess' <= Excess /\ Bound' = Bound
<1>t. PotentialOK /\ PotentialOK' /\ Types
  BY PotentialTypes, PotentialTypesNext DEF CountInv
<1>1. /\ base' = base /\ limit' = limit /\ threshold' = threshold /\ current' = current
      /\ pc[u] = "contract" /\ n <= MaxContractions
      /\ \A t \in Threads \ {u} : contracted'[t] = contracted[t] /\ pc'[t] = pc[t]
      /\ contracted'[u] = contracted[u] + n
      /\ Counted(Threads)' = Counted(Threads) + n
  BY SubtractOthers
<1> DEFINE k == Cardinality(Outdated)
           j == Cardinality(Outdated)'
<1>2. pc'[u] = "sum" => View(u)' <= limit
  <2>1. pc'[u] = "sum" => View(u)' = InitialNumNodes - Counted(Threads)'
    BY <1>t, ViewAfterSubtract
  <2> QED
    BY <2>1
<1>3. k \in Nat /\ j \in Nat /\ j <= k
  <2>1. Outdated' \in SUBSET Outdated
    <3> SUFFICES ASSUME NEW t \in Threads, pc'[t] = "sum", View(t)' > limit
                 PROVE  pc[t] = "sum" /\ View(t) > limit
      BY <1>1 DEF Outdated
    <3>1. t # u
      <4>1. View(t)' \in Int /\ limit \in Int
        BY <1>t DEF PotentialOK
      <4> QED
        BY <1>2, <4>1
    <3>2. View(t)' <= View(t) /\ pc'[t] = pc[t]
      BY <3>1, SubtractOthers
    <3>3. View(t) \in Int /\ View(t)' \in Int /\ limit \in Int
      BY <1>t DEF PotentialOK
    <3> QED
      BY <3>2, <3>3
  <2> QED
    BY <1>t, <2>1, FS_Subset DEF PotentialOK
<1>4. \A t \in Threads : /\ Potential[t] = Pot(Allowance(t), k, Started(t))
                         /\ Potential'[t] = Pot(Allowance(t)', j, Started(t)')
                         /\ Started(t) \in Nat /\ Started(t)' \in Nat
                         /\ Allowance(t) \in Nat /\ Allowance(t)' \in Nat
  BY <1>t DEF Potential, Pot, Started, PotentialOK
<1> HIDE DEF k, j
<1>5. ASSUME NEW t \in Threads \ {u} PROVE Potential'[t] <= Potential[t]
  <2>1. Allowance(t)' <= Allowance(t)
    BY SubtractOthers
  <2>2. Started(t)' = Started(t)
    BY <1>1 DEF Started
  <2>3. j + Started(t)' <= k + Started(t)
    BY <1>3, <1>4, <2>2
  <2>4. Pot(Allowance(t)', j, Started(t)') <= Pot(Allowance(t), k, Started(t))
    BY <1>3, <1>4, <2>1, <2>3, PotMonotone
  <2> QED
    BY <1>4, <2>4
<1>6. Started(u) = 1 /\ Started(u)' \in {0, 1}
  BY <1>1 DEF Started
<1>7. Potential'[u] <= Potential[u] - n
  <2>1. CASE contracted[u] >= threshold[u]
    <3>1. pc'[u] = "sum"
      BY <1>t, <2>1 DEF SubtractOf, Types
    <3>2. Allowance(u) = 0
      BY <1>1, <1>t, <2>1 DEF Allowance, Positive, PotentialOK
    <3>3. Allowance(u)' = 0
      <4>1. Positive(View(u)' - limit) = 0
        BY <1>2, <1>t, <3>1 DEF Positive, PotentialOK
      <4>2. 0 \div NumThreads = 0
        BY NumThreadsType
      <4>3. Allowance(u)' = Positive(View(u)' - limit) \div NumThreads
        BY <1>1, <3>1 DEF Allowance, Positive, NumThreads
      <4> QED
        BY <4>1, <4>2, <4>3
    <3>4. Started(u)' = 0
      BY <3>1 DEF Started
    <3>5. Pot(0, j, 0) <= Pot(0, k, 1) - n
      BY <1>1, <1>3, PotIteration
    <3> QED
      BY <1>4, <1>6, <3>2, <3>3, <3>4, <3>5
  <2>2. CASE ~(contracted[u] >= threshold[u])
    <3>1. Allowance(u)' = Positive(Allowance(u) - n) /\ Allowance(u) > 0
      <4>1. pc'[u] = "idle"
        BY <1>t, <2>2 DEF SubtractOf, Types
      <4>2. Allowance(u) = threshold[u] - contracted[u] /\ Allowance(u) > 0
        BY <1>1, <2>2, <1>t DEF Allowance, Positive, PotentialOK
      <4>3. Allowance(u)' = Positive(threshold[u] - (contracted[u] + n))
        BY <1>1, <4>1 DEF Allowance, Positive
      <4>4. threshold[u] - (contracted[u] + n) = (threshold[u] - contracted[u]) - n
        BY <1>t DEF PotentialOK
      <4> QED
        BY <4>2, <4>3, <4>4
    <3>2. j + Started(u)' <= k + Started(u)
      BY <1>3, <1>6
    <3>3. Pot(Allowance(u)', j, Started(u)') <= Pot(Allowance(u), k, Started(u)) - n
      BY <1>1, <1>3, <1>4, <3>1, <3>2, PotSpend
    <3> QED
      BY <1>4, <3>3
  <2> QED
    BY <2>1, <2>2
<1> QED
  BY <1>1, <1>5, <1>7, PaidStep

\* Multiplication is monotone.
LEMMA TimesMonotone ==
  ASSUME NEW a \in Nat, NEW b \in Nat, NEW h \in Nat, a <= b
  PROVE  a * h <= b * h /\ h * a <= h * b /\ a * h \in Nat /\ b * h \in Nat
OBVIOUS

\* The size of a complement.
LEMMA CardinalityOfRest ==
  ASSUME NEW S, IsFiniteSet(S), NEW R \in SUBSET S
  PROVE  Cardinality(S \ R) = Cardinality(S) - Cardinality(R)
<1>1. S \cap R = R
  OBVIOUS
<1> QED
  BY <1>1, FS_Difference

\* The bound is not negative.
LEMMA BoundNotNegative == PotentialOK => Bound >= 0
<1> SUFFICES ASSUME PotentialOK PROVE Bound >= 0
  OBVIOUS
<1> DEFINE q == ((NumThreads - 1) * Positive(StartNodes - limit)) \div NumThreads
<1>1. q \in Nat /\ Iterations \in Nat /\ NumThreads \in Nat /\ MaxContractions \in Nat \ {0}
  BY ExcessTypes DEF PotentialOK
<1>2. NumThreads * (MaxContractions - 1) \in Nat
  <2>1. MaxContractions - 1 \in Nat
    BY <1>1
  <2> QED
    BY <1>1, <2>1
<1>3. Iterations * MaxContractions \in Nat
  BY <1>1
<1> HIDE DEF q
<1>4. q + Slack >= 0
  BY <1>1, <1>2, <1>3 DEF Slack
<1> QED
  BY <1>4 DEF Bound, q

\* Nor is it after a step.
LEMMA BoundPositive == (PotentialOK => Bound >= 0) /\ (PotentialOK' => (Bound >= 0)')
BY BoundNotNegative, PTL

\* Before the limit is reached, the threads were given shares of what was left, and
\* those who contracted something were given less.
LEMMA AllowanceSum ==
  ASSUME CountInv, AllowanceInv, InitialNumNodes - Counted(Threads) > limit
  PROVE  /\ StartNodes > limit
         /\ SumFunctionOnSet([t \in Threads |-> Allowance(t)], Threads)
              - (InitialNumNodes - Counted(Threads) - limit)
            <= ((NumThreads - 1) * (StartNodes - limit)) \div NumThreads
<1> DEFINE al == [t \in Threads |-> Allowance(t)]
           tal == [t \in Threads |-> NumThreads * Allowance(t)]
           d == [t \in Threads |-> contracted[t] - base[t]]
           both == [t \in Threads |-> NumThreads * Allowance(t) + (contracted[t] - base[t])]
           sa == SumFunctionOnSet(al, Threads)
           sd == SumFunctionOnSet(d, Threads)
           D == StartNodes - limit
           x == InitialNumNodes - Counted(Threads) - limit
<1>t. PotentialOK /\ IsFiniteSet(Threads)
  BY PotentialTypes, TrackerAssumption
<1>1. /\ NumThreads \in Nat \ {0} /\ limit \in Nat /\ InitialNumNodes \in Nat
      /\ Counted(Threads) \in Nat /\ StartNodes \in Int
      /\ \A t \in Threads : Allowance(t) \in Nat /\ contracted[t] \in Nat /\ base[t] \in Nat
  BY <1>t DEF PotentialOK
<1>2. \A t \in Threads : d[t] \in Nat /\ al[t] \in Nat /\ tal[t] \in Nat
  <2>1. \A t \in Threads : contracted[t] - base[t] \in Nat
    BY <1>1 DEF CountInv
  <2>2. \A t \in Threads : NumThreads * Allowance(t) \in Nat
    BY <1>1
  <2> QED
    BY <1>1, <2>1, <2>2
<1>3. sd = StartNodes - (InitialNumNodes - Counted(Threads)) /\ sd \in Nat
  <2>1. \A t \in Threads : d[t] \in Int /\ base[t] \in Int /\ contracted[t] = d[t] + base[t]
    BY <1>1
  <2>2. Counted(Threads) = sd + SumFunctionOnSet(base, Threads)
    <3> HIDE DEF d
    <3>1. SumFunctionOnSet(contracted, Threads)
            = SumFunctionOnSet(d, Threads) + SumFunctionOnSet(base, Threads)
      BY <1>t, <2>1, SumPlus
    <3> QED
      BY <3>1 DEF Counted
  <2>3. sd \in Nat
    <3> HIDE DEF d
    <3> QED
      BY <1>2, <1>t, SumSubset
  <2>4. SumFunctionOnSet(base, Threads) \in Int
    BY <1>1, <1>t, SumInt
  <2> HIDE DEF sd
  <2> QED
    BY <1>1, <2>2, <2>3, <2>4 DEF StartNodes
<1>4. D \in Nat /\ x \in Nat /\ x > 0 /\ sd = D - x /\ StartNodes > limit
  <2> HIDE DEF sd
  <2> QED
    BY <1>1, <1>3
<1>5. ASSUME NEW t \in Threads PROVE both[t] \in Int /\ both[t] <= D
  <2>1. both[t] = tal[t] + d[t] /\ both[t] \in Int
    BY <1>1, <1>2
  <2>2. CASE Allowance(t) > 0
    BY <2>1, <2>2 DEF AllowanceInv
  <2>3. CASE ~(Allowance(t) > 0)
    <3>1. d[t] <= sd
      <4> HIDE DEF d
      <4>0. Threads \ {t} \in SUBSET Threads
        OBVIOUS
      <4>1. SumFunctionOnSet(d, Threads) = d[t] + SumFunctionOnSet(d, Threads \ {t})
        BY <1>2, <1>t, SumRemove
      <4>2. SumFunctionOnSet(d, Threads \ {t}) \in Nat
        BY <1>2, <1>t, <4>0, SumSubset
      <4> QED
        BY <1>2, <4>1, <4>2
    <3>2. tal[t] = 0
      <4>1. Allowance(t) = 0
        BY <1>1, <2>3
      <4> QED
        BY <1>1, <4>1
    <3> HIDE DEF sd, d, tal, both, D, x
    <3> QED
      BY <1>2, <1>3, <1>4, <2>1, <3>1, <3>2
  <2> QED
    BY <2>2, <2>3
<1>6. SumFunctionOnSet(both, Threads) <= NumThreads * D
  <2> HIDE DEF both, D
  <2> QED
    BY <1>4, <1>5, <1>t, SumBounded DEF NumThreads
<1>7. SumFunctionOnSet(both, Threads) = NumThreads * sa + sd /\ sa \in Nat
  <2>1. \A t \in Threads : tal[t] \in Int /\ d[t] \in Int /\ both[t] = tal[t] + d[t]
    BY <1>2
  <2>2. \A t \in Threads : al[t] \in Int /\ tal[t] = NumThreads * al[t]
    BY <1>2
  <2>3. NumThreads \in Int
    BY <1>1
  <2> HIDE DEF both, d, al, tal
  <2>4. SumFunctionOnSet(both, Threads) = SumFunctionOnSet(tal, Threads) + SumFunctionOnSet(d, Threads)
    BY <1>t, <2>1, SumPlus
  <2>5. SumFunctionOnSet(tal, Threads) = NumThreads * SumFunctionOnSet(al, Threads)
    BY <1>t, <2>2, <2>3, SumTimes
  <2>6. SumFunctionOnSet(al, Threads) \in Nat
    BY <1>2, <1>t, SumSubset
  <2> QED
    BY <2>4, <2>5, <2>6
<1> HIDE DEF sa, sd, D, x, both
<1>8. NumThreads * (sa - x) <= (NumThreads - 1) * D
  <2>1. NumThreads * sa + (D - x) <= NumThreads * D
    BY <1>4, <1>6, <1>7
  <2>2. /\ NumThreads * (sa - x) = NumThreads * sa - NumThreads * x
        /\ (NumThreads - 1) * D = NumThreads * D - D
        /\ NumThreads * x >= x
        /\ NumThreads * sa \in Int /\ NumThreads * x \in Int /\ NumThreads * D \in Int
    BY <1>1, <1>4, <1>7
  <2> QED
    BY <1>4, <2>1, <2>2
<1>9. (NumThreads - 1) * D \in Nat /\ sa - x \in Int
  <2>1. NumThreads - 1 \in Nat
    BY <1>1
  <2> QED
    BY <1>4, <1>7, <2>1
<1>10. sa - x <= ((NumThreads - 1) * D) \div NumThreads
  BY <1>1, <1>8, <1>9, DivLargest
<1> QED
  BY <1>4, <1>10 DEF sa, D, x

\* Before the limit is reached, the potential is within the bound.
LEMMA ExcessBefore ==
  ASSUME CountInv, AllowanceInv, InitialNumNodes - Counted(Threads) > limit,
         NEW u \in Threads, pc[u] = "contract"
  PROVE  Excess <= Bound
<1> DEFINE M == MaxContractions
           N == NumThreads
           k == Cardinality(Outdated)
           Fresh == Threads \ Outdated
           c == (M - 1) + M * k
           al == [t \in Threads |-> Allowance(t)]
           one == [t \in Threads |-> IF t \in Fresh THEN 1 ELSE 0]
           cost == [t \in Threads |-> M * (IF t \in Fresh THEN 1 ELSE 0)]
           const == [t \in Threads |-> c]
           rest == [t \in Threads |-> c + M * (IF t \in Fresh THEN 1 ELSE 0)]
           all == [t \in Threads |-> Allowance(t) + (c + M * (IF t \in Fresh THEN 1 ELSE 0))]
           sa == SumFunctionOnSet(al, Threads)
<1>t. PotentialOK /\ IsFiniteSet(Threads)
  BY PotentialTypes, TrackerAssumption
<1>1. M \in Nat \ {0} /\ N \in Nat \ {0} /\ k \in Nat /\ c \in Nat
  <2>1. M \in Nat \ {0} /\ N \in Nat \ {0} /\ k \in Nat
    BY <1>t DEF PotentialOK
  <2>2. M * k \in Nat
    BY <2>1
  <2> QED
    BY <2>1, <2>2
<1>2. k <= N - 1 /\ Cardinality(Fresh) = N - k
  <2>1. Outdated \in SUBSET (Threads \ {u})
    BY DEF Outdated
  <2>2. Cardinality(Threads \ {u}) = Cardinality(Threads) - 1 /\ IsFiniteSet(Threads \ {u})
    BY <1>t, FS_RemoveElement
  <2>3. k <= Cardinality(Threads \ {u})
    BY <2>1, <2>2, FS_Subset
  <2>4. Outdated \in SUBSET Threads
    BY <2>1
  <2>5. Cardinality(Threads \ Outdated) = Cardinality(Threads) - Cardinality(Outdated)
    BY <1>t, <2>4, CardinalityOfRest
  <2> QED
    BY <1>1, <2>2, <2>3, <2>5 DEF NumThreads
<1>3. \A t \in Threads : /\ al[t] \in Int /\ one[t] \in Int /\ cost[t] \in Int /\ const[t] \in Int
                         /\ rest[t] \in Int /\ all[t] \in Int
                         /\ cost[t] = M * one[t] /\ rest[t] = const[t] + cost[t]
                         /\ all[t] = al[t] + rest[t] /\ const[t] <= c
                         /\ one[t] = IF t \in Fresh THEN 1 ELSE 0
  <2>1. \A t \in Threads : Allowance(t) \in Int
    BY <1>t DEF PotentialOK
  <2>2. M * 0 \in Int /\ M * 1 \in Int
    BY <1>1
  <2> HIDE DEF M, c, Fresh
  <2> QED
    BY <1>1, <2>1, <2>2
<1>4. ASSUME NEW t \in Threads PROVE Potential[t] \in Int /\ Potential[t] <= all[t]
  <2> DEFINE s == IF t \in Fresh THEN 1 ELSE 0
  <2>1. Started(t) \in Nat /\ Started(t) <= s /\ s \in Nat
    BY DEF Started, Outdated
  <2>2. Potential[t] = Pot(Allowance(t), k, Started(t)) /\ Allowance(t) \in Nat
        /\ Potential[t] \in Int
    BY <1>t, PotentialIs DEF PotentialOK
  <2>3. Pot(Allowance(t), k, Started(t)) <= Pot(Allowance(t), k, s)
    <3> HIDE DEF s, k
    <3> QED
      BY <1>1, <2>1, <2>2, PotMonotone
  <2>4. Pot(Allowance(t), k, s) <= Allowance(t) + (c + M * s)
    <3>1. M * (k + s) = M * k + M * s /\ M * k \in Int /\ M * s \in Int
      BY <1>1, <2>1
    <3> HIDE DEF s, k
    <3> QED
      BY <1>1, <2>2, <3>1 DEF Pot
  <2>5. all[t] = Allowance(t) + (c + M * s) /\ all[t] \in Int
    BY <1>3
  <2>6. Pot(Allowance(t), k, s) \in Int
    <3>1. M * (k + s) \in Int
      BY <1>1, <2>1
    <3> HIDE DEF s, k
    <3> QED
      BY <1>1, <2>2, <3>1 DEF Pot
  <2> HIDE DEF s, k, all, c
  <2> QED
    BY <2>2, <2>3, <2>4, <2>5, <2>6
<1>5. SumFunctionOnSet(Potential, Threads) <= sa + (N * c + M * (N - k))
  <2> HIDE DEF al, one, cost, const, rest, all, Fresh, c, k, M
  <2>1. SumFunctionOnSet(Potential, Threads) <= SumFunctionOnSet(all, Threads)
    BY <1>3, <1>4, <1>t, SumMonotone
  <2>2. SumFunctionOnSet(all, Threads) = sa + SumFunctionOnSet(rest, Threads)
    BY <1>3, <1>t, SumPlus
  <2>3. SumFunctionOnSet(rest, Threads)
          = SumFunctionOnSet(const, Threads) + SumFunctionOnSet(cost, Threads)
    BY <1>3, <1>t, SumPlus
  <2>4. SumFunctionOnSet(const, Threads) <= N * c
    BY <1>1, <1>3, <1>t, SumBounded DEF NumThreads
  <2>5. SumFunctionOnSet(cost, Threads) = M * SumFunctionOnSet(one, Threads)
    <3>1. M \in Int
      BY <1>1
    <3> QED
      BY <1>3, <1>t, <3>1, SumTimes
  <2>6. SumFunctionOnSet(one, Threads) = N - k
    <3>1. Fresh \in SUBSET Threads
      BY DEF Fresh
    <3>2. SumFunctionOnSet(one, Threads) = Cardinality(Fresh)
      BY <1>3, <1>t, <3>1, SumCount
    <3> QED
      BY <1>2, <3>2
  <2>7. /\ SumFunctionOnSet(const, Threads) \in Int /\ SumFunctionOnSet(cost, Threads) \in Int
        /\ sa \in Int /\ SumFunctionOnSet(all, Threads) \in Int
        /\ SumFunctionOnSet(Potential, Threads) \in Int
    BY <1>3, <1>4, <1>t, SumInt
  <2>8. N * c \in Int /\ M * (N - k) \in Int
    BY <1>1
  <2> HIDE DEF sa
  <2> QED
    BY <2>1, <2>2, <2>3, <2>4, <2>5, <2>6, <2>7, <2>8
<1>6. N * c + M * (N - k) <= Slack
  <2>1. /\ N * c = N * (M - 1) + N * (M * k)
        /\ M * (N - k) = M * N - M * k
        /\ N * (M * k) - M * k = M * ((N - 1) * k)
        /\ (N + (N - 1) * (N - 1)) * M = M * N + M * ((N - 1) * (N - 1))
    <3> HIDE DEF M, N, k
    <3> QED
      BY <1>1
  <2>2. (N - 1) * k <= (N - 1) * (N - 1) /\ (N - 1) * k \in Nat /\ (N - 1) * (N - 1) \in Nat
    <3>1. N - 1 \in Nat
      BY <1>1
    <3> HIDE DEF N, k
    <3> QED
      BY <1>1, <1>2, <3>1, TimesMonotone
  <2>3. M * ((N - 1) * k) <= M * ((N - 1) * (N - 1))
    <3> HIDE DEF M, N, k
    <3> QED
      BY <1>1, <2>2, TimesMonotone
  <2>4. /\ N * (M - 1) \in Int /\ M * k \in Int /\ M * N \in Int
        /\ N * (M * k) \in Int /\ M * ((N - 1) * k) \in Int /\ M * ((N - 1) * (N - 1)) \in Int
    <3> HIDE DEF M, N, k
    <3>1. M * k \in Int
      BY <1>1
    <3> QED
      BY <1>1, <2>2, <3>1
  <2>5. Slack = N * (M - 1) + (N + (N - 1) * (N - 1)) * M
    BY DEF Slack, Iterations
  <2> HIDE DEF M, N, k, c
  <2> QED
    BY <2>1, <2>3, <2>4, <2>5
<1>7. StartNodes > limit /\
      sa - (InitialNumNodes - Counted(Threads) - limit)
        <= ((NumThreads - 1) * (StartNodes - limit)) \div NumThreads
  BY AllowanceSum
<1>8. Excess = limit - (InitialNumNodes - Counted(Threads)) + SumFunctionOnSet(Potential, Threads)
  BY <1>7 DEF Excess
<1>9. Positive(StartNodes - limit) = StartNodes - limit
  BY <1>7, <1>t DEF Positive, PotentialOK
<1> DEFINE q == ((NumThreads - 1) * (StartNodes - limit)) \div NumThreads
           p == SumFunctionOnSet(Potential, Threads)
           A == InitialNumNodes - Counted(Threads)
           w == N * c + M * (N - k)
<1>10. Bound = q + Slack /\ q \in Int /\ Slack \in Int
  BY <1>9, <1>t, ExcessTypes DEF Bound
<1>11. p \in Int /\ A \in Int /\ sa \in Int /\ limit \in Int
  <2>1. sa \in Int
    <3> HIDE DEF al
    <3> QED
      BY <1>3, <1>t, SumInt
  <2> QED
    BY <2>1, <1>t DEF PotentialOK
<1>12. w \in Int
  <2>1. N * c \in Int /\ M * (N - k) \in Int
    <3> HIDE DEF M, N, k, c
    <3> QED
      BY <1>1
  <2> QED
    BY <2>1
<1>13. sa - (A - limit) <= q /\ p <= sa + w /\ w <= Slack /\ Excess = limit - A + p
  BY <1>5, <1>6, <1>7, <1>8
<1> HIDE DEF q, p, A, w, sa
<1> QED
  BY <1>10, <1>11, <1>12, <1>13

\* A new pass starts with no allowances and no iterations.
LEMMA NextPassPotential ==
  ASSUME CountInv, CountInv', NextPass
  PROVE  AllowanceInv' /\ OvershootInv'
<1>t. PotentialOK /\ PotentialOK' /\ IsFiniteSet(Threads)
  BY PotentialTypes, PotentialTypesNext, TrackerAssumption
<1>1. /\ contracted' = contracted /\ base' = contracted /\ pc' = pc
      /\ \A t \in Threads : pc[t] = "idle" /\ threshold'[t] = 0
  BY DEF NextPass
<1>2. current' = InitialNumNodes - Counted(Threads) /\ Counted(Threads)' = Counted(Threads)
  BY TotalIsSum DEF NextPass, ActualNumNodes, Counted
<1>3. \A t \in Threads : Allowance(t)' = 0
  <2> SUFFICES ASSUME NEW t \in Threads PROVE Allowance(t)' = 0
    OBVIOUS
  <2>1. Allowance(t)' = Positive(0 - contracted[t])
    BY <1>1 DEF Allowance, Positive
  <2>2. contracted[t] \in Nat
    BY <1>t DEF PotentialOK
  <2> QED
    BY <2>1, <2>2 DEF Positive
<1>4. AllowanceInv'
  BY <1>1, <1>3 DEF AllowanceInv
<1>5. ASSUME InitialNumNodes - Counted(Threads)' <= limit' PROVE Excess' <= Bound'
  <2>1. Outdated' = {} /\ \A t \in Threads : Started(t)' = 0
    <3>1. \A t \in Threads : pc'[t] = "idle"
      BY <1>1
    <3>2. Outdated' = {}
      BY <3>1 DEF Outdated
    <3>3. ~(current' > limit')
      <4>1. current' <= limit'
        BY <1>2, <1>5
      <4>2. current' \in Int /\ limit' \in Int
        BY <1>2, <1>t DEF PotentialOK
      <4> QED
        BY <4>1, <4>2
    <3>4. \A t \in Threads : Started(t)' = 0
      BY <3>1, <3>3 DEF Started
    <3> QED
      BY <3>2, <3>4
  <2>2. Cardinality(Outdated)' = 0
    BY <2>1, FS_EmptySet
  <2>3. \A t \in Threads : Potential'[t] = 0
    <3> SUFFICES ASSUME NEW t \in Threads PROVE Potential'[t] = 0
      OBVIOUS
    <3>1. Potential'[t] = Allowance(t)' + (IF Allowance(t)' > 0 THEN MaxContractions - 1 ELSE 0)
                       + MaxContractions * (Cardinality(Outdated)' + Started(t)')
      BY DEF Potential
    <3> QED
      BY <1>3, <2>1, <2>2, <3>1, TrackerAssumption
  <2>4. SumFunctionOnSet(Potential', Threads) <= Cardinality(Threads) * 0
    <3> DEFINE f == Potential'
    <3>1. \A t \in Threads : f[t] \in Int /\ f[t] <= 0
      BY <2>3
    <3> HIDE DEF f
    <3>2. SumFunctionOnSet(f, Threads) <= Cardinality(Threads) * 0
      BY <1>t, <3>1, SumBounded
    <3> QED
      BY <3>2 DEF f
  <2>5. Cardinality(Threads) * 0 = 0
    BY <1>t, FS_CardinalityType
  <2>6. StartNodes' = InitialNumNodes - Counted(Threads)'
    BY <1>1 DEF StartNodes, Counted
  <2>7. Excess' <= 0
    <3>1. SumFunctionOnSet(Potential', Threads) \in Int /\ StartNodes' \in Int /\ limit' \in Int
      BY <1>t DEF PotentialOK
    <3>2. ~(StartNodes' > limit')
      BY <1>5, <2>6, <3>1
    <3>3. Excess' = StartNodes' - (InitialNumNodes - Counted(Threads)')
                      + SumFunctionOnSet(Potential', Threads)
      BY <3>2 DEF Excess
    <3> QED
      BY <2>4, <2>5, <2>6, <3>1, <3>3
  <2>8. Bound' >= 0
    BY <1>t, BoundPositive
  <2> QED
    BY <1>t, <2>7, <2>8, ExcessTypesNext
<1> QED
  BY <1>4, <1>5 DEF OvershootInv

\* What is proved about allowances and excess, in one piece.
OverInv == AllowanceInv /\ OvershootInv

\* Every step keeps them.
LEMMA OverInvStep == CountInv /\ CountInv' /\ OverInv /\ [Next]_vars => OverInv'
<1> SUFFICES ASSUME CountInv, CountInv', AllowanceInv, OvershootInv, [Next]_vars
             PROVE  AllowanceInv' /\ OvershootInv'
  BY DEF OverInv
<1>1. CASE UNCHANGED vars
  <2>1. \A t \in Threads : View(t)' = View(t)
    BY <1>1 DEF vars, View, Counted
  <2>2. /\ contracted' = contracted /\ base' = base /\ limit' = limit /\ pc' = pc
        /\ current' = current /\ threshold' = threshold
    BY <1>1 DEF vars
  <2>3. Outdated' = Outdated /\ \A t \in Threads : Started(t)' = Started(t)
    BY <2>1, <2>2 DEF Outdated, Started
  <2>4. \A t \in Threads : Allowance(t)' = Allowance(t)
    BY <2>1, <2>2 DEF Allowance, Positive, NumThreads
  <2> QED
    BY <2>1, <2>2, <2>3, <2>4, QuietStep
<1>2. CASE NextPass
  BY <1>2, NextPassPotential
<1>3. ASSUME NEW u \in Threads, Continue(u) PROVE AllowanceInv' /\ OvershootInv'
  BY <1>3, ContinuePotential
<1>4. ASSUME NEW u \in Threads, SumUp(u) PROVE AllowanceInv' /\ OvershootInv'
  BY <1>4, SumUpPotential
<1>5. ASSUME NEW u \in Threads, Store(u) PROVE AllowanceInv' /\ OvershootInv'
  BY <1>5, StorePotential
<1>6. ASSUME NEW u \in Threads, Subtract(u) PROVE AllowanceInv' /\ OvershootInv'
  <2>1. PICK n \in Nat : SubtractOf(u, n)
    BY <1>6, SubtractIs DEF CountInv
  <2>2. AllowanceInv'
    BY <2>1, SubtractAllowance
  <2>3. ASSUME InitialNumNodes - Counted(Threads)' <= limit' PROVE Excess' <= Bound'
    <3>1. limit' = limit /\ pc[u] = "contract"
      BY <2>1 DEF SubtractOf
    <3>2. Excess' <= Excess /\ Bound' = Bound
      BY <2>1, <2>3, <3>1, SubtractPays
    <3>3. PotentialOK /\ PotentialOK'
      BY PotentialTypes, PotentialTypesNext
    <3>4. Excess <= Bound
      <4>1. CASE InitialNumNodes - Counted(Threads) <= limit
        BY <4>1 DEF OvershootInv
      <4>2. CASE ~(InitialNumNodes - Counted(Threads) <= limit)
        <5>1. InitialNumNodes - Counted(Threads) > limit
          BY <3>3, <4>2 DEF PotentialOK
        <5> QED
          BY <3>1, <5>1, ExcessBefore
      <4> QED
        BY <4>1, <4>2
    <3>5. Excess \in Int /\ Excess' \in Int /\ Bound \in Int
      BY <3>3, ExcessTypes, ExcessTypesNext
    <3> QED
      BY <3>2, <3>4, <3>5
  <2> QED
    BY <2>2, <2>3 DEF OvershootInv
<1> QED
  BY <1>1, <1>2, <1>3, <1>4, <1>5, <1>6 DEF Next

\* Initially no thread has an allowance, and the limit is not exceeded.
LEMMA OverInvInit == Init => OverInv
<1> SUFFICES ASSUME Init PROVE AllowanceInv /\ OvershootInv
  BY DEF OverInv
<1>t. CountInv /\ PotentialOK
  BY CountInvInit, PotentialTypes
<1>1. \A t \in Threads : /\ pc[t] = "idle" /\ threshold[t] = 0 /\ contracted[t] = 0
                         /\ Allowance(t) = 0
  BY DEF Init, Allowance, Positive
<1>2. AllowanceInv
  BY <1>1 DEF AllowanceInv
<1>3. base = contracted /\ current = InitialNumNodes
  BY DEF Init
<1>4. StartNodes = InitialNumNodes - Counted(Threads)
  BY <1>3 DEF StartNodes, Counted
<1>5. ASSUME InitialNumNodes - Counted(Threads) <= limit PROVE Excess <= Bound
  <2>1. Counted(Threads) <= Cardinality(Threads) * 0 /\ Cardinality(Threads) \in Nat
    <3>1. \A t \in Threads : contracted[t] \in Int /\ contracted[t] <= 0
      BY <1>1
    <3> QED
      BY <3>1, TrackerAssumption, SumBounded, FS_CardinalityType DEF Counted
  <2>2. ~(current > limit)
    BY <1>3, <1>5, <1>t, <2>1 DEF PotentialOK
  <2>3. Outdated = {} /\ \A t \in Threads : Started(t) = 0
    BY <1>1, <2>2 DEF Outdated, Started
  <2>4. Cardinality(Outdated) = 0
    BY <2>3, FS_EmptySet
  <2>5. \A t \in Threads : Potential[t] = 0
    BY <1>1, <2>3, <2>4, TrackerAssumption DEF Potential
  <2>6. SumFunctionOnSet(Potential, Threads) <= Cardinality(Threads) * 0
    <3>1. \A t \in Threads : Potential[t] \in Int /\ Potential[t] <= 0
      BY <2>5
    <3> QED
      BY <3>1, TrackerAssumption, SumBounded
  <2>7. Excess <= 0
    <3>1. SumFunctionOnSet(Potential, Threads) \in Int /\ StartNodes \in Int /\ limit \in Int
      BY <1>t DEF PotentialOK
    <3>2. ~(StartNodes > limit)
      BY <1>4, <1>5, <3>1
    <3>3. Excess = StartNodes - (InitialNumNodes - Counted(Threads))
                      + SumFunctionOnSet(Potential, Threads)
      BY <3>2 DEF Excess
    <3> QED
      BY <1>4, <2>1, <2>6, <3>1, <3>3
  <2> QED
    BY <1>t, <2>7, BoundPositive, ExcessTypes
<1> QED
  BY <1>2, <1>5 DEF OvershootInv

\* A pass contracts its distance to the limit, at most the shares of the other
\* threads on top of it, and a number of nodes that depends on the number of threads
\* and the size of an iteration only, however long a thread is delayed between
\* summing up the counters and storing the result.
THEOREM PassOvershoot == Spec => []PassOvershootBounded
<1>1. CountInv /\ OverInv => PassOvershootBounded
  <2> SUFFICES ASSUME CountInv, OvershootInv PROVE PassOvershootBounded
    BY DEF OverInv
  <2>1. /\ ActualNumNodes = InitialNumNodes - Counted(Threads)
        /\ Start = StartNodes
    BY TotalIsSum DEF ActualNumNodes, Counted, Start, StartNodes
  <2> DEFINE q == ((NumThreads - 1) * Positive(StartNodes - limit)) \div NumThreads
             A == InitialNumNodes - Counted(Threads)
             p == SumFunctionOnSet(Potential, Threads)
             g == IF StartNodes > limit THEN limit ELSE StartNodes
  <2>2. PotentialOK
    BY PotentialTypes
  <2>3. Distance = Positive(StartNodes - limit) /\ StartNodes - Distance = g
    BY <2>1, <2>2 DEF Distance, Positive, PotentialOK
  <2>4. q \in Nat /\ Slack \in Int /\ Bound = q + Slack /\ Bound >= 0
    BY <2>2, ExcessTypes, BoundPositive DEF Bound
  <2>5. A \in Int /\ p \in Nat /\ g \in Int /\ Excess = g - A + p /\ limit \in Int
    BY <2>2 DEF PotentialOK, Excess
  <2>6. A <= limit => Excess <= q + Slack
    BY <2>4 DEF OvershootInv
  <2>7. A >= g - q - Slack
    <3> HIDE DEF A, p, q
    <3>1. CASE A <= limit
      <4> HIDE DEF g
      <4> QED
        BY <2>4, <2>5, <2>6, <3>1
    <3>2. CASE ~(A <= limit)
      <4>1. g <= limit
        BY <2>2 DEF PotentialOK
      <4> HIDE DEF g
      <4> QED
        BY <2>4, <2>5, <3>2, <4>1
    <3> QED
      BY <3>1, <3>2
  <2>8. PassOvershootBounded <=> A >= g - q - Slack
    BY <2>1, <2>3 DEF PassOvershootBounded
  <2> QED
    BY <2>7, <2>8
<1> QED
  BY <1>1, Counting, OverInvInit, OverInvStep, PTL DEF Spec
=============================================================================
