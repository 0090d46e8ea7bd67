-------------------------- MODULE MultiTryFM_proofs -------------------------
(***************************************************************************)
(* Proofs about FM: every node belongs to one search, although the         *)
(* searches acquire nodes without locks and the ids of the searches run    *)
(* out; the sequence of moves explains the partition, also after the       *)
(* rebalancer; the gains the rollback recomputes are exact, and it takes   *)
(* the best balanced prefix.                                               *)
(***************************************************************************)
EXTENDS MultiTryFM, SumTheorems, SequenceTheorems, FiniteSetTheorems, TLAPS

\* Blocks that occur during a round: those of the partition it starts from, and targets.
BlockValues == Blocks \union {start[u] : u \in Nodes}
LocalMoveType == [node : Nodes, from : BlockValues, to : Blocks]
TaskSteps == {"start", "seed", "find", "apply", "flush", "expand", "reset", "finished"}

FMTypeOK ==
  /\ DOMAIN part = Nodes /\ (phase = "search" => \A u \in Nodes : part[u] \in BlockValues)
  /\ searchOfNode \in [Nodes -> Nat]
  /\ highestID \in 0..MaxSearchID /\ deactivated \in Nat \ {0}
  /\ refinementNodes \in SUBSET Nodes
  /\ pc \in [Tasks -> TaskSteps]
  /\ search \in [Tasks -> Nat]
  /\ queue \in [Tasks -> SUBSET (Nodes \X BlockValues)] /\ DOMAIN released = Tasks
  /\ localMoves \in [Tasks -> Seq(LocalMoveType)]
  /\ DOMAIN move = Tasks /\ \A t \in Tasks : pc[t] = "apply" => move[t] \in LocalMoveType

\* A task has nodes only while a search of it runs.
PlacesOK ==
  /\ phase # "search" => \A t \in Tasks : pc[t] = "finished"
  /\ \A t \in Tasks :
       /\ pc[t] \in {"start", "finished"} => queue[t] = {}
       /\ pc[t] # "reset" => released[t] = {}
       /\ pc[t] \in {"start", "finished", "seed"} => localMoves[t] = <<>>
       /\ pc[t] = "flush" => localMoves[t] # <<>>

\* The nodes of a search: in its queue and not released, in its unapplied moves, and in the
\* move it is about to make.
MoveNodes(t) == IF pc[t] = "apply" THEN {move[t].node} ELSE {}
Held(t) == OwnedNodes(t) \union LocalNodes(t) \union MoveNodes(t)

QueueOK(t) ==
  \A q \in queue[t] \ released[t] : searchOfNode[q[1]] = search[t] /\ part[q[1]] = q[2]
LocalOK(t) ==
  /\ \A i \in DOMAIN localMoves[t] :
       searchOfNode[localMoves[t][i].node] = deactivated /\ part[localMoves[t][i].node] = localMoves[t][i].from
  /\ \A i, j \in DOMAIN localMoves[t] : localMoves[t][i].node = localMoves[t][j].node => i = j
MoveOK(t) ==
  pc[t] = "apply" => /\ searchOfNode[move[t].node] = deactivated /\ part[move[t].node] = move[t].from
                     /\ move[t].node \notin LocalNodes(t)
HeldOK ==
  /\ \A t \in Tasks : QueueOK(t) /\ LocalOK(t) /\ MoveOK(t)
  /\ \A s, t \in Tasks : s # t => Held(s) \intersect Held(t) = {}

\* Tasks that may start another search without taking a seed node.
Eager == {t \in Tasks : pc[t] # "finished" /\ ~(pc[t] = "seed" /\ queue[t] = {})}
Running(t) == pc[t] \notin {"start", "finished"}

IdsOK ==
  /\ highestID + Cardinality(refinementNodes) + Cardinality(Eager) <= MaxSearchID + 1
  /\ deactivated <= highestID
  /\ \A t \in Tasks : Running(t) => deactivated < search[t] /\ search[t] <= highestID
  /\ \A s, t \in Tasks : s # t /\ Running(s) /\ Running(t) => search[s] # search[t]

\* The last id was used for a search that finds no seed node any more.
WrappedAround ==
  highestID = 0 /\ refinementNodes = {} /\ \A t \in Tasks :
    pc[t] = "finished" \/ (pc[t] = "seed" /\ queue[t] = {})

SearchInv == FMTypeOK /\ PlacesOK /\ HeldOK /\ (phase = "search" => IdsOK \/ WrappedAround)

-----------------------------------------------------------------------------
(***************************************************************************)
(* What a step of a task changes.                                          *)
(***************************************************************************)

\* Only the task that takes the step changes its search.
OthersStay(t) ==
  \A s \in Tasks : s # t =>
    /\ pc'[s] = pc[s] /\ search'[s] = search[s] /\ queue'[s] = queue[s] /\ released'[s] = released[s]
    /\ localMoves'[s] = localMoves[s] /\ move'[s] = move[s]

\* The types of what a step of a task changes.
LEMMA BlockValuesStay == ASSUME start' = start
                         PROVE  BlockValues' = BlockValues /\ LocalMoveType' = LocalMoveType
BY DEF BlockValues, LocalMoveType

\* A task begins another search, or ends.
LEMMA TaskLoopEffect ==
  ASSUME FMTypeOK, NEW t \in Tasks, TaskLoop(t)
  PROVE  /\ highestID' \in 0..MaxSearchID
         /\ pc' \in [Tasks -> TaskSteps] /\ search' \in [Tasks -> Nat]
         /\ localMoves' \in [Tasks -> Seq(LocalMoveType)] /\ localMoves'[t] = <<>>
         /\ \A s \in Tasks : s # t =>
              pc'[s] = pc[s] /\ search'[s] = search[s] /\ localMoves'[s] = localMoves[s]
         /\ \/ pc'[t] = "seed" /\ highestID' = NextID(highestID) /\ search'[t] = highestID'
            \/ pc'[t] = "finished" /\ highestID' = highestID
<1> USE DEF FMTypeOK, Goto
<1> HIDE DEF LocalMoveType
<1>0. <<>> \in Seq(LocalMoveType)
  OBVIOUS
<1>1. CASE StartSearch(t) /\ Goto(t, "seed")
  <2>1. NextID(highestID) \in 0..MaxSearchID
    BY FMAssumption DEF NextID
  <2>2. highestID' = NextID(highestID) /\ search' = [search EXCEPT ![t] = NextID(highestID)]
        /\ localMoves' = [localMoves EXCEPT ![t] = <<>>] /\ pc' = [pc EXCEPT ![t] = "seed"]
    BY <1>1 DEF StartSearch
  <2>3. "seed" \in TaskSteps
    BY DEF TaskSteps
  <2>4. pc' \in [Tasks -> TaskSteps] /\ pc'[t] = "seed" /\ \A s \in Tasks : s # t => pc'[s] = pc[s]
    BY <2>2, <2>3
  <2>5. localMoves' \in [Tasks -> Seq(LocalMoveType)] /\ localMoves'[t] = <<>>
        /\ \A s \in Tasks : s # t => localMoves'[s] = localMoves[s]
    BY <1>0, <2>2
  <2>6. search' \in [Tasks -> Nat] /\ search'[t] = highestID' /\ \A s \in Tasks : s # t => search'[s] = search[s]
    BY <2>1, <2>2
  <2> QED BY <2>1, <2>2, <2>4, <2>5, <2>6
<1>2. CASE FinishTask(t) /\ localMoves' = [localMoves EXCEPT ![t] = <<>>] /\ UNCHANGED <<highestID, search>>
  <2>1. pc' = [pc EXCEPT ![t] = "finished"] /\ "finished" \in TaskSteps
    BY <1>2 DEF FinishTask, TaskSteps
  <2>2. pc' \in [Tasks -> TaskSteps] /\ pc'[t] = "finished" /\ \A s \in Tasks : s # t => pc'[s] = pc[s]
    BY <2>1
  <2>3. localMoves' \in [Tasks -> Seq(LocalMoveType)] /\ localMoves'[t] = <<>>
        /\ \A s \in Tasks : s # t => localMoves'[s] = localMoves[s]
    BY <1>0, <1>2
  <2> QED BY <1>2, <2>2, <2>3
<1> QED BY <1>1, <1>2 DEF TaskLoop

\* A node that can be acquired belongs to no search.
LEMMA FreeIsNotHeld ==
  ASSUME FMTypeOK, PlacesOK, HeldOK, IdsOK \/ WrappedAround, NEW u \in Free, NEW s \in Tasks
  PROVE  u \notin Held(s)
<1>1. u \in Nodes /\ searchOfNode[u] \in Nat /\ deactivated \in Nat /\ searchOfNode[u] < deactivated
  BY DEF Free, IsSearchInactive, FMTypeOK
<1>2. u \notin OwnedNodes(s)
  <2> SUFFICES ASSUME NEW q \in queue[s] \ released[s], q[1] = u PROVE FALSE
    BY DEF OwnedNodes
  <2>1. searchOfNode[u] = search[s]
    BY DEF HeldOK, QueueOK
  <2>2. Running(s) /\ ~WrappedAround
    BY DEF PlacesOK, Running, WrappedAround
  <2>3. deactivated < search[s]
    BY <2>2 DEF IdsOK
  <2> QED BY <1>1, <2>1, <2>3
<1>3. u \notin LocalNodes(s)
  BY <1>1 DEF LocalNodes, HeldOK, LocalOK
<1>4. u \notin MoveNodes(s)
  BY <1>1 DEF MoveNodes, HeldOK, MoveOK
<1> QED BY <1>2, <1>3, <1>4 DEF Held

\* What a step does not touch stays with its search.
LEMMA OtherHeld ==
  ASSUME FMTypeOK, HeldOK, NEW t \in Tasks, OthersStay(t), deactivated' = deactivated, start' = start,
         NEW s \in Tasks, s # t,
         \A u \in Held(s) : searchOfNode'[u] = searchOfNode[u] /\ part'[u] = part[u]
  PROVE  Held(s)' = Held(s) /\ QueueOK(s)' /\ LocalOK(s)' /\ MoveOK(s)'
<1>0. /\ pc'[s] = pc[s] /\ search'[s] = search[s] /\ queue'[s] = queue[s] /\ released'[s] = released[s]
      /\ localMoves'[s] = localMoves[s] /\ move'[s] = move[s]
  BY DEF OthersStay
<1>1. /\ OwnedNodes(s)' = OwnedNodes(s) /\ LocalNodes(s)' = LocalNodes(s) /\ MoveNodes(s)' = MoveNodes(s)
  BY <1>0 DEF OwnedNodes, LocalNodes, MoveNodes
<1>2. QueueOK(s) /\ LocalOK(s) /\ MoveOK(s)
  BY DEF HeldOK
<1>3. /\ \A q \in queue[s] \ released[s] : q[1] \in Held(s)
      /\ \A i \in DOMAIN localMoves[s] : localMoves[s][i].node \in Held(s)
      /\ pc[s] = "apply" => move[s].node \in Held(s)
  BY DEF Held, OwnedNodes, LocalNodes, MoveNodes
<1>4. QueueOK(s)'
  BY <1>0, <1>2, <1>3 DEF QueueOK
<1>5. LocalOK(s)'
  BY <1>0, <1>2, <1>3 DEF LocalOK
<1>6. MoveOK(s)'
  BY <1>0, <1>1, <1>2, <1>3 DEF MoveOK
<1> QED BY <1>1, <1>4, <1>5, <1>6 DEF Held

\* The nodes of the moves of a search are nodes.
LEMMA LocalNodesType ==
  ASSUME FMTypeOK, NEW s \in Tasks
  PROVE  /\ LocalNodes(s) \subseteq Nodes
         /\ \A i \in DOMAIN localMoves[s] : localMoves[s][i] \in LocalMoveType
<1>1. localMoves[s] \in Seq(LocalMoveType)
  BY DEF FMTypeOK
<1>2. \A i \in DOMAIN localMoves[s] : localMoves[s][i] \in LocalMoveType
  <2> HIDE DEF LocalMoveType
  <2> QED BY <1>1
<1> QED BY <1>2 DEF LocalNodes, LocalMoveType

\* A step that touches only nodes of its own search and free ones.
LEMMA HeldStep ==
  ASSUME FMTypeOK, PlacesOK, HeldOK, IdsOK \/ WrappedAround,
         NEW t \in Tasks, OthersStay(t), deactivated' = deactivated, start' = start,
         \A u \in Nodes : \/ searchOfNode'[u] = searchOfNode[u] /\ part'[u] = part[u]
                          \/ u \in Held(t) \/ u \in Free,
         Held(t)' \subseteq Held(t) \union Free,
         QueueOK(t)', LocalOK(t)', MoveOK(t)'
  PROVE  HeldOK'
<1>1. \A s \in Tasks : Held(s) \subseteq Nodes
  <2> SUFFICES ASSUME NEW s \in Tasks PROVE Held(s) \subseteq Nodes
    OBVIOUS
  <2>1. OwnedNodes(s) \subseteq Nodes
    BY DEF OwnedNodes, FMTypeOK
  <2>2. LocalNodes(s) \subseteq Nodes
    BY LocalNodesType
  <2>3. MoveNodes(s) \subseteq Nodes
    BY DEF MoveNodes, FMTypeOK, LocalMoveType
  <2> QED BY <2>1, <2>2, <2>3 DEF Held
<1>2. ASSUME NEW s \in Tasks, s # t
      PROVE  Held(s)' = Held(s) /\ QueueOK(s)' /\ LocalOK(s)' /\ MoveOK(s)'
  <2>1. ASSUME NEW u \in Held(s) PROVE searchOfNode'[u] = searchOfNode[u] /\ part'[u] = part[u]
    <3>1. u \in Nodes /\ u \notin Held(t)
      BY <1>1, <1>2, <2>1 DEF HeldOK
    <3>2. u \notin Free
      BY <2>1, FreeIsNotHeld
    <3> QED BY <3>1, <3>2
  <2> QED BY <1>2, <2>1, OtherHeld
<1>3. ASSUME NEW s \in Tasks, NEW r \in Tasks, s # r PROVE Held(s)' \intersect Held(r)' = {}
  <2>1. \A x \in Tasks : \A u \in Held(x) : u \notin Free
    BY FreeIsNotHeld
  <2>2. Held(s) \intersect Held(r) = {}
    BY <1>3 DEF HeldOK
  <2>3. \A x \in Tasks : Held(x)' \subseteq Held(x) \union Free /\ (x # t => Held(x)' = Held(x))
    BY <1>2
  <2>4. s # t \/ r # t
    BY <1>3
  <2> HIDE DEF Held, Free
  <2> QED BY <2>1, <2>2, <2>3, <2>4
<1> QED BY <1>2, <1>3 DEF HeldOK

-----------------------------------------------------------------------------
(***************************************************************************)
(* The steps of a search.                                                  *)
(***************************************************************************)

\* The invariant while the tasks search.
Searching ==
  /\ phase = "search" /\ FMTypeOK /\ PlacesOK /\ HeldOK
  /\ IdsOK \/ WrappedAround

\* What a step does to the ids and the seed nodes: nothing, it takes a seed node, or it
\* starts a search.
KeepsIds(t) ==
  /\ UNCHANGED <<highestID, refinementNodes>> /\ search'[t] = search[t]
  /\ t \in Eager' => t \in Eager
  /\ Running(t)' => Running(t)
TakesSeed(t) ==
  /\ highestID' = highestID /\ search'[t] = search[t] /\ Running(t)
  /\ \E u \in refinementNodes : refinementNodes' = refinementNodes \ {u}
StartsSearch(t) ==
  /\ highestID' = NextID(highestID) /\ search'[t] = highestID' /\ refinementNodes' = refinementNodes
  /\ t \in Eager /\ pc'[t] = "seed" /\ queue'[t] = {}

\* What every step of a search achieves.
StepOK(t) ==
  /\ FMTypeOK' /\ PlacesOK' /\ HeldOK' /\ OthersStay(t)
  /\ KeepsIds(t) \/ TakesSeed(t) \/ StartsSearch(t)

\* The places of the other tasks stay valid.
LEMMA PlacesStep ==
  ASSUME PlacesOK, NEW t \in Tasks, OthersStay(t), phase = "search", phase' = phase,
         pc'[t] \in {"start", "finished"} => queue'[t] = {},
         pc'[t] # "reset" => released'[t] = {},
         pc'[t] \in {"start", "finished", "seed"} => localMoves'[t] = <<>>,
         pc'[t] = "flush" => localMoves'[t] # <<>>
  PROVE  PlacesOK'
BY DEF PlacesOK, OthersStay

\* A step that leaves the searches and the partition alone.
LEMMA SameHeld ==
  ASSUME HeldOK, UNCHANGED <<part, searchOfNode, deactivated, pc, search, queue, released, localMoves, move>>
  PROVE  HeldOK'
<1>1. ASSUME NEW t \in Tasks
      PROVE  QueueOK(t)' /\ LocalOK(t)' /\ MoveOK(t)' /\ Held(t)' = Held(t)
  <2>1. QueueOK(t)' /\ LocalOK(t)'
    BY DEF HeldOK, QueueOK, LocalOK
  <2>2. MoveOK(t)'
    BY DEF HeldOK, MoveOK, LocalNodes
  <2>3. Held(t)' = Held(t)
    BY DEF Held, OwnedNodes, LocalNodes, MoveNodes
  <2> QED BY <2>1, <2>2, <2>3
<1> HIDE DEF Held
<1> QED BY <1>1 DEF HeldOK

\* The end of a search: its queue is cleared, and the task goes on or ends.
LEMMA ClearStep ==
  ASSUME Searching, NEW t \in Tasks, UNCHANGED <<phase, start>>, BeginTask(t) \/ ClearQueues(t)
  PROVE  StepOK(t)
<1> USE DEF Searching, At
<1>1. /\ UNCHANGED <<part, searchOfNode, deactivated, refinementNodes>> /\ TaskLoop(t)
      /\ queue' \in [Tasks -> SUBSET (Nodes \X BlockValues)] /\ queue'[t] = {}
      /\ DOMAIN released' = Tasks /\ released'[t] = {}
      /\ \A s \in Tasks : s # t =>
           queue'[s] = queue[s] /\ released'[s] = released[s] /\ move'[s] = move[s]
      /\ DOMAIN move' = Tasks /\ pc[t] \in {"start", "reset"}
  <2>1. CASE BeginTask(t)
    BY <2>1 DEF BeginTask, FMTypeOK, PlacesOK
  <2>2. CASE ClearQueues(t)
    BY <2>2 DEF ClearQueues, FMTypeOK
  <2> QED BY <2>1, <2>2
<1>2. searchOfNode' \in [Nodes -> Nat]
  BY <1>1 DEF FMTypeOK
<1>3. /\ highestID' \in 0..MaxSearchID
      /\ pc' \in [Tasks -> TaskSteps] /\ search' \in [Tasks -> Nat]
      /\ localMoves' \in [Tasks -> Seq(LocalMoveType)] /\ localMoves'[t] = <<>>
      /\ \A s \in Tasks : s # t =>
           pc'[s] = pc[s] /\ search'[s] = search[s] /\ localMoves'[s] = localMoves[s]
      /\ \/ pc'[t] = "seed" /\ highestID' = NextID(highestID) /\ search'[t] = highestID'
         \/ pc'[t] = "finished" /\ highestID' = highestID /\ search'[t] = search[t]
  <2>1. pc'[t] = "finished" => search'[t] = search[t]
    BY <1>1 DEF TaskLoop, FinishTask, Goto, FMTypeOK
  <2> HIDE DEF LocalMoveType
  <2> QED BY <1>1, <2>1, TaskLoopEffect
<1>4. OthersStay(t)
  BY <1>1, <1>3 DEF OthersStay
<1>5. FMTypeOK'
  <2>1. \A s \in Tasks : pc'[s] = "apply" => move'[s] \in LocalMoveType
    BY <1>1, <1>3 DEF FMTypeOK
  <2> HIDE DEF LocalMoveType, BlockValues
  <2> QED BY <1>1, <1>2, <1>3, <2>1, BlockValuesStay DEF FMTypeOK
<1>6. PlacesOK'
  BY <1>1, <1>3, <1>4, PlacesStep
<1>7. HeldOK'
  <2>1. QueueOK(t)' /\ LocalOK(t)' /\ MoveOK(t)'
    BY <1>1, <1>3 DEF QueueOK, LocalOK, MoveOK
  <2>2. Held(t)' = {}
    BY <1>1, <1>3 DEF Held, OwnedNodes, LocalNodes, MoveNodes
  <2> QED BY <1>1, <1>4, <2>1, <2>2, HeldStep
<1>8. KeepsIds(t) \/ StartsSearch(t)
  <2>1. t \in Eager
    BY <1>1 DEF Eager
  <2>2. pc'[t] = "finished" => ~Running(t)'
    BY DEF Running
  <2> QED BY <1>1, <1>3, <2>1, <2>2 DEF KeepsIds, StartsSearch
<1> QED BY <1>4, <1>5, <1>6, <1>7, <1>8 DEF StepOK

\* A seed node is taken, and acquired if it is free.
LEMMA PopSeedStep ==
  ASSUME Searching, NEW t \in Tasks, UNCHANGED <<phase, start>>, PopSeed(t)
  PROVE  StepOK(t)
<1> USE DEF Searching, At, Goto
<1>0. PICK u \in refinementNodes :
       /\ refinementNodes' = refinementNodes \ {u}
       /\ \/ /\ TryAcquire(u)
             /\ searchOfNode' = [searchOfNode EXCEPT ![u] = search[t]]
             /\ queue' = [queue EXCEPT ![t] = @ \union {<<u, part[u]>>}]
             /\ Goto(t, IF Cardinality(queue[t]) + 1 = NumSeeds THEN "find" ELSE "seed")
          \/ ~TryAcquire(u) /\ UNCHANGED <<searchOfNode, queue, pc>>
  BY DEF PopSeed
<1>1. /\ UNCHANGED <<part, highestID, deactivated, search, released, localMoves, move>>
      /\ released[t] = {} /\ pc[t] = "seed" /\ u \in Nodes /\ part[u] \in BlockValues /\ localMoves[t] = <<>>
  BY DEF PopSeed, FMTypeOK, PlacesOK
<1>2. CASE TryAcquire(u)
  <2>1. /\ searchOfNode' = [searchOfNode EXCEPT ![u] = search[t]]
        /\ queue' = [queue EXCEPT ![t] = @ \union {<<u, part[u]>>}]
        /\ u \in Free
    BY <1>0, <1>2 DEF TryAcquire
  <2>2. /\ pc' \in [Tasks -> TaskSteps] /\ pc'[t] \in {"find", "seed"}
        /\ \A s \in Tasks : s # t => pc'[s] = pc[s]
    <3>1. Goto(t, "find") \/ Goto(t, "seed")
      BY <1>0, <1>2
    <3>2. {"find", "seed"} \subseteq TaskSteps
      BY DEF TaskSteps
    <3> QED BY <3>1, <3>2 DEF FMTypeOK
  <2>3. /\ searchOfNode' \in [Nodes -> Nat] /\ searchOfNode'[u] = search[t]
        /\ \A v \in Nodes : v # u => searchOfNode'[v] = searchOfNode[v]
    BY <1>1, <2>1 DEF FMTypeOK
  <2>4. /\ queue' \in [Tasks -> SUBSET (Nodes \X BlockValues)]
        /\ queue'[t] = queue[t] \union {<<u, part[u]>>}
        /\ \A s \in Tasks : s # t => queue'[s] = queue[s]
    <3>1. <<u, part[u]>> \in Nodes \X BlockValues
      BY <1>1
    <3> HIDE DEF BlockValues
    <3> QED BY <2>1, <3>1 DEF FMTypeOK
  <2>5. OthersStay(t)
    BY <1>1, <2>2, <2>4 DEF OthersStay
  <2>6. FMTypeOK'
    <3>1. \A s \in Tasks : pc'[s] = "apply" => move'[s] \in LocalMoveType
      BY <1>1, <2>2 DEF FMTypeOK
    <3> HIDE DEF LocalMoveType, BlockValues
    <3> QED BY <1>0, <1>1, <2>2, <2>3, <2>4, <3>1, BlockValuesStay DEF FMTypeOK
  <2>7. PlacesOK'
    BY <1>1, <2>2, <2>5, PlacesStep
  <2>8. HeldOK'
    <3>1. u \notin Held(t)
      BY <2>1, FreeIsNotHeld
    <3>2. QueueOK(t)'
      <4>1. \A q \in queue[t] : q[1] \in Nodes /\ q[1] # u
        BY <1>1, <3>1 DEF Held, OwnedNodes, FMTypeOK
      <4>2. QueueOK(t)
        BY DEF HeldOK
      <4> QED BY <1>1, <2>3, <2>4, <4>1, <4>2 DEF QueueOK
    <3>3. LocalOK(t)' /\ MoveOK(t)'
      BY <1>1, <2>2 DEF LocalOK, MoveOK
    <3>4. Held(t)' \subseteq Held(t) \union {u}
      <4>1. OwnedNodes(t)' \subseteq OwnedNodes(t) \union {u}
        <5> SUFFICES ASSUME NEW q \in queue'[t] PROVE q[1] \in OwnedNodes(t) \union {u}
          BY DEF OwnedNodes
        <5> QED BY <1>1, <2>4 DEF OwnedNodes
      <4>2. LocalNodes(t)' = LocalNodes(t) /\ MoveNodes(t)' = {}
        BY <1>1, <2>2 DEF LocalNodes, MoveNodes
      <4> QED BY <4>1, <4>2 DEF Held
    <3> QED BY <1>1, <2>1, <2>3, <2>5, <3>2, <3>3, <3>4, HeldStep
  <2>9. TakesSeed(t)
    BY <1>0, <1>1 DEF TakesSeed, Running
  <2> QED BY <2>5, <2>6, <2>7, <2>8, <2>9 DEF StepOK
<1>3. CASE ~TryAcquire(u)
  <2>1. UNCHANGED <<searchOfNode, queue, pc>>
    BY <1>0, <1>3
  <2>2. OthersStay(t)
    BY <1>1, <2>1 DEF OthersStay
  <2>3. FMTypeOK'
    <3> HIDE DEF LocalMoveType, BlockValues
    <3> QED BY <1>0, <1>1, <2>1, BlockValuesStay DEF FMTypeOK
  <2>4. PlacesOK'
    BY <1>1, <2>1 DEF PlacesOK
  <2>5. HeldOK'
    BY <1>1, <2>1, SameHeld
  <2>6. TakesSeed(t)
    BY <1>0, <1>1 DEF TakesSeed, Running
  <2> QED BY <2>2, <2>3, <2>4, <2>5, <2>6 DEF StepOK
<1> QED BY <1>2, <1>3

\* There are no more seed nodes.
LEMMA NoMoreSeedsStep ==
  ASSUME Searching, NEW t \in Tasks, UNCHANGED <<phase, start>>, NoMoreSeeds(t)
  PROVE  StepOK(t)
<1> USE DEF Searching, At, Goto
<1>1. /\ UNCHANGED <<part, searchOfNode, highestID, deactivated, refinementNodes, search, queue, released, localMoves, move>>
      /\ released[t] = {} /\ pc[t] = "seed" /\ localMoves[t] = <<>>
  BY DEF NoMoreSeeds, trackerVars, PlacesOK
<1>2. /\ pc' \in [Tasks -> TaskSteps] /\ \A s \in Tasks : s # t => pc'[s] = pc[s]
      /\ \/ pc'[t] = "find" /\ queue[t] # {}
         \/ pc'[t] = "finished" /\ queue[t] = {}
  <2>1. {"find", "finished"} \subseteq TaskSteps
    BY DEF TaskSteps
  <2>2. \/ queue[t] # {} /\ pc' = [pc EXCEPT ![t] = "find"]
        \/ queue[t] = {} /\ pc' = [pc EXCEPT ![t] = "finished"]
    BY DEF NoMoreSeeds, FinishTask
  <2> QED BY <2>1, <2>2 DEF FMTypeOK
<1>3. OthersStay(t)
  BY <1>1, <1>2 DEF OthersStay
<1>4. FMTypeOK'
  <2>1. \A s \in Tasks : pc'[s] = "apply" => move'[s] \in LocalMoveType
    BY <1>1, <1>2 DEF FMTypeOK
  <2> HIDE DEF LocalMoveType, BlockValues
  <2> QED BY <1>1, <1>2, <2>1, BlockValuesStay DEF FMTypeOK
<1>5. PlacesOK'
  BY <1>1, <1>2, <1>3, PlacesStep
<1>6. HeldOK'
  <2>1. QueueOK(t)' /\ LocalOK(t)' /\ MoveOK(t)'
    BY <1>1, <1>2 DEF HeldOK, QueueOK, LocalOK, MoveOK
  <2>2. Held(t)' \subseteq Held(t)
    BY <1>1, <1>2 DEF Held, OwnedNodes, LocalNodes, MoveNodes
  <2> QED BY <1>1, <1>3, <2>1, <2>2, HeldStep
<1>7. KeepsIds(t)
  BY <1>1, <1>2 DEF KeepsIds, Eager, Running
<1> QED BY <1>3, <1>4, <1>5, <1>6, <1>7 DEF StepOK

\* The steps of a search that has its seed nodes.
InSearch == {"find", "apply", "flush", "expand", "reset"}

\* Such a step keeps the ids.
LEMMA SearchKeepsIds ==
  ASSUME NEW t \in Tasks, pc[t] \in InSearch, pc'[t] \in InSearch,
         UNCHANGED <<highestID, refinementNodes, search>>
  PROVE  KeepsIds(t)
BY DEF KeepsIds, Eager, Running, InSearch

\* A node is taken from the queue and locked.
LEMMA FindStep ==
  ASSUME Searching, NEW t \in Tasks, UNCHANGED <<phase, start>>, FindNextMove(t)
  PROVE  StepOK(t)
<1> USE DEF Searching, At, Goto
<1>0. /\ UNCHANGED <<part, highestID, deactivated, refinementNodes, search, released, localMoves>>
      /\ pc[t] = "find" /\ released[t] = {}
  BY DEF FindNextMove, PlacesOK
<1>1. PICK q \in queue[t] :
        /\ queue' = [queue EXCEPT ![t] = @ \ {q}]
        /\ searchOfNode' = [searchOfNode EXCEPT ![q[1]] = deactivated]
        /\ \E b \in (Blocks \ {q[2]}) \union {NoBlock} :
             /\ Goto(t, IF b = NoBlock THEN "find" ELSE "apply")
             /\ move' = [move EXCEPT ![t] =
                  IF b = NoBlock THEN NoMove ELSE [node |-> q[1], from |-> q[2], to |-> b]]
  BY DEF FindNextMove, LockedMarker
<1>2. PICK b \in (Blocks \ {q[2]}) \union {NoBlock} :
        /\ Goto(t, IF b = NoBlock THEN "find" ELSE "apply")
        /\ move' = [move EXCEPT ![t] =
             IF b = NoBlock THEN NoMove ELSE [node |-> q[1], from |-> q[2], to |-> b]]
  BY <1>1
<1> DEFINE u == q[1]
<1>3. /\ u \in Nodes /\ q[2] \in BlockValues /\ part[u] = q[2] /\ q = <<u, q[2]>>
      /\ \A x \in queue[t] : x # q => x[1] # u
  <2>1. q \in Nodes \X BlockValues /\ \A x \in queue[t] : x \in Nodes \X BlockValues
    BY DEF FMTypeOK
  <2>2. \A x \in queue[t] : part[x[1]] = x[2]
    BY <1>0 DEF HeldOK, QueueOK
  <2> HIDE DEF BlockValues
  <2>3. \A x, y \in Nodes \X BlockValues : x[1] = y[1] /\ x[2] = y[2] => x = y
    OBVIOUS
  <2> QED BY <2>1, <2>2, <2>3
<1> HIDE DEF u
<1>4. /\ pc' \in [Tasks -> TaskSteps] /\ \A s \in Tasks : s # t => pc'[s] = pc[s]
      /\ pc'[t] = IF b = NoBlock THEN "find" ELSE "apply"
  <2>1. {"find", "apply"} \subseteq TaskSteps
    BY DEF TaskSteps
  <2> QED BY <1>2, <2>1 DEF FMTypeOK
<1>5. /\ DOMAIN move' = Tasks /\ \A s \in Tasks : s # t => move'[s] = move[s]
      /\ b # NoBlock => move'[t] = [node |-> u, from |-> q[2], to |-> b] /\ b \in Blocks
  BY <1>2 DEF FMTypeOK, u
<1>6. /\ queue' \in [Tasks -> SUBSET (Nodes \X BlockValues)] /\ queue'[t] = queue[t] \ {q}
      /\ \A s \in Tasks : s # t => queue'[s] = queue[s]
  <2> HIDE DEF BlockValues
  <2> QED BY <1>1 DEF FMTypeOK
<1>7. /\ searchOfNode' \in [Nodes -> Nat] /\ searchOfNode'[u] = deactivated
      /\ \A v \in Nodes : v # u => searchOfNode'[v] = searchOfNode[v]
  BY <1>1, <1>3 DEF FMTypeOK, u
<1>8. OthersStay(t)
  BY <1>0, <1>4, <1>5, <1>6 DEF OthersStay
<1>9. FMTypeOK'
  <2>1. pc'[t] = "apply" => move'[t] \in LocalMoveType
    BY <1>3, <1>4, <1>5 DEF LocalMoveType
  <2>2. \A s \in Tasks : pc'[s] = "apply" => move'[s] \in LocalMoveType
    BY <1>4, <1>5, <2>1 DEF FMTypeOK
  <2> HIDE DEF LocalMoveType, BlockValues
  <2> QED BY <1>0, <1>4, <1>5, <1>6, <1>7, <2>2, BlockValuesStay DEF FMTypeOK
<1>10. PlacesOK'
  BY <1>0, <1>4, <1>8, PlacesStep
<1>11. HeldOK'
  <2>1. u \in OwnedNodes(t) /\ u \in Held(t)
    BY <1>0 DEF u, Held, OwnedNodes
  <2>2. QueueOK(t)'
    <3>1. QueueOK(t) /\ \A x \in queue'[t] : x \in queue[t] /\ x[1] \in Nodes /\ x[1] # u
      BY <1>3, <1>6 DEF HeldOK, FMTypeOK
    <3> QED BY <1>0, <1>7, <3>1 DEF QueueOK
  <2>3. u \notin LocalNodes(t)
    <3>1. searchOfNode[u] = search[t]
      BY <1>0 DEF HeldOK, QueueOK, u
    <3>2. deactivated < search[t] /\ deactivated \in Nat /\ search[t] \in Nat
      BY <1>0 DEF IdsOK, WrappedAround, Running, FMTypeOK
    <3>3. \A v \in LocalNodes(t) : searchOfNode[v] = deactivated
      BY DEF HeldOK, LocalOK, LocalNodes
    <3> QED BY <3>1, <3>2, <3>3
  <2>4. LocalOK(t)'
    <3>1. LocalOK(t)
      BY DEF HeldOK
    <3>2. \A i \in DOMAIN localMoves[t] : localMoves[t][i].node \in LocalNodes(t)
      BY DEF LocalNodes
    <3>3. LocalNodes(t) \subseteq Nodes
      BY LocalNodesType
    <3>4. \A i \in DOMAIN localMoves[t] : searchOfNode'[localMoves[t][i].node] = searchOfNode[localMoves[t][i].node]
      BY <1>7, <2>3, <3>2, <3>3
    <3> QED BY <1>0, <3>1, <3>4 DEF LocalOK
  <2>5. MoveOK(t)'
    <3>1. LocalNodes(t)' = LocalNodes(t)
      BY <1>0 DEF LocalNodes
    <3> QED BY <1>0, <1>3, <1>4, <1>5, <1>7, <2>3, <3>1 DEF MoveOK
  <2>6. Held(t)' \subseteq Held(t)
    <3>1. OwnedNodes(t)' \subseteq OwnedNodes(t) /\ LocalNodes(t)' = LocalNodes(t)
      BY <1>0, <1>6 DEF OwnedNodes, LocalNodes
    <3>2. MoveNodes(t)' \subseteq {u}
      BY <1>4, <1>5 DEF MoveNodes
    <3> QED BY <2>1, <3>1, <3>2 DEF Held
  <2> QED BY <1>0, <1>7, <1>8, <2>1, <2>2, <2>4, <2>5, <2>6, HeldStep
<1>12. KeepsIds(t)
  BY <1>0, <1>4, SearchKeepsIds DEF InSearch
<1> QED BY <1>8, <1>9, <1>10, <1>11, <1>12 DEF StepOK

\* The move is not made.
LEMMA SkipStep ==
  ASSUME Searching, NEW t \in Tasks, UNCHANGED <<phase, start>>, SkipMove(t)
  PROVE  StepOK(t)
<1> USE DEF Searching, At, Goto
<1>1. /\ UNCHANGED <<part, searchOfNode, highestID, deactivated, refinementNodes, search, queue, released, localMoves>>
      /\ pc[t] = "apply" /\ pc' = [pc EXCEPT ![t] = "find"] /\ move' = [move EXCEPT ![t] = NoMove]
      /\ released[t] = {}
  BY DEF SkipMove, trackerVars, PlacesOK
<1>2. /\ pc' \in [Tasks -> TaskSteps] /\ pc'[t] = "find" /\ \A s \in Tasks : s # t => pc'[s] = pc[s]
      /\ DOMAIN move' = Tasks /\ \A s \in Tasks : s # t => move'[s] = move[s]
  <2>1. "find" \in TaskSteps
    BY DEF TaskSteps
  <2> QED BY <1>1, <2>1 DEF FMTypeOK
<1>3. OthersStay(t)
  BY <1>1, <1>2 DEF OthersStay
<1>4. FMTypeOK'
  <2>1. \A s \in Tasks : pc'[s] = "apply" => move'[s] \in LocalMoveType
    BY <1>1, <1>2 DEF FMTypeOK
  <2> HIDE DEF LocalMoveType, BlockValues
  <2> QED BY <1>1, <1>2, <2>1, BlockValuesStay DEF FMTypeOK
<1>5. PlacesOK'
  BY <1>1, <1>2, <1>3, PlacesStep
<1>6. HeldOK'
  <2>1. QueueOK(t)' /\ LocalOK(t)' /\ MoveOK(t)'
    BY <1>1, <1>2 DEF HeldOK, QueueOK, LocalOK, MoveOK
  <2>2. Held(t)' \subseteq Held(t)
    BY <1>1, <1>2 DEF Held, OwnedNodes, LocalNodes, MoveNodes
  <2> QED BY <1>1, <1>3, <2>1, <2>2, HeldStep
<1>7. KeepsIds(t)
  BY <1>1, <1>2, SearchKeepsIds DEF InSearch
<1> QED BY <1>3, <1>4, <1>5, <1>6, <1>7 DEF StepOK

\* The search stops.
LEMMA StopStep ==
  ASSUME Searching, NEW t \in Tasks, UNCHANGED <<phase, start>>, Stop(t)
  PROVE  StepOK(t)
<1> USE DEF Searching, At, Goto
<1>1. /\ UNCHANGED <<part, searchOfNode, highestID, deactivated, refinementNodes, search, queue, released, localMoves>>
      /\ pc[t] \in {"find", "expand"} /\ released[t] = {}
      /\ pc' = [pc EXCEPT ![t] = "reset"] /\ move' = [move EXCEPT ![t] = NoMove]
  BY DEF Stop, trackerVars, PlacesOK
<1>2. /\ pc' \in [Tasks -> TaskSteps] /\ pc'[t] = "reset" /\ \A s \in Tasks : s # t => pc'[s] = pc[s]
      /\ DOMAIN move' = Tasks /\ \A s \in Tasks : s # t => move'[s] = move[s]
  <2>1. "reset" \in TaskSteps
    BY DEF TaskSteps
  <2> QED BY <1>1, <2>1 DEF FMTypeOK
<1>3. OthersStay(t)
  BY <1>1, <1>2 DEF OthersStay
<1>4. FMTypeOK'
  <2>1. \A s \in Tasks : pc'[s] = "apply" => move'[s] \in LocalMoveType
    BY <1>1, <1>2 DEF FMTypeOK
  <2> HIDE DEF LocalMoveType, BlockValues
  <2> QED BY <1>1, <1>2, <2>1, BlockValuesStay DEF FMTypeOK
<1>5. PlacesOK'
  BY <1>1, <1>2, <1>3, PlacesStep
<1>6. HeldOK'
  <2>1. QueueOK(t)' /\ LocalOK(t)' /\ MoveOK(t)'
    BY <1>1, <1>2 DEF HeldOK, QueueOK, LocalOK, MoveOK
  <2>2. Held(t)' \subseteq Held(t)
    BY <1>1, <1>2 DEF Held, OwnedNodes, LocalNodes, MoveNodes
  <2> QED BY <1>1, <1>3, <2>1, <2>2, HeldStep
<1>7. KeepsIds(t)
  BY <1>1, <1>2, SearchKeepsIds DEF InSearch
<1> QED BY <1>3, <1>4, <1>5, <1>6, <1>7 DEF StepOK

\* A node of the queue is released: the search does not hold it any more, although it is
\* still in the queue.
LEMMA ReleaseStep ==
  ASSUME Searching, NEW t \in Tasks, UNCHANGED <<phase, start>>, ReleaseNode(t)
  PROVE  StepOK(t)
<1> USE DEF Searching, At
<1>1. /\ UNCHANGED <<part, highestID, deactivated, refinementNodes, pc, search, queue, localMoves, move>>
      /\ pc[t] = "reset"
  BY DEF ReleaseNode
<1>2. PICK q \in queue[t] \ released[t] :
        /\ searchOfNode' = [searchOfNode EXCEPT ![q[1]] = ReleasedMarker]
        /\ released' = [released EXCEPT ![t] = @ \union {q}]
  BY DEF ReleaseNode, Unreleased
<1> DEFINE u == q[1]
<1>3. u \in Nodes /\ \A x \in queue[t] \ released[t] : x # q => x[1] \in Nodes /\ x[1] # u
  <2>1. q \in Nodes \X BlockValues /\ \A x \in queue[t] : x \in Nodes \X BlockValues
    BY DEF FMTypeOK
  <2>2. \A x \in queue[t] \ released[t] : part[x[1]] = x[2]
    BY DEF HeldOK, QueueOK
  <2> HIDE DEF BlockValues
  <2>3. \A x, y \in Nodes \X BlockValues : x[1] = y[1] /\ x[2] = y[2] => x = y
    OBVIOUS
  <2> QED BY <2>1, <2>2, <2>3
<1> HIDE DEF u
<1>4. /\ searchOfNode' \in [Nodes -> Nat] /\ \A v \in Nodes : v # u => searchOfNode'[v] = searchOfNode[v]
  <2>1. ReleasedMarker \in Nat
    BY DEF ReleasedMarker, FMTypeOK
  <2> QED BY <1>2, <1>3, <2>1 DEF FMTypeOK, u
<1>5. /\ DOMAIN released' = Tasks /\ released'[t] = released[t] \union {q}
      /\ \A s \in Tasks : s # t => released'[s] = released[s]
  BY <1>2 DEF FMTypeOK
<1>6. OthersStay(t)
  BY <1>1, <1>5 DEF OthersStay
<1>7. FMTypeOK'
  <2> HIDE DEF LocalMoveType, BlockValues
  <2> QED BY <1>1, <1>4, <1>5, BlockValuesStay DEF FMTypeOK
<1>8. PlacesOK'
  BY <1>1, <1>6, PlacesStep
<1>9. HeldOK'
  <2>1. u \in Held(t)
    BY DEF u, Held, OwnedNodes
  <2>2. QueueOK(t)'
    <3>1. QueueOK(t) /\ \A x \in queue'[t] \ released'[t] :
                          x \in queue[t] \ released[t] /\ x[1] \in Nodes /\ x[1] # u
      BY <1>1, <1>3, <1>5 DEF HeldOK
    <3> QED BY <1>1, <1>4, <3>1 DEF QueueOK
  <2>3. u \notin LocalNodes(t)
    <3>1. searchOfNode[u] = search[t]
      BY DEF HeldOK, QueueOK, u
    <3>2. deactivated < search[t] /\ deactivated \in Nat /\ search[t] \in Nat
      BY <1>1 DEF IdsOK, WrappedAround, Running, FMTypeOK
    <3>3. \A v \in LocalNodes(t) : searchOfNode[v] = deactivated
      BY DEF HeldOK, LocalOK, LocalNodes
    <3> QED BY <3>1, <3>2, <3>3
  <2>4. LocalOK(t)'
    <3>1. LocalOK(t)
      BY DEF HeldOK
    <3>2. \A i \in DOMAIN localMoves[t] : localMoves[t][i].node \in LocalNodes(t)
      BY DEF LocalNodes
    <3>3. LocalNodes(t) \subseteq Nodes
      BY LocalNodesType
    <3>4. \A i \in DOMAIN localMoves[t] : searchOfNode'[localMoves[t][i].node] = searchOfNode[localMoves[t][i].node]
      BY <1>4, <2>3, <3>2, <3>3
    <3> QED BY <1>1, <3>1, <3>4 DEF LocalOK
  <2>5. MoveOK(t)'
    BY <1>1 DEF MoveOK
  <2>6. Held(t)' \subseteq Held(t)
    <3>1. OwnedNodes(t)' \subseteq OwnedNodes(t) /\ LocalNodes(t)' = LocalNodes(t) /\ MoveNodes(t)' = MoveNodes(t)
      BY <1>1, <1>5 DEF OwnedNodes, LocalNodes, MoveNodes
    <3> QED BY <3>1 DEF Held
  <2> QED BY <1>1, <1>4, <1>6, <2>1, <2>2, <2>4, <2>5, <2>6, HeldStep
<1>10. KeepsIds(t)
  BY <1>1, SearchKeepsIds DEF InSearch
<1> QED BY <1>6, <1>7, <1>8, <1>9, <1>10 DEF StepOK

\* The move is appended to the moves of the search.
LEMMA MoveStep ==
  ASSUME Searching, NEW t \in Tasks, UNCHANGED <<phase, start>>, MoveDirectly(t) \/ MoveLocally(t)
  PROVE  StepOK(t)
<1> USE DEF Searching, At, Goto
<1>1. /\ UNCHANGED <<part, searchOfNode, highestID, deactivated, refinementNodes, search, queue, released, move>>
      /\ released[t] = {} /\ pc[t] = "apply" /\ localMoves' = [localMoves EXCEPT ![t] = Append(@, move[t])]
      /\ pc' = [pc EXCEPT ![t] = "flush"] \/ pc' = [pc EXCEPT ![t] = "expand"]
  BY DEF MoveDirectly, MoveLocally, trackerVars, PlacesOK
<1>2. /\ pc' \in [Tasks -> TaskSteps] /\ pc'[t] \in {"flush", "expand"}
      /\ \A s \in Tasks : s # t => pc'[s] = pc[s]
  <2>1. {"flush", "expand"} \subseteq TaskSteps
    BY DEF TaskSteps
  <2> QED BY <1>1, <2>1 DEF FMTypeOK
<1> DEFINE l == localMoves[t]
           n == Len(l)
           k == Append(l, move[t])
<1>3. l \in Seq(LocalMoveType) /\ move[t] \in LocalMoveType
  BY <1>1 DEF FMTypeOK
<1>4. /\ k \in Seq(LocalMoveType) /\ n \in Nat /\ DOMAIN l = 1..n /\ DOMAIN k = 1..(n + 1)
      /\ k[n + 1] = move[t] /\ \A i \in 1..n : k[i] = l[i]
  <2> HIDE DEF LocalMoveType
  <2> QED BY <1>3
<1>5. /\ localMoves' \in [Tasks -> Seq(LocalMoveType)] /\ localMoves'[t] = k
      /\ \A s \in Tasks : s # t => localMoves'[s] = localMoves[s]
  <2> HIDE DEF LocalMoveType, k
  <2>1. localMoves' = [localMoves EXCEPT ![t] = k]
    BY <1>1 DEF k
  <2> QED BY <1>4, <2>1 DEF FMTypeOK
<1>6. OthersStay(t)
  BY <1>1, <1>2, <1>5 DEF OthersStay
<1>7. FMTypeOK'
  <2>1. \A s \in Tasks : pc'[s] = "apply" => move'[s] \in LocalMoveType
    BY <1>1, <1>2 DEF FMTypeOK
  <2> HIDE DEF LocalMoveType, BlockValues, k
  <2> QED BY <1>1, <1>2, <1>5, <2>1, BlockValuesStay DEF FMTypeOK
<1>8. PlacesOK'
  <2>1. k # <<>>
    <3> HIDE DEF k, l
    <3> QED BY <1>4
  <2> HIDE DEF k
  <2> QED BY <1>1, <1>2, <1>5, <1>6, <2>1, PlacesStep
<1> HIDE DEF l, n, k
<1>9. HeldOK'
  <2>1. /\ MoveOK(t) /\ LocalOK(t) /\ QueueOK(t)
        /\ \A i \in 1..n : l[i].node \in LocalNodes(t)
    BY <1>4 DEF HeldOK, LocalNodes, l
  <2>2. /\ searchOfNode[move[t].node] = deactivated /\ part[move[t].node] = move[t].from
        /\ move[t].node \notin LocalNodes(t)
    BY <1>1, <2>1 DEF MoveOK
  <2>3. \A i \in 1..(n + 1) : i \in 1..n \/ i = n + 1
    BY <1>4
  <2>4. LocalOK(t)'
    <3>1. \A i \in 1..n : searchOfNode[l[i].node] = deactivated /\ part[l[i].node] = l[i].from
      BY <1>4, <2>1 DEF LocalOK, l
    <3>2. \A i, j \in 1..n : l[i].node = l[j].node => i = j
      BY <1>4, <2>1 DEF LocalOK, l
    <3>3. \A i \in 1..(n + 1) : searchOfNode[k[i].node] = deactivated /\ part[k[i].node] = k[i].from
      BY <1>4, <2>2, <2>3, <3>1
    <3>4. \A i, j \in 1..(n + 1) : k[i].node = k[j].node => i = j
      <4> SUFFICES ASSUME NEW i \in 1..(n + 1), NEW j \in 1..(n + 1), k[i].node = k[j].node PROVE i = j
        OBVIOUS
      <4>1. CASE i \in 1..n /\ j \in 1..n
        BY <1>4, <3>2, <4>1
      <4>2. CASE i \in 1..n /\ j = n + 1
        BY <1>4, <2>1, <2>2, <4>2
      <4>3. CASE i = n + 1 /\ j \in 1..n
        BY <1>4, <2>1, <2>2, <4>3
      <4> QED BY <2>3, <4>1, <4>2, <4>3
    <3> QED BY <1>1, <1>4, <1>5, <3>3, <3>4 DEF LocalOK
  <2>5. QueueOK(t)' /\ MoveOK(t)'
    BY <1>1, <1>2, <2>1 DEF QueueOK, MoveOK
  <2>6. Held(t)' \subseteq Held(t)
    <3>1. OwnedNodes(t)' = OwnedNodes(t) /\ MoveNodes(t)' = {} /\ MoveNodes(t) = {move[t].node}
      BY <1>1, <1>2 DEF OwnedNodes, MoveNodes
    <3>2. LocalNodes(t)' \subseteq LocalNodes(t) \union {move[t].node}
      <4>1. LocalNodes(t)' = {k[i].node : i \in 1..(n + 1)}
        BY <1>4, <1>5 DEF LocalNodes
      <4> QED BY <1>4, <2>1, <2>3, <4>1
    <3> QED BY <3>1, <3>2 DEF Held
  <2> QED BY <1>1, <1>6, <2>4, <2>5, <2>6, HeldStep
<1>10. KeepsIds(t)
  BY <1>1, <1>2, SearchKeepsIds DEF InSearch
<1> QED BY <1>6, <1>7, <1>8, <1>9, <1>10 DEF StepOK

\* The next move of the search is applied to the shared partition.
LEMMA FlushStep ==
  ASSUME Searching, NEW t \in Tasks, UNCHANGED <<phase, start>>, Flush(t)
  PROVE  StepOK(t)
<1> USE DEF Searching, At, Goto
<1> DEFINE l == localMoves[t]
           n == Len(l)
           m == Head(l)
           k == Tail(l)
<1>1. /\ UNCHANGED <<searchOfNode, highestID, deactivated, refinementNodes, search, queue, released, move>>
      /\ released[t] = {}
      /\ pc[t] = "flush" /\ part' = [part EXCEPT ![m.node] = m.to]
      /\ localMoves' = [localMoves EXCEPT ![t] = k]
      /\ pc' = [pc EXCEPT ![t] = IF n = 1 THEN "expand" ELSE "flush"]
  BY DEF Flush, trackerVars, PlacesOK
<1>2. l \in Seq(LocalMoveType) /\ l # <<>>
  BY <1>1 DEF FMTypeOK, PlacesOK
<1>3. /\ k \in Seq(LocalMoveType) /\ n \in Nat \ {0} /\ DOMAIN l = 1..n /\ DOMAIN k = 1..(n - 1)
      /\ m = l[1] /\ m \in LocalMoveType /\ \A i \in 1..(n - 1) : k[i] = l[i + 1]
      /\ n # 1 => k # <<>>
  <2> HIDE DEF LocalMoveType
  <2>1. /\ k \in Seq(LocalMoveType) /\ n \in Nat /\ DOMAIN l = 1..n /\ m = l[1] /\ n # 0
    BY <1>2
  <2>2. DOMAIN k = 1..(n - 1) /\ \A i \in 1..(n - 1) : k[i] = l[i + 1]
    BY <1>2
  <2>3. m \in LocalMoveType
    BY <1>2
  <2> HIDE DEF l, k, n, m
  <2>4. n # 1 => 1 \in DOMAIN k
    BY <2>1, <2>2
  <2> QED BY <2>1, <2>2, <2>3, <2>4
<1>4. m.node \in Nodes /\ m.to \in Blocks
  BY <1>3 DEF LocalMoveType
<1> HIDE DEF l, n, m, k
<1>5. /\ pc' \in [Tasks -> TaskSteps] /\ pc'[t] = (IF n = 1 THEN "expand" ELSE "flush")
      /\ \A s \in Tasks : s # t => pc'[s] = pc[s]
  <2>1. {"flush", "expand"} \subseteq TaskSteps
    BY DEF TaskSteps
  <2> QED BY <1>1, <2>1 DEF FMTypeOK
<1>6. /\ localMoves' \in [Tasks -> Seq(LocalMoveType)] /\ localMoves'[t] = k
      /\ \A s \in Tasks : s # t => localMoves'[s] = localMoves[s]
  <2> HIDE DEF LocalMoveType
  <2> QED BY <1>1, <1>3 DEF FMTypeOK
<1>7. /\ DOMAIN part' = Nodes /\ part'[m.node] = m.to /\ \A u \in Nodes : u # m.node => part'[u] = part[u]
      /\ \A u \in Nodes : part'[u] \in BlockValues
  BY <1>1, <1>4 DEF FMTypeOK, BlockValues
<1>8. OthersStay(t)
  BY <1>1, <1>5, <1>6 DEF OthersStay
<1>9. FMTypeOK'
  <2>1. \A s \in Tasks : pc'[s] = "apply" => move'[s] \in LocalMoveType
    BY <1>1, <1>5 DEF FMTypeOK
  <2> HIDE DEF LocalMoveType, BlockValues
  <2> QED BY <1>1, <1>5, <1>6, <1>7, <2>1, BlockValuesStay DEF FMTypeOK
<1>10. PlacesOK'
  BY <1>1, <1>3, <1>5, <1>6, <1>8, PlacesStep
<1>11. HeldOK'
  <2>1. /\ LocalOK(t) /\ QueueOK(t) /\ \A i \in 1..n : l[i].node \in LocalNodes(t)
        /\ LocalNodes(t) \subseteq Nodes /\ m.node \in LocalNodes(t)
    <3>1. 1 \in 1..n
      BY <1>3
    <3> QED BY <1>3, <3>1, LocalNodesType DEF HeldOK, LocalNodes, l
  <2>2. /\ \A i \in 1..n : searchOfNode[l[i].node] = deactivated /\ part[l[i].node] = l[i].from
        /\ \A i, j \in 1..n : l[i].node = l[j].node => i = j
    BY <1>3, <2>1 DEF LocalOK, l
  <2>3. ASSUME NEW i \in 1..(n - 1)
        PROVE  /\ k[i].node \in LocalNodes(t) /\ k[i].node # m.node
               /\ searchOfNode[k[i].node] = deactivated /\ part[k[i].node] = k[i].from
               /\ \A j \in 1..(n - 1) : k[i].node = k[j].node => i = j
    <3>1. i + 1 \in 1..n /\ i + 1 # 1 /\ 1 \in 1..n /\ \A j \in 1..(n - 1) : j + 1 \in 1..n /\ (i + 1 = j + 1 => i = j)
      BY <1>3
    <3>2. k[i] = l[i + 1] /\ \A j \in 1..(n - 1) : k[j] = l[j + 1]
      BY <1>3
    <3> HIDE DEF LocalMoveType
    <3> QED BY <1>3, <2>1, <2>2, <3>1, <3>2
  <2>4. LocalOK(t)'
    <3>1. \A i \in 1..(n - 1) : part'[k[i].node] = part[k[i].node]
      BY <1>7, <2>1, <2>3
    <3> QED BY <1>1, <1>3, <1>6, <2>3, <3>1 DEF LocalOK
  <2>5. QueueOK(t)'
    <3>1. searchOfNode[m.node] = deactivated
      BY <1>3, <2>2
    <3>2. deactivated < search[t] /\ deactivated \in Nat /\ search[t] \in Nat
      BY <1>1 DEF IdsOK, WrappedAround, Running, FMTypeOK
    <3>3. \A q \in queue[t] : q[1] \in Nodes /\ q[1] # m.node
      BY <1>1, <2>1, <3>1, <3>2 DEF QueueOK, FMTypeOK
    <3> QED BY <1>1, <1>7, <2>1, <3>3 DEF QueueOK
  <2>6. MoveOK(t)'
    BY <1>5 DEF MoveOK
  <2>7. Held(t)' \subseteq Held(t)
    <3>1. OwnedNodes(t)' = OwnedNodes(t) /\ MoveNodes(t)' = {}
      BY <1>1, <1>5 DEF OwnedNodes, MoveNodes
    <3>2. LocalNodes(t)' \subseteq LocalNodes(t)
      <4>1. LocalNodes(t)' = {k[i].node : i \in 1..(n - 1)}
        BY <1>3, <1>6 DEF LocalNodes
      <4> QED BY <2>3, <4>1
    <3> QED BY <3>1, <3>2 DEF Held
  <2>8. m.node \in Held(t)
    BY <2>1 DEF Held
  <2> QED BY <1>1, <1>7, <1>8, <2>4, <2>5, <2>6, <2>7, <2>8, HeldStep
<1>12. KeepsIds(t)
  BY <1>1, <1>5, SearchKeepsIds DEF InSearch
<1> QED BY <1>8, <1>9, <1>10, <1>11, <1>12 DEF StepOK

\* Free neighbors are acquired.
LEMMA ExpandStep ==
  ASSUME Searching, NEW t \in Tasks, UNCHANGED <<phase, start>>, Expand(t)
  PROVE  StepOK(t)
<1> USE DEF Searching, At, Goto
<1>1. /\ UNCHANGED <<part, highestID, deactivated, refinementNodes, search, released, localMoves>>
      /\ pc[t] = "expand" /\ pc' = [pc EXCEPT ![t] = "find"] /\ move' = [move EXCEPT ![t] = NoMove]
      /\ released[t] = {}
  BY DEF Expand, PlacesOK
<1>2. PICK S \in SUBSET Free :
        /\ searchOfNode' = [u \in Nodes |-> IF u \in S THEN search[t] ELSE searchOfNode[u]]
        /\ queue' = [queue EXCEPT ![t] = @ \union {<<u, part[u]>> : u \in S}]
  <2>1. PICK S \in SUBSET {u \in (UNION {Pins[e] : e \in nets[t]} \ fixed) : TryAcquire(u)} :
          /\ searchOfNode' = [u \in Nodes |-> IF u \in S THEN search[t] ELSE searchOfNode[u]]
          /\ queue' = [queue EXCEPT ![t] = @ \union {<<u, part[u]>> : u \in S}]
    BY DEF Expand
  <2>2. S \in SUBSET Free
    BY DEF TryAcquire
  <2> QED BY <2>1, <2>2
<1>3. S \subseteq Nodes /\ \A u \in S : u \notin Held(t)
  BY FreeIsNotHeld DEF Free
<1>4. /\ pc' \in [Tasks -> TaskSteps] /\ pc'[t] = "find" /\ \A s \in Tasks : s # t => pc'[s] = pc[s]
      /\ DOMAIN move' = Tasks /\ \A s \in Tasks : s # t => move'[s] = move[s]
  <2>1. "find" \in TaskSteps
    BY DEF TaskSteps
  <2> QED BY <1>1, <2>1 DEF FMTypeOK
<1>5. /\ searchOfNode' \in [Nodes -> Nat] /\ \A u \in S : searchOfNode'[u] = search[t]
      /\ \A u \in Nodes : u \notin S => searchOfNode'[u] = searchOfNode[u]
  BY <1>2, <1>3 DEF FMTypeOK
<1> DEFINE New == {<<u, part[u]>> : u \in S}
<1>6. New \subseteq Nodes \X BlockValues
  <2>1. \A u \in S : part[u] \in BlockValues
    BY <1>3 DEF FMTypeOK
  <2> HIDE DEF BlockValues
  <2> QED BY <1>3, <2>1
<1>7. /\ queue' \in [Tasks -> SUBSET (Nodes \X BlockValues)] /\ queue'[t] = queue[t] \union New
      /\ \A s \in Tasks : s # t => queue'[s] = queue[s]
  <2> HIDE DEF BlockValues
  <2>1. queue' = [queue EXCEPT ![t] = queue[t] \union New]
    BY <1>2
  <2> HIDE DEF New
  <2> QED BY <1>6, <2>1 DEF FMTypeOK
<1>8. OthersStay(t)
  BY <1>1, <1>4, <1>7 DEF OthersStay
<1>9. FMTypeOK'
  <2>1. \A s \in Tasks : pc'[s] = "apply" => move'[s] \in LocalMoveType
    BY <1>1, <1>4 DEF FMTypeOK
  <2> HIDE DEF LocalMoveType, BlockValues, New
  <2> QED BY <1>1, <1>4, <1>5, <1>7, <2>1, BlockValuesStay DEF FMTypeOK
<1>10. PlacesOK'
  BY <1>1, <1>4, <1>8, PlacesStep
<1>11. HeldOK'
  <2>1. QueueOK(t) /\ LocalOK(t)
    BY DEF HeldOK
  <2>2. QueueOK(t)'
    <3>1. \A q \in queue[t] : q[1] \in Nodes /\ q[1] \notin S
      BY <1>1, <1>3 DEF Held, OwnedNodes, FMTypeOK
    <3>2. \A q \in New : q[1] \in S /\ q[2] = part[q[1]]
      OBVIOUS
    <3> HIDE DEF New
    <3> QED BY <1>1, <1>5, <1>7, <2>1, <3>1, <3>2 DEF QueueOK
  <2>3. LocalOK(t)'
    <3>1. \A i \in DOMAIN localMoves[t] : localMoves[t][i].node \in LocalNodes(t)
      BY DEF LocalNodes
    <3>2. \A u \in LocalNodes(t) : u \in Nodes /\ u \notin S
      BY <1>3, LocalNodesType DEF Held
    <3>3. \A i \in DOMAIN localMoves[t] : searchOfNode'[localMoves[t][i].node] = searchOfNode[localMoves[t][i].node]
      BY <1>5, <3>1, <3>2
    <3> QED BY <1>1, <2>1, <3>3 DEF LocalOK
  <2>4. MoveOK(t)'
    BY <1>4 DEF MoveOK
  <2>5. Held(t)' \subseteq Held(t) \union Free
    <3>1. OwnedNodes(t)' \subseteq OwnedNodes(t) \union S
      <4> SUFFICES ASSUME NEW q \in queue'[t] PROVE q[1] \in OwnedNodes(t) \union S
        BY DEF OwnedNodes
      <4> QED BY <1>1, <1>7 DEF OwnedNodes
    <3>2. LocalNodes(t)' = LocalNodes(t) /\ MoveNodes(t)' = {}
      BY <1>1, <1>4 DEF LocalNodes, MoveNodes
    <3> QED BY <3>1, <3>2 DEF Held
  <2>6. \A u \in Nodes : searchOfNode'[u] = searchOfNode[u] \/ u \in Free
    BY <1>5
  <2> QED BY <1>1, <1>8, <2>2, <2>3, <2>4, <2>5, <2>6, HeldStep
<1>12. KeepsIds(t)
  BY <1>1, <1>4, SearchKeepsIds DEF InSearch
<1> QED BY <1>8, <1>9, <1>10, <1>11, <1>12 DEF StepOK

-----------------------------------------------------------------------------
(***************************************************************************)
(* The ids of the searches: every search that is started without a seed    *)
(* node costs an id of an eager task, every other one a seed node, so that *)
(* the reserve is enough.                                                  *)
(***************************************************************************)

\* Sets of tasks and of nodes are finite.
LEMMA CountsAreFinite ==
  ASSUME NEW S, S \in SUBSET Tasks \/ S \in SUBSET Nodes
  PROVE  IsFiniteSet(S) /\ Cardinality(S) \in Nat
<1>1. IsFiniteSet(Tasks) /\ IsFiniteSet(Nodes)
  BY FMAssumption, FS_Interval DEF Tasks
<1> QED BY <1>1, FS_Subset, FS_CardinalityType

\* A step of a search keeps the ids apart, or the last one was used.
LEMMA IdsStep ==
  ASSUME Searching, NEW t \in Tasks, StepOK(t), deactivated' = deactivated
  PROVE  (IdsOK \/ WrappedAround)'
<1> USE DEF Searching
<1>1. FMTypeOK' /\ OthersStay(t)
  BY DEF StepOK
<1>2. /\ IsFiniteSet(Eager) /\ Cardinality(Eager) \in Nat /\ IsFiniteSet(refinementNodes)
      /\ Cardinality(refinementNodes) \in Nat /\ Cardinality(Eager') \in Nat /\ Cardinality(refinementNodes') \in Nat
  <2>1. /\ Eager \in SUBSET Tasks /\ Eager' \in SUBSET Tasks
        /\ refinementNodes \in SUBSET Nodes /\ refinementNodes' \in SUBSET Nodes
    BY <1>1 DEF Eager, FMTypeOK
  <2> HIDE DEF Eager
  <2> QED BY <2>1, CountsAreFinite
<1>3. \A s \in Tasks : s # t => /\ s \in Eager' <=> s \in Eager
                                /\ Running(s)' <=> Running(s)
                                /\ search'[s] = search[s]
  BY <1>1 DEF OthersStay, Eager, Running
<1>4. Eager \subseteq Tasks /\ Eager' \subseteq Tasks
  BY DEF Eager
<1>5. /\ highestID \in 0..MaxSearchID /\ highestID' \in 0..MaxSearchID /\ MaxSearchID \in Nat
      /\ deactivated \in Nat \ {0} /\ \A s \in Tasks : search[s] \in Nat
  BY <1>1, FMAssumption DEF FMTypeOK
<1>6. ASSUME IdsOK, KeepsIds(t) PROVE IdsOK'
  <2>1. Cardinality(Eager') <= Cardinality(Eager)
    <3>1. Eager' \subseteq Eager
      BY <1>3, <1>4, <1>6 DEF KeepsIds
    <3> QED BY <1>2, <3>1, FS_Subset
  <2>2. UNCHANGED <<highestID, refinementNodes>> /\ \A s \in Tasks : search'[s] = search[s] /\ (Running(s)' => Running(s))
    BY <1>3, <1>6 DEF KeepsIds
  <2> HIDE DEF Running, Eager
  <2> QED BY <1>2, <1>5, <1>6, <2>1, <2>2 DEF IdsOK
<1>7. ASSUME IdsOK, TakesSeed(t) PROVE IdsOK'
  <2>1. Cardinality(refinementNodes') = Cardinality(refinementNodes) - 1
    BY <1>2, <1>7, FS_RemoveElement DEF TakesSeed
  <2>2. Cardinality(Eager') <= Cardinality(Eager) + 1
    <3>1. Eager' \subseteq Eager \union {t}
      BY <1>3, <1>4
    <3>2. IsFiniteSet(Eager \union {t}) /\ Cardinality(Eager \union {t}) <= Cardinality(Eager) + 1
      <4> HIDE DEF Eager
      <4>1. IsFiniteSet(Eager \union {t}) /\ Cardinality(Eager \union {t}) =
              IF t \in Eager THEN Cardinality(Eager) ELSE Cardinality(Eager) + 1
        BY <1>2, FS_AddElement
      <4> QED BY <1>2, <4>1
    <3>3. Cardinality(Eager') <= Cardinality(Eager \union {t}) /\ Cardinality(Eager \union {t}) \in Nat
      BY <3>1, <3>2, FS_Subset, FS_CardinalityType
    <3> QED BY <1>2, <3>2, <3>3
  <2>3. highestID' = highestID /\ \A s \in Tasks : search'[s] = search[s] /\ (Running(s)' => Running(s))
    BY <1>3, <1>7 DEF TakesSeed
  <2> HIDE DEF Running, Eager
  <2> QED BY <1>2, <1>5, <1>7, <2>1, <2>2, <2>3 DEF IdsOK
<1>8. ASSUME IdsOK, StartsSearch(t) PROVE (IdsOK \/ WrappedAround)'
  <2>1. /\ t \in Eager /\ refinementNodes' = refinementNodes /\ search'[t] = highestID'
        /\ highestID' = NextID(highestID) /\ pc'[t] = "seed" /\ queue'[t] = {}
    BY <1>8 DEF StartsSearch
  <2>2. Eager' = Eager \ {t}
    BY <1>3, <1>4, <2>1 DEF Eager
  <2>3. Cardinality(Eager') = Cardinality(Eager) - 1
    <3> HIDE DEF Eager
    <3> QED BY <1>2, <2>1, <2>2, FS_RemoveElement
  <2>4. CASE highestID # MaxSearchID
    <3>1. highestID' = highestID + 1
      BY <1>5, <2>1, <2>4 DEF NextID
    <3>2. \A s \in Tasks : s # t => search'[s] = search[s] /\ (Running(s)' => Running(s))
      BY <1>3
    <3>3. /\ deactivated <= highestID
          /\ \A s \in Tasks : Running(s) => deactivated < search[s] /\ search[s] <= highestID
          /\ \A s, r \in Tasks : s # r /\ Running(s) /\ Running(r) => search[s] # search[r]
      BY <1>8 DEF IdsOK
    <3>4. \A s \in Tasks : s # t /\ Running(s)' => deactivated < search'[s] /\ search'[s] <= highestID
      BY <3>2, <3>3
    <3>5. deactivated < search'[t] /\ search'[t] = highestID + 1
      BY <1>5, <2>1, <3>1, <3>3
    <3>6. highestID' + Cardinality(refinementNodes') + Cardinality(Eager') <= MaxSearchID + 1
      <4> HIDE DEF Eager
      <4> QED BY <1>2, <1>5, <1>8, <2>1, <2>3, <3>1 DEF IdsOK
    <3>7. \A s \in Tasks : Running(s)' => deactivated' < search'[s] /\ search'[s] <= highestID'
      <4> SUFFICES ASSUME NEW s \in Tasks, Running(s)' PROVE deactivated' < search'[s] /\ search'[s] <= highestID'
        OBVIOUS
      <4>1. CASE s = t
        BY <1>5, <2>1, <3>5, <4>1
      <4>2. CASE s # t
        <5>1. search'[s] \in Nat
          BY <1>5, <3>2, <4>2
        <5> QED BY <1>5, <3>1, <3>4, <4>2, <5>1
      <4> QED BY <4>1, <4>2
    <3>8. ASSUME NEW s \in Tasks, NEW r \in Tasks, s # r, Running(s)', Running(r)'
          PROVE  search'[s] # search'[r]
      <4>1. CASE s # t /\ r # t
        BY <3>2, <3>3, <3>8, <4>1
      <4>2. CASE s = t
        <5>1. r # t /\ search'[r] <= highestID /\ search'[r] \in Nat
          BY <1>5, <3>2, <3>4, <3>8, <4>2
        <5> QED BY <1>5, <3>5, <4>2, <5>1
      <4>3. CASE r = t
        <5>1. s # t /\ search'[s] <= highestID /\ search'[s] \in Nat
          BY <1>5, <3>2, <3>4, <3>8, <4>3
        <5> QED BY <1>5, <3>5, <4>3, <5>1
      <4> QED BY <4>1, <4>2, <4>3
    <3>9. deactivated' <= highestID'
      BY <1>5, <3>1, <3>3
    <3> HIDE DEF Running, Eager
    <3> QED BY <3>6, <3>7, <3>8, <3>9 DEF IdsOK
  <2>5. CASE highestID = MaxSearchID
    <3>1. highestID' = 0
      BY <1>5, <2>1, <2>5 DEF NextID
    <3>2. Cardinality(Eager') = 0 /\ Cardinality(refinementNodes) = 0
      <4> HIDE DEF Eager
      <4> QED BY <1>2, <1>5, <1>8, <2>3, <2>5 DEF IdsOK
    <3>3. Eager' = {} /\ refinementNodes = {}
      <4>1. IsFiniteSet(Eager')
        <5> HIDE DEF Eager
        <5> QED BY <1>2, <2>2, FS_Subset
      <4> HIDE DEF Eager
      <4> QED BY <1>2, <3>2, <4>1, FS_EmptySet
    <3>4. \A s \in Tasks : pc'[s] = "finished" \/ (pc'[s] = "seed" /\ queue'[s] = {})
      BY <3>3 DEF Eager
    <3> QED BY <2>1, <3>1, <3>3, <3>4 DEF WrappedAround
  <2> QED BY <2>4, <2>5
<1>9. ASSUME WrappedAround PROVE WrappedAround'
  <2>1. t \notin Eager /\ refinementNodes = {}
    BY <1>9 DEF WrappedAround, Eager
  <2>2. KeepsIds(t)
    BY <2>1 DEF StepOK, TakesSeed, StartsSearch
  <2>3. \A s \in Tasks : s \notin Eager'
    BY <1>3, <1>9, <2>1, <2>2 DEF KeepsIds, WrappedAround, Eager
  <2> QED BY <1>9, <2>2, <2>3 DEF KeepsIds, WrappedAround, Eager
<1> QED BY <1>6, <1>7, <1>8, <1>9 DEF StepOK

\* Every step of a task keeps the invariant.
LEMMA SearchKeepsInv ==
  ASSUME Searching, NEW t \in Tasks, Search(t)
  PROVE  Searching'
<1>1. UNCHANGED <<phase, start>> /\ SearchStep(t)
  BY DEF Search, roundVars
<1>2. StepOK(t)
  BY <1>1, ClearStep, StopStep, ReleaseStep, PopSeedStep, NoMoreSeedsStep, FindStep, SkipStep, MoveStep, FlushStep, ExpandStep
     DEF SearchStep
<1>3. deactivated' = deactivated
  BY <1>1 DEF SearchStep, BeginTask, PopSeed, NoMoreSeeds, FindNextMove, SkipMove, MoveDirectly,
              MoveLocally, Flush, Expand, Stop, ReleaseNode, ClearQueues, trackerVars
<1>4. (IdsOK \/ WrappedAround)'
  BY <1>2, <1>3, IdsStep
<1> QED BY <1>1, <1>2, <1>4 DEF Searching, StepOK

-----------------------------------------------------------------------------
(***************************************************************************)
(* Between the searches.                                                   *)
(***************************************************************************)

\* Tasks that do not search hold no nodes.
LEMMA NothingHeld ==
  ASSUME \A t \in Tasks : queue'[t] = {} /\ localMoves'[t] = <<>> /\ pc'[t] # "apply"
  PROVE  HeldOK'
<1>1. \A t \in Tasks : QueueOK(t)' /\ LocalOK(t)' /\ MoveOK(t)'
  BY DEF QueueOK, LocalOK, MoveOK
<1>2. \A t \in Tasks : Held(t)' = {}
  BY DEF Held, OwnedNodes, LocalNodes, MoveNodes
<1> QED BY <1>1, <1>2 DEF HeldOK

\* Outside of the searches all tasks are finished.
LEMMA AllIdle ==
  ASSUME PlacesOK, phase # "search" \/ AllTasksFinished
  PROVE  \A t \in Tasks : pc[t] = "finished" /\ queue[t] = {} /\ released[t] = {} /\ localMoves[t] = <<>>
BY DEF PlacesOK, AllTasksFinished, At

\* A round begins: the marker is raised above all ids, which are reset if there are not
\* enough of them for the seed nodes and the tasks.
LEMMA BeginRoundStep ==
  ASSUME SearchInv, BeginRound
  PROVE  SearchInv'
<1> DEFINE border == {u \in Nodes \ fixed : IsBorderNode(u)}
           n == Cardinality(border)
           num_tasks == Min({n, NumTasks})
<1>1. /\ phase = "init" /\ start' = part /\ refinementNodes' = border /\ RequestNewSearches(n)
      /\ pc' = [t \in Tasks |-> IF t <= num_tasks THEN "start" ELSE "finished"]
      /\ phase' = IF border = {} THEN "done" ELSE "search"
      /\ UNCHANGED <<part, search, queue, released, localMoves, move>>
  BY DEF BeginRound
<1>2. border \in SUBSET Nodes
  OBVIOUS
<1> HIDE DEF border
<1>3. n \in Nat /\ n <= Cardinality(Nodes) /\ Cardinality(Nodes) \in Nat /\ (border = {} => n = 0)
  <2>1. n \in Nat /\ Cardinality(Nodes) \in Nat
    BY <1>2, CountsAreFinite
  <2>2. n <= Cardinality(Nodes)
    BY <1>2, FMAssumption, FS_Subset
  <2> QED BY <2>1, <2>2, FS_EmptySet
<1> HIDE DEF n
<1>4. border = {} => num_tasks = 0
  <2> SUFFICES ASSUME border = {} PROVE num_tasks = 0
    OBVIOUS
  <2>1. n = 0 /\ NumTasks \in Nat
    BY <1>3, FMAssumption
  <2>2. 0 \in {0, NumTasks} /\ \A y \in {0, NumTasks} : 0 <= y
    BY <2>1
  <2>3. \A x \in {0, NumTasks} : (\A y \in {0, NumTasks} : x <= y) => x = 0
    BY <2>1
  <2> QED BY <2>1, <2>2, <2>3 DEF Min
<1> HIDE DEF num_tasks
<1>5. \A t \in Tasks : queue[t] = {} /\ released[t] = {} /\ localMoves[t] = <<>>
  BY <1>1, AllIdle DEF SearchInv
<1>6. pc' \in [Tasks -> TaskSteps] /\ \A t \in Tasks : pc'[t] \in {"start", "finished"}
  BY <1>1 DEF TaskSteps
<1>7. /\ searchOfNode' \in [Nodes -> Nat] /\ deactivated' = highestID' /\ highestID' \in 1..MaxSearchID
      /\ highestID' + n + Slack <= MaxSearchID
  <2>1. /\ highestID \in 0..MaxSearchID /\ searchOfNode \in [Nodes -> Nat]
        /\ MaxSearchID \in Nat /\ Slack \in Nat /\ MaxSearchID > Cardinality(Nodes) + Slack + 2
    BY FMAssumption DEF SearchInv, FMTypeOK
  <2>2. CASE highestID >= MaxSearchID - n - Slack
    <3>1. searchOfNode' = [u \in Nodes |-> 0] /\ highestID' = 2 /\ deactivated' = 2
      BY <1>1, <2>2 DEF RequestNewSearches
    <3> QED BY <1>3, <2>1, <3>1
  <2>3. CASE ~(highestID >= MaxSearchID - n - Slack)
    <3>1. searchOfNode' = searchOfNode /\ highestID' = highestID + 1 /\ deactivated' = highestID + 1
      BY <1>1, <2>3 DEF RequestNewSearches
    <3> QED BY <1>3, <2>1, <2>3, <3>1
  <2> QED BY <2>2, <2>3
<1>8. FMTypeOK'
  <2>1. DOMAIN part' = Nodes /\ \A u \in Nodes : part'[u] \in BlockValues'
    BY <1>1 DEF SearchInv, FMTypeOK, BlockValues
  <2> HIDE DEF BlockValues
  <2>2. queue' \in [Tasks -> SUBSET (Nodes \X BlockValues')]
    BY <1>1, <1>5 DEF SearchInv, FMTypeOK
  <2> HIDE DEF LocalMoveType
  <2>3. <<>> \in Seq(LocalMoveType')
    OBVIOUS
  <2>4. localMoves' \in [Tasks -> Seq(LocalMoveType')]
    BY <1>1, <1>5, <2>3 DEF SearchInv, FMTypeOK
  <2>5. highestID' \in 0..MaxSearchID /\ deactivated' \in Nat \ {0}
    BY <1>7, FMAssumption
  <2>6. /\ search' \in [Tasks -> Nat] /\ DOMAIN move' = Tasks /\ DOMAIN released' = Tasks
        /\ \A t \in Tasks : pc'[t] # "apply"
    BY <1>1, <1>6 DEF SearchInv, FMTypeOK
  <2> QED BY <1>1, <1>2, <1>6, <1>7, <2>1, <2>2, <2>4, <2>5, <2>6 DEF FMTypeOK
<1>9. PlacesOK'
  <2>1. phase' # "search" => \A t \in Tasks : pc'[t] = "finished"
    <3>1. phase' # "search" => num_tasks = 0
      BY <1>1, <1>4
    <3>2. \A t \in Tasks : ~(t <= 0)
      BY FMAssumption DEF Tasks
    <3> QED BY <1>1, <3>1, <3>2
  <2> QED BY <1>1, <1>5, <1>6, <2>1 DEF PlacesOK
<1>10. HeldOK'
  BY <1>1, <1>5, <1>6, NothingHeld
<1>11. IdsOK'
  <2>1. Cardinality(Eager') \in Nat /\ Cardinality(Eager') <= NumTasks
    <3>1. Eager' \in SUBSET Tasks
      BY DEF Eager
    <3>2. IsFiniteSet(Tasks) /\ Cardinality(Tasks) = NumTasks
      <4>1. NumTasks \in Nat \ {0} /\ 1 \in Int /\ NumTasks \in Int /\ ~(1 > NumTasks) /\ NumTasks - 1 + 1 = NumTasks
        BY FMAssumption
      <4>2. IsFiniteSet(1..NumTasks) /\ Cardinality(1..NumTasks) = IF 1 > NumTasks THEN 0 ELSE NumTasks - 1 + 1
        BY <4>1, FS_Interval
      <4> QED BY <4>1, <4>2 DEF Tasks
    <3> HIDE DEF Eager
    <3> QED BY <3>1, <3>2, FS_Subset, CountsAreFinite
  <2>2. highestID' + n + Cardinality(Eager') <= MaxSearchID + 1 /\ deactivated' <= highestID'
    <3>1. NumTasks \in Nat /\ Slack \in Nat /\ NumTasks <= Slack + 1 /\ MaxSearchID \in Nat
      BY FMAssumption
    <3>2. highestID' \in Nat /\ deactivated' = highestID'
      BY <1>7, <3>1
    <3>3. \A h, c, k, sl, tasks, max \in Nat :
            h + c + sl <= max /\ k <= tasks /\ tasks <= sl + 1 => h + c + k <= max + 1
      OBVIOUS
    <3>4. highestID' + n + Cardinality(Eager') <= MaxSearchID + 1
      <4> HIDE DEF Eager
      <4> QED BY <1>3, <1>7, <2>1, <3>1, <3>2, <3>3
    <3> QED BY <3>2, <3>4
  <2>3. \A t \in Tasks : ~Running(t)'
    BY <1>6 DEF Running
  <2>4. Cardinality(refinementNodes') = n
    BY <1>1 DEF n
  <2> HIDE DEF Eager, Running
  <2> QED BY <2>2, <2>3, <2>4 DEF IdsOK
<1> QED BY <1>8, <1>9, <1>10, <1>11 DEF SearchInv

\* The steps after the searches leave the tasks alone.
LEMMA IdleStep ==
  ASSUME SearchInv, phase # "search" \/ AllTasksFinished, phase' # "search",
         UNCHANGED <<trackerVars, pc, queue, released, localMoves, move, start>>,
         search' \in [Tasks -> Nat], refinementNodes' \in SUBSET Nodes, DOMAIN part' = Nodes
  PROVE  SearchInv'
<1>1. \A t \in Tasks : pc[t] = "finished" /\ queue[t] = {} /\ released[t] = {} /\ localMoves[t] = <<>>
  BY AllIdle DEF SearchInv
<1>2. FMTypeOK'
  <2> HIDE DEF LocalMoveType, BlockValues
  <2> QED BY <1>1, BlockValuesStay DEF SearchInv, FMTypeOK, trackerVars
<1>3. PlacesOK'
  BY <1>1 DEF PlacesOK
<1>4. HeldOK'
  BY <1>1, NothingHeld
<1> QED BY <1>2, <1>3, <1>4 DEF SearchInv

\* Initially no task searches.
LEMMA InitInv == Init => SearchInv
<1> SUFFICES ASSUME Init PROVE SearchInv
  OBVIOUS
<1>1. part \in [Nodes -> Blocks] /\ phase = "init"
  BY RoundsAssumption DEF Init
<1>2. /\ \A t \in Tasks : pc[t] = "finished" /\ queue[t] = {} /\ released[t] = {} /\ localMoves[t] = <<>>
  BY DEF Init
<1>3. FMTypeOK
  <2> HIDE DEF LocalMoveType, BlockValues
  <2>1. <<>> \in Seq(LocalMoveType)
    OBVIOUS
  <2>2. 2 \in 0..MaxSearchID
    <3>1. Cardinality(Nodes) \in Nat /\ MaxSearchID \in Nat /\ Slack \in Nat /\ MaxSearchID > Cardinality(Nodes) + Slack + 2
      BY FMAssumption, CountsAreFinite
    <3> QED BY <3>1
  <2> QED BY <1>1, <1>2, <2>1, <2>2 DEF Init, FMTypeOK, TaskSteps
<1>4. PlacesOK
  BY <1>2 DEF PlacesOK
<1>5. HeldOK
  <2>1. \A t \in Tasks : QueueOK(t) /\ LocalOK(t) /\ MoveOK(t)
    BY <1>2 DEF QueueOK, LocalOK, MoveOK
  <2>2. \A t \in Tasks : Held(t) = {}
    BY <1>2 DEF Held, OwnedNodes, LocalNodes, MoveNodes
  <2> QED BY <2>1, <2>2 DEF HeldOK
<1> QED BY <1>1, <1>3, <1>4, <1>5 DEF SearchInv

\* Every step keeps the invariant.
LEMMA StepInv == SearchInv /\ [Next]_vars => SearchInv'
<1> SUFFICES ASSUME SearchInv, [Next]_vars PROVE SearchInv'
  OBVIOUS
<1>1. CASE BeginRound
  BY <1>1, BeginRoundStep
<1>2. ASSUME NEW t \in Tasks, Search(t) PROVE SearchInv'
  <2>1. Searching
    BY <1>2 DEF Search, SearchInv, Searching
  <2>2. Searching'
    BY <1>2, <2>1, SearchKeepsInv
  <2> QED BY <2>2 DEF SearchInv, Searching
<1>3. CASE FinishSearch
  <2>1. /\ AllTasksFinished /\ phase' # "search" /\ UNCHANGED <<trackerVars, pc, queue, released, localMoves, move, start, part>>
        /\ search' \in [Tasks -> Nat] /\ refinementNodes' \in SUBSET Nodes
    BY <1>3 DEF FinishSearch
  <2>2. DOMAIN part' = Nodes
    BY <2>1 DEF SearchInv, FMTypeOK
  <2> QED BY <2>1, <2>2, IdleStep
<1>4. CASE Rebalance
  <2>1. /\ phase # "search" /\ phase' # "search" /\ UNCHANGED <<trackerVars, pc, queue, released, localMoves, move, start>>
        /\ UNCHANGED <<search, refinementNodes>>
    BY <1>4 DEF Rebalance, taskVars
  <2>2. DOMAIN part' = Nodes
    BY <1>4 DEF Rebalance, UnloadedParts
  <2>3. search' \in [Tasks -> Nat] /\ refinementNodes' \in SUBSET Nodes
    BY <2>1 DEF SearchInv, FMTypeOK
  <2> QED BY <2>1, <2>2, <2>3, IdleStep
<1>5. CASE InterleaveMoves
  <2>1. /\ phase # "search" /\ phase' # "search" /\ UNCHANGED <<trackerVars, pc, queue, released, localMoves, move, start>>
        /\ UNCHANGED <<search, refinementNodes, part>>
    BY <1>5 DEF InterleaveMoves, taskVars
  <2>2. search' \in [Tasks -> Nat] /\ refinementNodes' \in SUBSET Nodes /\ DOMAIN part' = Nodes
    BY <2>1 DEF SearchInv, FMTypeOK
  <2> QED BY <2>1, <2>2, IdleStep
<1>6. CASE RevertToBestPrefix
  <2>1. /\ phase = "rollback" /\ UNCHANGED <<trackerVars, pc, queue, released, localMoves, move, start>>
        /\ UNCHANGED <<search, refinementNodes>>
    BY <1>6 DEF RevertToBestPrefix, taskVars
  <2>2. PICK prefix : RevertTo(prefix)
    BY <1>6 DEF RevertToBestPrefix
  <2>3. phase' # "search" /\ DOMAIN part' = Nodes
    BY <2>2 DEF RevertTo, NextRound, Reverted
  <2>4. search' \in [Tasks -> Nat] /\ refinementNodes' \in SUBSET Nodes
    BY <2>1 DEF SearchInv, FMTypeOK
  <2> QED BY <2>1, <2>3, <2>4, IdleStep
<1>7. CASE UNCHANGED vars
  <2>1. /\ UNCHANGED <<part, searchOfNode, highestID, deactivated, refinementNodes, pc, search, queue, released>>
        /\ UNCHANGED <<localMoves, move, phase, start>>
    BY <1>7 DEF vars, searchVars, roundVars, taskVars, trackerVars
  <2>2. FMTypeOK'
    <3> HIDE DEF LocalMoveType, BlockValues
    <3> QED BY <2>1, BlockValuesStay DEF SearchInv, FMTypeOK
  <2>3. PlacesOK'
    BY <2>1 DEF SearchInv, PlacesOK
  <2>4. HeldOK'
    BY <2>1, SameHeld DEF SearchInv
  <2>5. (IdsOK' <=> IdsOK) /\ (WrappedAround' <=> WrappedAround)
    BY <2>1 DEF IdsOK, WrappedAround, Running, Eager
  <2> QED BY <2>1, <2>2, <2>3, <2>4, <2>5 DEF SearchInv
<1> QED BY <1>1, <1>2, <1>3, <1>4, <1>5, <1>6, <1>7 DEF Next, Refined

\* The invariant says that every node belongs to one search.
LEMMA InvImpliesProperty == SearchInv => OneSearchPerNode
<1> SUFFICES ASSUME SearchInv PROVE OneSearchPerNode
  OBVIOUS
<1>1. \A t \in Tasks : QueueOK(t) /\ LocalOK(t)
  BY DEF SearchInv, HeldOK
<1>2. \A s, t \in Tasks : s # t => Held(s) \intersect Held(t) = {}
  BY DEF SearchInv, HeldOK
<1>3. \A t \in Tasks : OwnedNodes(t) \subseteq Held(t) /\ LocalNodes(t) \subseteq Held(t)
  BY DEF Held
<1>4. \A s, t \in Tasks : s # t =>
        (OwnedNodes(s) \union LocalNodes(s)) \intersect (OwnedNodes(t) \union LocalNodes(t)) = {}
  <2> HIDE DEF Held
  <2> QED BY <1>2, <1>3
<1>5. \A t \in Tasks : released[t] # {} => At(t, "reset")
  BY DEF SearchInv, PlacesOK, At
<1> QED BY <1>1, <1>4, <1>5 DEF OneSearchPerNode, QueueOK, LocalOK

\* vertexPQHandles: "each vertex is only held by one thread".  For every number of tasks,
\* hypergraph and reserve of ids that covers the tasks, a search owns the nodes in its queue
\* until it stops and releases them one by one, and only a search that stops can have a
\* node in its queue that another search owns or moves; also when the ids are reset between
\* rounds, and when the last id was used and they start from 0.
THEOREM SearchesAreDisjoint == Spec => []OneSearchPerNode
<1>1. Spec => []SearchInv
  BY InitInv, StepInv, PTL DEF Spec
<1> QED BY <1>1, InvImpliesProperty, PTL

-----------------------------------------------------------------------------
(* Sequences of moves *)

\* What one move does to a partition.
ApplyMove(parts, m) == IF IsValid(m) THEN [parts EXCEPT ![m.node] = m.to] ELSE parts

\* A move maps partitions to partitions.
LEMMA ApplyMoveType ==
  ASSUME NEW parts \in [Nodes -> Blocks], NEW m \in Moves
  PROVE  ApplyMove(parts, m) \in [Nodes -> Blocks]
BY DEF ApplyMove, Moves

\* The recursive function that ApplyMoves evaluates.
ApplyFun(parts, s) ==
  CHOOSE g : g = [T \in SUBSET (DOMAIN s) |->
                    IF T = {} THEN parts ELSE ApplyMove(g[T \ {Max(T)}], s[Max(T)])]
\* The fold is that function.
LEMMA ApplyIsLoop ==
  ASSUME NEW parts, NEW s
  PROVE  ApplyMoves(parts, s) = ApplyFun(parts, s)[DOMAIN s]
BY DEF ApplyMoves, FoldLeft, MapThenFoldSet, ApplyFun, ApplyMove

\* ApplyMoves applies the moves one after another.
LEMMA ApplyLoop ==
  ASSUME NEW parts \in [Nodes -> Blocks], NEW s \in Seq(Moves)
  PROVE  \E g \in [0..Len(s) -> [Nodes -> Blocks]] :
           /\ g[0] = parts
           /\ \A k \in 1..Len(s) : g[k] = ApplyMove(g[k - 1], s[k])
           /\ ApplyMoves(parts, s) = g[Len(s)]
<1> DEFINE n == Len(s)
           X == [Nodes -> Blocks]
           H == [k \in 1..n |-> [p \in X |-> ApplyMove(p, s[k])]]
<1>1. n \in Nat /\ DOMAIN s = 1..n /\ \A k \in 1..n : s[k] \in Moves
  OBVIOUS
<1> HIDE DEF n
<1>2. H \in [1..n -> [X -> X]]
  BY <1>1, ApplyMoveType
<1>3. PICK f \in [SUBSET (1..n) -> X] : IsLoop(f, H, parts, 1..n)
  <2> HIDE DEF H, X
  <2>1. parts \in X
    BY DEF X
  <2> QED BY <1>1, <1>2, <2>1, LoopType
<1>4. f = [T \in SUBSET (1..n) |->
             IF T = {} THEN parts ELSE ApplyMove(f[T \ {Max(T)}], s[Max(T)])]
  <2>1. ASSUME NEW T \in SUBSET (1..n), T # {}
        PROVE  H[Max(T)][f[T \ {Max(T)}]] = ApplyMove(f[T \ {Max(T)}], s[Max(T)])
    <3>1. Max(T) \in 1..n
      BY <1>1, <2>1, MaxUpTo
    <3>2. f[T \ {Max(T)}] \in X
      OBVIOUS
    <3> QED BY <3>1, <3>2
  <2> HIDE DEF H, X
  <2>2. f = [T \in SUBSET (1..n) |-> IF T = {} THEN parts ELSE H[Max(T)][f[T \ {Max(T)}]]]
    BY <1>3 DEF IsLoop
  <2> QED BY <2>1, <2>2
<1> DEFINE a == ApplyFun(parts, s)
<1>5. a = [T \in SUBSET (1..n) |->
             IF T = {} THEN parts ELSE ApplyMove(a[T \ {Max(T)}], s[Max(T)])]
  <2> HIDE DEF H, X
  <2> QED BY <1>1, <1>4 DEF ApplyFun
<1>6. ApplyMoves(parts, s) = a[1..n]
  BY <1>1, ApplyIsLoop
<1> HIDE DEF a
<1> DEFINE g == [k \in 0..n |-> a[1..k]]
<1>7. a[1..0] = parts
  BY <1>5, 1..0 = {}
<1>8. ASSUME NEW k \in 1..n PROVE a[1..k] = ApplyMove(a[1..(k - 1)], s[k])
  <2>1. Max(1..k) = k /\ (1..k) \ {k} = 1..(k - 1) /\ 1..k # {}
    BY <1>1, MaxOfSegment
  <2>2. 1..k \in SUBSET (1..n)
    BY <1>1
  <2> QED BY <1>5, <2>1, <2>2
<1>9. \A k \in 0..n : a[1..k] \in X
  <2> DEFINE Q == {k \in 0..n : a[1..k] \in X}
  <2>1. 0 \in Q
    BY <1>1, <1>7
  <2>2. ASSUME NEW k \in 1..n, k - 1 \in Q PROVE k \in Q
    BY <1>1, <1>8, <2>2, ApplyMoveType
  <2>3. \A k \in 0..n : k \in Q
    <3> HIDE DEF Q
    <3> QED BY <1>1, <2>1, <2>2, RangeInduction
  <2> QED BY <2>3
<1>10. g \in [0..n -> X] /\ g[0] = parts /\ \A k \in 1..n : g[k] = ApplyMove(g[k - 1], s[k])
  BY <1>1, <1>7, <1>8, <1>9
<1>11. ApplyMoves(parts, s) = g[n]
  BY <1>1, <1>6
<1> HIDE DEF g
<1> QED BY <1>10, <1>11 DEF n

\* No moves change nothing.
LEMMA ApplyEmpty ==
  ASSUME NEW parts \in [Nodes -> Blocks]
  PROVE  ApplyMoves(parts, <<>>) = parts
<1> DEFINE s == <<>>
<1>1. s \in Seq(Moves) /\ Len(s) = 0
  OBVIOUS
<1> HIDE DEF s
<1>2. PICK g \in [0..Len(s) -> [Nodes -> Blocks]] : g[0] = parts /\ ApplyMoves(parts, s) = g[Len(s)]
  BY <1>1, ApplyLoop, ZenonT(40)
<1> QED BY <1>1, <1>2 DEF s

\* The result of moves is a partition.
LEMMA ApplyType ==
  ASSUME NEW parts \in [Nodes -> Blocks], NEW s \in Seq(Moves)
  PROVE  ApplyMoves(parts, s) \in [Nodes -> Blocks]
<1>1. PICK g \in [0..Len(s) -> [Nodes -> Blocks]] : ApplyMoves(parts, s) = g[Len(s)]
  BY ApplyLoop
<1> QED BY <1>1

\* One move more.
LEMMA ApplyAppend ==
  ASSUME NEW parts \in [Nodes -> Blocks], NEW s \in Seq(Moves), NEW m \in Moves
  PROVE  ApplyMoves(parts, Append(s, m)) = ApplyMove(ApplyMoves(parts, s), m)
<1> DEFINE n == Len(s)
           t == Append(s, m)
<1>1. n \in Nat /\ t \in Seq(Moves) /\ Len(t) = n + 1 /\ t[n + 1] = m
      /\ \A k \in 1..n : t[k] = s[k]
  OBVIOUS
<1>2. PICK g \in [0..n -> [Nodes -> Blocks]] :
        /\ g[0] = parts
        /\ \A k \in 1..n : g[k] = ApplyMove(g[k - 1], s[k])
        /\ ApplyMoves(parts, s) = g[n]
  BY ApplyLoop
<1> HIDE DEF t
<1>3. PICK h \in [0..Len(t) -> [Nodes -> Blocks]] :
        /\ h[0] = parts
        /\ \A k \in 1..Len(t) : h[k] = ApplyMove(h[k - 1], t[k])
        /\ ApplyMoves(parts, t) = h[Len(t)]
  BY <1>1, ApplyLoop
<1> HIDE DEF n
<1>4. \A k \in 0..n : h[k] = g[k]
  <2> DEFINE Q == {k \in 0..n : h[k] = g[k]}
  <2>1. 0 \in Q
    BY <1>1, <1>2, <1>3
  <2>2. ASSUME NEW k \in 1..n, k - 1 \in Q PROVE k \in Q
    BY <1>1, <1>2, <1>3, <2>2
  <2>3. \A k \in 0..n : k \in Q
    <3> HIDE DEF Q
    <3> QED BY <1>1, <2>1, <2>2, RangeInduction
  <2> QED BY <2>3
<1>5. h[n + 1] = ApplyMove(h[n], m)
  BY <1>1, <1>3
<1> QED BY <1>1, <1>2, <1>3, <1>4, <1>5 DEF t

-----------------------------------------------------------------------------
(***************************************************************************)
(* The sequence of moves of a round.                                       *)
(***************************************************************************)

\* A node has a move in a sequence; no two entries of a sequence are about one node.
MovedIn(s, u) == \E i \in DOMAIN s : IsValid(s[i]) /\ s[i].node = u
OncePerNode(s) == \A i, j \in DOMAIN s : s[i].node = s[j].node => i = j

\* The moves of the round start where the round did, the tracker finds exactly them.
SequenceOK ==
  /\ OncePerNode(moveOrder)
  /\ \A i \in DOMAIN moveOrder : IsValid(moveOrder[i]) =>
       /\ start[moveOrder[i].node] = moveOrder[i].from
       /\ moveOfNode[moveOrder[i].node] = firstMoveID - 1 + i
  /\ \A u \in Nodes : moveOfNode[u] >= firstMoveID => MovedIn(moveOrder, u)

\* The types of partition and moves.
MovesTypeOK ==
  /\ part \in [Nodes -> Blocks] /\ start \in [Nodes -> Blocks]
  /\ moveOrder \in Seq(Moves)
  /\ moveOfNode \in [Nodes -> Nat] /\ firstMoveID \in Nat \ {0}

\* The nodes of moves that were applied are locked, and no search wants to move them.
AppliedOK ==
  \A i \in DOMAIN moveOrder :
    /\ IsValid(moveOrder[i]) /\ searchOfNode[moveOrder[i].node] = deactivated
    /\ \A t \in Tasks : moveOrder[i].node \notin LocalNodes(t) \union MoveNodes(t)

\* What the rebalancer reports: the nodes whose blocks it has changed, once.
Unbalanced == ApplyMoves(start, moveOrder)
RebalancedOK ==
  /\ rebalanced \in [Blocks -> Seq(Moves)]
  /\ \A b \in Blocks :
       /\ OncePerNode(rebalanced[b])
       /\ \A i \in DOMAIN rebalanced[b] : LET m == rebalanced[b][i] IN
            m.from = b /\ Unbalanced[m.node] = b /\ m.to = part[m.node] /\ m.to # b
  /\ \A u \in Nodes : Unbalanced[u] # part[u] =>
       \E i \in DOMAIN rebalanced[Unbalanced[u]] : rebalanced[Unbalanced[u]][i].node = u

MovesInv ==
  /\ MovesTypeOK
  /\ phase \in {"init", "search", "rebalance", "interleave", "rollback", "done"}
  /\ phase \in {"init", "done"} => moveOrder = <<>>
  /\ SequenceOK
  /\ phase \in {"search", "rebalance", "rollback"} => ApplyMoves(start, moveOrder) = part
  /\ phase = "search" => AppliedOK
  /\ phase \in {"rebalance", "interleave"} => \A i \in DOMAIN moveOrder : IsValid(moveOrder[i])
  /\ phase = "interleave" => RebalancedOK

\* A node that is moved at most once ends where its move leads, the others stay.
LEMMA ApplyClosed ==
  ASSUME NEW parts \in [Nodes -> Blocks], NEW s \in Seq(Moves), OncePerNode(s)
  PROVE  /\ \A i \in DOMAIN s : IsValid(s[i]) => ApplyMoves(parts, s)[s[i].node] = s[i].to
         /\ \A u \in Nodes : ~MovedIn(s, u) => ApplyMoves(parts, s)[u] = parts[u]
<1> DEFINE n == Len(s)
<1>1. n \in Nat /\ DOMAIN s = 1..n /\ \A k \in 1..n : s[k] \in Moves
  OBVIOUS
<1>2. PICK g \in [0..n -> [Nodes -> Blocks]] :
        /\ g[0] = parts
        /\ \A k \in 1..n : g[k] = ApplyMove(g[k - 1], s[k])
        /\ ApplyMoves(parts, s) = g[n]
  BY ApplyLoop
<1> HIDE DEF n
<1> DEFINE Q == {k \in 0..n :
                   /\ \A i \in 1..k : IsValid(s[i]) => g[k][s[i].node] = s[i].to
                   /\ \A u \in Nodes : (\A i \in 1..k : IsValid(s[i]) => s[i].node # u) => g[k][u] = parts[u]}
<1>3. 0 \in Q
  BY <1>1, <1>2
<1>4. ASSUME NEW k \in 1..n, k - 1 \in Q PROVE k \in Q
  <2>0. k \in 0..n /\ k - 1 \in 0..n /\ s[k] \in Moves /\ s[k].node \in Nodes /\ s[k].to \in Blocks
    BY <1>1 DEF Moves
  <2>1. g[k] = ApplyMove(g[k - 1], s[k]) /\ g[k - 1] \in [Nodes -> Blocks]
    BY <1>2, <2>0
  <2>2. \A u \in Nodes : g[k][u] = IF IsValid(s[k]) /\ u = s[k].node THEN s[k].to ELSE g[k - 1][u]
    BY <2>0, <2>1 DEF ApplyMove
  <2>3. ASSUME NEW i \in 1..k, IsValid(s[i]) PROVE g[k][s[i].node] = s[i].to
    <3>1. CASE i = k
      BY <2>0, <2>2, <2>3, <3>1
    <3>2. CASE i # k
      <4>1. i \in 1..(k - 1) /\ i \in 1..n /\ s[i].node \in Nodes
        BY <1>1, <3>2 DEF Moves
      <4>2. s[i].node # s[k].node
        BY <1>1, <3>2, <4>1 DEF OncePerNode
      <4>3. g[k - 1][s[i].node] = s[i].to
        BY <1>4, <2>3, <4>1
      <4> QED BY <2>2, <4>1, <4>2, <4>3
    <3> QED BY <3>1, <3>2
  <2>4. ASSUME NEW u \in Nodes, \A i \in 1..k : IsValid(s[i]) => s[i].node # u
        PROVE  g[k][u] = parts[u]
    <3>1. k \in 1..k /\ \A i \in 1..(k - 1) : i \in 1..k
      BY <1>1
    <3>2. g[k - 1][u] = parts[u]
      BY <1>4, <2>4, <3>1
    <3> QED BY <2>2, <2>4, <3>1, <3>2
  <2> QED BY <2>0, <2>3, <2>4
<1>5. n \in Q
  <2> HIDE DEF Q
  <2>1. \A k \in 0..n : k \in Q
    BY <1>1, <1>3, <1>4, RangeInduction
  <2>2. n \in 0..n
    BY <1>1
  <2> QED BY <2>1, <2>2
<1> QED BY <1>1, <1>2, <1>5 DEF MovedIn

\* A partition that is reached with one move per node.
LEMMA AppliedIs ==
  ASSUME NEW parts \in [Nodes -> Blocks], NEW s \in Seq(Moves), OncePerNode(s),
         NEW p \in [Nodes -> Blocks],
         \A i \in DOMAIN s : IsValid(s[i]) => p[s[i].node] = s[i].to,
         \A u \in Nodes : ~MovedIn(s, u) => p[u] = parts[u]
  PROVE  ApplyMoves(parts, s) = p
<1>1. ApplyMoves(parts, s) \in [Nodes -> Blocks]
  BY ApplyType
<1>2. ASSUME NEW u \in Nodes PROVE ApplyMoves(parts, s)[u] = p[u]
  <2>1. CASE MovedIn(s, u)
    <3>1. PICK i \in DOMAIN s : IsValid(s[i]) /\ s[i].node = u
      BY <2>1 DEF MovedIn
    <3> QED BY <3>1, ApplyClosed
  <2>2. CASE ~MovedIn(s, u)
    BY <2>2, ApplyClosed
  <2> QED BY <2>1, <2>2
<1> HIDE DEF ApplyMoves
<1> QED BY <1>1, <1>2

\* A sequence with one entry per node has at most as many entries as there are nodes.
LEMMA FewMoves ==
  ASSUME NEW s \in Seq(Moves), OncePerNode(s)
  PROVE  Len(s) <= Cardinality(Nodes)
<1> DEFINE n == Len(s)
           f == [i \in 1..n |-> s[i].node]
<1>1. n \in Nat /\ DOMAIN s = 1..n /\ \A k \in 1..n : s[k] \in Moves
  OBVIOUS
<1> HIDE DEF n
<1>2. IsFiniteSet(Nodes) /\ IsFiniteSet(1..n) /\ Cardinality(1..n) = n
  <2>1. Cardinality(1..n) = IF 1 > n THEN 0 ELSE n - 1 + 1
    BY <1>1, FS_Interval
  <2> QED BY <1>1, <2>1, FMAssumption, FS_Interval
<1>3. f \in [1..n -> Nodes] /\ \A i, j \in 1..n : f[i] = f[j] => i = j
  BY <1>1 DEF Moves, OncePerNode
<1>4. f \in Injection(1..n, Nodes)
  BY <1>3 DEF Injection, IsInjective
<1>5. Cardinality(1..n) <= Cardinality(Nodes)
  <2> HIDE DEF f
  <2> QED BY <1>2, <1>4, FS_Injection
<1> QED BY <1>2, <1>5 DEF n

-----------------------------------------------------------------------------
(* The sequence of moves during the searches *)

\* A step that leaves partition and moves alone.
LEMMA SameMoves ==
  ASSUME MovesInv, phase = "search", phase' = phase,
         UNCHANGED <<part, start, moveOrder, moveOfNode, firstMoveID>>, AppliedOK'
  PROVE  MovesInv'
<1>1. MovesTypeOK' /\ SequenceOK'
  BY DEF MovesInv, MovesTypeOK, SequenceOK, OncePerNode, MovedIn
<1>2. ApplyMoves(start', moveOrder') = part'
  BY DEF MovesInv
<1> QED BY <1>1, <1>2 DEF MovesInv

\* The nodes in the queue of a search carry its id, and are not locked.
LEMMA QueueIsNotLocked ==
  ASSUME Searching, NEW t \in Tasks, NEW u \in OwnedNodes(t)
  PROVE  u \in Nodes /\ searchOfNode[u] # deactivated
<1>1. PICK q \in queue[t] \ released[t] : u = q[1]
  BY DEF OwnedNodes
<1>2. pc[t] \notin {"start", "finished"} /\ ~WrappedAround
  BY <1>1 DEF Searching, PlacesOK, WrappedAround
<1>3. deactivated < search[t] /\ deactivated \in Nat /\ search[t] \in Nat
  BY <1>2 DEF Searching, IdsOK, Running, FMTypeOK
<1>4. searchOfNode[u] = search[t]
  BY <1>1 DEF Searching, HeldOK, QueueOK
<1>5. u \in Nodes
  BY <1>1 DEF Searching, FMTypeOK
<1> QED BY <1>3, <1>4, <1>5

\* A step that locks or releases nodes of its queue, or acquires free nodes.
LEMMA AppliedStep ==
  ASSUME Searching, MovesInv, NEW t \in Tasks, OthersStay(t), UNCHANGED <<moveOrder, deactivated>>,
         \A u \in Nodes : searchOfNode'[u] = searchOfNode[u] \/ u \in OwnedNodes(t) \/ u \in Free,
         LocalNodes(t)' \union MoveNodes(t)' \subseteq
           LocalNodes(t) \union MoveNodes(t) \union OwnedNodes(t)
  PROVE  AppliedOK'
<1>1. AppliedOK
  BY DEF MovesInv, Searching
<1> SUFFICES ASSUME NEW i \in DOMAIN moveOrder
             PROVE  /\ IsValid(moveOrder[i]) /\ searchOfNode'[moveOrder[i].node] = deactivated
                    /\ \A s \in Tasks : moveOrder[i].node \notin LocalNodes(s)' \union MoveNodes(s)'
  BY DEF AppliedOK
<1> DEFINE u == moveOrder[i].node
<1>2. u \in Nodes
  <2>1. moveOrder[i] \in Moves
    BY DEF MovesInv, MovesTypeOK
  <2> QED BY <2>1 DEF Moves
<1>3. IsValid(moveOrder[i]) /\ searchOfNode[u] = deactivated
      /\ \A s \in Tasks : u \notin LocalNodes(s) \union MoveNodes(s)
  BY <1>1 DEF AppliedOK
<1>4. u \notin OwnedNodes(t)
  BY <1>3, QueueIsNotLocked
<1>5. u \notin Free
  BY <1>3 DEF Free, IsSearchInactive, Searching, FMTypeOK
<1>6. searchOfNode'[u] = deactivated
  BY <1>2, <1>3, <1>4, <1>5
<1>7. ASSUME NEW s \in Tasks PROVE u \notin LocalNodes(s)' \union MoveNodes(s)'
  <2>1. CASE s = t
    BY <1>3, <1>4, <2>1
  <2>2. CASE s # t
    <3>1. LocalNodes(s)' = LocalNodes(s) /\ MoveNodes(s)' = MoveNodes(s)
      BY <2>2 DEF OthersStay, LocalNodes, MoveNodes
    <3> QED BY <1>3, <3>1
  <2> QED BY <2>1, <2>2
<1> QED BY <1>3, <1>6, <1>7

\* A task that begins or ends a search has no local moves.
LEMMA NoLocalMoves ==
  ASSUME FMTypeOK, NEW t \in Tasks, TaskLoop(t)
  PROVE  LocalNodes(t)' = {} /\ MoveNodes(t)' = {}
<1>1. localMoves'[t] = <<>> /\ pc'[t] \in {"seed", "finished"}
  BY DEF TaskLoop, StartSearch, FinishTask, Goto, FMTypeOK
<1> QED BY <1>1 DEF LocalNodes, MoveNodes

\* The steps of a search before a move is applied, and those that end it.
LEMMA SearchLeavesMoves ==
  ASSUME Searching, MovesInv, NEW t \in Tasks, Search(t), ~Flush(t)
  PROVE  MovesInv'
<1>1. /\ UNCHANGED <<phase, start>> /\ SearchStep(t) /\ phase = "search"
  BY DEF Search, roundVars
<1>2. StepOK(t)
  BY <1>1, ClearStep, StopStep, ReleaseStep, PopSeedStep, NoMoreSeedsStep, FindStep, SkipStep, MoveStep, FlushStep, ExpandStep
     DEF SearchStep
<1>3. OthersStay(t) /\ FMTypeOK /\ FMTypeOK' /\ PlacesOK'
  BY <1>2 DEF StepOK, Searching
<1>4. UNCHANGED <<part, moveOrder, moveOfNode, firstMoveID, deactivated>>
  BY <1>1 DEF SearchStep, BeginTask, PopSeed, NoMoreSeeds, FindNextMove, SkipMove, MoveDirectly,
              MoveLocally, Expand, Stop, ReleaseNode, ClearQueues, trackerVars, moveVars
<1> DEFINE Local(s) == LocalNodes(t)' \union MoveNodes(t)' \subseteq s
           Locked == \A u \in Nodes : searchOfNode'[u] = searchOfNode[u] \/ u \in OwnedNodes(t) \/ u \in Free
<1>5. Locked /\ Local(LocalNodes(t) \union MoveNodes(t) \union OwnedNodes(t))
  <2>1. CASE BeginTask(t)
    BY <1>3, <2>1, NoLocalMoves DEF BeginTask
  <2>2. CASE PopSeed(t)
    <3>1. localMoves' = localMoves /\ pc'[t] # "apply"
      BY <1>3, <2>2 DEF PopSeed, At, Goto, FMTypeOK
    <3>2. LocalNodes(t)' = LocalNodes(t) /\ MoveNodes(t)' = {}
      BY <3>1 DEF LocalNodes, MoveNodes
    <3>3. Locked
      BY <1>3, <2>2 DEF PopSeed, TryAcquire, FMTypeOK
    <3> QED BY <3>2, <3>3
  <2>3. CASE NoMoreSeeds(t)
    <3>1. UNCHANGED <<localMoves, searchOfNode>> /\ pc'[t] # "apply"
      BY <1>3, <2>3 DEF NoMoreSeeds, At, Goto, FinishTask, FMTypeOK, trackerVars
    <3>2. LocalNodes(t)' = LocalNodes(t) /\ MoveNodes(t)' = {}
      BY <3>1 DEF LocalNodes, MoveNodes
    <3> QED BY <3>1, <3>2
  <2>4. CASE FindNextMove(t)
    <3>1. PICK q \in queue[t] :
            /\ searchOfNode' = [searchOfNode EXCEPT ![q[1]] = LockedMarker]
            /\ \/ pc' = [pc EXCEPT ![t] = "find"]
               \/ \E b \in Blocks : move' = [move EXCEPT ![t] = [node |-> q[1], from |-> q[2], to |-> b]]
      BY <2>4 DEF FindNextMove, Goto
    <3>2. localMoves' = localMoves
      BY <2>4 DEF FindNextMove
    <3>3. LocalNodes(t)' = LocalNodes(t)
      BY <3>2 DEF LocalNodes
    <3>4. q[1] \in OwnedNodes(t) /\ q[1] \in Nodes
      <4>1. released[t] = {}
        BY <2>4 DEF Searching, PlacesOK, FindNextMove, At
      <4> QED BY <1>3, <4>1 DEF OwnedNodes, FMTypeOK
    <3>5. MoveNodes(t)' \subseteq {q[1]}
      <4>1. CASE pc' = [pc EXCEPT ![t] = "find"]
        BY <1>3, <4>1 DEF MoveNodes, FMTypeOK
      <4>2. ASSUME NEW b \in Blocks, move' = [move EXCEPT ![t] = [node |-> q[1], from |-> q[2], to |-> b]]
            PROVE  MoveNodes(t)' \subseteq {q[1]}
        <5>1. move'[t].node = q[1]
          BY <1>3, <4>2 DEF FMTypeOK
        <5> QED BY <5>1 DEF MoveNodes
      <4> QED BY <3>1, <4>1, <4>2
    <3>6. Locked
      BY <1>3, <3>1, <3>4 DEF FMTypeOK
    <3> QED BY <3>3, <3>4, <3>5, <3>6
  <2>5. CASE SkipMove(t)
    <3>1. UNCHANGED <<localMoves, searchOfNode>> /\ pc'[t] # "apply"
      BY <1>3, <2>5 DEF SkipMove, Goto, FMTypeOK, trackerVars
    <3>2. LocalNodes(t)' = LocalNodes(t) /\ MoveNodes(t)' = {}
      BY <3>1 DEF LocalNodes, MoveNodes
    <3> QED BY <3>1, <3>2
  <2>6. CASE MoveDirectly(t) \/ MoveLocally(t)
    <3>1. /\ searchOfNode' = searchOfNode /\ pc[t] = "apply" /\ pc'[t] # "apply"
          /\ localMoves' = [localMoves EXCEPT ![t] = Append(localMoves[t], move[t])]
      BY <1>3, <2>6 DEF MoveDirectly, MoveLocally, At, Goto, FMTypeOK, trackerVars
    <3>2. /\ localMoves[t] \in Seq(LocalMoveType) /\ move[t] \in LocalMoveType
          /\ localMoves'[t] = Append(localMoves[t], move[t])
      BY <1>3, <3>1 DEF FMTypeOK
    <3>3. MoveNodes(t)' = {} /\ MoveNodes(t) = {move[t].node}
      BY <3>1 DEF MoveNodes
    <3>4. LocalNodes(t)' \subseteq LocalNodes(t) \union {move[t].node}
      <4> DEFINE l == localMoves[t]
                 a == Append(l, move[t])
      <4>1. ASSUME NEW i \in DOMAIN a
            PROVE  a[i] = move[t] \/ (i \in DOMAIN l /\ a[i] = l[i])
        <5> HIDE DEF LocalMoveType
        <5> QED BY <3>2
      <4>2. LocalNodes(t)' = {a[i].node : i \in DOMAIN a}
        BY <3>2 DEF LocalNodes
      <4>3. LocalNodes(t) = {l[i].node : i \in DOMAIN l}
        BY DEF LocalNodes
      <4> HIDE DEF a, l
      <4> QED BY <4>1, <4>2, <4>3
    <3> QED BY <3>1, <3>3, <3>4
  <2>7. CASE Expand(t)
    <3>1. localMoves' = localMoves /\ pc'[t] # "apply"
      BY <1>3, <2>7 DEF Expand, Goto, FMTypeOK
    <3>2. LocalNodes(t)' = LocalNodes(t) /\ MoveNodes(t)' = {}
      BY <3>1 DEF LocalNodes, MoveNodes
    <3>3. Locked
      BY <2>7 DEF Expand, TryAcquire
    <3> QED BY <3>2, <3>3
  <2>8. CASE Stop(t)
    <3>1. UNCHANGED <<localMoves, searchOfNode>> /\ pc'[t] # "apply"
      BY <1>3, <2>8 DEF Stop, Goto, FMTypeOK, trackerVars
    <3>2. LocalNodes(t)' = LocalNodes(t) /\ MoveNodes(t)' = {}
      BY <3>1 DEF LocalNodes, MoveNodes
    <3> QED BY <3>1, <3>2
  <2>9. CASE ReleaseNode(t)
    <3>1. PICK q \in queue[t] \ released[t] :
            searchOfNode' = [searchOfNode EXCEPT ![q[1]] = ReleasedMarker]
      BY <2>9 DEF ReleaseNode, Unreleased
    <3>2. q[1] \in OwnedNodes(t) /\ UNCHANGED <<localMoves, pc>> /\ pc[t] = "reset"
      BY <2>9 DEF OwnedNodes, ReleaseNode, At
    <3>3. LocalNodes(t)' = LocalNodes(t) /\ MoveNodes(t)' = {}
      BY <3>2 DEF LocalNodes, MoveNodes
    <3>4. Locked
      BY <1>3, <3>1, <3>2 DEF FMTypeOK
    <3> QED BY <3>3, <3>4
  <2>10. CASE ClearQueues(t)
    <3>1. LocalNodes(t)' = {} /\ MoveNodes(t)' = {}
      BY <1>3, <2>10, NoLocalMoves DEF ClearQueues
    <3>2. Locked
      BY <2>10 DEF ClearQueues
    <3> QED BY <3>1, <3>2
  <2> QED BY <1>1, <2>1, <2>2, <2>3, <2>4, <2>5, <2>6, <2>7, <2>8, <2>9, <2>10 DEF SearchStep
<1>6. AppliedOK'
  BY <1>3, <1>4, <1>5, AppliedStep
<1> QED BY <1>1, <1>4, <1>6, SameMoves

\* Blocks are numbers, finitely many of them, and kInvalidPartition is none.
LEMMA BlocksAreNumbers ==
  /\ Cardinality(Blocks) \in Nat /\ Blocks = 0..(Cardinality(Blocks) - 1)
  /\ Blocks \subseteq Nat /\ NoBlock \notin Blocks /\ NoBlock \in Int
<1>1. Cardinality(Blocks) \in Nat /\ Blocks = 0..(Cardinality(Blocks) - 1)
  BY FMAssumption, FS_CardinalityType
<1>2. Blocks \subseteq Nat /\ (-1) \notin Blocks
  BY ONLY <1>1
<1> QED BY <1>1, <1>2 DEF NoBlock

\* The parts of a local move.
LEMMA LocalFields ==
  ASSUME NEW r \in LocalMoveType
  PROVE  r.node \in Nodes /\ r.to \in Blocks /\ (r.from \in Blocks => r \in Moves)
BY DEF LocalMoveType, Moves

\* An entry more in a sequence of moves.
LEMMA AppendMove ==
  ASSUME NEW M, NEW s \in Seq(M), NEW m \in M, OncePerNode(s),
         \A i \in DOMAIN s : s[i].node # m.node
  PROVE  /\ Append(s, m) \in Seq(M) /\ OncePerNode(Append(s, m))
         /\ Len(Append(s, m)) = Len(s) + 1 /\ DOMAIN Append(s, m) = 1..(Len(s) + 1)
         /\ Len(s) \in Nat /\ DOMAIN s = 1..Len(s)
         /\ \A i \in 1..Len(s) : Append(s, m)[i] = s[i]
         /\ Append(s, m)[Len(s) + 1] = m
<1> DEFINE a == Append(s, m)
           n == Len(s)
<1>1. /\ a \in Seq(M) /\ Len(a) = n + 1 /\ DOMAIN a = 1..(n + 1)
      /\ n \in Nat /\ DOMAIN s = 1..n
      /\ \A i \in 1..n : a[i] = s[i]
      /\ a[n + 1] = m
  OBVIOUS
<1> HIDE DEF a, n
<1>2. OncePerNode(a)
  <2> SUFFICES ASSUME NEW i \in 1..(n + 1), NEW j \in 1..(n + 1), a[i].node = a[j].node
               PROVE  i = j
    BY <1>1 DEF OncePerNode
  <2>1. CASE i \in 1..n /\ j \in 1..n
    BY <1>1, <2>1 DEF OncePerNode
  <2>2. CASE i = n + 1 /\ j \in 1..n
    BY <1>1, <2>2
  <2>3. CASE j = n + 1 /\ i \in 1..n
    BY <1>1, <2>3
  <2>4. CASE i = n + 1 /\ j = n + 1
    BY <2>4
  <2> QED BY <1>1, <2>1, <2>2, <2>3, <2>4
<1> QED BY <1>1, <1>2 DEF a, n

\* The next local move is applied: it starts where the round started, because its node has
\* not been moved in this round.
LEMMA FlushKeepsMoves ==
  ASSUME Searching, MovesInv, NEW t \in Tasks, Search(t), Flush(t)
  PROVE  MovesInv'
<1> DEFINE l == localMoves[t]
           m == Head(l)
           n == Len(moveOrder)
<1>1. /\ UNCHANGED <<phase, start>> /\ SearchStep(t) /\ phase = "search"
  BY DEF Search, roundVars
<1>2. StepOK(t)
  BY <1>1, FlushStep
<1>3. /\ UNCHANGED <<searchOfNode, deactivated, firstMoveID>>
      /\ pc[t] = "flush" /\ part' = [part EXCEPT ![m.node] = m.to]
      /\ moveOrder' = Append(moveOrder, m)
      /\ moveOfNode' = [moveOfNode EXCEPT ![m.node] = firstMoveID + n]
      /\ localMoves' = [localMoves EXCEPT ![t] = Tail(l)]
      /\ pc'[t] # "apply"
  BY DEF Flush, trackerVars, At, Goto, RunningMoveID, Searching, FMTypeOK
<1>4. l \in Seq(LocalMoveType) /\ l # <<>> /\ localMoves'[t] = Tail(l)
  BY <1>3 DEF Searching, FMTypeOK, PlacesOK
<1>5. /\ 1 \in DOMAIN l /\ m = l[1] /\ m \in LocalMoveType
      /\ \A i \in DOMAIN Tail(l) : i + 1 \in DOMAIN l /\ Tail(l)[i] = l[i + 1] /\ i + 1 # 1
  <2> HIDE DEF LocalMoveType
  <2> QED BY <1>4
<1>6. MovesTypeOK /\ SequenceOK /\ ApplyMoves(start, moveOrder) = part /\ AppliedOK
  BY <1>1 DEF MovesInv
<1>7. /\ searchOfNode[m.node] = deactivated /\ part[m.node] = m.from /\ m.node \in LocalNodes(t)
      /\ \A i \in DOMAIN Tail(l) : Tail(l)[i].node # m.node /\ Tail(l)[i].node \in LocalNodes(t)
  <2> USE DEF Searching, HeldOK, LocalOK, LocalNodes
  <2>1. LocalOK(t)
    OBVIOUS
  <2>2. searchOfNode[l[1].node] = deactivated /\ part[l[1].node] = l[1].from
    BY <1>5, <2>1
  <2>3. \A i \in DOMAIN l : l[i].node \in LocalNodes(t) /\ (l[i].node = l[1].node => i = 1)
    BY <1>5, <2>1
  <2> HIDE DEF l
  <2> QED BY ONLY <1>5, <2>2, <2>3
<1>8. m.node \in Nodes /\ m.to \in Blocks /\ m.from \in Blocks /\ IsValid(m) /\ m \in Moves
  <2>1. m.node \in Nodes /\ m.to \in Blocks
    BY <1>5, LocalFields
  <2>2. m.from \in Blocks
    BY <1>6, <1>7, <2>1 DEF MovesTypeOK
  <2>3. m.from # NoBlock
    BY <2>2, BlocksAreNumbers
  <2>4. m \in Moves
    BY <1>5, <2>2, LocalFields
  <2> QED BY <2>1, <2>2, <2>3, <2>4 DEF IsValid
<1> HIDE DEF l, m
<1>9. \A i \in DOMAIN moveOrder : moveOrder[i].node # m.node
  BY <1>6, <1>7 DEF AppliedOK
<1>10. ~MovedIn(moveOrder, m.node)
  BY <1>9 DEF MovedIn
<1>11. start[m.node] = m.from
  BY <1>6, <1>7, <1>8, <1>10, ApplyClosed DEF MovesTypeOK, SequenceOK
<1>12. /\ moveOrder' \in Seq(Moves) /\ OncePerNode(moveOrder') /\ DOMAIN moveOrder' = 1..(n + 1)
       /\ n \in Nat /\ DOMAIN moveOrder = 1..n
       /\ \A i \in 1..n : moveOrder'[i] = moveOrder[i]
       /\ moveOrder'[n + 1] = m
  BY <1>3, <1>6, <1>8, <1>9, AppendMove DEF MovesTypeOK, SequenceOK
<1> HIDE DEF n
<1>13. MovesTypeOK'
  <2>1. firstMoveID \in Nat \ {0} /\ moveOfNode \in [Nodes -> Nat] /\ part \in [Nodes -> Blocks]
        /\ start \in [Nodes -> Blocks]
    BY <1>6 DEF MovesTypeOK
  <2>2. firstMoveID + n \in Nat
    BY <1>12, <2>1
  <2>3. moveOfNode' \in [Nodes -> Nat] /\ part' \in [Nodes -> Blocks]
    BY <1>3, <1>8, <2>1, <2>2
  <2> QED BY <1>1, <1>3, <1>12, <2>1, <2>3 DEF MovesTypeOK
<1>14. SequenceOK'
  <2>0. /\ firstMoveID \in Nat /\ moveOfNode'[m.node] = firstMoveID + n
        /\ \A u \in Nodes : u # m.node => moveOfNode'[u] = moveOfNode[u]
    BY <1>3, <1>6, <1>8 DEF MovesTypeOK
  <2>1. ASSUME NEW i \in 1..(n + 1), IsValid(moveOrder'[i])
        PROVE  /\ start[moveOrder'[i].node] = moveOrder'[i].from
               /\ moveOfNode'[moveOrder'[i].node] = firstMoveID - 1 + i
    <3>1. CASE i = n + 1
      BY <1>11, <1>12, <2>0, <3>1
    <3>2. CASE i # n + 1
      <4>1. i \in 1..n /\ moveOrder'[i] = moveOrder[i] /\ moveOrder[i] \in Moves
        BY <1>6, <1>12, <3>2 DEF MovesTypeOK
      <4>2. moveOrder[i].node \in Nodes /\ moveOrder[i].node # m.node
        BY <1>9, <1>12, <4>1 DEF Moves
      <4>3. /\ start[moveOrder[i].node] = moveOrder[i].from
            /\ moveOfNode[moveOrder[i].node] = firstMoveID - 1 + i
        BY <1>6, <1>12, <2>1, <4>1 DEF SequenceOK
      <4> QED BY <2>0, <4>1, <4>2, <4>3
    <3> QED BY <3>1, <3>2
  <2>2. ASSUME NEW u \in Nodes, moveOfNode'[u] >= firstMoveID
        PROVE  \E i \in 1..(n + 1) : IsValid(moveOrder'[i]) /\ moveOrder'[i].node = u
    <3>1. CASE u = m.node
      BY <1>8, <1>12, <3>1
    <3>2. CASE u # m.node
      <4>1. MovedIn(moveOrder, u)
        BY <1>6, <2>0, <2>2, <3>2 DEF SequenceOK
      <4>2. PICK i \in 1..n : IsValid(moveOrder[i]) /\ moveOrder[i].node = u
        BY <1>12, <4>1 DEF MovedIn
      <4>3. i \in 1..(n + 1)
        BY <1>12
      <4> QED BY <1>12, <4>2, <4>3
    <3> QED BY <3>1, <3>2
  <2> QED BY <1>1, <1>3, <1>12, <2>1, <2>2 DEF SequenceOK, MovedIn
<1>15. ApplyMoves(start', moveOrder') = part'
  <2>1. ApplyMoves(start, Append(moveOrder, m)) = ApplyMove(part, m)
    BY <1>6, <1>8, ApplyAppend DEF MovesTypeOK
  <2> QED BY <1>1, <1>3, <1>8, <2>1 DEF ApplyMove
<1>16. AppliedOK'
  <2>0. OthersStay(t) /\ MoveNodes(t)' = {}
    BY <1>2, <1>3 DEF StepOK, MoveNodes
  <2>1. LocalNodes(t)' \subseteq LocalNodes(t) /\ m.node \notin LocalNodes(t)'
    <3>1. LocalNodes(t)' = {Tail(l)[i].node : i \in DOMAIN Tail(l)}
      BY <1>4 DEF LocalNodes
    <3> QED BY <1>7, <3>1
  <2>2. \A s \in Tasks : s # t => LocalNodes(s)' = LocalNodes(s) /\ MoveNodes(s)' = MoveNodes(s)
    BY <2>0, SMTT(40) DEF OthersStay, LocalNodes, MoveNodes
  <2>3. \A s \in Tasks : s # t => m.node \notin LocalNodes(s) \union MoveNodes(s)
    BY <1>7 DEF Searching, HeldOK, Held
  <2>4. \A s \in Tasks : m.node \notin LocalNodes(s)' \union MoveNodes(s)'
    BY <2>0, <2>1, <2>2, <2>3
  <2>5. ASSUME NEW i \in 1..n
        PROVE  /\ IsValid(moveOrder[i]) /\ searchOfNode[moveOrder[i].node] = deactivated
               /\ \A s \in Tasks : moveOrder[i].node \notin LocalNodes(s)' \union MoveNodes(s)'
    <3>1. /\ IsValid(moveOrder[i]) /\ searchOfNode[moveOrder[i].node] = deactivated
          /\ \A s \in Tasks : moveOrder[i].node \notin LocalNodes(s) \union MoveNodes(s)
      BY <1>6, <1>12 DEF AppliedOK
    <3> QED BY <2>0, <2>1, <2>2, <3>1
  <2>6. \A i \in 1..(n + 1) : i \in 1..n \/ i = n + 1
    BY <1>12
  <2> QED BY <1>3, <1>7, <1>8, <1>12, <2>4, <2>5, <2>6 DEF AppliedOK
<1> QED BY <1>1, <1>13, <1>14, <1>15, <1>16 DEF MovesInv

-----------------------------------------------------------------------------
(* The sequence of moves before and after the searches *)

\* Initially there are no moves.
LEMMA InitMoves == ASSUME Init PROVE MovesInv
<1>1. /\ part \in [Nodes -> Blocks] /\ start = part /\ phase = "init" /\ moveOrder = <<>>
      /\ moveOfNode = [u \in Nodes |-> 0] /\ firstMoveID = 1
  BY RoundsAssumption DEF Init
<1>2. <<>> \in Seq(Moves) /\ DOMAIN moveOrder = {}
  BY <1>1
<1>3. MovesTypeOK
  BY <1>1, <1>2 DEF MovesTypeOK
<1>4. SequenceOK
  <2>1. \A u \in Nodes : ~(moveOfNode[u] >= firstMoveID)
    BY <1>1
  <2> QED BY <1>2, <2>1 DEF SequenceOK, OncePerNode
<1> QED BY <1>1, <1>3, <1>4 DEF MovesInv

\* A round begins without moves.
LEMMA BeginRoundMoves == ASSUME MovesInv, BeginRound PROVE MovesInv'
<1>1. /\ phase = "init" /\ start' = part /\ phase' \in {"done", "search"}
      /\ UNCHANGED <<part, moveOrder, moveOfNode, firstMoveID>>
  BY DEF BeginRound, moveVars
<1>2. MovesTypeOK /\ moveOrder = <<>> /\ SequenceOK
  BY <1>1 DEF MovesInv
<1>3. MovesTypeOK'
  BY <1>1, <1>2 DEF MovesTypeOK
<1>4. DOMAIN moveOrder = {} /\ DOMAIN moveOrder' = {}
  BY <1>1, <1>2
<1>5. SequenceOK'
  <2>1. \A u \in Nodes : ~(moveOfNode[u] >= firstMoveID)
    BY <1>2, <1>4 DEF SequenceOK, MovedIn
  <2> QED BY <1>1, <1>4, <2>1 DEF SequenceOK, OncePerNode
<1>6. ApplyMoves(start', moveOrder') = part'
  BY <1>1, <1>2, ApplyEmpty DEF MovesTypeOK
<1>7. AppliedOK'
  BY <1>4 DEF AppliedOK
<1> QED BY <1>1, <1>2, <1>3, <1>5, <1>6, <1>7 DEF MovesInv

\* The searches are over: their moves are valid.
LEMMA FinishSearchMoves == ASSUME MovesInv, FinishSearch PROVE MovesInv'
<1>1. /\ phase = "search" /\ phase' \in {"rebalance", "rollback"}
      /\ UNCHANGED <<part, start, moveOrder, moveOfNode, firstMoveID>>
  BY DEF FinishSearch, moveVars
<1>2. MovesTypeOK /\ SequenceOK /\ ApplyMoves(start, moveOrder) = part /\ AppliedOK
  BY <1>1 DEF MovesInv
<1>3. MovesTypeOK' /\ SequenceOK'
  BY <1>1, <1>2 DEF MovesTypeOK, SequenceOK, OncePerNode, MovedIn
<1>4. ApplyMoves(start', moveOrder') = part'
  BY <1>1, <1>2
<1>5. \A i \in DOMAIN moveOrder' : IsValid(moveOrder'[i])
  BY <1>1, <1>2 DEF AppliedOK
<1> QED BY <1>1, <1>3, <1>4, <1>5 DEF MovesInv

\* The sequences without repetitions over a set.
LEMMA KPermutation ==
  ASSUME NEW S, NEW f \in SetToAllKPermutations(S), IsFiniteSet(S)
  PROVE  f \in Seq(S) /\ \A i, j \in DOMAIN f : f[i] = f[j] => i = j
<1>1. PICK T \in SUBSET S : f \in SetToSeqs(T)
  BY DEF SetToAllKPermutations
<1>2. Cardinality(T) \in Nat
  BY FS_Subset, FS_CardinalityType
<1>3. /\ f \in [1..Cardinality(T) -> T]
      /\ \A i, j \in 1..Cardinality(T) : i # j => f[i] # f[j]
  BY <1>1 DEF SetToSeqs
<1>4. f \in Seq(T) /\ DOMAIN f = 1..Cardinality(T)
  BY <1>2, <1>3
<1>5. f \in Seq(S)
  BY <1>4
<1> QED BY <1>3, <1>4, <1>5

\* The rebalancer reports the nodes that it has moved.
LEMMA RebalanceMoves == ASSUME MovesInv, Rebalance PROVE MovesInv'
<1>1. /\ phase = "rebalance" /\ phase' = "interleave"
      /\ UNCHANGED <<start, moveOrder, moveOfNode, firstMoveID>>
  BY DEF Rebalance, moveVars
<1>2. /\ MovesTypeOK /\ SequenceOK /\ ApplyMoves(start, moveOrder) = part
      /\ \A i \in DOMAIN moveOrder : IsValid(moveOrder[i])
  BY <1>1 DEF MovesInv
<1>3. part' \in [Nodes -> Blocks]
  BY DEF Rebalance, UnloadedParts
<1>4. MovesTypeOK' /\ SequenceOK'
  BY <1>1, <1>2, <1>3 DEF MovesTypeOK, SequenceOK, OncePerNode, MovedIn
<1> DEFINE changed == {u \in Nodes : part'[u] # part[u]}
<1>5. PICK ids \in [Blocks -> SetToAllKPermutations(changed)] :
        /\ \A b \in Blocks : Range(ids[b]) = {u \in Nodes : part[u] = b /\ part'[u] # b}
        /\ rebalanced' = [b \in Blocks |->
             [i \in DOMAIN ids[b] |-> [node |-> ids[b][i], from |-> b, to |-> part'[ids[b][i]]]]]
  BY DEF Rebalance
<1>6. Unbalanced' = part
  BY <1>1, <1>2 DEF Unbalanced
<1>7. ASSUME NEW b \in Blocks
      PROVE  /\ ids[b] \in Seq(changed)
             /\ \A i, j \in DOMAIN ids[b] : ids[b][i] = ids[b][j] => i = j
             /\ \A i \in DOMAIN ids[b] : /\ ids[b][i] \in Nodes /\ part[ids[b][i]] = b
                                         /\ part'[ids[b][i]] # b
             /\ \A u \in Nodes : part[u] = b /\ part'[u] # b =>
                  \E i \in DOMAIN ids[b] : ids[b][i] = u
  <2>1. IsFiniteSet(changed)
    BY FMAssumption, FS_Subset
  <2>2. ids[b] \in SetToAllKPermutations(changed)
    BY <1>5
  <2>3. Range(ids[b]) = {u \in Nodes : part[u] = b /\ part'[u] # b}
    BY <1>5
  <2> HIDE DEF changed
  <2>4. ids[b] \in Seq(changed) /\ \A i, j \in DOMAIN ids[b] : ids[b][i] = ids[b][j] => i = j
    BY <2>1, <2>2, KPermutation
  <2> QED BY <2>3, <2>4 DEF Range
<1> HIDE DEF changed
<1>8. ASSUME NEW b \in Blocks
      PROVE  /\ rebalanced'[b] \in Seq(Moves)
             /\ DOMAIN rebalanced'[b] = DOMAIN ids[b]
             /\ \A i \in DOMAIN ids[b] : LET m == rebalanced'[b][i] IN
                  m.node = ids[b][i] /\ m.from = b /\ m.to = part'[ids[b][i]]
  <2> DEFINE r == [i \in DOMAIN ids[b] |-> [node |-> ids[b][i], from |-> b, to |-> part'[ids[b][i]]]]
             n == Len(ids[b])
  <2>1. rebalanced'[b] = r
    BY <1>5
  <2>2. n \in Nat /\ DOMAIN ids[b] = 1..n
    BY <1>7
  <2>3. \A i \in 1..n : r[i] \in Moves
    BY <1>3, <1>7, <2>2 DEF Moves
  <2>4. DOMAIN r = 1..n
    BY <2>2
  <2>5. r \in [1..n -> Moves]
    BY <2>2, <2>3
  <2>6. r \in Seq(Moves)
    <3> HIDE DEF r, n
    <3> QED BY <2>2, <2>5
  <2> QED BY <2>1, <2>2, <2>6
<1>9. RebalancedOK'
  <2>1. rebalanced' \in [Blocks -> Seq(Moves)]
    <3>1. DOMAIN rebalanced' = Blocks /\ rebalanced' = [b \in Blocks |-> rebalanced'[b]]
      BY <1>5
    <3> QED BY <1>8, <3>1
  <2>2. ASSUME NEW b \in Blocks
        PROVE  /\ OncePerNode(rebalanced'[b])
               /\ \A i \in DOMAIN rebalanced'[b] : LET m == rebalanced'[b][i] IN
                    m.from = b /\ part[m.node] = b /\ m.to = part'[m.node] /\ m.to # b
    BY <1>7, <1>8 DEF OncePerNode
  <2>3. ASSUME NEW u \in Nodes, part[u] # part'[u]
        PROVE  \E i \in DOMAIN rebalanced'[part[u]] : rebalanced'[part[u]][i].node = u
    <3>1. part[u] \in Blocks
      BY <1>2 DEF MovesTypeOK
    <3>2. PICK i \in DOMAIN ids[part[u]] : ids[part[u]][i] = u
      BY <1>7, <2>3, <3>1
    <3>3. DOMAIN rebalanced'[part[u]] = DOMAIN ids[part[u]] /\ rebalanced'[part[u]][i].node = ids[part[u]][i]
      BY <1>8, <3>1
    <3> QED BY <3>2, <3>3
  <2> QED BY <1>6, <2>1, <2>2, <2>3 DEF RebalancedOK
<1> QED BY <1>1, <1>2, <1>4, <1>9 DEF MovesInv

-----------------------------------------------------------------------------
(* The folds that work rebalancing moves into the sequence *)

\* One sequence after another.
Joined(s, t) == s \o t

\* The recursive function of insertMovesToBalanceBlock.
BalanceSteps(base, s) == FoldLeft(LAMBDA acc, i : BalanceStep(acc), base, s)
BalanceFun(base, s) ==
  CHOOSE g : g = [T \in SUBSET (DOMAIN s) |-> IF T = {} THEN base ELSE BalanceStep(g[T \ {Max(T)}])]
\* The fold is that function.
LEMMA BalanceIsLoop ==
  ASSUME NEW base, NEW s
  PROVE  BalanceSteps(base, s) = BalanceFun(base, s)[DOMAIN s]
BY DEF BalanceSteps, FoldLeft, MapThenFoldSet, BalanceFun

\* Its steps stay within X.
BalanceStays(X, s) == \A k \in DOMAIN s, x \in X : BalanceStep(x) \in X

\* The values of insertMovesToBalanceBlock, one after another.
BalanceTrace(g, n, X, base, s) ==
  /\ g \in [0..n -> X] /\ g[0] = base
  /\ \A k \in 1..n : g[k] = BalanceStep(g[k - 1])

\* What insertMovesToBalanceBlock computes, is the last of them.
LEMMA BalanceLoop ==
  ASSUME NEW n \in Nat, NEW s, DOMAIN s = 1..n, NEW X, NEW base \in X,
         BalanceStays(X, s)
  PROVE  \E g : BalanceTrace(g, n, X, base, s) /\ BalanceSteps(base, s) = g[n]
<1> DEFINE H == [k \in 1..n |-> [x \in X |-> BalanceStep(x)]]
           a == BalanceFun(base, s)
<1>0. \A k \in 1..n, x \in X : BalanceStep(x) \in X
  BY DEF BalanceStays
<1>1. H \in [1..n -> [X -> X]]
  BY <1>0
<1>2. PICK f \in [SUBSET (1..n) -> X] : IsLoop(f, H, base, 1..n)
  <2> HIDE DEF H
  <2> QED BY <1>1, LoopType
<1>3. f = [T \in SUBSET (1..n) |-> IF T = {} THEN base ELSE BalanceStep(f[T \ {Max(T)}])]
  <2>1. ASSUME NEW T \in SUBSET (1..n), T # {}
        PROVE  H[Max(T)][f[T \ {Max(T)}]] = BalanceStep(f[T \ {Max(T)}])
    <3>1. Max(T) \in 1..n /\ f[T \ {Max(T)}] \in X
      BY <2>1, MaxUpTo
    <3> QED BY <3>1
  <2> HIDE DEF H
  <2>2. f = [T \in SUBSET (1..n) |-> IF T = {} THEN base ELSE H[Max(T)][f[T \ {Max(T)}]]]
    BY <1>2 DEF IsLoop
  <2> QED BY <2>1, <2>2
<1>4. a = [T \in SUBSET (1..n) |-> IF T = {} THEN base ELSE BalanceStep(a[T \ {Max(T)}])]
  <2> HIDE DEF H
  <2> QED BY <1>3 DEF BalanceFun
<1>5. BalanceSteps(base, s) = a[1..n]
  BY BalanceIsLoop
<1> HIDE DEF a, H
<1>6. a[1..0] = base
  BY <1>4, 1..0 = {}
<1>7. ASSUME NEW k \in 1..n PROVE a[1..k] = BalanceStep(a[1..(k - 1)])
  <2>1. Max(1..k) = k /\ (1..k) \ {k} = 1..(k - 1) /\ 1..k # {} /\ 1..k \in SUBSET (1..n)
    BY MaxOfSegment
  <2> QED BY <1>4, <2>1
<1>8. \A k \in 0..n : a[1..k] \in X
  <2> DEFINE Q == {k \in 0..n : a[1..k] \in X}
  <2>1. 0 \in Q
    BY <1>6
  <2>2. \A k \in 1..n : k - 1 \in Q => k \in Q
    BY <1>0, <1>7
  <2>3. \A k \in 0..n : k \in Q
    <3> HIDE DEF Q
    <3> QED BY <2>1, <2>2, RangeInduction
  <2> QED BY <2>3
<1> DEFINE g == [k \in 0..n |-> a[1..k]]
<1>9. g \in [0..n -> X] /\ g[0] = base /\ g[n] = a[1..n]
  BY <1>6, <1>8
<1>10. ASSUME NEW k \in 1..n PROVE g[k] = BalanceStep(g[k - 1])
  <2>1. g[k] = a[1..k] /\ g[k - 1] = a[1..(k - 1)]
    OBVIOUS
  <2> QED BY <1>7, <2>1
<1> HIDE DEF g
<1>11. BalanceTrace(g, n, X, base, s)
  BY <1>9, <1>10 DEF BalanceTrace
<1> QED BY <1>5, <1>9, <1>11

\* The recursive function of the loop over the blocks.
BalanceBlocks(base, s) == FoldLeft(InsertMovesToBalanceBlock, base, s)
BlocksFun(base, s) ==
  CHOOSE g : g = [T \in SUBSET (DOMAIN s) |-> IF T = {} THEN base ELSE InsertMovesToBalanceBlock(g[T \ {Max(T)}], s[Max(T)])]
\* The fold is that function.
LEMMA BlocksIsLoop ==
  ASSUME NEW base, NEW s
  PROVE  BalanceBlocks(base, s) = BlocksFun(base, s)[DOMAIN s]
BY DEF BalanceBlocks, FoldLeft, MapThenFoldSet, BlocksFun

\* Its steps stay within X.
BlocksStays(X, s) == \A k \in DOMAIN s, x \in X : InsertMovesToBalanceBlock(x, s[k]) \in X

\* The values of the loop over the blocks, one after another.
BlocksTrace(g, n, X, base, s) ==
  /\ g \in [0..n -> X] /\ g[0] = base
  /\ \A k \in 1..n : g[k] = InsertMovesToBalanceBlock(g[k - 1], s[k])

\* What the loop over the blocks computes, is the last of them.
LEMMA BlocksLoop ==
  ASSUME NEW n \in Nat, NEW s, DOMAIN s = 1..n, NEW X, NEW base \in X,
         BlocksStays(X, s)
  PROVE  \E g : BlocksTrace(g, n, X, base, s) /\ BalanceBlocks(base, s) = g[n]
<1> DEFINE H == [k \in 1..n |-> [x \in X |-> InsertMovesToBalanceBlock(x, s[k])]]
           a == BlocksFun(base, s)
<1>0. \A k \in 1..n, x \in X : InsertMovesToBalanceBlock(x, s[k]) \in X
  BY DEF BlocksStays
<1>1. H \in [1..n -> [X -> X]]
  BY <1>0
<1>2. PICK f \in [SUBSET (1..n) -> X] : IsLoop(f, H, base, 1..n)
  <2> HIDE DEF H
  <2> QED BY <1>1, LoopType
<1>3. f = [T \in SUBSET (1..n) |-> IF T = {} THEN base ELSE InsertMovesToBalanceBlock(f[T \ {Max(T)}], s[Max(T)])]
  <2>1. ASSUME NEW T \in SUBSET (1..n), T # {}
        PROVE  H[Max(T)][f[T \ {Max(T)}]] = InsertMovesToBalanceBlock(f[T \ {Max(T)}], s[Max(T)])
    <3>1. Max(T) \in 1..n /\ f[T \ {Max(T)}] \in X
      BY <2>1, MaxUpTo
    <3> QED BY <3>1
  <2> HIDE DEF H
  <2>2. f = [T \in SUBSET (1..n) |-> IF T = {} THEN base ELSE H[Max(T)][f[T \ {Max(T)}]]]
    BY <1>2 DEF IsLoop
  <2> QED BY <2>1, <2>2
<1>4. a = [T \in SUBSET (1..n) |-> IF T = {} THEN base ELSE InsertMovesToBalanceBlock(a[T \ {Max(T)}], s[Max(T)])]
  <2> HIDE DEF H
  <2> QED BY <1>3 DEF BlocksFun
<1>5. BalanceBlocks(base, s) = a[1..n]
  BY BlocksIsLoop
<1> HIDE DEF a, H
<1>6. a[1..0] = base
  BY <1>4, 1..0 = {}
<1>7. ASSUME NEW k \in 1..n PROVE a[1..k] = InsertMovesToBalanceBlock(a[1..(k - 1)], s[k])
  <2>1. Max(1..k) = k /\ (1..k) \ {k} = 1..(k - 1) /\ 1..k # {} /\ 1..k \in SUBSET (1..n)
    BY MaxOfSegment
  <2> QED BY <1>4, <2>1
<1>8. \A k \in 0..n : a[1..k] \in X
  <2> DEFINE Q == {k \in 0..n : a[1..k] \in X}
  <2>1. 0 \in Q
    BY <1>6
  <2>2. \A k \in 1..n : k - 1 \in Q => k \in Q
    BY <1>0, <1>7
  <2>3. \A k \in 0..n : k \in Q
    <3> HIDE DEF Q
    <3> QED BY <2>1, <2>2, RangeInduction
  <2> QED BY <2>3
<1> DEFINE g == [k \in 0..n |-> a[1..k]]
<1>9. g \in [0..n -> X] /\ g[0] = base /\ g[n] = a[1..n]
  BY <1>6, <1>8
<1>10. ASSUME NEW k \in 1..n PROVE g[k] = InsertMovesToBalanceBlock(g[k - 1], s[k])
  <2>1. g[k] = a[1..k] /\ g[k - 1] = a[1..(k - 1)]
    OBVIOUS
  <2> QED BY <1>7, <2>1
<1> HIDE DEF g
<1>11. BlocksTrace(g, n, X, base, s)
  BY <1>9, <1>10 DEF BlocksTrace
<1> QED BY <1>5, <1>9, <1>11

\* The recursive function of the loop over the moves of the searches.
InsertMoves(base, s) == FoldLeft(InsertMove, base, s)
InsertFun(base, s) ==
  CHOOSE g : g = [T \in SUBSET (DOMAIN s) |-> IF T = {} THEN base ELSE InsertMove(g[T \ {Max(T)}], s[Max(T)])]
\* The fold is that function.
LEMMA InsertIsLoop ==
  ASSUME NEW base, NEW s
  PROVE  InsertMoves(base, s) = InsertFun(base, s)[DOMAIN s]
BY DEF InsertMoves, FoldLeft, MapThenFoldSet, InsertFun

\* Its steps stay within X.
InsertStays(X, s) == \A k \in DOMAIN s, x \in X : InsertMove(x, s[k]) \in X

\* The values of the loop over the moves of the searches, one after another.
InsertTrace(g, n, X, base, s) ==
  /\ g \in [0..n -> X] /\ g[0] = base
  /\ \A k \in 1..n : g[k] = InsertMove(g[k - 1], s[k])

\* What the loop over the moves of the searches computes, is the last of them.
LEMMA InsertLoop ==
  ASSUME NEW n \in Nat, NEW s, DOMAIN s = 1..n, NEW X, NEW base \in X,
         InsertStays(X, s)
  PROVE  \E g : InsertTrace(g, n, X, base, s) /\ InsertMoves(base, s) = g[n]
<1> DEFINE H == [k \in 1..n |-> [x \in X |-> InsertMove(x, s[k])]]
           a == InsertFun(base, s)
<1>0. \A k \in 1..n, x \in X : InsertMove(x, s[k]) \in X
  BY DEF InsertStays
<1>1. H \in [1..n -> [X -> X]]
  BY <1>0
<1>2. PICK f \in [SUBSET (1..n) -> X] : IsLoop(f, H, base, 1..n)
  <2> HIDE DEF H
  <2> QED BY <1>1, LoopType
<1>3. f = [T \in SUBSET (1..n) |-> IF T = {} THEN base ELSE InsertMove(f[T \ {Max(T)}], s[Max(T)])]
  <2>1. ASSUME NEW T \in SUBSET (1..n), T # {}
        PROVE  H[Max(T)][f[T \ {Max(T)}]] = InsertMove(f[T \ {Max(T)}], s[Max(T)])
    <3>1. Max(T) \in 1..n /\ f[T \ {Max(T)}] \in X
      BY <2>1, MaxUpTo
    <3> QED BY <3>1
  <2> HIDE DEF H
  <2>2. f = [T \in SUBSET (1..n) |-> IF T = {} THEN base ELSE H[Max(T)][f[T \ {Max(T)}]]]
    BY <1>2 DEF IsLoop
  <2> QED BY <2>1, <2>2
<1>4. a = [T \in SUBSET (1..n) |-> IF T = {} THEN base ELSE InsertMove(a[T \ {Max(T)}], s[Max(T)])]
  <2> HIDE DEF H
  <2> QED BY <1>3 DEF InsertFun
<1>5. InsertMoves(base, s) = a[1..n]
  BY InsertIsLoop
<1> HIDE DEF a, H
<1>6. a[1..0] = base
  BY <1>4, 1..0 = {}
<1>7. ASSUME NEW k \in 1..n PROVE a[1..k] = InsertMove(a[1..(k - 1)], s[k])
  <2>1. Max(1..k) = k /\ (1..k) \ {k} = 1..(k - 1) /\ 1..k # {} /\ 1..k \in SUBSET (1..n)
    BY MaxOfSegment
  <2> QED BY <1>4, <2>1
<1>8. \A k \in 0..n : a[1..k] \in X
  <2> DEFINE Q == {k \in 0..n : a[1..k] \in X}
  <2>1. 0 \in Q
    BY <1>6
  <2>2. \A k \in 1..n : k - 1 \in Q => k \in Q
    BY <1>0, <1>7
  <2>3. \A k \in 0..n : k \in Q
    <3> HIDE DEF Q
    <3> QED BY <2>1, <2>2, RangeInduction
  <2> QED BY <2>3
<1> DEFINE g == [k \in 0..n |-> a[1..k]]
<1>9. g \in [0..n -> X] /\ g[0] = base /\ g[n] = a[1..n]
  BY <1>6, <1>8
<1>10. ASSUME NEW k \in 1..n PROVE g[k] = InsertMove(g[k - 1], s[k])
  <2>1. g[k] = a[1..k] /\ g[k - 1] = a[1..(k - 1)]
    OBVIOUS
  <2> QED BY <1>7, <2>1
<1> HIDE DEF g
<1>11. InsertTrace(g, n, X, base, s)
  BY <1>9, <1>10 DEF InsertTrace
<1> QED BY <1>5, <1>9, <1>11

\* The recursive function of the loop that appends the moves that are left.
AppendLeft(base, s, left) == FoldLeft(LAMBDA order, b : order \o left[b], base, s)
ConcatFun(base, s, left) ==
  CHOOSE g : g = [T \in SUBSET (DOMAIN s) |-> IF T = {} THEN base ELSE Joined(g[T \ {Max(T)}], left[s[Max(T)]])]
\* The fold is that function.
LEMMA ConcatIsLoop ==
  ASSUME NEW base, NEW s, NEW left
  PROVE  AppendLeft(base, s, left) = ConcatFun(base, s, left)[DOMAIN s]
BY DEF AppendLeft, Joined, FoldLeft, MapThenFoldSet, ConcatFun

\* Its steps stay within X.
ConcatStays(X, s, left) == \A k \in DOMAIN s, x \in X : Joined(x, left[s[k]]) \in X

\* The values of the loop that appends the moves that are left, one after another.
ConcatTrace(g, n, X, base, s, left) ==
  /\ g \in [0..n -> X] /\ g[0] = base
  /\ \A k \in 1..n : g[k] = Joined(g[k - 1], left[s[k]])

\* What the loop that appends the moves that are left computes, is the last of them.
LEMMA ConcatLoop ==
  ASSUME NEW n \in Nat, NEW s, DOMAIN s = 1..n, NEW X, NEW base \in X,
         NEW left,
         ConcatStays(X, s, left)
  PROVE  \E g : ConcatTrace(g, n, X, base, s, left) /\ AppendLeft(base, s, left) = g[n]
<1> DEFINE H == [k \in 1..n |-> [x \in X |-> Joined(x, left[s[k]])]]
           a == ConcatFun(base, s, left)
<1>0. \A k \in 1..n, x \in X : Joined(x, left[s[k]]) \in X
  BY DEF ConcatStays
<1>1. H \in [1..n -> [X -> X]]
  BY <1>0
<1>2. PICK f \in [SUBSET (1..n) -> X] : IsLoop(f, H, base, 1..n)
  <2> HIDE DEF H
  <2> QED BY <1>1, LoopType
<1>3. f = [T \in SUBSET (1..n) |-> IF T = {} THEN base ELSE Joined(f[T \ {Max(T)}], left[s[Max(T)]])]
  <2>1. ASSUME NEW T \in SUBSET (1..n), T # {}
        PROVE  H[Max(T)][f[T \ {Max(T)}]] = Joined(f[T \ {Max(T)}], left[s[Max(T)]])
    <3>1. Max(T) \in 1..n /\ f[T \ {Max(T)}] \in X
      BY <2>1, MaxUpTo
    <3> QED BY <3>1
  <2> HIDE DEF H
  <2>2. f = [T \in SUBSET (1..n) |-> IF T = {} THEN base ELSE H[Max(T)][f[T \ {Max(T)}]]]
    BY <1>2 DEF IsLoop
  <2> QED BY <2>1, <2>2
<1>4. a = [T \in SUBSET (1..n) |-> IF T = {} THEN base ELSE Joined(a[T \ {Max(T)}], left[s[Max(T)]])]
  <2> HIDE DEF H
  <2> QED BY <1>3 DEF ConcatFun
<1>5. AppendLeft(base, s, left) = a[1..n]
  BY ConcatIsLoop
<1> HIDE DEF a, H
<1>6. a[1..0] = base
  BY <1>4, 1..0 = {}
<1>7. ASSUME NEW k \in 1..n PROVE a[1..k] = Joined(a[1..(k - 1)], left[s[k]])
  <2>1. Max(1..k) = k /\ (1..k) \ {k} = 1..(k - 1) /\ 1..k # {} /\ 1..k \in SUBSET (1..n)
    BY MaxOfSegment
  <2> QED BY <1>4, <2>1
<1>8. \A k \in 0..n : a[1..k] \in X
  <2> DEFINE Q == {k \in 0..n : a[1..k] \in X}
  <2>1. 0 \in Q
    BY <1>6
  <2>2. \A k \in 1..n : k - 1 \in Q => k \in Q
    BY <1>0, <1>7
  <2>3. \A k \in 0..n : k \in Q
    <3> HIDE DEF Q
    <3> QED BY <2>1, <2>2, RangeInduction
  <2> QED BY <2>3
<1> DEFINE g == [k \in 0..n |-> a[1..k]]
<1>9. g \in [0..n -> X] /\ g[0] = base /\ g[n] = a[1..n]
  BY <1>6, <1>8
<1>10. ASSUME NEW k \in 1..n PROVE g[k] = Joined(g[k - 1], left[s[k]])
  <2>1. g[k] = a[1..k] /\ g[k - 1] = a[1..(k - 1)]
    OBVIOUS
  <2> QED BY <1>7, <2>1
<1> HIDE DEF g
<1>11. ConcatTrace(g, n, X, base, s, left)
  BY <1>9, <1>10 DEF ConcatTrace
<1> QED BY <1>5, <1>9, <1>11

-----------------------------------------------------------------------------
(* No move is lost or doubled when the sequence is put together *)

\* Sequences under construction.
Constructions == [order : Seq(Moves), weights : [Blocks -> Int], left : [Blocks -> Seq(Moves)],
                  stack : Seq(Blocks)]

\* An entry more, and nothing else that matters.
LEMMA InsertType ==
  ASSUME NEW s \in Constructions, NEW m \in Moves
  PROVE  /\ Insert(s, m) \in Constructions
         /\ Insert(s, m).order = Append(s.order, m) /\ Insert(s, m).left = s.left
         /\ Insert(s, m).stack = s.stack
<1> DEFINE w == IF IsValid(m) THEN [b \in Blocks |->
                    s.weights[b] + (IF b = m.to THEN NodeWeight[m.node] ELSE 0)
                                 - (IF b = m.from THEN NodeWeight[m.node] ELSE 0)]
                ELSE s.weights
<1>1. s.weights \in [Blocks -> Int] /\ s.order \in Seq(Moves) /\ s.left \in [Blocks -> Seq(Moves)]
      /\ s.stack \in Seq(Blocks)
  BY DEF Constructions
<1>2. NodeWeight[m.node] \in Int
  BY FMAssumption DEF Moves
<1>3. w \in [Blocks -> Int]
  BY <1>1, <1>2
<1>4. Append(s.order, m) \in Seq(Moves)
  BY <1>1
<1>5. Insert(s, m) = [s EXCEPT !.order = Append(s.order, m), !.weights = w]
  BY DEF Insert, Constructions
<1> HIDE DEF w
<1> QED BY <1>1, <1>3, <1>4, <1>5 DEF Constructions

\* One iteration of insertMovesToBalanceBlock takes the next move of a block, or none.
LEMMA BalanceStepCases ==
  ASSUME NEW s \in Constructions
  PROVE  LET r == BalanceStep(s) IN
         /\ r \in Constructions
         /\ \/ r.order = s.order /\ r.left = s.left
            \/ \E b \in Blocks : /\ s.left[b] # <<>> /\ r.order = Append(s.order, Head(s.left[b]))
                                 /\ r.left = [s.left EXCEPT ![b] = Tail(@)]
<1>0. s.weights \in [Blocks -> Int] /\ s.order \in Seq(Moves) /\ s.left \in [Blocks -> Seq(Moves)]
      /\ s.stack \in Seq(Blocks)
  BY DEF Constructions
<1>1. CASE s.stack = <<>>
  BY <1>1 DEF BalanceStep
<1>2. CASE s.stack # <<>>
  <2> DEFINE b == Last(s.stack)
             m == Head(s.left[b])
             taken == [s EXCEPT !.left[b] = Tail(@)]
             next == Insert(taken, m)
  <2>1. b \in Blocks
    BY <1>0, <1>2 DEF Last
  <2> HIDE DEF b
  <2>2. CASE s.weights[b] > MaxPartWeight[b] /\ s.left[b] # <<>>
    <3>1. m \in Moves /\ Tail(s.left[b]) \in Seq(Moves)
      BY <1>0, <2>1, <2>2
    <3>2. taken.left = [s.left EXCEPT ![b] = Tail(s.left[b])] /\ taken.order = s.order /\ taken.stack = s.stack
      BY DEF Constructions
    <3>3. taken \in Constructions
      BY <1>0, <2>1, <3>1 DEF Constructions
    <3> HIDE DEF taken, m
    <3>4. /\ next \in Constructions /\ next.order = Append(s.order, m)
          /\ next.left = [s.left EXCEPT ![b] = Tail(s.left[b])]
      BY <3>1, <3>2, <3>3, InsertType
    <3>5. BalanceStep(s) = IF IsValid(m) /\ next.weights[m.to] > MaxPartWeight[m.to]
                           THEN [next EXCEPT !.stack = Append(@, m.to)] ELSE next
      BY <1>2, <2>2 DEF BalanceStep, b, m, taken
    <3> HIDE DEF next
    <3>6. m.to \in Blocks
      BY <3>1 DEF Moves
    <3>7. Append(next.stack, m.to) \in Seq(Blocks)
      BY <3>4, <3>6 DEF Constructions
    <3>8. /\ BalanceStep(s) \in Constructions /\ BalanceStep(s).order = next.order
          /\ BalanceStep(s).left = next.left
      BY <3>4, <3>5, <3>7 DEF Constructions
    <3>9. /\ s.left[b] # <<>> /\ BalanceStep(s).order = Append(s.order, Head(s.left[b]))
          /\ BalanceStep(s).left = [s.left EXCEPT ![b] = Tail(s.left[b])]
      BY <2>2, <3>4, <3>8 DEF m
    <3> QED BY <2>1, <3>8, <3>9
  <2>3. CASE ~(s.weights[b] > MaxPartWeight[b] /\ s.left[b] # <<>>)
    <3>1. BalanceStep(s) = [s EXCEPT !.stack = Front(s.stack)]
      BY <1>2, <2>3 DEF BalanceStep, b, Constructions
    <3>2. Front(s.stack) \in Seq(Blocks)
      BY <1>0, <1>2 DEF Front
    <3> QED BY <3>1, <3>2 DEF Constructions
  <2> QED BY <2>2, <2>3
<1> QED BY <1>1, <1>2

\* The moves of K are in the order or left, each once and in one place, one per node.
Conserves(order, left, K) ==
  /\ order \in Seq(K) /\ left \in [Blocks -> Seq(K)]
  /\ OncePerNode(order) /\ \A b \in Blocks : OncePerNode(left[b])
  /\ \A b \in Blocks : \A i \in DOMAIN order, j \in DOMAIN left[b] : order[i].node # left[b][j].node
  /\ \A b, c \in Blocks : b # c =>
       \A i \in DOMAIN left[b], j \in DOMAIN left[c] : left[b][i].node # left[c][j].node
  /\ \A m \in K : (\E i \in DOMAIN order : order[i] = m)
                  \/ \E b \in Blocks : \E i \in DOMAIN left[b] : left[b][i] = m

\* The first move that is left for a block becomes the last one of the order.
LEMMA TakeConserves ==
  ASSUME NEW K, NEW order, NEW left, Conserves(order, left, K), NEW b \in Blocks, left[b] # <<>>
  PROVE  Conserves(Append(order, Head(left[b])), [left EXCEPT ![b] = Tail(@)], K)
<1> DEFINE m == Head(left[b])
           l == [left EXCEPT ![b] = Tail(@)]
           o == Append(order, m)
           n == Len(order)
<1>1. /\ order \in Seq(K) /\ left \in [Blocks -> Seq(K)] /\ left[b] \in Seq(K)
      /\ OncePerNode(order) /\ OncePerNode(left[b])
  BY DEF Conserves
<1>2. /\ m = left[b][1] /\ 1 \in DOMAIN left[b] /\ m \in K /\ Tail(left[b]) \in Seq(K)
      /\ \A i \in DOMAIN Tail(left[b]) : i + 1 \in DOMAIN left[b] /\ Tail(left[b])[i] = left[b][i + 1] /\ i + 1 # 1
      /\ DOMAIN Tail(left[b]) \subseteq Nat
      /\ \A i \in DOMAIN left[b] : i # 1 => i - 1 \in DOMAIN Tail(left[b]) /\ Tail(left[b])[i - 1] = left[b][i]
  <2> QED BY <1>1
<1>3. l \in [Blocks -> Seq(K)] /\ l[b] = Tail(left[b]) /\ \A c \in Blocks : c # b => l[c] = left[c]
  BY <1>1, <1>2
<1>4. \A i \in DOMAIN order : order[i].node # m.node
  BY <1>2 DEF Conserves
<1> HIDE DEF m, l
<1>5. /\ o \in Seq(K) /\ OncePerNode(o) /\ DOMAIN o = 1..(n + 1)
      /\ n \in Nat /\ DOMAIN order = 1..n
      /\ \A i \in 1..n : o[i] = order[i]
      /\ o[n + 1] = m
  BY <1>1, <1>2, <1>4, AppendMove
<1>6. \A i \in DOMAIN o : (i \in DOMAIN order /\ o[i] = order[i]) \/ o[i] = m
  BY <1>5
<1>7. \A i \in DOMAIN order : i \in DOMAIN o /\ o[i] = order[i]
  BY <1>5
<1>8. n + 1 \in DOMAIN o /\ o[n + 1] = m
  BY <1>5
<1> HIDE DEF o, n
<1>9. OncePerNode(l[b]) /\ \A j \in DOMAIN l[b] : l[b][j].node # m.node
  <2>1. ASSUME NEW i \in DOMAIN l[b], NEW j \in DOMAIN l[b], l[b][i].node = l[b][j].node
        PROVE  i = j
    <3>1. i + 1 = j + 1
      BY <1>1, <1>2, <1>3, <2>1 DEF OncePerNode
    <3>2. i \in Nat /\ j \in Nat
      BY <1>2, <1>3
    <3> QED BY <3>1, <3>2
  <2>2. ASSUME NEW j \in DOMAIN l[b] PROVE l[b][j].node # m.node
    BY <1>1, <1>2, <1>3 DEF OncePerNode
  <2> QED BY <2>1, <2>2 DEF OncePerNode
<1>10. ASSUME NEW c \in Blocks, NEW j \in DOMAIN l[c]
       PROVE  \E i \in DOMAIN left[c] : left[c][i] = l[c][j]
  <2>1. CASE c = b
    BY <1>2, <1>3, <2>1
  <2>2. CASE c # b
    BY <1>3, <2>2
  <2> QED BY <2>1, <2>2
<1>11. ASSUME NEW c \in Blocks PROVE OncePerNode(l[c])
  BY <1>3, <1>9 DEF Conserves
<1>12. ASSUME NEW c \in Blocks, NEW i \in DOMAIN o, NEW j \in DOMAIN l[c]
       PROVE  o[i].node # l[c][j].node
  <2>1. CASE i \in DOMAIN order /\ o[i] = order[i]
    BY <1>10, <2>1 DEF Conserves
  <2>2. CASE o[i] = m
    <3>1. CASE c = b
      BY <1>9, <2>2, <3>1
    <3>2. CASE c # b
      BY <1>2, <1>3, <2>2, <3>2 DEF Conserves
    <3> QED BY <3>1, <3>2
  <2> QED BY <1>6, <2>1, <2>2
<1>13. ASSUME NEW c \in Blocks, NEW d \in Blocks, c # d, NEW i \in DOMAIN l[c], NEW j \in DOMAIN l[d]
       PROVE  l[c][i].node # l[d][j].node
  BY <1>10, <1>13 DEF Conserves
<1>14. ASSUME NEW x \in K
       PROVE  (\E i \in DOMAIN o : o[i] = x) \/ \E c \in Blocks : \E i \in DOMAIN l[c] : l[c][i] = x
  <2>1. CASE \E i \in DOMAIN order : order[i] = x
    BY <1>7, <2>1
  <2>2. CASE \E c \in Blocks : \E i \in DOMAIN left[c] : left[c][i] = x
    <3>0. PICK c \in Blocks : \E i \in DOMAIN left[c] : left[c][i] = x
      BY <2>2
    <3>1. PICK i \in DOMAIN left[c] : left[c][i] = x
      BY <3>0
    <3>2. CASE c # b
      BY <1>3, <3>1, <3>2
    <3>3. CASE c = b /\ i = 1
      BY <1>2, <1>8, <3>1, <3>3
    <3>4. CASE c = b /\ i # 1
      <4>1. i - 1 \in DOMAIN l[b] /\ l[b][i - 1] = left[b][i]
        BY <1>2, <1>3, <3>4
      <4> QED BY <3>1, <3>4, <4>1
    <3> QED BY <3>2, <3>3, <3>4
  <2> QED BY <2>1, <2>2 DEF Conserves
<1>15. Conserves(o, l, K)
  BY <1>3, <1>5, <1>11, <1>12, <1>13, <1>14 DEF Conserves
<1> QED BY <1>15 DEF o, l, m

\* A move of a node that has none becomes the last one of the order.
LEMMA InsertConserves ==
  ASSUME NEW K, NEW order, NEW left, Conserves(order, left, K), NEW m, \A x \in K : x.node # m.node
  PROVE  Conserves(Append(order, m), left, K \union {m})
<1> DEFINE o == Append(order, m)
           n == Len(order)
           J == K \union {m}
<1>1. order \in Seq(K) /\ left \in [Blocks -> Seq(K)] /\ OncePerNode(order)
  BY DEF Conserves
<1>2. /\ order \in Seq(J) /\ left \in [Blocks -> Seq(J)] /\ m \in J
      /\ \A i \in DOMAIN order : order[i].node # m.node
  <2>1. order \in Seq(J) /\ m \in J
    BY <1>1
  <2>2. left \in [Blocks -> Seq(J)]
    <3>1. \A b \in Blocks : left[b] \in Seq(J)
      BY <1>1
    <3> QED BY <1>1, <3>1
  <2>3. \A i \in DOMAIN order : order[i] \in K
    BY <1>1
  <2> QED BY <2>1, <2>2, <2>3
<1> HIDE DEF J
<1>3. /\ o \in Seq(J) /\ OncePerNode(o) /\ DOMAIN o = 1..(n + 1)
      /\ n \in Nat /\ DOMAIN order = 1..n
      /\ \A i \in 1..n : o[i] = order[i]
      /\ o[n + 1] = m
  BY <1>1, <1>2, AppendMove
<1>4. \A i \in DOMAIN o : (i \in DOMAIN order /\ o[i] = order[i]) \/ o[i] = m
  BY <1>3
<1>5. \A i \in DOMAIN order : i \in DOMAIN o /\ o[i] = order[i]
  BY <1>3
<1>6. n + 1 \in DOMAIN o /\ o[n + 1] = m
  BY <1>3
<1> HIDE DEF o, n
<1>7. ASSUME NEW b \in Blocks, NEW i \in DOMAIN o, NEW j \in DOMAIN left[b]
      PROVE  o[i].node # left[b][j].node
  <2>1. left[b][j] \in K
    BY <1>1
  <2> QED BY <1>4, <2>1 DEF Conserves
<1>8. ASSUME NEW x \in J
      PROVE  (\E i \in DOMAIN o : o[i] = x) \/ \E b \in Blocks : \E i \in DOMAIN left[b] : left[b][i] = x
  BY <1>5, <1>6 DEF Conserves, J
<1>9. Conserves(o, left, J)
  <2>1. /\ \A b \in Blocks : OncePerNode(left[b])
        /\ \A b, c \in Blocks : b # c =>
             \A i \in DOMAIN left[b], j \in DOMAIN left[c] : left[b][i].node # left[c][j].node
    BY DEF Conserves
  <2> QED BY <1>2, <1>3, <1>7, <1>8, <2>1 DEF Conserves
<1> QED BY <1>9 DEF o, J

\* insertMovesToBalanceBlock keeps sequences under construction, and their moves.
LEMMA BalanceConserves ==
  ASSUME NEW s \in Constructions, NEW b \in Blocks
  PROVE  /\ InsertMovesToBalanceBlock(s, b) \in Constructions
         /\ \A K : Conserves(s.order, s.left, K) =>
              Conserves(InsertMovesToBalanceBlock(s, b).order, InsertMovesToBalanceBlock(s, b).left, K)
<1> DEFINE n == 2 * Cardinality(Nodes) + 1
           q == [i \in 1..n |-> i]
           base == [s EXCEPT !.stack = <<b>>]
<1>1. InsertMovesToBalanceBlock(s, b) = BalanceSteps(base, q)
  BY DEF InsertMovesToBalanceBlock, BalanceSteps
<1>2. n \in Nat
  BY FMAssumption, FS_CardinalityType
<1>3. <<b>> \in Seq(Blocks)
  OBVIOUS
<1>4. base \in Constructions /\ base.order = s.order /\ base.left = s.left
  BY <1>3 DEF Constructions
<1>5. DOMAIN q = 1..n
  OBVIOUS
<1> HIDE DEF n, q, base
<1>6. BalanceSteps(base, q) \in Constructions
  <2>1. BalanceStays(Constructions, q)
    BY BalanceStepCases DEF BalanceStays
  <2>2. PICK g : BalanceTrace(g, n, Constructions, base, q) /\ BalanceSteps(base, q) = g[n]
    BY <1>2, <1>4, <1>5, <2>1, BalanceLoop
  <2> QED BY <1>2, <2>2 DEF BalanceTrace
<1>7. ASSUME NEW K, Conserves(s.order, s.left, K)
      PROVE  Conserves(BalanceSteps(base, q).order, BalanceSteps(base, q).left, K)
  <2> DEFINE X == {x \in Constructions : Conserves(x.order, x.left, K)}
  <2>1. ASSUME NEW x \in X PROVE BalanceStep(x) \in X
    <3> DEFINE r == BalanceStep(x)
    <3>1. x \in Constructions /\ Conserves(x.order, x.left, K)
      OBVIOUS
    <3>2. /\ r \in Constructions
          /\ \/ r.order = x.order /\ r.left = x.left
             \/ \E c \in Blocks : /\ x.left[c] # <<>> /\ r.order = Append(x.order, Head(x.left[c]))
                                  /\ r.left = [x.left EXCEPT ![c] = Tail(@)]
      BY <3>1, BalanceStepCases
    <3> HIDE DEF r
    <3>3. Conserves(r.order, r.left, K)
      <4>1. CASE r.order = x.order /\ r.left = x.left
        BY <3>1, <4>1
      <4>2. ASSUME NEW c \in Blocks, x.left[c] # <<>>, r.order = Append(x.order, Head(x.left[c])),
                   r.left = [x.left EXCEPT ![c] = Tail(@)]
            PROVE  Conserves(r.order, r.left, K)
        <5>1. Conserves(Append(x.order, Head(x.left[c])), [x.left EXCEPT ![c] = Tail(@)], K)
          BY <3>1, <4>2, TakeConserves
        <5> QED BY <4>2, <5>1
      <4> QED BY <3>2, <4>1, <4>2
    <3>4. r \in X
      BY <3>2, <3>3
    <3> QED BY <3>4 DEF r
  <2>2. base \in X
    BY <1>4, <1>7
  <2> HIDE DEF X
  <2>3. BalanceStays(X, q)
    BY <2>1 DEF BalanceStays
  <2>4. PICK g : BalanceTrace(g, n, X, base, q) /\ BalanceSteps(base, q) = g[n]
    BY <1>2, <1>5, <2>2, <2>3, BalanceLoop
  <2>5. BalanceSteps(base, q) \in X
    BY <1>2, <2>4 DEF BalanceTrace
  <2> QED BY <2>5 DEF X
<1> QED BY <1>1, <1>6, <1>7

\* The moves that are left for a block are appended.
LEMMA JoinConserves ==
  ASSUME NEW K, NEW order, NEW left, Conserves(order, left, K), NEW b \in Blocks
  PROVE  Conserves(Joined(order, left[b]), [left EXCEPT ![b] = <<>>], K)
<1> DEFINE o == order \o left[b]
           l == [left EXCEPT ![b] = <<>>]
           n == Len(order)
<1>1. order \in Seq(K) /\ left \in [Blocks -> Seq(K)] /\ left[b] \in Seq(K)
      /\ OncePerNode(order) /\ OncePerNode(left[b])
  BY DEF Conserves
<1>2. /\ n \in Nat /\ DOMAIN order = 1..n /\ o \in Seq(K) /\ DOMAIN o = 1..(n + Len(left[b]))
      /\ \A i \in 1..n : o[i] = order[i]
      /\ Len(left[b]) \in Nat /\ DOMAIN left[b] = 1..Len(left[b])
      /\ \A i \in 1..Len(left[b]) : o[n + i] = left[b][i]
  BY <1>1
<1>3. <<>> \in Seq(K) /\ DOMAIN <<>> = {}
  OBVIOUS
<1>4. /\ l \in [Blocks -> Seq(K)] /\ DOMAIN l[b] = {}
      /\ \A c \in Blocks : c # b => l[c] = left[c]
  BY <1>1, <1>3
<1>5. ASSUME NEW i \in DOMAIN o
      PROVE  \/ i \in DOMAIN order /\ o[i] = order[i]
             \/ i - n \in DOMAIN left[b] /\ o[i] = left[b][i - n] /\ i > n
  <2>1. CASE i \in 1..n
    BY <1>2, <2>1
  <2>2. CASE i \notin 1..n
    <3>1. i - n \in 1..Len(left[b]) /\ i > n /\ n + (i - n) = i
      BY <1>2, <2>2
    <3> QED BY <1>2, <3>1
  <2> QED BY <2>1, <2>2
<1>6. \A i \in DOMAIN order : i \in DOMAIN o /\ o[i] = order[i]
  BY <1>2
<1>7. \A i \in DOMAIN left[b] : n + i \in DOMAIN o /\ o[n + i] = left[b][i]
  BY <1>2
<1>8. \A i \in DOMAIN order, j \in DOMAIN left[b] : order[i].node # left[b][j].node
  BY DEF Conserves
<1> HIDE DEF o, l
<1>9. OncePerNode(o)
  <2> SUFFICES ASSUME NEW i \in DOMAIN o, NEW j \in DOMAIN o, o[i].node = o[j].node PROVE i = j
    BY DEF OncePerNode
  <2>1. i \in Int /\ j \in Int /\ n \in Int
    BY <1>2
  <2>2. CASE i \in DOMAIN order /\ o[i] = order[i]
    <3>1. j \in DOMAIN order /\ o[j] = order[j]
      BY <1>5, <1>8, <2>2
    <3> QED BY <1>1, <2>2, <3>1 DEF OncePerNode
  <2>3. CASE i - n \in DOMAIN left[b] /\ o[i] = left[b][i - n] /\ i > n
    <3>1. j - n \in DOMAIN left[b] /\ o[j] = left[b][j - n]
      BY <1>5, <1>8, <2>3
    <3>2. i - n = j - n
      BY <1>1, <2>3, <3>1 DEF OncePerNode
    <3> QED BY <2>1, <3>2
  <2> QED BY <1>5, <2>2, <2>3
<1>10. ASSUME NEW c \in Blocks PROVE OncePerNode(l[c])
  BY <1>4 DEF Conserves, OncePerNode
<1>11. ASSUME NEW c \in Blocks, NEW i \in DOMAIN o, NEW j \in DOMAIN l[c]
       PROVE  o[i].node # l[c][j].node
  <2>1. c # b /\ l[c] = left[c]
    BY <1>4, <1>11
  <2>2. CASE i \in DOMAIN order /\ o[i] = order[i]
    BY <2>1, <2>2 DEF Conserves
  <2>3. CASE i - n \in DOMAIN left[b] /\ o[i] = left[b][i - n] /\ i > n
    BY <2>1, <2>3 DEF Conserves
  <2> QED BY <1>5, <2>2, <2>3
<1>12. ASSUME NEW c \in Blocks, NEW d \in Blocks, c # d, NEW i \in DOMAIN l[c], NEW j \in DOMAIN l[d]
       PROVE  l[c][i].node # l[d][j].node
  <2>1. c # b /\ d # b /\ l[c] = left[c] /\ l[d] = left[d]
    BY <1>4, <1>12
  <2> QED BY <1>12, <2>1 DEF Conserves
<1>13. ASSUME NEW x \in K
       PROVE  (\E i \in DOMAIN o : o[i] = x) \/ \E c \in Blocks : \E i \in DOMAIN l[c] : l[c][i] = x
  <2>1. CASE \E i \in DOMAIN order : order[i] = x
    BY <1>6, <2>1
  <2>2. CASE \E i \in DOMAIN left[b] : left[b][i] = x
    BY <1>7, <2>2
  <2>3. CASE \E c \in Blocks \ {b} : \E i \in DOMAIN left[c] : left[c][i] = x
    BY <1>4, <2>3
  <2> QED BY <2>1, <2>2, <2>3 DEF Conserves
<1>14. Conserves(o, l, K)
  BY <1>2, <1>4, <1>9, <1>10, <1>11, <1>12, <1>13 DEF Conserves
<1> QED BY <1>14 DEF o, l, Joined

\* When everything that is left has been appended, the order has all moves.
LEMMA AppendLeftAll ==
  ASSUME NEW K, NEW order, NEW left, Conserves(order, left, K)
  PROVE  LET o == AppendLeft(order, BlockOrder, left) IN
         /\ o \in Seq(K) /\ OncePerNode(o) /\ \A m \in K : \E i \in DOMAIN o : o[i] = m
<1> DEFINE n == Cardinality(Blocks)
           rest(k) == [b \in Blocks |-> IF b < k THEN <<>> ELSE left[b]]
<1>1. n \in Nat /\ Blocks = 0..(n - 1)
  BY BlocksAreNumbers
<1> HIDE DEF n
<1>2. DOMAIN BlockOrder = 1..n /\ \A k \in 1..n : BlockOrder[k] = k - 1 /\ k - 1 \in Blocks
  BY <1>1 DEF BlockOrder, n
<1>3. order \in Seq(K) /\ left \in [Blocks -> Seq(K)]
  BY DEF Conserves
<1>4. \A k \in 1..n, x \in Seq(K) : Joined(x, left[BlockOrder[k]]) \in Seq(K)
  BY <1>2, <1>3 DEF Joined
<1>5. PICK g : ConcatTrace(g, n, Seq(K), order, BlockOrder, left) /\ AppendLeft(order, BlockOrder, left) = g[n]
  <2>1. ConcatStays(Seq(K), BlockOrder, left)
    BY <1>2, <1>4 DEF ConcatStays
  <2> QED BY <1>1, <1>2, <1>3, <2>1, ConcatLoop
<1>50. g[0] = order /\ \A k \in 1..n : g[k] = Joined(g[k - 1], left[BlockOrder[k]])
  BY <1>5 DEF ConcatTrace
<1> DEFINE Q == {k \in 0..n : Conserves(g[k], rest(k), K)}
<1>6. 0 \in Q
  <2>1. rest(0) = left
    <3>1. \A b \in Blocks : ~(b < 0)
      BY <1>1
    <3> QED BY <1>3, <3>1
  <2> HIDE DEF rest
  <2>2. Conserves(g[0], rest(0), K)
    BY <1>50, <2>1
  <2> QED BY <1>1, <2>2
<1>7. ASSUME NEW k \in 1..n, k - 1 \in Q PROVE k \in Q
  <2>1. k - 1 \in Blocks /\ g[k] = Joined(g[k - 1], left[k - 1])
    BY <1>2, <1>50
  <2>2. rest(k - 1)[k - 1] = left[k - 1]
    BY <1>1, <2>1
  <2>3. rest(k) = [rest(k - 1) EXCEPT ![k - 1] = <<>>]
    <3>1. \A b \in Blocks : b \in Int /\ (b < k <=> b < k - 1 \/ b = k - 1)
      BY <1>1
    <3> QED BY <2>1, <3>1
  <2>4. Conserves(g[k - 1], rest(k - 1), K)
    BY <1>7
  <2> DEFINE r == rest(k - 1)
  <2> HIDE DEF r, rest
  <2>5. Conserves(Joined(g[k - 1], r[k - 1]), [r EXCEPT ![k - 1] = <<>>], K)
    BY <2>1, <2>4, JoinConserves DEF r
  <2>6. Conserves(g[k], rest(k), K)
    BY <2>1, <2>2, <2>3, <2>5 DEF r
  <2> QED BY <2>6
<1>8. n \in Q
  <2> HIDE DEF Q
  <2>1. \A k \in 0..n : k \in Q
    BY <1>1, <1>6, <1>7, RangeInduction
  <2> QED BY <1>1, <2>1
<1>9. Conserves(g[n], rest(n), K)
  BY <1>8
<1>10. \A b \in Blocks : DOMAIN rest(n)[b] = {}
  BY <1>1
<1> HIDE DEF rest
<1> QED BY <1>5, <1>9, <1>10, SMTT(40) DEF Conserves

\* The tracker finds the moves of the round, and only them.
LEMMA TrackerFinds ==
  ASSUME MovesTypeOK, SequenceOK
  PROVE  /\ \A u \in Nodes : WasNodeMovedInThisRound(u) <=> MovedIn(moveOrder, u)
         /\ \A u \in Nodes : WasNodeMovedInThisRound(u) =>
              /\ GetMove(u) \in Moves /\ GetMove(u).node = u /\ IsValid(GetMove(u))
              /\ GetMove(u).from = start[u]
              /\ moveOfNode[u] - firstMoveID + 1 \in DOMAIN moveOrder
         /\ \A i \in DOMAIN moveOrder : IsValid(moveOrder[i]) =>
              /\ WasNodeMovedInThisRound(moveOrder[i].node)
              /\ GetMove(moveOrder[i].node) = moveOrder[i]
<1> DEFINE n == Len(moveOrder)
<1>1. /\ n \in Nat /\ DOMAIN moveOrder = 1..n /\ \A i \in 1..n : moveOrder[i] \in Moves
      /\ firstMoveID \in Nat /\ moveOfNode \in [Nodes -> Nat]
  BY DEF MovesTypeOK
<1> HIDE DEF n
<1>2. ASSUME NEW i \in DOMAIN moveOrder, IsValid(moveOrder[i])
      PROVE  /\ moveOrder[i].node \in Nodes /\ moveOrder[i] \in Moves
             /\ moveOfNode[moveOrder[i].node] - firstMoveID + 1 = i
             /\ moveOfNode[moveOrder[i].node] >= firstMoveID
             /\ moveOfNode[moveOrder[i].node] < RunningMoveID
             /\ start[moveOrder[i].node] = moveOrder[i].from
  <2>1. moveOrder[i].node \in Nodes /\ moveOrder[i] \in Moves /\ i \in 1..n
    BY <1>1 DEF Moves
  <2>2. moveOfNode[moveOrder[i].node] = firstMoveID - 1 + i /\ start[moveOrder[i].node] = moveOrder[i].from
    BY <1>2 DEF SequenceOK
  <2>3. RunningMoveID = firstMoveID + n
    BY DEF RunningMoveID, n
  <2> QED BY <1>1, <2>1, <2>2, <2>3
<1>3. ASSUME NEW i \in DOMAIN moveOrder, IsValid(moveOrder[i])
      PROVE  /\ WasNodeMovedInThisRound(moveOrder[i].node)
             /\ GetMove(moveOrder[i].node) = moveOrder[i]
  <2>1. GetMove(moveOrder[i].node) = moveOrder[i]
    BY <1>2, <1>3 DEF GetMove
  <2> QED BY <1>2, <1>3, <2>1 DEF WasNodeMovedInThisRound
<1>4. ASSUME NEW u \in Nodes, WasNodeMovedInThisRound(u)
      PROVE  \E i \in DOMAIN moveOrder : IsValid(moveOrder[i]) /\ moveOrder[i].node = u
  BY <1>4 DEF WasNodeMovedInThisRound, SequenceOK, MovedIn
<1>5. ASSUME NEW u \in Nodes, WasNodeMovedInThisRound(u)
      PROVE  /\ GetMove(u) \in Moves /\ GetMove(u).node = u /\ IsValid(GetMove(u))
             /\ GetMove(u).from = start[u]
             /\ moveOfNode[u] - firstMoveID + 1 \in DOMAIN moveOrder
  <2>1. PICK i \in DOMAIN moveOrder : IsValid(moveOrder[i]) /\ moveOrder[i].node = u
    BY <1>4, <1>5
  <2>2. GetMove(u) = moveOrder[i]
    BY <1>3, <2>1
  <2> QED BY <1>2, <2>1, <2>2
<1>6. ASSUME NEW u \in Nodes, MovedIn(moveOrder, u) PROVE WasNodeMovedInThisRound(u)
  BY <1>3, <1>6 DEF MovedIn
<1>7. ASSUME NEW u \in Nodes, WasNodeMovedInThisRound(u) PROVE MovedIn(moveOrder, u)
  BY <1>4, <1>7 DEF MovedIn
<1> QED BY <1>3, <1>5, <1>6, <1>7

-----------------------------------------------------------------------------
(* The sequence after the moves of the rebalancer were worked in *)

\* The rebalancing moves, after they were merged with earlier moves of their nodes, and the
\* first k moves of the searches that are kept.
MergedMoves == {MergeMove(m) : m \in UNION {Range(rebalanced[b]) : b \in Blocks}}
KeptMoves(k) == {moveOrder[i] : i \in {j \in 1..k : IsValid(moveOrder[j]) /\ moveOrder[j].node \notin MovedAgain}}

\* Every rebalancing move is about a node that the rebalancer has moved.
LEMMA RebalancingMove ==
  ASSUME MovesTypeOK, RebalancedOK, NEW b \in Blocks, NEW i \in DOMAIN rebalanced[b]
  PROVE  LET m == rebalanced[b][i] IN
         /\ m \in Moves /\ m.node \in Nodes /\ IsValid(m)
         /\ m.from = b /\ Unbalanced[m.node] = b /\ m.to = part[m.node]
         /\ m \in UNION {Range(rebalanced[c]) : c \in Blocks}
<1>1. rebalanced[b] \in Seq(Moves)
  BY DEF RebalancedOK
<1>2. rebalanced[b][i] \in Moves
  BY <1>1
<1>3. rebalanced[b][i].from = b /\ Unbalanced[rebalanced[b][i].node] = b
      /\ rebalanced[b][i].to = part[rebalanced[b][i].node]
  BY DEF RebalancedOK
<1>4. b # NoBlock
  BY BlocksAreNumbers
<1>5. rebalanced[b][i] \in Range(rebalanced[b])
  BY DEF Range
<1> QED BY <1>2, <1>3, <1>4, <1>5 DEF Moves, IsValid

\* A merged move is about the same node and leads to the same block.
LEMMA MergeFields ==
  ASSUME MovesTypeOK, SequenceOK, NEW m \in Moves
  PROVE  /\ MergeMove(m) \in Moves /\ MergeMove(m).node = m.node /\ MergeMove(m).to = m.to
         /\ ~WasNodeMovedInThisRound(m.node) => MergeMove(m) = m
         /\ WasNodeMovedInThisRound(m.node) =>
              /\ start[m.node] = m.to => ~IsValid(MergeMove(m))
              /\ start[m.node] # m.to => MergeMove(m).from = start[m.node]
<1>0. m.node \in Nodes
  BY DEF Moves
<1>1. CASE ~WasNodeMovedInThisRound(m.node)
  BY <1>1 DEF MergeMove
<1>2. CASE WasNodeMovedInThisRound(m.node)
  <2>1. GetMove(m.node) \in Moves /\ GetMove(m.node).from = start[m.node]
    BY <1>0, <1>2, TrackerFinds
  <2>2. GetMove(m.node).from \in Blocks \union {NoBlock}
    BY <2>1 DEF Moves
  <2> DEFINE f == GetMove(m.node).from
             r == MergeMove(m)
  <2>3. r = IF f = m.to THEN [m EXCEPT !.from = NoBlock] ELSE [m EXCEPT !.from = f]
    BY <1>2 DEF MergeMove, Invalidated
  <2> HIDE DEF f, r
  <2>4. /\ r \in Moves /\ r.node = m.node /\ r.to = m.to
        /\ (f = m.to => r.from = NoBlock) /\ (f # m.to => r.from = f)
    BY <2>2, <2>3 DEF Moves, f
  <2> QED BY <1>2, <2>1, <2>4 DEF IsValid, f, r
<1> QED BY <1>1, <1>2

\* Before the searches' moves are inserted, the merged moves are left.
LEMMA InitialConstruction ==
  ASSUME MovesTypeOK, SequenceOK, RebalancedOK,
         NEW merged, merged = [b \in Blocks |-> [i \in DOMAIN rebalanced[b] |-> MergeMove(rebalanced[b][i])]]
  PROVE  Conserves(<<>>, merged, MergedMoves) /\ merged \in [Blocks -> Seq(Moves)]
<1>1. ASSUME NEW b \in Blocks
      PROVE  /\ merged[b] \in Seq(MergedMoves) /\ merged[b] \in Seq(Moves)
             /\ DOMAIN merged[b] = DOMAIN rebalanced[b]
             /\ \A i \in DOMAIN rebalanced[b] :
                  /\ merged[b][i] = MergeMove(rebalanced[b][i])
                  /\ merged[b][i].node = rebalanced[b][i].node
  <2> DEFINE r == [i \in DOMAIN rebalanced[b] |-> MergeMove(rebalanced[b][i])]
             n == Len(rebalanced[b])
  <2>1. rebalanced[b] \in Seq(Moves)
    BY DEF RebalancedOK
  <2>2. n \in Nat /\ DOMAIN rebalanced[b] = 1..n
    BY <2>1
  <2>3. \A i \in 1..n : /\ MergeMove(rebalanced[b][i]) \in MergedMoves
                        /\ MergeMove(rebalanced[b][i]) \in Moves
                        /\ MergeMove(rebalanced[b][i]).node = rebalanced[b][i].node
    BY <2>2, RebalancingMove, MergeFields DEF MergedMoves
  <2>4. r \in [1..n -> MergedMoves] /\ r \in [1..n -> Moves]
    BY <2>2, <2>3
  <2>5. r \in Seq(MergedMoves) /\ r \in Seq(Moves)
    <3> HIDE DEF r, n
    <3> QED BY <2>2, <2>4
  <2> QED BY <2>2, <2>3, <2>5
<1>2. merged \in [Blocks -> Seq(MergedMoves)] /\ merged \in [Blocks -> Seq(Moves)]
  BY <1>1
<1>3. <<>> \in Seq(MergedMoves) /\ OncePerNode(<<>>) /\ DOMAIN <<>> = {}
  BY DEF OncePerNode
<1>4. ASSUME NEW b \in Blocks PROVE OncePerNode(merged[b])
  <2>1. OncePerNode(rebalanced[b])
    BY DEF RebalancedOK
  <2>2. ASSUME NEW i \in DOMAIN merged[b], NEW j \in DOMAIN merged[b], merged[b][i].node = merged[b][j].node
        PROVE  i = j
    <3>1. i \in DOMAIN rebalanced[b] /\ j \in DOMAIN rebalanced[b]
      BY <1>1
    <3>2. rebalanced[b][i].node = rebalanced[b][j].node
      BY <1>1, <2>2, <3>1
    <3> QED BY <2>1, <3>1, <3>2 DEF OncePerNode
  <2> QED BY <2>2 DEF OncePerNode
<1>5. ASSUME NEW b \in Blocks, NEW c \in Blocks, b # c, NEW i \in DOMAIN merged[b], NEW j \in DOMAIN merged[c]
      PROVE  merged[b][i].node # merged[c][j].node
  <2>0. ASSUME NEW d \in Blocks, NEW k \in DOMAIN merged[d] PROVE Unbalanced[merged[d][k].node] = d
    <3>1. k \in DOMAIN rebalanced[d] /\ merged[d][k].node = rebalanced[d][k].node
      BY <1>1
    <3>2. Unbalanced[rebalanced[d][k].node] = d
      BY <3>1, RebalancingMove
    <3> QED BY <3>1, <3>2
  <2>1. Unbalanced[merged[b][i].node] = b
    BY <2>0, ZenonT(40)
  <2>2. Unbalanced[merged[c][j].node] = c
    BY <2>0
  <2> QED BY <1>5, <2>1, <2>2
<1>6. ASSUME NEW m \in MergedMoves PROVE \E b \in Blocks : \E i \in DOMAIN merged[b] : merged[b][i] = m
  <2>1. PICK r \in UNION {Range(rebalanced[b]) : b \in Blocks} : m = MergeMove(r)
    BY DEF MergedMoves
  <2>2. PICK b \in Blocks : r \in Range(rebalanced[b])
    OBVIOUS
  <2>3. PICK i \in DOMAIN rebalanced[b] : r = rebalanced[b][i]
    BY <2>2 DEF Range
  <2> QED BY <1>1, <2>1, <2>3
<1> QED BY <1>2, <1>3, <1>4, <1>5, <1>6 DEF Conserves

\* The moves of the searches are inserted unless their nodes were moved again.
LEMMA InsertMoveConserves ==
  ASSUME MovesTypeOK, SequenceOK, RebalancedOK, NEW s \in Constructions, NEW k \in DOMAIN moveOrder,
         Conserves(s.order, s.left, MergedMoves \union KeptMoves(k - 1))
  PROVE  LET r == InsertMove(s, moveOrder[k]) IN
         r \in Constructions /\ Conserves(r.order, r.left, MergedMoves \union KeptMoves(k))
<1> DEFINE m == moveOrder[k]
           K == MergedMoves \union KeptMoves(k - 1)
<1>0. m \in Moves /\ k \in Nat \ {0} /\ m.to \in Blocks /\ m.node \in Nodes /\ \A j \in 1..k : j \in DOMAIN moveOrder
  <2>1. moveOrder \in Seq(Moves)
    BY DEF MovesTypeOK
  <2>2. m \in Moves /\ k \in Nat \ {0} /\ \A j \in 1..k : j \in DOMAIN moveOrder
    BY <2>1
  <2> QED BY <2>2 DEF Moves
<1>1. CASE ~(IsValid(m) /\ m.node \notin MovedAgain)
  <2>1. InsertMove(s, m) = s
    BY <1>1 DEF InsertMove
  <2>2. KeptMoves(k) = KeptMoves(k - 1)
    <3>1. \A j \in 1..k : j \in 1..(k - 1) \/ j = k
      BY <1>0
    <3>2. \A j \in 1..(k - 1) : j \in 1..k
      BY <1>0
    <3> QED BY <1>1, <3>1, <3>2 DEF KeptMoves
  <2> QED BY <2>1, <2>2
<1>2. CASE IsValid(m) /\ m.node \notin MovedAgain
  <2> DEFINE i == Insert(s, m)
  <2>1. InsertMove(s, m) = InsertMovesToBalanceBlock(i, m.to)
    BY <1>2 DEF InsertMove
  <2>2. KeptMoves(k) = KeptMoves(k - 1) \union {m}
    <3>1. \A j \in 1..k : j \in 1..(k - 1) \/ j = k
      BY <1>0
    <3>2. k \in 1..k /\ \A j \in 1..(k - 1) : j \in 1..k
      BY <1>0
    <3> QED BY <1>2, <3>1, <3>2 DEF KeptMoves
  <2>3. ASSUME NEW x \in K PROVE x.node # m.node
    <3>1. CASE x \in MergedMoves
      <4>1. PICK r \in UNION {Range(rebalanced[b]) : b \in Blocks} : x = MergeMove(r)
        BY <3>1 DEF MergedMoves
      <4>2. r \in Moves
        <5>1. PICK b \in Blocks : r \in Range(rebalanced[b])
          OBVIOUS
        <5>2. PICK j \in DOMAIN rebalanced[b] : r = rebalanced[b][j]
          BY <5>1 DEF Range
        <5> QED BY <5>2, RebalancingMove
      <4>3. x.node = r.node
        BY <4>1, <4>2, MergeFields
      <4>4. WasNodeMovedInThisRound(m.node)
        BY <1>2, TrackerFinds
      <4>5. r.node # m.node
        BY <1>0, <1>2, <4>4 DEF MovedAgain
      <4> QED BY <4>3, <4>5
    <3>2. CASE x \in KeptMoves(k - 1)
      <4>1. PICK j \in 1..(k - 1) : x = moveOrder[j]
        BY <3>2 DEF KeptMoves
      <4>2. j \in DOMAIN moveOrder /\ j # k
        BY <1>0
      <4> QED BY <4>1, <4>2 DEF SequenceOK, OncePerNode
    <3> QED BY <3>1, <3>2
  <2>4. i \in Constructions /\ i.order = Append(s.order, m) /\ i.left = s.left
    BY <1>0, InsertType
  <2>5. Conserves(Append(s.order, m), s.left, K \union {m})
    BY <2>3, InsertConserves
  <2>6. K \union {m} = MergedMoves \union KeptMoves(k)
    BY <2>2
  <2> HIDE DEF i, K
  <2>7. Conserves(i.order, i.left, MergedMoves \union KeptMoves(k))
    BY <2>4, <2>5, <2>6
  <2> QED BY <1>0, <2>1, <2>4, <2>7, BalanceConserves
<1> QED BY <1>1, <1>2

\* Every block has a weight.
LEMMA BlockWeightType ==
  ASSUME NEW parts, NEW b
  PROVE  BlockWeight(parts, b) \in Int
<1> DEFINE S == {u \in Nodes : parts[u] = b}
<1>1. IsFiniteSet(S)
  BY FMAssumption, FS_Subset
<1>2. \A u \in S : NodeWeight[u] \in Int
  BY FMAssumption
<1> HIDE DEF S
<1>3. SumFunctionOnSet(NodeWeight, S) \in Int
  BY <1>1, <1>2, SumInt
<1>4. BlockWeight(parts, b) = SumFunctionOnSet(NodeWeight, S)
  BY DEF BlockWeight, S, MapThenSumSet, SumFunctionOnSet, FoldFunctionOnSet
<1> QED BY <1>3, <1>4

\* The sequence that is put together has the merged rebalancing moves and the moves of the
\* searches whose nodes were not moved again, each once, and nothing else.
LEMMA InterleavedMoves ==
  ASSUME MovesTypeOK, SequenceOK, RebalancedOK
  PROVE  LET K == MergedMoves \union KeptMoves(Len(moveOrder))
             o == InterleavedOrder
         IN  /\ o \in Seq(Moves) /\ OncePerNode(o)
             /\ \A i \in DOMAIN o : o[i] \in K
             /\ \A m \in K : \E i \in DOMAIN o : o[i] = m
<1> DEFINE merged == [b \in Blocks |-> [i \in DOMAIN rebalanced[b] |-> MergeMove(rebalanced[b][i])]]
           initial == [order |-> <<>>, weights |-> BlockWeights(start), left |-> merged, stack |-> <<>>]
           balanced == BalanceBlocks(initial, BlockOrder)
           moved == InsertMoves(balanced, moveOrder)
           n == Len(moveOrder)
           K(k) == MergedMoves \union KeptMoves(k)
<1>1. InterleavedOrder = AppendLeft(moved.order, BlockOrder, moved.left)
  BY DEF InterleavedOrder, AppendLeft, InsertMoves, BalanceBlocks
<1>2. Conserves(<<>>, merged, MergedMoves) /\ merged \in [Blocks -> Seq(Moves)]
  BY InitialConstruction
<1> HIDE DEF merged
<1>3. initial \in Constructions /\ initial.order = <<>> /\ initial.left = merged
  <2>1. BlockWeights(start) \in [Blocks -> Int]
    BY BlockWeightType DEF BlockWeights
  <2>2. <<>> \in Seq(Moves) /\ <<>> \in Seq(Blocks)
    OBVIOUS
  <2> HIDE DEF BlockWeights
  <2> QED BY <1>2, <2>1, <2>2 DEF Constructions
<1>4. Conserves(initial.order, initial.left, MergedMoves)
  BY <1>2, <1>3
<1> HIDE DEF initial
<1>5. balanced \in Constructions /\ Conserves(balanced.order, balanced.left, MergedMoves)
  <2> DEFINE X == {x \in Constructions : Conserves(x.order, x.left, MergedMoves)}
             c == Cardinality(Blocks)
  <2>1. c \in Nat /\ Blocks = 0..(c - 1)
    BY BlocksAreNumbers
  <2> HIDE DEF c
  <2>2. DOMAIN BlockOrder = 1..c /\ \A k \in 1..c : BlockOrder[k] = k - 1 /\ k - 1 \in Blocks
    BY <2>1 DEF BlockOrder, c
  <2>3. BlocksStays(X, BlockOrder)
    <3> SUFFICES ASSUME NEW k \in 1..c, NEW x \in X
                 PROVE  InsertMovesToBalanceBlock(x, BlockOrder[k]) \in X
      BY <2>2 DEF BlocksStays
    <3>1. x \in Constructions /\ Conserves(x.order, x.left, MergedMoves) /\ BlockOrder[k] \in Blocks
      BY <2>2
    <3> QED BY <3>1, BalanceConserves
  <2>4. initial \in X
    BY <1>3, <1>4
  <2> HIDE DEF X
  <2>5. PICK g : BlocksTrace(g, c, X, initial, BlockOrder) /\ balanced = g[c]
    BY <2>1, <2>2, <2>3, <2>4, BlocksLoop
  <2>6. balanced \in X
    BY <2>1, <2>5 DEF BlocksTrace
  <2> QED BY <2>6 DEF X
<1> HIDE DEF balanced
<1>6. n \in Nat /\ DOMAIN moveOrder = 1..n /\ \A i \in 1..n : moveOrder[i] \in Moves
  BY DEF MovesTypeOK
<1> HIDE DEF n
<1>7. moved \in Constructions /\ Conserves(moved.order, moved.left, K(n))
  <2>1. InsertStays(Constructions, moveOrder)
    <3> SUFFICES ASSUME NEW k \in 1..n, NEW x \in Constructions
                 PROVE  InsertMove(x, moveOrder[k]) \in Constructions
      BY <1>6 DEF InsertStays
    <3> DEFINE m == moveOrder[k]
    <3>1. m \in Moves /\ m.to \in Blocks
      BY <1>6 DEF Moves
    <3>2. Insert(x, m) \in Constructions
      BY <3>1, InsertType
    <3>3. InsertMovesToBalanceBlock(Insert(x, m), m.to) \in Constructions
      BY <3>1, <3>2, BalanceConserves
    <3> QED BY <3>3 DEF InsertMove
  <2>2. PICK g : InsertTrace(g, n, Constructions, balanced, moveOrder) /\ moved = g[n]
    BY <1>5, <1>6, <2>1, InsertLoop
  <2>3. /\ g[0] = balanced /\ \A k \in 0..n : g[k] \in Constructions
        /\ \A k \in 1..n : g[k] = InsertMove(g[k - 1], moveOrder[k])
    BY <2>2 DEF InsertTrace
  <2> DEFINE Q == {k \in 0..n : Conserves(g[k].order, g[k].left, K(k))}
  <2>4. 0 \in Q
    <3>1. KeptMoves(0) = {}
      BY DEF KeptMoves
    <3>2. K(0) = MergedMoves
      BY <3>1
    <3> HIDE DEF K
    <3>3. Conserves(g[0].order, g[0].left, K(0))
      BY <1>5, <2>3, <3>2
    <3> QED BY <1>6, <3>3
  <2>5. ASSUME NEW k \in 1..n, k - 1 \in Q PROVE k \in Q
    <3>1. /\ g[k - 1] \in Constructions
          /\ Conserves(g[k - 1].order, g[k - 1].left, MergedMoves \union KeptMoves(k - 1))
      BY <1>6, <2>3, <2>5
    <3>2. k \in DOMAIN moveOrder
      BY <1>6
    <3>3. Conserves(g[k].order, g[k].left, MergedMoves \union KeptMoves(k))
      BY <2>3, <3>1, <3>2, InsertMoveConserves
    <3> QED BY <3>3
  <2>6. n \in Q
    <3> HIDE DEF Q
    <3>1. \A k \in 0..n : k \in Q
      BY <1>6, <2>4, <2>5, RangeInduction
    <3> QED BY <1>6, <3>1
  <2> QED BY <1>6, <2>2, <2>3, <2>6
<1> HIDE DEF moved, K
<1> DEFINE o == InterleavedOrder
<1>8. o \in Seq(K(n)) /\ OncePerNode(o) /\ \A m \in K(n) : \E i \in DOMAIN o : o[i] = m
  BY <1>1, <1>7, AppendLeftAll
<1>9. \A i \in DOMAIN o : o[i] \in K(n)
  BY <1>8
<1>10. \A m \in K(n) : m \in Moves
  <2>1. moved.order \in Seq(K(n)) /\ moved.order \in Seq(Moves)
    BY <1>7 DEF Conserves, Constructions
  <2>2. moved.left \in [Blocks -> Seq(Moves)]
    BY <1>7 DEF Constructions
  <2> QED BY <1>7, <2>1, <2>2 DEF Conserves
<1>11. o \in Seq(Moves)
  <2> HIDE DEF o
  <2> QED BY <1>8, <1>10
<1> QED BY <1>8, <1>9, <1>11 DEF K, n

\* Where the moves of the new sequence start and lead to.
LEMMA InterleavedEnds ==
  ASSUME MovesTypeOK, SequenceOK, RebalancedOK, NEW i \in DOMAIN InterleavedOrder,
         IsValid(InterleavedOrder[i])
  PROVE  LET m == InterleavedOrder[i] IN
         m.node \in Nodes /\ m.from = start[m.node] /\ m.to = part[m.node]
<1> DEFINE m == InterleavedOrder[i]
           n == Len(moveOrder)
<1>1. m \in MergedMoves \union KeptMoves(n) /\ m \in Moves
  BY InterleavedMoves
<1>2. n \in Nat /\ DOMAIN moveOrder = 1..n
  BY DEF MovesTypeOK
<1> HIDE DEF m, n
<1>3. IsValid(m) /\ m.node \in Nodes
  BY <1>1 DEF m, Moves
<1>4. CASE m \in MergedMoves
  <2>1. PICK r \in UNION {Range(rebalanced[b]) : b \in Blocks} : m = MergeMove(r)
    BY <1>4 DEF MergedMoves
  <2>2. PICK b \in Blocks : r \in Range(rebalanced[b])
    OBVIOUS
  <2>3. PICK j \in DOMAIN rebalanced[b] : r = rebalanced[b][j]
    BY <2>2 DEF Range
  <2>4. r \in Moves /\ r.from = b /\ Unbalanced[r.node] = b /\ r.to = part[r.node] /\ r.node \in Nodes
    BY <2>3, RebalancingMove
  <2>5. m.node = r.node /\ m.to = r.to
    BY <2>1, <2>4, MergeFields
  <2>6. CASE WasNodeMovedInThisRound(r.node)
    <3>1. m.from = start[m.node]
      BY <1>3, <2>1, <2>4, <2>5, <2>6, MergeFields
    <3> QED BY <1>3, <2>4, <2>5, <3>1 DEF m
  <2>7. CASE ~WasNodeMovedInThisRound(r.node)
    <3>1. m = r
      BY <2>1, <2>4, <2>7, MergeFields
    <3>2. ~MovedIn(moveOrder, r.node)
      BY <2>4, <2>7, TrackerFinds
    <3>3. Unbalanced[r.node] = start[r.node]
      BY <2>4, <3>2, ApplyClosed DEF Unbalanced, MovesTypeOK, SequenceOK
    <3> QED BY <2>4, <2>5, <3>1, <3>3 DEF m
  <2> QED BY <1>3, <2>4, <2>5, <2>6, <2>7 DEF m
<1>5. CASE m \in KeptMoves(n)
  <2>1. PICK j \in 1..n : m = moveOrder[j] /\ m.node \notin MovedAgain
    BY <1>5 DEF KeptMoves
  <2>2. j \in DOMAIN moveOrder /\ m.from = start[m.node] /\ WasNodeMovedInThisRound(m.node)
    BY <1>2, <1>3, <2>1, TrackerFinds DEF SequenceOK
  <2>3. Unbalanced[m.node] = m.to
    BY <1>3, <2>1, <2>2, ApplyClosed DEF Unbalanced, MovesTypeOK, SequenceOK
  <2>4. Unbalanced[m.node] = part[m.node]
    <3>1. SUFFICES ASSUME Unbalanced[m.node] # part[m.node] PROVE FALSE
      OBVIOUS
    <3> DEFINE b == Unbalanced[m.node]
    <3>2. b \in Blocks
      BY <1>3, ApplyType DEF Unbalanced, MovesTypeOK
    <3>3. PICK k \in DOMAIN rebalanced[b] : rebalanced[b][k].node = m.node
      BY <1>3, <3>1 DEF RebalancedOK
    <3>4. rebalanced[b][k] \in UNION {Range(rebalanced[c]) : c \in Blocks}
      BY <3>2, RebalancingMove
    <3> QED BY <1>3, <2>1, <2>2, <3>3, <3>4 DEF MovedAgain
  <2> QED BY <1>3, <2>2, <2>3, <2>4 DEF m
<1> QED BY <1>1, <1>4, <1>5 DEF m

\* A node without a move in the new sequence is where it was at the start of the round.
LEMMA InterleavedStays ==
  ASSUME MovesTypeOK, SequenceOK, RebalancedOK, NEW u \in Nodes, ~MovedIn(InterleavedOrder, u)
  PROVE  part[u] = start[u]
<1> DEFINE n == Len(moveOrder)
           K == MergedMoves \union KeptMoves(n)
           b == Unbalanced[u]
<1>0. n \in Nat /\ DOMAIN moveOrder = 1..n
  BY DEF MovesTypeOK
<1>1. ASSUME NEW m \in K, m.node = u PROVE ~IsValid(m)
  <2>1. PICK i \in DOMAIN InterleavedOrder : InterleavedOrder[i] = m
    BY InterleavedMoves
  <2> QED BY <1>1, <2>1 DEF MovedIn
<1> HIDE DEF K, n
<1>2. b \in Blocks
  BY ApplyType DEF Unbalanced, MovesTypeOK
<1>3. CASE b # part[u]
  <2>1. PICK k \in DOMAIN rebalanced[b] : rebalanced[b][k].node = u
    BY <1>3 DEF RebalancedOK
  <2> DEFINE r == rebalanced[b][k]
  <2>2. r \in Moves /\ IsValid(r) /\ r.to = part[u] /\ r \in UNION {Range(rebalanced[c]) : c \in Blocks}
    BY <1>2, <2>1, RebalancingMove
  <2>3. MergeMove(r) \in K
    BY <2>2 DEF K, MergedMoves
  <2> HIDE DEF r
  <2>4. r.node = u
    BY <2>1 DEF r
  <2>5. MergeMove(r).node = u
    BY <2>2, <2>4, MergeFields
  <2>6. ~IsValid(MergeMove(r))
    BY <1>1, <2>3, <2>5
  <2>7. WasNodeMovedInThisRound(u)
    BY <2>2, <2>4, <2>6, MergeFields
  <2>8. start[u] \in Blocks /\ start[u] # NoBlock
    BY BlocksAreNumbers DEF MovesTypeOK
  <2> QED BY <2>2, <2>4, <2>6, <2>7, <2>8, MergeFields DEF IsValid
<1>4. CASE b = part[u]
  <2>1. ~MovedIn(moveOrder, u)
    <3>1. SUFFICES ASSUME MovedIn(moveOrder, u) PROVE FALSE
      OBVIOUS
    <3>2. PICK i \in 1..n : IsValid(moveOrder[i]) /\ moveOrder[i].node = u
      BY <1>0, <3>1 DEF MovedIn
    <3>3. u \notin MovedAgain
      <4>1. SUFFICES ASSUME NEW m \in UNION {Range(rebalanced[c]) : c \in Blocks}, m.node = u PROVE FALSE
        BY DEF MovedAgain
      <4>2. PICK c \in Blocks : m \in Range(rebalanced[c])
        OBVIOUS
      <4>3. PICK k \in DOMAIN rebalanced[c] : m = rebalanced[c][k]
        BY <4>2 DEF Range
      <4>4. b = c /\ m.to # c /\ m.to = part[u]
        BY <4>1, <4>3 DEF RebalancedOK
      <4> QED BY <1>4, <4>4
    <3>4. moveOrder[i] \in K
      BY <3>2, <3>3 DEF K, KeptMoves
    <3> QED BY <1>1, <3>2, <3>4
  <2>2. b = start[u]
    BY <2>1, ApplyClosed DEF Unbalanced, MovesTypeOK, SequenceOK
  <2> QED BY <1>4, <2>2
<1> QED BY <1>3, <1>4

\* After the moves were merged they explain the partition again.
LEMMA InterleaveKeepsMoves == ASSUME MovesInv, InterleaveMoves PROVE MovesInv'
<1> DEFINE o == InterleavedOrder
<1>1. /\ phase = "interleave" /\ phase' = "rollback" /\ UNCHANGED <<part, start, firstMoveID>>
      /\ moveOrder' = o
      /\ moveOfNode' = [u \in Nodes |->
            IF \E i \in DOMAIN o : o[i].node = u /\ IsValid(o[i])
            THEN firstMoveID - 1 + (CHOOSE i \in DOMAIN o : o[i].node = u /\ IsValid(o[i]))
            ELSE IF u \in MovedAgain \/ \E i \in DOMAIN moveOrder : moveOrder[i].node = u
            THEN 0 ELSE moveOfNode[u]]
  BY DEF InterleaveMoves
<1>2. MovesTypeOK /\ SequenceOK /\ RebalancedOK
  BY <1>1 DEF MovesInv
<1>3. o \in Seq(Moves) /\ OncePerNode(o)
  BY <1>2, InterleavedMoves
<1>4. \A i \in DOMAIN o : IsValid(o[i]) =>
        o[i].node \in Nodes /\ o[i].from = start[o[i].node] /\ o[i].to = part[o[i].node]
  BY <1>2, InterleavedEnds
<1>5. \A u \in Nodes : ~MovedIn(o, u) => part[u] = start[u]
  BY <1>2, InterleavedStays
<1> HIDE DEF o
<1>6. /\ part \in [Nodes -> Blocks] /\ start \in [Nodes -> Blocks] /\ firstMoveID \in Nat \ {0}
      /\ moveOfNode \in [Nodes -> Nat]
  BY <1>2 DEF MovesTypeOK
<1>7. DOMAIN o \subseteq Nat \ {0}
  BY <1>3
<1>8. ASSUME NEW i \in DOMAIN o, IsValid(o[i]) PROVE moveOfNode'[o[i].node] = firstMoveID - 1 + i
  <2>1. (CHOOSE j \in DOMAIN o : o[j].node = o[i].node /\ IsValid(o[j])) = i
    BY <1>3, <1>8 DEF OncePerNode
  <2> QED BY <1>1, <1>4, <1>8, <2>1
<1>9. ASSUME NEW u \in Nodes, ~MovedIn(o, u) PROVE moveOfNode'[u] \in Nat /\ moveOfNode'[u] < firstMoveID
  <2>1. moveOfNode'[u] = IF u \in MovedAgain \/ \E i \in DOMAIN moveOrder : moveOrder[i].node = u
                         THEN 0 ELSE moveOfNode[u]
    BY <1>1, <1>9 DEF MovedIn
  <2>2. CASE moveOfNode'[u] = 0
    BY <1>6, <2>2
  <2>3. CASE moveOfNode'[u] # 0
    <3>1. ~MovedIn(moveOrder, u) /\ moveOfNode'[u] = moveOfNode[u]
      BY <2>1, <2>3 DEF MovedIn
    <3>2. ~(moveOfNode[u] >= firstMoveID)
      BY <1>2, <3>1 DEF SequenceOK
    <3> QED BY <1>6, <3>1, <3>2
  <2> QED BY <2>2, <2>3
<1>10. moveOfNode' \in [Nodes -> Nat]
  <2>1. ASSUME NEW u \in Nodes PROVE moveOfNode'[u] \in Nat
    <3>1. CASE MovedIn(o, u)
      <4>1. PICK i \in DOMAIN o : IsValid(o[i]) /\ o[i].node = u
        BY <3>1 DEF MovedIn
      <4>2. moveOfNode'[u] = firstMoveID - 1 + i
        BY <1>8, <4>1
      <4> QED BY <1>6, <1>7, <4>2
    <3> QED BY <1>9, <3>1
  <2>2. moveOfNode' = [u \in Nodes |-> moveOfNode'[u]]
    BY <1>1
  <2> HIDE DEF IsValid
  <2> QED BY <2>1, <2>2
<1>11. MovesTypeOK'
  BY <1>1, <1>3, <1>6, <1>10 DEF MovesTypeOK
<1>12. SequenceOK'
  <2>1. \A u \in Nodes : moveOfNode'[u] >= firstMoveID => MovedIn(o, u)
    BY <1>6, <1>9
  <2> QED BY <1>1, <1>3, <1>4, <1>8, <2>1 DEF SequenceOK
<1>13. ApplyMoves(start, o) = part
  BY <1>3, <1>4, <1>5, <1>6, AppliedIs
<1> QED BY <1>1, <1>11, <1>12, <1>13 DEF MovesInv

\* Reverted moves lead back to blocks.
LEMMA RevertedType ==
  ASSUME MovesTypeOK, NEW index
  PROVE  Reverted(index) \in [Nodes -> Blocks]
<1>1. moveOrder \in Seq(Moves) /\ part \in [Nodes -> Blocks]
  BY DEF MovesTypeOK
<1>2. ASSUME NEW u \in Nodes, \E i \in DOMAIN moveOrder : i > index /\ moveOrder[i].node = u /\ IsValid(moveOrder[i])
      PROVE  (CHOOSE m \in Range(moveOrder) : m.node = u /\ IsValid(m)).from \in Blocks
  <2> DEFINE c == CHOOSE m \in Range(moveOrder) : m.node = u /\ IsValid(m)
  <2>1. PICK i \in DOMAIN moveOrder : moveOrder[i].node = u /\ IsValid(moveOrder[i])
    BY <1>2
  <2>2. moveOrder[i] \in Range(moveOrder)
    BY DEF Range
  <2>3. c \in Range(moveOrder) /\ IsValid(c)
    BY <2>1, <2>2
  <2>4. c \in Moves
    <3>1. \A j \in DOMAIN moveOrder : moveOrder[j] \in Moves
      BY <1>1
    <3> HIDE DEF c
    <3> QED BY <2>3, <3>1 DEF Range
  <2> QED BY <2>3, <2>4 DEF Moves, IsValid
<1> QED BY <1>1, <1>2 DEF Reverted

\* The moves of the round are forgotten after the rollback.
LEMMA RevertKeepsMoves == ASSUME MovesInv, RevertToBestPrefix PROVE MovesInv'
<1> DEFINE n == Len(moveOrder)
<1>1. phase = "rollback" /\ start' = start
  BY DEF RevertToBestPrefix
<1>2. MovesTypeOK /\ SequenceOK
  BY DEF MovesInv
<1>3. PICK prefix : RevertTo(prefix)
  BY DEF RevertToBestPrefix
<1>4. part' \in [Nodes -> Blocks] /\ phase' \in {"init", "done"}
  BY <1>2, <1>3, RevertedType DEF RevertTo, NextRound
<1>5. /\ start \in [Nodes -> Blocks] /\ firstMoveID \in Nat \ {0} /\ moveOfNode \in [Nodes -> Nat]
      /\ n \in Nat /\ DOMAIN moveOrder = 1..n
  BY <1>2 DEF MovesTypeOK
<1>6. /\ moveOrder' = <<>> /\ firstMoveID' \in Nat \ {0} /\ moveOfNode' \in [Nodes -> Nat]
      /\ \A u \in Nodes : moveOfNode'[u] < firstMoveID'
  <2>1. CASE moveOrder = <<>> /\ UNCHANGED moveVars
    <3>1. \A u \in Nodes : ~(moveOfNode[u] >= firstMoveID)
      BY <1>2, <2>1 DEF SequenceOK, MovedIn
    <3> QED BY <1>5, <2>1, <3>1 DEF moveVars
  <2>2. CASE ResetMoves /\ moveOrder' = <<>>
    <3>1. RunningMoveID = firstMoveID + n
      BY DEF RunningMoveID
    <3>2. CASE moveOfNode' = [u \in Nodes |-> 0] /\ firstMoveID' = 1
      BY <2>2, <3>2
    <3>3. CASE firstMoveID' = RunningMoveID + 1 /\ UNCHANGED moveOfNode
      <4>1. ASSUME NEW u \in Nodes PROVE moveOfNode[u] < firstMoveID + n + 1
        <5>1. CASE moveOfNode[u] < firstMoveID
          BY <1>5, <5>1
        <5>2. CASE ~(moveOfNode[u] < firstMoveID)
          <6>1. MovedIn(moveOrder, u)
            BY <1>2, <1>5, <5>2 DEF SequenceOK
          <6>2. PICK i \in 1..n : IsValid(moveOrder[i]) /\ moveOrder[i].node = u
            BY <1>5, <6>1 DEF MovedIn
          <6>3. moveOfNode[u] = firstMoveID - 1 + i
            BY <1>2, <1>5, <6>2 DEF SequenceOK
          <6> QED BY <1>5, <6>3
        <5> QED BY <5>1, <5>2
      <4> HIDE DEF n
      <4> QED BY <1>5, <2>2, <3>1, <3>3, <4>1
    <3> QED BY <2>2, <3>2, <3>3 DEF ResetMoves
  <2> QED BY <2>1, <2>2 DEF RevertToBestPrefix
<1>7. <<>> \in Seq(Moves) /\ DOMAIN moveOrder' = {}
  BY <1>6
<1>8. MovesTypeOK'
  BY <1>1, <1>4, <1>5, <1>6, <1>7 DEF MovesTypeOK
<1>9. SequenceOK'
  <2>1. \A u \in Nodes : ~(moveOfNode'[u] >= firstMoveID')
    BY <1>6
  <2> QED BY <1>7, <2>1 DEF SequenceOK, OncePerNode
<1> QED BY <1>4, <1>6, <1>8, <1>9 DEF MovesInv

\* Every step keeps the invariant.
LEMMA StepMoves == ASSUME SearchInv, MovesInv, [Next]_vars PROVE MovesInv'
<1>1. CASE BeginRound
  BY <1>1, BeginRoundMoves
<1>2. ASSUME NEW t \in Tasks, Search(t) PROVE MovesInv'
  <2>1. Searching
    BY <1>2 DEF Search, SearchInv, Searching
  <2> QED BY <1>2, <2>1, SearchLeavesMoves, FlushKeepsMoves
<1>3. CASE FinishSearch
  BY <1>3, FinishSearchMoves
<1>4. CASE Rebalance
  BY <1>4, RebalanceMoves
<1>5. CASE InterleaveMoves
  BY <1>5, InterleaveKeepsMoves
<1>6. CASE RevertToBestPrefix
  BY <1>6, RevertKeepsMoves
<1>7. CASE UNCHANGED vars
  <2>1. /\ UNCHANGED <<part, searchOfNode, deactivated, moveOrder, moveOfNode, firstMoveID>>
        /\ UNCHANGED <<pc, localMoves, move, phase, start, rebalanced>>
    BY <1>7 DEF vars, searchVars, roundVars, taskVars, trackerVars, moveVars
  <2>2. MovesTypeOK' /\ SequenceOK'
    BY <2>1 DEF MovesInv, MovesTypeOK, SequenceOK, OncePerNode, MovedIn
  <2>3. AppliedOK' <=> AppliedOK
    BY <2>1 DEF AppliedOK, LocalNodes, MoveNodes
  <2>4. RebalancedOK' <=> RebalancedOK
    BY <2>1 DEF RebalancedOK, OncePerNode, Unbalanced
  <2>5. ApplyMoves(start', moveOrder') = ApplyMoves(start, moveOrder)
    BY <2>1
  <2> QED BY <2>1, <2>2, <2>3, <2>4, <2>5 DEF MovesInv
<1> QED BY <1>1, <1>2, <1>3, <1>4, <1>5, <1>6, <1>7 DEF Next, Refined

\* The invariant says that the moves explain the partition.
LEMMA MovesInvImplies == MovesInv => MovesExplainPartition
<1> SUFFICES ASSUME MovesInv, phase \in {"search", "rebalance", "rollback"}
             PROVE  /\ \A i, j \in DOMAIN moveOrder :
                         IsValid(moveOrder[i]) /\ IsValid(moveOrder[j]) /\ moveOrder[i].node = moveOrder[j].node
                           => i = j
                    /\ \A i \in DOMAIN moveOrder : IsValid(moveOrder[i]) =>
                         /\ start[moveOrder[i].node] = moveOrder[i].from
                         /\ moveOfNode[moveOrder[i].node] = firstMoveID - 1 + i
                    /\ \A u \in Nodes : WasNodeMovedInThisRound(u) => GetMove(u).node = u
                    /\ phase # "rebalance" => ApplyMoves(start, moveOrder) = part
                    /\ Len(moveOrder) <= Cardinality(Nodes)
  BY DEF MovesExplainPartition
<1>1. MovesTypeOK /\ SequenceOK /\ ApplyMoves(start, moveOrder) = part
  BY DEF MovesInv
<1>2. Len(moveOrder) <= Cardinality(Nodes)
  BY <1>1, FewMoves DEF MovesTypeOK, SequenceOK
<1>3. \A u \in Nodes : WasNodeMovedInThisRound(u) => GetMove(u).node = u
  BY <1>1, TrackerFinds
<1> QED BY <1>1, <1>2, <1>3 DEF SequenceOK, OncePerNode

\* All states satisfy both invariants.
LEMMA MovesInvariant == Spec => [](SearchInv /\ MovesInv)
<1>1. Init => SearchInv /\ MovesInv
  BY InitInv, InitMoves
<1>2. SearchInv /\ MovesInv /\ [Next]_vars => SearchInv' /\ MovesInv'
  BY StepInv, StepMoves
<1> QED BY <1>1, <1>2, PTL DEF Spec

\* The precondition of the rollback.  For every hypergraph and number of searches, whatever
\* they acquire, move and apply, and whatever the rebalancer moves afterwards: the sequence of
\* moves leads from the partition at the beginning of the round to the current one, a node is
\* moved at most once and its id in the tracker finds its move.
THEOREM MovesExplainThePartition == Spec => []MovesExplainPartition
BY MovesInvariant, MovesInvImplies, PTL

-----------------------------------------------------------------------------
(* The gains of the sequence of moves *)

\* The partition after the first k moves.
Prefix(k) == ApplyMoves(start, SubSeq(moveOrder, 1, k))

\* The rollback starts from here.
RollbackReady == MovesTypeOK /\ SequenceOK /\ ApplyMoves(start, moveOrder) = part

\* A prefix of a sequence of moves.
LEMMA PrefixSequence ==
  ASSUME MovesTypeOK, SequenceOK, NEW k \in 0..Len(moveOrder)
  PROVE  /\ SubSeq(moveOrder, 1, k) \in Seq(Moves) /\ DOMAIN SubSeq(moveOrder, 1, k) = 1..k
         /\ \A i \in 1..k : SubSeq(moveOrder, 1, k)[i] = moveOrder[i] /\ i \in DOMAIN moveOrder
         /\ OncePerNode(SubSeq(moveOrder, 1, k))
<1>1. moveOrder \in Seq(Moves)
  BY DEF MovesTypeOK
<1>2. /\ SubSeq(moveOrder, 1, k) \in Seq(Moves) /\ DOMAIN SubSeq(moveOrder, 1, k) = 1..k
      /\ \A i \in 1..k : SubSeq(moveOrder, 1, k)[i] = moveOrder[i] /\ i \in DOMAIN moveOrder
  BY <1>1
<1> QED BY <1>2 DEF SequenceOK, OncePerNode

\* Where a node is after the first k moves.
LEMMA PrefixClosed ==
  ASSUME RollbackReady, NEW k \in 0..Len(moveOrder)
  PROVE  /\ Prefix(k) \in [Nodes -> Blocks]
         /\ \A v \in Nodes : ~WasNodeMovedInThisRound(v) => Prefix(k)[v] = part[v]
         /\ \A v \in Nodes : WasNodeMovedInThisRound(v) =>
              /\ moveOfNode[v] \in Int
              /\ moveOfNode[v] <= firstMoveID - 1 + k => Prefix(k)[v] = GetMove(v).to
              /\ moveOfNode[v] > firstMoveID - 1 + k => Prefix(k)[v] = GetMove(v).from
<1> DEFINE s == SubSeq(moveOrder, 1, k)
           n == Len(moveOrder)
<1>1. MovesTypeOK /\ SequenceOK /\ ApplyMoves(start, moveOrder) = part
  BY DEF RollbackReady
<1>2. /\ s \in Seq(Moves) /\ DOMAIN s = 1..k /\ OncePerNode(s)
      /\ \A i \in 1..k : s[i] = moveOrder[i] /\ i \in DOMAIN moveOrder
  BY <1>1, PrefixSequence
<1>3. /\ start \in [Nodes -> Blocks] /\ moveOrder \in Seq(Moves) /\ OncePerNode(moveOrder)
      /\ n \in Nat /\ DOMAIN moveOrder = 1..n /\ firstMoveID \in Nat /\ moveOfNode \in [Nodes -> Nat]
  BY <1>1 DEF MovesTypeOK, SequenceOK
<1> HIDE DEF s, n
<1>4. Prefix(k) = ApplyMoves(start, s)
  BY DEF Prefix, s
<1>5. Prefix(k) \in [Nodes -> Blocks]
  BY <1>2, <1>3, <1>4, ApplyType
<1>6. /\ \A i \in 1..k : IsValid(s[i]) => Prefix(k)[s[i].node] = s[i].to
      /\ \A u \in Nodes : ~MovedIn(s, u) => Prefix(k)[u] = start[u]
  BY <1>2, <1>3, <1>4, ApplyClosed
<1>7. ASSUME NEW v \in Nodes, ~WasNodeMovedInThisRound(v) PROVE Prefix(k)[v] = part[v]
  <2>1. ~MovedIn(moveOrder, v)
    BY <1>1, <1>7, TrackerFinds
  <2>2. part[v] = start[v]
    BY <1>1, <1>3, <2>1, ApplyClosed
  <2>3. ~MovedIn(s, v)
    BY <1>2, <2>1 DEF MovedIn
  <2> QED BY <1>6, <2>2, <2>3
<1>8. ASSUME NEW v \in Nodes, WasNodeMovedInThisRound(v)
      PROVE  /\ moveOfNode[v] \in Int
             /\ moveOfNode[v] <= firstMoveID - 1 + k => Prefix(k)[v] = GetMove(v).to
             /\ moveOfNode[v] > firstMoveID - 1 + k => Prefix(k)[v] = GetMove(v).from
  <2> DEFINE j == moveOfNode[v] - firstMoveID + 1
             m == GetMove(v)
  <2>1. /\ m \in Moves /\ m.node = v /\ IsValid(m) /\ m.from = start[v] /\ j \in 1..n
    BY <1>1, <1>3, <1>8, TrackerFinds
  <2>2. m = moveOrder[j]
    BY DEF GetMove
  <2>3. moveOfNode[v] \in Int /\ k \in Int
    BY <1>3
  <2>4. CASE moveOfNode[v] <= firstMoveID - 1 + k
    <3>1. j \in 1..k
      BY <1>3, <2>1, <2>3, <2>4
    <3>2. s[j] = m
      BY <1>2, <2>2, <3>1
    <3> HIDE DEF j, m
    <3>3. Prefix(k)[v] = m.to
      BY <1>6, <2>1, <3>1, <3>2
    <3> QED BY <1>3, <2>3, <2>4, <3>3 DEF m
  <2>5. CASE moveOfNode[v] > firstMoveID - 1 + k
    <3>1. j \notin 1..k
      BY <1>3, <2>1, <2>3, <2>5
    <3> HIDE DEF j, m
    <3>2. ASSUME NEW i \in 1..k PROVE s[i].node # v
      <4>1. s[i] = moveOrder[i] /\ i \in DOMAIN moveOrder /\ i # j /\ j \in DOMAIN moveOrder
        BY <1>2, <1>3, <2>1, <3>1
      <4> QED BY <1>3, <2>1, <2>2, <4>1 DEF OncePerNode
    <3>3. ~MovedIn(s, v)
      BY <1>2, <3>2 DEF MovedIn
    <3>4. Prefix(k)[v] = m.from
      BY <1>6, <2>1, <3>3
    <3> QED BY <1>3, <2>3, <2>5, <3>4 DEF m
  <2> QED BY <1>3, <2>3, <2>4, <2>5
<1> QED BY <1>5, <1>7, <1>8

\* One move more.
LEMMA PrefixStep ==
  ASSUME MovesTypeOK, NEW k \in 1..Len(moveOrder)
  PROVE  Prefix(k) = ApplyMove(Prefix(k - 1), moveOrder[k]) /\ moveOrder[k] \in Moves
<1>1. moveOrder \in Seq(Moves) /\ start \in [Nodes -> Blocks]
  BY DEF MovesTypeOK
<1>2. /\ SubSeq(moveOrder, 1, k) = Append(SubSeq(moveOrder, 1, k - 1), moveOrder[k])
      /\ SubSeq(moveOrder, 1, k - 1) \in Seq(Moves) /\ moveOrder[k] \in Moves
  BY <1>1
<1> QED BY <1>1, <1>2, ApplyAppend DEF Prefix

\* The ends of the sequence.
LEMMA PrefixEnds ==
  ASSUME RollbackReady
  PROVE  Prefix(0) = start /\ Prefix(Len(moveOrder)) = part
<1>1. moveOrder \in Seq(Moves) /\ start \in [Nodes -> Blocks] /\ ApplyMoves(start, moveOrder) = part
  BY DEF MovesTypeOK, RollbackReady
<1>2. SubSeq(moveOrder, 1, 0) = <<>> /\ SubSeq(moveOrder, 1, Len(moveOrder)) = moveOrder
  BY <1>1
<1> QED BY <1>1, <1>2, ApplyEmpty DEF Prefix

\* The last pin leaves the block of a move: no pin is in it afterwards.
LEMMA BenefitIs ==
  ASSUME RollbackReady, NEW i \in DOMAIN moveOrder, IsValid(moveOrder[i]), NEW e \in Edges
  PROVE  HasBenefit(e, moveOrder[i], moveOfNode) <=> \A v \in Pins[e] : Prefix(i)[v] # moveOrder[i].from
<1> DEFINE m == moveOrder[i]
           moved == {v \in Pins[e] : WasNodeMovedInThisRound(v)}
<1>0. Pins[e] \subseteq Nodes
  BY FMAssumption
<1>1. i \in 0..Len(moveOrder) /\ i \in Int /\ firstMoveID \in Int /\ moveOfNode[m.node] = firstMoveID - 1 + i
  BY DEF RollbackReady, MovesTypeOK, SequenceOK
<1>2. HasBenefit(e, m, moveOfNode) <=>
        /\ \A v \in moved : GetMove(v).from = m.from => moveOfNode[v] <= firstMoveID - 1 + i
        /\ \A v \in moved : GetMove(v).to = m.from => moveOfNode[v] > firstMoveID - 1 + i
        /\ \A v \in Pins[e] \ moved : part[v] # m.from
  BY <1>1 DEF HasBenefit
<1> HIDE DEF m
<1>3. ASSUME NEW v \in moved
      PROVE  /\ moveOfNode[v] \in Int
             /\ moveOfNode[v] <= firstMoveID - 1 + i => Prefix(i)[v] = GetMove(v).to
             /\ moveOfNode[v] > firstMoveID - 1 + i => Prefix(i)[v] = GetMove(v).from
  BY <1>0, <1>1, PrefixClosed
<1>4. ASSUME NEW v \in Pins[e] \ moved PROVE Prefix(i)[v] = part[v]
  BY <1>0, <1>1, PrefixClosed
<1>5. ASSUME NEW v \in moved
      PROVE  Prefix(i)[v] # m.from <=>
               /\ GetMove(v).from = m.from => moveOfNode[v] <= firstMoveID - 1 + i
               /\ GetMove(v).to = m.from => moveOfNode[v] > firstMoveID - 1 + i
  BY <1>1, <1>3
<1> HIDE DEF moved
<1>6. (\A v \in Pins[e] : Prefix(i)[v] # m.from) <=>
        (\A v \in moved : Prefix(i)[v] # m.from) /\ (\A v \in Pins[e] \ moved : Prefix(i)[v] # m.from)
  BY DEF moved
<1> QED BY <1>2, <1>4, <1>5, <1>6 DEF m

\* The first pin enters the block of a move: no pin is in it before.
LEMMA PenaltyIs ==
  ASSUME RollbackReady, NEW i \in DOMAIN moveOrder, IsValid(moveOrder[i]), NEW e \in Edges
  PROVE  HasPenalty(e, moveOrder[i], moveOfNode) <=> \A v \in Pins[e] : Prefix(i - 1)[v] # moveOrder[i].to
<1> DEFINE m == moveOrder[i]
           moved == {v \in Pins[e] : WasNodeMovedInThisRound(v)}
<1>0. Pins[e] \subseteq Nodes
  BY FMAssumption
<1>1. i - 1 \in 0..Len(moveOrder) /\ i \in Int /\ firstMoveID \in Int /\ moveOfNode[m.node] = firstMoveID - 1 + i
  BY DEF RollbackReady, MovesTypeOK, SequenceOK
<1>2. HasPenalty(e, m, moveOfNode) <=>
        /\ \A v \in moved : GetMove(v).to = m.to => firstMoveID - 1 + i <= moveOfNode[v]
        /\ \A v \in moved : GetMove(v).from = m.to => moveOfNode[v] < firstMoveID - 1 + i
        /\ \A v \in Pins[e] \ moved : part[v] # m.to
  BY <1>1 DEF HasPenalty
<1> HIDE DEF m
<1>3. ASSUME NEW v \in moved
      PROVE  /\ moveOfNode[v] \in Int
             /\ moveOfNode[v] <= firstMoveID - 1 + (i - 1) => Prefix(i - 1)[v] = GetMove(v).to
             /\ moveOfNode[v] > firstMoveID - 1 + (i - 1) => Prefix(i - 1)[v] = GetMove(v).from
  BY <1>0, <1>1, PrefixClosed
<1>4. ASSUME NEW v \in Pins[e] \ moved PROVE Prefix(i - 1)[v] = part[v]
  BY <1>0, <1>1, PrefixClosed
<1>5. ASSUME NEW v \in moved
      PROVE  Prefix(i - 1)[v] # m.to <=>
               /\ GetMove(v).to = m.to => firstMoveID - 1 + i <= moveOfNode[v]
               /\ GetMove(v).from = m.to => moveOfNode[v] < firstMoveID - 1 + i
  BY <1>1, <1>3
<1> HIDE DEF moved
<1>6. (\A v \in Pins[e] : Prefix(i - 1)[v] # m.to) <=>
        (\A v \in moved : Prefix(i - 1)[v] # m.to) /\ (\A v \in Pins[e] \ moved : Prefix(i - 1)[v] # m.to)
  BY DEF moved
<1> QED BY <1>2, <1>4, <1>5, <1>6 DEF m

\* The connectivity of a net: the blocks of its pins.
PinBlocks(parts, e) == {parts[u] : u \in Pins[e]}
NetCost(parts) == [e \in Edges |-> EdgeWeight[e] * (Cardinality(PinBlocks(parts, e)) - 1)]

\* The objective as the sum of a function.
LEMMA Km1IsSum ==
  ASSUME NEW parts
  PROVE  Km1(parts) = SumFunctionOnSet(NetCost(parts), Edges)
BY ZenonT(30) DEF Km1, NetCost, PinBlocks, MapThenSumSet, SumFunctionOnSet, FoldFunctionOnSet, MapThenFoldSet

\* Nets have finitely many pins, in blocks.
LEMMA NetCostType ==
  ASSUME NEW parts \in [Nodes -> Blocks], NEW e \in Edges
  PROVE  /\ IsFiniteSet(PinBlocks(parts, e)) /\ Cardinality(PinBlocks(parts, e)) \in Nat
         /\ EdgeWeight[e] \in Nat /\ NetCost(parts)[e] \in Int
<1>1. Pins[e] \subseteq Nodes /\ EdgeWeight[e] \in Nat
  BY FMAssumption
<1>2. PinBlocks(parts, e) \subseteq Blocks
  BY <1>1 DEF PinBlocks
<1>3. IsFiniteSet(PinBlocks(parts, e))
  BY <1>2, FMAssumption, FS_Subset
<1>4. Cardinality(PinBlocks(parts, e)) \in Nat
  BY <1>3, FS_CardinalityType
<1>5. NetCost(parts)[e] \in Int
  <2>1. NetCost(parts)[e] = EdgeWeight[e] * (Cardinality(PinBlocks(parts, e)) - 1)
    BY DEF NetCost
  <2> HIDE DEF NetCost, PinBlocks
  <2> QED BY <1>1, <1>4, <2>1
<1> QED BY <1>1, <1>3, <1>4, <1>5

\* The objective is an integer.
LEMMA Km1Type ==
  ASSUME NEW parts \in [Nodes -> Blocks]
  PROVE  Km1(parts) \in Int
<1> DEFINE f == NetCost(parts)
<1>1. \A e \in Edges : f[e] \in Int
  BY NetCostType
<1> HIDE DEF f
<1>2. SumFunctionOnSet(f, Edges) \in Int
  BY <1>1, FMAssumption, SumInt
<1> QED BY <1>2, Km1IsSum DEF f

\* A net loses a block with its last pin in it and gains one with the first.
ChangeOfPin(p, q, e, u, b) ==
  Cardinality(PinBlocks(p, e)) - Cardinality(PinBlocks(q, e)) =
    (IF \A v \in Pins[e] : q[v] # p[u] THEN 1 ELSE 0) - (IF \A v \in Pins[e] : p[v] # b THEN 1 ELSE 0)

\* What a move of a pin changes for its net.
LEMMA ConnectivityChange ==
  ASSUME NEW p \in [Nodes -> Blocks], NEW u \in Nodes, NEW b \in Blocks, NEW q,
         q = [p EXCEPT ![u] = b], NEW e \in Edges, u \in Pins[e]
  PROVE  ChangeOfPin(p, q, e, u, b)
<1> DEFINE C == {p[v] : v \in Pins[e] \ {u}}
           a == p[u]
<1>0. Pins[e] \subseteq Nodes
  BY FMAssumption
<1>1. q[u] = b /\ \A v \in Pins[e] \ {u} : q[v] = p[v]
  BY <1>0
<1>2. PinBlocks(p, e) = C \union {a} /\ PinBlocks(q, e) = C \union {b}
  BY <1>1 DEF PinBlocks
<1>3. C \subseteq PinBlocks(p, e) /\ IsFiniteSet(C)
  <2>1. C \subseteq PinBlocks(p, e)
    BY DEF PinBlocks
  <2>2. IsFiniteSet(PinBlocks(p, e))
    BY NetCostType
  <2> HIDE DEF C
  <2> QED BY <2>1, <2>2, FS_Subset
<1>4. (\A v \in Pins[e] : q[v] # p[u]) <=> a \notin C /\ b # a
  BY <1>1
<1>5. (\A v \in Pins[e] : p[v] # b) <=> b \notin C /\ b # a
  OBVIOUS
<1> HIDE DEF C, a
<1>6. /\ Cardinality(C) \in Nat
      /\ Cardinality(C \union {a}) = IF a \in C THEN Cardinality(C) ELSE Cardinality(C) + 1
      /\ Cardinality(C \union {b}) = IF b \in C THEN Cardinality(C) ELSE Cardinality(C) + 1
  BY <1>3, FS_CardinalityType, FS_AddElement
<1> DEFINE lost == \A v \in Pins[e] : q[v] # p[u]
           gained == \A v \in Pins[e] : p[v] # b
           n == Cardinality(C)
<1>7. ChangeOfPin(p, q, e, u, b) <=>
        Cardinality(C \union {a}) - Cardinality(C \union {b}) = (IF lost THEN 1 ELSE 0) - (IF gained THEN 1 ELSE 0)
  BY <1>2 DEF ChangeOfPin
<1>8. (lost <=> a \notin C /\ b # a) /\ (gained <=> b \notin C /\ b # a)
  BY <1>4, <1>5
<1> HIDE DEF lost, gained, n
<1>9. /\ n \in Nat
      /\ Cardinality(C \union {a}) = IF a \in C THEN n ELSE n + 1
      /\ Cardinality(C \union {b}) = IF b \in C THEN n ELSE n + 1
  BY <1>6 DEF n
<1>10. CASE a = b
  BY <1>7, <1>8, <1>9, <1>10
<1>11. CASE a # b /\ a \in C
  BY <1>7, <1>8, <1>9, <1>11
<1>12. CASE a # b /\ a \notin C
  BY <1>7, <1>8, <1>9, <1>12
<1> QED BY <1>10, <1>11, <1>12

\* The gain of a move, as a function on all nets.
NetGain(m) ==
  [e \in Edges |-> (IF HasBenefit(e, m, moveOfNode) THEN EdgeWeight[e] ELSE 0)
                   - (IF HasPenalty(e, m, moveOfNode) THEN EdgeWeight[e] ELSE 0)]
IncidentGain(m) == [e \in Edges |-> IF e \in IncidentEdges(m.node) THEN NetGain(m)[e] ELSE 0]

\* The gain that is computed net by net is what the objective loses with the move.
LEMMA GainIsDifference ==
  ASSUME RollbackReady, NEW i \in DOMAIN moveOrder
  PROVE  /\ RecalculatedGain(moveOrder[i]) = Km1(Prefix(i - 1)) - Km1(Prefix(i))
         /\ RecalculatedGain(moveOrder[i]) \in Int
<1> DEFINE m == moveOrder[i]
           p == Prefix(i - 1)
           q == Prefix(i)
<1>0. MovesTypeOK /\ SequenceOK
  BY DEF RollbackReady
<1>1. i \in 1..Len(moveOrder) /\ i - 1 \in 0..Len(moveOrder) /\ i \in 0..Len(moveOrder)
  BY <1>0 DEF MovesTypeOK
<1>2. p \in [Nodes -> Blocks] /\ q \in [Nodes -> Blocks]
  BY <1>1, PrefixClosed
<1>3. q = ApplyMove(p, m) /\ m \in Moves
  BY <1>0, <1>1, PrefixStep
<1>4. Km1(p) \in Int /\ Km1(q) \in Int
  BY <1>2, Km1Type
<1>5. CASE ~IsValid(m)
  <2>1. RecalculatedGain(m) = 0
    BY <1>5 DEF RecalculatedGain
  <2>2. p = q
    BY <1>3, <1>5 DEF ApplyMove
  <2> QED BY <1>4, <2>1, <2>2
<1>6. CASE IsValid(m)
  <2> DEFINE I == IncidentEdges(m.node)
  <2>1. q = [p EXCEPT ![m.node] = m.to] /\ m.node \in Nodes /\ m.to \in Blocks
    BY <1>3, <1>6 DEF ApplyMove, Moves
  <2>2. p[m.node] = m.from
    <3>1. WasNodeMovedInThisRound(m.node) /\ GetMove(m.node) = m
      BY <1>0, <1>6, TrackerFinds
    <3>2. moveOfNode[m.node] = firstMoveID - 1 + i
      BY <1>0, <1>6 DEF SequenceOK
    <3>3. firstMoveID \in Int /\ i \in Int
      BY <1>0, <1>1 DEF MovesTypeOK
    <3>4. moveOfNode[m.node] > firstMoveID - 1 + (i - 1)
      BY <3>2, <3>3
    <3> HIDE DEF p
    <3> QED BY <1>1, <2>1, <3>1, <3>4, PrefixClosed DEF p
  <2>3. ASSUME NEW e \in Edges
        PROVE  /\ NetGain(m)[e] \in Int /\ NetCost(q)[e] \in Int /\ IncidentGain(m)[e] \in Int
               /\ NetCost(p)[e] = NetCost(q)[e] + IncidentGain(m)[e]
    <3> DEFINE w == EdgeWeight[e]
               c == Cardinality(PinBlocks(p, e))
               d == Cardinality(PinBlocks(q, e))
               ben == IF HasBenefit(e, m, moveOfNode) THEN 1 ELSE 0
               pen == IF HasPenalty(e, m, moveOfNode) THEN 1 ELSE 0
    <3>1. w \in Nat /\ c \in Nat /\ d \in Nat /\ NetCost(q)[e] \in Int
      BY <1>2, NetCostType
    <3>2. NetCost(p)[e] = w * (c - 1) /\ NetCost(q)[e] = w * (d - 1)
      BY DEF NetCost
    <3>3. NetGain(m)[e] = (IF HasBenefit(e, m, moveOfNode) THEN w ELSE 0) - (IF HasPenalty(e, m, moveOfNode) THEN w ELSE 0)
      BY DEF NetGain
    <3>4. IncidentGain(m)[e] = IF e \in I THEN NetGain(m)[e] ELSE 0
      BY DEF IncidentGain
    <3>5. ASSUME e \in I PROVE c - d = ben - pen
      <4>1. m.node \in Pins[e]
        BY <3>5 DEF IncidentEdges
      <4>2. HasBenefit(e, m, moveOfNode) <=> \A v \in Pins[e] : q[v] # m.from
        BY <1>6, BenefitIs
      <4>3. HasPenalty(e, m, moveOfNode) <=> \A v \in Pins[e] : p[v] # m.to
        BY <1>6, PenaltyIs
      <4> DEFINE x == m.node
                 b == m.to
      <4>4. x \in Nodes /\ b \in Blocks /\ q = [p EXCEPT ![x] = b] /\ x \in Pins[e] /\ p[x] = m.from
        BY <2>1, <2>2, <4>1
      <4> HIDE DEF x, m, p, q
      <4>5. ChangeOfPin(p, q, e, x, b)
        BY <1>2, <4>4, ConnectivityChange
      <4> QED BY <4>2, <4>3, <4>4, <4>5 DEF ChangeOfPin
    <3>6. ASSUME e \notin I PROVE c = d
      <4>1. m.node \notin Pins[e] /\ Pins[e] \subseteq Nodes
        BY <3>6, FMAssumption DEF IncidentEdges
      <4>2. \A v \in Pins[e] : p[v] = q[v]
        BY <1>2, <2>1, <4>1
      <4>3. PinBlocks(p, e) = PinBlocks(q, e)
        BY <4>2 DEF PinBlocks
      <4> QED BY <4>3
    <3>7. NetGain(m)[e] = w * (ben - pen) /\ NetGain(m)[e] \in Int
      BY <3>1, <3>3
    <3>8. ben - pen \in Int
      OBVIOUS
    <3> HIDE DEF w, c, d, ben, pen, I, m, p, q
    <3>9. CASE e \in I
      <4>1. c - 1 = (d - 1) + (ben - pen)
        BY <3>1, <3>5, <3>8, <3>9
      <4>2. w * (c - 1) = w * (d - 1) + w * (ben - pen)
        <5>1. \A x, y \in Int : w * (x + y) = w * x + w * y
          BY <3>1
        <5>2. d - 1 \in Int
          BY <3>1
        <5> QED BY <3>8, <4>1, <5>1, <5>2
      <4> QED BY <3>1, <3>2, <3>4, <3>7, <3>9, <4>2
    <3>10. CASE e \notin I
      BY <3>1, <3>2, <3>4, <3>6, <3>7, <3>10
    <3> QED BY <3>9, <3>10
  <2> DEFINE f == NetCost(q)
             g == IncidentGain(m)
             h == NetCost(p)
             k == NetGain(m)
  <2>4. \A e \in Edges : f[e] \in Int /\ g[e] \in Int /\ h[e] = f[e] + g[e] /\ k[e] \in Int
    BY <2>3
  <2>5. \A e \in Edges : g[e] = IF e \in I THEN k[e] ELSE 0
    BY DEF IncidentGain
  <2>6. I \in SUBSET Edges
    BY DEF IncidentEdges
  <2>7. RecalculatedGain(m) = SumFunctionOnSet(k, I)
    <3>1. MapThenSumSet(LAMBDA e : (IF HasBenefit(e, m, moveOfNode) THEN EdgeWeight[e] ELSE 0)
                                   - (IF HasPenalty(e, m, moveOfNode) THEN EdgeWeight[e] ELSE 0), I)
          = SumFunctionOnSet(k, I)
      BY <2>6, ZenonT(30) DEF NetGain, MapThenSumSet, SumFunctionOnSet, FoldFunctionOnSet, MapThenFoldSet
    <3> QED BY <1>6, <3>1 DEF RecalculatedGain
  <2>8. Km1(p) = SumFunctionOnSet(h, Edges) /\ Km1(q) = SumFunctionOnSet(f, Edges)
    BY Km1IsSum
  <2> HIDE DEF f, g, h, k, I
  <2>9. SumFunctionOnSet(h, Edges) = SumFunctionOnSet(f, Edges) + SumFunctionOnSet(g, Edges)
    BY <2>4, FMAssumption, SumPlus
  <2>10. SumFunctionOnSet(g, Edges) = SumFunctionOnSet(k, I)
    <3>1. IsFiniteSet(Edges) /\ (\A e \in I : k[e] \in Int)
      BY <2>4, <2>6, FMAssumption
    <3> QED BY <2>5, <2>6, <3>1, SumExtend
  <2>11. SumFunctionOnSet(g, Edges) \in Int
    BY <2>4, FMAssumption, SumInt
  <2> HIDE DEF m, p, q
  <2> QED BY <1>4, <2>7, <2>8, <2>9, <2>10, <2>11 DEF m, p, q
<1> QED BY <1>5, <1>6

-----------------------------------------------------------------------------
(* The folds of the rollback *)

\* One step of final_scan, and of the scan that rolls forward.
ScanStep(s, i, gains) ==
  IF ~IsValid(moveOrder[i]) THEN s ELSE
  LET sum == s.gain_sum + gains[i]
      parts == [s.parts EXCEPT ![moveOrder[i].node] = moveOrder[i].to]
      weights == BlockWeights(parts)
  IN  [gain_sum |-> sum, parts |-> parts,
       best |-> IF Candidate(Overloaded(weights), sum, s.best)
                THEN BestOf(s.best, [gain |-> sum, index |-> i, heaviest |-> Heaviest(weights)])
                ELSE s.best]
ForwardStep(best, i) ==
  LET weights == BlockWeights(ApplyMoves(start, SubSeq(moveOrder, 1, i))) IN
  IF IsValid(moveOrder[i]) /\ Overloaded(weights) = {} /\ Gained(i) > best.gain
  THEN [gain |-> Gained(i), index |-> i, heaviest |-> 0] ELSE best

\* The recursive function of final_scan.
ScanSteps(base, s, gains) == FoldLeft(LAMBDA x, i : ScanStep(x, i, gains), base, s)
ScanFun(base, s, gains) ==
  CHOOSE g : g = [T \in SUBSET (DOMAIN s) |-> IF T = {} THEN base ELSE ScanStep(g[T \ {Max(T)}], s[Max(T)], gains)]
\* The fold is that function.
LEMMA ScanIsLoop ==
  ASSUME NEW base, NEW s, NEW gains
  PROVE  ScanSteps(base, s, gains) = ScanFun(base, s, gains)[DOMAIN s]
BY DEF ScanSteps, FoldLeft, MapThenFoldSet, ScanFun

\* Its steps stay within X.
ScanStays(X, s, gains) == \A k \in DOMAIN s, x \in X : ScanStep(x, s[k], gains) \in X

\* The values of final_scan, one after another.
ScanTrace(g, n, X, base, s, gains) ==
  /\ g \in [0..n -> X] /\ g[0] = base
  /\ \A k \in 1..n : g[k] = ScanStep(g[k - 1], s[k], gains)

\* What final_scan computes, is the last of them.
LEMMA ScanLoop ==
  ASSUME NEW n \in Nat, NEW s, DOMAIN s = 1..n, NEW X, NEW base \in X,
         NEW gains,
         ScanStays(X, s, gains)
  PROVE  \E g : ScanTrace(g, n, X, base, s, gains) /\ ScanSteps(base, s, gains) = g[n]
<1> DEFINE H == [k \in 1..n |-> [x \in X |-> ScanStep(x, s[k], gains)]]
           a == ScanFun(base, s, gains)
<1>0. \A k \in 1..n, x \in X : ScanStep(x, s[k], gains) \in X
  BY DEF ScanStays
<1>1. H \in [1..n -> [X -> X]]
  BY <1>0
<1>2. PICK f \in [SUBSET (1..n) -> X] : IsLoop(f, H, base, 1..n)
  <2> HIDE DEF H
  <2> QED BY <1>1, LoopType
<1>3. f = [T \in SUBSET (1..n) |-> IF T = {} THEN base ELSE ScanStep(f[T \ {Max(T)}], s[Max(T)], gains)]
  <2>1. ASSUME NEW T \in SUBSET (1..n), T # {}
        PROVE  H[Max(T)][f[T \ {Max(T)}]] = ScanStep(f[T \ {Max(T)}], s[Max(T)], gains)
    <3>1. Max(T) \in 1..n /\ f[T \ {Max(T)}] \in X
      BY <2>1, MaxUpTo
    <3> QED BY <3>1
  <2> HIDE DEF H
  <2>2. f = [T \in SUBSET (1..n) |-> IF T = {} THEN base ELSE H[Max(T)][f[T \ {Max(T)}]]]
    BY <1>2 DEF IsLoop
  <2> QED BY <2>1, <2>2
<1>4. a = [T \in SUBSET (1..n) |-> IF T = {} THEN base ELSE ScanStep(a[T \ {Max(T)}], s[Max(T)], gains)]
  <2> HIDE DEF H
  <2> QED BY <1>3 DEF ScanFun
<1>5. ScanSteps(base, s, gains) = a[1..n]
  BY ScanIsLoop
<1> HIDE DEF a, H
<1>6. a[1..0] = base
  BY <1>4, 1..0 = {}
<1>7. ASSUME NEW k \in 1..n PROVE a[1..k] = ScanStep(a[1..(k - 1)], s[k], gains)
  <2>1. Max(1..k) = k /\ (1..k) \ {k} = 1..(k - 1) /\ 1..k # {} /\ 1..k \in SUBSET (1..n)
    BY MaxOfSegment
  <2> QED BY <1>4, <2>1
<1>8. \A k \in 0..n : a[1..k] \in X
  <2> DEFINE Q == {k \in 0..n : a[1..k] \in X}
  <2>1. 0 \in Q
    BY <1>6
  <2>2. \A k \in 1..n : k - 1 \in Q => k \in Q
    BY <1>0, <1>7
  <2>3. \A k \in 0..n : k \in Q
    <3> HIDE DEF Q
    <3> QED BY <2>1, <2>2, RangeInduction
  <2> QED BY <2>3
<1> DEFINE g == [k \in 0..n |-> a[1..k]]
<1>9. g \in [0..n -> X] /\ g[0] = base /\ g[n] = a[1..n]
  BY <1>6, <1>8
<1>10. ASSUME NEW k \in 1..n PROVE g[k] = ScanStep(g[k - 1], s[k], gains)
  <2>1. g[k] = a[1..k] /\ g[k - 1] = a[1..(k - 1)]
    OBVIOUS
  <2> QED BY <1>7, <2>1
<1> HIDE DEF g
<1>11. ScanTrace(g, n, X, base, s, gains)
  BY <1>9, <1>10 DEF ScanTrace
<1> QED BY <1>5, <1>9, <1>11

\* The recursive function of the scan that rolls forward.
ForwardSteps(base, s) == FoldLeft(ForwardStep, base, s)
ForwardFun(base, s) ==
  CHOOSE g : g = [T \in SUBSET (DOMAIN s) |-> IF T = {} THEN base ELSE ForwardStep(g[T \ {Max(T)}], s[Max(T)])]
\* The fold is that function.
LEMMA ForwardIsLoop ==
  ASSUME NEW base, NEW s
  PROVE  ForwardSteps(base, s) = ForwardFun(base, s)[DOMAIN s]
BY DEF ForwardSteps, FoldLeft, MapThenFoldSet, ForwardFun

\* Its steps stay within X.
ForwardStays(X, s) == \A k \in DOMAIN s, x \in X : ForwardStep(x, s[k]) \in X

\* The values of the scan that rolls forward, one after another.
ForwardTrace(g, n, X, base, s) ==
  /\ g \in [0..n -> X] /\ g[0] = base
  /\ \A k \in 1..n : g[k] = ForwardStep(g[k - 1], s[k])

\* What the scan that rolls forward computes, is the last of them.
LEMMA ForwardLoop ==
  ASSUME NEW n \in Nat, NEW s, DOMAIN s = 1..n, NEW X, NEW base \in X,
         ForwardStays(X, s)
  PROVE  \E g : ForwardTrace(g, n, X, base, s) /\ ForwardSteps(base, s) = g[n]
<1> DEFINE H == [k \in 1..n |-> [x \in X |-> ForwardStep(x, s[k])]]
           a == ForwardFun(base, s)
<1>0. \A k \in 1..n, x \in X : ForwardStep(x, s[k]) \in X
  BY DEF ForwardStays
<1>1. H \in [1..n -> [X -> X]]
  BY <1>0
<1>2. PICK f \in [SUBSET (1..n) -> X] : IsLoop(f, H, base, 1..n)
  <2> HIDE DEF H
  <2> QED BY <1>1, LoopType
<1>3. f = [T \in SUBSET (1..n) |-> IF T = {} THEN base ELSE ForwardStep(f[T \ {Max(T)}], s[Max(T)])]
  <2>1. ASSUME NEW T \in SUBSET (1..n), T # {}
        PROVE  H[Max(T)][f[T \ {Max(T)}]] = ForwardStep(f[T \ {Max(T)}], s[Max(T)])
    <3>1. Max(T) \in 1..n /\ f[T \ {Max(T)}] \in X
      BY <2>1, MaxUpTo
    <3> QED BY <3>1
  <2> HIDE DEF H
  <2>2. f = [T \in SUBSET (1..n) |-> IF T = {} THEN base ELSE H[Max(T)][f[T \ {Max(T)}]]]
    BY <1>2 DEF IsLoop
  <2> QED BY <2>1, <2>2
<1>4. a = [T \in SUBSET (1..n) |-> IF T = {} THEN base ELSE ForwardStep(a[T \ {Max(T)}], s[Max(T)])]
  <2> HIDE DEF H
  <2> QED BY <1>3 DEF ForwardFun
<1>5. ForwardSteps(base, s) = a[1..n]
  BY ForwardIsLoop
<1> HIDE DEF a, H
<1>6. a[1..0] = base
  BY <1>4, 1..0 = {}
<1>7. ASSUME NEW k \in 1..n PROVE a[1..k] = ForwardStep(a[1..(k - 1)], s[k])
  <2>1. Max(1..k) = k /\ (1..k) \ {k} = 1..(k - 1) /\ 1..k # {} /\ 1..k \in SUBSET (1..n)
    BY MaxOfSegment
  <2> QED BY <1>4, <2>1
<1>8. \A k \in 0..n : a[1..k] \in X
  <2> DEFINE Q == {k \in 0..n : a[1..k] \in X}
  <2>1. 0 \in Q
    BY <1>6
  <2>2. \A k \in 1..n : k - 1 \in Q => k \in Q
    BY <1>0, <1>7
  <2>3. \A k \in 0..n : k \in Q
    <3> HIDE DEF Q
    <3> QED BY <2>1, <2>2, RangeInduction
  <2> QED BY <2>3
<1> DEFINE g == [k \in 0..n |-> a[1..k]]
<1>9. g \in [0..n -> X] /\ g[0] = base /\ g[n] = a[1..n]
  BY <1>6, <1>8
<1>10. ASSUME NEW k \in 1..n PROVE g[k] = ForwardStep(g[k - 1], s[k])
  <2>1. g[k] = a[1..k] /\ g[k - 1] = a[1..(k - 1)]
    OBVIOUS
  <2> QED BY <1>7, <2>1
<1> HIDE DEF g
<1>11. ForwardTrace(g, n, X, base, s)
  BY <1>9, <1>10 DEF ForwardTrace
<1> QED BY <1>5, <1>9, <1>11

\* Addition.
Plus(x, y) == x + y

\* The recursive function of the sum of the gains of a prefix.
SumSteps(base, s) == FoldLeft(LAMBDA x, y : x + y, base, s)
SumFun(base, s) ==
  CHOOSE g : g = [T \in SUBSET (DOMAIN s) |-> IF T = {} THEN base ELSE Plus(g[T \ {Max(T)}], s[Max(T)])]
\* The fold is that function.
LEMMA SumIsLoop ==
  ASSUME NEW base, NEW s
  PROVE  SumSteps(base, s) = SumFun(base, s)[DOMAIN s]
BY DEF SumSteps, Plus, FoldLeft, MapThenFoldSet, SumFun

\* Its steps stay within X.
SumStays(X, s) == \A k \in DOMAIN s, x \in X : Plus(x, s[k]) \in X

\* The values of the sum of the gains of a prefix, one after another.
SumTrace(g, n, X, base, s) ==
  /\ g \in [0..n -> X] /\ g[0] = base
  /\ \A k \in 1..n : g[k] = Plus(g[k - 1], s[k])

\* What the sum of the gains of a prefix computes, is the last of them.
LEMMA SumLoop ==
  ASSUME NEW n \in Nat, NEW s, DOMAIN s = 1..n, NEW X, NEW base \in X,
         SumStays(X, s)
  PROVE  \E g : SumTrace(g, n, X, base, s) /\ SumSteps(base, s) = g[n]
<1> DEFINE H == [k \in 1..n |-> [x \in X |-> Plus(x, s[k])]]
           a == SumFun(base, s)
<1>0. \A k \in 1..n, x \in X : Plus(x, s[k]) \in X
  BY DEF SumStays
<1>1. H \in [1..n -> [X -> X]]
  BY <1>0
<1>2. PICK f \in [SUBSET (1..n) -> X] : IsLoop(f, H, base, 1..n)
  <2> HIDE DEF H
  <2> QED BY <1>1, LoopType
<1>3. f = [T \in SUBSET (1..n) |-> IF T = {} THEN base ELSE Plus(f[T \ {Max(T)}], s[Max(T)])]
  <2>1. ASSUME NEW T \in SUBSET (1..n), T # {}
        PROVE  H[Max(T)][f[T \ {Max(T)}]] = Plus(f[T \ {Max(T)}], s[Max(T)])
    <3>1. Max(T) \in 1..n /\ f[T \ {Max(T)}] \in X
      BY <2>1, MaxUpTo
    <3> QED BY <3>1
  <2> HIDE DEF H
  <2>2. f = [T \in SUBSET (1..n) |-> IF T = {} THEN base ELSE H[Max(T)][f[T \ {Max(T)}]]]
    BY <1>2 DEF IsLoop
  <2> QED BY <2>1, <2>2
<1>4. a = [T \in SUBSET (1..n) |-> IF T = {} THEN base ELSE Plus(a[T \ {Max(T)}], s[Max(T)])]
  <2> HIDE DEF H
  <2> QED BY <1>3 DEF SumFun
<1>5. SumSteps(base, s) = a[1..n]
  BY SumIsLoop
<1> HIDE DEF a, H
<1>6. a[1..0] = base
  BY <1>4, 1..0 = {}
<1>7. ASSUME NEW k \in 1..n PROVE a[1..k] = Plus(a[1..(k - 1)], s[k])
  <2>1. Max(1..k) = k /\ (1..k) \ {k} = 1..(k - 1) /\ 1..k # {} /\ 1..k \in SUBSET (1..n)
    BY MaxOfSegment
  <2> QED BY <1>4, <2>1
<1>8. \A k \in 0..n : a[1..k] \in X
  <2> DEFINE Q == {k \in 0..n : a[1..k] \in X}
  <2>1. 0 \in Q
    BY <1>6
  <2>2. \A k \in 1..n : k - 1 \in Q => k \in Q
    BY <1>0, <1>7
  <2>3. \A k \in 0..n : k \in Q
    <3> HIDE DEF Q
    <3> QED BY <2>1, <2>2, RangeInduction
  <2> QED BY <2>3
<1> DEFINE g == [k \in 0..n |-> a[1..k]]
<1>9. g \in [0..n -> X] /\ g[0] = base /\ g[n] = a[1..n]
  BY <1>6, <1>8
<1>10. ASSUME NEW k \in 1..n PROVE g[k] = Plus(g[k - 1], s[k])
  <2>1. g[k] = a[1..k] /\ g[k - 1] = a[1..(k - 1)]
    OBVIOUS
  <2> QED BY <1>7, <2>1
<1> HIDE DEF g
<1>11. SumTrace(g, n, X, base, s)
  BY <1>9, <1>10 DEF SumTrace
<1> QED BY <1>5, <1>9, <1>11

\* Where final_scan starts.
ScanInitial(first, gains) ==
  [gain_sum |-> SumSteps(0, SubSeq(gains, 1, first - 1)),
   parts |-> ApplyMoves(start, SubSeq(moveOrder, 1, first - 1)),
   best |-> [gain |-> 0, index |-> 0, heaviest |-> MapThenSumSet(LAMBDA u : NodeWeight[u], Nodes) + 1]]

\* final_scan is the fold.
LEMMA FinalScanIs ==
  ASSUME NEW first, NEW last, NEW gains
  PROVE  FinalScan(first, last, gains) =
           ScanSteps(ScanInitial(first, gains), [i \in 1..(last - first + 1) |-> first + i - 1], gains).best
BY DEF FinalScan, ScanSteps, ScanInitial, SumSteps, ScanStep

\* Rolling forward.
LEMMA SequentialIs ==
  BestPrefixSequential =
    ForwardSteps([gain |-> 0, index |-> 0, heaviest |-> 0], [i \in DOMAIN moveOrder |-> i])
BY DEF BestPrefixSequential, ForwardSteps, ForwardStep

-----------------------------------------------------------------------------
(* The best prefix of a range of moves *)

Unset == SumFunctionOnSet(NodeWeight, Nodes) + 1
Balanced(k) == Overloaded(BlockWeights(Prefix(k))) = {}
PrefixWeight(k) == Heaviest(BlockWeights(Prefix(k)))
RecalculatedGains == [i \in DOMAIN moveOrder |-> RecalculatedGain(moveOrder[i])]
Bests == [gain : Int, index : Nat, heaviest : Int]

\* Gains of prefixes.
LEMMA GainedIs ==
  ASSUME RollbackReady, NEW k \in 0..Len(moveOrder)
  PROVE  /\ Gained(k) = Km1(start) - Km1(Prefix(k)) /\ Gained(k) \in Int
         /\ Gained(0) = 0 /\ Km1(start) \in Int /\ Km1(Prefix(k)) \in Int
<1>1. Prefix(k) \in [Nodes -> Blocks] /\ start \in [Nodes -> Blocks] /\ Prefix(0) = start
  BY PrefixClosed, PrefixEnds DEF RollbackReady, MovesTypeOK
<1>2. Km1(start) \in Int /\ Km1(Prefix(k)) \in Int
  BY <1>1, Km1Type
<1>3. Gained(k) = Km1(start) - Km1(Prefix(k)) /\ Gained(0) = Km1(start) - Km1(Prefix(0))
  BY DEF Gained, Prefix
<1> QED BY <1>1, <1>2, <1>3

\* The recomputed gains are the differences of them.
LEMMA GainsAreDifferences ==
  ASSUME RollbackReady, NEW i \in DOMAIN moveOrder
  PROVE  /\ RecalculatedGain(moveOrder[i]) = Gained(i) - Gained(i - 1)
         /\ RecalculatedGains[i] = Gained(i) - Gained(i - 1)
         /\ Gained(i) \in Int /\ Gained(i - 1) \in Int
<1>1. i \in 0..Len(moveOrder) /\ i - 1 \in 0..Len(moveOrder)
  BY DEF RollbackReady, MovesTypeOK
<1>2. /\ Gained(i) = Km1(start) - Km1(Prefix(i)) /\ Km1(start) \in Int /\ Km1(Prefix(i)) \in Int
      /\ Gained(i - 1) = Km1(start) - Km1(Prefix(i - 1)) /\ Km1(Prefix(i - 1)) \in Int
  BY <1>1, GainedIs
<1>3. RecalculatedGain(moveOrder[i]) = Km1(Prefix(i - 1)) - Km1(Prefix(i))
  BY GainIsDifference
<1> QED BY <1>2, <1>3 DEF RecalculatedGains

\* The gains of a prefix sum up to its gain.
LEMMA GainSum ==
  ASSUME RollbackReady, NEW k \in 0..Len(moveOrder)
  PROVE  SumSteps(0, SubSeq(RecalculatedGains, 1, k)) = Gained(k)
<1> DEFINE n == Len(moveOrder)
           s == SubSeq(RecalculatedGains, 1, k)
<1>1. n \in Nat /\ DOMAIN moveOrder = 1..n /\ k \in Nat
  BY DEF RollbackReady, MovesTypeOK
<1>2. \A i \in 1..n : RecalculatedGains[i] \in Int
  BY <1>1, GainsAreDifferences
<1>3. RecalculatedGains \in [1..n -> Int]
  BY <1>1, <1>2 DEF RecalculatedGains
<1>4. RecalculatedGains \in Seq(Int) /\ Len(RecalculatedGains) = n
  BY <1>1, <1>3
<1>5. DOMAIN s = 1..k /\ \A j \in 1..k : s[j] = RecalculatedGains[j] /\ s[j] \in Int
  BY <1>1, <1>4
<1> HIDE DEF n, s
<1>6. SumStays(Int, s)
  BY <1>5 DEF SumStays, Plus
<1>7. PICK g : SumTrace(g, k, Int, 0, s) /\ SumSteps(0, s) = g[k]
  <2>1. 0 \in Int /\ k \in Nat /\ DOMAIN s = 1..k
    BY <1>1, <1>5
  <2> QED BY <1>6, <2>1, SumLoop
<1>8. g \in [0..k -> Int] /\ g[0] = 0 /\ \A j \in 1..k : g[j] = g[j - 1] + s[j]
  BY <1>7 DEF SumTrace, Plus
<1> DEFINE Q == {j \in 0..k : g[j] = Gained(j)}
<1>9. 0 \in Q
  BY <1>1, <1>8, GainedIs
<1>10. ASSUME NEW j \in 1..k, j - 1 \in Q PROVE j \in Q
  <2>1. j \in DOMAIN moveOrder
    BY <1>1 DEF n
  <2>2. s[j] = Gained(j) - Gained(j - 1) /\ Gained(j) \in Int /\ Gained(j - 1) \in Int
    BY <1>5, <2>1, GainsAreDifferences
  <2>3. g[j] = Gained(j)
    BY <1>8, <1>10, <2>2
  <2> QED BY <2>3
<1>11. k \in Q
  <2> HIDE DEF Q
  <2>1. \A j \in 0..k : j \in Q
    BY <1>1, <1>9, <1>10, RangeInduction
  <2> QED BY <1>1, <2>1
<1> QED BY <1>7, <1>11 DEF s

\* The largest block weight is a number, and not more than all nodes weigh.
LEMMA HeaviestType ==
  ASSUME NEW parts \in [Nodes -> Blocks], Blocks # {}
  PROVE  Heaviest(BlockWeights(parts)) \in Int /\ Heaviest(BlockWeights(parts)) < Unset /\ Unset \in Int
<1> DEFINE f == BlockWeights(parts)
           total == SumFunctionOnSet(NodeWeight, Nodes)
<1>1. \A u \in Nodes : NodeWeight[u] \in Nat
  BY FMAssumption
<1>2. ASSUME NEW b \in Blocks PROVE f[b] \in Int /\ f[b] <= total /\ total \in Nat
  <2> DEFINE S == {u \in Nodes : parts[u] = b}
  <2>1. f[b] = SumFunctionOnSet(NodeWeight, S)
    BY DEF BlockWeights, BlockWeight, MapThenSumSet, SumFunctionOnSet, FoldFunctionOnSet
  <2>2. S \in SUBSET Nodes
    OBVIOUS
  <2> HIDE DEF S, f, total
  <2>3. SumFunctionOnSet(NodeWeight, S) \in Nat /\ SumFunctionOnSet(NodeWeight, S) <= SumFunctionOnSet(NodeWeight, Nodes)
        /\ SumFunctionOnSet(NodeWeight, Nodes) \in Nat
    BY <1>1, <2>2, FMAssumption, SumSubset
  <2> QED BY <2>1, <2>3 DEF total
<1> HIDE DEF f, total
<1>3. /\ Max({f[b] : b \in Blocks}) \in {f[b] : b \in Blocks}
  BY <1>2, FMAssumption, MaxOfValues
<1>4. PICK b \in Blocks : Heaviest(f) = f[b]
  BY <1>3 DEF Heaviest
<1>5. Unset = total + 1
  BY DEF Unset, total
<1> QED BY <1>2, <1>4, <1>5 DEF f

\* The best prefix among those that end in a range of moves.
AtLeastAsGood(b, j) ==
  b.gain > Gained(j) \/ (b.gain = Gained(j) /\ b.heaviest <= PrefixWeight(j))
BestOfRange(b, first, last) ==
  /\ b \in Bests /\ b.gain >= 0
  /\ \/ b.index = 0 /\ b.gain = 0 /\ b.heaviest = Unset
     \/ /\ b.index \in first..last /\ Balanced(b.index)
        /\ b.gain = Gained(b.index) /\ b.heaviest = PrefixWeight(b.index)
  /\ \A j \in first..last : IsValid(moveOrder[j]) /\ Balanced(j) /\ Gained(j) >= 0 => AtLeastAsGood(b, j)

\* What final_scan knows after a move.
Scans == [gain_sum : Int, parts : [Nodes -> Blocks], best : Bests]
ScanOK(s, first, i) ==
  s \in Scans /\ s.gain_sum = Gained(i) /\ s.parts = Prefix(i) /\ BestOfRange(s.best, first, i)

\* The better one of two candidates.
LEMMA BestOfType ==
  ASSUME NEW x \in Bests, NEW y \in Bests
  PROVE  /\ BestOf(x, y) \in {x, y}
         /\ \/ BestOf(x, y).gain > y.gain
            \/ BestOf(x, y).gain = y.gain /\ BestOf(x, y).heaviest <= y.heaviest
         /\ \/ BestOf(x, y).gain > x.gain
            \/ BestOf(x, y).gain = x.gain /\ BestOf(x, y).heaviest <= x.heaviest
<1>1. x.gain \in Int /\ x.index \in Int /\ x.heaviest \in Int /\ y.gain \in Int /\ y.index \in Int /\ y.heaviest \in Int
  BY DEF Bests
<1> QED BY <1>1 DEF BestOf, Better

\* final_scan takes the next move.
LEMMA ScanStepBest ==
  ASSUME RollbackReady, NEW i \in DOMAIN moveOrder, NEW first \in 1..i,
         NEW s, ScanOK(s, first, i - 1)
  PROVE  ScanOK(ScanStep(s, i, RecalculatedGains), first, i)
<1> DEFINE m == moveOrder[i]
           r == ScanStep(s, i, RecalculatedGains)
           sum == s.gain_sum + RecalculatedGains[i]
           parts == [s.parts EXCEPT ![m.node] = m.to]
           weights == BlockWeights(parts)
           cand == [gain |-> sum, index |-> i, heaviest |-> Heaviest(weights)]
<1>0. MovesTypeOK /\ i \in 1..Len(moveOrder) /\ i \in Nat /\ first \in Nat
  BY DEF RollbackReady, MovesTypeOK
<1>1. Prefix(i) = ApplyMove(Prefix(i - 1), m) /\ m \in Moves
  BY <1>0, PrefixStep
<1>2. s \in Scans /\ s.gain_sum = Gained(i - 1) /\ s.parts = Prefix(i - 1) /\ BestOfRange(s.best, first, i - 1)
  BY DEF ScanOK
<1>3. RecalculatedGains[i] = Gained(i) - Gained(i - 1) /\ Gained(i) \in Int /\ Gained(i - 1) \in Int
  BY GainsAreDifferences
<1>4. \A j \in first..i : j \in first..(i - 1) \/ j = i
  BY <1>0
<1>5. \A j \in first..(i - 1) : j \in first..i
  BY <1>0
<1>6. CASE ~IsValid(m)
  <2>1. r = s
    BY <1>6 DEF ScanStep
  <2>2. Prefix(i) = Prefix(i - 1)
    BY <1>1, <1>6 DEF ApplyMove
  <2>3. Gained(i) = Gained(i - 1)
    BY <2>2 DEF Gained, Prefix
  <2>4. BestOfRange(s.best, first, i)
    BY <1>2, <1>4, <1>5, <1>6 DEF BestOfRange
  <2> QED BY <1>2, <2>1, <2>2, <2>3, <2>4 DEF ScanOK
<1>7. CASE IsValid(m)
  <2>1. sum = Gained(i)
    BY <1>2, <1>3
  <2>2. parts = Prefix(i)
    BY <1>1, <1>2, <1>7 DEF ApplyMove
  <2>3. Prefix(i) \in [Nodes -> Blocks]
    BY <1>0, PrefixClosed
  <2>4. Blocks # {}
    BY <1>1 DEF Moves
  <2>5. PrefixWeight(i) \in Int /\ PrefixWeight(i) < Unset /\ Unset \in Int
    BY <2>3, <2>4, HeaviestType DEF PrefixWeight
  <2>6. Heaviest(weights) = PrefixWeight(i) /\ (Overloaded(weights) = {} <=> Balanced(i))
    BY <2>2 DEF PrefixWeight, Balanced
  <2> DEFINE best == IF Balanced(i) /\ Gained(i) >= s.best.gain THEN BestOf(s.best, cand) ELSE s.best
  <2>7. r = [gain_sum |-> sum, parts |-> parts, best |-> best]
    BY <1>7, <2>1, <2>6 DEF ScanStep, Candidate
  <2>8. cand \in Bests /\ cand.gain = Gained(i) /\ cand.index = i /\ cand.heaviest = PrefixWeight(i)
    BY <1>0, <1>3, <2>1, <2>5, <2>6 DEF Bests
  <2> HIDE DEF cand, sum, parts, weights, r, m
  <2> DEFINE b == s.best
  <2>9. b \in Bests /\ b.gain >= 0 /\ b.gain \in Int /\ b.heaviest \in Int
    BY <1>2 DEF BestOfRange, Bests
  <2>10. BestOfRange(best, first, i)
    <3>1. CASE ~(Balanced(i) /\ Gained(i) >= b.gain)
      <4>1. best = b
        BY <3>1
      <4>2. Balanced(i) /\ Gained(i) >= 0 => AtLeastAsGood(b, i)
        BY <1>3, <2>9, <3>1 DEF AtLeastAsGood
      <4>3. BestOfRange(b, first, i)
        <5>1. \/ b.index = 0 /\ b.gain = 0 /\ b.heaviest = Unset
              \/ /\ b.index \in first..i /\ Balanced(b.index)
                 /\ b.gain = Gained(b.index) /\ b.heaviest = PrefixWeight(b.index)
          BY <1>2, <1>5 DEF BestOfRange
        <5>2. \A j \in first..i : IsValid(moveOrder[j]) /\ Balanced(j) /\ Gained(j) >= 0 => AtLeastAsGood(b, j)
          BY <1>2, <1>4, <4>2 DEF BestOfRange
        <5> QED BY <2>9, <5>1, <5>2 DEF BestOfRange
      <4> QED BY <4>1, <4>3
    <3>2. CASE Balanced(i) /\ Gained(i) >= b.gain
      <4> DEFINE c == BestOf(b, cand)
      <4>1. best = c
        BY <3>2
      <4>2. /\ c \in {b, cand}
            /\ c.gain > cand.gain \/ (c.gain = cand.gain /\ c.heaviest <= cand.heaviest)
            /\ c.gain > b.gain \/ (c.gain = b.gain /\ c.heaviest <= b.heaviest)
        BY <2>8, <2>9, BestOfType
      <4> HIDE DEF c, best
      <4>3. c \in Bests /\ c.gain \in Int /\ c.heaviest \in Int /\ c.gain >= 0
        BY <1>3, <2>5, <2>8, <2>9, <3>2, <4>2
      <4>4. \/ c.index = 0 /\ c.gain = 0 /\ c.heaviest = Unset
            \/ /\ c.index \in first..i /\ Balanced(c.index)
               /\ c.gain = Gained(c.index) /\ c.heaviest = PrefixWeight(c.index)
        <5>1. CASE c = b
          BY <1>2, <1>5, <5>1 DEF BestOfRange
        <5>2. CASE c = cand
          <6>1. i \in first..i
            BY <1>0
          <6> QED BY <2>8, <3>2, <5>2, <6>1
        <5> QED BY <4>2, <5>1, <5>2
      <4>5. ASSUME NEW j \in first..i, IsValid(moveOrder[j]), Balanced(j), Gained(j) >= 0
            PROVE  AtLeastAsGood(c, j)
        <5>1. CASE j = i
          BY <2>8, <4>2, <5>1 DEF AtLeastAsGood
        <5>2. CASE j # i
          <6>1. j \in first..(i - 1) /\ j \in DOMAIN moveOrder
            BY <1>0, <1>4, <5>2
          <6>2. AtLeastAsGood(b, j)
            BY <1>2, <4>5, <6>1 DEF BestOfRange
          <6>3. Gained(j) \in Int
            BY <6>1, GainsAreDifferences
          <6>4. PrefixWeight(j) \in Int
            <7>1. Prefix(j) \in [Nodes -> Blocks]
              BY <1>0, <6>1, PrefixClosed
            <7> QED BY <2>4, <7>1, HeaviestType DEF PrefixWeight
          <6> QED BY <2>9, <4>2, <4>3, <6>2, <6>3, <6>4 DEF AtLeastAsGood
        <5> QED BY <5>1, <5>2
      <4>6. BestOfRange(c, first, i)
        BY <4>3, <4>4, <4>5 DEF BestOfRange
      <4> QED BY <4>1, <4>6
    <3> QED BY <3>1, <3>2
  <2>11. best \in Bests
    BY <2>10 DEF BestOfRange
  <2> HIDE DEF best
  <2>12. r \in Scans /\ r.gain_sum = Gained(i) /\ r.parts = Prefix(i) /\ r.best = best
    BY <1>3, <2>1, <2>2, <2>3, <2>7, <2>11 DEF Scans
  <2> QED BY <2>10, <2>12 DEF ScanOK, r
<1> QED BY <1>6, <1>7

-----------------------------------------------------------------------------
(* What final_scan finds in its range *)

\* The moves are about nodes and blocks, and their gains are numbers.
LEMMA MoveParts ==
  ASSUME RollbackReady, NEW i \in DOMAIN moveOrder
  PROVE  /\ moveOrder[i].node \in Nodes /\ Blocks # {} /\ RecalculatedGains[i] \in Int
         /\ IsValid(moveOrder[i]) => moveOrder[i].to \in Blocks
<1>1. moveOrder[i] \in Moves
  BY DEF RollbackReady, MovesTypeOK
<1>2. RecalculatedGains[i] \in Int
  BY GainsAreDifferences
<1> QED BY <1>1, <1>2 DEF Moves, IsValid

\* A step of final_scan.
LEMMA ScanStepType ==
  ASSUME RollbackReady, NEW i \in DOMAIN moveOrder, NEW x \in Scans
  PROVE  ScanStep(x, i, RecalculatedGains) \in Scans
<1> DEFINE m == moveOrder[i]
           sum == x.gain_sum + RecalculatedGains[i]
           parts == [x.parts EXCEPT ![m.node] = m.to]
           weights == BlockWeights(parts)
           cand == [gain |-> sum, index |-> i, heaviest |-> Heaviest(weights)]
           best == IF Candidate(Overloaded(weights), sum, x.best) THEN BestOf(x.best, cand) ELSE x.best
<1>1. CASE ~IsValid(m)
  BY <1>1 DEF ScanStep
<1>2. CASE IsValid(m)
  <2>1. x.gain_sum \in Int /\ x.parts \in [Nodes -> Blocks] /\ x.best \in Bests
    BY DEF Scans
  <2>2. m.node \in Nodes /\ Blocks # {} /\ RecalculatedGains[i] \in Int /\ m.to \in Blocks
    BY <1>2, MoveParts
  <2>3. sum \in Int /\ parts \in [Nodes -> Blocks]
    BY <2>1, <2>2
  <2>4. i \in Nat
    BY DEF RollbackReady, MovesTypeOK
  <2>5. Heaviest(weights) \in Int
    <3> HIDE DEF parts
    <3> QED BY <2>2, <2>3, HeaviestType
  <2>6. ScanStep(x, i, RecalculatedGains) = [gain_sum |-> sum, parts |-> parts, best |-> best]
    BY <1>2 DEF ScanStep
  <2> HIDE DEF sum, parts, weights, m
  <2>7. cand \in Bests
    BY <2>3, <2>4, <2>5 DEF Bests
  <2> HIDE DEF cand
  <2>8. best \in Bests
    BY <2>1, <2>7 DEF BestOf
  <2> HIDE DEF best
  <2> QED BY <2>3, <2>6, <2>8 DEF Scans
<1> QED BY <1>1, <1>2

\* It starts with what the prefix before the range has gained, and no candidate.
LEMMA ScanStart ==
  ASSUME RollbackReady, NEW first \in 1..Len(moveOrder)
  PROVE  ScanOK(ScanInitial(first, RecalculatedGains), first, first - 1)
<1> DEFINE base == ScanInitial(first, RecalculatedGains)
           b == [gain |-> 0, index |-> 0, heaviest |-> Unset]
<1>1. Len(moveOrder) \in Nat /\ first - 1 \in 0..Len(moveOrder) /\ first \in Nat /\ first \in DOMAIN moveOrder
  BY DEF RollbackReady, MovesTypeOK
<1>2. MapThenSumSet(LAMBDA u : NodeWeight[u], Nodes) + 1 = Unset
  BY DEF Unset, MapThenSumSet, SumFunctionOnSet, FoldFunctionOnSet
<1>3. base.gain_sum = Gained(first - 1)
  BY <1>1, GainSum DEF ScanInitial
<1>4. base.parts = Prefix(first - 1)
  BY DEF ScanInitial, Prefix
<1>5. base.best = b /\ base = [gain_sum |-> base.gain_sum, parts |-> base.parts, best |-> b]
  BY <1>2 DEF ScanInitial
<1>6. Gained(first - 1) \in Int /\ Prefix(first - 1) \in [Nodes -> Blocks]
  BY <1>1, GainedIs, PrefixClosed
<1>7. Unset \in Int
  BY <1>1, <1>6, MoveParts, HeaviestType
<1> HIDE DEF base
<1>8. b \in Bests
  BY <1>7 DEF Bests
<1>9. BestOfRange(b, first, first - 1)
  <2>1. \A j \in first..(first - 1) : FALSE
    BY <1>1
  <2> QED BY <1>8, <2>1 DEF BestOfRange
<1> HIDE DEF b
<1>10. base \in Scans
  BY <1>3, <1>4, <1>5, <1>6, <1>8 DEF Scans
<1> QED BY <1>3, <1>4, <1>5, <1>9, <1>10 DEF ScanOK, base

\* final_scan of a range finds the best of the prefixes that end in it.
LEMMA FinalScanBest ==
  ASSUME RollbackReady, NEW first \in 1..Len(moveOrder), NEW last \in first..Len(moveOrder)
  PROVE  BestOfRange(FinalScan(first, last, RecalculatedGains), first, last)
<1> DEFINE n == last - first + 1
           s == [i \in 1..(last - first + 1) |-> first + i - 1]
           base == ScanInitial(first, RecalculatedGains)
<1>1. /\ n \in Nat /\ first \in Nat /\ last \in Nat /\ DOMAIN s = 1..n /\ DOMAIN moveOrder = 1..Len(moveOrder)
      /\ Len(moveOrder) \in Nat
  BY DEF RollbackReady, MovesTypeOK
<1>2. \A k \in 1..n : s[k] = first - 1 + k /\ s[k] \in DOMAIN moveOrder /\ first \in 1..s[k]
  BY <1>1
<1>3. ScanOK(base, first, first - 1) /\ base \in Scans
  BY ScanStart DEF ScanOK
<1>4. FinalScan(first, last, RecalculatedGains) = ScanSteps(base, s, RecalculatedGains).best
  BY FinalScanIs
<1> HIDE DEF base, n, s
<1>5. ScanStays(Scans, s, RecalculatedGains)
  BY <1>1, <1>2, ScanStepType DEF ScanStays
<1>6. PICK g : /\ ScanTrace(g, n, Scans, base, s, RecalculatedGains)
               /\ ScanSteps(base, s, RecalculatedGains) = g[n]
  BY <1>1, <1>3, <1>5, ScanLoop
<1>7. g[0] = base /\ \A k \in 1..n : g[k] = ScanStep(g[k - 1], s[k], RecalculatedGains)
  BY <1>6 DEF ScanTrace
<1> DEFINE Q == {k \in 0..n : ScanOK(g[k], first, first - 1 + k)}
<1>8. 0 \in Q
  BY <1>1, <1>3, <1>7
<1>9. ASSUME NEW k \in 1..n, k - 1 \in Q PROVE k \in Q
  <2>1. ScanOK(g[k - 1], first, s[k] - 1)
    <3>1. first - 1 + (k - 1) = s[k] - 1
      BY <1>1, <1>2
    <3> QED BY <1>9, <3>1
  <2>2. ScanOK(ScanStep(g[k - 1], s[k], RecalculatedGains), first, s[k])
    BY <1>2, <2>1, ScanStepBest
  <2>3. ScanOK(g[k], first, first - 1 + k)
    BY <1>2, <1>7, <2>2
  <2> QED BY <2>3
<1>10. n \in Q
  <2> HIDE DEF Q
  <2>1. \A k \in 0..n : k \in Q
    BY <1>1, <1>8, <1>9, RangeInduction
  <2> QED BY <1>1, <2>1
<1>11. ScanOK(g[n], first, first - 1 + n) /\ first - 1 + n = last
  BY <1>1, <1>10 DEF n
<1> QED BY <1>4, <1>6, <1>11 DEF ScanOK

-----------------------------------------------------------------------------
(* The best prefix of all ranges *)

\* The ranges of the parallel scan.
Firsts(ends) == {1} \union {i + 1 : i \in ends}
LastOf(ends, i) == Min({j \in ends \union {Len(moveOrder)} : j >= i})

\* They are ranges of moves, and cover all of them.
LEMMA RangesCover ==
  ASSUME Len(moveOrder) \in Nat \ {0}, NEW ends \in SUBSET (1..(Len(moveOrder) - 1))
  PROVE  /\ IsFiniteSet(Firsts(ends))
         /\ \A i \in Firsts(ends) : i \in 1..Len(moveOrder) /\ LastOf(ends, i) \in i..Len(moveOrder)
         /\ \A j \in 1..Len(moveOrder) : \E i \in Firsts(ends) : j \in i..LastOf(ends, i)
<1> DEFINE n == Len(moveOrder)
           F == Firsts(ends)
<1>0. n \in Nat \ {0}
  OBVIOUS
<1> HIDE DEF n
<1>1. ends \subseteq 1..n /\ n \notin ends
  BY <1>0 DEF n
<1>2. F \subseteq 1..n /\ 1 \in F
  BY <1>0 DEF n, Firsts
<1>3. IsFiniteSet(1..n)
  BY <1>0, FS_Interval
<1>4. IsFiniteSet(F)
  BY <1>2, <1>3, FS_Subset
<1>5. ASSUME NEW i \in F
      PROVE  /\ i \in 1..n /\ LastOf(ends, i) \in i..n
             /\ LastOf(ends, i) \in ends \union {n}
  <2> DEFINE S == {j \in ends \union {n} : j >= i}
  <2>1. i \in 1..n
    BY <1>2
  <2>2. n \in S /\ S \subseteq 1..n /\ S \subseteq Int
    <3>1. n \in 1..n /\ n >= i /\ 1..n \subseteq Int
      BY <1>0, <2>1
    <3>2. ends \union {n} \subseteq 1..n
      BY <1>1, <3>1
    <3> QED BY <3>1, <3>2
  <2>3. IsFiniteSet(S)
    BY <1>3, <2>2, FS_Subset
  <2>4. LastOf(ends, i) = Min(S)
    BY DEF LastOf, n
  <2>5. Min(S) \in S
    <3> HIDE DEF S
    <3> QED BY <2>2, <2>3, SmallestElement
  <2>6. Min(S) \in 1..n /\ Min(S) >= i
    BY <2>2, <2>5
  <2> QED BY <1>0, <2>1, <2>4, <2>5, <2>6
<1>6. ASSUME NEW j \in 1..n PROVE \E i \in F : j \in i..LastOf(ends, i)
  <2> DEFINE S == {i \in F : i <= j}
             first == Max(S)
             last == LastOf(ends, first)
  <2>1. 1 \in S /\ S \subseteq F /\ S \subseteq 1..n /\ S \subseteq Int
    BY <1>0, <1>2
  <2>2. IsFiniteSet(S)
    BY <1>4, <2>1, FS_Subset
  <2>3. first \in S /\ \A x \in S : x <= first
    <3> HIDE DEF S
    <3> QED BY <2>1, <2>2, LargestElement
  <2>4. first \in F /\ first \in 1..n /\ first <= j
    BY <1>2, <2>3
  <2>5. last \in first..n /\ last \in ends \union {n}
    BY <1>5, <2>4
  <2>6. last >= j
    <3> SUFFICES ASSUME last < j PROVE FALSE
      BY <2>4, <2>5
    <3>1. last \in ends
      BY <1>0, <2>4, <2>5
    <3>2. last + 1 \in F
      BY <3>1 DEF Firsts
    <3>3. last + 1 \in S
      BY <1>0, <2>4, <2>5, <3>2
    <3> HIDE DEF last, S, first
    <3> QED BY <2>3, <2>4, <2>5, <3>3
  <2> HIDE DEF last, first
  <2>7. j \in first..last
    BY <1>0, <2>4, <2>5, <2>6
  <2> QED BY <2>4, <2>7 DEF last
<1> QED BY <1>4, <1>5, <1>6 DEF n

\* A finite set of candidates has one that is better than all others.
LEMMA BestExists ==
  ASSUME NEW S, IsFiniteSet(S), S # {}, S \subseteq Bests
  PROVE  \E p \in S : \A q \in S \ {p} : Better(p, q)
<1>0. \A p \in S : p.gain \in Int /\ p.heaviest \in Int /\ p.index \in Int
  BY DEF Bests
<1>00. \A p, q \in S : p.gain = q.gain /\ p.heaviest = q.heaviest /\ p.index = q.index => p = q
  BY DEF Bests
<1>1. PICK a \in S : \A q \in S : q.gain <= a.gain
  <2> DEFINE f == [x \in S |-> x.gain]
  <2>1. \A x \in S : f[x] = x.gain /\ f[x] \in Int
    BY <1>0
  <2> HIDE DEF f
  <2>2. \E m \in S : \A x \in S : f[x] <= f[m]
    BY <2>1, LargestValue
  <2> QED BY <2>1, <2>2
<1> DEFINE A == {q \in S : q.gain = a.gain}
<1>2. A # {} /\ IsFiniteSet(A) /\ A \subseteq S
  BY FS_Subset
<1>3. PICK b \in A : \A q \in A : q.heaviest >= b.heaviest
  <2> DEFINE f == [x \in A |-> 0 - x.heaviest]
  <2>1. \A x \in A : f[x] = 0 - x.heaviest /\ f[x] \in Int /\ x.heaviest \in Int
    BY <1>0
  <2> HIDE DEF f, A
  <2>2. \E m \in A : \A x \in A : f[x] <= f[m]
    BY <1>2, <2>1, LargestValue
  <2> QED BY <2>1, <2>2
<1> DEFINE B == {q \in A : q.heaviest = b.heaviest}
<1>4. B # {} /\ IsFiniteSet(B) /\ B \subseteq A
  <2> HIDE DEF A
  <2> QED BY <1>2, FS_Subset
<1>5. PICK c \in B : \A q \in B : q.index >= c.index
  <2> DEFINE f == [x \in B |-> 0 - x.index]
  <2>1. \A x \in B : f[x] = 0 - x.index /\ f[x] \in Int /\ x.index \in Int
    BY <1>0
  <2> HIDE DEF f, B
  <2>2. \E m \in B : \A x \in B : f[x] <= f[m]
    BY <1>4, <2>1, LargestValue
  <2> QED BY <2>1, <2>2
<1>6. c \in S /\ c.gain = a.gain /\ c.heaviest = b.heaviest
  OBVIOUS
<1>7. ASSUME NEW q \in S \ {c} PROVE Better(c, q)
  <2>0. /\ q.gain \in Int /\ q.heaviest \in Int /\ q.index \in Int /\ q.gain <= c.gain
        /\ c.gain \in Int /\ c.heaviest \in Int /\ c.index \in Int
    BY <1>0, <1>1, <1>6
  <2>1. CASE q.gain # a.gain
    BY <1>6, <2>0, <2>1 DEF Better
  <2>2. CASE q.gain = a.gain /\ q.heaviest # b.heaviest
    <3>1. q.heaviest >= c.heaviest
      BY <1>3, <1>6, <2>2
    <3> QED BY <1>6, <2>0, <2>2, <3>1 DEF Better
  <2>3. CASE q.gain = a.gain /\ q.heaviest = b.heaviest
    <3>1. q \in B
      BY <2>3
    <3>2. q.index >= c.index /\ q.index # c.index
      BY <1>00, <1>5, <1>6, <2>3, <3>1
    <3> QED BY <1>6, <2>0, <2>3, <3>2 DEF Better
  <2> QED BY <2>1, <2>2, <2>3
<1> QED BY <1>6, <1>7

-----------------------------------------------------------------------------
(* The prefix the rollback keeps *)

\* A prefix that is balanced unless it is empty; no balanced one has gained more.
Kept(p) ==
  /\ p.index \in 0..Len(moveOrder) /\ p.gain \in Int /\ p.gain >= 0
  /\ p.gain = Gained(p.index)
  /\ p.index # 0 => Balanced(p.index)
  /\ \A i \in 1..Len(moveOrder) : Balanced(i) => p.gain >= Gained(i)

\* Among equal gains the parallel scan keeps the prefix with the lightest heaviest block.
Lightest(p) ==
  \A i \in 1..Len(moveOrder) :
    Balanced(i) /\ Gained(i) = p.gain => PrefixWeight(p.index) <= PrefixWeight(i)

\* Weights of prefixes are numbers.
LEMMA PrefixWeightType ==
  ASSUME RollbackReady, moveOrder # <<>>, NEW k \in 0..Len(moveOrder)
  PROVE  PrefixWeight(k) \in Int /\ PrefixWeight(k) < Unset /\ Unset \in Int
<1>1. moveOrder \in Seq(Moves)
  BY DEF RollbackReady, MovesTypeOK
<1>2. 1 \in DOMAIN moveOrder
  BY <1>1
<1>3. Blocks # {}
  BY <1>2, MoveParts
<1>4. Prefix(k) \in [Nodes -> Blocks]
  BY PrefixClosed
<1> QED BY <1>3, <1>4, HeaviestType DEF PrefixWeight

\* What the parallel scan takes, however it is split.
LEMMA BestPrefixKept ==
  ASSUME RollbackReady, moveOrder # <<>>, NEW ends \in SUBSET (1..(Len(moveOrder) - 1))
  PROVE  Kept(BestPrefix(ends, RecalculatedGains)) /\ Lightest(BestPrefix(ends, RecalculatedGains))
<1> DEFINE n == Len(moveOrder)
           Found(i) == FinalScan(i, LastOf(ends, i), RecalculatedGains)
           bests == {Found(i) : i \in Firsts(ends)}
           initial == [gain |-> 0, index |-> 0, heaviest |-> Heaviest(BlockWeights(start))]
           all == {initial} \union {q \in bests : q.index # 0}
           p == BestPrefix(ends, RecalculatedGains)
<1>1. n \in Nat \ {0} /\ moveOrder \in Seq(Moves)
  BY DEF RollbackReady, MovesTypeOK
<1>2. p = CHOOSE q \in all : \A r \in all \ {q} : Better(q, r)
  BY DEF BestPrefix, Firsts, LastOf
<1>3. /\ IsFiniteSet(Firsts(ends))
      /\ \A i \in Firsts(ends) : i \in 1..n /\ LastOf(ends, i) \in i..n
      /\ \A j \in 1..n : \E i \in Firsts(ends) : j \in i..LastOf(ends, i)
  BY <1>1, RangesCover
<1>4. ASSUME NEW i \in Firsts(ends) PROVE BestOfRange(Found(i), i, LastOf(ends, i))
  BY <1>3, FinalScanBest
<1>5. initial.heaviest = PrefixWeight(0) /\ PrefixWeight(0) \in Int
  <2>1. 0 \in 0..n
    BY <1>1
  <2>2. Prefix(0) = start
    BY PrefixEnds
  <2> QED BY <2>1, <2>2, PrefixWeightType DEF PrefixWeight
<1>6. initial \in Bests
  BY <1>5 DEF Bests
<1> HIDE DEF initial
<1>7. bests \subseteq Bests /\ IsFiniteSet(bests)
  <2>1. bests \subseteq Bests
    BY <1>4 DEF BestOfRange
  <2> DEFINE F == Firsts(ends)
             f == [i \in F |-> Found(i)]
  <2>2. bests = {f[i] : i \in F} /\ f \in [F -> bests]
    OBVIOUS
  <2>3. IsFiniteSet(bests)
    <3> HIDE DEF f, bests, F
    <3>1. IsFiniteSet(F)
      BY <1>3 DEF F
    <3>2. f \in Surjection(F, bests)
      BY <2>2 DEF Surjection
    <3> QED BY <3>1, <3>2, FS_Surjection
  <2> QED BY <2>1, <2>3
<1> HIDE DEF bests
<1>8. all \subseteq Bests /\ IsFiniteSet(all) /\ all # {}
  <2>1. IsFiniteSet({initial}) /\ IsFiniteSet({q \in bests : q.index # 0})
    BY <1>7, FS_Subset, FS_Singleton
  <2>2. IsFiniteSet(all)
    BY <2>1, FS_Union
  <2> QED BY <1>6, <1>7, <2>2
<1>9. p \in all /\ \A r \in all \ {p} : Better(p, r)
  <2> HIDE DEF all, p
  <2>1. \E q \in all : \A r \in all \ {q} : Better(q, r)
    BY <1>8, BestExists
  <2> QED BY <1>2, <2>1
<1> HIDE DEF p, Found
<1>10. p \in Bests /\ p.gain \in Int /\ p.index \in Nat /\ p.heaviest \in Int
  BY <1>8, <1>9 DEF Bests
<1>11. ASSUME NEW r \in all
       PROVE  r \in Bests /\ (p.gain > r.gain \/ (p.gain = r.gain /\ p.heaviest <= r.heaviest))
  <2>1. r \in Bests /\ r.gain \in Int /\ r.heaviest \in Int
    BY <1>8, <1>11 DEF Bests
  <2>2. p = r \/ Better(p, r)
    BY <1>9, <1>11
  <2> QED BY <1>10, <2>1, <2>2 DEF Better
<1>12. /\ p.index \in 0..n /\ p.gain >= 0 /\ p.gain = Gained(p.index)
       /\ p.heaviest = PrefixWeight(p.index)
       /\ p.index # 0 => Balanced(p.index)
  <2>1. CASE p = initial
    <3>1. Gained(0) = 0
      BY <1>1, GainedIs
    <3> QED BY <1>1, <1>5, <2>1, <3>1 DEF initial
  <2>2. CASE p # initial
    <3>1. PICK i \in Firsts(ends) : p = Found(i) /\ p.index # 0
      BY <1>9, <2>2 DEF bests
    <3>2. BestOfRange(p, i, LastOf(ends, i))
      BY <1>4, <3>1
    <3>3. /\ p.gain >= 0 /\ p.index \in i..LastOf(ends, i) /\ Balanced(p.index)
          /\ p.gain = Gained(p.index) /\ p.heaviest = PrefixWeight(p.index)
      BY <3>1, <3>2 DEF BestOfRange
    <3>4. p.index \in 0..n
      BY <1>1, <1>3, <1>10, <3>3
    <3> QED BY <3>3, <3>4
  <2> QED BY <2>1, <2>2
<1>13. ASSUME NEW i \in 1..n, IsValid(moveOrder[i]), Balanced(i) PROVE AtLeastAsGood(p, i)
  <2>1. Gained(i) \in Int /\ PrefixWeight(i) \in Int /\ PrefixWeight(i) < Unset /\ Unset \in Int
    <3>1. i \in 0..n
      BY <1>1
    <3> QED BY <3>1, GainedIs, PrefixWeightType
  <2>2. CASE Gained(i) < 0
    BY <1>10, <1>12, <2>1, <2>2 DEF AtLeastAsGood
  <2>3. CASE Gained(i) >= 0
    <3>1. PICK k \in Firsts(ends) : i \in k..LastOf(ends, k)
      BY <1>3
    <3> DEFINE b == Found(k)
    <3>2. BestOfRange(b, k, LastOf(ends, k))
      BY <1>4
    <3>3. AtLeastAsGood(b, i)
      BY <1>13, <2>3, <3>1, <3>2 DEF BestOfRange
    <3> HIDE DEF b
    <3>4. b \in Bests /\ b.gain \in Int /\ b.heaviest \in Int
      BY <3>2 DEF BestOfRange, Bests
    <3>5. b.index # 0
      <4> SUFFICES ASSUME b.index = 0 PROVE FALSE
        OBVIOUS
      <4>1. k \in 1..n
        BY <1>3
      <4>2. b.index \notin k..LastOf(ends, k)
        BY <4>1
      <4>3. b.gain = 0 /\ b.heaviest = Unset
        BY <3>2, <4>2 DEF BestOfRange
      <4> QED BY <2>1, <2>3, <3>3, <4>3 DEF AtLeastAsGood
    <3>6. b \in all
      BY <3>5 DEF bests, b
    <3>7. p.gain > b.gain \/ (p.gain = b.gain /\ p.heaviest <= b.heaviest)
      BY <1>11, <3>6
    <3> QED BY <1>10, <2>1, <3>3, <3>4, <3>7 DEF AtLeastAsGood
  <2> QED BY <2>1, <2>2, <2>3
<1> DEFINE Q == {i \in 0..n : Balanced(i) => AtLeastAsGood(p, i)}
<1>14. 0 \in Q
  <2>1. p.gain > initial.gain \/ (p.gain = initial.gain /\ p.heaviest <= initial.heaviest)
    BY <1>11
  <2>2. initial.gain = 0 /\ Gained(0) = 0
    BY <1>1, GainedIs DEF initial
  <2> QED BY <1>1, <1>5, <2>1, <2>2 DEF AtLeastAsGood
<1>15. ASSUME NEW i \in 1..n, i - 1 \in Q PROVE i \in Q
  <2>0. i \in 0..n
    BY <1>1
  <2>1. CASE IsValid(moveOrder[i])
    BY <1>13, <2>0, <2>1
  <2>2. CASE ~IsValid(moveOrder[i])
    <3>1. Prefix(i) = ApplyMove(Prefix(i - 1), moveOrder[i])
      BY PrefixStep DEF RollbackReady
    <3>2. Prefix(i) = Prefix(i - 1)
      BY <2>2, <3>1 DEF ApplyMove
    <3>3. Gained(i) = Gained(i - 1) /\ PrefixWeight(i) = PrefixWeight(i - 1) /\ (Balanced(i) <=> Balanced(i - 1))
      BY <3>2 DEF Gained, Prefix, PrefixWeight, Balanced
    <3>4. Balanced(i - 1) => AtLeastAsGood(p, i - 1)
      BY <1>15
    <3>5. Balanced(i) => AtLeastAsGood(p, i)
      BY <3>3, <3>4 DEF AtLeastAsGood
    <3>6. i \in 0..n
      BY <1>1
    <3> QED BY <3>5, <3>6
  <2> QED BY <2>1, <2>2
<1>16. \A i \in 0..n : i \in Q
  <2> HIDE DEF Q
  <2> QED BY <1>1, <1>14, <1>15, RangeInduction
<1>17. ASSUME NEW i \in 1..n, Balanced(i)
       PROVE  p.gain >= Gained(i) /\ (Gained(i) = p.gain => PrefixWeight(p.index) <= PrefixWeight(i))
  <2>1. i \in 0..n
    BY <1>1
  <2>2. AtLeastAsGood(p, i)
    BY <1>16, <1>17, <2>1
  <2>3. Gained(i) \in Int /\ PrefixWeight(i) \in Int
    BY <2>1, GainedIs, PrefixWeightType
  <2> QED BY <1>10, <1>12, <2>2, <2>3 DEF AtLeastAsGood
<1> QED BY <1>10, <1>12, <1>17 DEF Kept, Lightest, p

\* What the scan that rolls forward takes.
Runs == [gain : Int, index : Nat, heaviest : {0}]
RunOK(p, k) ==
  /\ p \in Runs /\ p.gain >= 0 /\ p.index \in 0..k /\ p.gain = Gained(p.index)
  /\ p.index # 0 => Balanced(p.index)
  /\ \A i \in 1..k : Balanced(i) => p.gain >= Gained(i)

\* It takes the next move.
LEMMA ForwardStepRun ==
  ASSUME RollbackReady, NEW k \in DOMAIN moveOrder, NEW p, RunOK(p, k - 1)
  PROVE  RunOK(ForwardStep(p, k), k)
<1> DEFINE r == ForwardStep(p, k)
           better == IsValid(moveOrder[k]) /\ Balanced(k) /\ Gained(k) > p.gain
<1>1. MovesTypeOK /\ k \in 1..Len(moveOrder) /\ k \in Nat
  BY DEF RollbackReady, MovesTypeOK
<1>2. /\ p \in Runs /\ p.gain >= 0 /\ p.index \in 0..(k - 1) /\ p.gain = Gained(p.index)
      /\ p.gain \in Int
  BY DEF RunOK, Runs
<1>3. p.index # 0 => Balanced(p.index)
  BY DEF RunOK
<1>4. \A i \in 1..(k - 1) : Balanced(i) => p.gain >= Gained(i)
  BY DEF RunOK
<1>5. Gained(k) \in Int /\ Gained(k - 1) \in Int
  BY GainsAreDifferences
<1>6. r = IF better THEN [gain |-> Gained(k), index |-> k, heaviest |-> 0] ELSE p
  BY DEF ForwardStep, Balanced, Prefix
<1>7. \A i \in 1..k : i \in 1..(k - 1) \/ i = k
  BY <1>1
<1>8. \A i \in 1..(k - 1) : Gained(i) \in Int
  <2> TAKE i \in 1..(k - 1)
  <2>1. i \in 0..Len(moveOrder)
    BY <1>1
  <2> QED BY <2>1, GainedIs
<1> HIDE DEF r
<1>9. CASE better
  <2>1. /\ r = [gain |-> Gained(k), index |-> k, heaviest |-> 0]
        /\ r.gain = Gained(k) /\ r.index = k /\ Gained(k) > p.gain /\ Balanced(k)
    BY <1>6, <1>9
  <2>2. r \in Runs /\ r.gain >= 0 /\ r.index \in 0..k
    BY <1>1, <1>2, <1>5, <2>1 DEF Runs
  <2>3. \A i \in 1..k : Balanced(i) => r.gain >= Gained(i)
    BY <1>2, <1>4, <1>5, <1>7, <1>8, <2>1
  <2>4. r.gain = Gained(r.index) /\ (r.index # 0 => Balanced(r.index))
    BY <2>1
  <2> QED BY <2>2, <2>3, <2>4 DEF RunOK, r
<1>10. CASE ~better
  <2>1. r = p
    BY <1>6, <1>10
  <2>2. Balanced(k) => p.gain >= Gained(k)
    <3>1. CASE IsValid(moveOrder[k])
      BY <1>2, <1>5, <1>10, <3>1
    <3>2. CASE ~IsValid(moveOrder[k])
      <4>1. Prefix(k) = ApplyMove(Prefix(k - 1), moveOrder[k])
        BY <1>1, PrefixStep
      <4>2. Prefix(k) = Prefix(k - 1)
        BY <3>2, <4>1 DEF ApplyMove
      <4>3. Gained(k) = Gained(k - 1) /\ (Balanced(k) <=> Balanced(k - 1))
        BY <4>2 DEF Gained, Prefix, Balanced
      <4>4. CASE k - 1 \in 1..(k - 1)
        BY <1>4, <4>3, <4>4
      <4>5. CASE k - 1 \notin 1..(k - 1)
        <5>1. k - 1 = 0
          BY <1>1, <4>5
        <5>2. Gained(0) = 0
          BY <1>1, GainedIs
        <5> QED BY <1>2, <4>3, <5>1, <5>2
      <4> QED BY <4>4, <4>5
    <3> QED BY <3>1, <3>2
  <2>3. \A i \in 1..k : Balanced(i) => p.gain >= Gained(i)
    BY <1>4, <1>7, <2>2
  <2>4. p.index \in 0..k
    BY <1>1, <1>2
  <2>5. RunOK(p, k)
    BY <1>2, <1>3, <2>3, <2>4 DEF RunOK
  <2> QED BY <2>1, <2>5 DEF r
<1> QED BY <1>9, <1>10

\* The sequential scan keeps the first prefix with the largest gain.
LEMMA BestPrefixSequentialKept ==
  ASSUME RollbackReady
  PROVE  Kept(BestPrefixSequential)
<1> DEFINE n == Len(moveOrder)
           s == [i \in DOMAIN moveOrder |-> i]
           base == [gain |-> 0, index |-> 0, heaviest |-> 0]
<1>1. n \in Nat /\ DOMAIN moveOrder = 1..n /\ DOMAIN s = 1..n /\ \A k \in 1..n : s[k] = k
  BY DEF RollbackReady, MovesTypeOK
<1>2. base \in Runs /\ RunOK(base, 0)
  <2>1. Gained(0) = 0
    BY <1>1, GainedIs
  <2>2. base \in Runs
    BY DEF Runs
  <2>3. \A i \in 1..0 : FALSE
    OBVIOUS
  <2> QED BY <2>1, <2>2, <2>3 DEF RunOK
<1>3. BestPrefixSequential = ForwardSteps(base, s)
  BY SequentialIs
<1> HIDE DEF base, s, n
<1>4. ForwardStays(Runs, s)
  <2>1. ASSUME NEW k \in 1..n, NEW x \in Runs PROVE ForwardStep(x, k) \in Runs
    <3>1. Gained(k) \in Int /\ k \in Nat
      BY <1>1, GainsAreDifferences
    <3> QED BY <3>1 DEF ForwardStep, Runs
  <2> QED BY <1>1, <2>1 DEF ForwardStays
<1>5. PICK g : ForwardTrace(g, n, Runs, base, s) /\ ForwardSteps(base, s) = g[n]
  BY <1>1, <1>2, <1>4, ForwardLoop
<1>6. g[0] = base /\ \A k \in 1..n : g[k] = ForwardStep(g[k - 1], k)
  BY <1>1, <1>5 DEF ForwardTrace
<1> DEFINE Q == {k \in 0..n : RunOK(g[k], k)}
<1>7. 0 \in Q
  BY <1>1, <1>2, <1>6
<1>8. ASSUME NEW k \in 1..n, k - 1 \in Q PROVE k \in Q
  <2>1. RunOK(g[k - 1], k - 1) /\ k \in DOMAIN moveOrder
    BY <1>1, <1>8
  <2>2. RunOK(ForwardStep(g[k - 1], k), k)
    BY <2>1, ForwardStepRun
  <2>3. k \in 0..n
    BY <1>1
  <2> QED BY <1>6, <2>2, <2>3
<1>9. n \in Q
  <2> HIDE DEF Q
  <2>1. \A k \in 0..n : k \in Q
    BY <1>1, <1>7, <1>8, RangeInduction
  <2> QED BY <1>1, <2>1
<1>10. RunOK(BestPrefixSequential, n)
  BY <1>3, <1>5, <1>9
<1> QED BY <1>10 DEF RunOK, Runs, Kept, n

\* To revert the moves after a prefix restores the partition after it.
LEMMA RevertedIs ==
  ASSUME RollbackReady, NEW k \in 0..Len(moveOrder)
  PROVE  Reverted(k) = Prefix(k)
<1> DEFINE n == Len(moveOrder)
<1>1. MovesTypeOK /\ SequenceOK /\ n \in Nat /\ DOMAIN moveOrder = 1..n /\ firstMoveID \in Nat
  BY DEF RollbackReady, MovesTypeOK
<1>2. Prefix(k) \in [Nodes -> Blocks] /\ Prefix(n) = part
  BY PrefixClosed, PrefixEnds
<1> HIDE DEF n
<1>3. ASSUME NEW u \in Nodes PROVE Reverted(k)[u] = Prefix(k)[u]
  <2> DEFINE after == \E i \in DOMAIN moveOrder : i > k /\ moveOrder[i].node = u /\ IsValid(moveOrder[i])
             its == CHOOSE m \in Range(moveOrder) : m.node = u /\ IsValid(m)
  <2>1. Reverted(k)[u] = IF after THEN its.from ELSE part[u]
    BY DEF Reverted
  <2>2. CASE ~WasNodeMovedInThisRound(u)
    <3>1. ~MovedIn(moveOrder, u)
      BY <1>1, <2>2, TrackerFinds
    <3>2. ~after
      BY <3>1 DEF MovedIn
    <3>3. Prefix(k)[u] = part[u]
      BY <2>2, PrefixClosed
    <3> QED BY <2>1, <3>2, <3>3
  <2>3. CASE WasNodeMovedInThisRound(u)
    <3> DEFINE j == moveOfNode[u] - firstMoveID + 1
    <3>1. /\ GetMove(u).node = u /\ IsValid(GetMove(u)) /\ j \in DOMAIN moveOrder
          /\ \A i \in DOMAIN moveOrder : IsValid(moveOrder[i]) => GetMove(moveOrder[i].node) = moveOrder[i]
      BY <1>1, <2>3, TrackerFinds
    <3>2. GetMove(u) = moveOrder[j]
      BY DEF GetMove
    <3>3. moveOfNode[u] \in Int
      BY <2>3, PrefixClosed
    <3>4. its = GetMove(u)
      <4>1. GetMove(u) \in Range(moveOrder)
        BY <3>1, <3>2 DEF Range
      <4>2. ASSUME NEW m \in Range(moveOrder), m.node = u, IsValid(m) PROVE m = GetMove(u)
        <5>1. PICK i \in DOMAIN moveOrder : m = moveOrder[i]
          BY DEF Range
        <5> QED BY <3>1, <4>2, <5>1
      <4> QED BY <3>1, <4>1, <4>2
    <3>5. CASE j > k
      <4>1. after
        BY <3>1, <3>2, <3>5
      <4>2. moveOfNode[u] > firstMoveID - 1 + k
        BY <1>1, <3>3, <3>5
      <4>3. Prefix(k)[u] = GetMove(u).from
        BY <2>3, <4>2, PrefixClosed
      <4> QED BY <2>1, <3>4, <4>1, <4>3
    <3>6. CASE ~(j > k)
      <4>1. ~after
        <5> SUFFICES ASSUME NEW i \in DOMAIN moveOrder, i > k, moveOrder[i].node = u PROVE FALSE
          OBVIOUS
        <5>1. i = j
          BY <1>1, <3>1, <3>2 DEF SequenceOK, OncePerNode
        <5> QED BY <3>6, <5>1
      <4>2. moveOfNode[u] <= firstMoveID - 1 + k
        BY <1>1, <3>3, <3>6
      <4>3. Prefix(k)[u] = GetMove(u).to
        BY <2>3, <4>2, PrefixClosed
      <4>4. moveOfNode[u] <= firstMoveID - 1 + n /\ n \in 0..Len(moveOrder)
        BY <1>1, <3>1, <3>3 DEF n
      <4>5. Prefix(n)[u] = GetMove(u).to
        BY <2>3, <4>4, PrefixClosed
      <4> QED BY <1>2, <2>1, <4>1, <4>3, <4>5
    <3> QED BY <3>5, <3>6
  <2> QED BY <2>2, <2>3
<1> QED BY <1>2, <1>3 DEF Reverted

-----------------------------------------------------------------------------
(* What the rollback guarantees *)

\* A round whose moves are complete is ready for it.
LEMMA RollbackIsReady == MovesInv /\ phase = "rollback" => RollbackReady
BY DEF MovesInv, RollbackReady

\* The rollback keeps a best prefix.
LEMMA RollbackKeeps ==
  ASSUME RollbackReady, RevertToBestPrefix
  PROVE  \E p : Kept(p) /\ (context.parallel => Lightest(p)) /\ RevertTo(p)
<1>0. Len(moveOrder) \in Nat
  BY DEF RollbackReady, MovesTypeOK
<1>1. CASE context.parallel /\ moveOrder = <<>> /\ RevertTo([gain |-> 0, index |-> 0, heaviest |-> 0])
  <2> DEFINE p == [gain |-> 0, index |-> 0, heaviest |-> 0]
  <2>1. Len(moveOrder) = 0 /\ Gained(0) = 0
    BY <1>0, <1>1, GainedIs
  <2>2. \A i \in 1..Len(moveOrder) : FALSE
    BY <2>1
  <2>3. Kept(p) /\ Lightest(p)
    BY <2>1, <2>2 DEF Kept, Lightest
  <2> QED BY <1>1, <2>3
<1>2. CASE /\ context.parallel /\ moveOrder # <<>>
           /\ \E ends \in SUBSET (1..(Len(moveOrder) - 1)) : RevertTo(BestPrefix(ends, RecalculatedGains))
  <2>1. PICK ends \in SUBSET (1..(Len(moveOrder) - 1)) : RevertTo(BestPrefix(ends, RecalculatedGains))
    BY <1>2
  <2>2. Kept(BestPrefix(ends, RecalculatedGains)) /\ Lightest(BestPrefix(ends, RecalculatedGains))
    BY <1>2, BestPrefixKept
  <2> QED BY <2>1, <2>2
<1>3. CASE ~context.parallel /\ RevertTo(BestPrefixSequential)
  <2>1. ~context.parallel
    BY <1>3
  <2>2. Kept(BestPrefixSequential)
    BY BestPrefixSequentialKept
  <2> QED BY <1>3, <2>1, <2>2
<1> QED BY <1>1, <1>2, <1>3 DEF RevertToBestPrefix, RecalculatedGains

\* The partition after it, and its quality.
LEMMA RollbackResult ==
  ASSUME RollbackReady, NEW p, Kept(p), RevertTo(p)
  PROVE  /\ part' = Prefix(p.index) /\ quality' = quality - p.gain
         /\ p.gain = Km1(start) - Km1(part')
         /\ Km1(start) \in Int /\ Km1(part') \in Int /\ p.gain >= 0
         /\ phase' \in {"init", "done"}
<1>1. p.index \in 0..Len(moveOrder) /\ p.gain = Gained(p.index) /\ p.gain >= 0
  BY DEF Kept
<1>2. part' = Reverted(p.index) /\ quality' = quality - p.gain /\ phase' \in {"init", "done"}
  BY DEF RevertTo, NextRound
<1>3. part' = Prefix(p.index)
  BY <1>1, <1>2, RevertedIs
<1>4. Gained(p.index) = Km1(start) - Km1(Prefix(p.index)) /\ Km1(start) \in Int /\ Km1(Prefix(p.index)) \in Int
  BY <1>1, GainedIs
<1> QED BY <1>1, <1>2, <1>3, <1>4

\* The gains that recalculateGainForHyperedge attributes to the moves are exact.  For every
\* hypergraph, net weights, sequence of moves and number of searches: the recomputed gain of
\* a move is by how much the km1 objective falls when it is applied after all moves before it.
THEOREM RecalculatedGainsAreExact == Spec => []RecalculatedGainsExact
<1>1. MovesInv => RecalculatedGainsExact
  BY RollbackIsReady, GainsAreDifferences DEF RecalculatedGainsExact
<1> QED BY <1>1, MovesInvariant, PTL

\* The rollback of all hypergraphs, however the parallel scan is split: it ends with a balanced
\* prefix of the moves or where the round began, no balanced prefix has a better objective,
\* the objective is not worse than before, and the parallel one breaks ties by the weight of
\* the heaviest block.
THEOREM RollbackTakesTheBestPrefix == Spec => RollbackTakesBestPrefix
<1>1. ASSUME MovesInv, Next, phase = "rollback"
      PROVE  /\ Overloaded(BlockWeights(part')) # {} => part' = start
             /\ \A i \in DOMAIN moveOrder :
                  Balanced(i) =>
                    \/ Km1(part') < Km1(Prefix(i))
                    \/ Km1(part') = Km1(Prefix(i)) /\ (context.parallel =>
                         Heaviest(BlockWeights(part')) <= Heaviest(BlockWeights(Prefix(i))))
             /\ Km1(part') <= Km1(start)
  <2>1. RevertToBestPrefix
    BY <1>1 DEF Next, BeginRound, Search, FinishSearch, Rebalance, InterleaveMoves, Refined
  <2>2. RollbackReady
    BY <1>1, RollbackIsReady
  <2>3. PICK p : Kept(p) /\ (context.parallel => Lightest(p)) /\ RevertTo(p)
    BY <2>1, <2>2, RollbackKeeps
  <2>4. /\ part' = Prefix(p.index) /\ p.gain = Km1(start) - Km1(part')
        /\ Km1(start) \in Int /\ Km1(part') \in Int /\ p.gain >= 0
    BY <2>2, <2>3, RollbackResult
  <2>5. Overloaded(BlockWeights(part')) # {} => part' = start
    <3>1. CASE p.index = 0
      BY <2>2, <2>4, <3>1, PrefixEnds
    <3>2. CASE p.index # 0
      BY <2>3, <2>4, <3>2 DEF Kept, Balanced
    <3> QED BY <3>1, <3>2
  <2>6. ASSUME NEW i \in DOMAIN moveOrder, Balanced(i)
        PROVE  \/ Km1(part') < Km1(Prefix(i))
               \/ Km1(part') = Km1(Prefix(i)) /\ (context.parallel =>
                    Heaviest(BlockWeights(part')) <= Heaviest(BlockWeights(Prefix(i))))
    <3>1. i \in 1..Len(moveOrder) /\ i \in 0..Len(moveOrder)
      BY <2>2 DEF RollbackReady, MovesTypeOK
    <3>2. Gained(i) = Km1(start) - Km1(Prefix(i)) /\ Km1(Prefix(i)) \in Int
      BY <2>2, <3>1, GainedIs
    <3>3. p.gain >= Gained(i)
      BY <2>3, <2>6, <3>1 DEF Kept
    <3>4. context.parallel /\ Gained(i) = p.gain => PrefixWeight(p.index) <= PrefixWeight(i)
      BY <2>3, <2>6, <3>1 DEF Lightest
    <3>5. Km1(part') < Km1(Prefix(i)) \/ (Km1(part') = Km1(Prefix(i)) /\ Gained(i) = p.gain)
      BY <2>4, <3>2, <3>3
    <3> QED BY <2>4, <3>4, <3>5 DEF PrefixWeight
  <2>7. Km1(part') <= Km1(start)
    BY <2>4
  <2> QED BY <2>5, <2>6, <2>7
<1>2. MovesInv /\ [Next]_vars =>
        [phase = "rollback" =>
          /\ Overloaded(BlockWeights(part')) # {} => part' = start
          /\ \A i \in DOMAIN moveOrder :
               LET parts == ApplyMoves(start, SubSeq(moveOrder, 1, i)) IN
               Overloaded(BlockWeights(parts)) = {} =>
                 \/ Km1(part') < Km1(parts)
                 \/ Km1(part') = Km1(parts) /\ (context.parallel =>
                      Heaviest(BlockWeights(part')) <= Heaviest(BlockWeights(parts)))
          /\ Km1(part') <= Km1(start)]_vars
  BY <1>1 DEF Balanced, Prefix
<1> QED BY <1>2, MovesInvariant, PTL DEF Spec, RollbackTakesBestPrefix

\* Between rounds the accumulated quality is that of the partition, within one it is that of
\* the partition the round began with.
QualityInv ==
  /\ phase \in {"init", "done"} => quality = Km1(part)
  /\ phase \in {"search", "rebalance", "interleave", "rollback"} => quality = Km1(start)

\* refineImpl reports the exact objective.  For every hypergraph and sequence of rounds: the
\* quality that is updated by the gain of the best prefix of each round, attributed or
\* recomputed, is the objective of the partition the rollback leaves.
THEOREM QualityIsAccounted == Spec => []QualityAccounted
<1>1. Init => QualityInv
  BY DEF Init, QualityInv
<1>2. ASSUME MovesInv, QualityInv, [Next]_vars PROVE QualityInv'
  <2>1. CASE BeginRound
    BY <1>2, <2>1 DEF BeginRound, QualityInv
  <2>2. ASSUME NEW t \in Tasks, Search(t) PROVE QualityInv'
    <3>1. phase = "search" /\ UNCHANGED <<phase, start, quality>>
      BY <2>2 DEF Search, roundVars
    <3> QED BY <1>2, <3>1 DEF QualityInv
  <2>3. CASE FinishSearch
    BY <1>2, <2>3 DEF FinishSearch, QualityInv
  <2>4. CASE Rebalance
    <3>1. phase = "rebalance" /\ phase' = "interleave" /\ UNCHANGED <<start, quality>>
      BY <2>4 DEF Rebalance
    <3> QED BY <1>2, <3>1 DEF QualityInv
  <2>5. CASE InterleaveMoves
    <3>1. phase = "interleave" /\ phase' = "rollback" /\ UNCHANGED <<start, quality>>
      BY <2>5 DEF InterleaveMoves
    <3> QED BY <1>2, <3>1 DEF QualityInv
  <2>6. CASE RevertToBestPrefix
    <3>1. phase = "rollback" /\ RollbackReady
      BY <1>2, <2>6, RollbackIsReady DEF RevertToBestPrefix
    <3>2. PICK p : Kept(p) /\ RevertTo(p)
      BY <2>6, <3>1, RollbackKeeps
    <3>3. /\ quality' = quality - p.gain /\ p.gain = Km1(start) - Km1(part')
          /\ Km1(start) \in Int /\ Km1(part') \in Int /\ phase' \in {"init", "done"}
      BY <3>1, <3>2, RollbackResult
    <3>4. quality = Km1(start)
      BY <1>2, <3>1 DEF QualityInv
    <3>5. quality' = Km1(part')
      BY <3>3, <3>4
    <3> QED BY <3>3, <3>5 DEF QualityInv
  <2>7. CASE UNCHANGED vars
    <3>1. UNCHANGED <<phase, part, start, quality>>
      BY <2>7 DEF vars, searchVars, roundVars
    <3> QED BY <1>2, <3>1 DEF QualityInv
  <2> QED BY <1>2, <2>1, <2>2, <2>3, <2>4, <2>5, <2>6, <2>7 DEF Next, Refined
<1>3. QualityInv => QualityAccounted
  BY DEF QualityInv, QualityAccounted
<1>4. Spec => []QualityInv
  BY <1>1, <1>2, MovesInvariant, PTL DEF Spec
<1> QED BY <1>3, <1>4, PTL
=============================================================================
