------------------------------ MODULE FMSearch ------------------------------
(***************************************************************************)
(* Localized k-way FM searches (refinement/fm/localized_kway_fm_core.cpp,  *)
(* fm_commons.h, strategies/local_*_strategy.h, parallel/work_stack.h).    *)
(*                                                                         *)
(* A task starts searches until there are no seed nodes left.  A search    *)
(* owns the nodes in its priority queue; it moves them in a copy of the    *)
(* partition of its own and applies its moves to the shared partition when *)
(* they are an improvement.  A node that was taken from a queue is locked  *)
(* until the end of the round.                                             *)
(*                                                                         *)
(* Gains come from a cache that other searches change at the same time, so *)
(* the order of a queue, the target block among the feasible ones, whether *)
(* a sequence of moves improves and the adaptive stopping rule are free    *)
(* choices.  changeNodePart is one step here (PartitionedHypergraph has    *)
(* its steps); the weight of a block is the weight of its nodes.           *)
(***************************************************************************)
EXTENDS Integers, Sequences, FiniteSets, FiniteSetsExt, SequencesExt

CONSTANTS
  Nodes, Edges, Blocks, Pins, EdgeWeight, NodeWeight, MaxPartWeight,
  HighDegree,           \* nodes with at least HIGH_DEGREE_THRESHOLD nets
  NumTasks,             \* parallel::total_number_of_threads()
  NumSeeds,             \* context.refinement.fm.num_seed_nodes
  FinishedTasksLimit,   \* sharedData.finishedTasksLimit
  MaxSearchID,          \* largest SearchID
  MaxMoveID,            \* largest MoveID
  Slack                 \* ids that are kept in reserve (20 in the code)

Tasks == 1..NumTasks
NoBlock == -1           \* kInvalidPartition
Moves == [node : Nodes, from : Blocks \union {NoBlock}, to : Blocks]

\* The slack has to cover the searches of tasks that find no seed node any more.
ASSUME FMAssumption ==
  /\ IsFiniteSet(Nodes) /\ IsFiniteSet(Edges) /\ HighDegree \subseteq Nodes
  /\ Pins \in [Edges -> SUBSET Nodes] /\ EdgeWeight \in [Edges -> Nat]
  /\ NodeWeight \in [Nodes -> Nat] /\ MaxPartWeight \in [Blocks -> Nat]
  /\ IsFiniteSet(Blocks) /\ Blocks = 0..(Cardinality(Blocks) - 1)
  /\ NumTasks \in Nat \ {0} /\ NumSeeds \in Nat \ {0} /\ FinishedTasksLimit \in Nat \ {0}
  /\ Slack \in Nat /\ NumTasks <= Slack + 1
  /\ MaxSearchID \in Nat /\ MaxSearchID > Cardinality(Nodes) + Slack + 2
  /\ MaxMoveID \in Nat /\ MaxMoveID > Cardinality(Nodes) + Slack

VARIABLES
  fixed,          \* nodes that are fixed to their block
  part,           \* blocks of the nodes in the shared partition
  searchOfNode,   \* NodeTracker
  highestID,      \* highestActiveSearchID
  deactivated,    \* deactivatedNodeMarker
  refinementNodes,\* seed nodes that are still in the work container
  moveOrder,      \* GlobalMoveTracker: moves of the round
  moveOfNode,
  firstMoveID,
  finishedTasks,
  release_nodes,
  unconstrained,  \* which strategy the round uses
  pc,             \* next step of each task
  search,         \* thisSearch
  queue,          \* vertexPQs: nodes with the block they were inserted for
  released,       \* the entries of the queue that a search that stops has released
  localMoves,
  move,           \* the move that findNextMove returned
  nets            \* edgesWithGainChanges

trackerVars == <<searchOfNode, highestID, deactivated>>
moveVars    == <<moveOrder, moveOfNode, firstMoveID>>
taskVars    == <<pc, search, queue, released, localMoves, move, nets>>
searchVars  == <<fixed, part, trackerVars, refinementNodes, moveVars, finishedTasks, release_nodes,
                 unconstrained, taskVars>>

IncidentEdges(u) == {e \in Edges : u \in Pins[e]}
BlockWeight(parts, b) == MapThenSumSet(LAMBDA u : NodeWeight[u], {u \in Nodes : parts[u] = b})

\* Blocks after the moves of a sequence; a move without a source was invalidated.
IsValid(m) == m.from # NoBlock
ApplyMoves(parts, s) ==
  FoldLeft(LAMBDA p, m : IF IsValid(m) THEN [p EXCEPT ![m.node] = m.to] ELSE p, parts, s)

\* GlobalMoveTracker: runningMoveID, and whether the id of a node is one of this round.
RunningMoveID == firstMoveID + Len(moveOrder)
GetMove(u) == moveOrder[moveOfNode[u] - firstMoveID + 1]
WasNodeMovedInThisRound(u) ==
  /\ moveOfNode[u] >= firstMoveID /\ moveOfNode[u] < RunningMoveID
  /\ IsValid(GetMove(u))

NoMove == [node |-> CHOOSE u \in Nodes : TRUE, from |-> NoBlock, to |-> NoBlock]

-----------------------------------------------------------------------------
(* NodeTracker *)

ReleasedMarker == deactivated - 1
IsSearchInactive(id) == id < deactivated
Free == {u \in Nodes : IsSearchInactive(searchOfNode[u])}

\* ++highestActiveSearchID on an unsigned integer
NextID(id) == (id + 1) % (MaxSearchID + 1)

-----------------------------------------------------------------------------
Goto(t, step) == pc' = [pc EXCEPT ![t] = step]
At(t, step) == pc[t] = step

\* dispatchedFindMoves: a new search has an id of its own and no moves.
StartSearch(t) ==
  /\ highestID' = NextID(highestID)
  /\ search' = [search EXCEPT ![t] = NextID(highestID)]
  /\ localMoves' = [localMoves EXCEPT ![t] = <<>>]

FinishTask(t) ==
  /\ Goto(t, "finished")
  /\ finishedTasks' = finishedTasks + 1

\* The loop of a task goes on with another search unless enough tasks are finished.
TaskLoop(t) ==
  \/ /\ finishedTasks < FinishedTasksLimit
     /\ StartSearch(t) /\ Goto(t, "seed") /\ UNCHANGED finishedTasks
  \/ /\ finishedTasks >= FinishedTasksLimit
     /\ FinishTask(t)
     /\ localMoves' = [localMoves EXCEPT ![t] = <<>>]
     /\ UNCHANGED <<highestID, search>>

-----------------------------------------------------------------------------
(* Faulty variants of the definitions below. *)

\* A node is taken whatever search it belongs to, unless it is locked.
TryAcquireIgnoresOwner(u) == searchOfNode[u] # deactivated

\* A search without seeds does not end the task.
NoMoreSeedsRestart(t) ==
  /\ At(t, "seed") /\ refinementNodes = {}
  /\ \/ queue[t] # {} /\ Goto(t, "find") /\ UNCHANGED <<finishedTasks, highestID, search, localMoves>>
     \/ queue[t] = {} /\ TaskLoop(t)
  /\ UNCHANGED <<part, searchOfNode, deactivated, refinementNodes, moveVars, release_nodes,
                 unconstrained, queue, released, move, nets>>

-----------------------------------------------------------------------------
(* findMoves *)

BeginTask(t) ==
  /\ At(t, "start")
  /\ TaskLoop(t)
  /\ UNCHANGED <<part, searchOfNode, deactivated, refinementNodes, moveVars, release_nodes,
                 unconstrained, queue, released, move, nets>>

\* tryAcquireNode: the load and the compare-and-swap.
TryAcquire(u) == u \in Free

\* try_pop, from the own queue or stolen; insertIntoPQ if the node can be acquired.
PopSeed(t) ==
  /\ At(t, "seed")
  /\ \E u \in refinementNodes :
       /\ refinementNodes' = refinementNodes \ {u}
       /\ \/ /\ TryAcquire(u)
             /\ searchOfNode' = [searchOfNode EXCEPT ![u] = search[t]]
             /\ queue' = [queue EXCEPT ![t] = @ \union {<<u, part[u]>>}]
             /\ Goto(t, IF Cardinality(queue[t]) + 1 = NumSeeds THEN "find" ELSE "seed")
          \/ ~TryAcquire(u) /\ UNCHANGED <<searchOfNode, queue, pc>>
  /\ UNCHANGED <<part, highestID, deactivated, moveVars, finishedTasks, release_nodes,
                 unconstrained, search, released, localMoves, move, nets>>

\* There are no more seeds; a search without any ends the task.
NoMoreSeeds(t) ==
  /\ At(t, "seed") /\ refinementNodes = {}
  /\ \/ queue[t] # {} /\ Goto(t, "find") /\ UNCHANGED finishedTasks
     \/ queue[t] = {} /\ FinishTask(t)
  /\ UNCHANGED <<part, trackerVars, refinementNodes, moveVars, release_nodes, unconstrained,
                 search, queue, released, localMoves, move, nets>>

-----------------------------------------------------------------------------
(* internalFindMoves *)

\* deltaPhg: the shared partition with the moves that are not applied yet.
DeltaPart(t) == ApplyMoves(part, localMoves[t])

FitsLocally(t, u, b) ==
  unconstrained \/ BlockWeight(DeltaPart(t), b) + NodeWeight[u] <= MaxPartWeight[b]

\* deactivateNode
LockedMarker == deactivated

\* findNextMove takes a node; its target is a feasible block, if there is one.  The
\* unconstrained strategy may reject all of them.
FindNextMove(t) ==
  /\ At(t, "find") /\ finishedTasks < FinishedTasksLimit
  /\ \E q \in queue[t] :
       LET u == q[1]
           feasible == {b \in Blocks \ {q[2]} : FitsLocally(t, u, b)}
           targets == IF feasible = {} \/ unconstrained THEN feasible \union {NoBlock}
                      ELSE feasible
       IN  /\ queue' = [queue EXCEPT ![t] = @ \ {q}]
           /\ searchOfNode' = [searchOfNode EXCEPT ![u] = LockedMarker]
           /\ \E b \in targets :
                /\ Goto(t, IF b = NoBlock THEN "find" ELSE "apply")
                /\ move' = [move EXCEPT ![t] =
                     IF b = NoBlock THEN NoMove ELSE [node |-> u, from |-> q[2], to |-> b]]
  /\ UNCHANGED <<part, highestID, deactivated, refinementNodes, moveVars, finishedTasks,
                 release_nodes, unconstrained, search, released, localMoves, nets>>

\* triggersDeltaGainUpdate (Km1GainCache): pin counts that the gains of other pins depend on.
TriggeredNets(parts, m) ==
  LET count(e, b) == Cardinality({v \in Pins[e] : parts[v] = b}) IN
  {e \in IncidentEdges(m.node) : count(e, m.from) - 1 \in {0, 1} \/ count(e, m.to) + 1 \in {1, 2}}

\* The move is not made: the block has become too heavy, or the node has a high degree
\* and no improvement is expected.
SkipMove(t) ==
  /\ At(t, "apply")
  /\ ~FitsLocally(t, move[t].node, move[t].to) \/ move[t].node \in HighDegree
  /\ Goto(t, "find")
  /\ move' = [move EXCEPT ![t] = NoMove]
  /\ nets' = [nets EXCEPT ![t] = {}]
  /\ UNCHANGED <<part, trackerVars, refinementNodes, moveVars, finishedTasks, release_nodes,
                 unconstrained, search, queue, released, localMoves>>

\* An improvement is expected: the move is appended and the sequence is flushed, without
\* deltaPhg and therefore without edgesWithGainChanges.
MoveDirectly(t) ==
  /\ At(t, "apply") /\ FitsLocally(t, move[t].node, move[t].to)
  /\ localMoves' = [localMoves EXCEPT ![t] = Append(@, move[t])]
  /\ nets' = [nets EXCEPT ![t] = {}]
  /\ Goto(t, "flush")
  /\ UNCHANGED <<part, trackerVars, refinementNodes, moveVars, finishedTasks, release_nodes,
                 unconstrained, search, queue, released, move>>

\* The move is made in deltaPhg; it is flushed if it improves the balance only.
MoveLocally(t) ==
  /\ At(t, "apply") /\ FitsLocally(t, move[t].node, move[t].to) /\ move[t].node \notin HighDegree
  /\ localMoves' = [localMoves EXCEPT ![t] = Append(@, move[t])]
  /\ nets' = [nets EXCEPT ![t] = TriggeredNets(DeltaPart(t), move[t])]
  /\ Goto(t, "flush") \/ Goto(t, "expand")
  /\ UNCHANGED <<part, trackerVars, refinementNodes, moveVars, finishedTasks, release_nodes,
                 unconstrained, search, queue, released, move>>

\* changeNodePart without a weight limit, and insertMove, for the next local move.
Flush(t) ==
  /\ At(t, "flush")
  /\ LET m == Head(localMoves[t]) IN
       /\ part' = [part EXCEPT ![m.node] = m.to]
       /\ moveOrder' = Append(moveOrder, m)
       /\ moveOfNode' = [moveOfNode EXCEPT ![m.node] = RunningMoveID]
  /\ localMoves' = [localMoves EXCEPT ![t] = Tail(@)]
  /\ Goto(t, IF Len(localMoves[t]) = 1 THEN "expand" ELSE "flush")
  /\ UNCHANGED <<trackerVars, refinementNodes, firstMoveID, finishedTasks, release_nodes,
                 unconstrained, search, queue, released, move, nets>>

\* acquireOrUpdateNeighbors: free pins of the nets with gain changes are acquired, as far
\* as other searches do not come first.
Expand(t) ==
  LET neighbors == UNION {Pins[e] : e \in nets[t]} \ fixed IN
  /\ At(t, "expand")
  /\ \E S \in SUBSET {u \in neighbors : TryAcquire(u)} :
       /\ searchOfNode' = [u \in Nodes |-> IF u \in S THEN search[t] ELSE searchOfNode[u]]
       /\ queue' = [queue EXCEPT ![t] = @ \union {<<u, part[u]>> : u \in S}]
  /\ Goto(t, "find")
  /\ move' = [move EXCEPT ![t] = NoMove]
  /\ nets' = [nets EXCEPT ![t] = {}]
  /\ UNCHANGED <<part, highestID, deactivated, refinementNodes, moveVars, finishedTasks,
                 release_nodes, unconstrained, search, released, localMoves>>

\* The search stops: the stopping rule, enough finished tasks or an empty queue.
Stop(t) ==
  /\ At(t, "find") \/ At(t, "expand")
  /\ Goto(t, "reset")
  /\ move' = [move EXCEPT ![t] = NoMove]
  /\ nets' = [nets EXCEPT ![t] = {}]
  /\ UNCHANGED <<part, trackerVars, refinementNodes, moveVars, finishedTasks, release_nodes,
                 unconstrained, search, queue, released, localMoves>>

\* Entries that reset still has to release; the ones that were moved only locally are not
\* in the queue, and stay locked.
Unreleased(t) == IF release_nodes THEN queue[t] \ released[t] ELSE {}

\* reset releases the nodes in the queue one by one, block after block, and leaves the
\* queue as it is: another search may take a node that is still in it.
ReleaseNode(t) ==
  /\ At(t, "reset")
  /\ \E q \in Unreleased(t) :
       /\ \A r \in Unreleased(t) : q[2] <= r[2]
       /\ searchOfNode' = [searchOfNode EXCEPT ![q[1]] = ReleasedMarker]
       /\ released' = [released EXCEPT ![t] = @ \union {q}]
  /\ UNCHANGED <<part, highestID, deactivated, refinementNodes, moveVars, finishedTasks,
                 release_nodes, unconstrained, pc, search, queue, localMoves, move, nets>>

\* The queues are cleared at the end.
ClearQueues(t) ==
  /\ At(t, "reset") /\ Unreleased(t) = {}
  /\ queue' = [queue EXCEPT ![t] = {}]
  /\ released' = [released EXCEPT ![t] = {}]
  /\ TaskLoop(t)
  /\ UNCHANGED <<part, searchOfNode, deactivated, refinementNodes, moveVars, release_nodes,
                 unconstrained, move, nets>>

SearchStep(t) ==
  /\ \/ BeginTask(t) \/ PopSeed(t) \/ NoMoreSeeds(t) \/ FindNextMove(t) \/ SkipMove(t)
     \/ MoveDirectly(t) \/ MoveLocally(t) \/ Flush(t) \/ Expand(t)
     \/ Stop(t) \/ ReleaseNode(t) \/ ClearQueues(t)
  /\ UNCHANGED fixed

AllTasksFinished == \A t \in Tasks : At(t, "finished")
=============================================================================
