------------------------ MODULE FixedVertexSupport --------------------------
(***************************************************************************)
(* FixedVertexSupport (datastructures/fixed_vertex_support) as steps that  *)
(* contractions and uncontractions compose.  A contraction of v            *)
(* onto u that makes one of the two a fixed vertex adds the weight to its  *)
(* block first and takes it back if the block became too heavy: between    *)
(* the two steps other threads see the weight.                             *)
(***************************************************************************)
EXTENDS Integers

CONSTANTS
  Nodes,            \* node ids
  Blocks,           \* blocks nodes can be fixed to
  NoBlock,          \* kInvalidPartition
  MaxBlockWeight    \* _max_block_weights

ASSUME FixedAssumption ==
  /\ Nodes \subseteq Nat
  /\ NoBlock \notin Blocks
  /\ MaxBlockWeight \in [Blocks -> Nat]

VARIABLES
  fixed_block,      \* FixedVertexData::block
  contraction_cnt,  \* FixedVertexData::fixed_vertex_contraction_cnt
  fixed_weight,     \* FixedVertexData::fixed_vertex_weight
  block_weight      \* _fixed_vertex_block_weights

fixedVars == <<fixed_block, contraction_cnt, fixed_weight, block_weight>>

IsFixed(u) == fixed_block[u] # NoBlock

\* fixToBlock for every fixed vertex of the input.
FixedInit(initial_block, weight, initial_weights) ==
  /\ fixed_block = initial_block
  /\ contraction_cnt = [u \in Nodes |-> IF initial_block[u] # NoBlock THEN 1 ELSE 0]
  /\ fixed_weight = [u \in Nodes |-> IF initial_block[u] # NoBlock THEN weight[u] ELSE 0]
  /\ block_weight = initial_weights

\* The contraction of v onto u makes exactly one of them a fixed vertex.
BecomesFixed(u, v) == IsFixed(u) # IsFixed(v)

\* Both are fixed, to different blocks: the contraction is not allowed.
DifferentBlocks(u, v) ==
  IsFixed(u) /\ IsFixed(v) /\ fixed_block[u] # fixed_block[v]

TheBlock(u, v) == IF IsFixed(u) THEN fixed_block[u] ELSE fixed_block[v]

\* Weight of the node that becomes fixed.
DeltaWeight(u, v, weight) == IF IsFixed(v) THEN weight[u] ELSE weight[v]

(* Faulty variants of the definitions below. *)

\* The weight is left in the block when the contraction is forbidden.
RollbackForgotten(u, v, weight) == UNCHANGED fixedVars

\* The representative stays a free vertex.
CommitOnlyPartner(u, v, weight) ==
  /\ fixed_block' = [fixed_block EXCEPT ![v] = TheBlock(u, v)]
  /\ fixed_weight' = [fixed_weight EXCEPT ![v] = weight[v]]
  /\ contraction_cnt' = [contraction_cnt EXCEPT ![u] = IF IsFixed(u) THEN @ ELSE 1]
  /\ UNCHANGED block_weight

-----------------------------------------------------------------------------
\* Nothing is to be added: both free, or both fixed to the same block.
ContractInPlace(u, v) ==
  /\ contraction_cnt' = [contraction_cnt EXCEPT ![u] =
                           IF IsFixed(u) THEN @ + 1 ELSE @]
  /\ UNCHANGED <<fixed_block, fixed_weight, block_weight>>

AddWeight(u, v, weight) ==
  block_weight' = [block_weight EXCEPT ![TheBlock(u, v)] = @ + DeltaWeight(u, v, weight)]

\* add_fetch on the block weight.
AddBlockWeight(u, v, weight) ==
  /\ AddWeight(u, v, weight)
  /\ UNCHANGED <<fixed_block, contraction_cnt, fixed_weight>>

\* The other node becomes fixed as well, with the weight it has now.
MarkFixed(u, v, weight) ==
  /\ fixed_block' = [fixed_block EXCEPT ![u] = TheBlock(u, v), ![v] = TheBlock(u, v)]
  /\ contraction_cnt' = [contraction_cnt EXCEPT ![u] = IF IsFixed(u) THEN @ ELSE 1]
  /\ fixed_weight' = IF IsFixed(u) THEN [fixed_weight EXCEPT ![v] = weight[v]]
                     ELSE [fixed_weight EXCEPT ![u] = weight[u]]

\* The block stays within its limit.
CommitFixed(u, v, weight) == MarkFixed(u, v, weight) /\ UNCHANGED block_weight

\* The block became too heavy: sub_fetch.
RollbackFixed(u, v, weight) ==
  /\ block_weight' = [block_weight EXCEPT ![TheBlock(u, v)] = @ - DeltaWeight(u, v, weight)]
  /\ UNCHANGED <<fixed_block, contraction_cnt, fixed_weight>>

\* A contraction that is known not to exceed a limit: the additions to a block commute
\* with those of other threads.
ContractFixed(u, v, weight) ==
  \/ ~BecomesFixed(u, v) /\ ~DifferentBlocks(u, v) /\ ContractInPlace(u, v)
  \/ BecomesFixed(u, v) /\ MarkFixed(u, v, weight) /\ AddWeight(u, v, weight)

\* A node becomes free and takes the weight with it that was added when it became fixed.
Unfix(u) ==
  /\ fixed_block' = [fixed_block EXCEPT ![u] = NoBlock]
  /\ block_weight' = [block_weight EXCEPT ![fixed_block[u]] = @ - fixed_weight[u]]

\* uncontract: v was fixed before the contraction, and u stays fixed as long as another
\* reason for it is left, or v was free before, or both were free.
UncontractFixed(u, v) ==
  /\ \/ /\ IsFixed(v) /\ contraction_cnt[v] > 0
        /\ contraction_cnt' = [contraction_cnt EXCEPT ![u] = @ - 1]
        /\ IF contraction_cnt[u] = 1 THEN Unfix(u) ELSE UNCHANGED <<fixed_block, block_weight>>
     \/ /\ IsFixed(v) /\ contraction_cnt[v] = 0
        /\ Unfix(v) /\ UNCHANGED contraction_cnt
     \/ ~IsFixed(v) /\ UNCHANGED <<fixed_block, contraction_cnt, block_weight>>
  /\ UNCHANGED fixed_weight

\* FixedVertexAcceptancePolicy::acceptContraction.  acceptImbalance also compares the
\* new block weight with (1 + epsilon) times the average weight of the fixed vertices;
\* a rater that refuses for that reason is a rater that takes another target or none.
AcceptContraction(u, v, weight) ==
  /\ IsFixed(u) => IsFixed(v) /\ fixed_block[u] = fixed_block[v]
  /\ BecomesFixed(u, v) =>
       block_weight[TheBlock(u, v)] + DeltaWeight(u, v, weight) <= MaxBlockWeight[TheBlock(u, v)]
=============================================================================
