------------------------ MODULE ConcurrentClustering ------------------------
(***************************************************************************)
(* One clustering pass of the multilevel coarsener                         *)
(* (multilevel_coarsener.h, clustering_context.h,                          *)
(* concurrent_clustering_data.{h,cpp}).                                    *)
(*                                                                         *)
(* tbb::parallel_for runs one iteration per node u: it rates the neighbors *)
(* of u and calls matchVertices(u, v).  An iteration is a process here,    *)
(* named after its node; at most NumThreads are between their first and    *)
(* their last step.  Every load, store and CAS of shared memory is a step  *)
(* of its own.  Memory is sequentially consistent.                         *)
(***************************************************************************)
EXTENDS Integers, FiniteSets, FiniteSetsExt

CONSTANTS
  Nodes,                 \* enabled nodes of the current hypergraph (their ids)
  NodeWeight,            \* hypergraph.nodeWeight(u)
  Neighbors,             \* pins of the nets of u inside its community
  MaxAllowedNodeWeight,  \* context.coarsening.max_allowed_node_weight
  NumThreads,            \* threads that execute iterations
  HasFixedVertices       \* fixed_vertices.hasFixedVertices()

ASSUME NodesAssumption == Nodes \subseteq Nat /\ IsFiniteSet(Nodes)
ASSUME WeightAssumption ==
  NodeWeight \in [Nodes -> Nat] /\ MaxAllowedNodeWeight \in Nat
ASSUME NeighborAssumption == Neighbors \in [Nodes -> SUBSET Nodes]
ASSUME ThreadAssumption ==
  /\ NumThreads \in Nat \ {0}
  /\ HasFixedVertices \in BOOLEAN

VARIABLES
  matching_state,    \* _matching_state
  matching_partner,  \* _matching_partner
  cluster_ids,       \* cluster_ids
  cluster_weight,    \* _cluster_weight
  already_matched,   \* rater._already_matched, as the set of flagged nodes
  contracted,        \* matchings counted by num_nodes_tracker.subtractNode
  pc,                \* next step of the iteration of each node
  target,            \* v: the contraction partner chosen by the rater
  rep,               \* representative passed to joinCluster
  origin,            \* which call site of joinCluster is active
  success,           \* local variable of matchVertices
  cur_u,             \* local variable of the conflict resolution
  smallest,          \* smallest_node_id_in_cycle
  joins,             \* history: successful joinCluster calls per node
  overtaken,         \* history: nodes that joined a cluster although another
                     \* thread had matched them before they looked at v
  visited,           \* history: nodes seen in the last search for a cycle
  resolvers          \* history: nodes that resolved a cyclic dependency

shared == <<matching_state, matching_partner, cluster_ids, cluster_weight,
            already_matched, contracted>>
locals == <<target, rep, origin, success, cur_u, smallest>>
aux    == <<joins, overtaken, visited, resolvers>>
vars   == <<shared, pc, locals, aux>>

States  == {"UNMATCHED", "MATCHING_IN_PROGRESS", "MATCHED"}
Origins == {"none", "matched", "acquired", "cycle", "late"}

Outside == {"idle", "done"}
Joining == {"join_check", "join_write", "join_weight"}
Waiting == {"walk", "cycle", "wait"}
Steps   == Outside \union Joining \union Waiting \union
             {"check", "acquire_u", "publish", "inspect", "acquire_v", "read_rep",
              "release_v", "late", "mark", "retract", "release_u"}

Running == {u \in Nodes : pc[u] \notin Outside}

-----------------------------------------------------------------------------
(* initializeCoarseningPass *)
Init ==
  /\ matching_state = [u \in Nodes |-> "UNMATCHED"]
  /\ matching_partner = [u \in Nodes |-> u]
  /\ cluster_ids = [u \in Nodes |-> u]
  /\ cluster_weight = NodeWeight
  /\ already_matched = {}
  /\ contracted = 0
  /\ pc = [u \in Nodes |-> "idle"]
  /\ target = [u \in Nodes |-> u]
  /\ rep = [u \in Nodes |-> u]
  /\ origin = [u \in Nodes |-> "none"]
  /\ success = [u \in Nodes |-> FALSE]
  /\ cur_u = [u \in Nodes |-> u]
  /\ smallest = [u \in Nodes |-> u]
  /\ joins = [u \in Nodes |-> 0]
  /\ overtaken = {}
  /\ visited = [u \in Nodes |-> {u}]
  /\ resolvers = {}

Goto(u, step) == pc' = [pc EXCEPT ![u] = step]

\* joinCluster(u, v) is entered from call site `site`.
CallJoin(u, v, site) ==
  /\ rep' = [rep EXCEPT ![u] = v]
  /\ origin' = [origin EXCEPT ![u] = site]
  /\ Goto(u, "join_check")
  /\ UNCHANGED <<target, success, cur_u, smallest>>

\* v was found MATCHED: u follows it to its representative.
FollowV(u, site) ==
  /\ origin' = [origin EXCEPT ![u] = site]
  /\ Goto(u, "read_rep")
  /\ UNCHANGED <<target, rep, success, cur_u, smallest>>

\* A round of the conflict resolution starts at u.
StartWalk(u) ==
  /\ cur_u' = [cur_u EXCEPT ![u] = u]
  /\ smallest' = [smallest EXCEPT ![u] = u]
  /\ visited' = [visited EXCEPT ![u] = {u}]
  /\ Goto(u, "walk")
  /\ UNCHANGED <<target, rep, origin, success>>

JoinReturns(u) ==
  Goto(u, IF origin[u] \in {"acquired", "cycle"} THEN "release_v" ELSE "mark")

-----------------------------------------------------------------------------
(***************************************************************************)
(* Faulty variants of the actions below.  They are not part of the         *)
(* specification: each is a plausible slip in the code that one of the     *)
(* properties has to detect.                                               *)
(***************************************************************************)

\* The partner is joined directly instead of its representative.
ReadRepresentativeIgnoresCluster(u) ==
  /\ pc[u] = "read_rep"
  /\ rep' = [rep EXCEPT ![u] = target[u]]
  /\ Goto(u, "join_check")
  /\ UNCHANGED <<shared, target, origin, success, cur_u, smallest, aux>>

\* The weight limit is not checked again inside joinCluster.
JoinCheckWithoutLimit(u) ==
  /\ pc[u] = "join_check"
  /\ Goto(u, "join_write")
  /\ UNCHANGED <<shared, locals, aux>>

\* The weight of the node is not added to the cluster.
JoinWeightForgotten(u) ==
  /\ pc[u] = "join_weight"
  /\ success' = [success EXCEPT ![u] = TRUE]
  /\ joins' = [joins EXCEPT ![u] = @ + 1]
  /\ JoinReturns(u)
  /\ UNCHANGED <<matching_state, matching_partner, cluster_ids, cluster_weight,
                 already_matched,
                 contracted, target, rep, origin, cur_u, smallest, overtaken, visited, resolvers>>

\* u compares strictly with a minimum that includes itself.
ResolveCycleByNobody(u) ==
  /\ pc[u] = "cycle"
  /\ IF matching_partner[cur_u[u]] = u /\ u < smallest[u]
     THEN CallJoin(u, target[u], "cycle") /\ resolvers' = resolvers \union {u}
     ELSE Goto(u, "wait") /\ UNCHANGED <<locals, resolvers>>
  /\ UNCHANGED <<shared, joins, overtaken, visited>>

\* u does not look whether it was matched while it waited.
JoinLateUnchecked(u) ==
  /\ pc[u] = "late"
  /\ FollowV(u, "late")
  /\ UNCHANGED <<shared, aux>>

-----------------------------------------------------------------------------
(* performClustering *)

(***************************************************************************)
(* The rater scores the current representatives of the neighbors of u; the *)
(* scores are abstracted to a choice among the targets that fit.           *)
(***************************************************************************)
RatingTargets(u) ==
  {v \in {cluster_ids[x] : x \in Neighbors[u]} :
     /\ v # u
     /\ cluster_weight[u] + cluster_weight[v] <= MaxAllowedNodeWeight}

\* An iteration starts and the rater proposes v.
Rate(u) ==
  /\ pc[u] = "idle"
  /\ Cardinality(Running) < NumThreads
  /\ matching_state[u] = "UNMATCHED"
  /\ \E v \in RatingTargets(u) : target' = [target EXCEPT ![u] = v]
  /\ Goto(u, "check")
  /\ UNCHANGED <<shared, rep, origin, success, cur_u, smallest, aux>>

\* The iteration ends without a matching: u is matched already, the contraction
\* limit is reached (a counter that lags behind, see NumNodesTracker), or the
\* rater accepts no target (its bloom filter may suppress any candidate).
Skip(u) ==
  /\ pc[u] = "idle"
  /\ Goto(u, "done")
  /\ UNCHANGED <<shared, locals, aux>>

-----------------------------------------------------------------------------
(* matchVertices(u, v) with v = target[u] *)

CheckWeight(u) ==
  /\ pc[u] = "check"
  /\ Goto(u, IF NodeWeight[u] + cluster_weight[target[u]] <= MaxAllowedNodeWeight
             THEN "acquire_u" ELSE "done")
  /\ UNCHANGED <<shared, locals, aux>>

\* compare_exchange_strong(UNMATCHED -> MATCHING_IN_PROGRESS) on u
AcquireU(u) ==
  /\ pc[u] = "acquire_u"
  /\ IF matching_state[u] = "UNMATCHED"
     THEN /\ matching_state' = [matching_state EXCEPT ![u] = "MATCHING_IN_PROGRESS"]
          /\ Goto(u, "publish")
     ELSE /\ Goto(u, "done")
          /\ UNCHANGED matching_state
  /\ UNCHANGED <<matching_partner, cluster_ids, cluster_weight, already_matched,
                 contracted, locals, aux>>

PublishPartner(u) ==
  /\ pc[u] = "publish"
  /\ matching_partner' = [matching_partner EXCEPT ![u] = target[u]]
  /\ Goto(u, "inspect")
  /\ UNCHANGED <<matching_state, cluster_ids, cluster_weight, already_matched,
                 contracted, locals, aux>>

\* matching_state_v is loaded.
InspectV(u) ==
  LET v == target[u] IN
  /\ pc[u] = "inspect"
  /\ \/ /\ matching_state[v] = "MATCHED"
        /\ FollowV(u, "matched")
        /\ overtaken' = IF matching_state[u] = "MATCHED"
                        THEN overtaken \union {u} ELSE overtaken
        /\ UNCHANGED visited
     \/ /\ matching_state[v] = "UNMATCHED"
        /\ Goto(u, "acquire_v")
        /\ UNCHANGED <<locals, overtaken, visited>>
     \/ /\ matching_state[v] = "MATCHING_IN_PROGRESS"
        /\ StartWalk(u)
        /\ UNCHANGED overtaken
  /\ UNCHANGED <<shared, joins, resolvers>>

\* rep = cluster_ids[v], a load that is not synchronized with state[v].
ReadRepresentative(u) ==
  /\ pc[u] = "read_rep"
  /\ rep' = [rep EXCEPT ![u] = cluster_ids[target[u]]]
  /\ Goto(u, "join_check")
  /\ UNCHANGED <<shared, target, origin, success, cur_u, smallest, aux>>

\* compare_exchange_strong(UNMATCHED -> MATCHING_IN_PROGRESS) on v
AcquireV(u) ==
  LET v == target[u] IN
  /\ pc[u] = "acquire_v"
  /\ IF matching_state[v] = "UNMATCHED"
     THEN /\ matching_state' = [matching_state EXCEPT ![v] = "MATCHING_IN_PROGRESS"]
          /\ CallJoin(u, v, "acquired")
          /\ UNCHANGED visited
     ELSE /\ StartWalk(u)
          /\ UNCHANGED matching_state
  /\ UNCHANGED <<matching_partner, cluster_ids, cluster_weight, already_matched,
                 contracted, joins, overtaken, resolvers>>

-----------------------------------------------------------------------------
(* joinCluster(u, rep[u]) *)

\* The weight of the cluster is read; fixed_vertices.contract may refuse.
JoinCheck(u) ==
  /\ pc[u] = "join_check"
  /\ \/ /\ NodeWeight[u] + cluster_weight[rep[u]] <= MaxAllowedNodeWeight
        /\ Goto(u, "join_write")
        /\ UNCHANGED success
     \/ /\ \/ NodeWeight[u] + cluster_weight[rep[u]] > MaxAllowedNodeWeight
           \/ HasFixedVertices
        /\ success' = [success EXCEPT ![u] = FALSE]
        /\ JoinReturns(u)
  /\ UNCHANGED <<shared, target, rep, origin, cur_u, smallest, aux>>

JoinWrite(u) ==
  /\ pc[u] = "join_write"
  /\ cluster_ids' = [cluster_ids EXCEPT ![u] = rep[u]]
  /\ Goto(u, "join_weight")
  /\ UNCHANGED <<matching_state, matching_partner, cluster_weight,
                 already_matched, contracted, locals, aux>>

JoinWeight(u) ==
  /\ pc[u] = "join_weight"
  /\ cluster_weight' = [cluster_weight EXCEPT ![rep[u]] = @ + NodeWeight[u]]
  /\ success' = [success EXCEPT ![u] = TRUE]
  /\ joins' = [joins EXCEPT ![u] = @ + 1]
  /\ JoinReturns(u)
  /\ UNCHANGED <<matching_state, matching_partner, cluster_ids, already_matched,
                 contracted, target, rep, origin, cur_u, smallest, overtaken, visited, resolvers>>

\* v becomes MATCHED after the join of u onto it.
ReleaseV(u) ==
  /\ pc[u] = "release_v"
  /\ matching_state' = [matching_state EXCEPT ![target[u]] = "MATCHED"]
  /\ Goto(u, IF origin[u] = "cycle" THEN "wait" ELSE "mark")
  /\ UNCHANGED <<matching_partner, cluster_ids, cluster_weight, already_matched,
                 contracted, locals, aux>>

-----------------------------------------------------------------------------
(* Conflict resolution: v is MATCHING_IN_PROGRESS on behalf of another thread *)

\* One load of _matching_partner in the search for a cyclic dependency.
WalkPartners(u) ==
  LET next == matching_partner[cur_u[u]] IN
  /\ pc[u] = "walk"
  /\ IF next # u /\ next # cur_u[u]
     THEN /\ cur_u' = [cur_u EXCEPT ![u] = next]
          /\ smallest' = [smallest EXCEPT ![u] = IF next < @ THEN next ELSE @]
          /\ visited' = [visited EXCEPT ![u] = @ \union {next}]
          /\ UNCHANGED pc
     ELSE /\ Goto(u, "cycle")
          /\ UNCHANGED <<cur_u, smallest, visited>>
  /\ UNCHANGED <<shared, target, rep, origin, success, joins, overtaken, resolvers>>

\* The smallest node of a cyclic dependency joins its partner.
ResolveCycle(u) ==
  /\ pc[u] = "cycle"
  /\ IF matching_partner[cur_u[u]] = u /\ smallest[u] = u
     THEN CallJoin(u, target[u], "cycle") /\ resolvers' = resolvers \union {u}
     ELSE Goto(u, "wait") /\ UNCHANGED <<locals, resolvers>>
  /\ UNCHANGED <<shared, joins, overtaken, visited>>

\* Condition of the do-while loop.
WaitForV(u) ==
  /\ pc[u] = "wait"
  /\ IF matching_state[target[u]] = "MATCHING_IN_PROGRESS"
     THEN StartWalk(u)
     ELSE Goto(u, "late") /\ UNCHANGED <<locals, visited>>
  /\ UNCHANGED <<shared, joins, overtaken, resolvers>>

\* v was matched in the meantime; u follows unless it was matched itself.
JoinLate(u) ==
  /\ pc[u] = "late"
  /\ IF matching_state[u] = "MATCHING_IN_PROGRESS"
     THEN FollowV(u, "late")
     ELSE Goto(u, "mark") /\ UNCHANGED locals
  /\ UNCHANGED <<shared, aux>>

-----------------------------------------------------------------------------
(* End of matchVertices *)

MarkAsMatched(u) ==
  /\ pc[u] = "mark"
  /\ already_matched' = already_matched \union {u, target[u]}
  /\ Goto(u, "retract")
  /\ UNCHANGED <<matching_state, matching_partner, cluster_ids, cluster_weight,
                 contracted, locals, aux>>

RetractPartner(u) ==
  /\ pc[u] = "retract"
  /\ matching_partner' = [matching_partner EXCEPT ![u] = u]
  /\ Goto(u, "release_u")
  /\ UNCHANGED <<matching_state, cluster_ids, cluster_weight, already_matched,
                 contracted, locals, aux>>

\* u becomes MATCHED; ClusteringContext::matchVertices counts a success.
ReleaseU(u) ==
  /\ pc[u] = "release_u"
  /\ matching_state' = [matching_state EXCEPT ![u] = "MATCHED"]
  /\ contracted' = contracted + (IF success[u] THEN 1 ELSE 0)
  /\ Goto(u, "done")
  /\ UNCHANGED <<matching_partner, cluster_ids, cluster_weight, already_matched,
                 locals, aux>>

-----------------------------------------------------------------------------
Iterate(u) ==
  \/ Rate(u) \/ Skip(u)
  \/ CheckWeight(u) \/ AcquireU(u) \/ PublishPartner(u) \/ InspectV(u)
  \/ AcquireV(u) \/ ReadRepresentative(u)
  \/ JoinCheck(u) \/ JoinWrite(u) \/ JoinWeight(u) \/ ReleaseV(u)
  \/ WalkPartners(u) \/ ResolveCycle(u) \/ WaitForV(u) \/ JoinLate(u)
  \/ MarkAsMatched(u) \/ RetractPartner(u) \/ ReleaseU(u)

AllDone == \A u \in Nodes : pc[u] = "done"

\* The pass is over; the coarsener continues with the contraction.
PassComplete == AllDone /\ UNCHANGED vars

Next == (\E u \in Nodes : Iterate(u)) \/ PassComplete

\* TBB runs every iteration, and a running thread is scheduled eventually.
Fairness == \A u \in Nodes : WF_vars(Iterate(u))

Spec     == Init /\ [][Next]_vars
FairSpec == Spec /\ Fairness
-----------------------------------------------------------------------------
(* Properties *)

Members(r) == {u \in Nodes : cluster_ids[u] = r}
WeightOf(S) == SumFunctionOnSet(NodeWeight, S)

\* The type invariant of the pass.
TypeOK ==
  /\ matching_state \in [Nodes -> States]
  /\ matching_partner \in [Nodes -> Nodes]
  /\ cluster_ids \in [Nodes -> Nodes]
  /\ cluster_weight \in [Nodes -> Nat]
  /\ already_matched \subseteq Nodes
  /\ contracted \in Nat
  /\ pc \in [Nodes -> Steps]
  /\ target \in [Nodes -> Nodes]
  /\ rep \in [Nodes -> Nodes]
  /\ origin \in [Nodes -> Origins]
  /\ success \in [Nodes -> BOOLEAN]
  /\ cur_u \in [Nodes -> Nodes]
  /\ smallest \in [Nodes -> Nodes]
  /\ joins \in [Nodes -> Nat]
  /\ overtaken \subseteq Nodes
  /\ visited \in [Nodes -> SUBSET Nodes]
  /\ resolvers \subseteq Nodes

\* The invariant in the comment of matchVertices: each cluster has a unique
\* representative and all nodes of the cluster point to it, at every moment.
ClusterInvariant ==
  \A u \in Nodes : cluster_ids[cluster_ids[u]] = cluster_ids[u]

\* ConcurrentClusteringData::verifyClustering, second loop ("Verify that cluster
\* weights are aggregated correct"): after the pass the weight of each cluster is that of
\* its members.  It fails even if no thread was overtaken and the clusters are as they
\* should be: a resolver may join twice.
VerifyClusterWeights ==
  AllDone /\ overtaken = {} =>
    \A u \in Nodes : cluster_ids[u] = u => cluster_weight[u] = WeightOf(Members(u))

\* num_nodes_tracker.finalNumNodes() is the number of nodes of the contracted
\* hypergraph, that is the number of clusters.  It fails if the second join of a
\* resolver is refused (README, section 6).
FinalNumNodesExact ==
  AllDone => Cardinality(Nodes) - contracted
               = Cardinality({u \in Nodes : cluster_ids[u] = u})

\* The documented invariant is broken in one way only: a thread published its
\* partner, was overtaken by the thread that resolved the cyclic dependency, and
\* then found its partner MATCHED.
ClusterInvariantUnlessOvertaken == overtaken = {} => ClusterInvariant

\* ASSERT(rep == cluster_ids[rep]) of joinCluster holds from its entry until its
\* last access, so no join lands in a cluster whose representative moved on.
JoinTargetIsRepresentative ==
  overtaken = {} =>
    \A u \in Nodes : pc[u] \in Joining => cluster_ids[rep[u]] = rep[u]

\* ASSERT(_matching_state[rep] == matched): a join into the cluster of a MATCHED
\* node finds the representative of that cluster MATCHED too.
RepresentativeIsMatched ==
  overtaken = {} =>
    \A u \in Nodes : pc[u] \in Joining /\ origin[u] \in {"matched", "late"} =>
      matching_state[rep[u]] = "MATCHED"

\* "Vertex v is already matched and will not change it cluster id any more": a
\* MATCHED node stays MATCHED, and only a thread that was overtaken itself writes the
\* cluster id of its node again.
MatchedIsFinal ==
  [][\A u \in Nodes : matching_state[u] = "MATCHED" =>
       /\ matching_state'[u] = "MATCHED"
       /\ cluster_ids'[u] = cluster_ids[u] \/ u \in overtaken]_vars

\* Members of the cluster of r whose fetch_add on _cluster_weight[r] is still to come.
Adding(r) == {u \in Members(r) : pc[u] = "join_weight"}

\* Members that have joined the cluster of r a second time.
JoinedTwice(r) ==
  {u \in Members(r) \ {r} : joins[u] = IF pc[u] = "join_weight" THEN 1 ELSE 2}

\* What verifyClustering compares, at every moment: _cluster_weight[r] and the
\* additions still to be executed make up the weight of the members of r, and exceed
\* it by the members that joined twice, so that VerifyClusterWeights fails iff there are
\* any; only a thread that resolves a cyclic dependency joins twice.
WeightAccounted ==
  overtaken = {} =>
    \A r \in Nodes : cluster_ids[r] = r =>
      /\ cluster_weight[r] + WeightOf(Adding(r))
           = WeightOf(Members(r)) + WeightOf(JoinedTwice(r))
      /\ JoinedTwice(r) \subseteq resolvers

\* The unsynchronized weight check of joinCluster lets a cluster exceed the
\* limit, but by no more than what the other threads add at the same time.
OvershootBounded ==
  LET heaviest == Max({NodeWeight[u] : u \in Nodes})
  IN  \A r \in Nodes :
        cluster_weight[r] <= Max({MaxAllowedNodeWeight, NodeWeight[r]})
                               + (NumThreads - 1) * heaviest

\* Conflict resolution never leaves threads waiting for each other: every
\* iteration returns.
Termination == <>AllDone

\* The pass implements the abstract clustering until a node is overtaken.
Abstract == INSTANCE Clustering WITH
  cluster   <- cluster_ids,
  committed <- {u \in Nodes : matching_state[u] = "MATCHED"}
ImplementsClustering ==
  /\ Abstract!Init
  /\ [][overtaken' = {} => [Abstract!Next]_(Abstract!vars)]_vars
=============================================================================
