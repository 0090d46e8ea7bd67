---------------------- MODULE ConcurrentClusteringInv -----------------------
(***************************************************************************)
(* The inductive invariant behind the safety of the clustering pass.       *)
(*                                                                         *)
(* An iteration writes target[u] once, so the partners that threads ever   *)
(* publish form one function.  A search that comes back to its start has   *)
(* seen a whole cycle of that function (WalkerOK); nodes of a cycle wait   *)
(* for each other, and a node stops waiting only if its partner is settled *)
(* or the cycle was resolved (ExcuseOK), so a cycle found by its smallest  *)
(* node is still intact (ResolvingOK) and has one resolver (ResolverOK).   *)
(***************************************************************************)
EXTENDS ConcurrentClustering

Early     == {"idle", "check", "acquire_u"}
WaitLoop  == {"inspect", "acquire_v"} \union Waiting
JoinPhase == Joining \union {"release_v"}
Published == WaitLoop \union JoinPhase \union {"read_rep", "late", "mark", "retract"}

\* u owns itself and waits for its partner.
Live(u) == matching_state[u] = "MATCHING_IN_PROGRESS" /\ pc[u] \in WaitLoop

\* u is settled, or owned by the thread of another node.
Dead(u) ==
  \/ matching_state[u] = "MATCHED"
  \/ matching_state[u] = "MATCHING_IN_PROGRESS" /\ pc[u] \in Early \union {"done"}

Closed(S) == \A x \in S : target[x] \in S

InResolvedCycle(u) == \E y \in resolvers : u \in visited[y]

Excused(u) == InResolvedCycle(u) \/ Dead(target[u])

Holds(u)     == pc[u] \in JoinPhase /\ origin[u] = "acquired"
Resolving(u) == pc[u] \in JoinPhase /\ origin[u] = "cycle"

\* A partner is chosen once and published while it matters.
PartnerOK(u) ==
  /\ pc[u] = "idle" => target[u] = u
  /\ pc[u] \notin {"idle", "done"} => target[u] # u
  /\ matching_partner[u] = IF pc[u] \in Published THEN target[u] ELSE u

\* Who may own a node.
OwnershipOK(u) ==
  /\ pc[u] \notin Early \union {"done"} => matching_state[u] # "UNMATCHED"
  /\ pc[u] = "publish" => matching_state[u] = "MATCHING_IN_PROGRESS"
  /\ pc[u] \in JoinPhase \union {"read_rep"} =>
       \/ matching_state[u] = "MATCHING_IN_PROGRESS"
       \/ u \in overtaken /\ origin[u] = "matched"
  /\ pc[u] \in Waiting => matching_state[target[u]] # "UNMATCHED"
  /\ pc[u] \in WaitLoop /\ matching_state[u] = "MATCHED" => InResolvedCycle(u)

\* A partner acquired by u belongs to u alone.
HolderOK(u) ==
  Holds(u) =>
    /\ matching_state[target[u]] = "MATCHING_IN_PROGRESS"
    /\ pc[target[u]] \in Early \union {"done"}
    /\ \A w \in Nodes : Holds(w) /\ target[w] = target[u] => w = u

\* u stands alone, follows a settled node, or its join is still under way.
PointerOK(u) ==
  \/ cluster_ids[u] = u
  \/ matching_state[cluster_ids[u]] = "MATCHED"
  \/ /\ pc[u] \in {"join_weight", "release_v"}
     /\ origin[u] \in {"acquired", "cycle"}
     /\ cluster_ids[u] = target[u]

\* u has not joined anything yet.
AloneOK(u) ==
  ( \/ pc[u] \in Early \union {"publish", "inspect", "acquire_v", "walk", "cycle"}
    \/ pc[u] = "wait" /\ u \notin resolvers
    \/ pc[u] = "done" /\ matching_state[u] # "MATCHED" )
  => cluster_ids[u] = u

\* From where joinCluster is called, and what is settled by then.
CallOK(u) ==
  /\ pc[u] \in {"late", "read_rep"} => matching_state[target[u]] = "MATCHED"
  /\ pc[u] = "read_rep" => origin[u] \in {"matched", "late"}
  /\ pc[u] = "release_v" => origin[u] \in {"acquired", "cycle"}

\* Which cluster u is about to join.
JoinOK(u) ==
  /\ pc[u] = "join_weight" => cluster_ids[u] = rep[u]
  /\ pc[u] \in Joining =>
       /\ rep[u] # u /\ cluster_ids[rep[u]] = rep[u]
       /\ \/ origin[u] \in {"acquired", "cycle"} /\ rep[u] = target[u]
          \/ origin[u] \in {"matched", "late"} /\ matching_state[rep[u]] = "MATCHED"

\* u joins one cluster only: the resolver of a cyclic dependency, which is still
\* MATCHING_IN_PROGRESS after its join, can only join the same cluster again.
RejoinOK(u) ==
  /\ pc[u] \in {"wait", "late", "read_rep", "release_v"} => cluster_ids[u] \in {u, target[u]}
  /\ pc[u] \in {"join_check", "join_write"} => cluster_ids[u] \in {u, rep[u]}

\* A published node waits, or has a reason not to.
ExcuseOK(u) == pc[u] \in Published => Live(u) \/ Excused(u)

\* Every set of nodes closed under targets that meets V contains r.
LeadsTo(V, r) ==
  \A S \in SUBSET Nodes : Closed(S) /\ S \intersect V # {} => r \in S

\* What a search of u has seen: a path of partners from u to cur_u[u].
SeenOK(u, x) ==
  /\ smallest[u] <= x
  /\ x # cur_u[u] =>
       /\ target[x] \in visited[u]
       /\ pc[x] \notin Early \union {"publish"}
       /\ matching_state[x] # "UNMATCHED"
       /\ Live(x) \/ Excused(x)

WalkerOK(u) ==
  pc[u] \in {"walk", "cycle"} =>
    /\ u \in visited[u] /\ cur_u[u] \in visited[u]
    /\ \A x \in visited[u] : SeenOK(u, x)
    /\ LeadsTo(visited[u], cur_u[u])

\* A resolved cycle: closed, led by its smallest node, and without a proper part.
ResolverOK(y) ==
  y \in resolvers =>
    /\ pc[y] \in JoinPhase \union
         {"wait", "late", "read_rep", "mark", "retract", "release_u", "done"}
    /\ pc[y] = "wait" => matching_state[target[y]] = "MATCHED"
    /\ y \in visited[y] /\ Closed(visited[y])
    /\ \A x \in visited[y] :
         /\ y <= x
         /\ pc[x] \notin Early \union {"publish"}
         /\ matching_state[x] # "UNMATCHED"
    /\ LeadsTo(visited[y], y)

\* While a cycle is being resolved all its other nodes wait.
ResolvingOK(y) ==
  Resolving(y) => y \in resolvers /\ \A x \in visited[y] \ {y} : Live(x)

\* Who owns a node and who waits for whom.  This also holds after a thread was
\* overtaken.
RoleOK(u) ==
  /\ PartnerOK(u) /\ OwnershipOK(u) /\ HolderOK(u) /\ CallOK(u)
  /\ ExcuseOK(u) /\ WalkerOK(u) /\ ResolverOK(u) /\ ResolvingOK(u)

\* Which cluster a node is in.
PlaceOK(u) == PointerOK(u) /\ AloneOK(u) /\ JoinOK(u) /\ RejoinOK(u)

NodeOK(u) == RoleOK(u) /\ PlaceOK(u)

\* The invariant of the pass: ownership and the structure of cyclic dependencies
\* are as described above, and, unless a thread was overtaken, so are the clusters,
\* and every cluster id names a representative.
IndInv ==
  /\ TypeOK
  /\ \A u \in Nodes : RoleOK(u)
  /\ overtaken = {} => ClusterInvariant /\ \A u \in Nodes : PlaceOK(u)
-----------------------------------------------------------------------------
(* Weights *)

\* What the joins of u have added so far.
JoinedWeight == [u \in Nodes |-> joins[u] * NodeWeight[u]]

\* How often u has joined: once, or twice after following v as a resolver.
JoinCountOK(u) ==
  /\ cluster_ids[u] = u => joins[u] = 0
  /\ cluster_ids[u] # u /\ pc[u] # "join_weight" => joins[u] >= 1
  /\ joins[u] = 1 /\ pc[u] \in Joining \union {"late", "read_rep"} => u \in resolvers
  /\ joins[u] = 2 => u \in resolvers
  /\ pc[u] \in Joining \union {"read_rep"} =>
       joins[u] = 0 \/ (joins[u] = 1 /\ origin[u] = "late")
  /\ pc[u] \in {"release_v", "wait", "late"} => joins[u] <= 1
  /\ pc[u] \in {"mark", "retract", "release_u", "done"} =>
       joins[u] <= 1 \/ (joins[u] = 2 /\ origin[u] = "late")

\* Unless a thread was overtaken, the weight of a cluster is the weight of its
\* representative and of the joins of its members.
WeightInv ==
  overtaken = {} =>
    /\ \A u \in Nodes : JoinCountOK(u)
    /\ \A r \in Nodes : cluster_ids[r] = r =>
         cluster_weight[r] = NodeWeight[r] + SumFunctionOnSet(JoinedWeight, Members(r) \ {r})

\* The threads that have passed the weight check of joinCluster(u, r) and have not
\* added their weight yet.
Joiners(r) == {u \in Nodes : pc[u] \in {"join_write", "join_weight"} /\ rep[u] = r}

Limit(r) == IF NodeWeight[r] > MaxAllowedNodeWeight THEN NodeWeight[r] ELSE MaxAllowedNodeWeight

\* The weight of a cluster together with the additions that can no longer be
\* refused is bounded, and at most NumThreads iterations are under way.
OvershootInv ==
  LET heaviest == Max({NodeWeight[u] : u \in Nodes})
  IN  /\ Cardinality(Running) <= NumThreads
      /\ \A r \in Nodes :
           cluster_weight[r] + SumFunctionOnSet(NodeWeight, Joiners(r))
             <= Limit(r) + (NumThreads - 1) * heaviest
=============================================================================
