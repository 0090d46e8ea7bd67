------------------------- MODULE NLevelContraction --------------------------
(***************************************************************************)
(* One coarsening pass of the n-level coarsener (nlevel_coarsener.h):      *)
(* threads register contractions in a shared contraction tree              *)
(* (contraction_tree.h) and perform them on the dynamic hypergraph         *)
(* (dynamic_hypergraph.cpp) as soon as nothing is pending below them.      *)
(*                                                                         *)
(* The iteration of node hn is a process named hn.  Node locks are spin    *)
(* locks; what a thread does while it holds the locks of all nodes it      *)
(* touches is one step, every access without a lock is a step of its own.  *)
(***************************************************************************)
EXTENDS FixedVertexSupport, FiniteSets, FiniteSetsExt

CONSTANTS
  NodeWeight,      \* weight of each node before the pass
  Edges,           \* hyperedges
  Pins,            \* pins of each hyperedge before the pass
  Preferred,       \* Preferred[hn]: targets the scores of the rater allow
  HighDegreeThreshold, \* HIGH_DEGREE_VERTEX_THRESHOLD
  InitialBlock,    \* fixed vertex block of each node, or NoBlock
  MaxNodeWeight    \* context.coarsening.max_allowed_node_weight

ASSUME NLevelAssumption ==
  /\ IsFiniteSet(Nodes) /\ NodeWeight \in [Nodes -> Nat] /\ MaxNodeWeight \in Nat
  /\ InitialBlock \in [Nodes -> Blocks \union {NoBlock}]
  /\ Pins \in [Edges -> SUBSET Nodes]
  /\ Preferred \in [Nodes -> SUBSET Nodes] /\ HighDegreeThreshold \in Nat

VARIABLES
  parent,      \* contraction tree: parent of each node
  pending,     \* contraction tree: pending contractions of each node
  performed,   \* contraction tree: nodes with a time interval
  enabled,     \* enabled hypernodes
  weight,      \* weight of each hypernode
  owner,       \* _acquired_hns: the iteration that holds the lock, or Nobody
  pins,        \* valid part of the incidence array, per hyperedge
  nets,        \* _incident_nets
  pc,
  ru, rv,      \* arguments u, v of registerContraction
  w,           \* representative of u in the contraction tree
  x, y,        \* the contraction of y onto x that is attempted
  weight_after,\* block_weight_after
  todo,        \* hyperedges of y that are still to be contracted
  revived      \* history: a contraction was performed that had been taken back

tree   == <<parent, pending, performed>>
graph  == <<enabled, weight, pins, nets>>
locals == <<ru, rv, w, x, y, weight_after, todo>>
vars   == <<tree, graph, fixedVars, owner, pc, locals, revived>>

Nobody == -1
Free(u) == owner[u] = Nobody

\* Weight of the vertices that the input fixes to block b.
InputWeight(b) == MapThenSumSet(LAMBDA u : NodeWeight[u], {u \in Nodes : InitialBlock[u] = b})

Init ==
  /\ parent = [u \in Nodes |-> u]
  /\ pending = [u \in Nodes |-> 0]
  /\ performed = {}
  /\ enabled = Nodes
  /\ weight = NodeWeight
  /\ owner = [u \in Nodes |-> Nobody]
  /\ pins = Pins
  /\ nets = [u \in Nodes |-> {e \in Edges : u \in Pins[e]}]
  /\ FixedInit(InitialBlock, NodeWeight, [b \in Blocks |-> InputWeight(b)])
  /\ pc = [p \in Nodes |-> "idle"]
  /\ ru = [p \in Nodes |-> p]
  /\ rv = [p \in Nodes |-> p]
  /\ w = [p \in Nodes |-> p]
  /\ x = [p \in Nodes |-> p]
  /\ y = [p \in Nodes |-> p]
  /\ weight_after = [p \in Nodes |-> 0]
  /\ todo = [p \in Nodes |-> {}]
  /\ revived = FALSE

Goto(p, step) == pc' = [pc EXCEPT ![p] = step]
Acquire(p, u) == Free(u) /\ owner' = [owner EXCEPT ![u] = p]
Release(S) == owner' = [u \in Nodes |-> IF u \in S THEN Nobody ELSE owner[u]]

\* u is a root of the contraction tree, or contractions onto it are pending.
IsRepresentative(u) == parent[u] = u \/ pending[u] > 0

\* The loop of contract(v) goes on with the contraction of node u.
NextContraction(p, u) ==
  /\ y' = [y EXCEPT ![p] = u]
  /\ Goto(p, "next")

-----------------------------------------------------------------------------
(* Faulty variants of the definitions below. *)

\* The search for the representative does not move on to the parent.
ClimbUpStays(p) ==
  /\ pc[p] = "climb_up"
  /\ IF parent[w[p]] = rv[p]
     THEN Release({rv[p]}) /\ Goto(p, "done")
     ELSE Goto(p, "climb") /\ UNCHANGED owner
  /\ UNCHANGED <<tree, graph, fixedVars, locals>>

\* A node may be contracted while contractions onto it are pending.
PartnerValidWhilePending(v) == v \in enabled

\* A refused contraction stays in the reference count of u.
RefuseKeepsCount(p, u, v, invalid) ==
  /\ Release({u, v})
  /\ IF invalid /\ v \in enabled /\ parent[v] = u
     THEN /\ parent' = [parent EXCEPT ![v] = v]
          /\ NextContraction(p, u)
     ELSE /\ Goto(p, "done")
          /\ UNCHANGED <<parent, y>>
  /\ UNCHANGED <<pending, performed, graph, ru, rv, w, x, weight_after, todo>>

\* The nets of v do not reach the list of u.
MergeForgotten(p) ==
  /\ pc[p] = "merge"
  /\ Free(x[p])
  /\ Goto(p, "unregister")
  /\ UNCHANGED <<tree, graph, fixedVars, owner, locals>>

\* The thread does not go on with the node whose last child it contracted.
UnregisterStops(p) ==
  /\ pc[p] = "unregister"
  /\ Free(x[p])
  /\ pending' = [pending EXCEPT ![x[p]] = @ - 1]
  /\ performed' = performed \union {y[p]}
  /\ Goto(p, "done")
  /\ UNCHANGED <<parent, graph, fixedVars, owner, locals>>

-----------------------------------------------------------------------------
(* NLevelCoarsener::contract(hn) *)

\* Pins of the nets of hn that the rater accepts.
RatingTargets(p) ==
  {t \in UNION {pins[e] : e \in nets[p]} \intersect Preferred[p] :
     /\ t # p
     /\ weight[p] + weight[t] <= MaxNodeWeight
     /\ AcceptContraction(p, t, weight)}

Degree(u) == Cardinality(nets[u])

\* The rater proposes t.  A target of high degree becomes the representative.
Rate(p) ==
  /\ pc[p] = "idle"
  /\ p \in enabled
  /\ \E t \in RatingTargets(p) :
       LET reverse == Degree(p) < Degree(t) /\ Degree(t) > HighDegreeThreshold IN
       /\ ru' = [ru EXCEPT ![p] = IF reverse THEN t ELSE p]
       /\ rv' = [rv EXCEPT ![p] = IF reverse THEN p ELSE t]
  /\ Goto(p, "lock_v")
  /\ UNCHANGED <<tree, graph, fixedVars, owner, w, x, y, weight_after, todo>>

\* hn is disabled already, has no valid target, or the limit is reached.
Skip(p) ==
  /\ pc[p] = "idle"
  /\ Goto(p, "done")
  /\ UNCHANGED <<tree, graph, fixedVars, owner, locals>>

-----------------------------------------------------------------------------
(* ContractionTree::registerContraction(u, v) *)

\* Acquires v, unless a contraction is registered for v already.
LockV(p) ==
  /\ pc[p] = "lock_v"
  /\ Free(rv[p])
  /\ IF parent[rv[p]] = rv[p]
     THEN /\ Acquire(p, rv[p])
          /\ w' = [w EXCEPT ![p] = ru[p]]
          /\ Goto(p, "climb")
     ELSE /\ Goto(p, "done")
          /\ UNCHANGED <<owner, w>>
  /\ UNCHANGED <<tree, graph, fixedVars, ru, rv, x, y, weight_after, todo>>

\* A representative of u is found: it is locked next, in the order of the ids.
FoundRepresentative(p) ==
  IF w[p] < rv[p]
  THEN Release({rv[p]}) /\ Goto(p, "lock_w_first")
  ELSE Goto(p, "lock_w") /\ UNCHANGED owner

\* The search for the representative of u reads w three times without its lock:
\* is w a root, ...
Climb(p) ==
  /\ pc[p] = "climb"
  /\ IF parent[w[p]] = w[p]
     THEN FoundRepresentative(p)
     ELSE Goto(p, "climb_pending") /\ UNCHANGED owner
  /\ UNCHANGED <<tree, graph, fixedVars, locals>>

\* ... are contractions onto w pending, ...
ClimbPending(p) ==
  /\ pc[p] = "climb_pending"
  /\ IF pending[w[p]] > 0
     THEN FoundRepresentative(p)
     ELSE Goto(p, "climb_up") /\ UNCHANGED owner
  /\ UNCHANGED <<tree, graph, fixedVars, locals>>

\* ... and what is its parent.  A parent v means that u is in the subtree of v.
ClimbUp(p) ==
  /\ pc[p] = "climb_up"
  /\ w' = [w EXCEPT ![p] = parent[w[p]]]
  /\ IF parent[w[p]] = rv[p]
     THEN Release({rv[p]}) /\ Goto(p, "done")
     ELSE Goto(p, "climb") /\ UNCHANGED owner
  /\ UNCHANGED <<tree, graph, fixedVars, ru, rv, x, y, weight_after, todo>>

LockW(p) ==
  /\ pc[p] = "lock_w"
  /\ Acquire(p, w[p])
  /\ Goto(p, "recheck")
  /\ UNCHANGED <<tree, graph, fixedVars, locals>>

\* w < v: v was released, w is acquired first.
LockWFirst(p) ==
  /\ pc[p] = "lock_w_first"
  /\ Acquire(p, w[p])
  /\ Goto(p, "relock_v")
  /\ UNCHANGED <<tree, graph, fixedVars, locals>>

RelockV(p) ==
  /\ pc[p] = "relock_v"
  /\ Free(rv[p])
  /\ IF parent[rv[p]] = rv[p]
     THEN Acquire(p, rv[p]) /\ Goto(p, "recheck")
     ELSE Release({w[p]}) /\ Goto(p, "done")
  /\ UNCHANGED <<tree, graph, fixedVars, locals>>

\* Both locks are held: is w still a representative?
Recheck(p) ==
  /\ pc[p] = "recheck"
  /\ IF IsRepresentative(w[p])
     THEN /\ x' = [x EXCEPT ![p] = w[p]]
          /\ Goto(p, "cycle_check")
          /\ UNCHANGED owner
     ELSE /\ Release({w[p]})
          /\ Goto(p, "climb")
          /\ UNCHANGED x
  /\ UNCHANGED <<tree, graph, fixedVars, ru, rv, w, y, weight_after, todo>>

\* One step of the final search for a cycle; the nodes above w are not locked.
CycleCheck(p) ==
  /\ pc[p] = "cycle_check"
  /\ x' = [x EXCEPT ![p] = parent[x[p]]]
  /\ IF parent[x[p]] = rv[p]
     THEN Release({w[p], rv[p]}) /\ Goto(p, "done")
     ELSE Goto(p, "cycle_root") /\ UNCHANGED owner
  /\ UNCHANGED <<tree, graph, fixedVars, ru, rv, w, y, weight_after, todo>>

\* The search ends at a root.
CycleCheckRoot(p) ==
  /\ pc[p] = "cycle_root"
  /\ Goto(p, IF parent[x[p]] = x[p] THEN "register" ELSE "cycle_check")
  /\ UNCHANGED <<tree, graph, fixedVars, owner, locals>>

\* The contraction enters the tree and both locks are released.
Register(p) ==
  /\ pc[p] = "register"
  /\ pending' = [pending EXCEPT ![w[p]] = @ + 1]
  /\ parent' = [parent EXCEPT ![rv[p]] = w[p]]
  /\ Release({w[p], rv[p]})
  /\ NextContraction(p, rv[p])
  /\ UNCHANGED <<performed, graph, fixedVars, ru, rv, w, x, weight_after, todo>>

-----------------------------------------------------------------------------
(* DynamicHypergraph::contract *)

\* The parent is loaded without a lock; the loop ends at a root.
NextPair(p) ==
  /\ pc[p] = "next"
  /\ x' = [x EXCEPT ![p] = parent[y[p]]]
  /\ Goto(p, IF parent[y[p]] = y[p] THEN "done" ELSE "acquire_first")
  /\ UNCHANGED <<tree, graph, fixedVars, owner, ru, rv, w, y, weight_after, todo>>

\* Locks are acquired in the order of the node ids.
AcquireFirst(p) ==
  /\ pc[p] = "acquire_first"
  /\ Acquire(p, IF x[p] < y[p] THEN x[p] ELSE y[p])
  /\ Goto(p, "acquire_second")
  /\ UNCHANGED <<tree, graph, fixedVars, locals>>

AcquireSecond(p) ==
  /\ pc[p] = "acquire_second"
  /\ \E u \in {x[p], y[p]} : owner[u] # p /\ Acquire(p, u)
  /\ Goto(p, "attempt")
  /\ UNCHANGED <<tree, graph, fixedVars, locals>>

PartnerValid(v) == v \in enabled /\ pending[v] = 0

\* The contraction (u, v) is refused: it leaves the tree if it is still
\* registered, otherwise another thread takes care of v.
Refuse(p, u, v, invalid) ==
  /\ Release({u, v})
  /\ IF invalid /\ v \in enabled /\ parent[v] = u
     THEN /\ pending' = [pending EXCEPT ![u] = @ - 1]
          /\ parent' = [parent EXCEPT ![v] = v]
          /\ NextContraction(p, u)
     ELSE /\ Goto(p, "done")
          /\ UNCHANGED <<parent, pending, y>>
  /\ UNCHANGED <<performed, graph, ru, rv, w, x, weight_after, todo>>

\* Both locks are held: the conditions of a valid contraction.
Attempt(p) ==
  LET u == x[p]
      v == y[p]
      light == weight[u] + weight[v] <= MaxNodeWeight
  IN
  /\ pc[p] = "attempt"
  /\ \/ /\ ~PartnerValid(v) \/ ~light \/ DifferentBlocks(u, v)
        /\ Refuse(p, u, v, PartnerValid(v) \/ ~light)
        /\ UNCHANGED fixedVars
     \/ /\ PartnerValid(v) /\ light
        /\ ~BecomesFixed(u, v) /\ ~DifferentBlocks(u, v)
        /\ ContractInPlace(u, v)
        /\ Goto(p, "perform")
        /\ UNCHANGED <<tree, graph, owner, locals>>
     \/ /\ PartnerValid(v) /\ light
        /\ BecomesFixed(u, v)
        /\ AddBlockWeight(u, v, weight)
        /\ weight_after' = [weight_after EXCEPT ![p] = block_weight'[TheBlock(u, v)]]
        /\ Goto(p, "fixed")
        /\ UNCHANGED <<tree, graph, owner, ru, rv, w, x, y, todo>>

\* The new block weight is compared with the limit.
SettleFixed(p) ==
  LET u == x[p]
      v == y[p]
  IN
  /\ pc[p] = "fixed"
  /\ IF weight_after[p] <= MaxBlockWeight[TheBlock(u, v)]
     THEN /\ CommitFixed(u, v, weight)
          /\ Goto(p, "perform")
          /\ UNCHANGED <<tree, graph, owner, locals>>
     ELSE /\ RollbackFixed(u, v, weight)
          /\ Refuse(p, u, v, TRUE)

\* v is disabled, u takes its weight, and the locks are released.
Perform(p) ==
  LET u == x[p]
      v == y[p]
  IN
  /\ pc[p] = "perform"
  /\ weight' = [weight EXCEPT ![u] = @ + weight[v]]
  /\ enabled' = enabled \ {v}
  /\ todo' = [todo EXCEPT ![p] = nets[v]]
  /\ Release({u, v})
  /\ Goto(p, "nets")
  /\ UNCHANGED <<tree, pins, nets, fixedVars, ru, rv, w, x, y, weight_after>>

\* contractHyperedge, under the lock of the hyperedge.  A node that is contracted has
\* a net: it was rated, or it is the target of a rating.
ContractHyperedge(p) ==
  /\ pc[p] = "nets"
  /\ \E e \in todo[p] :
       /\ pins' = [pins EXCEPT ![e] = (@ \ {y[p]}) \union {x[p]}]
       /\ todo' = [todo EXCEPT ![p] = @ \ {e}]
       /\ IF todo[p] = {e} THEN Goto(p, "merge") ELSE UNCHANGED pc
  /\ UNCHANGED <<tree, enabled, weight, nets, fixedVars, owner, ru, rv, w, x, y, weight_after>>

\* _incident_nets.contract, under the lock of u.
MergeIncidentNets(p) ==
  /\ pc[p] = "merge"
  /\ Free(x[p])
  /\ nets' = [nets EXCEPT ![x[p]] = @ \union nets[y[p]]]
  /\ Goto(p, "unregister")
  /\ UNCHANGED <<tree, enabled, weight, pins, fixedVars, owner, locals>>

\* The contraction is finished, and the loop goes on with u.
Unregister(p) ==
  /\ pc[p] = "unregister"
  /\ Free(x[p])
  /\ pending' = [pending EXCEPT ![x[p]] = @ - 1]
  /\ performed' = performed \union {y[p]}
  /\ NextContraction(p, x[p])
  /\ UNCHANGED <<parent, graph, fixedVars, owner, ru, rv, w, x, weight_after, todo>>

-----------------------------------------------------------------------------
\* A contraction is performed although it is not registered any more: another thread
\* was refused it while the weight of a block was too high for a moment.
Revives(p) == pc[p] # "perform" /\ pc'[p] = "perform" /\ parent[y[p]] # x[p]

Iterate(p) ==
  /\ \/ Rate(p) \/ Skip(p)
     \/ LockV(p) \/ Climb(p) \/ ClimbPending(p) \/ ClimbUp(p)
     \/ LockW(p) \/ LockWFirst(p) \/ RelockV(p)
     \/ Recheck(p) \/ CycleCheck(p) \/ CycleCheckRoot(p) \/ Register(p)
     \/ NextPair(p) \/ AcquireFirst(p) \/ AcquireSecond(p) \/ Attempt(p)
     \/ SettleFixed(p) \/ Perform(p) \/ ContractHyperedge(p)
     \/ MergeIncidentNets(p) \/ Unregister(p)
  /\ revived' = (revived \/ Revives(p))

AllDone == \A p \in Nodes : pc[p] = "done"

PassComplete == AllDone /\ UNCHANGED vars

Next == (\E p \in Nodes : Iterate(p)) \/ PassComplete

\* A thread that can take its next step takes it eventually.
Fairness == \A p \in Nodes : WF_vars(Iterate(p))

Spec     == Init /\ [][Next]_vars
FairSpec == Spec /\ Fairness
-----------------------------------------------------------------------------
(* Properties *)

\* The type invariant of the pass.
TypeOK ==
  /\ parent \in [Nodes -> Nodes]
  /\ pending \in [Nodes -> Nat]
  /\ performed \subseteq Nodes
  /\ enabled \subseteq Nodes
  /\ weight \in [Nodes -> Nat]
  /\ owner \in [Nodes -> Nodes \union {Nobody}]
  /\ pins \in [Edges -> SUBSET Nodes]
  /\ nets \in [Nodes -> SUBSET Edges]
  /\ fixed_block \in [Nodes -> Blocks \union {NoBlock}]
  /\ contraction_cnt \in [Nodes -> Nat] /\ fixed_weight \in [Nodes -> Nat]
  /\ block_weight \in [Blocks -> Nat]

Children(u) == {v \in Nodes : parent[v] = u /\ v # u}

\* The contraction tree is a forest: "final cycle check to verify that contraction
\* of u and v will not introduce any new cycle" (registerContraction).
Forest ==
  \A S \in SUBSET Nodes : S # {} => \E u \in S : parent[u] = u \/ parent[u] \notin S

\* The locks of registerContraction exclude cycles of fewer than four nodes: two
\* registrations that miss each other's edge have no node in common.
NoShortCycle ==
  \A u \in Nodes : LET v == parent[u] IN
    u # v => parent[v] # u /\ (parent[v] # v => parent[parent[v]] # u)

\* No block is full when a thread wants to add a node to it.
NoBlockOverflow ==
  \A p \in Nodes : pc[p] = "fixed" => weight_after[p] <= MaxBlockWeight[TheBlock(x[p], y[p])]

\* The reference count of a node is the number of its children whose contraction
\* is registered and not finished, at every moment.
PendingMatchesTree ==
  ~revived => \A u \in Nodes : pending[u] = Cardinality(Children(u) \ performed)

\* A contraction that is being performed works on a representative that stays
\* enabled and a partner that nobody contracts onto.
PerformedInIsolation ==
  ~revived => \A p \in Nodes : pc[p] \in {"nets", "merge", "unregister"} =>
    /\ x[p] \in enabled /\ y[p] \notin enabled
    /\ pending[y[p]] = 0
    /\ \A q \in Nodes \ {p} :
         pc[q] \in {"perform", "nets", "merge", "unregister"} =>
           y[q] # y[p] /\ x[q] # y[p] /\ y[q] # x[p]

\* When all threads have returned no contraction is left behind
\* (ASSERT(pendingContractions() == 0) of ContractionTree::finalize): every
\* registered contraction was performed or taken back, unless it is on a cycle.
NoContractionForgotten ==
  AllDone /\ Forest /\ ~revived => /\ \A u \in Nodes : pending[u] = 0
             /\ \A u \in Nodes : parent[u] # u <=> u \notin enabled

\* The node that represents u, if the contraction tree is a forest.
Roots(u) ==
  {r \in Nodes : /\ parent[r] = r
                 /\ \A S \in SUBSET Nodes :
                      u \in S /\ (\A z \in S : parent[z] \in S) => r \in S}

\* verifyIncidenceArrayAndIncidentNets, and more: the pins of every hyperedge are
\* the representatives of its original pins, and the incident nets agree.
HypergraphConsistent ==
  AllDone /\ Forest /\ ~revived => /\ \A e \in Edges : pins[e] = UNION {Roots(u) : u \in Pins[e]}
             /\ \A e \in Edges, u \in enabled : u \in pins[e] <=> e \in nets[u]

\* Both assertions of unregisterContraction: the contraction that is finished is
\* the one that is registered.
UnregisteredIsRegistered ==
  \A p \in Nodes : pc[p] = "unregister" => parent[y[p]] = x[p] /\ pending[x[p]] > 0

\* The weight of a block is the weight of the enabled nodes fixed to it, plus what
\* threads have added and not settled, and settled weight respects the limit if the
\* input does.
BlockWeightConsistent ==
  ~revived => \A b \in Blocks :
    LET unsettled == {p \in Nodes : pc[p] = "fixed" /\ TheBlock(x[p], y[p]) = b}
        settled == block_weight[b]
                     - MapThenSumSet(LAMBDA p : DeltaWeight(x[p], y[p], weight), unsettled)
    IN  /\ InputWeight(b) <= MaxBlockWeight[b] => settled <= MaxBlockWeight[b]
        /\ settled = MapThenSumSet(LAMBDA u : weight[u], {u \in enabled : fixed_block[u] = b})

\* The nodes that an enabled node r stands for: r itself and every node from which the
\* contractions that were performed lead to r.
Cluster(r) ==
  {u \in Nodes : \A S \in SUBSET Nodes :
                   u \in S /\ (\A z \in S \ enabled : parent[z] \in S) => r \in S}

\* A cluster contains vertices that the input fixes to one block only, however many
\* contractions onto free vertices that became fixed lie between them, and its
\* representative is fixed to that block.
ClustersRespectFixedBlocks ==
  ~revived => \A r \in enabled : {InitialBlock[u] : u \in Cluster(r)} \subseteq {NoBlock, fixed_block[r]}

\* "Note that we do not allow contractions that contract fixed vertex onto a free
\* vertex", comment of FixedVertexAcceptancePolicy.  The n-level coarsener does
\* (README, section 6).
NoFixedOntoFree ==
  \A p \in Nodes : pc[p] = "fixed" => IsFixed(x[p])

\* Every iteration returns: the lock order excludes deadlocks, and the search for a
\* representative and the chain of contractions come to an end.
Termination == <>AllDone
=============================================================================
