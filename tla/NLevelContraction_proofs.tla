---------------------- MODULE NLevelContraction_proofs ----------------------
(***************************************************************************)
(* Proofs about the n-level contraction pass.                              *)
(***************************************************************************)
EXTENDS NLevelContraction, SumTheorems, TLAPS

-----------------------------------------------------------------------------
(* Locks and registration *)

Heavy(u, v) == weight[u] + weight[v] > MaxNodeWeight

Searching == {"climb", "climb_pending", "climb_up", "lock_w"}
Checking == {"cycle_check", "cycle_root", "register"}
Contracting == {"nets", "merge", "unregister"}
Steps == {"idle", "lock_v", "lock_w_first", "relock_v", "recheck", "next", "acquire_first",
          "acquire_second", "attempt", "fixed", "perform", "done"}
           \union Searching \union Checking \union Contracting

\* The nodes whose locks iteration p holds.
Held(p) ==
  {u \in Nodes : \/ pc[p] \in Searching \union Checking \union {"recheck"} /\ u = rv[p]
                 \/ pc[p] \in Checking \union {"relock_v", "recheck"} /\ u = w[p]
                 \/ pc[p] = "acquire_second" /\ u = (IF x[p] < y[p] THEN x[p] ELSE y[p])
                 \/ pc[p] \in {"attempt", "fixed", "perform"} /\ u \in {x[p], y[p]}}

Types ==
  /\ parent \in [Nodes -> Nodes] /\ pending \in [Nodes -> Int]
  /\ performed \subseteq Nodes /\ enabled \subseteq Nodes
  /\ weight \in [Nodes -> Nat]
  /\ owner \in [Nodes -> Nodes \union {Nobody}]
  /\ pins \in [Edges -> SUBSET Nodes] /\ nets \in [Nodes -> SUBSET Edges]
  /\ fixed_block \in [Nodes -> Blocks \union {NoBlock}]
  /\ pc \in [Nodes -> Steps]
  /\ ru \in [Nodes -> Nodes] /\ rv \in [Nodes -> Nodes] /\ w \in [Nodes -> Nodes]
  /\ x \in [Nodes -> Nodes] /\ y \in [Nodes -> Nodes]
  /\ todo \in [Nodes -> SUBSET Edges]

\* A lock is held by the iteration that is at a step where it needs it.
LockInv == \A p, u \in Nodes : owner[u] = p <=> u \in Held(p)

\* The node that is to be contracted is not its own representative, and nothing is
\* registered for it while it is locked.
Registers(p) ==
  /\ pc[p] = "lock_v" => ru[p] # rv[p]
  /\ pc[p] \in Searching \union Checking \union {"lock_w_first", "relock_v", "recheck"} => w[p] # rv[p]
  /\ pc[p] \in Searching \union Checking \union {"recheck"} => parent[rv[p]] = rv[p]

Contracts(p) ==
  pc[p] \in {"acquire_first", "acquire_second", "attempt", "fixed", "perform"} \union Contracting =>
    x[p] # y[p]

LocksInv == Types /\ LockInv /\ \A p \in Nodes : Registers(p) /\ Contracts(p)

-----------------------------------------------------------------------------
USE DEF Searching, Checking, Contracting

\* The types of the initial state.
LEMMA TypesInit == Init => Types
<1> SUFFICES ASSUME Init PROVE Types
  OBVIOUS
<1>1. /\ parent = [u \in Nodes |-> u] /\ pending = [u \in Nodes |-> 0]
      /\ performed = {} /\ enabled = Nodes /\ weight = NodeWeight
      /\ owner = [u \in Nodes |-> Nobody] /\ pins = Pins
      /\ nets = [u \in Nodes |-> {e \in Edges : u \in Pins[e]}]
      /\ fixed_block = InitialBlock /\ pc = [p \in Nodes |-> "idle"]
      /\ ru = [p \in Nodes |-> p] /\ rv = [p \in Nodes |-> p] /\ w = [p \in Nodes |-> p]
      /\ x = [p \in Nodes |-> p] /\ y = [p \in Nodes |-> p] /\ todo = [p \in Nodes |-> {}]
  BY Zenon DEF Init, FixedInit
<1> QED
  BY <1>1, NLevelAssumption DEF Types, Steps

-----------------------------------------------------------------------------
(* The steps of a contraction that depend on its conditions. *)

\* A contraction is refused and leaves the tree.
TakeBack(p) ==
  /\ pc[p] \in {"attempt", "fixed"} /\ y[p] \in enabled /\ parent[y[p]] = x[p]
  /\ pc[p] = "attempt" => Heavy(x[p], y[p]) \/ DifferentBlocks(x[p], y[p])
  /\ pending' = [pending EXCEPT ![x[p]] = @ - 1]
  /\ parent' = [parent EXCEPT ![y[p]] = y[p]]
  /\ Release({x[p], y[p]})
  /\ NextContraction(p, x[p])
  /\ UNCHANGED <<performed, graph, ru, rv, w, x, weight_after, todo, fixed_block>>

\* A contraction is left to somebody else.
Leave(p) ==
  /\ pc[p] \in {"attempt", "fixed"}
  /\ pc[p] = "attempt" /\ y[p] \in enabled /\ parent[y[p]] = x[p] => pending[y[p]] # 0
  /\ pc[p] = "fixed" => ~(y[p] \in enabled /\ parent[y[p]] = x[p])
  /\ Release({x[p], y[p]})
  /\ Goto(p, "done")
  /\ UNCHANGED <<tree, graph, locals, fixed_block>>

\* The conditions are satisfied; the weight of a block may have to be looked at.
Accept(p) ==
  /\ pc[p] = "attempt" /\ PartnerValid(y[p])
  /\ ~Heavy(x[p], y[p]) /\ ~DifferentBlocks(x[p], y[p])
  /\ \/ Goto(p, "perform") /\ ~BecomesFixed(x[p], y[p])
     \/ Goto(p, "fixed") /\ BecomesFixed(x[p], y[p])
  /\ UNCHANGED <<tree, graph, owner, ru, rv, w, x, y, todo, fixed_block>>

\* The weight of the block allows the contraction.
Commit(p) ==
  /\ pc[p] = "fixed" /\ Goto(p, "perform")
  /\ fixed_block' = [fixed_block EXCEPT ![x[p]] = TheBlock(x[p], y[p]), ![y[p]] = TheBlock(x[p], y[p])]
  /\ UNCHANGED <<tree, graph, owner, locals>>

\* There are no other outcomes of the two steps.
LEMMA AttemptOutcome ==
  ASSUME Types, NEW p \in Nodes, Attempt(p)
  PROVE  TakeBack(p) \/ Leave(p) \/ Accept(p)
<1> DEFINE u == x[p]
           v == y[p]
           light == weight[u] + weight[v] <= MaxNodeWeight
<1>1. light <=> ~Heavy(u, v)
  BY NLevelAssumption DEF Types, Heavy
<1>2. CASE /\ ~PartnerValid(v) \/ ~light \/ DifferentBlocks(u, v)
           /\ Refuse(p, u, v, PartnerValid(v) \/ ~light)
           /\ UNCHANGED fixedVars
  <2>1. CASE (PartnerValid(v) \/ ~light) /\ v \in enabled /\ parent[v] = u
    <3>1. Heavy(u, v) \/ DifferentBlocks(u, v)
      BY <1>1, <1>2, <2>1
    <3> QED
      BY <1>2, <2>1, <3>1 DEF Attempt, Refuse, TakeBack, fixedVars
  <2>2. CASE ~((PartnerValid(v) \/ ~light) /\ v \in enabled /\ parent[v] = u)
    <3>1. v \in enabled /\ parent[v] = u => pending[v] # 0
      BY <2>2 DEF PartnerValid
    <3>2. /\ pc[p] = "attempt" /\ Release({u, v}) /\ Goto(p, "done")
          /\ UNCHANGED <<parent, pending, y, performed, graph, ru, rv, w, x, weight_after, todo, fixed_block>>
      BY <1>2, <2>2 DEF Attempt, Refuse, fixedVars
    <3> QED
      BY <3>1, <3>2 DEF Leave, tree, locals
  <2> QED
    BY <2>1, <2>2
<1>3. CASE /\ PartnerValid(v) /\ light
           /\ ~BecomesFixed(u, v) /\ ~DifferentBlocks(u, v)
           /\ ContractInPlace(u, v)
           /\ Goto(p, "perform")
           /\ UNCHANGED <<tree, graph, owner, locals>>
  <2>1. pc[p] = "attempt" /\ UNCHANGED fixed_block
    BY <1>3 DEF Attempt, ContractInPlace
  <2>2. UNCHANGED <<tree, graph, owner, ru, rv, w, x, y, todo>>
    BY <1>3 DEF locals
  <2>3. Goto(p, "perform") /\ ~BecomesFixed(u, v)
    BY <1>3
  <2>4. PartnerValid(v) /\ ~Heavy(u, v) /\ ~DifferentBlocks(u, v)
    BY <1>1, <1>3
  <2> QED
    BY <2>1, <2>2, <2>3, <2>4 DEF Accept
<1>4. CASE /\ PartnerValid(v) /\ light
           /\ BecomesFixed(u, v)
           /\ AddBlockWeight(u, v, weight)
           /\ Goto(p, "fixed")
           /\ UNCHANGED <<tree, graph, owner, ru, rv, w, x, y, todo>>
  <2>1. ~DifferentBlocks(u, v)
    BY <1>4 DEF BecomesFixed, DifferentBlocks, IsFixed
  <2> QED
    BY <1>1, <1>4, <2>1 DEF Attempt, Accept, AddBlockWeight
<1> QED
  BY <1>2, <1>3, <1>4 DEF Attempt

\* The same for the weight of a block.
LEMMA SettleOutcome ==
  ASSUME Types, NEW p \in Nodes, SettleFixed(p)
  PROVE  TakeBack(p) \/ Leave(p) \/ Commit(p)
<1> DEFINE u == x[p]
           v == y[p]
<1>1. CASE CommitFixed(u, v, weight) /\ Goto(p, "perform") /\ UNCHANGED <<tree, graph, owner, locals>>
  BY <1>1 DEF SettleFixed, Commit, CommitFixed, MarkFixed
<1>2. CASE RollbackFixed(u, v, weight) /\ Refuse(p, u, v, TRUE)
  <2>1. CASE v \in enabled /\ parent[v] = u
    BY <1>2, <2>1 DEF SettleFixed, Refuse, TakeBack, RollbackFixed
  <2>2. CASE ~(v \in enabled /\ parent[v] = u)
    <3>2. /\ pc[p] = "fixed" /\ Release({u, v}) /\ Goto(p, "done")
          /\ UNCHANGED <<parent, pending, y, performed, graph, ru, rv, w, x, weight_after, todo, fixed_block>>
      BY <1>2, <2>2 DEF SettleFixed, Refuse, RollbackFixed
    <3> QED
      BY <2>2, <3>2 DEF Leave, tree, locals
  <2> QED
    BY <2>1, <2>2
<1> QED
  BY <1>1, <1>2 DEF SettleFixed

\* The steps of an iteration, with the outcomes in the place of the two steps.
Act(p) ==
  \/ Rate(p) \/ Skip(p)
  \/ LockV(p) \/ Climb(p) \/ ClimbPending(p) \/ ClimbUp(p)
  \/ LockW(p) \/ LockWFirst(p) \/ RelockV(p)
  \/ Recheck(p) \/ CycleCheck(p) \/ CycleCheckRoot(p) \/ Register(p)
  \/ NextPair(p) \/ AcquireFirst(p) \/ AcquireSecond(p)
  \/ TakeBack(p) \/ Leave(p) \/ Accept(p) \/ Commit(p) \/ Perform(p)
  \/ ContractHyperedge(p) \/ MergeIncidentNets(p) \/ Unregister(p)

\* Every step of an iteration is one of them.
LEMMA IterateIsAct ==
  ASSUME Types, NEW p \in Nodes, Iterate(p)
  PROVE  Act(p) /\ revived' = (revived \/ Revives(p))
BY AttemptOutcome, SettleOutcome DEF Iterate, Act

\* Every step keeps the types and the variables of other iterations.
LEMMA TypesAct ==
  ASSUME Types, NEW p \in Nodes, Act(p)
  PROVE  /\ Types'
         /\ \A q \in Nodes \ {p} : /\ pc'[q] = pc[q] /\ ru'[q] = ru[q] /\ rv'[q] = rv[q]
                                   /\ w'[q] = w[q] /\ x'[q] = x[q] /\ y'[q] = y[q]
<1> USE DEF Types, Steps, Goto, tree, graph, fixedVars, locals
<1>1. CASE Rate(p)
  BY <1>1 DEF Rate, RatingTargets
<1>2. CASE Skip(p)
  BY <1>2 DEF Skip
<1>3. CASE LockV(p)
  BY <1>3, SMTT(30) DEF LockV, Acquire, Free
<1>4. CASE Climb(p)
  BY <1>4, SMTT(30) DEF Climb, FoundRepresentative, Release
<1>5. CASE ClimbPending(p)
  BY <1>5 DEF ClimbPending, FoundRepresentative, Release
<1>6. CASE ClimbUp(p)
  BY <1>6, SMTT(30) DEF ClimbUp, Release
<1>7. CASE LockW(p)
  BY <1>7, SMTT(30) DEF LockW, Acquire
<1>8. CASE LockWFirst(p)
  BY <1>8 DEF LockWFirst, Acquire
<1>9. CASE RelockV(p)
  <2>1. CASE parent[rv[p]] = rv[p]
    BY <1>9, <2>1, SMTT(30) DEF RelockV, Acquire, Release, Free
  <2>2. CASE parent[rv[p]] # rv[p]
    BY <1>9, <2>2, SMTT(30) DEF RelockV, Acquire, Release, Free
  <2> QED
    BY <2>1, <2>2
<1>10. CASE Recheck(p)
  <2>1. CASE IsRepresentative(w[p])
    BY <1>10, <2>1 DEF Recheck
  <2>2. CASE ~IsRepresentative(w[p])
    BY <1>10, <2>2, SMTT(30) DEF Recheck, Release
  <2> QED
    BY <2>1, <2>2
<1>11. CASE CycleCheck(p)
  BY <1>11 DEF CycleCheck, Release
<1>12. CASE CycleCheckRoot(p)
  BY <1>12 DEF CycleCheckRoot
<1>13. CASE Register(p)
  BY <1>13 DEF Register, Release, NextContraction
<1>14. CASE NextPair(p)
  BY <1>14 DEF NextPair
<1>15. CASE AcquireFirst(p)
  BY <1>15 DEF AcquireFirst, Acquire
<1>16. CASE AcquireSecond(p)
  BY <1>16 DEF AcquireSecond, Acquire
<1>17. CASE TakeBack(p)
  BY <1>17 DEF TakeBack, Release, NextContraction
<1>18. CASE Leave(p)
  BY <1>18 DEF Leave, Release
<1>19. CASE Accept(p)
  BY <1>19 DEF Accept
<1>20. CASE Commit(p)
  BY <1>20 DEF Commit, TheBlock, IsFixed
<1>21. CASE Perform(p)
  BY <1>21 DEF Perform, Release
<1>22. CASE ContractHyperedge(p)
  BY <1>22, SMTT(30) DEF ContractHyperedge
<1>23. CASE MergeIncidentNets(p)
  BY <1>23 DEF MergeIncidentNets
<1>24. CASE Unregister(p)
  BY <1>24 DEF Unregister, NextContraction
<1> QED
  BY <1>1, <1>2, <1>3, <1>4, <1>5, <1>6, <1>7, <1>8, <1>9, <1>10, <1>11, <1>12, <1>13, <1>14, <1>15, <1>16, <1>17, <1>18, <1>19, <1>20, <1>21, <1>22, <1>23, <1>24 DEF Act

\* The locks of other iterations are not concerned by a step.
LEMMA HeldByOthers ==
  ASSUME Types, NEW p \in Nodes, Act(p), NEW q \in Nodes \ {p}
  PROVE  Held(q)' = Held(q)
BY TypesAct DEF Held

\* A step that takes and releases no lock.
LEMMA LocksKept ==
  ASSUME Types, LockInv, NEW p \in Nodes, Act(p), owner' = owner, Held(p)' = Held(p)
  PROVE  LockInv'
<1>1. \A q \in Nodes : Held(q)' = Held(q)
  BY HeldByOthers
<1> QED
  BY <1>1 DEF LockInv

\* A step that takes a lock that is free.
LEMMA LockTaken ==
  ASSUME Types, LockInv, NEW p \in Nodes, Act(p), NEW u \in Nodes,
         Acquire(p, u), Held(p)' = Held(p) \union {u}
  PROVE  LockInv'
<1>1. \A q \in Nodes \ {p} : Held(q)' = Held(q)
  BY HeldByOthers
<1>2. owner[u] = Nobody /\ owner' = [owner EXCEPT ![u] = p] /\ Nobody \notin Nodes
  BY FixedAssumption DEF Acquire, Free, Nobody
<1>3. \A q \in Nodes : u \notin Held(q)
  BY <1>2 DEF LockInv
<1> SUFFICES ASSUME NEW q \in Nodes, NEW v \in Nodes
             PROVE  owner'[v] = q <=> v \in Held(q)'
  BY DEF LockInv
<1>4. owner[v] = q <=> v \in Held(q)
  BY DEF LockInv
<1>5. owner'[v] = IF v = u THEN p ELSE owner[v]
  BY <1>2 DEF Types
<1>6. CASE q = p
  BY <1>3, <1>4, <1>5, <1>6
<1>7. CASE q # p
  BY <1>1, <1>3, <1>4, <1>5, <1>7
<1> QED
  BY <1>6, <1>7

\* A step that releases locks of its own.
LEMMA LocksReleased ==
  ASSUME Types, LockInv, NEW p \in Nodes, Act(p), NEW S \in SUBSET Held(p),
         Release(S), Held(p)' = Held(p) \ S
  PROVE  LockInv'
<1>1. \A q \in Nodes \ {p} : Held(q)' = Held(q)
  BY HeldByOthers
<1>2. owner' = [u \in Nodes |-> IF u \in S THEN Nobody ELSE owner[u]] /\ Nobody \notin Nodes
  BY FixedAssumption DEF Release, Nobody
<1>3. \A u \in S : u \in Nodes /\ owner[u] = p
  BY DEF LockInv, Held
<1> SUFFICES ASSUME NEW q \in Nodes, NEW v \in Nodes
             PROVE  owner'[v] = q <=> v \in Held(q)'
  BY DEF LockInv
<1>4. owner[v] = q <=> v \in Held(q)
  BY DEF LockInv
<1>5. owner'[v] = IF v \in S THEN Nobody ELSE owner[v]
  BY <1>2
<1>6. CASE q = p
  BY <1>2, <1>4, <1>5, <1>6
<1>7. CASE q # p
  BY <1>1, <1>2, <1>3, <1>4, <1>5, <1>7
<1> QED
  BY <1>6, <1>7

\* No two iterations hold a lock.
LEMMA LocksExclude ==
  ASSUME LockInv, NEW p \in Nodes, NEW q \in Nodes, NEW u, u \in Held(p), u \in Held(q)
  PROVE  p = q
BY DEF LockInv, Held

\* Every step keeps the relation between steps and locks.
LEMMA LockAct ==
  ASSUME LocksInv, NEW p \in Nodes, Act(p)
  PROVE  LockInv'
<1> USE DEF LocksInv
<1>t. Types /\ Types' /\ LockInv /\ Registers(p) /\ Contracts(p)
  BY TypesAct
<1>p. pc[p] \in Steps /\ ru[p] \in Nodes /\ rv[p] \in Nodes /\ w[p] \in Nodes /\ x[p] \in Nodes /\ y[p] \in Nodes
  BY <1>t DEF Types
<1> USE DEF Goto, tree, graph, fixedVars, locals, Types
<1>1. CASE Rate(p) \/ Skip(p) \/ CycleCheckRoot(p) \/ NextPair(p) \/ Accept(p) \/ Commit(p)
           \/ ContractHyperedge(p) \/ MergeIncidentNets(p) \/ Unregister(p)
  <2>1. owner' = owner /\ Held(p)' = Held(p)
    <3>1. CASE Rate(p)
      BY <1>t, <3>1 DEF Rate, Held
    <3>2. CASE Skip(p)
      BY <1>t, <3>2 DEF Skip, Held
    <3>3. CASE CycleCheckRoot(p)
      BY <1>t, <3>3 DEF CycleCheckRoot, Held
    <3>4. CASE NextPair(p)
      BY <1>t, <3>4 DEF NextPair, Held
    <3>5. CASE Accept(p)
      BY <1>t, <3>5 DEF Accept, Held
    <3>6. CASE Commit(p)
      BY <1>t, <3>6 DEF Commit, Held
    <3>7. CASE ContractHyperedge(p)
      BY <1>t, <3>7 DEF ContractHyperedge, Held
    <3>8. CASE MergeIncidentNets(p)
      BY <1>t, <3>8 DEF MergeIncidentNets, Held
    <3>9. CASE Unregister(p)
      BY <1>t, <3>9 DEF Unregister, NextContraction, Held
    <3> QED
      BY <1>1, <3>1, <3>2, <3>3, <3>4, <3>5, <3>6, <3>7, <3>8, <3>9
  <2> QED
    BY <1>t, <2>1, LocksKept
<1>2. CASE LockV(p)
  <2>1. CASE parent[rv[p]] = rv[p]
    <3>1. Acquire(p, rv[p]) /\ Held(p)' = Held(p) \union {rv[p]}
      BY <1>2, <1>p, <2>1 DEF LockV, Held
    <3> QED
      BY <1>t, <1>p, <3>1, LockTaken
  <2>2. CASE parent[rv[p]] # rv[p]
    <3>1. owner' = owner /\ Held(p)' = Held(p)
      BY <1>2, <1>p, <2>2 DEF LockV, Held
    <3> QED
      BY <1>t, <3>1, LocksKept
  <2> QED
    BY <2>1, <2>2
<1>3. CASE Climb(p) \/ ClimbPending(p)
  <2>1. CASE FoundRepresentative(p) /\ w[p] < rv[p]
    <3>1. Release({rv[p]}) /\ {rv[p]} \in SUBSET Held(p) /\ Held(p)' = Held(p) \ {rv[p]}
      BY <1>3, <1>p, <2>1 DEF Climb, ClimbPending, FoundRepresentative, Held
    <3> QED
      BY <1>t, <3>1, LocksReleased
  <2>2. CASE \/ FoundRepresentative(p) /\ ~(w[p] < rv[p])
             \/ UNCHANGED owner /\ (Goto(p, "climb_pending") \/ Goto(p, "climb_up"))
    <3>1. owner' = owner /\ Held(p)' = Held(p)
      BY <1>3, <1>p, <2>2 DEF Climb, ClimbPending, FoundRepresentative, Held
    <3> QED
      BY <1>t, <3>1, LocksKept
  <2> QED
    BY <1>3, <2>1, <2>2 DEF Climb, ClimbPending
<1>4. CASE ClimbUp(p)
  <2>1. CASE parent[w[p]] = rv[p]
    <3>1. Release({rv[p]}) /\ {rv[p]} \in SUBSET Held(p) /\ Held(p)' = Held(p) \ {rv[p]}
      BY <1>4, <1>p, <2>1 DEF ClimbUp, Held
    <3> QED
      BY <1>t, <3>1, LocksReleased
  <2>2. CASE parent[w[p]] # rv[p]
    <3>1. owner' = owner /\ Held(p)' = Held(p)
      BY <1>4, <1>p, <2>2 DEF ClimbUp, Held
    <3> QED
      BY <1>t, <3>1, LocksKept
  <2> QED
    BY <2>1, <2>2
<1>5. CASE LockW(p) \/ LockWFirst(p)
  <2>1. Acquire(p, w[p]) /\ Held(p)' = Held(p) \union {w[p]}
    BY <1>5, <1>p DEF LockW, LockWFirst, Held
  <2> QED
    BY <1>t, <1>p, <2>1, LockTaken
<1>6. CASE RelockV(p)
  <2>1. CASE parent[rv[p]] = rv[p]
    <3>1. Acquire(p, rv[p]) /\ Held(p)' = Held(p) \union {rv[p]}
      BY <1>6, <1>p, <2>1 DEF RelockV, Held
    <3> QED
      BY <1>t, <1>p, <3>1, LockTaken
  <2>2. CASE parent[rv[p]] # rv[p]
    <3>1. Release({w[p]}) /\ {w[p]} \in SUBSET Held(p) /\ Held(p)' = Held(p) \ {w[p]}
      BY <1>6, <1>p, <2>2 DEF RelockV, Held
    <3> QED
      BY <1>t, <3>1, LocksReleased
  <2> QED
    BY <2>1, <2>2
<1>7. CASE Recheck(p)
  <2>1. CASE IsRepresentative(w[p])
    <3>1. owner' = owner /\ Held(p)' = Held(p)
      BY <1>7, <1>p, <2>1 DEF Recheck, Held
    <3> QED
      BY <1>t, <3>1, LocksKept
  <2>2. CASE ~IsRepresentative(w[p])
    <3>1. Release({w[p]}) /\ {w[p]} \in SUBSET Held(p) /\ Held(p)' = Held(p) \ {w[p]}
      BY <1>7, <1>p, <1>t, <2>2 DEF Recheck, Held, Registers
    <3> QED
      BY <1>t, <3>1, LocksReleased
  <2> QED
    BY <2>1, <2>2
<1>8. CASE CycleCheck(p)
  <2>1. CASE parent[x[p]] = rv[p]
    <3>1. Release({w[p], rv[p]}) /\ {w[p], rv[p]} \in SUBSET Held(p) /\ Held(p)' = Held(p) \ {w[p], rv[p]}
      BY <1>8, <1>p, <2>1 DEF CycleCheck, Held
    <3> QED
      BY <1>t, <3>1, LocksReleased
  <2>2. CASE parent[x[p]] # rv[p]
    <3>1. owner' = owner /\ Held(p)' = Held(p)
      BY <1>8, <1>p, <2>2 DEF CycleCheck, Held
    <3> QED
      BY <1>t, <3>1, LocksKept
  <2> QED
    BY <2>1, <2>2
<1>9. CASE Register(p)
  <2>1. Release({w[p], rv[p]}) /\ {w[p], rv[p]} \in SUBSET Held(p) /\ Held(p)' = Held(p) \ {w[p], rv[p]}
    BY <1>9, <1>p DEF Register, NextContraction, Held
  <2> QED
    BY <1>t, <2>1, LocksReleased
<1>10. CASE AcquireFirst(p)
  <2> DEFINE u == IF x[p] < y[p] THEN x[p] ELSE y[p]
  <2>1. Acquire(p, u) /\ Held(p)' = Held(p) \union {u} /\ u \in Nodes
    BY <1>10, <1>p DEF AcquireFirst, Held
  <2> QED
    BY <1>t, <2>1, LockTaken
<1>11. CASE AcquireSecond(p)
  <2>1. PICK u \in {x[p], y[p]} : owner[u] # p /\ Acquire(p, u)
    BY <1>11 DEF AcquireSecond
  <2> DEFINE v == IF x[p] < y[p] THEN x[p] ELSE y[p]
  <2>2. Held(p) = {v} /\ v \in {x[p], y[p]}
    BY <1>11, <1>p DEF AcquireSecond, Held
  <2>3. u \in Nodes /\ u # v
    BY <1>p, <1>t, <2>1, <2>2 DEF LockInv
  <2>4. Held(p)' = {x[p], y[p]}
    BY <1>11, <1>p, <1>t DEF AcquireSecond, Held
  <2>5. Held(p)' = Held(p) \union {u}
    BY <2>1, <2>2, <2>3, <2>4
  <2> QED
    BY <1>t, <2>1, <2>3, <2>5, LockTaken
<1>12. CASE TakeBack(p) \/ Leave(p) \/ Perform(p)
  <2>1. Release({x[p], y[p]}) /\ {x[p], y[p]} \in SUBSET Held(p) /\ Held(p)' = Held(p) \ {x[p], y[p]}
    <3>1. CASE TakeBack(p)
      BY <3>1, <1>p, <1>t DEF TakeBack, NextContraction, Held
    <3>2. CASE Leave(p)
      BY <3>2, <1>p, <1>t DEF Leave, Held
    <3>3. CASE Perform(p)
      BY <3>3, <1>p, <1>t DEF Perform, Held
    <3> QED
      BY <1>12, <3>1, <3>2, <3>3
  <2> QED
    BY <1>t, <2>1, LocksReleased
<1> QED
  BY <1>1, <1>2, <1>3, <1>4, <1>5, <1>6, <1>7, <1>8, <1>9, <1>10, <1>11, <1>12 DEF Act

\* What is registered changes in two steps only: by the iteration that holds the lock
\* of the node, or back to nothing.
LEMMA ParentChanges ==
  ASSUME Types, NEW p \in Nodes, Act(p)
  PROVE  \/ parent' = parent
         \/ Register(p) /\ parent' = [parent EXCEPT ![rv[p]] = w[p]]
         \/ TakeBack(p) /\ parent' = [parent EXCEPT ![y[p]] = y[p]]
<1> USE DEF tree
<1>1. CASE Rate(p)
  BY <1>1 DEF Rate
<1>2. CASE Skip(p)
  BY <1>2 DEF Skip
<1>3. CASE LockV(p)
  BY <1>3 DEF LockV
<1>4. CASE Climb(p)
  BY <1>4 DEF Climb
<1>5. CASE ClimbPending(p)
  BY <1>5 DEF ClimbPending
<1>6. CASE ClimbUp(p)
  BY <1>6 DEF ClimbUp
<1>7. CASE LockW(p)
  BY <1>7 DEF LockW
<1>8. CASE LockWFirst(p)
  BY <1>8 DEF LockWFirst
<1>9. CASE RelockV(p)
  BY <1>9 DEF RelockV
<1>10. CASE Recheck(p)
  BY <1>10 DEF Recheck
<1>11. CASE CycleCheck(p)
  BY <1>11 DEF CycleCheck
<1>12. CASE CycleCheckRoot(p)
  BY <1>12 DEF CycleCheckRoot
<1>13. CASE Register(p)
  BY <1>13 DEF Register
<1>14. CASE NextPair(p)
  BY <1>14 DEF NextPair
<1>15. CASE AcquireFirst(p)
  BY <1>15 DEF AcquireFirst
<1>16. CASE AcquireSecond(p)
  BY <1>16 DEF AcquireSecond
<1>17. CASE TakeBack(p)
  BY <1>17 DEF TakeBack
<1>18. CASE Leave(p)
  BY <1>18 DEF Leave
<1>19. CASE Accept(p)
  BY <1>19 DEF Accept
<1>20. CASE Commit(p)
  BY <1>20 DEF Commit
<1>21. CASE Perform(p)
  BY <1>21 DEF Perform
<1>22. CASE ContractHyperedge(p)
  BY <1>22 DEF ContractHyperedge
<1>23. CASE MergeIncidentNets(p)
  BY <1>23 DEF MergeIncidentNets
<1>24. CASE Unregister(p)
  BY <1>24 DEF Unregister
<1> QED
  BY <1>1, <1>2, <1>3, <1>4, <1>5, <1>6, <1>7, <1>8, <1>9, <1>10, <1>11, <1>12, <1>13, <1>14, <1>15, <1>16, <1>17, <1>18, <1>19, <1>20, <1>21, <1>22, <1>23, <1>24 DEF Act

\* The step of p itself.
LEMMA RegistersOwn ==
  ASSUME LocksInv, NEW p \in Nodes, Act(p)
  PROVE  Registers(p)' /\ Contracts(p)'
<1>t. Types /\ Types' /\ Registers(p) /\ Contracts(p)
  BY TypesAct DEF LocksInv
<1> USE DEF Goto, tree, graph, fixedVars, locals, Types, Registers, Contracts
<1>1. CASE Rate(p)
  BY <1>t, <1>1 DEF Rate, RatingTargets
<1>2. CASE Skip(p)
  BY <1>t, <1>2 DEF Skip
<1>3. CASE LockV(p)
  BY <1>t, <1>3 DEF LockV
<1>4. CASE Climb(p)
  BY <1>t, <1>4 DEF Climb, FoundRepresentative
<1>5. CASE ClimbPending(p)
  BY <1>t, <1>5 DEF ClimbPending, FoundRepresentative
<1>6. CASE ClimbUp(p)
  BY <1>t, <1>6 DEF ClimbUp
<1>7. CASE LockW(p)
  BY <1>t, <1>7 DEF LockW
<1>8. CASE LockWFirst(p)
  BY <1>t, <1>8 DEF LockWFirst
<1>9. CASE RelockV(p)
  BY <1>t, <1>9 DEF RelockV
<1>10. CASE Recheck(p)
  BY <1>t, <1>10 DEF Recheck
<1>11. CASE CycleCheck(p)
  BY <1>t, <1>11 DEF CycleCheck
<1>12. CASE CycleCheckRoot(p)
  BY <1>t, <1>12 DEF CycleCheckRoot
<1>13. CASE Register(p)
  BY <1>t, <1>13 DEF Register, NextContraction
<1>14. CASE NextPair(p)
  BY <1>t, <1>14 DEF NextPair
<1>15. CASE AcquireFirst(p)
  BY <1>t, <1>15 DEF AcquireFirst
<1>16. CASE AcquireSecond(p)
  BY <1>t, <1>16 DEF AcquireSecond
<1>17. CASE TakeBack(p)
  BY <1>t, <1>17 DEF TakeBack, NextContraction
<1>18. CASE Leave(p)
  BY <1>t, <1>18 DEF Leave
<1>19. CASE Accept(p)
  BY <1>t, <1>19 DEF Accept
<1>20. CASE Commit(p)
  BY <1>t, <1>20 DEF Commit
<1>21. CASE Perform(p)
  BY <1>t, <1>21 DEF Perform
<1>22. CASE ContractHyperedge(p)
  BY <1>t, <1>22 DEF ContractHyperedge
<1>23. CASE MergeIncidentNets(p)
  BY <1>t, <1>23 DEF MergeIncidentNets
<1>24. CASE Unregister(p)
  BY <1>t, <1>24 DEF Unregister, NextContraction
<1> QED
  BY <1>1, <1>2, <1>3, <1>4, <1>5, <1>6, <1>7, <1>8, <1>9, <1>10, <1>11, <1>12, <1>13, <1>14, <1>15, <1>16, <1>17, <1>18, <1>19, <1>20, <1>21, <1>22, <1>23, <1>24 DEF Act

\* The step of p does not concern what other iterations register.
LEMMA RegistersOthers ==
  ASSUME LocksInv, NEW p \in Nodes, Act(p), NEW q \in Nodes \ {p}
  PROVE  Registers(q)' /\ Contracts(q)'
<1>t. Types /\ Types' /\ LockInv /\ Registers(q) /\ Contracts(q)
  BY TypesAct DEF LocksInv
<1>1. /\ pc'[q] = pc[q] /\ ru'[q] = ru[q] /\ rv'[q] = rv[q] /\ w'[q] = w[q] /\ x'[q] = x[q] /\ y'[q] = y[q]
  BY <1>t, TypesAct
<1>2. Contracts(q)'
  BY <1>1, <1>t DEF Contracts
<1>3. ASSUME pc[q] \in Searching \union Checking \union {"recheck"}
      PROVE  parent'[rv[q]] = rv[q]
  <2>1. parent[rv[q]] = rv[q] /\ rv[q] \in Held(q) /\ rv[q] \in Nodes
    BY <1>3, <1>t DEF Registers, Held, Types
  <2>2. CASE parent' = parent
    BY <2>1, <2>2
  <2>3. CASE Register(p) /\ parent' = [parent EXCEPT ![rv[p]] = w[p]]
    <3>1. rv[p] \in Held(p)
      BY <1>t, <2>3 DEF Register, Held, Types
    <3>2. rv[p] # rv[q]
      BY <1>t, <2>1, <3>1, LocksExclude
    <3> QED
      BY <1>t, <2>1, <2>3, <3>2 DEF Types
  <2>4. CASE TakeBack(p) /\ parent' = [parent EXCEPT ![y[p]] = y[p]]
    BY <1>t, <2>1, <2>4 DEF Types
  <2> QED
    BY <1>t, <2>2, <2>3, <2>4, ParentChanges
<1>4. Registers(q)'
  BY <1>1, <1>3, <1>t DEF Registers
<1> QED
  BY <1>2, <1>4

\* Every step keeps the invariant of the locks.
LEMMA LocksStep == LocksInv /\ [Next]_vars => LocksInv'
<1> SUFFICES ASSUME LocksInv, [Next]_vars PROVE LocksInv'
  OBVIOUS
<1>1. CASE UNCHANGED vars
  BY <1>1 DEF vars, tree, graph, fixedVars, locals, LocksInv, Types, LockInv, Held, Registers, Contracts
<1>2. ASSUME NEW p \in Nodes, Iterate(p) PROVE LocksInv'
  <2>1. Act(p)
    BY <1>2, IterateIsAct DEF LocksInv
  <2>2. Types'
    BY <2>1, TypesAct DEF LocksInv
  <2>3. \A q \in Nodes : Registers(q)' /\ Contracts(q)'
    BY <2>1, RegistersOwn, RegistersOthers
  <2> QED
    BY <2>1, <2>2, <2>3, LockAct DEF LocksInv
<1> QED
  BY <1>1, <1>2 DEF Next, PassComplete

\* It holds initially.
LEMMA LocksStart == Init => LocksInv
<1> SUFFICES ASSUME Init PROVE LocksInv
  OBVIOUS
<1>1. pc = [p \in Nodes |-> "idle"] /\ owner = [u \in Nodes |-> Nobody]
  BY Zenon DEF Init
<1>2. LockInv
  <2>1. \A p \in Nodes : Held(p) = {}
    BY <1>1 DEF Held
  <2>2. Nobody \notin Nodes
    BY FixedAssumption DEF Nobody
  <2> QED
    BY <1>1, <2>1, <2>2 DEF LockInv
<1>3. \A p \in Nodes : Registers(p) /\ Contracts(p)
  BY <1>1 DEF Registers, Contracts
<1> QED
  BY <1>2, <1>3, TypesInit DEF LocksInv

-----------------------------------------------------------------------------
(* Short cycles *)

\* How far the final search for a cycle has come: it has read the parent of w, and the
\* parent of that node.
SeenParent(p) ==
  pc[p] \in {"cycle_root", "register"} \/ (pc[p] = "cycle_check" /\ x[p] # w[p])
SeenGrandparent(p) ==
  \/ pc[p] = "register"
  \/ pc[p] = "cycle_root" /\ x[p] # parent[w[p]]
  \/ pc[p] = "cycle_check" /\ x[p] # w[p] /\ x[p] # parent[w[p]]

\* What it has read is still true: w is locked, and so is v.
Passed(p) ==
  /\ SeenParent(p) => parent[w[p]] # rv[p]
  /\ SeenGrandparent(p) => parent[parent[w[p]]] # rv[p]

CycleInv == NoShortCycle /\ \A p \in Nodes : Passed(p)

\* The search itself goes on.
LEMMA PassedOwn ==
  ASSUME LocksInv, NEW p \in Nodes, Act(p), Passed(p)
  PROVE  Passed(p)'
<1>t. Types /\ Types'
  BY TypesAct DEF LocksInv
<1>p. w[p] \in Nodes /\ rv[p] \in Nodes /\ x[p] \in Nodes /\ parent[w[p]] \in Nodes /\ pc[p] \in Steps
  BY <1>t DEF Types
<1> USE DEF Goto, tree, graph, fixedVars, locals, Types, Passed, SeenParent, SeenGrandparent
<1>1. CASE Rate(p)
  BY <1>t, <1>p, <1>1 DEF Rate
<1>2. CASE Skip(p)
  BY <1>t, <1>p, <1>2 DEF Skip
<1>3. CASE LockV(p)
  BY <1>t, <1>p, <1>3 DEF LockV
<1>4. CASE Climb(p)
  BY <1>t, <1>p, <1>4 DEF Climb, FoundRepresentative
<1>5. CASE ClimbPending(p)
  BY <1>t, <1>p, <1>5 DEF ClimbPending, FoundRepresentative
<1>6. CASE ClimbUp(p)
  BY <1>t, <1>p, <1>6 DEF ClimbUp
<1>7. CASE LockW(p)
  BY <1>t, <1>p, <1>7 DEF LockW
<1>8. CASE LockWFirst(p)
  BY <1>t, <1>p, <1>8 DEF LockWFirst
<1>9. CASE RelockV(p)
  BY <1>t, <1>p, <1>9 DEF RelockV
<1>10. CASE Recheck(p)
  BY <1>t, <1>p, <1>10 DEF Recheck
<1>11. CASE CycleCheck(p)
  BY <1>t, <1>p, <1>11 DEF CycleCheck
<1>12. CASE CycleCheckRoot(p)
  BY <1>t, <1>p, <1>12 DEF CycleCheckRoot
<1>13. CASE Register(p)
  BY <1>t, <1>p, <1>13 DEF Register, NextContraction
<1>14. CASE NextPair(p)
  BY <1>t, <1>p, <1>14 DEF NextPair
<1>15. CASE AcquireFirst(p)
  BY <1>t, <1>p, <1>15 DEF AcquireFirst
<1>16. CASE AcquireSecond(p)
  BY <1>t, <1>p, <1>16 DEF AcquireSecond
<1>17. CASE TakeBack(p)
  BY <1>t, <1>p, <1>17 DEF TakeBack, NextContraction
<1>18. CASE Leave(p)
  BY <1>t, <1>p, <1>18 DEF Leave
<1>19. CASE Accept(p)
  BY <1>t, <1>p, <1>19 DEF Accept
<1>20. CASE Commit(p)
  BY <1>t, <1>p, <1>20 DEF Commit
<1>21. CASE Perform(p)
  BY <1>t, <1>p, <1>21 DEF Perform
<1>22. CASE ContractHyperedge(p)
  BY <1>t, <1>p, <1>22 DEF ContractHyperedge
<1>23. CASE MergeIncidentNets(p)
  BY <1>t, <1>p, <1>23 DEF MergeIncidentNets
<1>24. CASE Unregister(p)
  BY <1>t, <1>p, <1>24 DEF Unregister, NextContraction
<1> QED
  BY <1>1, <1>2, <1>3, <1>4, <1>5, <1>6, <1>7, <1>8, <1>9, <1>10, <1>11, <1>12, <1>13, <1>14, <1>15, <1>16, <1>17, <1>18, <1>19, <1>20, <1>21, <1>22, <1>23, <1>24 DEF Act

\* Other iterations cannot invalidate it.
LEMMA PassedOthers ==
  ASSUME LocksInv, NEW p \in Nodes, Act(p), NEW q \in Nodes \ {p}, Passed(q)
  PROVE  Passed(q)'
<1>t. Types /\ Types' /\ LockInv
  BY TypesAct DEF LocksInv
<1>1. pc'[q] = pc[q] /\ rv'[q] = rv[q] /\ w'[q] = w[q] /\ x'[q] = x[q]
  BY <1>t, TypesAct
<1>2. CASE pc[q] \notin Checking
  BY <1>1, <1>2 DEF Passed, SeenParent, SeenGrandparent
<1>3. CASE pc[q] \in Checking
  <2>1. w[q] \in Held(q) /\ rv[q] \in Held(q) /\ w[q] \in Nodes /\ rv[q] \in Nodes /\ parent[w[q]] \in Nodes
    BY <1>3, <1>t DEF Held, Types
  <2>2. CASE parent' = parent
    BY <1>1, <2>2 DEF Passed, SeenParent, SeenGrandparent
  <2>3. CASE Register(p) /\ parent' = [parent EXCEPT ![rv[p]] = w[p]]
    <3>1. rv[p] \in Held(p) /\ w[p] \in Held(p)
      BY <1>t, <2>3 DEF Register, Held, Types
    <3>2. rv[p] # w[q] /\ w[p] # rv[q]
      BY <1>t, <2>1, <3>1, LocksExclude
    <3>3. /\ parent'[w[q]] = parent[w[q]]
          /\ parent'[parent[w[q]]] = parent[parent[w[q]]] \/ parent'[parent[w[q]]] # rv[q]
      BY <1>t, <2>1, <2>3, <3>2 DEF Types
    <3> QED
      BY <1>1, <3>3 DEF Passed, SeenParent, SeenGrandparent
  <2>4. CASE TakeBack(p) /\ parent' = [parent EXCEPT ![y[p]] = y[p]]
    <3>1. y[p] \in Held(p)
      BY <1>t, <2>4 DEF TakeBack, Held, Types
    <3>2. y[p] # w[q]
      BY <1>t, <2>1, <3>1, LocksExclude
    <3>3. /\ parent'[w[q]] = parent[w[q]]
          /\ parent'[parent[w[q]]] \in {parent[parent[w[q]]], parent[w[q]]}
      BY <1>t, <2>1, <2>4, <3>2 DEF Types
    <3>4. SeenGrandparent(q) => SeenParent(q)
      BY DEF SeenParent, SeenGrandparent
    <3>5. SeenParent(q)' = SeenParent(q) /\ SeenGrandparent(q)' = SeenGrandparent(q)
      BY <1>1, <3>3 DEF SeenParent, SeenGrandparent
    <3> QED
      BY <1>1, <3>3, <3>4, <3>5 DEF Passed
  <2> QED
    BY <1>t, <2>2, <2>3, <2>4, ParentChanges
<1> QED
  BY <1>2, <1>3

\* A registration that has passed the search closes no short cycle.
LEMMA ShortCycleAct ==
  ASSUME LocksInv, NoShortCycle, NEW p \in Nodes, Act(p), Passed(p)
  PROVE  NoShortCycle'
<1>t. Types /\ Registers(p) /\ Contracts(p)
  BY DEF LocksInv
<1>1. CASE parent' = parent
  BY <1>1 DEF NoShortCycle
<1>2. CASE Register(p) /\ parent' = [parent EXCEPT ![rv[p]] = w[p]]
  <2> DEFINE v == rv[p]
             r == w[p]
  <2>1. /\ v \in Nodes /\ r \in Nodes /\ v # r /\ parent[v] = v
        /\ parent[r] # v /\ parent[parent[r]] # v
    BY <1>t, <1>2 DEF Register, Registers, Types, Passed, SeenParent, SeenGrandparent
  <2>2. \A u \in Nodes : parent[u] \in Nodes /\ parent'[u] = IF u = v THEN r ELSE parent[u]
    BY <1>t, <1>2, <2>1 DEF Types
  <2> HIDE DEF v, r
  <2> QED
    BY <2>1, <2>2 DEF NoShortCycle
<1>3. CASE TakeBack(p) /\ parent' = [parent EXCEPT ![y[p]] = y[p]]
  <2>1. \A u \in Nodes : parent[u] \in Nodes /\ parent'[u] = IF u = y[p] THEN y[p] ELSE parent[u]
    BY <1>t, <1>3 DEF Types
  <2> QED
    BY <2>1 DEF NoShortCycle
<1> QED
  BY <1>t, <1>1, <1>2, <1>3, ParentChanges

\* The contraction tree has no cycle of two or three nodes, whatever the threads do: the
\* locks of registerContraction exclude what the final search for a cycle would miss.
THEOREM ShortCyclesExcluded == Spec => []NoShortCycle
<1>1. Init => LocksInv /\ CycleInv
  <2> SUFFICES ASSUME Init PROVE CycleInv
    BY LocksStart
  <2>1. parent = [u \in Nodes |-> u] /\ pc = [p \in Nodes |-> "idle"]
    BY Zenon DEF Init
  <2> QED
    BY <2>1 DEF CycleInv, NoShortCycle, Passed, SeenParent, SeenGrandparent
<1>2. LocksInv /\ CycleInv /\ [Next]_vars => LocksInv' /\ CycleInv'
  <2> SUFFICES ASSUME LocksInv, CycleInv, [Next]_vars PROVE CycleInv'
    BY LocksStep
  <2>1. CASE UNCHANGED vars
    BY <2>1 DEF vars, tree, locals, CycleInv, NoShortCycle, Passed, SeenParent, SeenGrandparent
  <2>2. ASSUME NEW p \in Nodes, Iterate(p) PROVE CycleInv'
    <3>1. Act(p)
      BY <2>2, IterateIsAct DEF LocksInv
    <3>2. \A q \in Nodes : Passed(q)'
      BY <3>1, PassedOwn, PassedOthers DEF CycleInv
    <3>3. NoShortCycle'
      BY <3>1, ShortCycleAct DEF CycleInv
    <3> QED
      BY <3>2, <3>3 DEF CycleInv
  <2> QED
    BY <2>1, <2>2 DEF Next, PassComplete
<1>3. CycleInv => NoShortCycle
  BY DEF CycleInv
<1> QED
  BY <1>1, <1>2, <1>3, PTL DEF Spec

-----------------------------------------------------------------------------
(* The contraction tree *)

\* A representative that is locked stays one.
Represents(p) == pc[p] \in Checking => IsRepresentative(w[p])

\* Nobody contracts onto the partner of a contraction that is performed, and the
\* contraction is registered.
Commits(p) ==
  pc[p] \in {"fixed", "perform"} \union Contracting =>
    /\ pending[y[p]] = 0 /\ y[p] \notin performed
    /\ pc[p] # "fixed" => parent[y[p]] = x[p]
    /\ y[p] \in enabled <=> pc[p] \notin Contracting

\* No two iterations perform the same contraction.
OnePerformer == \A p, q \in Nodes :
  p # q /\ pc[p] \in Contracting /\ pc[q] \in Contracting => y[p] # y[q]

\* Nodes with a finished contraction are disabled, disabled nodes are registered, and
\* the parent of an unfinished contraction is enabled.
NodesInv ==
  /\ \A u \in performed : u \notin enabled
  /\ \A u \in Nodes \ enabled : parent[u] # u
  /\ \A u \in Nodes : parent[u] # u /\ u \notin performed => parent[u] \in enabled

PendingInv == \A u \in Nodes : pending[u] = Cardinality(Children(u) \ performed)

TreeInv ==
  /\ \A p \in Nodes : Represents(p) /\ Commits(p)
  /\ OnePerformer /\ NodesInv /\ PendingInv

\* The children of a node are finitely many; an unfinished one counts.
LEMMA UnfinishedChild ==
  ASSUME Types, PendingInv, NEW v \in Nodes, parent[v] # v, v \notin performed
  PROVE  pending[parent[v]] > 0
<1> DEFINE S == Children(parent[v]) \ performed
<1>1. parent[v] \in Nodes /\ v \in S
  BY DEF Types, Children
<1>2. IsFiniteSet(S)
  BY NLevelAssumption, FS_Subset DEF Children
<1> HIDE DEF S
<1>3. Cardinality(S) \in Nat /\ Cardinality(S) # 0
  BY <1>1, <1>2, FS_CardinalityType, FS_EmptySet
<1> QED
  BY <1>1, <1>3 DEF PendingInv, S

\* The other way round: a count above zero has an unfinished child.
LEMMA UnfinishedExists ==
  ASSUME Types, PendingInv, NEW u \in Nodes, pending[u] # 0
  PROVE  \E v \in Nodes : parent[v] = u /\ v # u /\ v \notin performed
<1>1. Children(u) \ performed # {}
  BY FS_EmptySet DEF PendingInv
<1> QED
  BY <1>1 DEF Children

\* A representative is enabled.
LEMMA RepresentativeEnabled ==
  ASSUME Types, NodesInv, PendingInv, NEW u \in Nodes, IsRepresentative(u)
  PROVE  u \in enabled
<1>1. CASE parent[u] = u
  BY <1>1 DEF NodesInv
<1>2. CASE pending[u] > 0
  <2>0. pending[u] # 0
    BY <1>2 DEF Types
  <2>1. \E v \in Nodes : parent[v] = u /\ v # u /\ v \notin performed
    BY <2>0, UnfinishedExists
  <2> QED
    BY <2>1 DEF NodesInv
<1> QED
  BY <1>1, <1>2 DEF IsRepresentative

\* A step that leaves the tree alone.
LEMMA QuietTree ==
  ASSUME Types, TreeInv, NEW p \in Nodes, Act(p),
         UNCHANGED <<parent, pending, performed, enabled>>,
         Represents(p)', Commits(p)',
         pc'[p] \in Contracting => pc[p] \in Contracting /\ y'[p] = y[p]
  PROVE  TreeInv'
<1>1. \A q \in Nodes \ {p} : pc'[q] = pc[q] /\ w'[q] = w[q] /\ x'[q] = x[q] /\ y'[q] = y[q]
  BY TypesAct
<1>2. \A q \in Nodes : Represents(q)'
  BY <1>1 DEF TreeInv, Represents, IsRepresentative
<1>3. \A q \in Nodes : Commits(q)'
  BY <1>1 DEF TreeInv, Commits
<1>4. OnePerformer'
  BY <1>1 DEF TreeInv, OnePerformer
<1>5. NodesInv' /\ PendingInv'
  BY DEF TreeInv, NodesInv, PendingInv, Children
<1> QED
  BY <1>2, <1>3, <1>4, <1>5 DEF TreeInv

\* The steps that do: everything but the registration of a contraction and its end.
LEMMA QuietSteps ==
  ASSUME LocksInv, TreeInv, NEW p \in Nodes, Act(p), ~Revives(p),
         ~Register(p), ~TakeBack(p), ~Perform(p), ~Unregister(p)
  PROVE  TreeInv'
<1>t. Types /\ Types' /\ Represents(p) /\ Commits(p) /\ NodesInv
  BY TypesAct DEF LocksInv, TreeInv
<1> DEFINE Quiet == /\ UNCHANGED <<parent, pending, performed, enabled>>
                    /\ Represents(p)' /\ Commits(p)'
                    /\ pc'[p] \in Contracting => pc[p] \in Contracting /\ y'[p] = y[p]
<1> USE DEF Goto, tree, graph, fixedVars, locals, Types, Represents, Commits, IsRepresentative
<1>1. CASE Rate(p)
  <2>1. Quiet
    BY <1>t, <1>1 DEF Rate
  <2> QED
    BY <1>t, <2>1, QuietTree
<1>2. CASE Skip(p)
  <2>1. Quiet
    BY <1>t, <1>2 DEF Skip
  <2> QED
    BY <1>t, <2>1, QuietTree
<1>3. CASE LockV(p)
  <2>1. Quiet
    BY <1>t, <1>3 DEF LockV
  <2> QED
    BY <1>t, <2>1, QuietTree
<1>4. CASE Climb(p)
  <2>1. Quiet
    BY <1>t, <1>4 DEF Climb, FoundRepresentative
  <2> QED
    BY <1>t, <2>1, QuietTree
<1>5. CASE ClimbPending(p)
  <2>1. Quiet
    BY <1>t, <1>5 DEF ClimbPending, FoundRepresentative
  <2> QED
    BY <1>t, <2>1, QuietTree
<1>6. CASE ClimbUp(p)
  <2>1. Quiet
    BY <1>t, <1>6 DEF ClimbUp
  <2> QED
    BY <1>t, <2>1, QuietTree
<1>7. CASE LockW(p)
  <2>1. Quiet
    BY <1>t, <1>7 DEF LockW
  <2> QED
    BY <1>t, <2>1, QuietTree
<1>8. CASE LockWFirst(p)
  <2>1. Quiet
    BY <1>t, <1>8 DEF LockWFirst
  <2> QED
    BY <1>t, <2>1, QuietTree
<1>9. CASE RelockV(p)
  <2>1. Quiet
    BY <1>t, <1>9 DEF RelockV
  <2> QED
    BY <1>t, <2>1, QuietTree
<1>10. CASE Recheck(p)
  <2>1. Quiet
    BY <1>t, <1>10 DEF Recheck
  <2> QED
    BY <1>t, <2>1, QuietTree
<1>11. CASE CycleCheck(p)
  <2>1. Quiet
    BY <1>t, <1>11 DEF CycleCheck
  <2> QED
    BY <1>t, <2>1, QuietTree
<1>12. CASE CycleCheckRoot(p)
  <2>1. Quiet
    BY <1>t, <1>12 DEF CycleCheckRoot
  <2> QED
    BY <1>t, <2>1, QuietTree
<1>13. CASE NextPair(p)
  <2>1. Quiet
    BY <1>t, <1>13 DEF NextPair
  <2> QED
    BY <1>t, <2>1, QuietTree
<1>14. CASE AcquireFirst(p)
  <2>1. Quiet
    BY <1>t, <1>14 DEF AcquireFirst
  <2> QED
    BY <1>t, <2>1, QuietTree
<1>15. CASE AcquireSecond(p)
  <2>1. Quiet
    BY <1>t, <1>15 DEF AcquireSecond
  <2> QED
    BY <1>t, <2>1, QuietTree
<1>16. CASE Leave(p)
  <2>1. Quiet
    BY <1>t, <1>16 DEF Leave
  <2> QED
    BY <1>t, <2>1, QuietTree
<1>17. CASE Accept(p)
  <2>1. Quiet
    BY <1>t, <1>17 DEF Accept, PartnerValid, NodesInv, Revives
  <2> QED
    BY <1>t, <2>1, QuietTree
<1>18. CASE Commit(p)
  <2>1. Quiet
    BY <1>t, <1>18 DEF Commit, PartnerValid, NodesInv, Revives
  <2> QED
    BY <1>t, <2>1, QuietTree
<1>19. CASE ContractHyperedge(p)
  <2>1. Quiet
    BY <1>t, <1>19 DEF ContractHyperedge
  <2> QED
    BY <1>t, <2>1, QuietTree
<1>20. CASE MergeIncidentNets(p)
  <2>1. Quiet
    BY <1>t, <1>20 DEF MergeIncidentNets
  <2> QED
    BY <1>t, <2>1, QuietTree
<1> QED
  BY <1>1, <1>2, <1>3, <1>4, <1>5, <1>6, <1>7, <1>8, <1>9, <1>10, <1>11, <1>12, <1>13, <1>14, <1>15, <1>16, <1>17, <1>18, <1>19, <1>20 DEF Act

\* A new contraction: one more is pending.
LEMMA RegisterTree ==
  ASSUME LocksInv, TreeInv, NEW p \in Nodes, Act(p), Register(p)
  PROVE  TreeInv'
<1> DEFINE v == rv[p]
           r == w[p]
<1>t. Types /\ Types' /\ LockInv /\ PendingInv /\ NodesInv /\ OnePerformer
  BY TypesAct DEF LocksInv, TreeInv
<1>1. /\ v \in Nodes /\ r \in Nodes /\ v # r /\ parent[v] = v /\ IsRepresentative(r)
      /\ v \in Held(p) /\ r \in Held(p)
  BY <1>t DEF Register, LocksInv, Registers, TreeInv, Represents, Held, Types
<1>2. r \in enabled
  BY <1>1, <1>t, RepresentativeEnabled
<1>3. v \notin performed
  BY <1>1 , <1>t DEF NodesInv, Types
<1>4. /\ \A u \in Nodes : parent'[u] = (IF u = v THEN r ELSE parent[u])
      /\ \A u \in Nodes : pending'[u] = (IF u = r THEN pending[u] + 1 ELSE pending[u])
      /\ performed' = performed /\ enabled' = enabled /\ pc'[p] = "next"
  BY <1>t, <1>1 DEF Register, NextContraction, Goto, graph, Types
<1>5. \A q \in Nodes \ {p} : pc'[q] = pc[q] /\ w'[q] = w[q] /\ x'[q] = x[q] /\ y'[q] = y[q]
  BY <1>t, TypesAct
<1>6. ASSUME NEW q \in Nodes \ {p} PROVE Represents(q)' /\ Commits(q)'
  <2>1. w[q] \in Nodes /\ y[q] \in Nodes /\ Represents(q) /\ Commits(q) /\ Contracts(q) /\ pending[w[q]] \in Int
    BY <1>t DEF Types, TreeInv, LocksInv
  <2>2. Represents(q)'
    <3>1. pc[q] \in Checking => w[q] # v
      BY <1>1, <1>t, LocksExclude DEF Held, Types
    <3> QED
      BY <1>4, <1>5, <2>1, <3>1 DEF Represents, IsRepresentative
  <2>3. pc[q] \in {"fixed", "perform"} \union Contracting => y[q] # r
    <3>1. CASE pc[q] \in {"fixed", "perform"}
      <4>1. y[q] \in Held(q)
        BY <2>1, <3>1 DEF Held
      <4> QED
        BY <1>1, <1>t, <4>1, LocksExclude
    <3>2. CASE pc[q] \in Contracting
      BY <1>2, <2>1, <3>2 DEF Commits
    <3> QED
      BY <3>1, <3>2
  <2>4. pc[q] \in {"perform"} \union Contracting => y[q] # v
    BY <1>1, <2>1 DEF Commits, Contracts
  <2>5. Commits(q)'
    BY <1>4, <1>5, <2>1, <2>3, <2>4 DEF Commits
  <2> QED
    BY <2>2, <2>5
<1>7. Represents(p)' /\ Commits(p)'
  BY <1>4 DEF Represents, Commits
<1>8. OnePerformer'
  BY <1>4, <1>5, <1>t DEF OnePerformer
<1>9. NodesInv'
  BY <1>1, <1>2, <1>4, <1>t DEF NodesInv, Types
<1>10. PendingInv'
  <2> SUFFICES ASSUME NEW u \in Nodes PROVE pending'[u] = Cardinality((Children(u) \ performed)')
    BY DEF PendingInv
  <2>1. pending[u] = Cardinality(Children(u) \ performed) /\ IsFiniteSet(Children(u) \ performed)
    BY <1>t, NLevelAssumption, FS_Subset DEF PendingInv, Children
  <2>2. CASE u = r
    <3>1. (Children(u) \ performed)' = (Children(u) \ performed) \union {v}
      BY <1>1, <1>3, <1>4, <2>2 DEF Children
    <3>2. v \notin Children(u) \ performed
      BY <1>1, <2>2 DEF Children
    <3>3. Cardinality((Children(u) \ performed) \union {v}) = Cardinality(Children(u) \ performed) + 1
      BY <2>1, <3>2, FS_AddElement
    <3> QED
      BY <1>4, <2>1, <2>2, <3>1, <3>3
  <2>3. CASE u # r
    <3>1. (Children(u) \ performed)' = Children(u) \ performed
      BY <1>1, <1>4, <2>3 DEF Children
    <3> QED
      BY <1>4, <2>1, <2>3, <3>1
  <2> QED
    BY <2>2, <2>3
<1> QED
  BY <1>6, <1>7, <1>8, <1>9, <1>10 DEF TreeInv

\* A contraction is taken back: one less is pending.
LEMMA TakeBackTree ==
  ASSUME LocksInv, TreeInv, NEW p \in Nodes, Act(p), TakeBack(p)
  PROVE  TreeInv'
<1> DEFINE v == y[p]
           r == x[p]
<1>t. Types /\ Types' /\ LockInv /\ PendingInv /\ NodesInv /\ OnePerformer
  BY TypesAct DEF LocksInv, TreeInv
<1>1. /\ v \in Nodes /\ r \in Nodes /\ v # r /\ parent[v] = r /\ v \in enabled
      /\ v \in Held(p) /\ r \in Held(p)
  BY <1>t DEF TakeBack, LocksInv, Contracts, Held, Types
<1>2. v \notin performed
  BY <1>1, <1>t DEF NodesInv
<1>3. pending[r] > 0
  BY <1>1, <1>2, <1>t, UnfinishedChild
<1>4. /\ \A u \in Nodes : parent'[u] = (IF u = v THEN v ELSE parent[u])
      /\ \A u \in Nodes : pending'[u] = (IF u = r THEN pending[u] - 1 ELSE pending[u])
      /\ performed' = performed /\ enabled' = enabled /\ pc'[p] = "next"
  BY <1>t, <1>1 DEF TakeBack, NextContraction, Goto, graph, Types
<1>5. \A q \in Nodes \ {p} : pc'[q] = pc[q] /\ w'[q] = w[q] /\ x'[q] = x[q] /\ y'[q] = y[q]
  BY <1>t, TypesAct
<1>6. ASSUME NEW q \in Nodes \ {p} PROVE Represents(q)' /\ Commits(q)'
  <2>1. w[q] \in Nodes /\ y[q] \in Nodes /\ Represents(q) /\ Commits(q) /\ Contracts(q)
    BY <1>t DEF Types, TreeInv, LocksInv
  <2>2. Represents(q)'
    <3>1. pc[q] \in Checking => w[q] # v /\ w[q] # r
      BY <1>1, <1>t, LocksExclude DEF Held, Types
    <3> QED
      BY <1>4, <1>5, <2>1, <3>1 DEF Represents, IsRepresentative
  <2>3. pc[q] \in {"fixed", "perform"} \union Contracting => y[q] # r
    BY <1>3, <2>1 DEF Commits
  <2>4. pc[q] \in {"fixed", "perform"} \union Contracting => y[q] # v
    <3>1. CASE pc[q] \in {"fixed", "perform"}
      <4>1. y[q] \in Held(q)
        BY <2>1, <3>1 DEF Held
      <4> QED
        BY <1>1, <1>t, <4>1, LocksExclude
    <3>2. CASE pc[q] \in Contracting
      BY <1>1, <2>1, <3>2 DEF Commits
    <3> QED
      BY <3>1, <3>2
  <2>5. Commits(q)'
    BY <1>4, <1>5, <2>1, <2>3, <2>4 DEF Commits
  <2> QED
    BY <2>2, <2>5
<1>7. Represents(p)' /\ Commits(p)'
  BY <1>4 DEF Represents, Commits
<1>8. OnePerformer'
  BY <1>4, <1>5, <1>t DEF OnePerformer
<1>9. NodesInv'
  BY <1>1, <1>4, <1>t DEF NodesInv, Types
<1>10. PendingInv'
  <2> SUFFICES ASSUME NEW u \in Nodes PROVE pending'[u] = Cardinality((Children(u) \ performed)')
    BY DEF PendingInv
  <2>1. pending[u] = Cardinality(Children(u) \ performed) /\ IsFiniteSet(Children(u) \ performed)
    BY <1>t, NLevelAssumption, FS_Subset DEF PendingInv, Children
  <2>2. CASE u = r
    <3>1. (Children(u) \ performed)' = (Children(u) \ performed) \ {v}
      BY <1>1, <1>4, <2>2 DEF Children
    <3>2. v \in Children(u) \ performed
      BY <1>1, <1>2, <2>2 DEF Children
    <3>3. Cardinality((Children(u) \ performed) \ {v}) = Cardinality(Children(u) \ performed) - 1
      BY <2>1, <3>2, FS_RemoveElement
    <3> QED
      BY <1>4, <2>1, <2>2, <3>1, <3>3
  <2>3. CASE u # r
    <3>1. (Children(u) \ performed)' = Children(u) \ performed
      BY <1>1, <1>4, <2>3 DEF Children
    <3> QED
      BY <1>4, <2>1, <2>3, <3>1
  <2> QED
    BY <2>2, <2>3
<1> QED
  BY <1>6, <1>7, <1>8, <1>9, <1>10 DEF TreeInv

\* The partner is disabled; no contraction onto it is left.
LEMMA PerformTree ==
  ASSUME LocksInv, TreeInv, NEW p \in Nodes, Act(p), Perform(p)
  PROVE  TreeInv'
<1> DEFINE v == y[p]
<1>t. Types /\ Types' /\ LockInv /\ PendingInv /\ NodesInv /\ OnePerformer
  BY TypesAct DEF LocksInv, TreeInv
<1>1. /\ v \in Nodes /\ x[p] # v /\ parent[v] = x[p] /\ v \in enabled /\ v \notin performed
      /\ pending[v] = 0 /\ v \in Held(p)
  BY <1>t DEF Perform, LocksInv, Contracts, TreeInv, Commits, Held, Types
<1>2. /\ parent' = parent /\ pending' = pending /\ performed' = performed
      /\ enabled' = enabled \ {v} /\ pc'[p] = "nets" /\ y'[p] = v /\ x'[p] = x[p]
  BY <1>t DEF Perform, Goto, tree, Types
<1>3. \A q \in Nodes \ {p} : pc'[q] = pc[q] /\ w'[q] = w[q] /\ x'[q] = x[q] /\ y'[q] = y[q]
  BY <1>t, TypesAct
<1>4. ASSUME NEW q \in Nodes \ {p} PROVE Represents(q)' /\ Commits(q)' /\ (pc[q] \in Contracting => y[q] # v)
  <2>1. y[q] \in Nodes /\ Represents(q) /\ Commits(q)
    BY <1>t DEF Types, TreeInv
  <2>2. pc[q] \in {"fixed", "perform"} \union Contracting => y[q] # v
    <3>1. CASE pc[q] \in {"fixed", "perform"}
      <4>1. y[q] \in Held(q)
        BY <2>1, <3>1 DEF Held
      <4> QED
        BY <1>1, <1>t, <4>1, LocksExclude
    <3>2. CASE pc[q] \in Contracting
      BY <1>1, <2>1, <3>2 DEF Commits
    <3> QED
      BY <3>1, <3>2
  <2> QED
    BY <1>2, <1>3, <2>1, <2>2 DEF Commits, Represents, IsRepresentative
<1>5. Represents(p)' /\ Commits(p)'
  BY <1>1, <1>2 DEF Represents, Commits
<1>6. OnePerformer'
  BY <1>2, <1>3, <1>4, <1>t DEF OnePerformer
<1>7. NodesInv'
  <2>1. \A u \in Nodes : parent[u] # u /\ u \notin performed => parent[u] # v
    BY <1>1, <1>t, UnfinishedChild
  <2> QED
    BY <1>1, <1>2, <1>t, <2>1 DEF NodesInv
<1>8. PendingInv'
  BY <1>2, <1>t DEF PendingInv, Children
<1> QED
  BY <1>4, <1>5, <1>6, <1>7, <1>8 DEF TreeInv

\* A contraction is finished: one less is pending.
LEMMA UnregisterTree ==
  ASSUME LocksInv, TreeInv, NEW p \in Nodes, Act(p), Unregister(p)
  PROVE  TreeInv'
<1> DEFINE v == y[p]
           r == x[p]
<1>t. Types /\ Types' /\ LockInv /\ PendingInv /\ NodesInv /\ OnePerformer
  BY TypesAct DEF LocksInv, TreeInv
<1>1. /\ v \in Nodes /\ r \in Nodes /\ v # r /\ parent[v] = r /\ v \notin enabled /\ v \notin performed
  BY <1>t DEF Unregister, LocksInv, Contracts, TreeInv, Commits, Types
<1>2. \A q \in Nodes : r \notin Held(q)
  <2>1. owner[r] = Nobody /\ Nobody \notin Nodes
    BY FixedAssumption DEF Unregister, Free, Nobody
  <2> QED
    BY <1>1, <1>t, <2>1 DEF LockInv
<1>3. pending[r] > 0
  BY <1>1, <1>t, UnfinishedChild
<1>4. /\ parent' = parent /\ enabled' = enabled /\ performed' = performed \union {v}
      /\ \A u \in Nodes : pending'[u] = (IF u = r THEN pending[u] - 1 ELSE pending[u])
      /\ pc'[p] = "next"
  BY <1>t, <1>1 DEF Unregister, NextContraction, Goto, graph, Types
<1>5. \A q \in Nodes \ {p} : pc'[q] = pc[q] /\ w'[q] = w[q] /\ x'[q] = x[q] /\ y'[q] = y[q]
  BY <1>t, TypesAct
<1>6. ASSUME NEW q \in Nodes \ {p} PROVE Represents(q)' /\ Commits(q)'
  <2>1. w[q] \in Nodes /\ y[q] \in Nodes /\ Represents(q) /\ Commits(q)
    BY <1>t DEF Types, TreeInv
  <2>2. Represents(q)'
    <3>1. pc[q] \in Checking => w[q] # r
      BY <1>2, <2>1 DEF Held
    <3> QED
      BY <1>4, <1>5, <2>1, <3>1 DEF Represents, IsRepresentative
  <2>3. pc[q] \in {"fixed", "perform"} \union Contracting => y[q] # r
    BY <1>3, <2>1 DEF Commits
  <2>4. pc[q] \in {"fixed", "perform"} \union Contracting => y[q] # v
    BY <1>1, <1>t, <2>1 DEF Commits, OnePerformer, Unregister
  <2>5. Commits(q)'
    BY <1>4, <1>5, <2>1, <2>3, <2>4 DEF Commits
  <2> QED
    BY <2>2, <2>5
<1>7. Represents(p)' /\ Commits(p)'
  BY <1>4 DEF Represents, Commits
<1>8. OnePerformer'
  BY <1>4, <1>5, <1>t DEF OnePerformer
<1>9. NodesInv'
  BY <1>1, <1>4, <1>t DEF NodesInv, Types
<1>10. PendingInv'
  <2> SUFFICES ASSUME NEW u \in Nodes PROVE pending'[u] = Cardinality((Children(u) \ performed)')
    BY DEF PendingInv
  <2>1. pending[u] = Cardinality(Children(u) \ performed) /\ IsFiniteSet(Children(u) \ performed)
    BY <1>t, NLevelAssumption, FS_Subset DEF PendingInv, Children
  <2>2. CASE u = r
    <3>1. (Children(u) \ performed)' = (Children(u) \ performed) \ {v}
      BY <1>4 DEF Children
    <3>2. v \in Children(u) \ performed
      BY <1>1, <2>2 DEF Children
    <3>3. Cardinality((Children(u) \ performed) \ {v}) = Cardinality(Children(u) \ performed) - 1
      BY <2>1, <3>2, FS_RemoveElement
    <3> QED
      BY <1>4, <2>1, <2>2, <3>1, <3>3
  <2>3. CASE u # r
    <3>1. (Children(u) \ performed)' = Children(u) \ performed
      BY <1>1, <1>4, <2>3 DEF Children
    <3> QED
      BY <1>4, <2>1, <2>3, <3>1
  <2> QED
    BY <2>2, <2>3
<1> QED
  BY <1>6, <1>7, <1>8, <1>9, <1>10 DEF TreeInv

\* Every step keeps the tree consistent, unless it performs a contraction that was taken
\* back.
LEMMA TreeAct ==
  ASSUME LocksInv, TreeInv, NEW p \in Nodes, Act(p), ~Revives(p)
  PROVE  TreeInv'
BY RegisterTree, TakeBackTree, PerformTree, UnregisterTree, QuietSteps

\* Stuttering steps.
LEMMA TreeUnchanged == TreeInv /\ UNCHANGED vars => TreeInv'
BY DEF vars, tree, graph, locals, TreeInv, Represents, IsRepresentative, Commits, OnePerformer,
       NodesInv, PendingInv, Children

\* The tree before the pass.
LEMMA TreeStart == Init => TreeInv
<1> SUFFICES ASSUME Init PROVE TreeInv
  OBVIOUS
<1>1. /\ parent = [u \in Nodes |-> u] /\ pending = [u \in Nodes |-> 0] /\ performed = {}
      /\ enabled = Nodes /\ pc = [p \in Nodes |-> "idle"]
  BY Zenon DEF Init
<1>2. \A u \in Nodes : Children(u) \ performed = {}
  BY <1>1 DEF Children
<1>3. PendingInv
  BY <1>1, <1>2, FS_EmptySet DEF PendingInv
<1> QED
  BY <1>1, <1>3 DEF TreeInv, Represents, Commits, OnePerformer, NodesInv

\* What is fixed while a contraction is performed.
LEMMA Isolated ==
  ASSUME LocksInv, TreeInv, NEW p \in Nodes, pc[p] \in Contracting
  PROVE  /\ x[p] \in enabled /\ y[p] \in Nodes \ enabled /\ pending[y[p]] = 0
         /\ parent[y[p]] = x[p] /\ x[p] # y[p]
         /\ \A q \in Nodes \ {p} : pc[q] \in {"perform"} \union Contracting =>
              y[q] # y[p] /\ x[q] # y[p] /\ y[q] # x[p]
<1>1. \A q \in Nodes : pc[q] \in {"perform"} \union Contracting =>
        /\ x[q] \in Nodes /\ y[q] \in Nodes /\ x[q] # y[q] /\ parent[y[q]] = x[q]
        /\ y[q] \notin performed /\ pending[y[q]] = 0
        /\ y[q] \in enabled <=> pc[q] \notin Contracting
  BY DEF LocksInv, Types, Contracts, TreeInv, Commits
<1>2. \A q \in Nodes : pc[q] \in {"perform"} \union Contracting => x[q] \in enabled
  BY <1>1 DEF TreeInv, NodesInv
<1>3. pending[x[p]] > 0
  BY <1>1, UnfinishedChild DEF LocksInv, TreeInv
<1> QED
  BY <1>1, <1>2, <1>3 DEF TreeInv, OnePerformer

-----------------------------------------------------------------------------
(* No contraction is forgotten. *)

Underway == {"acquire_first", "acquire_second", "attempt", "fixed", "perform"}

\* Iteration p is about to contract u, or to look at its parent.
Carer(p, u) == y[p] = u /\ (pc[p] = "next" \/ (pc[p] \in Underway /\ x[p] = parent[u]))

\* A registered contraction waits for others, or an iteration takes care of it; one that
\* has begun is performed by an iteration.
CareInv ==
  /\ \A u \in enabled : parent[u] # u => pending[u] > 0 \/ \E p \in Nodes : Carer(p, u)
  /\ \A u \in Nodes \ (enabled \union performed) : \E p \in Nodes : pc[p] \in Contracting /\ y[p] = u

\* What a step has to show for the nodes whose tree edge or whose carer it changes.
LEMMA CareKept ==
  ASSUME Types, CareInv, NEW p \in Nodes, Act(p),
         \A u \in Nodes : u \in enabled' /\ parent'[u] # u =>
           \/ Carer(p, u)'
           \/ /\ u \in enabled /\ parent'[u] = parent[u]
              /\ pending[u] > 0 => pending'[u] > 0
              /\ Carer(p, u) => pending'[u] > 0,
         \A u \in Nodes : u \notin enabled' /\ u \notin performed' =>
           \/ pc'[p] \in Contracting /\ y'[p] = u
           \/ u \notin enabled /\ u \notin performed /\ ~(pc[p] \in Contracting /\ y[p] = u)
  PROVE  CareInv'
<1>1. \A q \in Nodes \ {p} : pc'[q] = pc[q] /\ x'[q] = x[q] /\ y'[q] = y[q]
  BY TypesAct
<1>2. ASSUME NEW u \in enabled', parent'[u] # u
      PROVE  pending'[u] > 0 \/ \E q \in Nodes : Carer(q, u)'
  <2>0. u \in Nodes
    BY TypesAct DEF Types
  <2>1. CASE Carer(p, u)'
    BY <2>1
  <2>2. CASE /\ u \in enabled /\ parent'[u] = parent[u]
             /\ pending[u] > 0 => pending'[u] > 0
             /\ Carer(p, u) => pending'[u] > 0
    <3>1. CASE \E q \in Nodes \ {p} : Carer(q, u)
      BY <1>1, <2>2, <3>1 DEF Carer
    <3>2. CASE pending[u] > 0 \/ Carer(p, u)
      BY <2>2, <3>2
    <3> QED
      BY <1>2, <2>2, <3>1, <3>2 DEF CareInv
  <2> QED
    BY <1>2, <2>0, <2>1, <2>2
<1>3. ASSUME NEW u \in Nodes, u \notin enabled', u \notin performed'
      PROVE  \E q \in Nodes : pc'[q] \in Contracting /\ y'[q] = u
  BY <1>1, <1>3 DEF CareInv
<1> QED
  BY <1>2, <1>3 DEF CareInv

\* Every step hands a contraction on to somebody.
LEMMA CareAct ==
  ASSUME LocksInv, TreeInv, CareInv, NEW p \in Nodes, Act(p)
  PROVE  CareInv'
<1>t. /\ Types /\ Types' /\ PendingInv /\ x[p] \in Nodes /\ y[p] \in Nodes
      /\ \A u \in Nodes : parent[u] \in Nodes /\ pending[u] \in Int
  BY TypesAct DEF LocksInv, TreeInv, Types
<1>n. \A u \in Nodes : pending[u] >= 0
  <2> SUFFICES ASSUME NEW u \in Nodes PROVE pending[u] >= 0
    OBVIOUS
  <2>1. IsFiniteSet(Children(u) \ performed)
    BY NLevelAssumption, FS_Subset DEF Children
  <2> QED
    BY <1>t, <2>1, FS_CardinalityType DEF PendingInv
<1> DEFINE Same == UNCHANGED <<parent, pending, performed, enabled>>
<1>s. ASSUME Same, pc[p] \notin Underway \union Contracting \union {"next"}
      PROVE  CareInv'
  <2>1. \A u \in Nodes : ~Carer(p, u)
    BY <1>s DEF Carer
  <2> QED
    BY <1>s, <1>t, <2>1, CareKept
<1>k. ASSUME Same, x'[p] = x[p], y'[p] = y[p], pc[p] \in Underway <=> pc'[p] \in Underway,
             pc[p] \in Contracting <=> pc'[p] \in Contracting, pc[p] # "next"
      PROVE  CareInv'
  <2>1. \A u \in Nodes : Carer(p, u) => Carer(p, u)'
    BY <1>k DEF Carer
  <2> QED
    BY <1>k, <1>t, <2>1, CareKept
<1> USE DEF Goto, tree, graph, locals, Underway, Types
<1> HIDE DEF Same
<1>1. CASE Rate(p) \/ Skip(p)
  BY <1>1, <1>s DEF Rate, Skip, Same
<1>2. CASE LockV(p) \/ Climb(p) \/ ClimbPending(p) \/ ClimbUp(p)
  BY <1>2, <1>s DEF LockV, Climb, ClimbPending, ClimbUp, Same
<1>3. CASE LockW(p) \/ LockWFirst(p) \/ RelockV(p)
  BY <1>3, <1>s DEF LockW, LockWFirst, RelockV, Same
<1>4. CASE Recheck(p) \/ CycleCheck(p) \/ CycleCheckRoot(p)
  BY <1>4, <1>s DEF Recheck, CycleCheck, CycleCheckRoot, Same
<1>5. CASE Register(p)
  <2>1. /\ pc[p] = "register" /\ enabled' = enabled /\ performed' = performed
        /\ pc'[p] = "next" /\ y'[p] = rv[p]
        /\ \A u \in Nodes : u # rv[p] => parent'[u] = parent[u]
        /\ \A u \in Nodes : pending'[u] >= pending[u]
    BY <1>5, <1>t DEF Register, NextContraction
  <2>2. \A u \in Nodes : ~Carer(p, u)
    BY <2>1 DEF Carer
  <2>3. \A u \in Nodes : u = rv[p] => Carer(p, u)'
    BY <2>1 DEF Carer
  <2>4. \A u \in Nodes : pending[u] > 0 => pending'[u] > 0
    BY <1>t, <2>1
  <2> QED
    BY <1>t, <2>1, <2>2, <2>3, <2>4, CareKept
<1>6. CASE NextPair(p)
  <2>1. /\ pc[p] = "next" /\ Same /\ y'[p] = y[p] /\ x'[p] = parent[y[p]]
        /\ parent[y[p]] # y[p] => pc'[p] = "acquire_first"
    BY <1>6, <1>t DEF NextPair, Same
  <2>2. \A u \in Nodes : parent[u] # u /\ Carer(p, u) => Carer(p, u)'
    BY <2>1 DEF Carer, Same
  <2> QED
    BY <1>t, <2>1, <2>2, CareKept DEF Same
<1>7. CASE AcquireFirst(p) \/ AcquireSecond(p)
  BY <1>7, <1>k, <1>t DEF AcquireFirst, AcquireSecond, Same
<1>8. CASE TakeBack(p)
  <2>1. /\ pc[p] \in Underway /\ enabled' = enabled /\ performed' = performed
        /\ pc'[p] = "next" /\ y'[p] = x[p]
        /\ \A u \in Nodes : u # y[p] => parent'[u] = parent[u]
        /\ \A u \in Nodes : u # x[p] => pending'[u] = pending[u]
        /\ parent'[y[p]] = y[p]
    BY <1>8, <1>t DEF TakeBack, NextContraction
  <2>2. \A u \in Nodes : u # y[p] => ~Carer(p, u)
    BY DEF Carer
  <2>3. \A u \in Nodes : u = x[p] => Carer(p, u)'
    BY <2>1 DEF Carer
  <2> QED
    BY <1>t, <2>1, <2>2, <2>3, CareKept
<1>9. CASE Leave(p)
  <2>1. /\ pc[p] \in {"attempt", "fixed"} /\ Same
        /\ y[p] \in enabled /\ parent[y[p]] = x[p] => pending[y[p]] # 0
    BY <1>9 DEF Leave, Same
  <2>2. \A u \in enabled : Carer(p, u) => pending[u] > 0
    BY <1>n, <1>t, <2>1 DEF Carer
  <2> QED
    BY <1>t, <2>1, <2>2, CareKept DEF Same
<1>10. CASE Accept(p)
  BY <1>10, <1>k, <1>t DEF Accept, Same
<1>11. CASE Commit(p)
  BY <1>11, <1>k, <1>t DEF Commit, Same
<1>12. CASE Perform(p)
  <2>1. /\ pc[p] = "perform" /\ UNCHANGED <<parent, pending, performed>> /\ y'[p] = y[p]
        /\ pc'[p] = "nets" /\ enabled' = enabled \ {y[p]}
    BY <1>12, <1>t DEF Perform
  <2>2. \A u \in Nodes : u # y[p] => ~Carer(p, u)
    BY DEF Carer
  <2> QED
    BY <1>t, <2>1, <2>2, CareKept
<1>13. CASE ContractHyperedge(p) \/ MergeIncidentNets(p)
  BY <1>13, <1>k, <1>t DEF ContractHyperedge, MergeIncidentNets, Same
<1>14. CASE Unregister(p)
  <2>1. /\ pc[p] = "unregister" /\ UNCHANGED <<parent, enabled>> /\ performed' = performed \union {y[p]}
        /\ pc'[p] = "next" /\ y'[p] = x[p]
        /\ \A u \in Nodes : u # x[p] => pending'[u] = pending[u]
    BY <1>14, <1>t DEF Unregister, NextContraction
  <2>2. \A u \in Nodes : ~Carer(p, u)
    BY <2>1 DEF Carer
  <2>3. \A u \in Nodes : u = x[p] => Carer(p, u)'
    BY <2>1 DEF Carer
  <2> QED
    BY <1>t, <2>1, <2>2, <2>3, CareKept
<1> QED
  BY <1>1, <1>2, <1>3, <1>4, <1>5, <1>6, <1>7, <1>8, <1>9, <1>10, <1>11, <1>12, <1>13, <1>14 DEF Act

\* When all threads have returned, a pending contraction would have one below it, and
\* so on: there is a cycle.
LEMMA NothingPending ==
  ASSUME Types, TreeInv, CareInv, AllDone, Forest
  PROVE  /\ \A u \in Nodes : pending[u] = 0
         /\ \A u \in Nodes : parent[u] # u <=> u \notin enabled
<1>t. PendingInv /\ NodesInv
  BY DEF TreeInv
<1>0. \A p \in Nodes : pc[p] \notin Underway \union Contracting \union {"next"}
  BY DEF AllDone, Underway
<1>1. \A u \in enabled : parent[u] # u => pending[u] > 0
  BY <1>0 DEF CareInv, Carer
<1>2. \A u \in Nodes : u \in enabled \/ u \in performed
  BY <1>0 DEF CareInv
<1> DEFINE S == {u \in Nodes : pending[u] # 0}
           T == {v \in S : parent[v] \in S /\ parent[v] # v}
           f == [v \in T |-> parent[v]]
<1>3. \A u \in S : \E v \in T : parent[v] = u
  <2> SUFFICES ASSUME NEW u \in S PROVE \E v \in T : parent[v] = u
    OBVIOUS
  <2>1. PICK v \in Nodes : parent[v] = u /\ v # u /\ v \notin performed
    BY <1>t, UnfinishedExists
  <2>2. v \in enabled /\ pending[v] # 0
    BY <1>1, <1>2, <2>1 DEF Types
  <2> QED
    BY <2>1, <2>2
<1>4. S = {}
  <2> SUFFICES ASSUME S # {} PROVE FALSE
    OBVIOUS
  <2>1. IsFiniteSet(S) /\ T \in SUBSET S /\ S \in SUBSET Nodes
    BY NLevelAssumption, FS_Subset
  <2>2. T # S
    BY <2>1 DEF Forest
  <2>3. IsFiniteSet(T) /\ Cardinality(T) <= Cardinality(S) /\ Cardinality(S) # Cardinality(T)
    BY <2>1, <2>2, FS_Subset
  <2>4. f \in Surjection(T, S)
    <3>1. f \in [T -> S]
      OBVIOUS
    <3>2. \A u \in S : \E v \in T : f[v] = u
      BY <1>3
    <3> QED
      BY <3>1, <3>2, Zenon DEF Surjection
  <2>5. Cardinality(S) <= Cardinality(T)
    <3> HIDE DEF S, T, f
    <3> QED
      BY <2>3, <2>4, FS_Surjection
  <2>6. Cardinality(S) \in Nat /\ Cardinality(T) \in Nat
    BY <2>1, <2>3, FS_CardinalityType
  <2> HIDE DEF S, T
  <2> QED
    BY <2>3, <2>5, <2>6
<1>5. \A u \in Nodes : pending[u] = 0
  BY <1>4
<1>6. \A u \in Nodes : u \in enabled => parent[u] = u
  BY <1>1, <1>5
<1> QED
  BY <1>5, <1>6, <1>t DEF NodesInv

\* Stuttering steps.
LEMMA CareUnchanged == CareInv /\ UNCHANGED vars => CareInv'
BY DEF vars, tree, graph, locals, CareInv, Carer

\* No contraction is registered before the pass.
LEMMA CareStart == Init => CareInv
<1> SUFFICES ASSUME Init PROVE CareInv
  OBVIOUS
<1>1. parent = [u \in Nodes |-> u] /\ enabled = Nodes
  BY Zenon DEF Init
<1> QED
  BY <1>1 DEF CareInv

-----------------------------------------------------------------------------
(* Fixed vertices *)

\* Both nodes of a contraction are fixed to one block when it is performed, or none is;
\* a fixed vertex of the input keeps its block.
FixedInv ==
  /\ \A p \in Nodes : pc[p] = "fixed" => BecomesFixed(x[p], y[p])
  /\ \A p \in Nodes : pc[p] = "perform" => fixed_block[x[p]] = fixed_block[y[p]]
  /\ \A u \in Nodes : InitialBlock[u] # NoBlock => fixed_block[u] = InitialBlock[u]

\* The node that was contracted is fixed to the block of its representative.
ClusterInv == \A u \in Nodes \ enabled : IsFixed(u) => fixed_block[parent[u]] = fixed_block[u]

\* What a step does to weights, enabled nodes and blocks.
LEMMA NodeChanges ==
  ASSUME Types, NEW p \in Nodes, Act(p)
  PROVE  \/ UNCHANGED <<enabled, weight, fixed_block>> /\ ~Commit(p) /\ ~Perform(p)
         \/ Commit(p) /\ UNCHANGED <<enabled, weight>>
         \/ Perform(p) /\ UNCHANGED fixed_block
<1> USE DEF graph, fixedVars
<1>1. CASE Rate(p) \/ Skip(p) \/ LockV(p) \/ Climb(p) \/ ClimbPending(p) \/ ClimbUp(p)
  BY <1>1 DEF Rate, Skip, LockV, Climb, ClimbPending, ClimbUp, Commit, Perform
<1>2. CASE LockW(p) \/ LockWFirst(p) \/ RelockV(p) \/ Recheck(p) \/ CycleCheck(p) \/ CycleCheckRoot(p)
  BY <1>2 DEF LockW, LockWFirst, RelockV, Recheck, CycleCheck, CycleCheckRoot, Commit, Perform
<1>3. CASE Register(p) \/ NextPair(p) \/ AcquireFirst(p) \/ AcquireSecond(p)
  BY <1>3 DEF Register, NextPair, AcquireFirst, AcquireSecond, Commit, Perform
<1>4. CASE TakeBack(p)
  <2>1. pc'[p] = "next" /\ UNCHANGED <<enabled, weight, fixed_block>> /\ pc[p] # "perform"
    BY <1>4 DEF TakeBack, NextContraction, Goto, Types
  <2>2. Commit(p) => pc'[p] = "perform"
    BY DEF Commit, Goto, Types
  <2> QED
    BY <2>1, <2>2 DEF Perform
<1>5. CASE Leave(p)
  <2>1. pc'[p] = "done" /\ UNCHANGED <<enabled, weight, fixed_block>> /\ pc[p] # "perform"
    BY <1>5 DEF Leave, Goto, Types
  <2>2. Commit(p) => pc'[p] = "perform"
    BY DEF Commit, Goto, Types
  <2> QED
    BY <2>1, <2>2 DEF Perform
<1>6. CASE Accept(p)
  BY <1>6 DEF Accept, Commit, Perform
<1>7. CASE Commit(p)
  BY <1>7 DEF Commit
<1>8. CASE Perform(p)
  BY <1>8 DEF Perform
<1>9. CASE ContractHyperedge(p) \/ MergeIncidentNets(p) \/ Unregister(p)
  BY <1>9 DEF ContractHyperedge, MergeIncidentNets, Unregister, Commit, Perform
<1> QED
  BY <1>1, <1>2, <1>3, <1>4, <1>5, <1>6, <1>7, <1>8, <1>9 DEF Act

\* Where an iteration can come from when it attempts, settles or performs a contraction.
LEMMA Arrivals ==
  ASSUME Types, NEW p \in Nodes, Act(p)
  PROVE  /\ pc'[p] = "fixed" => Accept(p) /\ BecomesFixed(x[p], y[p])
         /\ pc'[p] = "perform" => Commit(p) \/ (Accept(p) /\ ~BecomesFixed(x[p], y[p]))
         /\ pc'[p] \in {"fixed", "perform"} => x'[p] = x[p] /\ y'[p] = y[p]
         /\ pc'[p] = "acquire_first" => NextPair(p)
         /\ pc'[p] \in {"acquire_second", "attempt"} => AcquireFirst(p) \/ AcquireSecond(p)
<1> USE DEF Types, Goto, tree, locals
<1>1. CASE Rate(p) \/ Skip(p) \/ LockV(p) \/ Climb(p) \/ ClimbPending(p) \/ ClimbUp(p)
  BY <1>1 DEF Rate, Skip, LockV, Climb, ClimbPending, ClimbUp, FoundRepresentative
<1>2. CASE LockW(p) \/ LockWFirst(p) \/ RelockV(p) \/ Recheck(p) \/ CycleCheck(p) \/ CycleCheckRoot(p)
  BY <1>2 DEF LockW, LockWFirst, RelockV, Recheck, CycleCheck, CycleCheckRoot
<1>3. CASE Register(p) \/ NextPair(p) \/ AcquireFirst(p) \/ AcquireSecond(p)
  BY <1>3 DEF Register, NextPair, AcquireFirst, AcquireSecond, NextContraction
<1>4. CASE TakeBack(p) \/ Leave(p)
  BY <1>4 DEF TakeBack, Leave, NextContraction
<1>6. CASE Accept(p)
  BY <1>6 DEF Accept
<1>7. CASE Commit(p)
  BY <1>7 DEF Commit
<1>9. CASE Perform(p) \/ ContractHyperedge(p) \/ MergeIncidentNets(p) \/ Unregister(p)
  BY <1>9 DEF Perform, ContractHyperedge, MergeIncidentNets, Unregister, NextContraction
<1> QED
  BY <1>1, <1>2, <1>3, <1>4, <1>6, <1>7, <1>9 DEF Act

\* Weights grow, and a block is given to nodes without one that are locked.
LEMMA Monotone ==
  ASSUME LocksInv, FixedInv, NEW p \in Nodes, Act(p), NEW u \in Nodes
  PROVE  /\ weight'[u] >= weight[u]
         /\ IsFixed(u) => fixed_block'[u] = fixed_block[u]
         /\ u \notin Held(p) => fixed_block'[u] = fixed_block[u] /\ weight'[u] = weight[u]
         /\ u \in enabled' => u \in enabled
<1>t. Types /\ x[p] \in Nodes /\ y[p] \in Nodes
  BY DEF LocksInv, Types
<1>1. CASE UNCHANGED <<enabled, weight, fixed_block>>
  BY <1>1, <1>t DEF Types
<1>2. CASE Commit(p) /\ UNCHANGED <<enabled, weight>>
  <2>1. BecomesFixed(x[p], y[p])
    BY <1>2 DEF Commit, FixedInv
  <2>2. x[p] \in Held(p) /\ y[p] \in Held(p)
    BY <1>2, <1>t DEF Commit, Held
  <2>3. u \notin {x[p], y[p]} => fixed_block'[u] = fixed_block[u]
    BY <1>2, <1>t DEF Commit, Types
  <2>4. u \in {x[p], y[p]} => fixed_block'[u] = TheBlock(x[p], y[p])
    BY <1>2, <1>t DEF Commit, Types
  <2>5. u \in {x[p], y[p]} /\ IsFixed(u) => TheBlock(x[p], y[p]) = fixed_block[u]
    BY <2>1 DEF BecomesFixed, TheBlock, IsFixed
  <2> QED
    BY <1>2, <1>t, <2>2, <2>3, <2>4, <2>5 DEF Types
<1>3. CASE Perform(p) /\ UNCHANGED fixed_block
  <2>1. x[p] \in Held(p)
    BY <1>3, <1>t DEF Perform, Held
  <2> QED
    BY <1>3, <1>t, <2>1 DEF Perform, Types
<1> QED
  BY <1>1, <1>2, <1>3, <1>t, NodeChanges

\* The blocks of fixed vertices are kept.
LEMMA FixedAct ==
  ASSUME LocksInv, FixedInv, NEW p \in Nodes, Act(p)
  PROVE  FixedInv'
<1>t. /\ Types /\ LockInv /\ x[p] \in Nodes /\ y[p] \in Nodes
      /\ \A q \in Nodes \ {p} : pc'[q] = pc[q] /\ x'[q] = x[q] /\ y'[q] = y[q]
      /\ \A q \in Nodes : x[q] \in Nodes /\ y[q] \in Nodes
  BY TypesAct DEF LocksInv, Types
<1>1. ASSUME NEW q \in Nodes \ {p}, pc[q] \in {"fixed", "perform"}
      PROVE  fixed_block'[x[q]] = fixed_block[x[q]] /\ fixed_block'[y[q]] = fixed_block[y[q]]
  <2>1. x[q] \in Held(q) /\ y[q] \in Held(q)
    BY <1>1, <1>t DEF Held
  <2>2. x[q] \notin Held(p) /\ y[q] \notin Held(p)
    BY <1>t, <2>1, LocksExclude
  <2> QED
    BY <1>t, <2>2, Monotone
<1>2. ASSUME pc'[p] = "fixed" PROVE BecomesFixed(x[p], y[p])' /\ x'[p] = x[p] /\ y'[p] = y[p]
  <2>1. Accept(p) /\ BecomesFixed(x[p], y[p]) /\ x'[p] = x[p] /\ y'[p] = y[p]
    BY <1>2, <1>t, Arrivals
  <2> QED
    BY <2>1 DEF Accept, BecomesFixed, IsFixed
<1>3. ASSUME pc'[p] = "perform" PROVE fixed_block'[x'[p]] = fixed_block'[y'[p]]
  <2>0. x'[p] = x[p] /\ y'[p] = y[p]
    BY <1>3, <1>t, Arrivals
  <2>1. CASE Commit(p)
    BY <1>t, <2>0, <2>1 DEF Commit, Types
  <2>2. CASE Accept(p) /\ ~BecomesFixed(x[p], y[p])
    <3>1. ~DifferentBlocks(x[p], y[p]) /\ fixed_block' = fixed_block
      BY <2>2 DEF Accept
    <3> QED
      BY <2>0, <2>2, <3>1 DEF BecomesFixed, DifferentBlocks, IsFixed
  <2> QED
    BY <1>3, <1>t, <2>1, <2>2, Arrivals
<1>4. \A q \in Nodes : pc'[q] = "fixed" => BecomesFixed(x[q], y[q])'
  BY <1>1, <1>2, <1>t DEF FixedInv, BecomesFixed, IsFixed
<1>5. \A q \in Nodes : pc'[q] = "perform" => fixed_block'[x'[q]] = fixed_block'[y'[q]]
  BY <1>1, <1>3, <1>t DEF FixedInv
<1>6. \A u \in Nodes : InitialBlock[u] # NoBlock => fixed_block'[u] = InitialBlock[u]
  BY Monotone DEF FixedInv, IsFixed
<1> QED
  BY <1>4, <1>5, <1>6 DEF FixedInv

\* The representative of a node that was contracted is final.
LEMMA DisabledParent ==
  ASSUME LocksInv, TreeInv, NEW p \in Nodes, Act(p), NEW u \in Nodes \ enabled
  PROVE  parent'[u] = parent[u] /\ u \notin enabled'
<1>t. Types /\ NodesInv /\ Registers(p)
  BY DEF LocksInv, TreeInv
<1>1. CASE Register(p) /\ parent' = [parent EXCEPT ![rv[p]] = w[p]]
  <2>1. parent[rv[p]] = rv[p]
    BY <1>t, <1>1 DEF Register, Registers
  <2>2. u \notin enabled'
    BY <1>1 DEF Register, graph
  <2> QED
    BY <1>t, <1>1, <2>1, <2>2 DEF NodesInv, Types
<1>2. CASE TakeBack(p) /\ parent' = [parent EXCEPT ![y[p]] = y[p]]
  BY <1>t, <1>2 DEF TakeBack, Types, graph
<1>3. u \notin enabled'
  <2>1. CASE Commit(p) \/ UNCHANGED enabled
    BY <2>1 DEF Commit, graph
  <2>2. CASE Perform(p)
    BY <2>2 DEF Perform
  <2> QED
    BY <1>t, <2>1, <2>2, NodeChanges
<1> QED
  BY <1>t, <1>1, <1>2, <1>3, ParentChanges

\* And so are those of clusters.
LEMMA ClusterAct ==
  ASSUME LocksInv, TreeInv, FixedInv, ClusterInv, NEW p \in Nodes, Act(p), ~Revives(p)
  PROVE  ClusterInv'
<1>t. /\ Types /\ NodesInv /\ Commits(p) /\ x[p] \in Nodes /\ y[p] \in Nodes /\ Registers(p)
      /\ \A u \in Nodes : parent[u] \in Nodes
  BY DEF LocksInv, TreeInv, Types
<1>1. \A u \in Nodes \ enabled : parent'[u] = parent[u]
  BY DisabledParent
<1>2. CASE UNCHANGED <<enabled, weight, fixed_block>>
  BY <1>1, <1>2 DEF ClusterInv, IsFixed
<1>3. CASE Commit(p) /\ UNCHANGED <<enabled, weight>>
  <2>1. parent[y[p]] = x[p] /\ y[p] \in enabled /\ y[p] \notin performed
    <3>1. pc[p] = "fixed" /\ pc'[p] = "perform"
      BY <1>3, <1>t DEF Commit, Goto, Types
    <3> QED
      BY <1>t, <3>1 DEF Revives, Commits
  <2>2. x[p] \in enabled
    BY <1>t, <2>1 DEF NodesInv
  <2> SUFFICES ASSUME NEW u \in Nodes \ enabled, fixed_block'[u] # NoBlock
               PROVE  fixed_block'[parent[u]] = fixed_block'[u]
    BY <1>1, <1>3 DEF ClusterInv, IsFixed
  <2>3. fixed_block'[u] = fixed_block[u]
    BY <1>3, <1>t, <2>1, <2>2 DEF Commit, Types
  <2>4. fixed_block[parent[u]] = fixed_block[u]
    BY <2>3 DEF ClusterInv, IsFixed
  <2> QED
    BY <1>t, <2>3, <2>4, Monotone DEF IsFixed
<1>4. CASE Perform(p) /\ UNCHANGED fixed_block
  <2>1. enabled' = enabled \ {y[p]} /\ fixed_block[x[p]] = fixed_block[y[p]] /\ parent[y[p]] = x[p]
    BY <1>4, <1>t DEF Perform, FixedInv, Commits
  <2>2. parent' = parent
    BY <1>4 DEF Perform, tree
  <2> QED
    BY <1>4, <2>1, <2>2 DEF ClusterInv, IsFixed
<1> QED
  BY <1>2, <1>3, <1>4, <1>t, NodeChanges

-----------------------------------------------------------------------------
(* Why a contraction that was taken back is performed *)

\* A contraction that is attempted and not registered any more will be refused again.
AttemptInv ==
  \A p \in Nodes :
    /\ pc[p] \in {"acquire_first", "acquire_second", "attempt"} /\ y[p] \in enabled =>
         parent[y[p]] = x[p] \/ Heavy(x[p], y[p]) \/ DifferentBlocks(x[p], y[p])
    /\ pc[p] = "fixed" => parent[y[p]] = x[p]

\* What was too heavy or fixed to different blocks stays so.
LEMMA RefusedAgain ==
  ASSUME LocksInv, FixedInv, NEW p \in Nodes, Act(p), NEW u \in Nodes, NEW v \in Nodes
  PROVE  /\ Heavy(u, v) => weight'[u] + weight'[v] > MaxNodeWeight
         /\ DifferentBlocks(u, v) => /\ fixed_block'[u] = fixed_block[u] /\ fixed_block'[v] = fixed_block[v]
<1>1. /\ weight[u] \in Nat /\ weight[v] \in Nat /\ weight'[u] \in Nat /\ weight'[v] \in Nat
      /\ weight'[u] >= weight[u] /\ weight'[v] >= weight[v]
  BY Monotone, TypesAct DEF LocksInv, Types
<1>2. Heavy(u, v) => weight'[u] + weight'[v] > MaxNodeWeight
  BY <1>1, NLevelAssumption DEF Heavy
<1> QED
  BY <1>2, Monotone DEF DifferentBlocks

\* As long as only weights and blocks are the reason to take a contraction back, none is
\* performed that was taken back.
LEMMA AttemptAct ==
  ASSUME LocksInv, FixedInv, AttemptInv, NEW p \in Nodes, Act(p), TakeBack(p) => pc[p] = "attempt"
  PROVE  AttemptInv' /\ ~Revives(p)
<1>t. /\ Types /\ Types' /\ LockInv /\ Registers(p)
      /\ \A q \in Nodes : x[q] \in Nodes /\ y[q] \in Nodes /\ Contracts(q)
      /\ \A q \in Nodes \ {p} : pc'[q] = pc[q] /\ x'[q] = x[q] /\ y'[q] = y[q]
  BY TypesAct DEF LocksInv, Types
<1> DEFINE Early(q) == pc[q] \in {"acquire_first", "acquire_second", "attempt"}
           Lasting(q) == Heavy(x[q], y[q]) \/ DifferentBlocks(x[q], y[q])
<1>1. ASSUME NEW q \in Nodes, x'[q] = x[q], y'[q] = y[q], Lasting(q)
      PROVE  Lasting(q)'
  BY <1>1, <1>t, RefusedAgain DEF Heavy, DifferentBlocks, IsFixed
<1>2. \A q \in Nodes : y[q] \in enabled' => y[q] \in enabled
  BY <1>t, Monotone
<1>3. ASSUME NEW q \in Nodes, Early(q), y[q] \in enabled
      PROVE  parent'[y[q]] = x[q] \/ Lasting(q)
  <2>0. (parent[y[q]] = x[q] \/ Lasting(q)) /\ x[q] # y[q]
    BY <1>3, <1>t DEF AttemptInv, Contracts
  <2>1. CASE Register(p) /\ parent' = [parent EXCEPT ![rv[p]] = w[p]]
    <3>1. parent[rv[p]] = rv[p]
      BY <1>t, <2>1 DEF Register, Registers
    <3> QED
      BY <1>t, <2>0, <2>1, <3>1 DEF Types
  <2>2. CASE TakeBack(p) /\ parent' = [parent EXCEPT ![y[p]] = y[p]]
    <3>1. parent[y[p]] = x[p] /\ Lasting(p)
      BY <2>2 DEF TakeBack
    <3> QED
      BY <1>t, <2>0, <2>2, <3>1 DEF Types
  <2> QED
    BY <1>t, <2>0, <2>1, <2>2, ParentChanges
<1>4. ASSUME NEW q \in Nodes \ {p}, pc[q] = "fixed"
      PROVE  parent'[y[q]] = x[q]
  <2>0. parent[y[q]] = x[q] /\ y[q] \in Held(q)
    BY <1>4, <1>t DEF AttemptInv, Held
  <2>1. CASE Register(p) /\ parent' = [parent EXCEPT ![rv[p]] = w[p]]
    <3>1. rv[p] \in Held(p)
      BY <1>t, <2>1 DEF Register, Held, Types
    <3> QED
      BY <1>t, <2>0, <2>1, <3>1, LocksExclude DEF Types
  <2>2. CASE TakeBack(p) /\ parent' = [parent EXCEPT ![y[p]] = y[p]]
    <3>1. y[p] \in Held(p)
      BY <1>t, <2>2 DEF TakeBack, Held
    <3> QED
      BY <1>t, <2>0, <2>2, <3>1, LocksExclude DEF Types
  <2> QED
    BY <1>t, <2>0, <2>1, <2>2, ParentChanges
<1>5. ASSUME NEW q \in Nodes, Early(q)', y'[q] \in enabled'
      PROVE  parent'[y'[q]] = x'[q] \/ Lasting(q)'
  <2>1. CASE x'[q] = x[q] /\ y'[q] = y[q] /\ Early(q)
    BY <1>1, <1>2, <1>3, <1>5, <2>1
  <2>2. CASE q = p /\ pc'[p] = "acquire_first"
    <3>1. NextPair(p)
      BY <1>t, <2>2, Arrivals
    <3> QED
      BY <1>t, <2>2, <3>1 DEF NextPair, Types, tree
  <2>3. CASE q = p /\ pc'[p] \in {"acquire_second", "attempt"}
    <3>1. AcquireFirst(p) \/ AcquireSecond(p)
      BY <1>t, <2>3, Arrivals
    <3> QED
      BY <2>1, <2>3, <3>1 DEF AcquireFirst, AcquireSecond, locals
  <2> QED
    BY <1>5, <1>t, <2>1, <2>2, <2>3
<1>6. Accept(p) => parent[y[p]] = x[p]
  BY DEF Accept, AttemptInv, PartnerValid
<1>7. ASSUME NEW q \in Nodes, pc'[q] = "fixed"
      PROVE  parent'[y'[q]] = x'[q]
  <2>1. CASE q # p
    BY <1>4, <1>7, <1>t, <2>1
  <2>2. CASE q = p
    <3>1. Accept(p) /\ x'[p] = x[p] /\ y'[p] = y[p]
      BY <1>7, <1>t, <2>2, Arrivals
    <3> QED
      BY <1>6, <2>2, <3>1 DEF Accept, tree
  <2> QED
    BY <2>1, <2>2
<1>8. AttemptInv'
  BY <1>5, <1>7 DEF AttemptInv
<1>9. ~Revives(p)
  <2> SUFFICES ASSUME pc'[p] = "perform" PROVE parent[y[p]] = x[p]
    BY DEF Revives
  <2>1. Commit(p) => parent[y[p]] = x[p]
    BY DEF Commit, AttemptInv
  <2> QED
    BY <1>6, <1>t, <2>1, Arrivals
<1> QED
  BY <1>8, <1>9

\* Without an overflow, a contraction is not taken back because of a block.
LEMMA NoOverflowTakeBack ==
  ASSUME Types, NoBlockOverflow, NEW p \in Nodes, Iterate(p), TakeBack(p)
  PROVE  pc[p] = "attempt"
<1> SUFFICES ASSUME pc[p] = "fixed" PROVE FALSE
  BY DEF TakeBack
<1>1. pc'[p] = "next"
  BY DEF TakeBack, NextContraction, Goto, Types
<1>2. SettleFixed(p)
  BY DEF Iterate, Rate, Skip, LockV, Climb, ClimbPending, ClimbUp, LockW, LockWFirst, RelockV,
         Recheck, CycleCheck, CycleCheckRoot, Register, NextPair, AcquireFirst, AcquireSecond,
         Attempt, Perform, ContractHyperedge, MergeIncidentNets, Unregister
<1>3. weight_after[p] <= MaxBlockWeight[TheBlock(x[p], y[p])]
  BY DEF NoBlockOverflow
<1>4. Goto(p, "perform")
  BY <1>2, <1>3 DEF SettleFixed
<1> QED
  BY <1>1, <1>4 DEF Goto, Types

-----------------------------------------------------------------------------
(* Block weights *)

\* The nodes fixed to a block, the iterations that have added the weight of a node to it
\* and not settled, those among them that will find that it fits, and what they added.
FixedTo(b) == {u \in enabled : fixed_block[u] = b}
Unsettled(b) == {p \in Nodes : pc[p] = "fixed" /\ TheBlock(x[p], y[p]) = b}
Fitting(b) == {p \in Unsettled(b) : weight_after[p] <= MaxBlockWeight[b]}
Deltas == [p \in Nodes |-> DeltaWeight(x[p], y[p], weight)]

BlockTypes == block_weight \in [Blocks -> Int] /\ weight_after \in [Nodes -> Int]

BlockInv ==
  \A b \in Blocks :
    /\ block_weight[b] = SumFunctionOnSet(weight, FixedTo(b)) + SumFunctionOnSet(Deltas, Unsettled(b))
    /\ InputWeight(b) <= MaxBlockWeight[b] =>
         SumFunctionOnSet(weight, FixedTo(b)) + SumFunctionOnSet(Deltas, Fitting(b)) <= MaxBlockWeight[b]

\* An iteration adds the weight of a node to a block ...
Adds(p) ==
  /\ pc[p] = "attempt" /\ pc'[p] = "fixed" /\ BecomesFixed(x[p], y[p])
  /\ AddWeight(x[p], y[p], weight)
  /\ weight_after' = [weight_after EXCEPT ![p] = block_weight'[TheBlock(x[p], y[p])]]
  /\ UNCHANGED <<enabled, weight, fixed_block, x, y>>

\* ... keeps it there ...
Keeps(p) ==
  /\ Commit(p) /\ weight_after[p] <= MaxBlockWeight[TheBlock(x[p], y[p])]
  /\ UNCHANGED <<block_weight, weight_after>>

\* ... or takes it back.
RollsBack(p) ==
  /\ pc[p] = "fixed" /\ pc'[p] # "fixed"
  /\ ~(weight_after[p] <= MaxBlockWeight[TheBlock(x[p], y[p])])
  /\ block_weight' = [block_weight EXCEPT ![TheBlock(x[p], y[p])] = @ - DeltaWeight(x[p], y[p], weight)]
  /\ UNCHANGED <<enabled, weight, fixed_block, weight_after>>

\* Other steps do not touch the weights of blocks.
LEMMA BlockSteps ==
  ASSUME Types, NEW p \in Nodes, Iterate(p)
  PROVE  \/ Adds(p) \/ Keeps(p) \/ RollsBack(p)
         \/ Perform(p) /\ UNCHANGED <<block_weight, weight_after, fixed_block>> /\ pc'[p] = "nets"
         \/ /\ pc[p] # "fixed" /\ pc'[p] # "fixed"
            /\ UNCHANGED <<enabled, weight, fixed_block, block_weight, weight_after>>
<1> USE DEF Types, Goto, graph, fixedVars, locals
<1>1. CASE Rate(p) \/ Skip(p) \/ LockV(p) \/ Climb(p) \/ ClimbPending(p) \/ ClimbUp(p)
  BY <1>1 DEF Rate, Skip, LockV, Climb, ClimbPending, ClimbUp, FoundRepresentative
<1>2. CASE LockW(p) \/ LockWFirst(p) \/ RelockV(p) \/ Recheck(p) \/ CycleCheck(p) \/ CycleCheckRoot(p)
  BY <1>2 DEF LockW, LockWFirst, RelockV, Recheck, CycleCheck, CycleCheckRoot
<1>3. CASE Register(p) \/ NextPair(p) \/ AcquireFirst(p) \/ AcquireSecond(p)
  BY <1>3 DEF Register, NextPair, AcquireFirst, AcquireSecond, NextContraction
<1>4. CASE Attempt(p)
  <2> DEFINE u == x[p]
             v == y[p]
             light == weight[u] + weight[v] <= MaxNodeWeight
  <2>0. pc[p] = "attempt"
    BY <1>4 DEF Attempt
  <2>1. CASE Refuse(p, u, v, PartnerValid(v) \/ ~light) /\ UNCHANGED fixedVars
    BY <2>0, <2>1 DEF Refuse, NextContraction
  <2>2. CASE ContractInPlace(u, v) /\ Goto(p, "perform") /\ UNCHANGED <<tree, graph, owner, locals>>
    BY <2>0, <2>2 DEF ContractInPlace
  <2>3. CASE /\ BecomesFixed(u, v)
             /\ AddBlockWeight(u, v, weight)
             /\ weight_after' = [weight_after EXCEPT ![p] = block_weight'[TheBlock(u, v)]]
             /\ Goto(p, "fixed")
             /\ UNCHANGED <<tree, graph, owner, ru, rv, w, x, y, todo>>
    BY <2>0, <2>3 DEF AddBlockWeight, Adds
  <2> QED
    BY <1>4, <2>1, <2>2, <2>3 DEF Attempt
<1>5. CASE SettleFixed(p)
  <2>1. CASE weight_after[p] <= MaxBlockWeight[TheBlock(x[p], y[p])]
    <3>1. /\ pc[p] = "fixed" /\ CommitFixed(x[p], y[p], weight) /\ Goto(p, "perform")
          /\ UNCHANGED <<tree, graph, owner, locals>>
      BY <1>5, <2>1 DEF SettleFixed
    <3> QED
      BY <2>1, <3>1 DEF Keeps, Commit, CommitFixed, MarkFixed
  <2>2. CASE ~(weight_after[p] <= MaxBlockWeight[TheBlock(x[p], y[p])])
    <3>1. /\ pc[p] = "fixed" /\ RollbackFixed(x[p], y[p], weight) /\ Refuse(p, x[p], y[p], TRUE)
      BY <1>5, <2>2 DEF SettleFixed
    <3>2. UNCHANGED <<enabled, weight, weight_after>> /\ pc'[p] # "fixed"
      BY <3>1 DEF Refuse, NextContraction
    <3> QED
      BY <2>2, <3>1, <3>2 DEF RollsBack, RollbackFixed
  <2> QED
    BY <2>1, <2>2
<1>6. CASE Perform(p)
  BY <1>6 DEF Perform
<1>7. CASE ContractHyperedge(p) \/ MergeIncidentNets(p) \/ Unregister(p)
  BY <1>7 DEF ContractHyperedge, MergeIncidentNets, Unregister, NextContraction
<1> QED
  BY <1>1, <1>2, <1>3, <1>4, <1>5, <1>6, <1>7 DEF Iterate

\* What an iteration has added depends on nodes that it has locked.
LEMMA DeltaOfOthers ==
  ASSUME LocksInv, FixedInv, NEW p \in Nodes, Act(p), NEW q \in Nodes \ {p}, pc[q] = "fixed"
  PROVE  /\ pc'[q] = "fixed" /\ Deltas'[q] = Deltas[q] /\ Deltas[q] \in Nat
         /\ TheBlock(x[q], y[q])' = TheBlock(x[q], y[q])
<1>1. /\ Types /\ LockInv /\ x[q] \in Nodes /\ y[q] \in Nodes
      /\ pc'[q] = pc[q] /\ x'[q] = x[q] /\ y'[q] = y[q]
  BY TypesAct DEF LocksInv, Types
<1>2. x[q] \in Held(q) /\ y[q] \in Held(q)
  BY <1>1 DEF Held
<1>3. x[q] \notin Held(p) /\ y[q] \notin Held(p)
  BY <1>1, <1>2, LocksExclude
<1>4. \A u \in {x[q], y[q]} : fixed_block'[u] = fixed_block[u] /\ weight'[u] = weight[u] /\ weight[u] \in Nat
  BY <1>1, <1>3, Monotone DEF Types
<1>5. TheBlock(x[q], y[q])' = TheBlock(x[q], y[q])
  BY <1>1, <1>4 DEF TheBlock, IsFixed
<1>6. Deltas'[q] = Deltas[q] /\ Deltas[q] \in Nat
  BY <1>1, <1>4 DEF Deltas, DeltaWeight, IsFixed
<1> QED
  BY <1>1, <1>5, <1>6

\* The sums are natural numbers.
LEMMA BlockSums ==
  ASSUME Types, NEW b
  PROVE  /\ \A u \in Nodes : weight[u] \in Nat /\ Deltas[u] \in Nat
         /\ FixedTo(b) \subseteq Nodes /\ Unsettled(b) \subseteq Nodes /\ Fitting(b) \subseteq Unsettled(b)
         /\ IsFiniteSet(FixedTo(b)) /\ IsFiniteSet(Unsettled(b)) /\ IsFiniteSet(Fitting(b))
         /\ SumFunctionOnSet(weight, FixedTo(b)) \in Nat
         /\ SumFunctionOnSet(Deltas, Unsettled(b)) \in Nat
         /\ SumFunctionOnSet(Deltas, Fitting(b)) \in Nat
         /\ SumFunctionOnSet(Deltas, Fitting(b)) <= SumFunctionOnSet(Deltas, Unsettled(b))
<1>1. \A u \in Nodes : weight[u] \in Nat /\ Deltas[u] \in Nat
  BY DEF Types, Deltas, DeltaWeight
<1>2. FixedTo(b) \subseteq Nodes /\ Unsettled(b) \subseteq Nodes /\ Fitting(b) \subseteq Unsettled(b)
  BY DEF FixedTo, Unsettled, Fitting, Types
<1>3. IsFiniteSet(FixedTo(b)) /\ IsFiniteSet(Unsettled(b)) /\ IsFiniteSet(Fitting(b))
  BY <1>2, NLevelAssumption, FS_Subset
<1>4. SumFunctionOnSet(weight, FixedTo(b)) \in Nat
  <2>1. \A u \in FixedTo(b) : weight[u] \in Nat
    BY <1>1, <1>2
  <2> QED
    BY <1>3, <2>1, SumSubset
<1>5. /\ SumFunctionOnSet(Deltas, Unsettled(b)) \in Nat
      /\ SumFunctionOnSet(Deltas, Fitting(b)) \in Nat
      /\ SumFunctionOnSet(Deltas, Fitting(b)) <= SumFunctionOnSet(Deltas, Unsettled(b))
  <2>1. \A u \in Unsettled(b) : Deltas[u] \in Nat
    BY <1>1, <1>2
  <2> QED
    BY <1>2, <1>3, <2>1, SumSubset
<1> QED
  BY <1>1, <1>2, <1>3, <1>4, <1>5

\* A step of p concerns p only in the sets of iterations and in what these added.
LEMMA OthersUnsettled ==
  ASSUME LocksInv, FixedInv, NEW p \in Nodes, Act(p), NEW b,
         \A q \in Nodes \ {p} : weight_after'[q] = weight_after[q]
  PROVE  /\ \A q : q # p => (q \in Unsettled(b)' <=> q \in Unsettled(b))
         /\ \A q : q # p => (q \in Fitting(b)' <=> q \in Fitting(b))
         /\ \A q \in Unsettled(b) : q # p => Deltas'[q] = Deltas[q]
<1>1. \A q \in Nodes \ {p} : pc'[q] = pc[q]
  BY TypesAct DEF LocksInv
<1>2. ASSUME NEW q, q # p PROVE q \in Unsettled(b)' <=> q \in Unsettled(b)
  BY <1>1, <1>2, DeltaOfOthers DEF Unsettled
<1>3. ASSUME NEW q, q # p PROVE q \in Fitting(b)' <=> q \in Fitting(b)
  BY <1>2, <1>3 DEF Fitting, Unsettled
<1>4. \A q \in Unsettled(b) : q # p => Deltas'[q] = Deltas[q]
  BY DeltaOfOthers DEF Unsettled
<1> QED
  BY <1>2, <1>3, <1>4

\* The sums over iterations when p is in neither set before and after the step, enters
\* them, or leaves them.
LEMMA UnsettledSums ==
  ASSUME LocksInv, FixedInv, NEW p \in Nodes, Act(p), NEW b,
         \A q \in Nodes \ {p} : weight_after'[q] = weight_after[q],
         NEW S, S \in SUBSET Unsettled(b), NEW T, T \in SUBSET Unsettled(b)',
         \A q : q # p => (q \in T <=> q \in S), p \notin S \/ p \notin T
  PROVE  SumFunctionOnSet(Deltas', T) =
           SumFunctionOnSet(Deltas, S) + (IF p \in T THEN Deltas'[p] ELSE 0)
                                       - (IF p \in S THEN Deltas[p] ELSE 0)
<1>1. /\ Types /\ Types'
      /\ \A u \in Nodes : Deltas[u] \in Nat /\ Deltas'[u] \in Nat
      /\ Unsettled(b) \subseteq Nodes /\ Unsettled(b)' \subseteq Nodes
      /\ IsFiniteSet(Unsettled(b)) /\ IsFiniteSet(Unsettled(b)')
  <2>1. Types /\ Types'
    BY TypesAct DEF LocksInv
  <2>2. /\ \A u \in Nodes : Deltas[u] \in Nat
        /\ Unsettled(b) \subseteq Nodes /\ IsFiniteSet(Unsettled(b))
    BY <2>1, BlockSums
  <2>3. /\ \A u \in Nodes : Deltas'[u] \in Nat
    BY <2>1 DEF Types, Deltas, DeltaWeight
  <2>4. Unsettled(b)' \subseteq Nodes
    BY DEF Unsettled
  <2> QED
    BY <2>1, <2>2, <2>3, <2>4, NLevelAssumption, FS_Subset
<1>2. IsFiniteSet(S) /\ IsFiniteSet(T)
  BY <1>1, FS_Subset
<1>3. \A q \in S \ {p} : Deltas'[q] = Deltas[q]
  BY OthersUnsettled
<1>4. \A q \in S : Deltas[q] \in Int
  BY <1>1
<1>5. Deltas'[p] \in Int /\ Deltas[p] \in Int
  BY <1>1
<1>6. SumFunctionOnSet(Deltas, S) \in Int /\ SumFunctionOnSet(Deltas', S \ {p}) \in Int
  <2>1. IsFiniteSet(S \ {p}) /\ \A q \in S \ {p} : Deltas'[q] \in Int
    BY <1>1, <1>2, FS_Subset
  <2> QED
    BY <1>2, <1>4, <2>1, SumInt
<1>7. CASE p \notin S /\ p \notin T
  <2>1. T = S /\ \A q \in S : Deltas[q] = Deltas'[q]
    BY <1>3, <1>7
  <2>2. SumFunctionOnSet(Deltas, S) = SumFunctionOnSet(Deltas', S)
    BY <1>2, <2>1, SumCongruence
  <2> QED
    BY <1>6, <1>7, <2>1, <2>2
<1>8. CASE p \notin S /\ p \in T
  <2>1. T = S \cup {p} /\ \A q \in S : Deltas[q] = Deltas'[q] /\ Deltas[q] \in Int
    BY <1>3, <1>4, <1>8
  <2>2. SumFunctionOnSet(Deltas', S \cup {p}) = Deltas'[p] + SumFunctionOnSet(Deltas, S)
    BY <1>2, <1>5, <1>8, <2>1, SumGrow
  <2> QED
    BY <1>5, <1>6, <1>8, <2>1, <2>2
<1>9. CASE p \in S /\ p \notin T
  <2>1. T = S \ {p} /\ \A q \in S \ {p} : Deltas[q] = Deltas'[q]
    BY <1>3, <1>9
  <2>2. SumFunctionOnSet(Deltas, S) = Deltas[p] + SumFunctionOnSet(Deltas', S \ {p})
    BY <1>2, <1>4, <1>9, <2>1, SumShrink
  <2> QED
    BY <1>5, <1>6, <1>9, <2>1, <2>2
<1> QED
  BY <1>7, <1>8, <1>9

\* Both nodes of a contraction are enabled until it is performed.
LEMMA BothEnabled ==
  ASSUME LocksInv, TreeInv, NEW p \in Nodes, Act(p), ~Revives(p), Commit(p) \/ Perform(p)
  PROVE  x[p] \in enabled /\ y[p] \in enabled /\ x[p] # y[p]
<1>1. Commits(p) /\ NodesInv /\ y[p] \in Nodes /\ Types
  BY DEF TreeInv, LocksInv, Types
<1>2. pc[p] \in {"fixed", "perform"} /\ parent[y[p]] = x[p]
  <2>1. CASE Commit(p)
    <3>1. pc[p] = "fixed" /\ pc'[p] = "perform"
      BY <1>1, <2>1 DEF Commit, Goto, Types
    <3> QED
      BY <3>1 DEF Revives
  <2>2. CASE Perform(p)
    BY <1>1, <2>2 DEF Perform, Commits
  <2> QED
    BY <2>1, <2>2
<1>3. x[p] # y[p]
  BY <1>2 DEF LocksInv, Contracts
<1> QED
  BY <1>1, <1>2, <1>3 DEF Commits, NodesInv

\* A contraction that is performed moves weight within a block.
LEMMA PerformWeight ==
  ASSUME LocksInv, TreeInv, FixedInv, NEW p \in Nodes, Act(p), Perform(p),
         UNCHANGED fixed_block, NEW b
  PROVE  SumFunctionOnSet(weight', FixedTo(b)') = SumFunctionOnSet(weight, FixedTo(b))
<1> DEFINE u == x[p]
           v == y[p]
           F == FixedTo(b)
<1>1. Types /\ u \in Nodes /\ v \in Nodes /\ pc[p] = "perform" /\ fixed_block[u] = fixed_block[v]
  BY DEF LocksInv, Types, Perform, FixedInv
<1>2. u \in enabled /\ v \in enabled /\ u # v
  <2>1. ~Revives(p)
    BY <1>1 DEF Revives
  <2> QED
    BY <2>1, BothEnabled
<1>3. /\ weight' = [weight EXCEPT ![u] = @ + weight[v]] /\ enabled' = enabled \ {v}
  BY DEF Perform
<1>4. /\ \A z \in Nodes : weight[z] \in Nat
      /\ F \subseteq Nodes /\ IsFiniteSet(F) /\ SumFunctionOnSet(weight, F) \in Nat
  BY <1>1, BlockSums
<1>5. /\ weight'[u] = weight[u] + weight[v]
      /\ \A z \in Nodes \ {u} : weight'[z] = weight[z]
  BY <1>1, <1>3 DEF Types
<1>6. FixedTo(b)' = F \ {v}
  BY <1>3 DEF FixedTo
<1>7. CASE fixed_block[v] = b
  <2>1. u \in F /\ v \in F
    BY <1>1, <1>2, <1>7 DEF FixedTo
  <2>2. IsFiniteSet(F \ {v}) /\ u \in F \ {v}
    BY <1>2, <1>4, <2>1, FS_Subset
  <2>3. SumFunctionOnSet(weight, F) = weight[v] + SumFunctionOnSet(weight, F \ {v})
    <3>1. \A z \in F : weight[z] \in Int
      BY <1>4
    <3> QED
      BY <1>4, <2>1, <3>1, SumRemove
  <2>4. SumFunctionOnSet(weight', F \ {v}) = SumFunctionOnSet(weight, F \ {v}) - weight[u] + weight'[u]
    <3> DEFINE G == F \ {v}
    <3>1. \A z \in G : weight[z] \in Int /\ weight'[z] \in Int
      BY <1>1, <1>4, <1>5
    <3>2. \A z \in G \ {u} : weight[z] = weight'[z]
      BY <1>4, <1>5
    <3>3. IsFiniteSet(G) /\ u \in G
      BY <2>2
    <3> HIDE DEF G, u
    <3>4. SumFunctionOnSet(weight', G) = SumFunctionOnSet(weight, G) - weight[u] + weight'[u]
      BY <3>1, <3>2, <3>3, SumChange
    <3> QED
      BY <3>4 DEF G
  <2>5. SumFunctionOnSet(weight, F \ {v}) \in Int
    <3>1. \A z \in F \ {v} : weight[z] \in Int
      BY <1>4
    <3> QED
      BY <2>2, <3>1, SumInt
  <2>6. weight[u] \in Int /\ weight[v] \in Int
    BY <1>1, <1>4
  <2> HIDE DEF F, u, v
  <2> QED
    BY <1>5, <1>6, <2>3, <2>4, <2>5, <2>6 DEF F
<1>8. CASE fixed_block[v] # b
  <2>1. FixedTo(b)' = F /\ u \notin F
    BY <1>1, <1>6, <1>8 DEF FixedTo
  <2>2. \A z \in F : weight[z] = weight'[z]
    BY <1>4, <1>5, <2>1
  <2> QED
    BY <1>4, <2>1, <2>2, SumCongruence
<1> QED
  BY <1>7, <1>8

\* A node that becomes fixed takes its weight with it.
LEMMA CommitWeight ==
  ASSUME LocksInv, TreeInv, FixedInv, NEW p \in Nodes, Act(p), ~Revives(p), Commit(p), NEW b \in Blocks
  PROVE  SumFunctionOnSet(weight', FixedTo(b)') =
           SumFunctionOnSet(weight, FixedTo(b)) + (IF b = TheBlock(x[p], y[p]) THEN Deltas[p] ELSE 0)
<1> DEFINE u == x[p]
           v == y[p]
           F == FixedTo(b)
           z == IF IsFixed(v) THEN u ELSE v
<1>1. /\ Types /\ u \in Nodes /\ v \in Nodes /\ BecomesFixed(u, v)
      /\ fixed_block[u] \in Blocks \union {NoBlock} /\ fixed_block[v] \in Blocks \union {NoBlock}
  BY DEF LocksInv, Types, Commit, FixedInv
<1>2. u \in enabled /\ v \in enabled /\ u # v
  BY BothEnabled
<1>3. TheBlock(u, v) \in Blocks
  BY <1>1 DEF BecomesFixed, IsFixed, TheBlock
<1>4. /\ z \in enabled /\ z \in Nodes /\ fixed_block[z] = NoBlock /\ weight[z] = Deltas[p]
  BY <1>1, <1>2 DEF BecomesFixed, IsFixed, Deltas, DeltaWeight
<1>5. /\ enabled' = enabled /\ weight' = weight
      /\ fixed_block' = [fixed_block EXCEPT ![u] = TheBlock(u, v), ![v] = TheBlock(u, v)]
  BY DEF Commit, graph
<1>6. \A n \in Nodes : fixed_block'[n] = IF n = z THEN TheBlock(u, v) ELSE fixed_block[n]
  BY <1>1, <1>2, <1>5 DEF BecomesFixed, IsFixed, TheBlock, Types
<1>7. /\ \A n \in Nodes : weight[n] \in Nat
      /\ F \subseteq Nodes /\ IsFiniteSet(F) /\ SumFunctionOnSet(weight, F) \in Nat
  BY <1>1, BlockSums
<1>8. z \notin F
  BY <1>4, FixedAssumption DEF FixedTo
<1> HIDE DEF z
<1>9. CASE b = TheBlock(u, v)
  <2>1. FixedTo(b)' = F \cup {z}
    <3>1. \A n \in enabled : fixed_block'[n] = b <=> fixed_block[n] = b \/ n = z
      BY <1>1, <1>4, <1>6, <1>9, <1>3, FixedAssumption DEF Types
    <3> QED
      BY <1>4, <1>5, <3>1 DEF FixedTo
  <2>2. \A n \in F \cup {z} : weight[n] \in Int
    <3> SUFFICES ASSUME NEW n \in F \cup {z} PROVE weight[n] \in Int
      OBVIOUS
    <3>1. F \subseteq Nodes /\ z \in Nodes
      BY <1>4, <1>7
    <3>2. n \in F \/ n = z
      OBVIOUS
    <3>3. n \in Nodes
      BY <3>1, <3>2
    <3>4. weight[n] \in Nat
      BY <1>7, <3>3
    <3> QED
      BY <3>4
  <2>3. SumFunctionOnSet(weight, F \cup {z}) = weight[z] + SumFunctionOnSet(weight, F)
    <3>1. IsFiniteSet(F)
      BY <1>7
    <3> HIDE DEF F
    <3> QED
      BY <1>8, <2>2, <3>1, SumAdd
  <2>4. weight[z] \in Nat
    BY <1>4, <1>7
  <2> HIDE DEF F, u, v
  <2> QED
    BY <1>3, <1>4, <1>5, <1>7, <1>9, <2>1, <2>3, <2>4 DEF u, v, F
<1>10. CASE b # TheBlock(u, v)
  <2>1. FixedTo(b)' = F
    <3>1. \A n \in enabled : fixed_block'[n] = b <=> fixed_block[n] = b
      BY <1>1, <1>4, <1>6, <1>10, FixedAssumption DEF Types
    <3> QED
      BY <1>5, <3>1 DEF FixedTo
  <2> QED
    BY <1>3, <1>5, <1>7, <1>10, <2>1
<1> QED
  BY <1>9, <1>10

\* Every step keeps the weights of the blocks the sum of the two, and what will be kept
\* within the limit.
LEMMA BlockAct ==
  ASSUME LocksInv, TreeInv, FixedInv, BlockTypes, BlockInv,
         NEW p \in Nodes, Iterate(p), Act(p), ~Revives(p)
  PROVE  BlockTypes' /\ BlockInv'
<1> DEFINE b0 == TheBlock(x[p], y[p])
           Fix(b) == SumFunctionOnSet(weight, FixedTo(b))
           Add(b) == SumFunctionOnSet(Deltas, Unsettled(b))
           Fit(b) == SumFunctionOnSet(Deltas, Fitting(b))
           d == Deltas[p]
<1>t. /\ Types /\ Types' /\ x[p] \in Nodes /\ y[p] \in Nodes /\ d \in Nat
      /\ d = DeltaWeight(x[p], y[p], weight)
  <2>1. Types /\ Types' /\ x[p] \in Nodes /\ y[p] \in Nodes
    BY TypesAct DEF LocksInv, Types
  <2> QED
    BY <2>1, BlockSums DEF Deltas
<1>b. /\ \A b \in Blocks : /\ block_weight[b] \in Int /\ MaxBlockWeight[b] \in Nat
                           /\ block_weight[b] = Fix(b) + Add(b)
                           /\ InputWeight(b) <= MaxBlockWeight[b] => Fix(b) + Fit(b) <= MaxBlockWeight[b]
                           /\ Fix(b) \in Nat /\ Add(b) \in Nat /\ Fit(b) \in Nat /\ Fit(b) <= Add(b)
      /\ DOMAIN block_weight = Blocks
  <2>1. \A b \in Blocks : /\ block_weight[b] \in Int /\ MaxBlockWeight[b] \in Nat
    BY FixedAssumption DEF BlockTypes
  <2>2. \A b \in Blocks : Fix(b) \in Nat /\ Add(b) \in Nat /\ Fit(b) \in Nat /\ Fit(b) <= Add(b)
    BY <1>t, BlockSums
  <2> QED
    BY <2>1, <2>2 DEF BlockInv, BlockTypes
<1> SUFFICES /\ BlockTypes'
             /\ \A b \in Blocks :
                  /\ block_weight'[b] = Fix(b)' + Add(b)'
                  /\ InputWeight(b) <= MaxBlockWeight[b] => Fix(b)' + Fit(b)' <= MaxBlockWeight[b]
  BY DEF BlockInv
<1>s. ASSUME \A q \in Nodes \ {p} : weight_after'[q] = weight_after[q], NEW b \in Blocks
      PROVE  /\ (p \notin Unsettled(b) \/ p \notin Unsettled(b)') =>
                  Add(b)' = Add(b) + (IF p \in Unsettled(b)' THEN Deltas'[p] ELSE 0)
                                   - (IF p \in Unsettled(b) THEN d ELSE 0)
             /\ (p \notin Fitting(b) \/ p \notin Fitting(b)') =>
                  Fit(b)' = Fit(b) + (IF p \in Fitting(b)' THEN Deltas'[p] ELSE 0)
                                   - (IF p \in Fitting(b) THEN d ELSE 0)
  <2>1. /\ \A q : q # p => (q \in Unsettled(b)' <=> q \in Unsettled(b))
        /\ \A q : q # p => (q \in Fitting(b)' <=> q \in Fitting(b))
    BY <1>s, OthersUnsettled
  <2>2. Fitting(b) \in SUBSET Unsettled(b) /\ Fitting(b)' \in SUBSET Unsettled(b)'
    BY DEF Fitting
  <2>3. (p \notin Unsettled(b) \/ p \notin Unsettled(b)') =>
                  Add(b)' = Add(b) + (IF p \in Unsettled(b)' THEN Deltas'[p] ELSE 0)
                                   - (IF p \in Unsettled(b) THEN d ELSE 0)
    BY <1>s, <2>1, UnsettledSums
  <2>4. (p \notin Fitting(b) \/ p \notin Fitting(b)') =>
                  Fit(b)' = Fit(b) + (IF p \in Fitting(b)' THEN Deltas'[p] ELSE 0)
                                   - (IF p \in Fitting(b) THEN d ELSE 0)
    BY <1>s, <2>1, <2>2, UnsettledSums
  <2> QED
    BY <2>3, <2>4
<1>1. CASE Adds(p)
  <2>0. b0 \in Blocks
    BY <1>1, <1>t DEF Adds, BecomesFixed, IsFixed, TheBlock, Types
  <2>1. /\ pc[p] = "attempt" /\ pc'[p] = "fixed" /\ weight' = weight /\ b0' = b0
        /\ \A b : FixedTo(b)' = FixedTo(b)
        /\ Deltas'[p] = d
    BY <1>1, <1>t DEF Adds, FixedTo, TheBlock, IsFixed, Deltas, DeltaWeight
  <2>2. /\ \A b \in Blocks : block_weight'[b] = IF b = b0 THEN block_weight[b] + d ELSE block_weight[b]
        /\ block_weight' \in [Blocks -> Int]
    BY <1>1, <1>b, <1>t, <2>0 DEF Adds, AddWeight, BlockTypes
  <2>3. /\ weight_after' \in [Nodes -> Int] /\ weight_after'[p] = block_weight'[b0]
        /\ \A q \in Nodes \ {p} : weight_after'[q] = weight_after[q]
    BY <1>1, <2>0, <2>2 DEF Adds, BlockTypes
  <2>4. ASSUME NEW b \in Blocks
        PROVE  /\ block_weight'[b] = Fix(b)' + Add(b)'
               /\ InputWeight(b) <= MaxBlockWeight[b] => Fix(b)' + Fit(b)' <= MaxBlockWeight[b]
    <3>0. Fix(b)' = Fix(b)
      BY <2>1
    <3>1. p \notin Unsettled(b) /\ p \notin Fitting(b) /\ (p \in Unsettled(b)' <=> b = b0)
      BY <2>1 DEF Unsettled, Fitting
    <3>2. p \in Fitting(b)' <=> b = b0 /\ block_weight'[b] <= MaxBlockWeight[b]
      BY <2>1, <2>3, <3>1 DEF Fitting
    <3>3. /\ Add(b)' = Add(b) + (IF b = b0 THEN d ELSE 0)
          /\ Fit(b)' = Fit(b) + (IF b = b0 /\ block_weight'[b] <= MaxBlockWeight[b] THEN d ELSE 0)
      <4> HIDE DEF Fix, Add, Fit, d, b0
      <4> QED
        BY <1>b, <1>s, <1>t, <2>1, <2>3, <3>1, <3>2
    <3> HIDE DEF Fix, Add, Fit, d, b0
    <3> QED
      BY <1>b, <1>t, <2>2, <3>0, <3>3
  <2> QED
    BY <2>2, <2>3, <2>4 DEF BlockTypes
<1>2. CASE Keeps(p)
  <2>0. \A b \in Blocks : Fix(b)' = Fix(b) + (IF b = b0 THEN d ELSE 0)
    <3>1. Commit(p)
      BY <1>2 DEF Keeps
    <3> QED
      BY <3>1, CommitWeight
  <2>1. /\ pc[p] = "fixed" /\ pc'[p] = "perform" /\ block_weight' = block_weight
        /\ weight_after' = weight_after /\ weight_after[p] <= MaxBlockWeight[b0]
    BY <1>2, <1>t DEF Keeps, Commit, Goto, Types
  <2>2. ASSUME NEW b \in Blocks
        PROVE  /\ block_weight'[b] = Fix(b)' + Add(b)'
               /\ InputWeight(b) <= MaxBlockWeight[b] => Fix(b)' + Fit(b)' <= MaxBlockWeight[b]
    <3>1. /\ p \notin Unsettled(b)' /\ p \notin Fitting(b)'
          /\ p \in Unsettled(b) <=> b = b0
          /\ p \in Fitting(b) <=> b = b0
      BY <2>1 DEF Unsettled, Fitting
    <3>2. Add(b)' = Add(b) - (IF b = b0 THEN d ELSE 0) /\ Fit(b)' = Fit(b) - (IF b = b0 THEN d ELSE 0)
      <4> HIDE DEF Fix, Add, Fit, d, b0
      <4> QED
        BY <1>b, <1>s, <1>t, <2>1, <3>1
    <3> HIDE DEF Fix, Add, Fit, d, b0
    <3> QED
      BY <1>b, <1>t, <2>0, <2>1, <3>2
  <2> QED
    BY <2>1, <2>2 DEF BlockTypes
<1>3. CASE RollsBack(p)
  <2>0. b0 \in Blocks
    BY <1>3, <1>t DEF RollsBack, FixedInv, BecomesFixed, IsFixed, TheBlock, Types
  <2>1. /\ pc[p] = "fixed" /\ pc'[p] # "fixed" /\ weight' = weight /\ \A b : FixedTo(b)' = FixedTo(b)
        /\ weight_after' = weight_after /\ ~(weight_after[p] <= MaxBlockWeight[b0])
    BY <1>3 DEF RollsBack, FixedTo
  <2>2. /\ \A b \in Blocks : block_weight'[b] = IF b = b0 THEN block_weight[b] - d ELSE block_weight[b]
        /\ block_weight' \in [Blocks -> Int]
    BY <1>3, <1>b, <1>t, <2>0 DEF RollsBack, BlockTypes
  <2>3. ASSUME NEW b \in Blocks
        PROVE  /\ block_weight'[b] = Fix(b)' + Add(b)'
               /\ InputWeight(b) <= MaxBlockWeight[b] => Fix(b)' + Fit(b)' <= MaxBlockWeight[b]
    <3>0. Fix(b)' = Fix(b)
      BY <2>1
    <3>1. /\ p \notin Unsettled(b)' /\ p \notin Fitting(b)' /\ p \notin Fitting(b)
          /\ p \in Unsettled(b) <=> b = b0
      BY <2>1 DEF Unsettled, Fitting
    <3>2. Add(b)' = Add(b) - (IF b = b0 THEN d ELSE 0) /\ Fit(b)' = Fit(b)
      <4> HIDE DEF Fix, Add, Fit, d, b0
      <4> QED
        BY <1>b, <1>s, <1>t, <2>1, <3>1
    <3> HIDE DEF Fix, Add, Fit, d, b0
    <3> QED
      BY <1>b, <1>t, <2>2, <3>0, <3>2
  <2> QED
    BY <2>1, <2>2, <2>3 DEF BlockTypes
<1>4. CASE \/ Perform(p) /\ UNCHANGED <<block_weight, weight_after, fixed_block>> /\ pc'[p] = "nets"
           \/ /\ pc[p] # "fixed" /\ pc'[p] # "fixed"
              /\ UNCHANGED <<enabled, weight, fixed_block, block_weight, weight_after>>
  <2>1. /\ pc[p] # "fixed" /\ pc'[p] # "fixed" /\ block_weight' = block_weight
        /\ weight_after' = weight_after
    BY <1>4 DEF Perform
  <2>2. ASSUME NEW b \in Blocks
        PROVE  /\ block_weight'[b] = Fix(b)' + Add(b)'
               /\ InputWeight(b) <= MaxBlockWeight[b] => Fix(b)' + Fit(b)' <= MaxBlockWeight[b]
    <3>0. Fix(b)' = Fix(b)
      <4>1. CASE Perform(p) /\ UNCHANGED fixed_block
        BY <4>1, PerformWeight
      <4>2. CASE UNCHANGED <<enabled, weight, fixed_block>>
        BY <4>2 DEF FixedTo
      <4> QED
        BY <1>4, <4>1, <4>2
    <3>1. /\ p \notin Unsettled(b)' /\ p \notin Fitting(b)' /\ p \notin Fitting(b)
          /\ p \notin Unsettled(b)
      BY <2>1 DEF Unsettled, Fitting
    <3>2. Add(b)' = Add(b) /\ Fit(b)' = Fit(b)
      <4> HIDE DEF Fix, Add, Fit, d, b0
      <4> QED
        BY <1>b, <1>s, <1>t, <2>1, <3>1
    <3> HIDE DEF Fix, Add, Fit, d, b0
    <3> QED
      BY <1>b, <1>t, <2>1, <3>0, <3>2
  <2> QED
    BY <2>1, <2>2 DEF BlockTypes
<1> QED
  BY <1>1, <1>2, <1>3, <1>4, <1>t, BlockSteps

-----------------------------------------------------------------------------
(* Hyperedges *)

\* z is the node that u was contracted onto, or the one that this was contracted onto, ...
Closed(C) == \A z \in C : z \notin enabled => parent[z] \in C
Reaches(u, z) == \A C \in SUBSET Nodes : u \in C /\ Closed(C) => z \in C

\* The pins of a hyperedge stand for its original pins; the contracted nodes among them are
\* being replaced.
PinsInv ==
  \A e \in Edges :
    /\ \A z \in pins[e] : \E u \in Pins[e] : Reaches(u, z)
    /\ \A u \in Pins[e] : \E z \in pins[e] : Reaches(u, z)
    /\ \A z \in pins[e] : z \notin enabled => \E p \in Nodes : pc[p] = "nets" /\ y[p] = z /\ e \in todo[p]

\* The nets of an enabled node are those it is a pin of, up to the nets of the nodes
\* that are being contracted onto it.
NetsInv ==
  /\ \A e \in Edges : \A z \in pins[e] : z \in enabled =>
       e \in nets[z] \/ \E p \in Nodes : pc[p] \in {"nets", "merge"} /\ x[p] = z /\ e \in nets[y[p]]
  /\ \A z \in enabled : \A e \in nets[z] : z \in pins[e]

\* Where the iteration over the nets of a contracted node is.
ProgressInv ==
  \A p \in Nodes :
    /\ pc[p] = "nets" => \A e \in todo[p] : e \in nets[y[p]] /\ y[p] \in pins[e]
    /\ pc[p] \in {"nets", "merge"} =>
         \A e \in nets[y[p]] : (pc[p] = "nets" /\ e \in todo[p]) \/ x[p] \in pins[e]

EdgeInv == PinsInv /\ NetsInv /\ ProgressInv

\* Contractions make more nodes reachable ...
LEMMA ReachGrows ==
  ASSUME LocksInv, TreeInv, NEW p \in Nodes, Act(p), NEW u, NEW z, Reaches(u, z)
  PROVE  Reaches(u, z)'
<1>1. \A C \in SUBSET Nodes : Closed(C)' => Closed(C)
  BY DisabledParent DEF Closed
<1> QED
  BY <1>1 DEF Reaches

\* ... and the representative of a contracted node.
LEMMA ReachParent ==
  ASSUME NEW u, NEW z \in Nodes, Reaches(u, z), z \notin enabled
  PROVE  Reaches(u, parent[z])
BY DEF Reaches, Closed

\* A step that changes no hyperedge.
LEMMA QuietEdges ==
  ASSUME LocksInv, TreeInv, EdgeInv, NEW p \in Nodes, Act(p), UNCHANGED <<pins, nets, enabled>>,
         pc[p] \notin {"nets", "merge"}, pc'[p] \notin {"nets", "merge"},
         \A q \in Nodes \ {p} : todo'[q] = todo[q]
  PROVE  EdgeInv'
<1>1. \A q \in Nodes \ {p} : pc'[q] = pc[q] /\ x'[q] = x[q] /\ y'[q] = y[q]
  BY TypesAct DEF LocksInv
<1>2. PinsInv'
  <2> SUFFICES ASSUME NEW e \in Edges
               PROVE  /\ \A z \in pins[e] : \E u \in Pins[e] : Reaches(u, z)'
                      /\ \A u \in Pins[e] : \E z \in pins[e] : Reaches(u, z)'
                      /\ \A z \in pins[e] : z \notin enabled =>
                           \E q \in Nodes : pc'[q] = "nets" /\ y'[q] = z /\ e \in todo'[q]
    BY DEF PinsInv
  <2>1. \A z \in pins[e] : \E u \in Pins[e] : Reaches(u, z)'
    BY ReachGrows DEF EdgeInv, PinsInv
  <2>2. \A u \in Pins[e] : \E z \in pins[e] : Reaches(u, z)'
    BY ReachGrows DEF EdgeInv, PinsInv
  <2>3. ASSUME NEW z \in pins[e], z \notin enabled
        PROVE  \E q \in Nodes : pc'[q] = "nets" /\ y'[q] = z /\ e \in todo'[q]
    <3>1. PICK q \in Nodes : pc[q] = "nets" /\ y[q] = z /\ e \in todo[q]
      BY <2>3 DEF EdgeInv, PinsInv
    <3> QED
      BY <1>1, <3>1
  <2> QED
    BY <2>1, <2>2, <2>3
<1>3. NetsInv'
  BY <1>1 DEF EdgeInv, NetsInv
<1>4. ProgressInv'
  BY <1>1 DEF EdgeInv, ProgressInv
<1> QED
  BY <1>2, <1>3, <1>4 DEF EdgeInv

\* A node is disabled: its nets are to be contracted.
LEMMA PerformEdges ==
  ASSUME LocksInv, TreeInv, EdgeInv, NEW p \in Nodes, Act(p), Perform(p)
  PROVE  EdgeInv'
<1> DEFINE u == x[p]
           v == y[p]
<1>t. /\ Types /\ u \in Nodes /\ v \in Nodes /\ pc[p] = "perform"
      /\ pending[v] = 0 /\ v \in enabled /\ parent[v] = u /\ u # v
  BY DEF LocksInv, Types, Perform, TreeInv, Commits, Contracts
<1>1. \A q \in Nodes \ {p} : pc'[q] = pc[q] /\ x'[q] = x[q] /\ y'[q] = y[q] /\ todo'[q] = todo[q]
  <2>1. \A q \in Nodes \ {p} : todo'[q] = todo[q]
    BY <1>t DEF Perform, Types
  <2> QED
    BY <1>t, <2>1, TypesAct
<1>2. /\ pins' = pins /\ nets' = nets /\ enabled' = enabled \ {v} /\ pc'[p] = "nets"
      /\ x'[p] = u /\ y'[p] = v /\ todo'[p] = nets[v]
  BY <1>t DEF Perform, Goto, Types
<1>3. ASSUME NEW q \in Nodes, pc[q] \in Contracting PROVE x[q] # v /\ y[q] # v
  <2>1. q # p
    BY <1>3, <1>t
  <2> QED
    BY <1>3, <1>t, <2>1, Isolated
<1>4. ASSUME NEW e \in Edges, v \in pins[e] PROVE e \in nets[v]
  BY <1>3, <1>4, <1>t DEF EdgeInv, NetsInv
<1>5. PinsInv'
  <2> SUFFICES ASSUME NEW e \in Edges
               PROVE  /\ \A z \in pins[e] : \E n \in Pins[e] : Reaches(n, z)'
                      /\ \A n \in Pins[e] : \E z \in pins[e] : Reaches(n, z)'
                      /\ \A z \in pins[e] : z \notin enabled' =>
                           \E q \in Nodes : pc'[q] = "nets" /\ y'[q] = z /\ e \in todo'[q]
    BY <1>2 DEF PinsInv
  <2>1. \A z \in pins[e] : \E n \in Pins[e] : Reaches(n, z)'
    BY ReachGrows DEF EdgeInv, PinsInv
  <2>2. \A n \in Pins[e] : \E z \in pins[e] : Reaches(n, z)'
    BY ReachGrows DEF EdgeInv, PinsInv
  <2>3. ASSUME NEW z \in pins[e], z \notin enabled'
        PROVE  \E q \in Nodes : pc'[q] = "nets" /\ y'[q] = z /\ e \in todo'[q]
    <3>1. CASE z = v
      BY <1>2, <1>4, <3>1
    <3>2. CASE z # v
      <4>1. PICK q \in Nodes : pc[q] = "nets" /\ y[q] = z /\ e \in todo[q]
        BY <1>2, <2>3, <3>2 DEF EdgeInv, PinsInv
      <4> QED
        BY <1>1, <1>t, <4>1
    <3> QED
      BY <3>1, <3>2
  <2> QED
    BY <2>1, <2>2, <2>3
<1>6. NetsInv'
  BY <1>1, <1>2, <1>t DEF EdgeInv, NetsInv
<1>7. ProgressInv'
  <2>1. \A e \in nets[v] : v \in pins[e]
    BY <1>t DEF EdgeInv, NetsInv
  <2> QED
    BY <1>1, <1>2, <2>1 DEF EdgeInv, ProgressInv
<1> QED
  BY <1>5, <1>6, <1>7 DEF EdgeInv

\* A contracted node is replaced by its representative in one net.
LEMMA ReplaceEdges ==
  ASSUME LocksInv, TreeInv, EdgeInv, NEW p \in Nodes, Act(p), ContractHyperedge(p)
  PROVE  EdgeInv'
<1> DEFINE u == x[p]
           v == y[p]
<1>t. /\ Types /\ u \in Nodes /\ pc[p] = "nets"
      /\ u \in enabled /\ v \in Nodes \ enabled /\ parent[v] = u /\ u # v
      /\ \A q \in Nodes \ {p} : pc[q] \in Contracting => y[q] # v /\ x[q] # v /\ y[q] # u
  <2>1. pc[p] = "nets" /\ Types
    BY DEF ContractHyperedge, LocksInv
  <2> QED
    BY <2>1, Isolated DEF Types
<1>0. PICK e0 \in todo[p] :
        /\ pins' = [pins EXCEPT ![e0] = (@ \ {v}) \union {u}]
        /\ todo' = [todo EXCEPT ![p] = @ \ {e0}]
        /\ IF todo[p] = {e0} THEN Goto(p, "merge") ELSE UNCHANGED pc
  BY DEF ContractHyperedge
<1>1. \A q \in Nodes \ {p} : pc'[q] = pc[q] /\ x'[q] = x[q] /\ y'[q] = y[q] /\ todo'[q] = todo[q]
  <2>1. \A q \in Nodes \ {p} : todo'[q] = todo[q]
    BY <1>0, <1>t DEF Types
  <2> QED
    BY <1>t, <2>1, TypesAct
<1>2. /\ e0 \in Edges /\ e0 \in nets[v] /\ v \in pins[e0] /\ nets' = nets /\ enabled' = enabled
      /\ x'[p] = u /\ y'[p] = v /\ todo'[p] = todo[p] \ {e0}
      /\ pc'[p] = IF todo[p] = {e0} THEN "merge" ELSE "nets"
  <2>1. e0 \in Edges /\ e0 \in nets[v] /\ v \in pins[e0]
    BY <1>t DEF EdgeInv, ProgressInv, Types
  <2> QED
    BY <1>0, <1>t, <2>1 DEF ContractHyperedge, Goto, Types
<1>3. /\ pins'[e0] = (pins[e0] \ {v}) \union {u}
      /\ \A e \in Edges \ {e0} : pins'[e] = pins[e]
  BY <1>0, <1>2, <1>t DEF Types
<1>4. PinsInv'
  <2> SUFFICES ASSUME NEW e \in Edges
               PROVE  /\ \A z \in pins'[e] : \E n \in Pins[e] : Reaches(n, z)'
                      /\ \A n \in Pins[e] : \E z \in pins'[e] : Reaches(n, z)'
                      /\ \A z \in pins'[e] : z \notin enabled =>
                           \E q \in Nodes : pc'[q] = "nets" /\ y'[q] = z /\ e \in todo'[q]
    BY <1>2 DEF PinsInv
  <2>1. ASSUME NEW z \in pins'[e] PROVE \E n \in Pins[e] : Reaches(n, z)'
    <3>1. CASE e = e0 /\ z = u
      <4>1. PICK n \in Pins[e] : Reaches(n, v)
        BY <1>2, <3>1 DEF EdgeInv, PinsInv
      <4>2. \A m : m = u /\ Reaches(n, v) => Reaches(n, m)'
        BY <1>2, <1>t, ReachParent, ReachGrows
      <4> QED
        BY <3>1, <4>1, <4>2
    <3>2. CASE z \in pins[e]
      BY <3>2, ReachGrows DEF EdgeInv, PinsInv
    <3> QED
      BY <1>3, <2>1, <3>1, <3>2
  <2>2. ASSUME NEW n \in Pins[e] PROVE \E z \in pins'[e] : Reaches(n, z)'
    <3>1. PICK z \in pins[e] : Reaches(n, z)
      BY DEF EdgeInv, PinsInv
    <3>2. CASE e = e0 /\ z = v
      <4>1. \A m : m = u => Reaches(n, m)'
        BY <1>t, <3>1, <3>2, ReachParent, ReachGrows
      <4>2. u \in pins'[e]
        BY <1>3, <3>2
      <4> QED
        BY <4>1, <4>2
    <3>3. CASE ~(e = e0 /\ z = v)
      <4>1. z \in pins'[e]
        BY <1>3, <3>1, <3>3
      <4> QED
        BY <3>1, <4>1, ReachGrows
    <3> QED
      BY <3>2, <3>3
  <2>3. ASSUME NEW z \in pins'[e], z \notin enabled
        PROVE  \E q \in Nodes : pc'[q] = "nets" /\ y'[q] = z /\ e \in todo'[q]
    <3>1. z \in pins[e] /\ ~(e = e0 /\ z = v)
      BY <1>3, <1>t, <2>3
    <3>2. PICK q \in Nodes : pc[q] = "nets" /\ y[q] = z /\ e \in todo[q]
      BY <2>3, <3>1 DEF EdgeInv, PinsInv
    <3>3. CASE q = p
      <4>1. e \in todo[p] \ {e0}
        BY <3>1, <3>2, <3>3
      <4> QED
        BY <1>2, <3>2, <3>3, <4>1
    <3>4. CASE q # p
      BY <1>1, <3>2, <3>4
    <3> QED
      BY <3>3, <3>4
  <2> QED
    BY <2>1, <2>2, <2>3
<1>5. NetsInv'
  <2>1. ASSUME NEW e \in Edges, NEW z \in pins'[e], z \in enabled
        PROVE  e \in nets[z] \/ \E q \in Nodes : pc'[q] \in {"nets", "merge"} /\ x'[q] = z /\ e \in nets[y'[q]]
    <3>1. CASE e = e0 /\ z = u
      BY <1>2, <3>1
    <3>2. CASE z \in pins[e]
      <4>1. \A q \in Nodes : pc[q] \in {"nets", "merge"} =>
              pc'[q] \in {"nets", "merge"} /\ x'[q] = x[q] /\ y'[q] = y[q]
        BY <1>1, <1>2
      <4> QED
        BY <2>1, <3>2, <4>1 DEF EdgeInv, NetsInv
    <3> QED
      BY <1>3, <2>1, <3>1, <3>2
  <2>2. ASSUME NEW z \in enabled, NEW e \in nets[z] PROVE z \in pins'[e]
    <3>1. z \in pins[e] /\ z # v /\ e \in Edges
      BY <1>t DEF EdgeInv, NetsInv, Types
    <3> QED
      BY <1>3, <3>1
  <2> QED
    BY <1>2, <2>1, <2>2 DEF NetsInv
<1>6. ProgressInv'
  <2>1. ASSUME NEW q \in Nodes, pc'[q] = "nets", NEW e \in todo'[q]
        PROVE  e \in nets[y'[q]] /\ y'[q] \in pins'[e]
    <3>0. pc[q] = "nets" /\ e \in todo[q] /\ y'[q] = y[q] /\ (e = e0 => y[q] # v)
      BY <1>1, <1>2, <1>t, <2>1
    <3>1. e \in nets[y[q]] /\ y[q] \in pins[e] /\ e \in Edges
      BY <1>t, <3>0 DEF EdgeInv, ProgressInv, Types
    <3> QED
      BY <1>3, <3>0, <3>1
  <2>2. ASSUME NEW q \in Nodes, pc'[q] \in {"nets", "merge"}, NEW e \in nets[y'[q]]
        PROVE  (pc'[q] = "nets" /\ e \in todo'[q]) \/ x'[q] \in pins'[e]
    <3>0. pc[q] \in {"nets", "merge"} /\ x'[q] = x[q] /\ y'[q] = y[q] /\ x[q] # v /\ y[q] \in Nodes
      BY <1>1, <1>2, <1>t, <2>2 DEF Types
    <3>1. ((pc[q] = "nets" /\ e \in todo[q]) \/ x[q] \in pins[e]) /\ e \in Edges
      BY <1>t, <2>2, <3>0 DEF EdgeInv, ProgressInv, Types
    <3>2. CASE x[q] \in pins[e]
      BY <1>3, <3>0, <3>1, <3>2
    <3>3. CASE pc[q] = "nets" /\ e \in todo[q] /\ q # p
      BY <1>1, <3>3
    <3>4. CASE e \in todo[p] /\ q = p /\ e # e0
      BY <1>2, <3>4
    <3>5. CASE q = p /\ e = e0
      BY <1>2, <1>3, <3>5
    <3> QED
      BY <3>1, <3>2, <3>3, <3>4, <3>5
  <2> QED
    BY <1>2, <2>1, <2>2 DEF ProgressInv
<1> QED
  BY <1>4, <1>5, <1>6 DEF EdgeInv

\* The representative takes the nets.
LEMMA MergeEdges ==
  ASSUME LocksInv, TreeInv, EdgeInv, NEW p \in Nodes, Act(p), MergeIncidentNets(p)
  PROVE  EdgeInv'
<1> DEFINE u == x[p]
           v == y[p]
<1>t. /\ Types /\ u \in Nodes /\ pc[p] = "merge"
      /\ u \in enabled /\ v \in Nodes \ enabled /\ u # v
      /\ \A q \in Nodes \ {p} : pc[q] \in Contracting => y[q] # v /\ x[q] # v /\ y[q] # u
  <2>1. pc[p] = "merge" /\ Types
    BY DEF MergeIncidentNets, LocksInv
  <2> QED
    BY <2>1, Isolated DEF Types
<1>1. \A q \in Nodes \ {p} : pc'[q] = pc[q] /\ x'[q] = x[q] /\ y'[q] = y[q]
  BY <1>t, TypesAct
<1>2. /\ pins' = pins /\ enabled' = enabled /\ todo' = todo /\ pc'[p] = "unregister"
      /\ nets'[u] = nets[u] \union nets[v] /\ \A z \in Nodes \ {u} : nets'[z] = nets[z]
  BY <1>t DEF MergeIncidentNets, Goto, locals, Types
<1>3. PinsInv'
  <2> SUFFICES ASSUME NEW e \in Edges
               PROVE  /\ \A z \in pins[e] : \E n \in Pins[e] : Reaches(n, z)'
                      /\ \A n \in Pins[e] : \E z \in pins[e] : Reaches(n, z)'
                      /\ \A z \in pins[e] : z \notin enabled =>
                           \E q \in Nodes : pc'[q] = "nets" /\ y'[q] = z /\ e \in todo'[q]
    BY <1>2 DEF PinsInv
  <2>1. \A z \in pins[e] : \E n \in Pins[e] : Reaches(n, z)'
    BY ReachGrows DEF EdgeInv, PinsInv
  <2>2. \A n \in Pins[e] : \E z \in pins[e] : Reaches(n, z)'
    BY ReachGrows DEF EdgeInv, PinsInv
  <2>3. ASSUME NEW z \in pins[e], z \notin enabled
        PROVE  \E q \in Nodes : pc'[q] = "nets" /\ y'[q] = z /\ e \in todo'[q]
    <3>1. PICK q \in Nodes : pc[q] = "nets" /\ y[q] = z /\ e \in todo[q]
      BY <2>3 DEF EdgeInv, PinsInv
    <3> QED
      BY <1>1, <1>2, <1>t, <3>1
  <2> QED
    BY <2>1, <2>2, <2>3
<1>4. NetsInv'
  <2>1. ASSUME NEW e \in Edges, NEW z \in pins[e], z \in enabled
        PROVE  e \in nets'[z] \/ \E q \in Nodes : pc'[q] \in {"nets", "merge"} /\ x'[q] = z /\ e \in nets'[y'[q]]
    <3>0. z \in Nodes
      BY <1>t, <2>1 DEF Types
    <3>1. CASE e \in nets[z]
      BY <1>2, <3>0, <3>1
    <3>2. CASE \E q \in Nodes : pc[q] \in {"nets", "merge"} /\ x[q] = z /\ e \in nets[y[q]]
      <4>1. PICK q \in Nodes : pc[q] \in {"nets", "merge"} /\ x[q] = z /\ e \in nets[y[q]]
        BY <3>2
      <4>2. CASE q = p
        BY <1>2, <4>1, <4>2
      <4>3. CASE q # p
        <5>1. y[q] \in Nodes \ {u}
          BY <1>t, <4>1, <4>3 DEF Types
        <5> QED
          BY <1>1, <1>2, <4>1, <4>3, <5>1
      <4> QED
        BY <4>2, <4>3
    <3> QED
      BY <2>1, <3>1, <3>2 DEF EdgeInv, NetsInv
  <2>2. ASSUME NEW z \in enabled, NEW e \in nets'[z] PROVE z \in pins[e]
    <3>0. z \in Nodes
      BY <1>t DEF Types
    <3>1. CASE e \in nets[z]
      BY <3>1 DEF EdgeInv, NetsInv
    <3>2. CASE z = u /\ e \in nets[v]
      BY <1>t, <3>2 DEF EdgeInv, ProgressInv
    <3> QED
      BY <1>2, <3>0, <3>1, <3>2
  <2> QED
    BY <1>2, <2>1, <2>2 DEF NetsInv
<1>5. ProgressInv'
  <2>1. ASSUME NEW q \in Nodes, pc'[q] \in {"nets", "merge"}
        PROVE  q # p /\ pc[q] = pc'[q] /\ x'[q] = x[q] /\ y'[q] = y[q] /\ nets'[y[q]] = nets[y[q]]
    <3>1. q # p /\ pc[q] = pc'[q]
      BY <1>1, <1>2, <2>1
    <3>2. y[q] \in Nodes \ {u}
      BY <1>t, <2>1, <3>1 DEF Types
    <3> QED
      BY <1>1, <1>2, <3>1, <3>2
  <2> QED
    BY <1>2, <2>1 DEF EdgeInv, ProgressInv
<1> QED
  BY <1>3, <1>4, <1>5 DEF EdgeInv

\* Every step keeps the hyperedges consistent.
LEMMA EdgeAct ==
  ASSUME LocksInv, TreeInv, EdgeInv, NEW p \in Nodes, Act(p)
  PROVE  EdgeInv'
<1>t. Types
  BY DEF LocksInv
<1> DEFINE Quiet == /\ UNCHANGED <<pins, nets, enabled>>
                    /\ pc[p] \notin {"nets", "merge"} /\ pc'[p] \notin {"nets", "merge"}
                    /\ \A q \in Nodes \ {p} : todo'[q] = todo[q]
<1>0. Quiet => EdgeInv'
  BY QuietEdges
<1> HIDE DEF Quiet
<1> USE DEF Goto, graph, locals, Types
<1>1. CASE Rate(p) \/ Skip(p) \/ LockV(p) \/ Climb(p) \/ ClimbPending(p) \/ ClimbUp(p)
  BY <1>0, <1>1, <1>t DEF Rate, Skip, LockV, Climb, ClimbPending, ClimbUp, FoundRepresentative, Quiet
<1>2. CASE LockW(p) \/ LockWFirst(p) \/ RelockV(p) \/ Recheck(p) \/ CycleCheck(p) \/ CycleCheckRoot(p)
  BY <1>0, <1>2, <1>t DEF LockW, LockWFirst, RelockV, Recheck, CycleCheck, CycleCheckRoot, Quiet
<1>3. CASE Register(p) \/ NextPair(p) \/ AcquireFirst(p) \/ AcquireSecond(p)
  BY <1>0, <1>3, <1>t DEF Register, NextPair, AcquireFirst, AcquireSecond, NextContraction, Quiet
<1>4. CASE TakeBack(p) \/ Leave(p)
  BY <1>0, <1>4, <1>t DEF TakeBack, Leave, NextContraction, Quiet
<1>5. CASE Accept(p) \/ Commit(p)
  BY <1>0, <1>5, <1>t DEF Accept, Commit, Quiet
<1>6. CASE Unregister(p)
  BY <1>0, <1>6, <1>t DEF Unregister, NextContraction, Quiet
<1> QED
  BY <1>1, <1>2, <1>3, <1>4, <1>5, <1>6, PerformEdges, ReplaceEdges, MergeEdges DEF Act

\* The hyperedges of the input.
LEMMA EdgeStart == Init => EdgeInv
<1> SUFFICES ASSUME Init PROVE EdgeInv
  OBVIOUS
<1>1. /\ pins = Pins /\ nets = [u \in Nodes |-> {e \in Edges : u \in Pins[e]}]
      /\ enabled = Nodes /\ pc = [p \in Nodes |-> "idle"]
  BY DEF Init
<1>2. \A u : Reaches(u, u)
  BY DEF Reaches
<1>3. \A e \in Edges : Pins[e] \subseteq Nodes
  BY NLevelAssumption
<1> QED
  BY <1>1, <1>2, <1>3 DEF EdgeInv, PinsInv, NetsInv, ProgressInv

\* Stuttering steps.
LEMMA EdgeUnchanged == EdgeInv /\ UNCHANGED vars => EdgeInv'
<1> SUFFICES ASSUME EdgeInv, UNCHANGED vars PROVE EdgeInv'
  OBVIOUS
<1> USE DEF vars, tree, graph, locals
<1>1. \A u, z : Reaches(u, z)' <=> Reaches(u, z)
  BY DEF Reaches, Closed
<1>2. PinsInv'
  BY <1>1 DEF EdgeInv, PinsInv
<1>3. NetsInv' /\ ProgressInv'
  BY DEF EdgeInv, NetsInv, ProgressInv
<1> QED
  BY <1>2, <1>3 DEF EdgeInv

\* A node reaches one enabled node only: what its representative reaches.
LEMMA ReachFromParent ==
  ASSUME Types, NEW n \in Nodes, n \notin enabled, NEW z, z # n, Reaches(n, z)
  PROVE  Reaches(parent[n], z)
<1> SUFFICES ASSUME NEW C \in SUBSET Nodes, parent[n] \in C, Closed(C) PROVE z \in C
  BY DEF Reaches
<1>1. Closed(C \union {n}) /\ n \in C \union {n} /\ C \union {n} \in SUBSET Nodes
  BY DEF Closed
<1>2. z \in C \union {n}
  BY <1>1 DEF Reaches
<1> QED
  BY <1>2

\* When all contractions are finished the pins are the representatives of the original
\* pins.
LEMMA FinalEdges ==
  ASSUME Types, EdgeInv, AllDone, \A u \in Nodes : parent[u] # u <=> u \notin enabled
  PROVE  /\ \A e \in Edges : pins[e] = UNION {Roots(u) : u \in Pins[e]}
         /\ \A e \in Edges, u \in enabled : u \in pins[e] <=> e \in nets[u]
<1>0. \A p \in Nodes : pc[p] \notin {"nets", "merge"}
  BY DEF AllDone
<1>1. \A e \in Edges : pins[e] \subseteq enabled /\ pins[e] \subseteq Nodes /\ Pins[e] \subseteq Nodes
  BY <1>0, NLevelAssumption DEF EdgeInv, PinsInv, Types
<1>2. \A u, r \in Nodes : r \in Roots(u) <=> parent[r] = r /\ Reaches(u, r)
  <2>1. \A C \in SUBSET Nodes : Closed(C) <=> \A z \in C : parent[z] \in C
    BY DEF Closed
  <2> QED
    BY <2>1 DEF Roots, Reaches
<1>3. ASSUME NEW e \in Edges PROVE pins[e] = UNION {Roots(u) : u \in Pins[e]}
  <2>1. ASSUME NEW z \in pins[e] PROVE z \in UNION {Roots(u) : u \in Pins[e]}
    <3>1. PICK u \in Pins[e] : Reaches(u, z)
      BY DEF EdgeInv, PinsInv
    <3>2. z \in Roots(u)
      BY <1>1, <1>2, <3>1
    <3> QED
      BY <3>2
  <2>2. ASSUME NEW u \in Pins[e], NEW r \in Roots(u) PROVE r \in pins[e]
    <3>1. PICK z \in pins[e] : Reaches(u, z)
      BY DEF EdgeInv, PinsInv
    <3>2. u \in Nodes /\ r \in Nodes /\ z \in Nodes /\ z \in enabled /\ r \in enabled /\ Reaches(u, r)
      <4>1. r \in Nodes
        BY DEF Roots
      <4> QED
        BY <1>1, <1>2, <4>1
    <3> DEFINE D == {n \in Nodes : Reaches(n, z)}
    <3>3. Closed(D)
      <4> SUFFICES ASSUME NEW n \in D, n \notin enabled PROVE parent[n] \in D
        BY DEF Closed
      <4>1. parent[n] \in Nodes
        BY DEF Types
      <4> QED
        BY <3>2, <4>1, ReachFromParent
    <3>4. u \in D /\ D \in SUBSET Nodes
      BY <3>1, <3>2
    <3>5. r \in D
      <4> HIDE DEF D
      <4> QED
        BY <3>2, <3>3, <3>4 DEF Reaches
    <3>6. Closed({r})
      BY <3>2 DEF Closed
    <3>7. z \in {r}
      <4>1. Reaches(r, z)
        BY <3>5
      <4> QED
        BY <3>2, <3>6, <4>1 DEF Reaches
    <3> QED
      BY <3>1, <3>7
  <2>3. pins[e] \subseteq UNION {Roots(u) : u \in Pins[e]}
    BY <2>1
  <2>4. UNION {Roots(u) : u \in Pins[e]} \subseteq pins[e]
    BY <2>2
  <2> QED
    BY <2>3, <2>4
<1>4. \A e \in Edges, u \in enabled : u \in pins[e] <=> e \in nets[u]
  BY <1>0 DEF EdgeInv, NetsInv
<1> QED
  BY <1>3, <1>4

-----------------------------------------------------------------------------
(* The inductive invariant of the pass *)

\* The state before the pass.
LEMMA FixedStart == Init => FixedInv /\ ClusterInv /\ AttemptInv
<1> SUFFICES ASSUME Init PROVE FixedInv /\ ClusterInv /\ AttemptInv
  OBVIOUS
<1>1. fixed_block = InitialBlock /\ pc = [p \in Nodes |-> "idle"] /\ enabled = Nodes
  BY DEF Init, FixedInit
<1> QED
  BY <1>1 DEF FixedInv, ClusterInv, AttemptInv

\* Both sums of BlockWeightConsistent and the weight of the input, as sums of functions.
LEMMA BlockWeightSums ==
  /\ \A b : InputWeight(b) = SumFunctionOnSet(NodeWeight, {u \in Nodes : InitialBlock[u] = b})
  /\ \A b : MapThenSumSet(LAMBDA p : DeltaWeight(x[p], y[p], weight), Unsettled(b)) =
              SumFunctionOnSet(Deltas, Unsettled(b))
  /\ \A b : MapThenSumSet(LAMBDA u : weight[u], FixedTo(b)) = SumFunctionOnSet(weight, FixedTo(b))
<1>1. ASSUME NEW S
      PROVE  MapThenSumSet(LAMBDA u : NodeWeight[u], S) = SumFunctionOnSet(NodeWeight, S)
  BY DEF MapThenSumSet, SumFunctionOnSet, FoldFunctionOnSet
<1>2. ASSUME NEW S
      PROVE  MapThenSumSet(LAMBDA u : weight[u], S) = SumFunctionOnSet(weight, S)
  BY DEF MapThenSumSet, SumFunctionOnSet, FoldFunctionOnSet
<1>3. ASSUME NEW S \in SUBSET Nodes
      PROVE  MapThenSumSet(LAMBDA p : DeltaWeight(x[p], y[p], weight), S) = SumFunctionOnSet(Deltas, S)
  BY DEF Deltas, MapThenSumSet, SumFunctionOnSet, FoldFunctionOnSet, MapThenFoldSet
<1>4. \A b : Unsettled(b) \in SUBSET Nodes
  BY DEF Unsettled
<1>5. \A b : InputWeight(b) = SumFunctionOnSet(NodeWeight, {u \in Nodes : InitialBlock[u] = b})
  BY <1>1 DEF InputWeight
<1> QED
  BY <1>2, <1>3, <1>4, <1>5

\* The weights of the blocks before the pass.
LEMMA BlockStart == Init => BlockTypes /\ BlockInv
<1> SUFFICES ASSUME Init PROVE BlockTypes /\ BlockInv
  OBVIOUS
<1>1. /\ fixed_block = InitialBlock /\ pc = [p \in Nodes |-> "idle"] /\ enabled = Nodes
      /\ weight = NodeWeight /\ block_weight = [b \in Blocks |-> InputWeight(b)]
      /\ weight_after = [p \in Nodes |-> 0]
  BY DEF Init, FixedInit
<1>2. Types
  BY TypesInit
<1>3. ASSUME NEW b \in Blocks
      PROVE  /\ FixedTo(b) = {u \in Nodes : InitialBlock[u] = b}
             /\ Unsettled(b) = {} /\ Fitting(b) = {}
  BY <1>1 DEF FixedTo, Unsettled, Fitting
<1>4. ASSUME NEW b \in Blocks
      PROVE  /\ InputWeight(b) = SumFunctionOnSet(weight, FixedTo(b)) /\ InputWeight(b) \in Nat
             /\ SumFunctionOnSet(Deltas, Unsettled(b)) = 0 /\ SumFunctionOnSet(Deltas, Fitting(b)) = 0
  <2>1. InputWeight(b) = SumFunctionOnSet(weight, FixedTo(b))
    BY <1>1, <1>3, BlockWeightSums
  <2>2. SumFunctionOnSet(weight, FixedTo(b)) \in Nat
    BY <1>2, BlockSums
  <2> QED
    BY <1>3, <2>1, <2>2, SumEmpty
<1>5. BlockTypes
  BY <1>1, <1>4 DEF BlockTypes
<1> QED
  BY <1>1, <1>4, <1>5 DEF BlockInv

ContractionInv ==
  LocksInv /\ FixedInv /\ (~revived => TreeInv /\ CareInv /\ EdgeInv /\ ClusterInv /\ BlockTypes /\ BlockInv)

\* Stuttering steps.
LEMMA OthersUnchanged ==
  /\ FixedInv /\ UNCHANGED vars => FixedInv'
  /\ ClusterInv /\ UNCHANGED vars => ClusterInv'
  /\ AttemptInv /\ UNCHANGED vars => AttemptInv'
  /\ BlockTypes /\ BlockInv /\ UNCHANGED vars => BlockTypes' /\ BlockInv'
<1> USE DEF vars, tree, graph, locals, fixedVars
<1>1. FixedInv /\ UNCHANGED vars => FixedInv'
  BY DEF FixedInv, BecomesFixed, IsFixed
<1>2. ClusterInv /\ UNCHANGED vars => ClusterInv'
  BY DEF ClusterInv, IsFixed
<1>3. AttemptInv /\ UNCHANGED vars => AttemptInv'
  BY DEF AttemptInv, Heavy, DifferentBlocks, IsFixed
<1>4. BlockTypes /\ BlockInv /\ UNCHANGED vars => BlockTypes' /\ BlockInv'
  BY DEF BlockTypes, BlockInv, FixedTo, Unsettled, Fitting, Deltas, DeltaWeight, TheBlock, IsFixed
<1> QED
  BY <1>1, <1>2, <1>3, <1>4

\* What every step keeps, and what it keeps unless it performs a contraction that was
\* taken back.
LEMMA ContractionInvariant == Spec => []ContractionInv
<1>1. Init => ContractionInv
  BY LocksStart, TreeStart, CareStart, EdgeStart, FixedStart, BlockStart DEF ContractionInv
<1>2. ContractionInv /\ [Next]_vars => ContractionInv'
  <2> SUFFICES ASSUME ContractionInv, [Next]_vars
               PROVE  /\ FixedInv'
                      /\ ~revived' => TreeInv' /\ CareInv' /\ EdgeInv' /\ ClusterInv' /\ BlockTypes' /\ BlockInv'
    BY LocksStep DEF ContractionInv
  <2>1. CASE UNCHANGED vars
    BY <2>1, TreeUnchanged, CareUnchanged, EdgeUnchanged, OthersUnchanged DEF vars, ContractionInv
  <2>2. ASSUME NEW p \in Nodes, Iterate(p)
        PROVE  /\ FixedInv'
               /\ ~revived' => TreeInv' /\ CareInv' /\ EdgeInv' /\ ClusterInv' /\ BlockTypes' /\ BlockInv'
    <3>1. Act(p) /\ revived' = (revived \/ Revives(p))
      BY <2>2, IterateIsAct DEF ContractionInv, LocksInv
    <3>2. FixedInv'
      BY <3>1, FixedAct DEF ContractionInv
    <3>3. ASSUME ~revived' PROVE TreeInv' /\ CareInv' /\ EdgeInv' /\ ClusterInv' /\ BlockTypes' /\ BlockInv'
      <4>1. ~revived /\ ~Revives(p)
        BY <3>1, <3>3
      <4> QED
        BY <2>2, <3>1, <4>1, TreeAct, CareAct, EdgeAct, ClusterAct, BlockAct DEF ContractionInv
    <3> QED
      BY <3>2, <3>3
  <2> QED
    BY <2>1, <2>2 DEF Next, PassComplete
<1> QED
  BY <1>1, <1>2, PTL DEF Spec

\* The reference count of a node is at every moment the number of its children whose
\* contraction is registered and not finished, for any number of threads, unless a
\* contraction was performed that another thread had taken back.
THEOREM PendingCountsMatch == Spec => []PendingMatchesTree
<1>1. ContractionInv => PendingMatchesTree
  BY DEF ContractionInv, TreeInv, PendingInv, PendingMatchesTree
<1> QED
  BY <1>1, ContractionInvariant, PTL

\* Contractions that are performed at the same time do not interfere.
THEOREM ContractionsAreIsolated == Spec => []PerformedInIsolation
<1>1. ContractionInv => PerformedInIsolation
  BY Isolated DEF ContractionInv, PerformedInIsolation
<1> QED
  BY <1>1, ContractionInvariant, PTL

\* When all threads have returned no contraction is left behind: every registered
\* contraction was performed or taken back, unless a cycle was registered or a contraction
\* was performed that had been taken back.
THEOREM NothingIsForgotten == Spec => []NoContractionForgotten
<1>1. ContractionInv => NoContractionForgotten
  BY NothingPending DEF ContractionInv, LocksInv, NoContractionForgotten
<1> QED
  BY <1>1, ContractionInvariant, PTL

\* When all threads have returned the pins of every hyperedge are the representatives of
\* its original pins, and incident nets and pins agree: concurrent contractions lose and
\* duplicate nothing, with the same two exceptions.
THEOREM HypergraphIsContracted == Spec => []HypergraphConsistent
<1>1. ContractionInv => HypergraphConsistent
  BY NothingPending, FinalEdges DEF ContractionInv, LocksInv, HypergraphConsistent
<1> QED
  BY <1>1, ContractionInvariant, PTL

\* The weight of a block is that of the nodes fixed to it and of the additions that are
\* not settled, and additions that are kept never exceed the limit, whatever other threads
\* add and take back in between.
THEOREM BlockWeightsAreTracked == Spec => []BlockWeightConsistent
<1>1. ContractionInv => BlockWeightConsistent
  <2> SUFFICES ASSUME Types, BlockTypes, BlockInv, NEW b \in Blocks
               PROVE  LET settled == block_weight[b]
                            - MapThenSumSet(LAMBDA p : DeltaWeight(x[p], y[p], weight), Unsettled(b))
                      IN  /\ InputWeight(b) <= MaxBlockWeight[b] => settled <= MaxBlockWeight[b]
                          /\ settled = MapThenSumSet(LAMBDA u : weight[u], FixedTo(b))
    BY DEF ContractionInv, LocksInv, BlockWeightConsistent, Unsettled, FixedTo
  <2> DEFINE fix == SumFunctionOnSet(weight, FixedTo(b))
             add == SumFunctionOnSet(Deltas, Unsettled(b))
             fit == SumFunctionOnSet(Deltas, Fitting(b))
  <2>1. fix \in Nat /\ add \in Nat /\ fit \in Nat
    BY BlockSums
  <2>2. /\ block_weight[b] = fix + add
        /\ InputWeight(b) <= MaxBlockWeight[b] => fix + fit <= MaxBlockWeight[b]
    BY DEF BlockInv
  <2>3. MaxBlockWeight[b] \in Nat
    BY FixedAssumption
  <2>4. /\ block_weight[b] - add = fix
        /\ InputWeight(b) <= MaxBlockWeight[b] => fix <= MaxBlockWeight[b]
    <3> HIDE DEF fix, add, fit
    <3> QED
      BY <2>1, <2>2, <2>3
  <2> QED
    BY <2>4, BlockWeightSums
<1> QED
  BY <1>1, ContractionInvariant, PTL

\* No cluster contains vertices that the input fixes to different blocks: the nodes that
\* are fixed to the block of u, a set that contains u, are closed under contractions.
THEOREM ClustersKeepTheirBlock == Spec => []ClustersRespectFixedBlocks
<1>1. ContractionInv => ClustersRespectFixedBlocks
  <2> SUFFICES ASSUME ContractionInv, ~revived, NEW r \in enabled, NEW u \in Cluster(r),
                      InitialBlock[u] # NoBlock
               PROVE  fixed_block[r] = InitialBlock[u]
    BY DEF ClustersRespectFixedBlocks
  <2> DEFINE S == {z \in Nodes : fixed_block[z] = InitialBlock[u]}
  <2>1. u \in Nodes /\ (u \in S /\ (\A z \in S \ enabled : parent[z] \in S) => r \in S)
    BY DEF Cluster
  <2>2. u \in S
    BY <2>1 DEF ContractionInv, FixedInv
  <2>3. ASSUME NEW z \in S \ enabled PROVE parent[z] \in S
    <3>1. z \in Nodes \ enabled /\ IsFixed(z)
      BY DEF IsFixed
    <3>2. parent[z] \in Nodes
      BY DEF ContractionInv, LocksInv, Types
    <3> QED
      BY <3>1, <3>2 DEF ContractionInv, ClusterInv
  <2> QED
    BY <2>1, <2>2, <2>3
<1> QED
  BY <1>1, ContractionInvariant, PTL

\* A contraction that was taken back is performed only if the weight of a block was above
\* its limit when a thread had added to it: without that the other theorems hold in every
\* interleaving.
THEOREM OnlyOverflowRevives == Spec /\ []NoBlockOverflow => []~revived
<1> DEFINE Inv == LocksInv /\ FixedInv /\ AttemptInv /\ ~revived
<1>1. Init => Inv
  <2>1. Init => ~revived
    BY DEF Init
  <2> QED
    BY <2>1, LocksStart, FixedStart
<1>2. Inv /\ NoBlockOverflow /\ [Next]_vars => Inv'
  <2> SUFFICES ASSUME Inv, NoBlockOverflow, [Next]_vars PROVE FixedInv' /\ AttemptInv' /\ ~revived'
    BY LocksStep
  <2>1. CASE UNCHANGED vars
    BY <2>1, OthersUnchanged DEF vars
  <2>2. ASSUME NEW p \in Nodes, Iterate(p) PROVE FixedInv' /\ AttemptInv' /\ ~revived'
    <3>1. Act(p) /\ revived' = (revived \/ Revives(p)) /\ (TakeBack(p) => pc[p] = "attempt")
      BY <2>2, IterateIsAct, NoOverflowTakeBack DEF LocksInv
    <3>2. FixedInv'
      BY <3>1, FixedAct
    <3>3. AttemptInv' /\ ~Revives(p)
      BY <3>1, AttemptAct
    <3> QED
      BY <3>1, <3>2, <3>3
  <2> QED
    BY <2>1, <2>2 DEF Next, PassComplete
<1> QED
  BY <1>1, <1>2, PTL DEF Spec

\* In particular it never happens if the input has no fixed vertices.
THEOREM UnfixedNeverRevives ==
  ASSUME \A u \in Nodes : InitialBlock[u] = NoBlock
  PROVE  Spec => []~revived
<1> DEFINE Inv == LocksInv /\ FixedInv /\ \A u \in Nodes : ~IsFixed(u)
<1>1. Init => Inv
  <2>1. Init => fixed_block = InitialBlock
    BY DEF Init, FixedInit
  <2> QED
    BY <2>1, LocksStart, FixedStart DEF IsFixed
<1>2. Inv /\ [Next]_vars => Inv'
  <2> SUFFICES ASSUME Inv, [Next]_vars PROVE FixedInv' /\ \A u \in Nodes : fixed_block'[u] = fixed_block[u]
    BY LocksStep DEF IsFixed
  <2>1. CASE UNCHANGED vars
    BY <2>1, OthersUnchanged DEF vars, fixedVars
  <2>2. ASSUME NEW p \in Nodes, Iterate(p)
        PROVE  FixedInv' /\ \A u \in Nodes : fixed_block'[u] = fixed_block[u]
    <3>1. Act(p) /\ Types /\ x[p] \in Nodes /\ y[p] \in Nodes
      BY <2>2, IterateIsAct DEF LocksInv, Types
    <3>2. ~Commit(p)
      BY <3>1 DEF Commit, FixedInv, BecomesFixed, IsFixed
    <3>3. fixed_block' = fixed_block
      BY <3>1, <3>2, NodeChanges
    <3> QED
      BY <3>1, <3>3, FixedAct
  <2> QED
    BY <2>1, <2>2 DEF Next, PassComplete
<1>3. Inv => NoBlockOverflow
  <2> SUFFICES ASSUME Inv, NEW p \in Nodes, pc[p] = "fixed" PROVE FALSE
    BY DEF NoBlockOverflow
  <2>1. x[p] \in Nodes /\ y[p] \in Nodes
    BY DEF LocksInv, Types
  <2> QED
    BY <2>1 DEF FixedInv, BecomesFixed, IsFixed
<1> QED
  BY <1>1, <1>2, <1>3, OnlyOverflowRevives, PTL DEF Spec

=============================================================================
