-------------------------- MODULE NumNodesTracker ---------------------------
(***************************************************************************)
(* The counter that tells the coarsener how many nodes are left            *)
(* (coarsening/num_nodes_tracker.h), and the two loops that consult it     *)
(* (nlevel_coarsener.h, clustering_context.h).  Each thread counts its own *)
(* contractions and recomputes the global number only after exceeding a    *)
(* local threshold.  The counters of the other threads are read one by one *)
(* while those threads go on contracting.                                  *)
(***************************************************************************)
EXTENDS Integers, FiniteSets, FiniteSetsExt

CONSTANTS
  Threads,
  InitialNumNodes,   \* _initial_num_nodes
  Limits,            \* hierarchy_contraction_limit of each pass
  MaxContractions    \* bound on the contractions of one iteration

ASSUME TrackerAssumption ==
  /\ IsFiniteSet(Threads) /\ Threads # {}
  /\ InitialNumNodes \in Nat \ {0} /\ MaxContractions \in Nat \ {0}
  /\ Limits \subseteq 1 .. InitialNumNodes /\ Limits # {}

VARIABLES
  contracted,     \* _contracted_nodes: one counter per thread
  threshold,      \* _num_nodes_update_threshold
  current,        \* _current_num_nodes
  limit,          \* limit of the current pass
  pc,
  updated,        \* updated_num_nodes, a local variable
  todo,           \* counters that the thread has not read yet
  base            \* history: the counters at the start of the pass

vars == <<contracted, threshold, current, limit, pc, updated, todo, base>>

NumThreads == Cardinality(Threads)
Total(f) == MapThenSumSet(LAMBDA t : f[t], Threads)
ActualNumNodes == InitialNumNodes - Total(contracted)

\* initialize
Init ==
  /\ contracted = [t \in Threads |-> 0]
  /\ threshold = [t \in Threads |-> 0]
  /\ current = InitialNumNodes
  /\ limit \in Limits
  /\ pc = [t \in Threads |-> "idle"]
  /\ updated = [t \in Threads |-> InitialNumNodes]
  /\ todo = [t \in Threads |-> {}]
  /\ base = [t \in Threads |-> 0]

-----------------------------------------------------------------------------
(* Faulty variants of the actions below. *)

\* The distance is not divided among the threads.
StoreWithoutDivision(t) ==
  /\ pc[t] = "sum" /\ todo[t] = {}
  /\ current' = updated[t]
  /\ threshold' = [threshold EXCEPT ![t] =
       @ + (IF updated[t] > limit THEN updated[t] - limit ELSE 0)]
  /\ pc' = [pc EXCEPT ![t] = "idle"]
  /\ UNCHANGED <<contracted, limit, updated, todo, base>>

\* A counter is read twice.
SumReadsTwice(t) ==
  /\ pc[t] = "sum"
  /\ \E s \in todo[t] :
       /\ updated' = [updated EXCEPT ![t] = @ - 2 * contracted[s]]
       /\ todo' = [todo EXCEPT ![t] = @ \ {s}]
  /\ UNCHANGED <<contracted, threshold, current, limit, pc, base>>

-----------------------------------------------------------------------------
\* An iteration starts only while the limit is not reached (shouldContinue).
Continue(t) ==
  /\ pc[t] = "idle"
  /\ current > limit
  /\ pc' = [pc EXCEPT ![t] = "contract"]
  /\ UNCHANGED <<contracted, threshold, current, limit, updated, todo, base>>

\* subtractMultiple after the contractions of the iteration; the last node is
\* never contracted.  fetch_add returns the previous value.
Subtract(t) ==
  /\ pc[t] = "contract"
  /\ \E n \in 0 .. MaxContractions :
       /\ n < ActualNumNodes
       /\ contracted' = [contracted EXCEPT ![t] = @ + n]
       /\ IF contracted[t] >= threshold[t]
          THEN /\ pc' = [pc EXCEPT ![t] = "sum"]
               /\ updated' = [updated EXCEPT ![t] = InitialNumNodes]
               /\ todo' = [todo EXCEPT ![t] = Threads]
          ELSE /\ pc' = [pc EXCEPT ![t] = "idle"]
               /\ UNCHANGED <<updated, todo>>
  /\ UNCHANGED <<threshold, current, limit, base>>

\* combine_each reads the next counter.
SumUp(t) ==
  /\ pc[t] = "sum"
  /\ \E s \in todo[t] :
       /\ updated' = [updated EXCEPT ![t] = @ - contracted[s]]
       /\ todo' = [todo EXCEPT ![t] = @ \ {s}]
  /\ UNCHANGED <<contracted, threshold, current, limit, pc, base>>

\* The sum becomes visible, however old it is, and the threshold grows.
Store(t) ==
  /\ pc[t] = "sum" /\ todo[t] = {}
  /\ current' = updated[t]
  /\ threshold' = [threshold EXCEPT ![t] =
       @ + (IF updated[t] > limit THEN updated[t] - limit ELSE 0) \div NumThreads]
  /\ pc' = [pc EXCEPT ![t] = "idle"]
  /\ UNCHANGED <<contracted, limit, updated, todo, base>>

\* All iterations have returned: updateCurrentNumNodes, and the next pass starts
\* with its own limit.
NextPass ==
  /\ \A t \in Threads : pc[t] = "idle"
  /\ current' = ActualNumNodes
  /\ threshold' = [t \in Threads |-> 0]
  /\ limit' \in Limits
  /\ base' = contracted
  /\ UNCHANGED <<contracted, pc, updated, todo>>

Next ==
  \/ NextPass
  \/ \E t \in Threads : Continue(t) \/ Subtract(t) \/ SumUp(t) \/ Store(t)

\* A thread that has started an iteration finishes it.
Fairness == \A t \in Threads : WF_vars(Subtract(t) \/ SumUp(t) \/ Store(t))

Spec == Init /\ [][Next]_vars /\ Fairness
-----------------------------------------------------------------------------
(* Properties *)

\* The type invariant of the tracker; in particular the unsigned subtractions of
\* updated_num_nodes never wrap around.
TypeOK ==
  /\ contracted \in [Threads -> 0 .. InitialNumNodes - 1]
  /\ threshold \in [Threads -> Nat]
  /\ current \in 1 .. InitialNumNodes
  /\ limit \in Limits
  /\ pc \in [Threads -> {"idle", "contract", "sum"}]
  /\ updated \in [Threads -> 1 .. InitialNumNodes]
  /\ todo \in [Threads -> SUBSET Threads]
  /\ base \in [Threads -> 0 .. InitialNumNodes - 1]

\* currentNumNodes never reports fewer nodes than there are: a pass that stops
\* because of the limit has really reached it, whatever the order of the stores.
NeverUnderestimates == current >= ActualNumNodes

\* The number of nodes at the start of the pass and what the pass is to contract.
Start == InitialNumNodes - Total(base)
Distance == IF Start > limit THEN Start - limit ELSE 0

\* What the threads contract beyond their thresholds: each exceeds its threshold by
\* less than one iteration, and starts one iteration because of the last estimate
\* and one for every estimate of another thread that was computed before the limit
\* was reached and stored after it.
Iterations == NumThreads + (NumThreads - 1) * (NumThreads - 1)
Slack == NumThreads * (MaxContractions - 1) + Iterations * MaxContractions

\* How far a pass may contract beyond its limit: every other thread may use up a
\* threshold computed when nothing was contracted yet.
PassOvershootBounded ==
  ActualNumNodes >= Start - Distance - ((NumThreads - 1) * Distance) \div NumThreads - Slack
=============================================================================
