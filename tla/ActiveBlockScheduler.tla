------------------------ MODULE ActiveBlockScheduler ------------------------
(***************************************************************************)
(* The queue of block pairs of the flow-based refinement                   *)
(* (refinement/flows/active_block_scheduler.{h,cpp}, and the flags of the  *)
(* edges of the quotient graph in quotient_graph.h).                       *)
(*                                                                         *)
(* A block pair whose search improves the partition makes its blocks       *)
(* active, and all pairs with an active block are searched again in the    *)
(* next round.  Rounds are no barriers: searches of several rounds run at  *)
(* the same time.  Every atomic operation on a queue, a flag or a counter  *)
(* is a step; what happens under the lock of the rounds is one step.       *)
(***************************************************************************)
EXTENDS Integers, Sequences, FiniteSets, FiniteSetsExt, SequencesExt

CONSTANTS
  Blocks,           \* a set of integers
  NumSearches,      \* context.refinement.flows.num_parallel_searches
  MinImprovements,  \* values of _min_improvement_per_round, a share of the objective
  SkipUnpromising   \* context.refinement.flows.skip_unpromising_blocks

ASSUME SchedulerAssumption ==
  /\ Blocks \subseteq Int /\ IsFiniteSet(Blocks)
  /\ NumSearches \in Nat \ {0} /\ MinImprovements \subseteq Nat /\ SkipUnpromising \in BOOLEAN

Searches == 0..(NumSearches - 1)
Pairs == {S \in SUBSET Blocks : Cardinality(S) = 2}

VARIABLES
  rounds,        \* _rounds
  first_active,  \* _first_active_round (the first round is 1)
  terminate,     \* _terminate
  min_improvement,
  in_queue,      \* pairs with is_in_queue
  owned,         \* pairs with ownership
  cut_hes,       \* nets that were reported as cut nets of a pair
  found,         \* pairs with num_improvements_found > 0
  pc,            \* next step of each search
  pair, round,   \* the pair of a search and the round it was popped from
  remaining,     \* the sum that numRemainingBlocks has computed so far
  delta,         \* improvement of the search
  adjacent,      \* pairs that are still to be scheduled by finalizeSearch
  stopped        \* history: the early termination was decided on

schedulerVars == <<rounds, first_active, terminate, min_improvement, in_queue, owned, cut_hes, found>>
positionVars == <<pair, round, remaining, adjacent>>

\* A new ActiveBlockSchedulingRound.  remaining is unsigned in the code and can wrap
\* around: a pair may be finished before it is counted.
EmptyRound == [queue |-> <<>>, improvement |-> 0, active |-> {}, remaining |-> 0]

\* isActiveBlockPair with a threshold of 0 (the input hypergraph, or no skip_small_cuts).
\* The weight of the cut nets of a pair is never decreased.
IsActiveBlockPair(p) ==
  /\ cut_hes[p] # {}
  /\ SkipUnpromising => first_active = 1 \/ p \in found

Goto(t, step) == pc' = [pc EXCEPT ![t] = step]
At(t, step) == pc[t] = step

-----------------------------------------------------------------------------
(* Faulty variants of the definitions below. *)

\* A round counts as finished as soon as its queue is empty.
RoundFinishedEmptyQueue(r) == rounds[r].queue = <<>>

\* Only the first active round is looked at.
LastRoundReadFirst(t) == TRUE

\* A search that finds nothing to pop tries again.
PopFailsRetries(t) ==
  /\ At(t, "pop") /\ (terminate \/ round[t] \notin DOMAIN rounds)
  /\ round' = [round EXCEPT ![t] = 1]
  /\ Goto(t, "loop")
  /\ UNCHANGED <<schedulerVars, pair, remaining, adjacent, delta>>

-----------------------------------------------------------------------------
(* The loop of a search in refineImpl *)

\* numRemainingBlocks adds up the counters one by one, from the first active round on.
RemainingBlocks(r) == IF r \in DOMAIN rounds THEN rounds[r].remaining ELSE 0

BeginSum(t) ==
  /\ At(t, "loop")
  /\ round' = [round EXCEPT ![t] = first_active]
  /\ remaining' = [remaining EXCEPT ![t] = RemainingBlocks(first_active)]
  /\ Goto(t, "sum")
  /\ UNCHANGED <<schedulerVars, pair, delta, adjacent>>

LastRoundRead(t) == round[t] >= Len(rounds)

AddRemaining(t) ==
  /\ At(t, "sum") /\ ~LastRoundRead(t)
  /\ round' = [round EXCEPT ![t] = @ + 1]
  /\ remaining' = [remaining EXCEPT ![t] = @ + RemainingBlocks(round[t] + 1)]
  /\ UNCHANGED <<schedulerVars, pc, pair, delta, adjacent>>

\* The loop ends when there are fewer remaining pairs than searches (a negative number is
\* a very large one), or the walk over the rounds starts.
CheckRemaining(t) ==
  /\ At(t, "sum") /\ LastRoundRead(t)
  /\ \/ /\ remaining[t] < 0 \/ t < remaining[t]
        /\ round' = [round EXCEPT ![t] = first_active]
        /\ Goto(t, "pop")
     \/ /\ remaining[t] \in 0..t
        /\ round' = [round EXCEPT ![t] = 1]
        /\ Goto(t, "done")
  /\ remaining' = [remaining EXCEPT ![t] = 0]
  /\ UNCHANGED <<schedulerVars, pair, delta, adjacent>>

\* popBlockPairFromQueue: try_pop of one round, then of the next one.
PopPair(t) ==
  /\ At(t, "pop") /\ ~terminate /\ round[t] \in DOMAIN rounds
  /\ LET queue == rounds[round[t]].queue IN
       \/ /\ queue # <<>>
          /\ pair' = [pair EXCEPT ![t] = Head(queue)]
          /\ rounds' = [rounds EXCEPT ![round[t]].queue = Tail(queue)]
          /\ Goto(t, "mark") /\ UNCHANGED round
       \/ /\ queue = <<>>
          /\ round' = [round EXCEPT ![t] = @ + 1]
          /\ UNCHANGED <<rounds, pair, pc>>
  /\ UNCHANGED <<first_active, terminate, min_improvement, in_queue, owned, cut_hes, found, remaining, delta, adjacent>>

\* Nothing to pop: the search ends although others may still schedule pairs.
PopFails(t) ==
  /\ At(t, "pop") /\ (terminate \/ round[t] \notin DOMAIN rounds)
  /\ round' = [round EXCEPT ![t] = 1]
  /\ Goto(t, "done")
  /\ UNCHANGED <<schedulerVars, pair, remaining, adjacent, delta>>

\* markAsNotInQueue; there is always a round after the one a pair was popped from.
MarkPopped(t) ==
  /\ At(t, "mark")
  /\ in_queue' = in_queue \ {pair[t]}
  /\ rounds' = IF round[t] = Len(rounds) THEN Append(rounds, EmptyRound) ELSE rounds
  /\ Goto(t, "acquire")
  /\ UNCHANGED <<first_active, terminate, min_improvement, owned, cut_hes, found, positionVars, delta>>

\* The edge of the quotient graph can be acquired by another search that has the same
\* pair from an earlier round: the pair is finished without an improvement, and lost.
Acquire(t) ==
  /\ At(t, "acquire")
  /\ \/ /\ pair[t] \notin owned
        /\ owned' = owned \union {pair[t]}
        /\ Goto(t, "construct")
     \/ /\ pair[t] \in owned
        /\ Goto(t, "lost") /\ UNCHANGED owned
  /\ UNCHANGED <<rounds, first_active, terminate, min_improvement, in_queue, cut_hes, found, positionVars, delta>>

-----------------------------------------------------------------------------
(* finalizeSearch *)

\* reportImprovement, and finalizeSearch of the round: blocks that become active now.
Report(t) ==
  /\ At(t, "report")
  /\ LET improved == delta[t] > 0
         becomes_active == IF improved THEN pair[t] \ rounds[round[t]].active ELSE {}
     IN  /\ found' = IF improved THEN found \union {pair[t]} ELSE found
         /\ rounds' = IF improved
                      THEN [rounds EXCEPT ![round[t]].improvement = @ + delta[t],
                                          ![round[t]].active = @ \union pair[t]]
                      ELSE rounds
         /\ adjacent' = [adjacent EXCEPT ![t] =
              {p \in Pairs : p \intersect becomes_active # {}}]
  /\ Goto(t, "schedule")
  /\ UNCHANGED <<first_active, terminate, min_improvement, in_queue, owned, cut_hes, pair, round, remaining, delta>>

\* pushBlockPairIntoQueue: the pair is in the queue before it is counted.
Push(t, p, count, next) ==
  \/ /\ p \notin in_queue
     /\ in_queue' = in_queue \union {p}
     /\ rounds' = [rounds EXCEPT ![round[t] + 1].queue = Append(@, p)]
     /\ Goto(t, count)
  \/ /\ p \in in_queue
     /\ Goto(t, next) /\ UNCHANGED <<rounds, in_queue>>

\* schedule_adjacent_blocks, in an arbitrary order of the pairs.
Schedule(t) ==
  /\ At(t, "schedule")
  /\ \E p \in adjacent[t] :
       /\ adjacent' = [adjacent EXCEPT ![t] = @ \ {p}]
       /\ \/ IsActiveBlockPair(p) /\ Push(t, p, "count", "schedule")
          \/ ~IsActiveBlockPair(p) /\ UNCHANGED <<rounds, in_queue, pc>>
  /\ UNCHANGED <<first_active, terminate, min_improvement, owned, cut_hes, found, pair, round, remaining, delta>>

\* Then the pair itself, which may have been in a queue when its blocks became active.
\* Its blocks are active if there is an improvement.
ScheduleAgain(t) ==
  /\ At(t, "schedule") /\ adjacent[t] = {}
  /\ \/ delta[t] > 0 /\ IsActiveBlockPair(pair[t]) /\ Push(t, pair[t], "count_again", "decrement")
     \/ ~(delta[t] > 0 /\ IsActiveBlockPair(pair[t])) /\ Goto(t, "decrement") /\ UNCHANGED <<rounds, in_queue>>
  /\ UNCHANGED <<first_active, terminate, min_improvement, owned, cut_hes, found, positionVars, delta>>

\* ++_remaining_blocks
Count(t) ==
  /\ At(t, "count") \/ At(t, "count_again")
  /\ rounds' = [rounds EXCEPT ![round[t] + 1].remaining = @ + 1]
  /\ Goto(t, IF At(t, "count") THEN "schedule" ELSE "decrement")
  /\ UNCHANGED <<first_active, terminate, min_improvement, in_queue, owned, cut_hes, found, positionVars, delta>>

\* decrementRemainingBlocks, after all pairs are scheduled.
Decrement(t) ==
  /\ At(t, "decrement") \/ At(t, "lost")
  /\ rounds' = [rounds EXCEPT ![round[t]].remaining = @ - 1]
  /\ Goto(t, IF At(t, "lost") THEN "finish_lost" ELSE "finish")
  /\ UNCHANGED <<first_active, terminate, min_improvement, in_queue, owned, cut_hes, found, positionVars, delta>>

RoundFinished(r) == rounds[r].remaining = 0

\* A search returns from finalizeSearch; one that lost its pair ends.
ReturnFromFinalize(t, ends) ==
  /\ Goto(t, IF ends THEN "done" ELSE "loop")
  /\ pair' = [pair EXCEPT ![t] = {}] /\ round' = [round EXCEPT ![t] = 1]
  /\ delta' = [delta EXCEPT ![t] = 0]

\* Is the round of the search the first active one, and finished?  No lock is held.
CheckRound(t) ==
  /\ At(t, "finish") \/ At(t, "finish_lost")
  /\ LET lost == At(t, "finish_lost") IN
       \/ /\ round[t] = first_active /\ RoundFinished(round[t])
          /\ Goto(t, IF lost THEN "close_lost" ELSE "close")
          /\ UNCHANGED <<pair, round, delta>>
       \/ /\ round[t] # first_active \/ ~RoundFinished(round[t])
          /\ ReturnFromFinalize(t, lost)
  /\ UNCHANGED <<schedulerVars, remaining, adjacent>>

\* Under the lock: the rounds from the first active one on that are finished; the last one
\* decides about the termination.  Another search may have finished them before.  Nothing
\* looks at the improvement and the active blocks of a finished round again.
FinishRounds(t) ==
  /\ At(t, "close") \/ At(t, "close_lost")
  /\ LET Over(r) == \A q \in first_active..r : RoundFinished(q)
         last == Max({r \in DOMAIN rounds : r >= first_active /\ Over(r)} \union {first_active - 1})
     IN  /\ first_active' = last + 1
         /\ terminate' = IF last < first_active THEN terminate
                         ELSE rounds[last].improvement < min_improvement
         /\ rounds' = [r \in DOMAIN rounds |->
              IF r > last THEN rounds[r] ELSE [rounds[r] EXCEPT !.improvement = 0, !.active = {}]]
  /\ ReturnFromFinalize(t, At(t, "close_lost"))
  /\ UNCHANGED <<min_improvement, in_queue, owned, cut_hes, found, remaining, adjacent>>

\* A round that ends later can revoke the termination.
RecordStop == stopped' = (stopped \/ terminate')

SchedulerStep(t) ==
  \/ BeginSum(t) \/ AddRemaining(t) \/ CheckRemaining(t) \/ PopPair(t) \/ PopFails(t) \/ MarkPopped(t)
  \/ Acquire(t) \/ Schedule(t) \/ ScheduleAgain(t) \/ Count(t) \/ Decrement(t)
  \/ CheckRound(t) \/ FinishRounds(t)

-----------------------------------------------------------------------------
\* A search works on its pair between the pop and the decrement of the counter.
Working(t) == pc[t] \notin {"loop", "sum", "pop", "finish", "finish_lost", "close", "close_lost", "done"}

\* (safety) A round that the scheduler regards as finished is finished: none of its pairs
\* is queued or searched, and none is being added to it.  finalizeSearch decides this from
\* a counter that pushes and searches of other rounds change at the same time.
FinishedRoundsAreOver ==
  \A r \in 1..(first_active - 1) :
    r \in DOMAIN rounds =>
      /\ rounds[r].queue = <<>>
      /\ \A t \in Searches : Working(t) => round[t] # r /\ (At(t, "count") => round[t] + 1 # r)

\* (safety) When all searches have ended and no early termination was ever decided on, the
\* pairs that were scheduled but never searched are fewer than the searches: a search gives
\* up when the remaining pairs are left to others, or when it finds all queues empty.
LeftOverBounded ==
  (\A t \in Searches : At(t, "done")) /\ ~stopped =>
    MapThenSumSet(LAMBDA r : Len(rounds[r].queue), DOMAIN rounds) < NumSearches

\* (safety, does not hold) "If true, then search is immediatly terminated", comment of
\* _terminate: a round that was finished later decides again, and may decide to go on
\* when other searches have ended because of the first decision.
TerminationIsFinal == stopped => terminate
=============================================================================
