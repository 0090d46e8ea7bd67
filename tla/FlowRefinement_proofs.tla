----------------------- MODULE FlowRefinement_proofs ------------------------
(***************************************************************************)
(* Proofs about the flow-based refinement: the rounds of the scheduler,    *)
(* the weights and the objective under concurrent searches, and the pairs  *)
(* that are left over.                                                     *)
(*                                                                         *)
(* The many steps of a search have few effects on the rounds; these are    *)
(* named first, and the invariants of the rounds are shown for each effect *)
(* instead of each step.                                                   *)
(***************************************************************************)
EXTENDS FlowRefinement, SumTheorems, TLAPS

Steps ==
  {"loop", "sum", "pop", "mark", "acquire", "construct", "flow", "apply", "move", "revert",
   "add_cut", "report", "schedule", "count", "count_again", "decrement", "lost", "finish",
   "finish_lost", "close", "close_lost", "done"}
RoundType == [queue : Seq(Pairs), improvement : Int, active : SUBSET Blocks, remaining : Int]

\* The types of what the scheduler keeps.
SchedulerTypeOK ==
  /\ rounds \in Seq(RoundType)
  /\ first_active \in Nat \ {0} /\ first_active <= Len(rounds) + 1
  /\ terminate \in BOOLEAN /\ stopped \in BOOLEAN
  /\ pc \in [Searches -> Steps]
  /\ pair \in [Searches -> SUBSET Blocks]
  /\ round \in [Searches -> Nat \ {0}]
  /\ remaining \in [Searches -> Int]
  /\ delta \in [Searches -> Int]
  /\ adjacent \in [Searches -> SUBSET Pairs]

\* A search that has marked its pair finds a round after its own.
PlacesOK ==
  \A t \in Searches : Working(t) =>
    /\ pair[t] \in Pairs
    /\ round[t] \in 1..Len(rounds)
    /\ pc[t] # "mark" => round[t] + 1 \in 1..Len(rounds)

\* The fields of a round.
LEMMA RoundFields ==
  ASSUME rounds \in Seq(RoundType)
  PROVE  /\ Len(rounds) \in Nat /\ DOMAIN rounds = 1..Len(rounds)
         /\ \A r \in DOMAIN rounds :
              /\ rounds[r] \in RoundType
              /\ rounds[r].queue \in Seq(Pairs) /\ Len(rounds[r].queue) \in Nat
              /\ rounds[r].improvement \in Int /\ rounds[r].remaining \in Int
              /\ rounds[r].active \in SUBSET Blocks
<1>1. Len(rounds) \in Nat /\ DOMAIN rounds = 1..Len(rounds)
  OBVIOUS
<1>2. \A r \in DOMAIN rounds : rounds[r] \in RoundType
  OBVIOUS
<1>3. \A x \in RoundType : /\ x.queue \in Seq(Pairs) /\ Len(x.queue) \in Nat
                           /\ x.improvement \in Int /\ x.remaining \in Int
                           /\ x.active \in SUBSET Blocks
  BY DEF RoundType
<1> HIDE DEF RoundType
<1> QED BY <1>1, <1>2, <1>3

\* A pair is appended to the queue of a round.
LEMMA QueueUpdate ==
  ASSUME NEW y \in RoundType, NEW p \in Pairs
  PROVE  /\ [y EXCEPT !.queue = Append(@, p)] \in RoundType
         /\ [y EXCEPT !.queue = Append(@, p)].queue = Append(y.queue, p)
         /\ [y EXCEPT !.queue = Append(@, p)].remaining = y.remaining
<1>1. Append(y.queue, p) \in Seq(Pairs)
  BY DEF RoundType
<1> QED BY <1>1 DEF RoundType

\* One round is replaced.
LEMMA ReplaceRound ==
  ASSUME rounds \in Seq(RoundType), NEW r \in DOMAIN rounds, NEW x \in RoundType,
         rounds' = [rounds EXCEPT ![r] = x]
  PROVE  /\ rounds' \in Seq(RoundType) /\ Len(rounds') = Len(rounds)
         /\ DOMAIN rounds' = DOMAIN rounds
         /\ rounds'[r] = x
         /\ \A q \in DOMAIN rounds : q # r => rounds'[q] = rounds[q]
<1> USE DEF RoundType
<1> HIDE DEF RoundType
<1> QED OBVIOUS

\* A new round is appended.
LEMMA AppendRound ==
  ASSUME rounds \in Seq(RoundType), rounds' = Append(rounds, EmptyRound)
  PROVE  /\ rounds' \in Seq(RoundType) /\ Len(rounds') = Len(rounds) + 1
         /\ DOMAIN rounds' = 1..(Len(rounds) + 1)
         /\ rounds'[Len(rounds) + 1] = EmptyRound
         /\ \A q \in DOMAIN rounds : rounds'[q] = rounds[q]
<1>1. EmptyRound \in RoundType
  BY DEF EmptyRound, RoundType
<1> HIDE DEF EmptyRound, RoundType
<1> QED BY <1>1

-----------------------------------------------------------------------------
(***************************************************************************)
(* What a step does to the rounds and to the places of the searches.       *)
(***************************************************************************)

Counting(t) == pc[t] \in {"count", "count_again"}

\* Only the search that takes the step changes its place.
OthersStay(t) ==
  \A s \in Searches : s # t =>
    /\ pc'[s] = pc[s] /\ round'[s] = round[s] /\ remaining'[s] = remaining[s]
    /\ pair'[s] = pair[s] /\ delta'[s] = delta[s]

SameRound(r) == rounds'[r].queue = rounds[r].queue /\ rounds'[r].remaining = rounds[r].remaining

\* No queue and no counter changes, and no search begins or ends to work.
Silent(t) ==
  /\ Len(rounds') \in {Len(rounds), Len(rounds) + 1}
  /\ \A r \in 1..Len(rounds) : SameRound(r)
  /\ Len(rounds') = Len(rounds) + 1 => rounds'[Len(rounds) + 1] = EmptyRound
  /\ Working(t)' <=> Working(t)
  /\ Working(t) => round'[t] = round[t] /\ pair'[t] = pair[t]
  /\ ~Counting(t) /\ ~Counting(t)'
  /\ pc[t] = "mark" => pc'[t] # "mark" /\ round[t] + 1 <= Len(rounds')
  /\ Working(t) /\ pc[t] # "mark" => pc'[t] # "mark"

\* A pair is taken from the queue of a round.
Pops(t) ==
  /\ Len(rounds') = Len(rounds) /\ round[t] \in 1..Len(rounds) /\ round'[t] = round[t]
  /\ \A r \in 1..Len(rounds) : r # round[t] => SameRound(r)
  /\ rounds[round[t]].queue # <<>>
  /\ rounds'[round[t]].queue = Tail(rounds[round[t]].queue)
  /\ rounds'[round[t]].remaining = rounds[round[t]].remaining
  /\ pc[t] = "pop" /\ pc'[t] = "mark" /\ pair'[t] \in Pairs

\* A pair is put into the queue of the next round.
Pushes(t) ==
  /\ Len(rounds') = Len(rounds) /\ round[t] + 1 \in 1..Len(rounds) /\ round'[t] = round[t]
  /\ \A r \in 1..Len(rounds) : r # round[t] + 1 => SameRound(r)
  /\ \E p \in Pairs : rounds'[round[t] + 1].queue = Append(rounds[round[t] + 1].queue, p)
  /\ rounds'[round[t] + 1].remaining = rounds[round[t] + 1].remaining
  /\ pc[t] = "schedule" /\ Counting(t)' /\ pair'[t] = pair[t]

\* The pair that was put into the queue is counted.
Counts(t) ==
  /\ Len(rounds') = Len(rounds) /\ round[t] + 1 \in 1..Len(rounds) /\ round'[t] = round[t]
  /\ \A r \in 1..Len(rounds) : r # round[t] + 1 => SameRound(r)
  /\ rounds'[round[t] + 1].queue = rounds[round[t] + 1].queue
  /\ rounds'[round[t] + 1].remaining = rounds[round[t] + 1].remaining + 1
  /\ Counting(t) /\ pc'[t] \in {"schedule", "decrement"} /\ pair'[t] = pair[t]

\* The own pair is finished.
Finishes(t) ==
  /\ Len(rounds') = Len(rounds) /\ round[t] \in 1..Len(rounds) /\ round'[t] = round[t]
  /\ \A r \in 1..Len(rounds) : r # round[t] => SameRound(r)
  /\ rounds'[round[t]].queue = rounds[round[t]].queue
  /\ rounds'[round[t]].remaining = rounds[round[t]].remaining - 1
  /\ \/ pc[t] = "decrement" /\ pc'[t] = "finish"
     \/ pc[t] = "lost" /\ pc'[t] = "finish_lost"

\* The first active round advances over finished ones.
Closes(t) ==
  /\ Len(rounds') = Len(rounds) /\ \A r \in 1..Len(rounds) : SameRound(r)
  /\ first_active' >= first_active /\ first_active' <= Len(rounds) + 1
  /\ \A r \in first_active..(first_active' - 1) : RoundFinished(r)
  /\ \/ pc[t] = "close" /\ pc'[t] = "loop"
     \/ pc[t] = "close_lost" /\ pc'[t] = "done"

\* The termination that was decided on is remembered.
LEMMA StopType ==
  ASSUME stopped \in BOOLEAN, terminate' \in BOOLEAN, RecordStop
  PROVE  stopped' \in BOOLEAN
BY DEF RecordStop

\* The loop of a search: nothing but its place changes.
LEMMA SumEffect ==
  ASSUME SchedulerTypeOK, NEW t \in Searches, RecordStop,
         BeginSum(t) \/ AddRemaining(t) \/ CheckRemaining(t) \/ PopFails(t)
  PROVE  SchedulerTypeOK' /\ OthersStay(t) /\ Silent(t)
<1> USE DEF SchedulerTypeOK, Goto, At, schedulerVars, Steps
<1>0. rounds' = rounds /\ first_active' = first_active /\ terminate' = terminate
  BY DEF BeginSum, AddRemaining, CheckRemaining, PopFails
<1>1. \A r : RemainingBlocks(r) \in Int
  BY RoundFields DEF RemainingBlocks
<1>2. stopped' \in BOOLEAN
  BY StopType, <1>0
<1> HIDE DEF RoundType, RemainingBlocks
<1>3. CASE BeginSum(t)
  BY <1>0, <1>1, <1>2, <1>3 DEF BeginSum, OthersStay, Silent, SameRound, Working, Counting
<1>4. CASE AddRemaining(t)
  BY <1>0, <1>1, <1>2, <1>4 DEF AddRemaining, OthersStay, Silent, SameRound, Working, Counting
<1>5. CASE CheckRemaining(t)
  <2>1. pc' \in [Searches -> Steps] /\ round' \in [Searches -> Nat \ {0}]
    BY <1>5 DEF CheckRemaining
  <2>2. /\ remaining' \in [Searches -> Int] /\ UNCHANGED <<pair, delta, adjacent>>
        /\ pc[t] = "sum" /\ pc'[t] \in {"pop", "done"}
    BY <1>5 DEF CheckRemaining
  <2>3. OthersStay(t)
    BY <1>5 DEF CheckRemaining, OthersStay
  <2>4. Silent(t)
    BY <1>0, <2>2 DEF Silent, SameRound, Working, Counting
  <2>5. SchedulerTypeOK'
    BY <1>0, <1>2, <2>1, <2>2
  <2> QED BY <2>3, <2>4, <2>5
<1>6. CASE PopFails(t)
  BY <1>0, <1>1, <1>2, <1>6 DEF PopFails, OthersStay, Silent, SameRound, Working, Counting
<1> QED BY <1>3, <1>4, <1>5, <1>6

\* try_pop of one round.
LEMMA PopEffect ==
  ASSUME SchedulerTypeOK, NEW t \in Searches, RecordStop, PopPair(t)
  PROVE  /\ SchedulerTypeOK' /\ OthersStay(t)
         /\ \/ Pops(t)
            \/ /\ Silent(t) /\ UNCHANGED <<rounds, pc>> /\ round'[t] = round[t] + 1
               /\ rounds[round[t]].queue = <<>>
<1> USE DEF SchedulerTypeOK, Goto, At, schedulerVars, Steps
<1>0. first_active' = first_active /\ terminate' = terminate
  BY DEF PopPair
<1>2. stopped' \in BOOLEAN
  BY StopType, <1>0
<1> DEFINE queue == rounds[round[t]].queue
           x == [rounds[round[t]] EXCEPT !.queue = Tail(queue)]
<1>3. round[t] \in DOMAIN rounds /\ round[t] \in 1..Len(rounds) /\ queue \in Seq(Pairs)
  BY RoundFields DEF PopPair
<1>4. CASE /\ queue # <<>>
           /\ pair' = [pair EXCEPT ![t] = Head(queue)]
           /\ rounds' = [rounds EXCEPT ![round[t]].queue = Tail(queue)]
           /\ Goto(t, "mark") /\ UNCHANGED round
  <2>1. Head(queue) \in SUBSET Blocks /\ Head(queue) \in Pairs /\ Tail(queue) \in Seq(Pairs)
    BY <1>3, <1>4 DEF Pairs
  <2>2. x \in RoundType /\ x.queue = Tail(queue) /\ x.remaining = rounds[round[t]].remaining
    BY <2>1, <1>3, RoundFields DEF RoundType
  <2>3. rounds' = [rounds EXCEPT ![round[t]] = x]
    BY <1>4
  <2>4. /\ rounds' \in Seq(RoundType) /\ Len(rounds') = Len(rounds)
        /\ rounds'[round[t]] = x
        /\ \A q \in DOMAIN rounds : q # round[t] => rounds'[q] = rounds[q]
    <3> HIDE DEF x, RoundType
    <3> QED BY <2>2, <2>3, <1>3, ReplaceRound
  <2> HIDE DEF x, RoundType
  <2>5. Pops(t)
    BY <2>1, <2>2, <2>4, <1>3, <1>4, RoundFields DEF Pops, SameRound, PopPair
  <2>6. SchedulerTypeOK'
    BY <2>1, <2>4, <1>0, <1>2, <1>4 DEF PopPair
  <2> QED BY <2>5, <2>6, <1>4 DEF OthersStay, PopPair
<1>5. CASE /\ queue = <<>>
           /\ round' = [round EXCEPT ![t] = @ + 1]
           /\ UNCHANGED <<rounds, pair, pc>>
  <2> HIDE DEF RoundType
  <2>1. SchedulerTypeOK' /\ OthersStay(t)
    BY <1>0, <1>2, <1>5 DEF OthersStay, PopPair
  <2>2. Silent(t) /\ UNCHANGED <<rounds, pc>> /\ round'[t] = round[t] + 1
    BY <1>5 DEF Silent, SameRound, PopPair, Working, Counting
  <2> QED BY <2>1, <2>2, <1>5
<1> QED BY <1>4, <1>5 DEF PopPair

\* markAsNotInQueue, and a further round.
LEMMA MarkEffect ==
  ASSUME SchedulerTypeOK, PlacesOK, NEW t \in Searches, RecordStop, MarkPopped(t)
  PROVE  SchedulerTypeOK' /\ OthersStay(t) /\ Silent(t)
<1> USE DEF SchedulerTypeOK, Goto, At, positionVars
<1>1. /\ first_active' = first_active /\ terminate' = terminate
      /\ pc[t] = "mark" /\ pc' = [pc EXCEPT ![t] = "acquire"]
      /\ UNCHANGED <<positionVars, delta>>
  BY DEF MarkPopped
<1>2. stopped' \in BOOLEAN
  BY StopType, <1>1
<1>3. pc' \in [Searches -> Steps] /\ pc'[t] = "acquire"
  BY <1>1 DEF Steps
<1>4. round[t] \in 1..Len(rounds)
  BY <1>1 DEF PlacesOK, Working
<1>5. /\ rounds' \in Seq(RoundType) /\ Len(rounds') \in {Len(rounds), Len(rounds) + 1}
      /\ \A q \in 1..Len(rounds) : rounds'[q] = rounds[q]
      /\ Len(rounds') = Len(rounds) + 1 => rounds'[Len(rounds) + 1] = EmptyRound
      /\ round[t] + 1 <= Len(rounds')
  <2> HIDE DEF RoundType, EmptyRound
  <2>1. CASE round[t] = Len(rounds)
    BY <2>1, <1>4, AppendRound DEF MarkPopped
  <2>2. CASE round[t] # Len(rounds)
    <3>1. rounds' = rounds
      BY <2>2 DEF MarkPopped
    <3>2. Len(rounds) \in Nat /\ round[t] + 1 <= Len(rounds)
      BY <2>2, <1>4
    <3> QED BY <3>1, <3>2
  <2> QED BY <2>1, <2>2
<1> HIDE DEF RoundType, EmptyRound
<1>6. SchedulerTypeOK'
  BY <1>1, <1>2, <1>3, <1>5, RoundFields
<1>7. OthersStay(t)
  BY <1>1 DEF OthersStay
<1>8. Silent(t)
  BY <1>1, <1>3, <1>5 DEF Silent, SameRound, Working, Counting
<1> QED BY <1>6, <1>7, <1>8

\* A step that changes neither the rounds nor the place of the search in them.
LEMMA QuietEffect ==
  ASSUME SchedulerTypeOK, NEW t \in Searches, RecordStop,
         UNCHANGED <<rounds, first_active, terminate, pair, round, remaining>>,
         delta' \in [Searches -> Int], adjacent' \in [Searches -> SUBSET Pairs],
         \A s \in Searches : s # t => delta'[s] = delta[s],
         NEW step \in Steps, Goto(t, step),
         Working(t), ~Counting(t), pc[t] # "mark",
         step \in {"acquire", "construct", "lost", "flow", "apply", "move", "revert", "add_cut",
                   "report", "schedule", "decrement"}
  PROVE  SchedulerTypeOK' /\ OthersStay(t) /\ Silent(t)
<1> USE DEF SchedulerTypeOK, Goto
<1>1. stopped' \in BOOLEAN
  BY StopType
<1>2. pc' \in [Searches -> Steps] /\ pc'[t] = step
  OBVIOUS
<1>3. SchedulerTypeOK'
  BY <1>1, <1>2
<1>4. OthersStay(t)
  BY DEF OthersStay
<1>5. Silent(t)
  BY <1>2 DEF Silent, SameRound, Working, Counting
<1> QED BY <1>3, <1>4, <1>5

\* The edge of the quotient graph, and what the flow search does before it reports.
LEMMA FlowEffect ==
  ASSUME SchedulerTypeOK, NEW t \in Searches, RecordStop,
         \/ Acquire(t) \/ Construct(t) \/ ExtractMoves(t) \/ BeginApply(t)
         \/ AddNewCutHyperedge(t)
  PROVE  /\ SchedulerTypeOK' /\ OthersStay(t) /\ Silent(t)
         /\ first_active' = first_active
<1> USE DEF SchedulerTypeOK, At, schedulerVars, positionVars
<1>1. UNCHANGED <<rounds, first_active, terminate, pair, round, remaining, delta, adjacent>>
  BY DEF Acquire, Construct, ExtractMoves, BeginApply, AddNewCutHyperedge
<1>2. pc[t] \in {"acquire", "construct", "flow", "apply", "add_cut"}
  BY DEF Acquire, Construct, ExtractMoves, BeginApply, AddNewCutHyperedge
<1>3. Working(t) /\ ~Counting(t) /\ pc[t] # "mark"
  BY <1>2 DEF Working, Counting
<1>4. \E step \in {"construct", "lost", "flow", "report", "apply", "move", "add_cut"} : Goto(t, step)
  BY DEF Acquire, Construct, ExtractMoves, BeginApply, AddNewCutHyperedge
<1>5. PICK step \in {"construct", "lost", "flow", "report", "apply", "move", "add_cut"} : Goto(t, step)
  BY <1>4
<1>6. step \in Steps
  BY DEF Steps
<1> QED BY <1>1, <1>3, <1>5, <1>6, QuietEffect

\* reportImprovement: the improvement and the active blocks of a round.
LEMMA ReportEffect ==
  ASSUME SchedulerTypeOK, PlacesOK, NEW t \in Searches, RecordStop, Report(t)
  PROVE  /\ SchedulerTypeOK' /\ OthersStay(t) /\ Silent(t)
         /\ first_active' = first_active
<1> USE DEF SchedulerTypeOK, Goto, At
<1>1. /\ UNCHANGED <<first_active, terminate, pair, round, remaining, delta>>
      /\ pc[t] = "report" /\ pc' = [pc EXCEPT ![t] = "schedule"]
  BY DEF Report
<1>2. pc' \in [Searches -> Steps] /\ pc'[t] = "schedule"
  BY <1>1 DEF Steps
<1>3. stopped' \in BOOLEAN
  BY <1>1, StopType
<1>4. adjacent' \in [Searches -> SUBSET Pairs]
  BY DEF Report
<1>5. round[t] \in DOMAIN rounds /\ rounds[round[t]] \in RoundType
  BY <1>1, RoundFields DEF PlacesOK, Working
<1>6. /\ rounds' \in Seq(RoundType) /\ Len(rounds') = Len(rounds)
      /\ \A r \in 1..Len(rounds) : SameRound(r)
  <2>1. CASE delta[t] > 0
    <3> DEFINE x == [rounds[round[t]] EXCEPT !.improvement = @ + delta[t], !.active = @ \union pair[t]]
    <3>1. rounds' = [rounds EXCEPT ![round[t]] = x]
      BY <2>1, <1>5 DEF Report
    <3>2. /\ x \in RoundType /\ x.queue = rounds[round[t]].queue
          /\ x.remaining = rounds[round[t]].remaining
      <4>1. /\ rounds[round[t]].improvement + delta[t] \in Int
            /\ rounds[round[t]].active \union pair[t] \in SUBSET Blocks
        <5>1. delta[t] \in Int /\ pair[t] \in SUBSET Blocks
          OBVIOUS
        <5> QED BY <5>1, <1>5, RoundFields
      <4> DEFINE y == rounds[round[t]]
                 d == y.improvement + delta[t]
                 a == y.active \union pair[t]
      <4>3. y \in RoundType /\ d \in Int /\ a \in SUBSET Blocks
        BY <1>5, <4>1
      <4>4. x = [y EXCEPT !.improvement = d, !.active = a]
        OBVIOUS
      <4> HIDE DEF x, y, d, a
      <4>5. x \in RoundType /\ x.queue = y.queue /\ x.remaining = y.remaining
        BY ONLY <4>3, <4>4 DEF RoundType
      <4> QED BY <4>5 DEF y
    <3>3. /\ rounds' \in Seq(RoundType) /\ Len(rounds') = Len(rounds) /\ rounds'[round[t]] = x
          /\ \A q \in DOMAIN rounds : q # round[t] => rounds'[q] = rounds[q]
      <4> HIDE DEF x, RoundType
      <4> QED BY <3>1, <3>2, <1>5, ReplaceRound
    <3> HIDE DEF x, RoundType
    <3> QED BY <3>2, <3>3, RoundFields DEF SameRound
  <2>2. CASE ~(delta[t] > 0)
    BY <2>2 DEF Report, SameRound
  <2> QED BY <2>1, <2>2
<1> HIDE DEF RoundType
<1>7. SchedulerTypeOK'
  BY <1>1, <1>2, <1>3, <1>4, <1>6
<1>8. OthersStay(t)
  BY <1>1 DEF OthersStay
<1>9. Silent(t)
  <2>1. Len(rounds) \in Nat
    BY RoundFields
  <2>2. Working(t) /\ Working(t)' /\ ~Counting(t) /\ ~Counting(t)'
    BY <1>1, <1>2 DEF Working, Counting
  <2> HIDE DEF SchedulerTypeOK
  <2> QED BY <1>1, <1>2, <1>6, <2>1, <2>2 DEF Silent
<1> QED BY <1>1, <1>7, <1>8, <1>9

\* pushBlockPairIntoQueue.
LEMMA PushEffect ==
  ASSUME SchedulerTypeOK, PlacesOK, NEW t \in Searches, RecordStop, pc[t] = "schedule",
         NEW p \in Pairs, NEW count \in {"count", "count_again"}, NEW next \in {"schedule", "decrement"},
         Push(t, p, count, next),
         UNCHANGED <<first_active, terminate, pair, round, remaining, delta>>,
         adjacent' \in [Searches -> SUBSET Pairs]
  PROVE  SchedulerTypeOK' /\ OthersStay(t) /\ (Pushes(t) \/ Silent(t))
<1> USE DEF SchedulerTypeOK, Goto, At
<1>1. stopped' \in BOOLEAN
  BY StopType
<1>2. round[t] + 1 \in DOMAIN rounds /\ rounds[round[t] + 1] \in RoundType
  BY RoundFields DEF PlacesOK, Working
<1>3. CASE UNCHANGED rounds /\ Goto(t, next)
  <2>1. pc' \in [Searches -> Steps] /\ pc'[t] = next
    BY <1>3 DEF Steps
  <2>2. SchedulerTypeOK'
    BY <1>1, <1>3, <2>1
  <2>3. OthersStay(t)
    BY <1>3 DEF OthersStay
  <2>4. Silent(t)
    BY <1>3, <2>1 DEF Silent, SameRound, Working, Counting
  <2> QED BY <2>2, <2>3, <2>4
<1>4. CASE /\ rounds' = [rounds EXCEPT ![round[t] + 1].queue = Append(@, p)]
           /\ Goto(t, count)
  <2> DEFINE n == round[t] + 1
             x == [rounds[n] EXCEPT !.queue = Append(@, p)]
  <2>0. n \in DOMAIN rounds /\ rounds[n] \in RoundType
    BY <1>2
  <2>1. pc' \in [Searches -> Steps] /\ pc'[t] = count
    BY <1>4 DEF Steps
  <2>2. rounds' = [rounds EXCEPT ![n] = x]
    BY <1>4
  <2>3. x \in RoundType /\ x.queue = Append(rounds[n].queue, p) /\ x.remaining = rounds[n].remaining
    <3> HIDE DEF n, RoundType
    <3> QED BY ONLY <2>0, p \in Pairs, QueueUpdate
  <2>4. /\ rounds' \in Seq(RoundType) /\ Len(rounds') = Len(rounds) /\ rounds'[n] = x
        /\ \A q \in DOMAIN rounds : q # n => rounds'[q] = rounds[q]
    <3> HIDE DEF n, x, RoundType
    <3> QED BY <2>0, <2>2, <2>3, ReplaceRound
  <2> HIDE DEF x, RoundType
  <2>5. SchedulerTypeOK'
    BY <1>1, <2>1, <2>4
  <2>6. OthersStay(t)
    BY <1>4 DEF OthersStay
  <2>7. Pushes(t)
    BY <2>0, <2>1, <2>3, <2>4, RoundFields DEF Pushes, SameRound, Counting
  <2> QED BY <2>5, <2>6, <2>7
<1> QED BY <1>3, <1>4 DEF Push

\* The pairs with an active block are scheduled, one after the other.
LEMMA ScheduleEffect ==
  ASSUME SchedulerTypeOK, PlacesOK, NEW t \in Searches, RecordStop, Schedule(t) \/ ScheduleAgain(t)
  PROVE  /\ SchedulerTypeOK' /\ OthersStay(t) /\ (Pushes(t) \/ Silent(t))
         /\ first_active' = first_active
<1> USE DEF SchedulerTypeOK, At, positionVars
<1>1. /\ UNCHANGED <<first_active, terminate, pair, round, remaining, delta>>
      /\ pc[t] = "schedule"
  BY DEF Schedule, ScheduleAgain
<1>2. adjacent' \in [Searches -> SUBSET Pairs]
  BY DEF Schedule, ScheduleAgain
<1>3. Working(t) /\ ~Counting(t) /\ pc[t] # "mark"
  BY <1>1 DEF Working, Counting
<1>4. {"schedule", "decrement"} \subseteq Steps
  BY DEF Steps
<1>5. CASE \E p \in adjacent[t] : Push(t, p, "count", "schedule")
  <2>1. PICK p \in adjacent[t] : Push(t, p, "count", "schedule")
    BY <1>5
  <2>2. p \in Pairs
    OBVIOUS
  <2> QED BY <1>1, <1>2, <2>1, <2>2, PushEffect
<1>6. CASE Push(t, pair[t], "count_again", "decrement")
  <2>1. pair[t] \in Pairs
    BY <1>3 DEF PlacesOK
  <2> QED BY <1>1, <1>2, <1>6, <2>1, PushEffect
<1>7. CASE UNCHANGED rounds /\ (Goto(t, "decrement") \/ UNCHANGED pc)
  <2>1. Goto(t, "decrement") \/ Goto(t, "schedule")
    BY <1>1, <1>7 DEF Goto
  <2> QED BY <1>1, <1>2, <1>3, <1>4, <1>7, <2>1, QuietEffect
<1> QED BY <1>5, <1>6, <1>7 DEF Schedule, ScheduleAgain

\* ++_remaining_blocks and decrementRemainingBlocks: one counter changes by one.
LEMMA CounterEffect ==
  ASSUME SchedulerTypeOK, PlacesOK, NEW t \in Searches, RecordStop, Count(t) \/ Decrement(t)
  PROVE  /\ SchedulerTypeOK' /\ OthersStay(t) /\ (Counts(t) \/ Finishes(t))
         /\ first_active' = first_active
<1> USE DEF SchedulerTypeOK, Goto, At, positionVars
<1>1. UNCHANGED <<first_active, terminate, pair, round, remaining, adjacent, delta>>
  BY DEF Count, Decrement
<1>2. stopped' \in BOOLEAN
  BY <1>1, StopType
<1>3. CASE Count(t)
  <2> DEFINE n == round[t] + 1
             d == rounds[n].remaining + 1
             x == [rounds[n] EXCEPT !.remaining = d]
  <2>1. /\ Counting(t) /\ pc'[t] \in {"schedule", "decrement"}
        /\ pc' \in [Searches -> Steps] /\ \A s \in Searches : s # t => pc'[s] = pc[s]
    <3>1. Goto(t, "schedule") \/ Goto(t, "decrement")
      BY <1>3 DEF Count
    <3>2. Counting(t)
      BY <1>3 DEF Count, Counting
    <3>3. {"schedule", "decrement"} \subseteq Steps
      BY DEF Steps
    <3> QED BY <3>1, <3>2, <3>3
  <2>2. n \in DOMAIN rounds /\ rounds[n] \in RoundType /\ d \in Int
    <3>1. n \in DOMAIN rounds
      BY <2>1, RoundFields DEF PlacesOK, Working, Counting
    <3> HIDE DEF n
    <3> QED BY <3>1, RoundFields
  <2>3. rounds' = [rounds EXCEPT ![n] = x]
    BY <1>3 DEF Count
  <2>4. x \in RoundType /\ x.queue = rounds[n].queue /\ x.remaining = d
    <3> HIDE DEF n, d
    <3> QED BY ONLY <2>2 DEF RoundType
  <2>5. /\ rounds' \in Seq(RoundType) /\ Len(rounds') = Len(rounds) /\ rounds'[n] = x
        /\ \A q \in DOMAIN rounds : q # n => rounds'[q] = rounds[q]
    <3> HIDE DEF n, x, RoundType
    <3> QED BY <2>2, <2>3, <2>4, ReplaceRound
  <2> HIDE DEF x, RoundType
  <2>6. SchedulerTypeOK'
    BY <1>1, <1>2, <2>1, <2>5
  <2>7. OthersStay(t)
    BY <1>1, <2>1 DEF OthersStay
  <2>8. Counts(t)
    BY <1>1, <2>1, <2>2, <2>4, <2>5, RoundFields DEF Counts, SameRound
  <2> QED BY <1>1, <2>6, <2>7, <2>8
<1>4. CASE Decrement(t)
  <2> DEFINE n == round[t]
             d == rounds[n].remaining - 1
             x == [rounds[n] EXCEPT !.remaining = d]
  <2>1. /\ \/ pc[t] = "decrement" /\ pc'[t] = "finish"
           \/ pc[t] = "lost" /\ pc'[t] = "finish_lost"
        /\ pc' \in [Searches -> Steps] /\ \A s \in Searches : s # t => pc'[s] = pc[s]
    <3>1. \/ pc[t] = "decrement" /\ Goto(t, "finish")
          \/ pc[t] = "lost" /\ Goto(t, "finish_lost")
      BY <1>4 DEF Decrement
    <3>2. {"finish", "finish_lost"} \subseteq Steps
      BY DEF Steps
    <3> QED BY <3>1, <3>2
  <2>2. n \in DOMAIN rounds /\ rounds[n] \in RoundType /\ d \in Int
    <3>1. n \in DOMAIN rounds
      BY <2>1, RoundFields DEF PlacesOK, Working
    <3> HIDE DEF n
    <3> QED BY <3>1, RoundFields
  <2>3. rounds' = [rounds EXCEPT ![n] = x]
    BY <1>4 DEF Decrement
  <2>4. x \in RoundType /\ x.queue = rounds[n].queue /\ x.remaining = d
    <3> HIDE DEF n, d
    <3> QED BY ONLY <2>2 DEF RoundType
  <2>5. /\ rounds' \in Seq(RoundType) /\ Len(rounds') = Len(rounds) /\ rounds'[n] = x
        /\ \A q \in DOMAIN rounds : q # n => rounds'[q] = rounds[q]
    <3> HIDE DEF n, x, RoundType
    <3> QED BY <2>2, <2>3, <2>4, ReplaceRound
  <2> HIDE DEF x, RoundType
  <2>6. SchedulerTypeOK'
    BY <1>1, <1>2, <2>1, <2>5
  <2>7. OthersStay(t)
    BY <1>1, <2>1 DEF OthersStay
  <2>8. Finishes(t)
    BY <1>1, <2>1, <2>2, <2>4, <2>5, RoundFields DEF Finishes, SameRound
  <2> QED BY <1>1, <2>6, <2>7, <2>8
<1> QED BY <1>3, <1>4

\* The round of the search is looked at without the lock.
LEMMA CheckEffect ==
  ASSUME SchedulerTypeOK, NEW t \in Searches, RecordStop, CheckRound(t)
  PROVE  /\ SchedulerTypeOK' /\ OthersStay(t) /\ Silent(t)
         /\ first_active' = first_active
<1> USE DEF SchedulerTypeOK, Goto, At, schedulerVars, ReturnFromFinalize
<1>1. UNCHANGED <<rounds, first_active, terminate, remaining, adjacent>>
  BY DEF CheckRound
<1>2. stopped' \in BOOLEAN
  BY <1>1, StopType
<1>3. pc' \in [Searches -> Steps] /\ pc'[t] \in {"close", "close_lost", "loop", "done"}
  <2>1. Goto(t, "close") \/ Goto(t, "close_lost") \/ Goto(t, "loop") \/ Goto(t, "done")
    BY DEF CheckRound
  <2>2. {"close", "close_lost", "loop", "done"} \subseteq Steps
    BY DEF Steps
  <2> QED BY <2>1, <2>2
<1>4. /\ pair' \in [Searches -> SUBSET Blocks] /\ round' \in [Searches -> Nat \ {0}]
      /\ delta' \in [Searches -> Int] /\ pc[t] \in {"finish", "finish_lost"}
  <2>1. \/ UNCHANGED <<pair, round, delta>>
        \/ /\ pair' = [pair EXCEPT ![t] = {}] /\ round' = [round EXCEPT ![t] = 1]
           /\ delta' = [delta EXCEPT ![t] = 0]
    BY DEF CheckRound
  <2>2. pc[t] \in {"finish", "finish_lost"}
    BY DEF CheckRound
  <2>3. pair' \in [Searches -> SUBSET Blocks]
    BY <2>1
  <2>4. round' \in [Searches -> Nat \ {0}]
    BY <2>1
  <2>5. delta' \in [Searches -> Int]
    BY <2>1
  <2> QED BY <2>2, <2>3, <2>4, <2>5
<1>5. OthersStay(t)
  BY <1>1 DEF CheckRound, OthersStay
<1>6. SchedulerTypeOK'
  BY <1>1, <1>2, <1>3, <1>4
<1>7. Silent(t)
  BY <1>1, <1>3, <1>4 DEF Silent, SameRound, Working, Counting
<1> QED BY <1>1, <1>5, <1>6, <1>7

\* The rounds that are finished under the lock.
LEMMA CloseEffect ==
  ASSUME SchedulerTypeOK, NEW t \in Searches, RecordStop, FinishRounds(t)
  PROVE  SchedulerTypeOK' /\ OthersStay(t) /\ Closes(t)
<1> USE DEF SchedulerTypeOK, Goto, At
<1> DEFINE Over(r) == \A q \in first_active..r : RoundFinished(q)
           R == {r \in DOMAIN rounds : r >= first_active /\ Over(r)} \union {first_active - 1}
           last == Max(R)
<1>1. /\ UNCHANGED <<remaining, adjacent>>
      /\ first_active' = last + 1
      /\ terminate' = IF last < first_active THEN terminate
                      ELSE rounds[last].improvement < min_improvement
      /\ rounds' = [r \in DOMAIN rounds |->
           IF r > last THEN rounds[r] ELSE [rounds[r] EXCEPT !.improvement = 0, !.active = {}]]
      /\ ReturnFromFinalize(t, At(t, "close_lost"))
      /\ pc[t] \in {"close", "close_lost"}
  BY DEF FinishRounds
<1>2. /\ last \in Int /\ last >= first_active - 1 /\ last <= Len(rounds)
      /\ \A r \in first_active..last : RoundFinished(r)
  <2>1. IsFiniteSet(R) /\ R # {} /\ R \subseteq Int
    <3>1. DOMAIN rounds = 1..Len(rounds) /\ Len(rounds) \in Nat
      BY RoundFields
    <3>2. IsFiniteSet(1..Len(rounds))
      BY <3>1, FS_Interval
    <3>3. IsFiniteSet({r \in DOMAIN rounds : r >= first_active /\ Over(r)})
      <4> HIDE DEF Over
      <4> QED BY <3>1, <3>2, FS_Subset
    <3>4. IsFiniteSet(R)
      BY <3>3, FS_AddElement
    <3>5. R \subseteq Int
      BY <3>1
    <3> QED BY <3>4, <3>5
  <2>2. last \in R /\ \A r \in R : r <= last
    <3> HIDE DEF R
    <3> QED BY <2>1, LargestElement
  <2>3. Len(rounds) \in Nat /\ DOMAIN rounds = 1..Len(rounds)
    BY RoundFields
  <2>4. first_active - 1 \in R
    OBVIOUS
  <2>5. last \in Int /\ last >= first_active - 1
    <3> HIDE DEF R, last
    <3> QED BY <2>1, <2>2, <2>4
  <2>6. last <= Len(rounds)
    <3>1. last \in DOMAIN rounds \/ last = first_active - 1
      <4> HIDE DEF last, Over
      <4> QED BY <2>2
    <3> HIDE DEF last
    <3> QED BY <2>3, <3>1
  <2>7. \A r \in first_active..last : RoundFinished(r)
    <3>1. last = first_active - 1 \/ Over(last)
      <4> HIDE DEF last, Over
      <4> QED BY <2>2
    <3> HIDE DEF last
    <3> QED BY <2>5, <3>1
  <2> QED BY <2>5, <2>6, <2>7
<1> HIDE DEF last
<1>3. /\ rounds' \in Seq(RoundType) /\ Len(rounds') = Len(rounds)
      /\ \A r \in 1..Len(rounds) : SameRound(r)
  <2> DEFINE Val(r) == IF r > last THEN rounds[r] ELSE [rounds[r] EXCEPT !.improvement = 0, !.active = {}]
  <2>1. Len(rounds) \in Nat /\ DOMAIN rounds = 1..Len(rounds)
    BY RoundFields
  <2>2. ASSUME NEW r \in 1..Len(rounds)
        PROVE  /\ Val(r) \in RoundType
               /\ Val(r).queue = rounds[r].queue /\ Val(r).remaining = rounds[r].remaining
    <3> DEFINE y == rounds[r]
               z == [y EXCEPT !.improvement = 0, !.active = {}]
    <3>1. y \in RoundType
      BY <2>1, RoundFields
    <3>2. z \in RoundType /\ z.queue = y.queue /\ z.remaining = y.remaining
      <4> DEFINE a == {}
                 d == 0
      <4>1. a \in SUBSET Blocks /\ d \in Int
        OBVIOUS
      <4>2. z = [y EXCEPT !.improvement = d, !.active = a]
        OBVIOUS
      <4> HIDE DEF y, z, a, d
      <4> QED BY ONLY <3>1, <4>1, <4>2 DEF RoundType
    <3> HIDE DEF z, RoundType
    <3> QED BY <3>1, <3>2 DEF z
  <2>3. rounds' = [r \in 1..Len(rounds) |-> Val(r)]
    BY <1>1, <2>1
  <2> HIDE DEF Val, RoundType
  <2>4. rounds' \in Seq(RoundType) /\ Len(rounds') = Len(rounds)
    BY <2>1, <2>2, <2>3
  <2>5. \A r \in 1..Len(rounds) : rounds'[r] = Val(r)
    BY <2>3
  <2> QED BY <2>2, <2>4, <2>5 DEF SameRound
<1>4. /\ \/ pc[t] = "close" /\ pc'[t] = "loop"
         \/ pc[t] = "close_lost" /\ pc'[t] = "done"
      /\ pc' \in [Searches -> Steps]
  <2>1. \/ pc[t] = "close" /\ Goto(t, "loop")
        \/ pc[t] = "close_lost" /\ Goto(t, "done")
    BY <1>1 DEF ReturnFromFinalize
  <2>2. {"loop", "done"} \subseteq Steps
    BY DEF Steps
  <2> QED BY <2>1, <2>2
<1>5. pair' = [pair EXCEPT ![t] = {}] /\ round' = [round EXCEPT ![t] = 1] /\ delta' = [delta EXCEPT ![t] = 0]
  BY <1>1 DEF ReturnFromFinalize
<1>6. OthersStay(t)
  <2>1. \A s \in Searches : s # t => pc'[s] = pc[s]
    BY <1>1 DEF ReturnFromFinalize
  <2> QED BY <1>1, <1>5, <2>1 DEF OthersStay
<1>7. Closes(t)
  <2>0. first_active' = last + 1 /\ last \in Int
    BY <1>1, <1>2
  <2>1. /\ first_active' = last + 1 /\ last \in Int
        /\ first_active \in Nat /\ first_active' - 1 = last
    BY <2>0
  <2>2. first_active' >= first_active /\ first_active' <= Len(rounds) + 1
    <3>1. Len(rounds) \in Nat
      BY RoundFields
    <3> QED BY <2>1, <1>2, <3>1
  <2>3. \A r \in first_active..(first_active' - 1) : RoundFinished(r)
    BY <2>1, <1>2
  <2> QED BY <1>3, <1>4, <2>2, <2>3 DEF Closes
<1>8. SchedulerTypeOK'
  <2> HIDE DEF RoundType, ReturnFromFinalize
  <2>1. terminate' \in BOOLEAN
    <3>1. CASE last < first_active
      BY <1>1, <3>1
    <3>2. CASE ~(last < first_active)
      <4>1. terminate' = (rounds[last].improvement < min_improvement)
        BY <1>1, <3>2
      <4> QED BY <4>1
    <3> QED BY <3>1, <3>2
  <2>2. stopped' \in BOOLEAN
    BY <2>1, StopType
  <2>3. first_active' \in Nat \ {0} /\ first_active' <= Len(rounds') + 1
    <3>1. /\ first_active' >= first_active /\ first_active' <= Len(rounds') + 1
          /\ first_active' = last + 1 /\ last \in Int
      BY <1>1, <1>2, <1>3, <1>7 DEF Closes
    <3> QED BY <3>1
  <2>4. pair' \in [Searches -> SUBSET Blocks]
    BY <1>5
  <2>5. round' \in [Searches -> Nat \ {0}]
    BY <1>5
  <2>6. delta' \in [Searches -> Int]
    BY <1>5
  <2>7. remaining' \in [Searches -> Int] /\ adjacent' \in [Searches -> SUBSET Pairs]
    BY <1>1
  <2> QED BY <1>3, <1>4, <2>1, <2>2, <2>3, <2>4, <2>5, <2>6, <2>7
<1> QED BY <1>6, <1>7, <1>8

-----------------------------------------------------------------------------
(***************************************************************************)
(* Block weights and the objective as sums over all nodes and nets.        *)
(***************************************************************************)

\* What the nodes contribute to the weight of a block, and to its change by moves.
Contribution(p, b) == [u \in Nodes |-> IF p[u] = b THEN NodeWeight[u] ELSE 0]
Shift(s, b) == [u \in Nodes |->
  IF u \in DOMAIN s
  THEN (IF s[u].to = b THEN NodeWeight[u] ELSE 0) - (IF s[u].from = b THEN NodeWeight[u] ELSE 0)
  ELSE 0]

\* The weight of a block.
LEMMA BlockWeightSum ==
  ASSUME NEW p, NEW b \in Blocks
  PROVE  BlockWeights(p)[b] = SumFunctionOnSet(Contribution(p, b), Nodes)
<1> DEFINE T == {u \in Nodes : p[u] = b}
<1>1. BlockWeights(p)[b] = SumFunctionOnSet(NodeWeight, T)
  BY DEF BlockWeights, MapThenSumSet, SumFunctionOnSet, FoldFunctionOnSet
<1>2. SumFunctionOnSet(Contribution(p, b), Nodes) = SumFunctionOnSet(NodeWeight, T)
  <2>1. /\ T \in SUBSET Nodes /\ \A u \in T : NodeWeight[u] \in Int
        /\ \A u \in Nodes : Contribution(p, b)[u] = IF u \in T THEN NodeWeight[u] ELSE 0
    BY FlowAssumption DEF Contribution
  <2> HIDE DEF T
  <2> QED BY <2>1, FlowAssumption, SumExtend
<1> QED BY <1>1, <1>2

\* The change of the weight of a block as a sum over the moves.
MoveShift(s, b) == [u \in DOMAIN s |-> (IF s[u].to = b THEN NodeWeight[u] ELSE 0)
                                         - (IF s[u].from = b THEN NodeWeight[u] ELSE 0)]
LEMMA MovesSum ==
  ASSUME NEW s, NEW b
  PROVE  PartWeightDelta(s, b) = SumFunctionOnSet(MoveShift(s, b), DOMAIN s)
BY ZenonT(30) DEF PartWeightDelta, MoveShift, MapThenSumSet, SumFunctionOnSet, FoldFunctionOnSet, MapThenFoldSet

\* The change of the weight of a block by a sequence of moves.
LEMMA PartWeightSum ==
  ASSUME NEW s, DOMAIN s \subseteq Nodes, NEW b \in Blocks
  PROVE  PartWeightDelta(s, b) = SumFunctionOnSet(Shift(s, b), Nodes)
<1> DEFINE D(u) == (IF s[u].to = b THEN NodeWeight[u] ELSE 0)
                     - (IF s[u].from = b THEN NodeWeight[u] ELSE 0)
           d == [u \in DOMAIN s |-> D(u)]
<1>1. PartWeightDelta(s, b) = SumFunctionOnSet(d, DOMAIN s)
  BY MovesSum DEF MoveShift
<1>2. \A u \in DOMAIN s : D(u) \in Int
  BY FlowAssumption
<1>3. \A u \in DOMAIN s : d[u] \in Int
  BY <1>2
<1>4. \A u \in Nodes : Shift(s, b)[u] = IF u \in DOMAIN s THEN d[u] ELSE 0
  BY DEF Shift
<1>5. SumFunctionOnSet(Shift(s, b), Nodes) = SumFunctionOnSet(d, DOMAIN s)
  <2> HIDE DEF d
  <2> QED BY <1>3, <1>4, FlowAssumption, SumExtend
<1> QED BY <1>1, <1>5

\* The weights of the blocks after the moves of a sequence.
LEMMA MovesShiftWeights ==
  ASSUME NEW p \in [Nodes -> Blocks], NEW q \in [Nodes -> Blocks], NEW s, DOMAIN s \subseteq Nodes,
         \A u \in DOMAIN s : s[u].from = p[u] /\ s[u].to = q[u],
         \A u \in Nodes \ DOMAIN s : p[u] = q[u], NEW b \in Blocks
  PROVE  /\ BlockWeights(p)[b] \in Int /\ BlockWeights(q)[b] \in Int
         /\ PartWeightDelta(s, b) \in Int
         /\ BlockWeights(q)[b] = BlockWeights(p)[b] + PartWeightDelta(s, b)
<1>1. ASSUME NEW u \in Nodes
      PROVE  /\ Contribution(p, b)[u] \in Int /\ Shift(s, b)[u] \in Int
             /\ Contribution(q, b)[u] \in Int
             /\ Contribution(q, b)[u] = Contribution(p, b)[u] + Shift(s, b)[u]
  <2>1. NodeWeight[u] \in Int
    BY FlowAssumption
  <2>2. CASE u \in DOMAIN s
    BY <2>1, <2>2 DEF Contribution, Shift
  <2>3. CASE u \notin DOMAIN s
    BY <2>1, <2>3 DEF Contribution, Shift
  <2> QED BY <2>2, <2>3
<1>2. /\ SumFunctionOnSet(Contribution(p, b), Nodes) \in Int
      /\ SumFunctionOnSet(Contribution(q, b), Nodes) \in Int
      /\ SumFunctionOnSet(Shift(s, b), Nodes) \in Int
  BY <1>1, FlowAssumption, SumInt
<1>3. SumFunctionOnSet(Contribution(q, b), Nodes) =
        SumFunctionOnSet(Contribution(p, b), Nodes) + SumFunctionOnSet(Shift(s, b), Nodes)
  BY <1>1, FlowAssumption, SumPlus
<1> QED BY <1>2, <1>3, BlockWeightSum, PartWeightSum

\* The objective is an integer.
LEMMA Km1Type ==
  ASSUME NEW p \in [Nodes -> Blocks]
  PROVE  Km1(p) \in Int
<1> DEFINE Cost(e) == EdgeWeight[e] * (Cardinality({p[u] : u \in Pins[e]}) - 1)
           c == [e \in Edges |-> Cost(e)]
<1>1. Km1(p) = SumFunctionOnSet(c, Edges)
  BY ZenonT(30) DEF Km1, MapThenSumSet, SumFunctionOnSet, FoldFunctionOnSet, MapThenFoldSet
<1>2. ASSUME NEW e \in Edges PROVE Cost(e) \in Int
  <2>1. {p[u] : u \in Pins[e]} \subseteq Blocks
    BY FlowAssumption
  <2>2. IsFiniteSet({p[u] : u \in Pins[e]})
    BY <2>1, SchedulerAssumption, FS_Subset
  <2>3. Cardinality({p[u] : u \in Pins[e]}) \in Nat /\ EdgeWeight[e] \in Nat
    BY <2>2, FS_CardinalityType, FlowAssumption
  <2> QED BY <2>3
<1>3. \A e \in Edges : c[e] \in Int
  BY <1>2
<1> HIDE DEF c
<1> QED BY <1>1, <1>3, FlowAssumption, SumInt

-----------------------------------------------------------------------------
(***************************************************************************)
(* The partition and the moves of the searches.                            *)
(***************************************************************************)

\* The types of the partition, of the moves and of what is computed from them.
FlowTypeOK ==
  /\ part \in [Nodes -> Blocks]
  /\ part_weights \in [Blocks -> Int] /\ max_part_weights \in [Blocks -> Int]
  /\ quality \in Int /\ start_quality \in Int
  /\ plan \in [Searches -> UNION {[S -> Blocks] : S \in SUBSET Nodes}]
  /\ sequence \in [Searches -> UNION {[S -> [from : Blocks, to : Blocks]] : S \in SUBSET Nodes}]
  /\ applied \in [Searches -> SUBSET Nodes]

\* A single move.
LEMMA MovedType ==
  ASSUME part \in [Nodes -> Blocks], NEW u \in Nodes, NEW b \in Blocks
  PROVE  /\ Moved(u, b) \in [Nodes -> Blocks] /\ Moved(u, b)[u] = b
         /\ \A v \in Nodes : v # u => Moved(u, b)[v] = part[v]
         /\ Gain(u, b) = Km1(part) - Km1(Moved(u, b))
         /\ Km1(part) \in Int /\ Km1(Moved(u, b)) \in Int /\ Gain(u, b) \in Int
<1>1. /\ Moved(u, b) \in [Nodes -> Blocks] /\ Moved(u, b)[u] = b
      /\ \A v \in Nodes : v # u => Moved(u, b)[v] = part[v]
  BY DEF Moved
<1>2. Km1(part) \in Int /\ Km1(Moved(u, b)) \in Int
  BY <1>1, Km1Type
<1>3. Gain(u, b) = Km1(part) - Km1(Moved(u, b))
  BY DEF Gain
<1> QED BY <1>1, <1>2, <1>3

\* A node that a search is about to move.
LEMMA MoveFields ==
  ASSUME FlowTypeOK, NEW t \in Searches
  PROVE  /\ DOMAIN sequence[t] \subseteq Nodes
         /\ \A u \in DOMAIN sequence[t] : sequence[t][u].from \in Blocks /\ sequence[t][u].to \in Blocks
         /\ DOMAIN plan[t] \subseteq Nodes
         /\ \A u \in DOMAIN plan[t] : plan[t][u] \in Blocks
<1>1. PICK S \in SUBSET Nodes : sequence[t] \in [S -> [from : Blocks, to : Blocks]]
  BY DEF FlowTypeOK
<1>2. PICK R \in SUBSET Nodes : plan[t] \in [R -> Blocks]
  BY DEF FlowTypeOK
<1> QED BY <1>1, <1>2

\* What applyMoves does to the scheduler's variables.
LEMMA ApplyEffect ==
  ASSUME SchedulerTypeOK, FlowTypeOK, NEW t \in Searches, RecordStop, ApplyMove(t) \/ RevertMove(t)
  PROVE  /\ SchedulerTypeOK' /\ OthersStay(t) /\ Silent(t)
         /\ first_active' = first_active
<1> USE DEF At, schedulerVars, positionVars
<1>1. UNCHANGED <<rounds, first_active, terminate, pair, round, remaining, adjacent>>
  BY DEF ApplyMove, RevertMove
<1>2. pc[t] \in {"move", "revert"}
  BY DEF ApplyMove, RevertMove
<1>3. Working(t) /\ ~Counting(t) /\ pc[t] # "mark"
  BY <1>2 DEF Working, Counting
<1>4. delta' \in [Searches -> Int] /\ \A s \in Searches : s # t => delta'[s] = delta[s]
  <2>1. \E u \in DOMAIN sequence[t] :
          \/ delta' = [delta EXCEPT ![t] = delta[t] + Gain(u, sequence[t][u].to)]
          \/ delta' = [delta EXCEPT ![t] = delta[t] + Gain(u, sequence[t][u].from)]
    BY DEF ApplyMove, RevertMove, RevertedDelta
  <2>2. PICK u \in DOMAIN sequence[t] :
          \/ delta' = [delta EXCEPT ![t] = delta[t] + Gain(u, sequence[t][u].to)]
          \/ delta' = [delta EXCEPT ![t] = delta[t] + Gain(u, sequence[t][u].from)]
    BY <2>1
  <2>3. /\ u \in Nodes /\ sequence[t][u].to \in Blocks /\ sequence[t][u].from \in Blocks
        /\ part \in [Nodes -> Blocks]
    BY MoveFields DEF FlowTypeOK
  <2>4. Gain(u, sequence[t][u].to) \in Int /\ Gain(u, sequence[t][u].from) \in Int
    BY <2>3, MovedType
  <2>5. delta \in [Searches -> Int]
    BY DEF SchedulerTypeOK
  <2> QED BY <2>2, <2>4, <2>5
<1>5. \E step \in {"move", "revert", "add_cut", "report"} : Goto(t, step)
  <2>0. pc \in [Searches -> Steps]
    BY DEF SchedulerTypeOK
  <2>1. CASE ApplyMove(t)
    <3>1. \/ pc' = pc \/ Goto(t, "report") \/ Goto(t, "add_cut") \/ Goto(t, "revert")
      BY <2>1 DEF ApplyMove, EndApply
    <3>2. pc' = pc => Goto(t, "move")
      BY <2>0, <2>1 DEF ApplyMove, Goto
    <3> QED BY <3>1, <3>2
  <2>2. CASE RevertMove(t)
    BY <2>2 DEF RevertMove
  <2> QED BY <2>1, <2>2
<1>6. PICK step \in {"move", "revert", "add_cut", "report"} : Goto(t, step)
  BY <1>5
<1>7. step \in Steps /\ adjacent' \in [Searches -> SUBSET Pairs]
  BY <1>1 DEF Steps, SchedulerTypeOK
<1> QED BY <1>1, <1>3, <1>4, <1>6, <1>7, QuietEffect

\* Every step of a search has one of the effects.
LEMMA StepEffect ==
  ASSUME SchedulerTypeOK, PlacesOK, FlowTypeOK, NEW t \in Searches, SearchStep(t)
  PROVE  /\ SchedulerTypeOK' /\ OthersStay(t)
         /\ \/ /\ first_active' = first_active
               /\ Silent(t) \/ Pops(t) \/ Pushes(t) \/ Counts(t) \/ Finishes(t)
            \/ Closes(t)
<1>0. RecordStop
  BY DEF SearchStep
<1>1. CASE BeginSum(t) \/ AddRemaining(t) \/ CheckRemaining(t) \/ PopFails(t)
  <2>1. first_active' = first_active
    BY <1>1 DEF BeginSum, AddRemaining, CheckRemaining, PopFails, schedulerVars
  <2> QED BY <1>0, <1>1, <2>1, SumEffect
<1>2. CASE PopPair(t)
  <2>1. first_active' = first_active
    BY <1>2 DEF PopPair
  <2> QED BY <1>0, <1>2, <2>1, PopEffect
<1>3. CASE MarkPopped(t)
  <2>1. first_active' = first_active
    BY <1>3 DEF MarkPopped
  <2> QED BY <1>0, <1>3, <2>1, MarkEffect
<1>4. CASE Acquire(t) \/ Construct(t) \/ ExtractMoves(t) \/ BeginApply(t) \/ AddNewCutHyperedge(t)
  BY <1>0, <1>4, FlowEffect
<1>5. CASE ReportSearch(t)
  BY <1>0, <1>5, ReportEffect DEF ReportSearch
<1>6. CASE Schedule(t) \/ ScheduleAgain(t)
  BY <1>0, <1>6, ScheduleEffect
<1>7. CASE Count(t) \/ Decrement(t)
  BY <1>0, <1>7, CounterEffect
<1>8. CASE CheckRound(t)
  BY <1>0, <1>8, CheckEffect
<1>9. CASE FinishRounds(t)
  BY <1>0, <1>9, CloseEffect
<1>10. CASE ApplyMove(t) \/ RevertMove(t)
  BY <1>0, <1>10, ApplyEffect
<1> QED BY <1>1, <1>2, <1>3, <1>4, <1>5, <1>6, <1>7, <1>8, <1>9, <1>10 DEF SearchStep, SchedulerStep

\* The places stay valid.
LEMMA PlacesStep ==
  ASSUME SchedulerTypeOK, PlacesOK, NEW t \in Searches, SchedulerTypeOK', OthersStay(t),
         Silent(t) \/ Pops(t) \/ Pushes(t) \/ Counts(t) \/ Finishes(t) \/ Closes(t)
  PROVE  PlacesOK'
<1>1. Len(rounds') \in Nat /\ Len(rounds) \in Nat /\ Len(rounds) <= Len(rounds')
  BY RoundFields DEF SchedulerTypeOK, Silent, Pops, Pushes, Counts, Finishes, Closes
<1>2. ASSUME NEW s \in Searches, s # t, Working(s)'
      PROVE  /\ pair'[s] \in Pairs /\ round'[s] \in 1..Len(rounds')
             /\ pc'[s] # "mark" => round'[s] + 1 \in 1..Len(rounds')
  <2>1. pc'[s] = pc[s] /\ round'[s] = round[s] /\ pair'[s] = pair[s]
    BY <1>2 DEF OthersStay
  <2>2. Working(s)
    BY <1>2, <2>1 DEF Working
  <2> QED BY <1>1, <2>1, <2>2 DEF PlacesOK
<1>3. ASSUME Working(t)'
      PROVE  /\ pair'[t] \in Pairs /\ round'[t] \in 1..Len(rounds')
             /\ pc'[t] # "mark" => round'[t] + 1 \in 1..Len(rounds')
  <2>0. round[t] \in Nat
    BY DEF SchedulerTypeOK
  <2>1. CASE Silent(t)
    BY <1>1, <1>3, <2>0, <2>1 DEF PlacesOK, Silent
  <2>2. CASE Pops(t)
    BY <1>1, <2>2 DEF Pops
  <2>3. CASE Pushes(t)
    <3>1. Working(t) /\ pc[t] # "mark"
      BY <2>3 DEF Pushes, Working
    <3> QED BY <1>1, <2>3, <3>1 DEF PlacesOK, Pushes
  <2>4. CASE Counts(t)
    <3>1. Working(t) /\ pc[t] # "mark"
      BY <2>4 DEF Counts, Counting, Working
    <3> QED BY <1>1, <2>4, <3>1 DEF PlacesOK, Counts
  <2>5. CASE Finishes(t) \/ Closes(t)
    BY <1>3, <2>5 DEF Finishes, Closes, Working
  <2> QED BY <2>1, <2>2, <2>3, <2>4, <2>5
<1> QED BY <1>2, <1>3 DEF PlacesOK, Working

\* The change of the weight of a block is an integer.
LEMMA PartWeightDeltaType ==
  ASSUME NEW s, DOMAIN s \subseteq Nodes, NEW b \in Blocks
  PROVE  PartWeightDelta(s, b) \in Int
<1>1. \A u \in Nodes : Shift(s, b)[u] \in Int
  BY FlowAssumption DEF Shift
<1> QED BY <1>1, FlowAssumption, PartWeightSum, SumInt

\* Part weights with the moves of a sequence, or without them.
UpdatedWeights(s, sign) == [b \in Blocks |-> part_weights[b] + sign * PartWeightDelta(s, b)]

\* Updated weights are weights.
LEMMA UpdatedWeightsType ==
  ASSUME part_weights \in [Blocks -> Int], NEW s, DOMAIN s \subseteq Nodes, NEW sign \in {1, -1}
  PROVE  UpdatedWeights(s, sign) \in [Blocks -> Int]
<1>1. \A b \in Blocks : PartWeightDelta(s, b) \in Int /\ part_weights[b] \in Int
  BY PartWeightDeltaType
<1>2. \A b \in Blocks : part_weights[b] + sign * PartWeightDelta(s, b) \in Int
  BY <1>1
<1> QED BY <1>2 DEF UpdatedWeights

\* partWeightUpdate changes the weights of all blocks or, by going back over the blocks before
\* the first overloaded one, of none.
LEMMA AllOrNothing ==
  ASSUME FlowTypeOK, NEW s, DOMAIN s \subseteq Nodes, NEW sign \in {1, -1}
  PROVE  /\ Overloaded(s, sign) = {} <=> IsBalanced(UpdatedWeights(s, sign))
         /\ Overloaded(s, sign) = {} => PartWeightUpdate(s, sign) = UpdatedWeights(s, sign)
         /\ Overloaded(s, sign) # {} => PartWeightUpdate(s, sign) = part_weights
<1>1. \A b \in Blocks : PartWeightDelta(s, b) \in Int
  BY PartWeightDeltaType
<1>2. part_weights \in [Blocks -> Int] /\ max_part_weights \in [Blocks -> Int]
  BY DEF FlowTypeOK
<1>3. Overloaded(s, sign) = {} <=> IsBalanced(UpdatedWeights(s, sign))
  <2>1. \A b \in Blocks : part_weights[b] + sign * PartWeightDelta(s, b) \in Int
    BY <1>1, <1>2
  <2> QED BY <1>2, <2>1 DEF Overloaded, IsBalanced, UpdatedWeights
<1>4. ASSUME NEW i PROVE TakenBack(UpdatedBefore(s, sign, i), s, sign, i) = part_weights
  <2>1. ASSUME NEW b \in Blocks
        PROVE  TakenBack(UpdatedBefore(s, sign, i), s, sign, i)[b] = part_weights[b]
    <3>1. PartWeightDelta(s, b) \in Int /\ part_weights[b] \in Int
      BY <1>1, <1>2
    <3>2. CASE b < i
      <4>1. UpdatedBefore(s, sign, i)[b] = part_weights[b] + sign * PartWeightDelta(s, b)
        BY <3>2 DEF UpdatedBefore
      <4>2. TakenBack(UpdatedBefore(s, sign, i), s, sign, i)[b] =
              UpdatedBefore(s, sign, i)[b] - sign * PartWeightDelta(s, b)
        BY <3>2 DEF TakenBack
      <4> QED BY <3>1, <4>1, <4>2
    <3>3. CASE ~(b < i)
      BY <3>3 DEF TakenBack, UpdatedBefore
    <3> QED BY <3>2, <3>3
  <2>2. TakenBack(UpdatedBefore(s, sign, i), s, sign, i) =
          [b \in Blocks |-> TakenBack(UpdatedBefore(s, sign, i), s, sign, i)[b]]
    BY DEF TakenBack
  <2>3. part_weights = [b \in Blocks |-> part_weights[b]]
    BY <1>2
  <2> QED BY <2>1, <2>2, <2>3
<1> QED BY <1>3, <1>4 DEF PartWeightUpdate, UpdatedWeights

\* Without moves nothing changes.
LEMMA NoMovesNoChange ==
  ASSUME FlowTypeOK, NEW s, DOMAIN s = {}, NEW sign \in {1, -1}
  PROVE  PartWeightUpdate(s, sign) = part_weights
<1>1. \A b \in Blocks : PartWeightDelta(s, b) = 0
  BY MovesSum, SumEmpty
<1>2. part_weights \in [Blocks -> Int]
  BY DEF FlowTypeOK
<1>3. \A b \in Blocks : UpdatedWeights(s, sign)[b] = part_weights[b]
  BY <1>1, <1>2 DEF UpdatedWeights
<1>4. UpdatedWeights(s, sign) = part_weights
  BY <1>2, <1>3 DEF UpdatedWeights
<1> QED BY <1>4, AllOrNothing

\* The moves that applyMoves keeps.
LEMMA CurrentMovesType ==
  ASSUME FlowTypeOK, NEW t \in Searches
  PROVE  /\ DOMAIN CurrentMoves(t) = {v \in DOMAIN sequence[t] : part[v] # sequence[t][v].to}
         /\ DOMAIN CurrentMoves(t) \subseteq Nodes
         /\ \A u \in DOMAIN CurrentMoves(t) :
              /\ CurrentMoves(t)[u].from = part[u]
              /\ CurrentMoves(t)[u].to = sequence[t][u].to
              /\ CurrentMoves(t)[u].to \in Blocks
         /\ CurrentMoves(t) \in UNION {[S -> [from : Blocks, to : Blocks]] : S \in SUBSET Nodes}
<1> DEFINE M == {v \in DOMAIN sequence[t] : part[v] # sequence[t][v].to}
<1>1. CurrentMoves(t) = [u \in M |-> [from |-> part[u], to |-> sequence[t][u].to]]
  BY DEF CurrentMoves
<1>2. M \in SUBSET Nodes /\ \A u \in M : part[u] \in Blocks /\ sequence[t][u].to \in Blocks
  BY MoveFields DEF FlowTypeOK
<1> HIDE DEF M
<1>3. CurrentMoves(t) \in [M -> [from : Blocks, to : Blocks]]
  BY <1>1, <1>2
<1>4. DOMAIN CurrentMoves(t) = M /\ \A u \in M : CurrentMoves(t)[u] = [from |-> part[u], to |-> sequence[t][u].to]
  BY <1>1
<1>5. \A u \in M : CurrentMoves(t)[u].from = part[u] /\ CurrentMoves(t)[u].to = sequence[t][u].to
  BY <1>4
<1>6. CurrentMoves(t) \in UNION {[S -> [from : Blocks, to : Blocks]] : S \in SUBSET Nodes}
  BY <1>2, <1>3
<1>7. DOMAIN CurrentMoves(t) = {v \in DOMAIN sequence[t] : part[v] # sequence[t][v].to}
  BY <1>4 DEF M
<1>8. \A u \in DOMAIN CurrentMoves(t) :
        /\ CurrentMoves(t)[u].from = part[u] /\ CurrentMoves(t)[u].to = sequence[t][u].to
        /\ CurrentMoves(t)[u].to \in Blocks
  BY <1>2, <1>4, <1>5
<1>9. DOMAIN CurrentMoves(t) \subseteq Nodes
  BY <1>2, <1>4
<1> QED BY <1>6, <1>7, <1>8, <1>9

\* The types are kept.
LEMMA FlowTypeStep ==
  ASSUME SchedulerTypeOK, FlowTypeOK, NEW t \in Searches, SearchStep(t)
  PROVE  FlowTypeOK'
<1> USE DEF FlowTypeOK, partitionVars, flowVars
<1>1. CASE UNCHANGED <<partitionVars, flowVars>>
  BY <1>1
<1>2. CASE Construct(t)
  <2>1. \E region \in SUBSET Nodes : \E f \in [region -> pair[t]] : plan' = [plan EXCEPT ![t] = f]
    BY <1>2 DEF Construct
  <2>2. PICK region \in SUBSET Nodes : \E f \in [region -> pair[t]] : plan' = [plan EXCEPT ![t] = f]
    BY <2>1
  <2>3. PICK f \in [region -> pair[t]] : plan' = [plan EXCEPT ![t] = f]
    BY <2>2
  <2>4. f \in [region -> Blocks]
    BY DEF SchedulerTypeOK
  <2>5. f \in UNION {[S -> Blocks] : S \in SUBSET Nodes}
    BY <2>4
  <2> HIDE DEF partitionVars
  <2>6. plan' \in [Searches -> UNION {[S -> Blocks] : S \in SUBSET Nodes}]
    BY <2>3, <2>5
  <2>7. UNCHANGED <<partitionVars, sequence, applied>>
    BY <1>2 DEF Construct
  <2> QED BY <2>6, <2>7 DEF partitionVars
<1>3. CASE ExtractMoves(t)
  <2> DEFINE moved == {u \in DOMAIN plan[t] : part[u] # plan[t][u]}
             s == [u \in moved |-> [from |-> part[u], to |-> plan[t][u]]]
  <2>1. /\ sequence' = [sequence EXCEPT ![t] = s] /\ plan' = [plan EXCEPT ![t] = <<>>]
        /\ UNCHANGED <<partitionVars, applied>>
    BY <1>3 DEF ExtractMoves
  <2>2. moved \in SUBSET Nodes /\ \A u \in moved : part[u] \in Blocks /\ plan[t][u] \in Blocks
    BY MoveFields
  <2>3. s \in [moved -> [from : Blocks, to : Blocks]]
    <3> HIDE DEF moved
    <3> QED BY <2>2
  <2>4. s \in UNION {[S -> [from : Blocks, to : Blocks]] : S \in SUBSET Nodes}
    <3> HIDE DEF s, moved
    <3> QED BY <2>2, <2>3
  <2>5. <<>> \in UNION {[S -> Blocks] : S \in SUBSET Nodes}
    <3>1. <<>> \in [{} -> Blocks]
      OBVIOUS
    <3> QED BY <3>1
  <2>6. sequence' \in [Searches -> UNION {[S -> [from : Blocks, to : Blocks]] : S \in SUBSET Nodes}]
    <3> HIDE DEF s
    <3> QED BY <2>1, <2>4
  <2>7. plan' \in [Searches -> UNION {[S -> Blocks] : S \in SUBSET Nodes}]
    <3> QED BY <2>1, <2>5
  <2> QED BY <2>1, <2>6, <2>7
<1>4. CASE BeginApply(t)
  <2>1. sequence' \in [Searches -> UNION {[S -> [from : Blocks, to : Blocks]] : S \in SUBSET Nodes}]
    BY <1>4, CurrentMovesType DEF BeginApply
  <2>2. /\ part_weights' = part_weights \/ part_weights' = UpdatedWeights(CurrentMoves(t), 1)
        /\ UNCHANGED <<part, max_part_weights, quality, start_quality, plan, applied>>
    <3>1. DOMAIN CurrentMoves(t) \subseteq Nodes
      BY CurrentMovesType
    <3> QED BY <1>4, <3>1, AllOrNothing DEF BeginApply
  <2>3. part_weights' \in [Blocks -> Int]
    <3>1. DOMAIN CurrentMoves(t) \subseteq Nodes /\ part_weights \in [Blocks -> Int]
      BY CurrentMovesType DEF FlowTypeOK
    <3>2. UpdatedWeights(CurrentMoves(t), 1) \in [Blocks -> Int]
      BY <3>1, UpdatedWeightsType
    <3> QED BY <2>2, <3>1, <3>2
  <2> QED BY <2>1, <2>2, <2>3
<1>5. CASE ApplyMove(t)
  <2>1. /\ part_weights' = part_weights \/ part_weights' = UpdatedWeights(sequence[t], -1)
        /\ UNCHANGED <<max_part_weights, quality, start_quality, plan, sequence>>
    <3>1. DOMAIN sequence[t] \subseteq Nodes
      BY MoveFields
    <3> QED BY <1>5, <3>1, AllOrNothing DEF ApplyMove, EndApply
  <2>2. PICK u \in DOMAIN sequence[t] :
          /\ part' = Moved(u, sequence[t][u].to)
          /\ \/ applied' = [applied EXCEPT ![t] = applied[t] \union {u}]
             \/ applied' = [applied EXCEPT ![t] = {}]
    BY <1>5 DEF ApplyMove
  <2>3. u \in Nodes /\ sequence[t][u].to \in Blocks /\ DOMAIN sequence[t] \subseteq Nodes
    BY MoveFields
  <2>4. part' \in [Nodes -> Blocks]
    BY <2>2, <2>3, MovedType
  <2>5. applied' \in [Searches -> SUBSET Nodes]
    BY <2>2, <2>3
  <2>6. part_weights' \in [Blocks -> Int]
    BY <2>1, <2>3, UpdatedWeightsType
  <2> QED BY <2>1, <2>4, <2>5, <2>6
<1>6. CASE RevertMove(t)
  <2>1. UNCHANGED <<part_weights, max_part_weights, quality, start_quality, plan, sequence>>
    BY <1>6 DEF RevertMove
  <2>2. PICK u \in DOMAIN sequence[t] :
          /\ part' = Moved(u, sequence[t][u].from)
          /\ applied' = [applied EXCEPT ![t] = applied[t] \union {u}]
    BY <1>6 DEF RevertMove
  <2>3. u \in Nodes /\ sequence[t][u].from \in Blocks
    BY MoveFields
  <2>4. part' \in [Nodes -> Blocks]
    BY <2>2, <2>3, MovedType
  <2>5. applied' \in [Searches -> SUBSET Nodes]
    BY <2>2, <2>3
  <2> QED BY <2>1, <2>4, <2>5
<1>7. CASE AddNewCutHyperedge(t)
  BY <1>7 DEF AddNewCutHyperedge
<1>8. CASE ReportSearch(t)
  <2>1. /\ quality' = quality - delta[t] /\ sequence' = [sequence EXCEPT ![t] = <<>>]
        /\ applied' = [applied EXCEPT ![t] = {}]
        /\ UNCHANGED <<part, part_weights, max_part_weights, start_quality, plan>>
    BY <1>8 DEF ReportSearch
  <2>2. quality' \in Int
    BY <2>1 DEF SchedulerTypeOK
  <2>3. sequence' \in [Searches -> UNION {[S -> [from : Blocks, to : Blocks]] : S \in SUBSET Nodes}]
    <3>1. <<>> \in [{} -> [from : Blocks, to : Blocks]]
      OBVIOUS
    <3>2. <<>> \in UNION {[S -> [from : Blocks, to : Blocks]] : S \in SUBSET Nodes}
      BY <3>1
    <3> QED BY <2>1, <3>2
  <2>4. applied' \in [Searches -> SUBSET Nodes]
    BY <2>1
  <2> QED BY <2>1, <2>2, <2>3, <2>4
<1> QED BY <1>1, <1>2, <1>3, <1>4, <1>5, <1>6, <1>7, <1>8 DEF SearchStep

-----------------------------------------------------------------------------
(***************************************************************************)
(* The counters of the rounds.                                             *)
(***************************************************************************)

WorkingAt(r) == {t \in Searches : Working(t) /\ round[t] = r}
CountingTo(r) == {t \in Searches : Counting(t) /\ round[t] + 1 = r}

\* A counter is the number of the pairs of its round that are queued or searched, without
\* those that are queued but not counted yet.
CountersExact ==
  \A r \in 1..Len(rounds) :
    rounds[r].remaining = Len(rounds[r].queue) + Cardinality(WorkingAt(r)) - Cardinality(CountingTo(r))

\* Nothing happens in the rounds before the first active one.
RoundsClosed ==
  /\ \A t \in Searches : Working(t) => round[t] >= first_active
  /\ \A r \in 1..Len(rounds) : r < first_active => rounds[r].queue = <<>>

\* One search more or less in a set of searches.
LEMMA OneSearch ==
  ASSUME NEW A \in SUBSET Searches, NEW B \in SUBSET Searches, NEW t \in Searches,
         A \ {t} = B \ {t}
  PROVE  /\ Cardinality(A) \in Nat /\ Cardinality(B) \in Nat
         /\ t \in A /\ t \in B => Cardinality(B) = Cardinality(A)
         /\ t \notin A /\ t \notin B => Cardinality(B) = Cardinality(A)
         /\ t \in A /\ t \notin B => Cardinality(B) = Cardinality(A) - 1
         /\ t \notin A /\ t \in B => Cardinality(B) = Cardinality(A) + 1
<1>1. IsFiniteSet(Searches)
  BY SchedulerAssumption, FS_Interval DEF Searches
<1>2. IsFiniteSet(A) /\ IsFiniteSet(B) /\ IsFiniteSet(A \ {t})
  BY <1>1, FS_Subset
<1>3. /\ Cardinality(A) \in Nat /\ Cardinality(B) \in Nat /\ Cardinality(A \ {t}) \in Nat
  BY <1>2, FS_CardinalityType
<1>4. /\ Cardinality(A \ {t}) = IF t \in A THEN Cardinality(A) - 1 ELSE Cardinality(A)
      /\ Cardinality(B \ {t}) = IF t \in B THEN Cardinality(B) - 1 ELSE Cardinality(B)
  BY <1>2, FS_RemoveElement
<1> QED BY <1>3, <1>4

\* The searches at a round are finitely many.
LEMMA SearchSets ==
  /\ IsFiniteSet(Searches)
  /\ \A r : /\ IsFiniteSet(WorkingAt(r)) /\ Cardinality(WorkingAt(r)) \in Nat
            /\ IsFiniteSet(CountingTo(r)) /\ Cardinality(CountingTo(r)) \in Nat
<1>1. IsFiniteSet(Searches)
  BY SchedulerAssumption, FS_Interval DEF Searches
<1>2. ASSUME NEW r PROVE IsFiniteSet(WorkingAt(r)) /\ IsFiniteSet(CountingTo(r))
  <2>1. WorkingAt(r) \in SUBSET Searches /\ CountingTo(r) \in SUBSET Searches
    BY DEF WorkingAt, CountingTo
  <2> QED BY <1>1, <2>1, FS_Subset
<1> QED BY <1>1, <1>2, FS_CardinalityType

\* How the searches at a round change by a step.
LEMMA SearchesAt ==
  ASSUME NEW t \in Searches, OthersStay(t), NEW r
  PROVE  /\ WorkingAt(r) \in SUBSET Searches /\ WorkingAt(r)' \in SUBSET Searches
         /\ CountingTo(r) \in SUBSET Searches /\ CountingTo(r)' \in SUBSET Searches
         /\ WorkingAt(r) \ {t} = WorkingAt(r)' \ {t}
         /\ CountingTo(r) \ {t} = CountingTo(r)' \ {t}
         /\ t \in WorkingAt(r) <=> Working(t) /\ round[t] = r
         /\ t \in WorkingAt(r)' <=> Working(t)' /\ round'[t] = r
         /\ t \in CountingTo(r) <=> Counting(t) /\ round[t] + 1 = r
         /\ t \in CountingTo(r)' <=> Counting(t)' /\ round'[t] + 1 = r
BY DEF WorkingAt, CountingTo, OthersStay, Working, Counting

\* The counters stay exact.
LEMMA CountersStep ==
  ASSUME SchedulerTypeOK, SchedulerTypeOK', PlacesOK, NEW t \in Searches, OthersStay(t), CountersExact,
         Silent(t) \/ Pops(t) \/ Pushes(t) \/ Counts(t) \/ Finishes(t) \/ Closes(t)
  PROVE  CountersExact'
<1> SUFFICES ASSUME NEW r \in 1..Len(rounds')
             PROVE  rounds'[r].remaining = Len(rounds'[r].queue) + Cardinality(WorkingAt(r)')
                                             - Cardinality(CountingTo(r)')
  BY DEF CountersExact
<1>1. /\ Cardinality(WorkingAt(r)) \in Nat /\ Cardinality(WorkingAt(r)') \in Nat
      /\ Cardinality(CountingTo(r)) \in Nat /\ Cardinality(CountingTo(r)') \in Nat
  BY SearchesAt, OneSearch
<1>2. Len(rounds) \in Nat /\ DOMAIN rounds = 1..Len(rounds)
  BY RoundFields DEF SchedulerTypeOK
<1>3. \A q \in 1..Len(rounds) : rounds[q].remaining \in Int /\ Len(rounds[q].queue) \in Nat
  BY RoundFields DEF SchedulerTypeOK
<1>4. round[t] \in Nat
  BY DEF SchedulerTypeOK
<1>5. CASE Silent(t)
  <2>1. CASE r \in 1..Len(rounds)
    <3>1. SameRound(r)
      BY <1>5, <2>1 DEF Silent
    <3>2. Cardinality(WorkingAt(r)') = Cardinality(WorkingAt(r))
      <4>1. t \in WorkingAt(r) <=> t \in WorkingAt(r)'
        BY <1>5, SearchesAt DEF Silent
      <4> QED BY <4>1, SearchesAt, OneSearch
    <3>3. Cardinality(CountingTo(r)') = Cardinality(CountingTo(r))
      <4>1. t \notin CountingTo(r) /\ t \notin CountingTo(r)'
        BY <1>5, SearchesAt DEF Silent
      <4> QED BY <4>1, SearchesAt, OneSearch
    <3> QED BY <2>1, <3>1, <3>2, <3>3 DEF SameRound, CountersExact
  <2>2. CASE r \notin 1..Len(rounds)
    <3>1. r = Len(rounds) + 1 /\ rounds'[r] = EmptyRound
      BY <1>2, <1>5, <2>2 DEF Silent
    <3>2. rounds'[r].remaining = 0 /\ Len(rounds'[r].queue) = 0
      BY <3>1 DEF EmptyRound
    <3>3. \A s \in Searches : Working(s) => round[s] \in 1..Len(rounds)
      BY DEF PlacesOK
    <3>4. WorkingAt(r) = {} /\ t \notin WorkingAt(r)'
      <4>1. WorkingAt(r) = {}
        BY <2>2, <3>3 DEF WorkingAt
      <4>2. Working(t)' => Working(t) /\ round'[t] = round[t]
        BY <1>5 DEF Silent
      <4>3. t \notin WorkingAt(r)'
        BY <2>2, <3>3, <4>2, SearchesAt
      <4> QED BY <4>1, <4>3
    <3>5. CountingTo(r) = {} /\ t \notin CountingTo(r)'
      <4>1. \A s \in Searches : Counting(s) => round[s] + 1 \in 1..Len(rounds)
        BY DEF PlacesOK, Working, Counting
      <4>2. CountingTo(r) = {}
        BY <2>2, <4>1 DEF CountingTo
      <4>3. t \notin CountingTo(r)'
        BY <1>5, SearchesAt DEF Silent
      <4> QED BY <4>2, <4>3
    <3>6. WorkingAt(r)' = {} /\ CountingTo(r)' = {}
      BY <3>4, <3>5, SearchesAt
    <3>7. Cardinality({}) = 0
      BY FS_EmptySet
    <3> HIDE DEF WorkingAt, CountingTo
    <3> QED BY <3>2, <3>6, <3>7
  <2> QED BY <2>1, <2>2
<1>6. CASE ~Silent(t)
  <2>0. r \in 1..Len(rounds)
    BY <1>6 DEF Pops, Pushes, Counts, Finishes, Closes
  <2>1. rounds[r].remaining = Len(rounds[r].queue) + Cardinality(WorkingAt(r)) - Cardinality(CountingTo(r))
    BY <2>0 DEF CountersExact
  <2>2. CASE Pops(t)
    <3>1. ~Working(t) /\ ~Counting(t) /\ Working(t)' /\ ~Counting(t)' /\ round'[t] = round[t]
      BY <2>2 DEF Pops, Working, Counting
    <3>2. Cardinality(CountingTo(r)') = Cardinality(CountingTo(r))
      BY <3>1, SearchesAt, OneSearch
    <3>3. CASE r = round[t]
      <4>1. Cardinality(WorkingAt(r)') = Cardinality(WorkingAt(r)) + 1
        BY <3>1, <3>3, SearchesAt, OneSearch
      <4>2. Len(rounds'[r].queue) = Len(rounds[r].queue) - 1
        <5>1. rounds[r].queue \in Seq(Pairs) /\ rounds[r].queue # <<>>
          BY <2>0, <2>2, <3>3, RoundFields DEF SchedulerTypeOK, Pops
        <5>2. rounds'[r].queue = Tail(rounds[r].queue)
          BY <2>2, <3>3 DEF Pops
        <5> QED BY <5>1, <5>2
      <4>3. rounds'[r].remaining = rounds[r].remaining
        BY <2>2, <3>3 DEF Pops
      <4> QED BY <1>1, <1>3, <2>0, <2>1, <3>2, <4>1, <4>2, <4>3
    <3>4. CASE r # round[t]
      <4>1. Cardinality(WorkingAt(r)') = Cardinality(WorkingAt(r))
        BY <3>1, <3>4, SearchesAt, OneSearch
      <4>2. SameRound(r)
        BY <2>0, <2>2, <3>4 DEF Pops
      <4> QED BY <2>1, <3>2, <4>1, <4>2 DEF SameRound
    <3> QED BY <3>3, <3>4
  <2>3. CASE Pushes(t)
    <3>1. Working(t) /\ ~Counting(t) /\ Working(t)' /\ Counting(t)' /\ round'[t] = round[t]
      BY <2>3 DEF Pushes, Working, Counting
    <3>2. Cardinality(WorkingAt(r)') = Cardinality(WorkingAt(r))
      BY <3>1, SearchesAt, OneSearch
    <3>3. CASE r = round[t] + 1
      <4>1. Cardinality(CountingTo(r)') = Cardinality(CountingTo(r)) + 1
        BY <3>1, <3>3, SearchesAt, OneSearch
      <4>2. Len(rounds'[r].queue) = Len(rounds[r].queue) + 1
        <5>1. PICK p \in Pairs : rounds'[r].queue = Append(rounds[r].queue, p)
          BY <2>3, <3>3 DEF Pushes
        <5>2. rounds[r].queue \in Seq(Pairs)
          BY <2>0, RoundFields DEF SchedulerTypeOK
        <5> QED BY <5>1, <5>2
      <4>3. rounds'[r].remaining = rounds[r].remaining
        BY <2>3, <3>3 DEF Pushes
      <4> QED BY <1>1, <1>3, <2>0, <2>1, <3>2, <4>1, <4>2, <4>3
    <3>4. CASE r # round[t] + 1
      <4>1. Cardinality(CountingTo(r)') = Cardinality(CountingTo(r))
        BY <3>1, <3>4, SearchesAt, OneSearch
      <4>2. SameRound(r)
        BY <2>0, <2>3, <3>4 DEF Pushes
      <4> QED BY <2>1, <3>2, <4>1, <4>2 DEF SameRound
    <3> QED BY <3>3, <3>4
  <2>4. CASE Counts(t)
    <3>1. Working(t) /\ Counting(t) /\ Working(t)' /\ ~Counting(t)' /\ round'[t] = round[t]
      BY <2>4 DEF Counts, Working, Counting
    <3>2. Cardinality(WorkingAt(r)') = Cardinality(WorkingAt(r))
      BY <3>1, SearchesAt, OneSearch
    <3>3. CASE r = round[t] + 1
      <4>1. Cardinality(CountingTo(r)') = Cardinality(CountingTo(r)) - 1
        BY <3>1, <3>3, SearchesAt, OneSearch
      <4>2. rounds'[r].queue = rounds[r].queue /\ rounds'[r].remaining = rounds[r].remaining + 1
        BY <2>4, <3>3 DEF Counts
      <4> QED BY <1>1, <1>3, <2>0, <2>1, <3>2, <4>1, <4>2
    <3>4. CASE r # round[t] + 1
      <4>1. Cardinality(CountingTo(r)') = Cardinality(CountingTo(r))
        BY <3>1, <3>4, SearchesAt, OneSearch
      <4>2. SameRound(r)
        BY <2>0, <2>4, <3>4 DEF Counts
      <4> QED BY <2>1, <3>2, <4>1, <4>2 DEF SameRound
    <3> QED BY <3>3, <3>4
  <2>5. CASE Finishes(t)
    <3>1. Working(t) /\ ~Counting(t) /\ ~Working(t)' /\ ~Counting(t)' /\ round'[t] = round[t]
      BY <2>5 DEF Finishes, Working, Counting
    <3>2. Cardinality(CountingTo(r)') = Cardinality(CountingTo(r))
      BY <3>1, SearchesAt, OneSearch
    <3>3. CASE r = round[t]
      <4>1. Cardinality(WorkingAt(r)') = Cardinality(WorkingAt(r)) - 1
        BY <3>1, <3>3, SearchesAt, OneSearch
      <4>2. rounds'[r].queue = rounds[r].queue /\ rounds'[r].remaining = rounds[r].remaining - 1
        BY <2>5, <3>3 DEF Finishes
      <4> QED BY <1>1, <1>3, <2>0, <2>1, <3>2, <4>1, <4>2
    <3>4. CASE r # round[t]
      <4>1. Cardinality(WorkingAt(r)') = Cardinality(WorkingAt(r))
        BY <3>1, <3>4, SearchesAt, OneSearch
      <4>2. SameRound(r)
        BY <2>0, <2>5, <3>4 DEF Finishes
      <4> QED BY <2>1, <3>2, <4>1, <4>2 DEF SameRound
    <3> QED BY <3>3, <3>4
  <2>6. CASE Closes(t)
    <3>1. ~Working(t) /\ ~Counting(t) /\ ~Working(t)' /\ ~Counting(t)'
      BY <2>6 DEF Closes, Working, Counting
    <3>2. /\ Cardinality(CountingTo(r)') = Cardinality(CountingTo(r))
          /\ Cardinality(WorkingAt(r)') = Cardinality(WorkingAt(r))
      BY <3>1, SearchesAt, OneSearch
    <3>3. SameRound(r)
      BY <2>0, <2>6 DEF Closes
    <3> QED BY <2>1, <3>2, <3>3 DEF SameRound
  <2> QED BY <1>6, <2>2, <2>3, <2>4, <2>5, <2>6
<1> QED BY <1>5, <1>6

\* A round whose counter is zero, and all rounds before it from the first active one on,
\* are over: a pair that is not counted yet was pushed by a search of the round before.
LEMMA FinishedRoundIsEmpty ==
  ASSUME SchedulerTypeOK, PlacesOK, CountersExact, RoundsClosed, NEW n \in Nat, n <= Len(rounds) + 1,
         \A r \in first_active..(n - 1) : RoundFinished(r)
  PROVE  \A r \in first_active..(n - 1) : rounds[r].queue = <<>> /\ WorkingAt(r) = {}
<1> DEFINE Bad == {r \in first_active..(n - 1) : rounds[r].queue # <<>> \/ WorkingAt(r) # {}}
<1> SUFFICES ASSUME Bad # {} PROVE FALSE
  OBVIOUS
<1>0. first_active \in Nat \ {0} /\ Len(rounds) \in Nat
  BY RoundFields DEF SchedulerTypeOK
<1>1. IsFiniteSet(Bad) /\ Bad \subseteq Int
  <2>1. IsFiniteSet(first_active..(n - 1))
    BY <1>0, FS_Interval
  <2> HIDE DEF WorkingAt
  <2> QED BY <2>1, <1>0, FS_Subset
<1>2. PICK m \in Bad : \A r \in Bad : m <= r
  <2> HIDE DEF Bad
  <2> DEFINE f == [r \in Bad |-> -r]
  <2>1. \A r \in Bad : f[r] = -r /\ f[r] \in Int
    BY <1>1
  <2>2. \E x \in Bad : \A r \in Bad : f[r] <= f[x]
    <3> HIDE DEF f
    <3> QED BY <1>1, <2>1, LargestValue
  <2> HIDE DEF f
  <2> QED BY <1>1, <2>1, <2>2
<1>3. /\ m \in Int /\ first_active <= m /\ m <= n - 1 /\ m \in 1..Len(rounds)
      /\ rounds[m].queue # <<>> \/ WorkingAt(m) # {}
  BY <1>0
<1>4. Cardinality(CountingTo(m)) = Len(rounds[m].queue) + Cardinality(WorkingAt(m))
  <2>1. rounds[m].remaining = 0
    BY <1>3 DEF RoundFinished
  <2>2. rounds[m].remaining = Len(rounds[m].queue) + Cardinality(WorkingAt(m)) - Cardinality(CountingTo(m))
    BY <1>3 DEF CountersExact
  <2>3. Len(rounds[m].queue) \in Nat
    BY <1>3, RoundFields DEF SchedulerTypeOK
  <2>5. Cardinality(WorkingAt(m)) \in Nat /\ Cardinality(CountingTo(m)) \in Nat
    BY SearchSets
  <2>6. \A a, b, c \in Nat : 0 = a + b - c => c = a + b
    OBVIOUS
  <2>7. 0 = Len(rounds[m].queue) + Cardinality(WorkingAt(m)) - Cardinality(CountingTo(m))
    BY <2>1, <2>2
  <2> QED BY ONLY <2>3, <2>5, <2>6, <2>7
<1>5. CountingTo(m) # {}
  <2>1. rounds[m].queue \in Seq(Pairs) /\ Len(rounds[m].queue) \in Nat
    BY <1>3, RoundFields DEF SchedulerTypeOK
  <2>3. IsFiniteSet(WorkingAt(m)) /\ Cardinality(WorkingAt(m)) \in Nat
    BY SearchSets
  <2>4. rounds[m].queue # <<>> => Len(rounds[m].queue) > 0
    BY <2>1
  <2>5. WorkingAt(m) # {} => Cardinality(WorkingAt(m)) # 0
    BY <2>3, FS_EmptySet
  <2>6. Cardinality(CountingTo(m)) # 0
    BY <1>3, <1>4, <2>1, <2>3, <2>4, <2>5
  <2> QED BY <2>6, FS_EmptySet
<1>6. PICK s \in Searches : Counting(s) /\ round[s] + 1 = m
  BY <1>5 DEF CountingTo
<1>7. Working(s) /\ round[s] \in Nat
  BY <1>6 DEF Counting, Working, SchedulerTypeOK
<1>8. round[s] >= first_active /\ round[s] = m - 1
  BY <1>3, <1>6, <1>7 DEF RoundsClosed
<1>9. m - 1 \in first_active..(n - 1) /\ WorkingAt(m - 1) # {}
  BY <1>0, <1>3, <1>7, <1>8 DEF WorkingAt
<1>10. m - 1 \in Bad
  BY <1>9
<1> HIDE DEF Bad
<1> QED BY <1>2, <1>3, <1>10

\* The rounds before the first active one stay closed.
LEMMA ClosedStep ==
  ASSUME SchedulerTypeOK, SchedulerTypeOK', PlacesOK, NEW t \in Searches, OthersStay(t),
         CountersExact, RoundsClosed,
         \/ /\ first_active' = first_active
            /\ Silent(t) \/ Pops(t) \/ Pushes(t) \/ Counts(t) \/ Finishes(t)
         \/ Closes(t)
  PROVE  RoundsClosed'
<1>0. /\ first_active \in Nat /\ first_active' \in Nat /\ Len(rounds) \in Nat /\ round[t] \in Nat
      /\ Len(rounds') \in Nat
  BY RoundFields DEF SchedulerTypeOK
<1>1. CASE Closes(t)
  <2>1. \A r \in first_active..(first_active' - 1) : rounds[r].queue = <<>> /\ WorkingAt(r) = {}
    BY <1>0, <1>1, FinishedRoundIsEmpty DEF Closes
  <2>2. ASSUME NEW s \in Searches, Working(s)' PROVE round'[s] >= first_active'
    <3>1. s # t
      BY <1>1, <2>2 DEF Closes, Working
    <3>2. Working(s) /\ round'[s] = round[s] /\ round[s] \in Nat
      BY <2>2, <3>1 DEF OthersStay, Working, SchedulerTypeOK
    <3>3. round[s] >= first_active
      BY <3>2 DEF RoundsClosed
    <3>4. round[s] \notin first_active..(first_active' - 1)
      BY <2>1, <3>2 DEF WorkingAt
    <3> QED BY <1>0, <3>2, <3>3, <3>4
  <2>3. ASSUME NEW r \in 1..Len(rounds'), r < first_active' PROVE rounds'[r].queue = <<>>
    <3>1. r \in 1..Len(rounds) /\ rounds'[r].queue = rounds[r].queue
      BY <1>1, <2>3 DEF Closes, SameRound
    <3>2. CASE r < first_active
      BY <3>1, <3>2 DEF RoundsClosed
    <3>3. CASE ~(r < first_active)
      <4>1. r \in first_active..(first_active' - 1)
        BY <1>0, <2>3, <3>1, <3>3
      <4> QED BY <2>1, <3>1, <4>1
    <3> QED BY <3>2, <3>3
  <2> QED BY <2>2, <2>3 DEF RoundsClosed, Working
<1>2. CASE /\ first_active' = first_active
           /\ Silent(t) \/ Pops(t) \/ Pushes(t) \/ Counts(t) \/ Finishes(t)
  <2>1. ASSUME NEW s \in Searches, Working(s)' PROVE round'[s] >= first_active'
    <3>1. CASE s # t
      <4>1. Working(s) /\ round'[s] = round[s]
        BY <2>1, <3>1 DEF OthersStay, Working
      <4> QED BY <1>2, <4>1 DEF RoundsClosed
    <3>2. CASE s = t /\ Pops(t)
      <4>1. round[t] \in 1..Len(rounds) /\ rounds[round[t]].queue # <<>> /\ round'[t] = round[t]
        BY <3>2 DEF Pops
      <4>2. ~(round[t] < first_active)
        BY <4>1 DEF RoundsClosed
      <4> QED BY <1>0, <1>2, <3>2, <4>1, <4>2
    <3>3. CASE s = t /\ ~Pops(t)
      <4>1. Working(t) /\ round'[t] = round[t]
        BY <1>2, <2>1, <3>3 DEF Silent, Pushes, Counts, Finishes, Working, Counting
      <4> QED BY <1>2, <3>3, <4>1 DEF RoundsClosed
    <3> QED BY <3>1, <3>2, <3>3
  <2>2. ASSUME NEW r \in 1..Len(rounds'), r < first_active PROVE rounds'[r].queue = <<>>
    <3>0. r \in 1..Len(rounds) => rounds[r].queue = <<>>
      BY <2>2 DEF RoundsClosed
    <3>1. CASE Silent(t)
      <4>1. CASE r \in 1..Len(rounds)
        BY <3>0, <3>1, <4>1 DEF Silent, SameRound
      <4>2. CASE r \notin 1..Len(rounds)
        <5>1. rounds'[r] = EmptyRound
          BY <1>0, <3>1, <4>2 DEF Silent
        <5> QED BY <5>1 DEF EmptyRound
      <4> QED BY <4>1, <4>2
    <3>2. CASE Pops(t)
      BY <2>2, <3>0, <3>2 DEF Pops, SameRound
    <3>3. CASE Pushes(t)
      <4>1. Working(t) /\ r \in 1..Len(rounds)
        BY <3>3 DEF Pushes, Working
      <4>2. round[t] >= first_active
        BY <4>1 DEF RoundsClosed
      <4>3. r # round[t] + 1
        BY <1>0, <2>2, <4>1, <4>2
      <4> QED BY <3>0, <3>3, <4>1, <4>3 DEF Pushes, SameRound
    <3>4. CASE Counts(t)
      BY <2>2, <3>0, <3>4 DEF Counts, SameRound
    <3>5. CASE Finishes(t)
      BY <2>2, <3>0, <3>5 DEF Finishes, SameRound
    <3> QED BY <1>2, <3>1, <3>2, <3>3, <3>4, <3>5
  <2> QED BY <1>2, <2>1, <2>2 DEF RoundsClosed, Working
<1> QED BY <1>1, <1>2

\* The invariant about the rounds.
RoundInv == SchedulerTypeOK /\ PlacesOK /\ FlowTypeOK /\ CountersExact /\ RoundsClosed

\* The weights of the blocks and the objective have their types.
LEMMA WeightTypes ==
  ASSUME NEW p \in [Nodes -> Blocks]
  PROVE  BlockWeights(p) \in [Blocks -> Int] /\ Km1(p) \in Int
<1>1. ASSUME NEW b \in Blocks PROVE BlockWeights(p)[b] \in Int
  <2>1. \A u \in Nodes : Contribution(p, b)[u] \in Int
    BY FlowAssumption DEF Contribution
  <2> QED BY <2>1, BlockWeightSum, FlowAssumption, SumInt
<1>2. BlockWeights(p) = [b \in Blocks |-> BlockWeights(p)[b]]
  BY DEF BlockWeights
<1> QED BY <1>1, <1>2, Km1Type

\* The first round.
LEMMA FirstRoundsType ==
  ASSUME NEW parts, NEW S \in SUBSET Pairs, NEW rs \in FirstRounds(parts, S)
  PROVE  /\ rs \in Seq(RoundType)
         /\ \A r \in 1..Len(rs) : rs[r].remaining = Len(rs[r].queue)
<1>1. CASE S = {}
  <2>1. rs = <<>>
    BY <1>1 DEF FirstRounds
  <2> QED BY <2>1
<1>2. CASE S # {}
  <2>1. PICK order \in SetToSeqs(S) :
          rs = <<[EmptyRound EXCEPT !.queue = order, !.remaining = Len(order)]>>
    BY <1>2 DEF FirstRounds
  <2>2. order \in Seq(Pairs)
    <3>1. order \in [1..Cardinality(S) -> S]
      BY DEF SetToSeqs
    <3>2. Cardinality(S) \in Nat
      <4>1. IsFiniteSet(SUBSET Blocks)
        BY SchedulerAssumption, FS_SUBSET
      <4>2. S \subseteq SUBSET Blocks
        BY DEF Pairs
      <4> QED BY <4>1, <4>2, FS_Subset, FS_CardinalityType
    <3> QED BY <3>1, <3>2
  <2> DEFINE x == [EmptyRound EXCEPT !.queue = order, !.remaining = Len(order)]
  <2>3. x \in RoundType /\ x.remaining = Len(x.queue)
    <3> DEFINE y == EmptyRound
               d == Len(order)
    <3>1. y \in RoundType /\ d \in Int
      BY <2>2 DEF EmptyRound, RoundType
    <3>2. x = [y EXCEPT !.queue = order, !.remaining = d]
      OBVIOUS
    <3>3. x \in RoundType /\ x.queue = order /\ x.remaining = d
      <4> HIDE DEF x, y, d
      <4> QED BY ONLY <2>2, <3>1, <3>2 DEF RoundType
    <3> HIDE DEF x
    <3> QED BY <3>3
  <2>4. rs = <<x>>
    BY <2>1
  <2> HIDE DEF x, RoundType
  <2> QED BY <2>3, <2>4
<1> QED BY <1>1, <1>2

\* The largest of two integers.
LEMMA MaxOfTwo ==
  ASSUME NEW a \in Int, NEW b \in Int
  PROVE  Max({a, b}) \in Int /\ a <= Max({a, b}) /\ b <= Max({a, b})
<1>1. IsFiniteSet({a, b})
  <2>1. IsFiniteSet({a})
    BY FS_Singleton
  <2>2. IsFiniteSet({a} \union {b})
    BY <2>1, FS_AddElement
  <2>3. {a} \union {b} = {a, b}
    OBVIOUS
  <2> QED BY <2>2, <2>3
<1>2. Max({a, b}) \in {a, b} /\ \A x \in {a, b} : x <= Max({a, b})
  BY <1>1, LargestElement
<1> QED BY <1>2

\* The refinement begins with consistent rounds.
LEMMA InitRounds == Init => RoundInv
<1> SUFFICES ASSUME Init PROVE RoundInv
  OBVIOUS
<1>1. /\ rounds \in Seq(RoundType) /\ first_active = 1 /\ Len(rounds) \in Nat
      /\ \A r \in 1..Len(rounds) : rounds[r].remaining = Len(rounds[r].queue)
  <2>1. in_queue \in SUBSET Pairs
    BY DEF Init
  <2>2. rounds \in FirstRounds(part, in_queue) /\ first_active = 1
    BY DEF Init
  <2> HIDE DEF RoundType
  <2> QED BY <2>1, <2>2, FirstRoundsType
<1>2. \A t \in Searches : pc[t] = "loop"
  BY DEF Init
<1>3. \A t \in Searches : ~Working(t) /\ ~Counting(t)
  BY <1>2 DEF Working, Counting
<1>4. SchedulerTypeOK
  <2>1. /\ terminate = FALSE /\ stopped = FALSE
        /\ pc = [t \in Searches |-> "loop"]
        /\ pair = [t \in Searches |-> {}] /\ round = [t \in Searches |-> 1]
        /\ delta = [t \in Searches |-> 0] /\ adjacent = [t \in Searches |-> {}]
        /\ remaining = [t \in Searches |-> 0]
    BY DEF Init
  <2>2. pc \in [Searches -> Steps]
    BY <2>1 DEF Steps
  <2>3. pair \in [Searches -> SUBSET Blocks] /\ adjacent \in [Searches -> SUBSET Pairs]
    BY <2>1
  <2>4. round \in [Searches -> Nat \ {0}] /\ delta \in [Searches -> Int] /\ remaining \in [Searches -> Int]
    BY <2>1
  <2>5. terminate \in BOOLEAN /\ stopped \in BOOLEAN
    BY <2>1
  <2>6. first_active \in Nat \ {0} /\ first_active <= Len(rounds) + 1
    BY <1>1
  <2> HIDE DEF RoundType
  <2> QED BY <1>1, <2>2, <2>3, <2>4, <2>5, <2>6 DEF SchedulerTypeOK
<1>5. PlacesOK
  BY <1>3 DEF PlacesOK
<1>6. RoundsClosed
  BY <1>1, <1>3 DEF RoundsClosed
<1>7. CountersExact
  <2>1. ASSUME NEW r PROVE WorkingAt(r) = {} /\ CountingTo(r) = {}
    BY <1>3 DEF WorkingAt, CountingTo
  <2>2. Cardinality({}) = 0
    BY FS_EmptySet
  <2>3. \A r \in 1..Len(rounds) : Len(rounds[r].queue) \in Nat
    BY <1>1, RoundFields
  <2> HIDE DEF RoundType
  <2> QED BY <1>1, <2>1, <2>2, <2>3 DEF CountersExact
<1>8. FlowTypeOK
  <2>1. part \in [Nodes -> Blocks]
    BY FlowAssumption DEF Init
  <2>2. part_weights \in [Blocks -> Int] /\ quality \in Int /\ start_quality \in Int
    BY <2>1, WeightTypes DEF Init
  <2>3. max_part_weights \in [Blocks -> Int]
    <3>1. \A b \in Blocks : part_weights[b] \in Int /\ PartWeightLimit[b] \in Int
      BY <2>2, FlowAssumption
    <3>2. \A b \in Blocks : Max({part_weights[b], PartWeightLimit[b]}) \in Int
      BY <3>1, MaxOfTwo
    <3>3. max_part_weights = [b \in Blocks |-> Max({part_weights[b], PartWeightLimit[b]})]
      BY DEF Init
    <3> QED BY <3>2, <3>3
  <2>4. /\ <<>> \in UNION {[S -> Blocks] : S \in SUBSET Nodes}
        /\ <<>> \in UNION {[S -> [from : Blocks, to : Blocks]] : S \in SUBSET Nodes}
    <3>1. <<>> \in [{} -> Blocks] /\ <<>> \in [{} -> [from : Blocks, to : Blocks]]
      OBVIOUS
    <3> QED BY <3>1
  <2>5. /\ plan = [t \in Searches |-> <<>>] /\ sequence = [t \in Searches |-> <<>>]
        /\ applied = [t \in Searches |-> {}]
    BY DEF Init
  <2>6. plan \in [Searches -> UNION {[S -> Blocks] : S \in SUBSET Nodes}]
    BY <2>4, <2>5
  <2>7. sequence \in [Searches -> UNION {[S -> [from : Blocks, to : Blocks]] : S \in SUBSET Nodes}]
    BY <2>4, <2>5
  <2>8. applied \in [Searches -> SUBSET Nodes]
    BY <2>5
  <2> QED BY <2>1, <2>2, <2>3, <2>6, <2>7, <2>8 DEF FlowTypeOK
<1> QED BY <1>4, <1>5, <1>6, <1>7, <1>8 DEF RoundInv

\* Every step keeps the invariant about the rounds.
LEMMA RoundInvStep == RoundInv /\ [Next]_vars => RoundInv'
<1> SUFFICES ASSUME RoundInv, [Next]_vars PROVE RoundInv'
  OBVIOUS
<1> USE DEF RoundInv
<1>1. ASSUME NEW t \in Searches, SearchStep(t) PROVE RoundInv'
  <2>1. /\ SchedulerTypeOK' /\ OthersStay(t)
        /\ \/ /\ first_active' = first_active
              /\ Silent(t) \/ Pops(t) \/ Pushes(t) \/ Counts(t) \/ Finishes(t)
           \/ Closes(t)
    BY <1>1, StepEffect
  <2>2. PlacesOK'
    BY <2>1, PlacesStep
  <2>3. FlowTypeOK'
    BY <1>1, FlowTypeStep
  <2>4. CountersExact'
    BY <2>1, CountersStep
  <2>5. RoundsClosed'
    BY <2>1, ClosedStep
  <2> QED BY <2>1, <2>2, <2>3, <2>4, <2>5
<1>2. ASSUME UNCHANGED vars PROVE RoundInv'
  <2>1. UNCHANGED <<rounds, first_active, terminate, stopped, pc, pair, round, remaining, delta, adjacent,
                    part, part_weights, max_part_weights, quality, start_quality, plan, sequence, applied>>
    BY <1>2 DEF vars, schedulerVars, positionVars, partitionVars, flowVars
  <2>2. SchedulerTypeOK' /\ PlacesOK' /\ RoundsClosed'
    BY <2>1 DEF SchedulerTypeOK, PlacesOK, RoundsClosed, Working
  <2>3. FlowTypeOK'
    BY <2>1 DEF FlowTypeOK
  <2>4. CountersExact'
    BY <2>1 DEF CountersExact, WorkingAt, CountingTo, Working, Counting
  <2> QED BY <2>2, <2>3, <2>4
<1> QED BY <1>1, <1>2 DEF Next, Finished

\* What the invariant says about finished rounds.
LEMMA RoundInvImplies == RoundInv => FinishedRoundsAreOver
<1> SUFFICES ASSUME RoundInv, NEW r \in 1..(first_active - 1), r \in DOMAIN rounds
             PROVE  /\ rounds[r].queue = <<>>
                    /\ \A t \in Searches : Working(t) => round[t] # r /\ (At(t, "count") => round[t] + 1 # r)
  BY DEF FinishedRoundsAreOver
<1>1. first_active \in Nat /\ DOMAIN rounds = 1..Len(rounds) /\ r < first_active
  BY RoundFields DEF RoundInv, SchedulerTypeOK
<1>2. rounds[r].queue = <<>>
  BY <1>1 DEF RoundInv, RoundsClosed
<1>3. ASSUME NEW t \in Searches, Working(t) PROVE round[t] # r /\ round[t] + 1 # r
  <2>1. round[t] \in Nat /\ round[t] >= first_active
    BY <1>3 DEF RoundInv, RoundsClosed, SchedulerTypeOK
  <2> QED BY <1>1, <2>1
<1> QED BY <1>2, <1>3

\* A round that the scheduler regards as finished is over, for every number of searches,
\* every hypergraph and every order of the steps: the counter of a round is zero only if
\* none of its pairs is queued or searched, because a pair that is in the queue but not
\* counted yet was pushed by a search of the round before, which is counted there.
THEOREM RoundsAreOver == Spec => []FinishedRoundsAreOver
<1>1. Init => RoundInv
  BY InitRounds
<1>2. RoundInv /\ [Next]_vars => RoundInv'
  BY RoundInvStep
<1>3. RoundInv => FinishedRoundsAreOver
  BY RoundInvImplies
<1> QED BY <1>1, <1>2, <1>3, PTL DEF Spec

-----------------------------------------------------------------------------
(***************************************************************************)
(* Applying moves.                                                         *)
(***************************************************************************)

\* The partition before the moves of the search that are made, after all its moves, and
\* when the moves that are left are taken back.
Before(t) == [u \in Nodes |-> IF u \in applied[t] THEN sequence[t][u].from ELSE part[u]]
After(t) == [u \in Nodes |-> IF u \in DOMAIN sequence[t] \ applied[t] THEN sequence[t][u].to ELSE part[u]]
Restored(t) == [u \in Nodes |-> IF u \in DOMAIN sequence[t] \ applied[t] THEN sequence[t][u].from ELSE part[u]]

\* The part weights are those after the last move, and the search may return to where it began.
MoveInv(t) ==
  /\ applied[t] \subseteq DOMAIN sequence[t]
  /\ \A u \in DOMAIN sequence[t] : part[u] = IF u \in applied[t] THEN sequence[t][u].to ELSE sequence[t][u].from
  /\ part_weights = BlockWeights(After(t)) /\ IsBalanced(BlockWeights(Before(t)))
  /\ delta[t] = Km1(Before(t)) - Km1(part)

RevertInv(t) ==
  /\ applied[t] \subseteq DOMAIN sequence[t]
  /\ part_weights = BlockWeights(Restored(t))
  /\ delta[t] = Km1(Restored(t)) - Km1(part)

Early == {"loop", "sum", "pop", "mark", "acquire", "construct", "flow", "apply"}

\* A search that does not hold the lock.
IdleInv(t) ==
  /\ pc[t] \notin {"move", "revert", "report"} => applied[t] = {}
  /\ pc[t] \in Early => delta[t] = 0
  /\ pc[t] \in {"add_cut", "report"} => delta[t] >= 0

\* One search at a time changes the partition, and the weights allow to take its moves back.
ApplyInv ==
  /\ lock \in Searches \union {NoSearch}
  /\ \A t \in Searches : lock = t <=> pc[t] \in {"move", "revert"}
  /\ IsBalanced(part_weights)
  /\ lock = NoSearch => part_weights = BlockWeights(part)
  /\ \A t \in Searches : IdleInv(t)
  /\ \A t \in Searches : pc[t] = "move" => MoveInv(t)
  /\ \A t \in Searches : pc[t] = "revert" => RevertInv(t)

\* A step that leaves the partition alone and neither begins nor ends to hold the lock.
Bystander(t) ==
  /\ UNCHANGED <<part, part_weights, max_part_weights, lock>>
  /\ \A s \in Searches : s # t => sequence'[s] = sequence[s] /\ applied'[s] = applied[s]
  /\ pc[t] \notin {"move", "revert"} /\ pc'[t] \notin {"move", "revert"}

\* The invariant of a search that is not involved in a step.
LEMMA OtherIdle ==
  ASSUME NEW t \in Searches, OthersStay(t), NEW s \in Searches, s # t, IdleInv(s),
         applied'[s] = applied[s]
  PROVE  IdleInv(s)'
BY DEF OthersStay, IdleInv

\* A step that leaves the partition alone keeps the invariant about the applied moves.
LEMMA BystanderStep ==
  ASSUME ApplyInv, NEW t \in Searches, OthersStay(t), Bystander(t), IdleInv(t)'
  PROVE  ApplyInv'
<1>1. lock' \in Searches \union {NoSearch}
  BY DEF ApplyInv, Bystander
<1>2. ASSUME NEW s \in Searches PROVE lock' = s <=> pc'[s] \in {"move", "revert"}
  <2>1. CASE s = t
    BY <2>1 DEF ApplyInv, Bystander
  <2>2. CASE s # t
    BY <2>2 DEF ApplyInv, Bystander, OthersStay
  <2> QED BY <2>1, <2>2
<1>3. IsBalanced(part_weights)'
  BY DEF ApplyInv, Bystander, IsBalanced
<1>4. lock' = NoSearch => part_weights' = BlockWeights(part')
  BY DEF ApplyInv, Bystander
<1>5. ASSUME NEW s \in Searches PROVE IdleInv(s)'
  BY OtherIdle DEF ApplyInv, Bystander
<1>6. ASSUME NEW s \in Searches, pc'[s] \in {"move", "revert"}
      PROVE  /\ s # t /\ pc'[s] = pc[s] /\ delta'[s] = delta[s]
             /\ sequence'[s] = sequence[s] /\ applied'[s] = applied[s]
             /\ UNCHANGED <<part, part_weights, max_part_weights>>
  BY <1>6 DEF Bystander, OthersStay
<1>7. ASSUME NEW s \in Searches, pc'[s] = "move" PROVE MoveInv(s)'
  <2>1. MoveInv(s)
    BY <1>6, <1>7 DEF ApplyInv
  <2>2. Before(s)' = Before(s) /\ After(s)' = After(s)
    BY <1>6, <1>7 DEF Before, After
  <2> QED BY <1>6, <1>7, <2>1, <2>2 DEF MoveInv, IsBalanced
<1>8. ASSUME NEW s \in Searches, pc'[s] = "revert" PROVE RevertInv(s)'
  <2>1. RevertInv(s)
    BY <1>6, <1>8 DEF ApplyInv
  <2>2. Restored(s)' = Restored(s)
    BY <1>6, <1>8 DEF Restored
  <2> QED BY <1>6, <1>8, <2>1, <2>2 DEF RevertInv
<1> QED BY <1>1, <1>2, <1>3, <1>4, <1>5, <1>7, <1>8 DEF ApplyInv

\* The steps of the scheduler touch neither the partition nor the moves.
LEMMA SchedulerBystands ==
  ASSUME SchedulerTypeOK, NEW t \in Searches, SchedulerStep(t), UNCHANGED <<partitionVars, flowVars>>,
         IdleInv(t)
  PROVE  Bystander(t) /\ IdleInv(t)' /\ pc[t] \notin {"add_cut", "report"} /\ pc'[t] \notin {"add_cut", "report"}
<1> USE DEF SchedulerTypeOK, Goto, At
<1>0. UNCHANGED <<part, part_weights, max_part_weights, lock, sequence, applied>>
  BY DEF partitionVars, flowVars
<1>1. SUFFICES /\ pc[t] \notin {"move", "revert", "add_cut", "report"}
               /\ pc'[t] \notin {"move", "revert", "add_cut", "report"}
               /\ pc'[t] \in Early => delta'[t] = 0
  BY <1>0 DEF Bystander, IdleInv
<1>2. pc[t] \in Early => delta[t] = 0
  BY DEF IdleInv
<1>3. CASE BeginSum(t)
  BY <1>2, <1>3 DEF BeginSum, Early
<1>4. CASE AddRemaining(t)
  BY <1>2, <1>4 DEF AddRemaining, Early
<1>5. CASE CheckRemaining(t)
  <2>1. pc[t] = "sum" /\ pc'[t] \in {"pop", "done"} /\ delta' = delta
    BY <1>5 DEF CheckRemaining
  <2> QED BY <1>2, <2>1 DEF Early
<1>6. CASE PopPair(t)
  <2>1. pc[t] = "pop" /\ pc'[t] \in {"pop", "mark"} /\ delta' = delta
    BY <1>6 DEF PopPair
  <2> QED BY <1>2, <2>1 DEF Early
<1>7. CASE PopFails(t)
  BY <1>2, <1>7 DEF PopFails, Early
<1>8. CASE MarkPopped(t)
  BY <1>2, <1>8 DEF MarkPopped, Early
<1>9. CASE Acquire(t)
  <2>1. pc[t] = "acquire" /\ pc'[t] \in {"construct", "lost"} /\ delta' = delta
    BY <1>9 DEF Acquire
  <2> QED BY <1>2, <2>1 DEF Early
<1>10. CASE Schedule(t)
  <2>1. pc[t] = "schedule" /\ pc'[t] \in {"schedule", "count"}
    BY <1>10 DEF Schedule, Push
  <2> QED BY <2>1 DEF Early
<1>11. CASE ScheduleAgain(t)
  <2>1. pc[t] = "schedule" /\ pc'[t] \in {"decrement", "count_again"}
    BY <1>11 DEF ScheduleAgain, Push
  <2> QED BY <2>1 DEF Early
<1>12. CASE Count(t)
  <2>1. pc[t] \in {"count", "count_again"} /\ pc'[t] \in {"schedule", "decrement"}
    BY <1>12 DEF Count
  <2> QED BY <2>1 DEF Early
<1>13. CASE Decrement(t)
  <2>1. pc[t] \in {"decrement", "lost"} /\ pc'[t] \in {"finish", "finish_lost"}
    BY <1>13 DEF Decrement
  <2> QED BY <2>1 DEF Early
<1>14. CASE CheckRound(t)
  <2>1. pc[t] \in {"finish", "finish_lost"}
    BY <1>14 DEF CheckRound
  <2>2. \/ pc'[t] \in {"close", "close_lost"}
        \/ pc'[t] \in {"loop", "done"} /\ delta'[t] = 0
    BY <1>14 DEF CheckRound, ReturnFromFinalize
  <2> QED BY <2>1, <2>2 DEF Early
<1>15. CASE FinishRounds(t)
  <2>1. pc[t] \in {"close", "close_lost"}
    BY <1>15 DEF FinishRounds
  <2>2. ReturnFromFinalize(t, At(t, "close_lost"))
    BY <1>15 DEF FinishRounds
  <2>3. pc'[t] \in {"loop", "done"} /\ delta'[t] = 0
    BY <2>2 DEF ReturnFromFinalize
  <2> QED BY <2>1, <2>3 DEF Early
<1> QED BY <1>3, <1>4, <1>5, <1>6, <1>7, <1>8, <1>9, <1>10, <1>11, <1>12, <1>13, <1>14, <1>15
     DEF SchedulerStep

\* So do the steps of a search that does not apply moves.
LEMMA FlowBystands ==
  ASSUME SchedulerTypeOK, FlowTypeOK, NEW t \in Searches, IdleInv(t), lock = t => pc[t] \in {"move", "revert"},
         \/ Construct(t) \/ ExtractMoves(t) \/ AddNewCutHyperedge(t) \/ ReportSearch(t)
         \/ BeginApply(t) /\ lock' = lock
  PROVE  Bystander(t) /\ IdleInv(t)'
<1> USE DEF SchedulerTypeOK, FlowTypeOK, Goto, At
<1>2. pc[t] \in Early => delta[t] = 0
  BY DEF IdleInv
<1>3. CASE Construct(t)
  <2>1. pc[t] = "construct" /\ pc'[t] = "flow"
    BY <1>3 DEF Construct
  <2>2. UNCHANGED <<delta, part, part_weights, max_part_weights, lock, sequence, applied>>
    BY <1>3 DEF Construct, partitionVars
  <2> QED BY <1>2, <2>1, <2>2 DEF Bystander, IdleInv, Early
<1>4. CASE ExtractMoves(t)
  <2>1. pc[t] = "flow" /\ pc'[t] \in {"report", "apply"}
    BY <1>4 DEF ExtractMoves
  <2>2. /\ UNCHANGED <<delta, part, part_weights, max_part_weights, lock, applied>>
        /\ \A s \in Searches : s # t => sequence'[s] = sequence[s]
    BY <1>4 DEF ExtractMoves, partitionVars
  <2>3. delta[t] = 0 /\ applied[t] = {}
    BY <2>1 DEF IdleInv, Early
  <2> QED BY <2>1, <2>2, <2>3 DEF Bystander, IdleInv, Early
<1>5. CASE AddNewCutHyperedge(t)
  <2>1. pc[t] = "add_cut" /\ pc'[t] \in {"report", "add_cut"}
    BY <1>5 DEF AddNewCutHyperedge
  <2>2. UNCHANGED <<delta, part, part_weights, max_part_weights, lock, sequence, applied>>
    BY <1>5 DEF AddNewCutHyperedge, partitionVars
  <2> QED BY <2>1, <2>2 DEF Bystander, IdleInv, Early
<1>6. CASE ReportSearch(t)
  <2>1. pc[t] = "report" /\ pc'[t] = "schedule"
    BY <1>6 DEF ReportSearch, Report
  <2>2. /\ UNCHANGED <<part, part_weights, max_part_weights, lock>> /\ applied'[t] = {}
        /\ \A s \in Searches : s # t => sequence'[s] = sequence[s] /\ applied'[s] = applied[s]
    BY <1>6 DEF ReportSearch
  <2> QED BY <2>1, <2>2 DEF Bystander, IdleInv, Early
<1>7. CASE BeginApply(t) /\ lock' = lock
  <2>0. lock # t
    BY <1>7 DEF BeginApply
  <2>1. pc[t] = "apply" /\ pc'[t] = "report" /\ part_weights' = part_weights
    <3>1. DOMAIN CurrentMoves(t) \subseteq Nodes
      BY CurrentMovesType
    <3>2. DOMAIN CurrentMoves(t) = {} \/ Overloaded(CurrentMoves(t), 1) # {}
      BY <1>7, <2>0 DEF BeginApply
    <3>3. PartWeightUpdate(CurrentMoves(t), 1) = part_weights
      BY <3>1, <3>2, AllOrNothing, NoMovesNoChange
    <3> QED BY <1>7, <2>0, <3>2, <3>3 DEF BeginApply
  <2>2. /\ UNCHANGED <<delta, part, max_part_weights, lock, applied>>
        /\ \A s \in Searches : s # t => sequence'[s] = sequence[s]
    BY <1>7 DEF BeginApply
  <2>3. delta[t] = 0 /\ applied[t] = {}
    BY <2>1 DEF IdleInv, Early
  <2> QED BY <2>1, <2>2, <2>3 DEF Bystander, IdleInv, Early
<1> QED BY <1>3, <1>4, <1>5, <1>6, <1>7

\* Weights of blocks are determined block by block.
LEMMA SameWeights ==
  ASSUME NEW v \in [Blocks -> Int], NEW w \in [Blocks -> Int], \A b \in Blocks : v[b] = w[b]
  PROVE  v = w
OBVIOUS

\* The part weights that applyMoves computes before the first move are those after the last one.
LEMMA WeightsAhead ==
  ASSUME FlowTypeOK, NEW t \in Searches, part_weights = BlockWeights(part),
         NEW q, q = [u \in Nodes |-> IF u \in DOMAIN CurrentMoves(t) THEN CurrentMoves(t)[u].to ELSE part[u]]
  PROVE  q \in [Nodes -> Blocks] /\ UpdatedWeights(CurrentMoves(t), 1) = BlockWeights(q)
<1> DEFINE c == CurrentMoves(t)
<1>1. /\ DOMAIN c \subseteq Nodes /\ \A u \in DOMAIN c : c[u].from = part[u] /\ c[u].to \in Blocks
      /\ part \in [Nodes -> Blocks] /\ part_weights \in [Blocks -> Int]
  BY CurrentMovesType DEF FlowTypeOK
<1> HIDE DEF c
<1>2. q = [u \in Nodes |-> IF u \in DOMAIN c THEN c[u].to ELSE part[u]]
  BY DEF c
<1>3. q \in [Nodes -> Blocks]
  BY <1>1, <1>2
<1>4. ASSUME NEW b \in Blocks PROVE UpdatedWeights(c, 1)[b] = BlockWeights(q)[b]
  <2>1. /\ BlockWeights(part)[b] \in Int /\ PartWeightDelta(c, b) \in Int
        /\ BlockWeights(q)[b] = BlockWeights(part)[b] + PartWeightDelta(c, b)
    <3>1. \A u \in DOMAIN c : c[u].from = part[u] /\ c[u].to = q[u]
      BY <1>1, <1>2
    <3>2. \A u \in Nodes \ DOMAIN c : part[u] = q[u]
      BY <1>2
    <3>3. part \in [Nodes -> Blocks] /\ DOMAIN c \subseteq Nodes
      BY <1>1
    <3> QED BY ONLY <1>3, <3>1, <3>2, <3>3, b \in Blocks, MovesShiftWeights
  <2>2. UpdatedWeights(c, 1)[b] = part_weights[b] + 1 * PartWeightDelta(c, b)
    BY DEF UpdatedWeights
  <2> QED BY <2>1, <2>2
<1>5. UpdatedWeights(c, 1) \in [Blocks -> Int] /\ BlockWeights(q) \in [Blocks -> Int]
  BY <1>1, <1>3, UpdatedWeightsType, WeightTypes
<1>6. UpdatedWeights(c, 1) = BlockWeights(q)
  BY <1>4, <1>5, SameWeights
<1> QED BY <1>3, <1>6 DEF c

\* A search takes the lock.
LEMMA BeginStep ==
  ASSUME SchedulerTypeOK, FlowTypeOK, ApplyInv, NEW t \in Searches, OthersStay(t), BeginApply(t), lock' # lock
  PROVE  ApplyInv'
<1> USE DEF SchedulerTypeOK, Goto, At
<1> DEFINE c == CurrentMoves(t)
           q == [u \in Nodes |-> IF u \in DOMAIN c THEN c[u].to ELSE part[u]]
<1>1. /\ lock = NoSearch /\ lock' = t /\ pc[t] = "apply" /\ pc'[t] = "move"
      /\ part_weights' = UpdatedWeights(c, 1) /\ IsBalanced(UpdatedWeights(c, 1))
      /\ sequence' = [sequence EXCEPT ![t] = c]
      /\ UNCHANGED <<delta, part, max_part_weights, applied>>
  <2>1. DOMAIN c \subseteq Nodes
    BY CurrentMovesType
  <2> QED BY <2>1, AllOrNothing DEF BeginApply
<1>2. part_weights = BlockWeights(part) /\ applied[t] = {} /\ delta[t] = 0
  BY <1>1 DEF ApplyInv, IdleInv, Early
<1>3. UpdatedWeights(c, 1) = BlockWeights(q)
  BY <1>2, WeightsAhead
<1>4. part \in [Nodes -> Blocks] /\ sequence'[t] = c /\ applied'[t] = {}
  BY <1>1, <1>2 DEF FlowTypeOK
<1> HIDE DEF c
<1>5. After(t)' = q
  BY <1>1, <1>4 DEF After
<1>6. Before(t)' = part
  <2>1. Before(t)' = [u \in Nodes |-> part[u]]
    BY <1>1, <1>4 DEF Before
  <2> QED BY <1>4, <2>1
<1>7. MoveInv(t)'
  <2>1. applied'[t] \subseteq DOMAIN sequence'[t]
    BY <1>4
  <2>2. \A u \in DOMAIN sequence'[t] : part'[u] = IF u \in applied'[t] THEN sequence'[t][u].to ELSE sequence'[t][u].from
    <3>1. \A u \in DOMAIN c : c[u].from = part[u]
      BY CurrentMovesType DEF c
    <3> QED BY <1>1, <1>4, <3>1
  <2>3. IsBalanced(BlockWeights(part))
    BY <1>2 DEF ApplyInv
  <2>4. IsBalanced(BlockWeights(Before(t)))'
    BY <1>1, <1>6, <2>3 DEF IsBalanced
  <2>5. delta'[t] = Km1(part) - Km1(part)
    <3>1. Km1(part) \in Int /\ delta'[t] = 0
      BY <1>1, <1>2, <1>4, Km1Type
    <3> QED BY <3>1
  <2> HIDE DEF q
  <2> QED BY <1>1, <1>3, <1>5, <1>6, <2>1, <2>2, <2>4, <2>5 DEF MoveInv
<1>8. \A s \in Searches : s # t => pc'[s] = pc[s] /\ pc[s] \notin {"move", "revert"}
  <2>1. t # NoSearch /\ \A s \in Searches : s # NoSearch
    BY SchedulerAssumption DEF Searches, NoSearch
  <2> QED BY <1>1, <2>1 DEF ApplyInv, OthersStay
<1>9. \A s \in Searches : IdleInv(s)'
  <2>1. IdleInv(t)'
    BY <1>1 DEF IdleInv, Early
  <2>2. ASSUME NEW s \in Searches, s # t PROVE IdleInv(s)'
    BY <1>1, <2>2, OtherIdle DEF ApplyInv
  <2> QED BY <2>1, <2>2
<1>10. lock' # NoSearch
  BY <1>1, SchedulerAssumption DEF Searches, NoSearch
<1>11. IsBalanced(part_weights)'
  BY <1>1 DEF IsBalanced
<1>12. \A s \in Searches : lock' = s <=> pc'[s] \in {"move", "revert"}
  BY <1>1, <1>8
<1> QED BY <1>1, <1>7, <1>8, <1>9, <1>10, <1>11, <1>12 DEF ApplyInv

\* One more move leaves the partitions before and after all moves as they are.
LEMMA MoveFrame ==
  ASSUME FlowTypeOK, NEW t \in Searches, MoveInv(t), NEW u \in DOMAIN sequence[t] \ applied[t],
         part' = Moved(u, sequence[t][u].to)
  PROVE  /\ part' \in [Nodes -> Blocks] /\ Before(t) \in [Nodes -> Blocks] /\ After(t) \in [Nodes -> Blocks]
         /\ \A v \in DOMAIN sequence[t] :
              part'[v] = IF v \in applied[t] \union {u} THEN sequence[t][v].to ELSE sequence[t][v].from
         /\ Before(t) = [v \in Nodes |->
              IF v \in applied[t] \union {u} THEN sequence[t][v].from ELSE part'[v]]
         /\ After(t) = [v \in Nodes |->
              IF v \in DOMAIN sequence[t] \ (applied[t] \union {u}) THEN sequence[t][v].to ELSE part'[v]]
         /\ applied[t] \union {u} = DOMAIN sequence[t] => After(t) = part'
         /\ Before(t) = [v \in Nodes |-> IF v \in DOMAIN sequence[t] THEN sequence[t][v].from ELSE part'[v]]
         /\ Gain(u, sequence[t][u].to) = Km1(part) - Km1(part') /\ Km1(part') \in Int /\ Km1(part) \in Int
<1> DEFINE s == sequence[t]
           a == applied[t]
           p == part'
           done == applied[t] \union {u}
<1>1. /\ DOMAIN s \subseteq Nodes /\ \A v \in DOMAIN s : s[v].from \in Blocks /\ s[v].to \in Blocks
      /\ part \in [Nodes -> Blocks]
  BY MoveFields DEF FlowTypeOK
<1>2. /\ a \subseteq DOMAIN s /\ u \in DOMAIN s /\ u \notin a
      /\ \A v \in DOMAIN s : part[v] = IF v \in a THEN s[v].to ELSE s[v].from
  BY DEF MoveInv
<1>3. /\ p \in [Nodes -> Blocks] /\ p[u] = s[u].to /\ \A v \in Nodes : v # u => p[v] = part[v]
      /\ Gain(u, s[u].to) = Km1(part) - Km1(p) /\ Km1(p) \in Int /\ Km1(part) \in Int
  BY <1>1, <1>2, MovedType
<1>4. /\ Before(t) = [v \in Nodes |-> IF v \in a THEN s[v].from ELSE part[v]]
      /\ After(t) = [v \in Nodes |-> IF v \in DOMAIN s \ a THEN s[v].to ELSE part[v]]
  BY DEF Before, After
<1>5. done = a \union {u}
  OBVIOUS
<1> HIDE DEF s, a, p, done
<1>6. Before(t) \in [Nodes -> Blocks] /\ After(t) \in [Nodes -> Blocks]
  BY <1>1, <1>2, <1>4
<1>7. \A v \in DOMAIN s : p[v] = IF v \in done THEN s[v].to ELSE s[v].from
  BY <1>1, <1>2, <1>3, <1>5
<1>8. Before(t) = [v \in Nodes |-> IF v \in done THEN s[v].from ELSE p[v]]
  <2>1. \A v \in Nodes : (IF v \in a THEN s[v].from ELSE part[v]) = (IF v \in done THEN s[v].from ELSE p[v])
    BY <1>1, <1>2, <1>3, <1>5
  <2> QED BY <1>4, <2>1
<1>9. After(t) = [v \in Nodes |-> IF v \in DOMAIN s \ done THEN s[v].to ELSE p[v]]
  <2>1. \A v \in Nodes : (IF v \in DOMAIN s \ a THEN s[v].to ELSE part[v]) = (IF v \in DOMAIN s \ done THEN s[v].to ELSE p[v])
    BY <1>1, <1>2, <1>3, <1>5
  <2> QED BY <1>4, <2>1
<1>10. done = DOMAIN s => After(t) = p
  <2>1. done = DOMAIN s => After(t) = [v \in Nodes |-> p[v]]
    BY <1>9
  <2> QED BY <1>3, <2>1
<1>11. Before(t) = [v \in Nodes |-> IF v \in DOMAIN s THEN s[v].from ELSE p[v]]
  <2>1. \A v \in Nodes : (IF v \in a THEN s[v].from ELSE part[v]) = (IF v \in DOMAIN s THEN s[v].from ELSE p[v])
    BY <1>1, <1>2, <1>3
  <2> QED BY <1>4, <2>1
<1> QED BY <1>3, <1>6, <1>7, <1>8, <1>9, <1>10, <1>11 DEF s, a, p, done

\* The weights without the moves are those the search began with: taking moves back is
\* always possible.
LEMMA WeightsBehind ==
  ASSUME FlowTypeOK, NEW t \in Searches, MoveInv(t)
  PROVE  UpdatedWeights(sequence[t], -1) = BlockWeights(Before(t))
<1> DEFINE s == sequence[t]
           a == applied[t]
           p == Before(t)
           q == After(t)
<1>1. /\ DOMAIN s \subseteq Nodes /\ \A v \in DOMAIN s : s[v].from \in Blocks /\ s[v].to \in Blocks
      /\ part \in [Nodes -> Blocks] /\ part_weights \in [Blocks -> Int]
  BY MoveFields DEF FlowTypeOK
<1>2. /\ a \subseteq DOMAIN s /\ \A v \in DOMAIN s : part[v] = IF v \in a THEN s[v].to ELSE s[v].from
      /\ part_weights = BlockWeights(q)
  BY DEF MoveInv
<1>3. /\ p = [v \in Nodes |-> IF v \in a THEN s[v].from ELSE part[v]]
      /\ q = [v \in Nodes |-> IF v \in DOMAIN s \ a THEN s[v].to ELSE part[v]]
  BY DEF Before, After
<1> HIDE DEF s, a, p, q
<1>4. p \in [Nodes -> Blocks] /\ q \in [Nodes -> Blocks]
  BY <1>1, <1>2, <1>3
<1>5. \A v \in DOMAIN s : s[v].from = p[v] /\ s[v].to = q[v]
  BY <1>1, <1>2, <1>3
<1>6. \A v \in Nodes \ DOMAIN s : p[v] = q[v]
  BY <1>2, <1>3
<1>7. ASSUME NEW b \in Blocks PROVE UpdatedWeights(s, -1)[b] = BlockWeights(p)[b]
  <2>1. /\ BlockWeights(p)[b] \in Int /\ BlockWeights(q)[b] \in Int /\ PartWeightDelta(s, b) \in Int
        /\ BlockWeights(q)[b] = BlockWeights(p)[b] + PartWeightDelta(s, b)
    <3>1. DOMAIN s \subseteq Nodes
      BY <1>1
    <3> QED BY ONLY <3>1, <1>4, <1>5, <1>6, b \in Blocks, MovesShiftWeights
  <2>2. UpdatedWeights(s, -1)[b] = part_weights[b] + (-1) * PartWeightDelta(s, b)
    BY DEF UpdatedWeights
  <2> QED BY <1>2, <2>1, <2>2
<1>8. UpdatedWeights(s, -1) \in [Blocks -> Int] /\ BlockWeights(p) \in [Blocks -> Int]
  BY <1>1, <1>4, UpdatedWeightsType, WeightTypes
<1>9. UpdatedWeights(s, -1) = BlockWeights(p)
  BY <1>7, <1>8, SameWeights
<1> QED BY <1>9 DEF s, p

\* A step of the search that holds the lock.
LEMMA HolderStep ==
  ASSUME ApplyInv, NEW t \in Searches, OthersStay(t), lock = t, lock' \in {t, NoSearch},
         \A s \in Searches : s # t => applied'[s] = applied[s],
         IdleInv(t)', IsBalanced(part_weights)', lock' = t <=> pc'[t] \in {"move", "revert"},
         lock' = NoSearch => part_weights' = BlockWeights(part'),
         pc'[t] = "move" => MoveInv(t)', pc'[t] = "revert" => RevertInv(t)'
  PROVE  ApplyInv'
<1>1. \A s \in Searches : s # NoSearch
  BY SchedulerAssumption DEF Searches, NoSearch
<1>2. \A s \in Searches : s # t => pc'[s] = pc[s] /\ pc[s] \notin {"move", "revert"}
  BY DEF ApplyInv, OthersStay
<1>3. \A s \in Searches : IdleInv(s)'
  BY OtherIdle DEF ApplyInv
<1>4. \A s \in Searches : lock' = s <=> pc'[s] \in {"move", "revert"}
  BY <1>1, <1>2
<1> QED BY <1>2, <1>3, <1>4 DEF ApplyInv

\* applyMoveSequence keeps the invariant.
LEMMA ApplyMoveStep ==
  ASSUME SchedulerTypeOK, FlowTypeOK, ApplyInv, NEW t \in Searches, OthersStay(t), ApplyMove(t)
  PROVE  /\ ApplyInv' /\ delta'[t] = delta[t] + Km1(part) - Km1(part')
         /\ pc'[t] \in {"move", "revert", "add_cut", "report"}
<1> USE DEF SchedulerTypeOK, Goto, At
<1> DEFINE s == sequence[t]
<1>1. /\ pc[t] = "move" /\ UNCHANGED <<max_part_weights, quality, start_quality, plan, sequence>>
  BY DEF ApplyMove
<1>2. lock = t /\ MoveInv(t) /\ IsBalanced(part_weights)
  BY <1>1 DEF ApplyInv
<1>3. PICK u \in DOMAIN s \ applied[t] :
        LET b == s[u].to
            improvement == delta[t] + Gain(u, b)
            cut == new_cut[t] \union {<<e, b>> : e \in NewCutNets(u, b)}
            done == applied[t] \union {u}
        IN  /\ part' = Moved(u, b)
            /\ delta' = [delta EXCEPT ![t] = improvement]
            /\ \/ /\ done # DOMAIN s
                  /\ applied' = [applied EXCEPT ![t] = done]
                  /\ UNCHANGED <<pc, part_weights, lock>>
               \/ /\ done = DOMAIN s
                  /\ applied' = [applied EXCEPT ![t] = {}]
                  /\ EndApply(t, improvement, cut)
  BY DEF ApplyMove
<1> DEFINE d == delta[t] + Gain(u, s[u].to)
           done == applied[t] \union {u}
<1>4. /\ part' \in [Nodes -> Blocks] /\ Before(t) \in [Nodes -> Blocks] /\ After(t) \in [Nodes -> Blocks]
      /\ \A v \in DOMAIN s : part'[v] = IF v \in done THEN s[v].to ELSE s[v].from
      /\ Before(t) = [v \in Nodes |-> IF v \in done THEN s[v].from ELSE part'[v]]
      /\ After(t) = [v \in Nodes |-> IF v \in DOMAIN s \ done THEN s[v].to ELSE part'[v]]
      /\ done = DOMAIN s => After(t) = part'
      /\ Before(t) = [v \in Nodes |-> IF v \in DOMAIN s THEN s[v].from ELSE part'[v]]
      /\ Gain(u, s[u].to) = Km1(part) - Km1(part') /\ Km1(part') \in Int /\ Km1(part) \in Int
  <2>1. u \in DOMAIN sequence[t] \ applied[t] /\ part' = Moved(u, sequence[t][u].to)
    BY <1>3
  <2>2. MoveInv(t)
    BY <1>2
  <2> QED BY ONLY FlowTypeOK, t \in Searches, <2>1, <2>2, MoveFrame, Zenon
<1>5. delta'[t] = d /\ d = delta[t] + Km1(part) - Km1(part') /\ d = Km1(Before(t)) - Km1(part') /\ d \in Int
  <2>1. delta'[t] = d /\ delta[t] \in Int
    BY <1>3
  <2>2. delta[t] = Km1(Before(t)) - Km1(part) /\ Km1(Before(t)) \in Int
    BY <1>2, <1>4, Km1Type DEF MoveInv
  <2>3. Gain(u, s[u].to) = Km1(part) - Km1(part') /\ Km1(part') \in Int /\ Km1(part) \in Int
    BY <1>4
  <2>4. \A g, x, y, z \in Int : g = x - y => z + g = z + x - y /\ z + g \in Int
    OBVIOUS
  <2>5. \A g, x, y, z, w \in Int : g = x - y /\ z = w - x => z + g = w - y
    OBVIOUS
  <2>6. Gain(u, s[u].to) \in Int
    BY <2>3
  <2>7. d = delta[t] + Km1(part) - Km1(part') /\ d \in Int
    BY ONLY <2>1, <2>3, <2>4, <2>6
  <2>8. d = Km1(Before(t)) - Km1(part')
    BY ONLY <2>1, <2>2, <2>3, <2>5, <2>6
  <2> QED BY <2>1, <2>7, <2>8
<1>6. part_weights = BlockWeights(After(t)) /\ IsBalanced(BlockWeights(Before(t)))
  BY <1>2 DEF MoveInv
<1> HIDE DEF s, d, done
<1>7. sequence'[t] = s
  BY <1>1 DEF s
<1>8. CASE done # DOMAIN s
  <2>1. /\ applied' = [applied EXCEPT ![t] = done] /\ UNCHANGED <<pc, part_weights, lock>>
    BY <1>3, <1>8 DEF done, s
  <2>2. applied'[t] = done /\ \A r \in Searches : r # t => applied'[r] = applied[r]
    BY <2>1 DEF FlowTypeOK
  <2>3. Before(t)' = Before(t) /\ After(t)' = After(t)
    BY <1>4, <1>7, <2>2 DEF Before, After
  <2>4. MoveInv(t)'
    <3>1. done \subseteq DOMAIN s
      BY <1>2, <1>3 DEF done, s, MoveInv
    <3>2. IsBalanced(BlockWeights(Before(t)))'
      BY <1>1, <1>6, <2>3 DEF IsBalanced
    <3> QED BY <1>4, <1>5, <1>6, <1>7, <2>1, <2>2, <2>3, <3>1, <3>2 DEF MoveInv
  <2>5. IdleInv(t)'
    BY <1>1, <2>1 DEF IdleInv, Early
  <2>6. IsBalanced(part_weights)'
    BY <1>1, <1>2, <2>1 DEF IsBalanced
  <2>7. lock' = t /\ pc'[t] = "move" /\ t # NoSearch
    BY <1>1, <1>2, <2>1, SchedulerAssumption DEF Searches, NoSearch
  <2>8. ApplyInv'
    BY <1>2, <2>2, <2>4, <2>5, <2>6, <2>7, HolderStep
  <2> QED BY <1>5, <2>7, <2>8
<1>9. CASE done = DOMAIN s
  <2>1. /\ applied' = [applied EXCEPT ![t] = {}]
        /\ \E cut : EndApply(t, d, cut)
    BY <1>3, <1>9 DEF done, s, d
  <2>2. applied'[t] = {} /\ \A r \in Searches : r # t => applied'[r] = applied[r]
    BY <2>1 DEF FlowTypeOK
  <2>3. UpdatedWeights(s, -1) = BlockWeights(Before(t))
    BY <1>2, WeightsBehind DEF s
  <2>4. part_weights = BlockWeights(part')
    BY <1>4, <1>6, <1>9
  <2>5. CASE d >= 0
    <3>1. pc'[t] \in {"report", "add_cut"} /\ lock' = NoSearch /\ part_weights' = part_weights
      BY <1>5, <2>1, <2>5 DEF EndApply
    <3>2. IdleInv(t)'
      BY <1>5, <2>2, <2>5, <3>1 DEF IdleInv, Early
    <3>3. IsBalanced(part_weights)'
      BY <1>1, <1>2, <3>1 DEF IsBalanced
    <3>4. t # NoSearch
      BY SchedulerAssumption DEF Searches, NoSearch
    <3>5. ApplyInv'
      BY <1>2, <2>2, <2>4, <3>1, <3>2, <3>3, <3>4, HolderStep
    <3> QED BY <1>5, <3>1, <3>5
  <2>6. CASE ~(d >= 0)
    <3>0. d < 0
      BY <1>5, <2>6
    <3>1. pc'[t] = "revert" /\ lock' = lock /\ part_weights' = BlockWeights(Before(t))
      <4>1. DOMAIN s \subseteq Nodes
        BY MoveFields DEF s
      <4>2. IsBalanced(UpdatedWeights(s, -1))
        BY <1>6, <2>3
      <4>3. Overloaded(s, -1) = {} /\ PartWeightUpdate(s, -1) = UpdatedWeights(s, -1)
        BY <4>1, <4>2, AllOrNothing
      <4> QED BY <2>1, <2>3, <2>6, <3>0, <4>3 DEF EndApply, s
    <3>2. Restored(t)' = Before(t)
      <4>1. Restored(t)' = [v \in Nodes |-> IF v \in DOMAIN s THEN s[v].from ELSE part'[v]]
        BY <1>7, <2>2 DEF Restored
      <4> QED BY <1>4, <4>1
    <3>3. RevertInv(t)'
      BY <1>5, <2>2, <3>1, <3>2 DEF RevertInv
    <3>4. IdleInv(t)'
      BY <3>1 DEF IdleInv, Early
    <3>5. IsBalanced(part_weights)'
      BY <1>1, <1>6, <3>1 DEF IsBalanced
    <3>6. t # NoSearch
      BY SchedulerAssumption DEF Searches, NoSearch
    <3>7. ApplyInv'
      BY <1>2, <2>2, <3>1, <3>3, <3>4, <3>5, <3>6, HolderStep
    <3> QED BY <1>5, <3>1, <3>7
  <2> QED BY <2>5, <2>6
<1> QED BY <1>8, <1>9

\* revertMoveSequence ends with the partition that the search began with.
LEMMA RevertMoveStep ==
  ASSUME SchedulerTypeOK, FlowTypeOK, ApplyInv, NEW t \in Searches, OthersStay(t), RevertMove(t)
  PROVE  /\ ApplyInv' /\ delta'[t] = delta[t] + Km1(part) - Km1(part')
         /\ pc'[t] \in {"revert", "report"}
<1> USE DEF SchedulerTypeOK, Goto, At
<1> DEFINE s == sequence[t]
           a == applied[t]
<1>1. /\ pc[t] = "revert"
      /\ UNCHANGED <<part_weights, max_part_weights, quality, start_quality, plan, sequence>>
  BY DEF RevertMove
<1>2. lock = t /\ RevertInv(t) /\ IsBalanced(part_weights)
  BY <1>1 DEF ApplyInv
<1>3. PICK u \in DOMAIN s \ a :
        LET done == a \union {u}
            last == done = DOMAIN s
        IN  /\ part' = Moved(u, s[u].from)
            /\ delta' = [delta EXCEPT ![t] = delta[t] + Gain(u, s[u].from)]
            /\ applied' = [applied EXCEPT ![t] = done]
            /\ Goto(t, IF last THEN "report" ELSE "revert")
            /\ lock' = IF last THEN NoSearch ELSE lock
  BY DEF RevertMove, RevertedDelta
<1> DEFINE d == delta[t] + Gain(u, s[u].from)
           done == a \union {u}
<1>4. /\ DOMAIN s \subseteq Nodes /\ \A v \in DOMAIN s : s[v].from \in Blocks /\ s[v].to \in Blocks
      /\ part \in [Nodes -> Blocks]
  BY MoveFields DEF FlowTypeOK
<1>5. /\ part' \in [Nodes -> Blocks] /\ part'[u] = s[u].from /\ \A v \in Nodes : v # u => part'[v] = part[v]
      /\ Gain(u, s[u].from) = Km1(part) - Km1(part') /\ Km1(part') \in Int /\ Km1(part) \in Int
  BY <1>3, <1>4, MovedType, SMTT(30)
<1>6. Restored(t) = [v \in Nodes |-> IF v \in DOMAIN s \ a THEN s[v].from ELSE part[v]]
  BY DEF Restored
<1>7. a \subseteq DOMAIN s /\ part_weights = BlockWeights(Restored(t)) /\ delta[t] = Km1(Restored(t)) - Km1(part)
  BY <1>2 DEF RevertInv
<1>8. /\ u \in DOMAIN s /\ u \notin a /\ sequence'[t] = s
      /\ applied'[t] = done /\ \A r \in Searches : r # t => applied'[r] = applied[r]
  BY <1>1, <1>3 DEF FlowTypeOK
<1>9. delta'[t] = d /\ delta[t] \in Int
  BY <1>3
<1>10. /\ pc'[t] = IF done = DOMAIN s THEN "report" ELSE "revert"
       /\ lock' = IF done = DOMAIN s THEN NoSearch ELSE lock
  BY <1>3
<1> HIDE DEF s, a, done
<1>11. Restored(t) \in [Nodes -> Blocks]
  BY <1>4, <1>6
<1>12. d = delta[t] + Km1(part) - Km1(part') /\ d = Km1(Restored(t)) - Km1(part')
  <2>1. Km1(Restored(t)) \in Int
    BY <1>11, Km1Type
  <2>2. \A g, x, y, z, w \in Int : g = x - y /\ z = w - x => z + g = w - y /\ z + g = z + x - y
    OBVIOUS
  <2>3. Gain(u, s[u].from) \in Int
    BY <1>5
  <2> QED BY ONLY <1>5, <1>7, <1>9, <2>1, <2>2, <2>3
<1> HIDE DEF d
<1>13. Restored(t)' = Restored(t)
  <2>1. Restored(t)' = [v \in Nodes |-> IF v \in DOMAIN s \ done THEN s[v].from ELSE part'[v]]
    BY <1>8 DEF Restored
  <2>2. done = a \union {u}
    BY DEF done
  <2>3. \A v \in Nodes : (IF v \in DOMAIN s \ done THEN s[v].from ELSE part'[v]) =
                         (IF v \in DOMAIN s \ a THEN s[v].from ELSE part[v])
    BY <1>5, <1>8, <2>2
  <2> QED BY <1>6, <2>1, <2>3
<1>14. done \subseteq DOMAIN s
  BY <1>7, <1>8 DEF done
<1>15. RevertInv(t)'
  BY <1>1, <1>7, <1>8, <1>9, <1>12, <1>13, <1>14 DEF RevertInv
<1>16. IsBalanced(part_weights)'
  BY <1>1, <1>2 DEF IsBalanced
<1>17. t # NoSearch
  BY SchedulerAssumption DEF Searches, NoSearch
<1>18. CASE done = DOMAIN s
  <2>1. Restored(t) = part'
    <3>1. Restored(t)' = [v \in Nodes |-> part'[v]]
      BY <1>8, <1>18 DEF Restored
    <3> QED BY <1>5, <1>13, <3>1
  <2>2. delta'[t] = 0
    <3>1. \A x \in Int : x - x = 0
      OBVIOUS
    <3> QED BY <1>5, <1>9, <1>12, <2>1, <3>1
  <2>3. IdleInv(t)'
    BY <1>10, <1>18, <2>2 DEF IdleInv, Early
  <2>4. part_weights' = BlockWeights(part')
    BY <1>1, <1>7, <2>1
  <2>5. pc'[t] = "report" /\ lock' = NoSearch
    BY <1>10, <1>18
  <2>6. ApplyInv'
    BY <1>2, <1>8, <1>16, <1>17, <2>3, <2>4, <2>5, HolderStep
  <2> QED BY <1>9, <1>12, <2>5, <2>6
<1>19. CASE done # DOMAIN s
  <2>1. pc'[t] = "revert" /\ lock' = t
    BY <1>2, <1>10, <1>19
  <2>2. IdleInv(t)'
    BY <2>1 DEF IdleInv, Early
  <2>3. ApplyInv'
    BY <1>2, <1>8, <1>15, <1>16, <1>17, <2>1, <2>2, HolderStep
  <2> QED BY <1>9, <1>12, <2>1, <2>3
<1> QED BY <1>18, <1>19

-----------------------------------------------------------------------------
(***************************************************************************)
(* The objective.                                                          *)
(***************************************************************************)

\* Improvements that the refinement does not know of yet.
Unreported == [t \in Searches |->
  IF pc[t] \in {"move", "revert", "add_cut", "report"} THEN delta[t] ELSE 0]

QualityInv ==
  /\ quality - SumFunctionOnSet(Unreported, Searches) = Km1(part)
  /\ quality <= start_quality

\* One value of Unreported changes.
LEMMA UnreportedChange ==
  ASSUME SchedulerTypeOK, SchedulerTypeOK', NEW t \in Searches, OthersStay(t)
  PROVE  /\ SumFunctionOnSet(Unreported, Searches) \in Int
         /\ Unreported[t] \in Int /\ Unreported'[t] \in Int
         /\ SumFunctionOnSet(Unreported', Searches) =
              SumFunctionOnSet(Unreported, Searches) - Unreported[t] + Unreported'[t]
<1>1. \A s \in Searches : Unreported[s] \in Int /\ Unreported'[s] \in Int
  BY DEF Unreported, SchedulerTypeOK
<1>2. \A s \in Searches \ {t} : Unreported[s] = Unreported'[s]
  BY DEF Unreported, OthersStay
<1>3. IsFiniteSet(Searches)
  BY SearchSets
<1> HIDE DEF Unreported
<1> QED BY <1>1, <1>2, <1>3, SumChange, SumInt

\* A step that changes neither the partition nor the reported quality, nor what is unreported.
LEMMA SameQuality ==
  ASSUME SchedulerTypeOK, SchedulerTypeOK', NEW t \in Searches, OthersStay(t), QualityInv,
         UNCHANGED <<part, quality, start_quality>>, Unreported'[t] = Unreported[t]
  PROVE  QualityInv'
<1>1. /\ SumFunctionOnSet(Unreported, Searches) \in Int /\ Unreported[t] \in Int
      /\ SumFunctionOnSet(Unreported', Searches) =
           SumFunctionOnSet(Unreported, Searches) - Unreported[t] + Unreported'[t]
  BY UnreportedChange
<1>2. SumFunctionOnSet(Unreported', Searches) = SumFunctionOnSet(Unreported, Searches)
  BY <1>1
<1> HIDE DEF Unreported
<1> QED BY <1>2 DEF QualityInv

\* A move, forward or back, changes the objective by what the search adds up.
LEMMA MoveQuality ==
  ASSUME SchedulerTypeOK, SchedulerTypeOK', NEW t \in Searches, OthersStay(t), QualityInv,
         FlowTypeOK, FlowTypeOK', UNCHANGED <<quality, start_quality>>,
         pc[t] \in {"move", "revert"}, pc'[t] \in {"move", "revert", "add_cut", "report"},
         delta'[t] = delta[t] + Km1(part) - Km1(part')
  PROVE  QualityInv'
<1>1. /\ SumFunctionOnSet(Unreported, Searches) \in Int /\ Unreported[t] \in Int /\ Unreported'[t] \in Int
      /\ SumFunctionOnSet(Unreported', Searches) =
           SumFunctionOnSet(Unreported, Searches) - Unreported[t] + Unreported'[t]
  BY UnreportedChange
<1>2. Unreported[t] = delta[t] /\ Unreported'[t] = delta'[t]
  BY DEF Unreported
<1>3. Km1(part) \in Int /\ Km1(part') \in Int /\ quality \in Int
  BY Km1Type DEF FlowTypeOK
<1>4. \A sum, a, b, x, y, q, n \in Int :
        b = a + x - y /\ n = sum - a + b /\ q - sum = x => q - n = y
  OBVIOUS
<1>5. SumFunctionOnSet(Unreported', Searches) \in Int
  BY <1>1
<1>6. quality - SumFunctionOnSet(Unreported, Searches) = Km1(part)
  BY DEF QualityInv
<1>7. quality - SumFunctionOnSet(Unreported', Searches) = Km1(part')
  BY ONLY <1>1, <1>2, <1>3, <1>4, <1>5, <1>6, delta'[t] = delta[t] + Km1(part) - Km1(part')
<1> HIDE DEF Unreported
<1> QED BY <1>7 DEF QualityInv

\* Every step keeps the account of the objective.
LEMMA QualityStep ==
  ASSUME SchedulerTypeOK, SchedulerTypeOK', FlowTypeOK, FlowTypeOK', ApplyInv, ApplyInv', QualityInv,
         NEW t \in Searches, OthersStay(t), SearchStep(t)
  PROVE  QualityInv'
<1> USE DEF Goto, At
<1>0. IdleInv(t) /\ pc \in [Searches -> Steps]
  BY DEF ApplyInv, SchedulerTypeOK
<1>1. CASE SchedulerStep(t) /\ UNCHANGED <<partitionVars, flowVars>>
  <2>1. /\ pc[t] \notin {"move", "revert", "add_cut", "report"}
        /\ pc'[t] \notin {"move", "revert", "add_cut", "report"}
    BY <1>0, <1>1, SchedulerBystands DEF Bystander
  <2>2. UNCHANGED <<part, quality, start_quality>>
    BY <1>1 DEF partitionVars
  <2>3. Unreported'[t] = Unreported[t]
    BY <2>1 DEF Unreported
  <2> QED BY <2>2, <2>3, SameQuality
<1>2. CASE Construct(t) \/ ExtractMoves(t) \/ BeginApply(t) \/ AddNewCutHyperedge(t)
  <2>1. UNCHANGED <<part, quality, start_quality, delta>>
    BY <1>2 DEF Construct, ExtractMoves, BeginApply, AddNewCutHyperedge, partitionVars
  <2>2. Unreported'[t] = Unreported[t]
    <3>1. CASE AddNewCutHyperedge(t)
      <4>1. pc[t] = "add_cut" /\ pc'[t] \in {"add_cut", "report"}
        BY <1>0, <3>1 DEF AddNewCutHyperedge
      <4> QED BY <2>1, <4>1 DEF Unreported
    <3>2. CASE Construct(t) \/ ExtractMoves(t) \/ BeginApply(t)
      <4>1. pc[t] \in {"construct", "flow", "apply"}
        BY <3>2 DEF Construct, ExtractMoves, BeginApply
      <4>2. delta[t] = 0
        BY <1>0, <4>1 DEF IdleInv, Early
      <4> QED BY <2>1, <4>2 DEF Unreported
    <3> QED BY <1>2, <3>1, <3>2
  <2> QED BY <2>1, <2>2, SameQuality
<1>3. CASE ApplyMove(t)
  <2>1. UNCHANGED <<quality, start_quality>> /\ pc[t] = "move"
    BY <1>3 DEF ApplyMove
  <2>2. /\ delta'[t] = delta[t] + Km1(part) - Km1(part')
        /\ pc'[t] \in {"move", "revert", "add_cut", "report"}
    BY <1>3, ApplyMoveStep
  <2> QED BY <2>1, <2>2, MoveQuality
<1>4. CASE RevertMove(t)
  <2>1. UNCHANGED <<quality, start_quality>> /\ pc[t] = "revert"
    BY <1>4 DEF RevertMove
  <2>2. /\ delta'[t] = delta[t] + Km1(part) - Km1(part')
        /\ pc'[t] \in {"revert", "report"}
    BY <1>4, RevertMoveStep
  <2> QED BY <2>1, <2>2, MoveQuality
<1>5. CASE ReportSearch(t)
  <2>1. /\ quality' = quality - delta[t] /\ UNCHANGED <<part, start_quality>>
        /\ pc[t] = "report" /\ pc'[t] = "schedule"
    BY <1>0, <1>5 DEF ReportSearch, Report
  <2>2. delta[t] >= 0 /\ delta[t] \in Int
    BY <1>0, <2>1 DEF IdleInv, SchedulerTypeOK
  <2>3. Unreported[t] = delta[t] /\ Unreported'[t] = 0
    BY <2>1 DEF Unreported
  <2>4. /\ SumFunctionOnSet(Unreported, Searches) \in Int
        /\ SumFunctionOnSet(Unreported', Searches) =
             SumFunctionOnSet(Unreported, Searches) - Unreported[t] + Unreported'[t]
    BY UnreportedChange
  <2>5. quality \in Int /\ start_quality \in Int
    BY DEF FlowTypeOK
  <2> HIDE DEF Unreported
  <2>6. quality' - SumFunctionOnSet(Unreported', Searches) = quality - SumFunctionOnSet(Unreported, Searches)
    BY <2>1, <2>2, <2>3, <2>4, <2>5
  <2>7. quality' <= start_quality
    BY <2>1, <2>2, <2>5 DEF QualityInv
  <2> QED BY <2>1, <2>6, <2>7 DEF QualityInv
<1> QED BY <1>1, <1>2, <1>3, <1>4, <1>5 DEF SearchStep

\* The invariant about the partition.
PartitionInv == RoundInv /\ ApplyInv /\ QualityInv

\* The refinement begins with exact weights and an exact objective.
LEMMA InitPartition == Init => PartitionInv
<1> SUFFICES ASSUME Init PROVE PartitionInv
  OBVIOUS
<1>1. RoundInv
  BY InitRounds
<1>2. /\ lock = NoSearch /\ part_weights = BlockWeights(part)
      /\ \A t \in Searches : pc[t] = "loop" /\ applied[t] = {} /\ delta[t] = 0
      /\ max_part_weights = [b \in Blocks |-> Max({part_weights[b], PartWeightLimit[b]})]
      /\ quality = Km1(part) /\ start_quality = Km1(part)
  BY DEF Init
<1>3. IsBalanced(part_weights)
  <2>1. \A b \in Blocks : part_weights[b] \in Int /\ PartWeightLimit[b] \in Int
    BY <1>1, FlowAssumption DEF RoundInv, FlowTypeOK
  <2>2. \A b \in Blocks : part_weights[b] <= Max({part_weights[b], PartWeightLimit[b]})
    BY <2>1, MaxOfTwo
  <2> QED BY <1>2, <2>2 DEF IsBalanced
<1>4. \A t \in Searches : lock # t
  BY <1>2, SchedulerAssumption DEF Searches, NoSearch
<1>5. \A t \in Searches : IdleInv(t)
  BY <1>2 DEF IdleInv
<1>6. ApplyInv
  BY <1>2, <1>3, <1>4, <1>5 DEF ApplyInv
<1>7. QualityInv
  <2>1. \A t \in Searches : Unreported[t] = 0
    BY <1>2 DEF Unreported
  <2>2. SumFunctionOnSet(Unreported, Searches) = 0
    <3>1. \A t \in Searches : Unreported[t] = IF t \in {} THEN 1 ELSE 0
      BY <2>1
    <3> HIDE DEF Unreported
    <3>2. SumFunctionOnSet(Unreported, Searches) = Cardinality({})
      BY <3>1, SearchSets, SumCount
    <3> QED BY <3>2, FS_EmptySet
  <2>3. Km1(part) \in Int
    BY <1>1, Km1Type DEF RoundInv, FlowTypeOK
  <2> HIDE DEF Unreported
  <2> QED BY <1>2, <2>2, <2>3 DEF QualityInv
<1> QED BY <1>1, <1>6, <1>7 DEF PartitionInv

\* Every step keeps the invariant about the partition.
LEMMA PartitionInvStep == PartitionInv /\ [Next]_vars => PartitionInv'
<1> SUFFICES ASSUME PartitionInv, [Next]_vars PROVE PartitionInv'
  OBVIOUS
<1>0. RoundInv /\ RoundInv'
  BY RoundInvStep DEF PartitionInv
<1>1. ASSUME NEW t \in Searches, SearchStep(t) PROVE PartitionInv'
  <2>0. SchedulerTypeOK /\ PlacesOK /\ FlowTypeOK /\ SchedulerTypeOK' /\ FlowTypeOK' /\ ApplyInv /\ QualityInv
    BY <1>0 DEF RoundInv, PartitionInv
  <2>1. OthersStay(t)
    BY <1>1, <2>0, StepEffect
  <2>2. IdleInv(t) /\ (lock = t => pc[t] \in {"move", "revert"})
    BY <2>0 DEF ApplyInv
  <2>3. ApplyInv'
    <3>1. CASE SchedulerStep(t) /\ UNCHANGED <<partitionVars, flowVars>>
      BY <2>0, <2>1, <2>2, <3>1, SchedulerBystands, BystanderStep
    <3>2. CASE Construct(t) \/ ExtractMoves(t) \/ AddNewCutHyperedge(t) \/ ReportSearch(t)
      BY <2>0, <2>1, <2>2, <3>2, FlowBystands, BystanderStep
    <3>3. CASE BeginApply(t) /\ lock' = lock
      BY <2>0, <2>1, <2>2, <3>3, FlowBystands, BystanderStep
    <3>4. CASE BeginApply(t) /\ lock' # lock
      BY <2>0, <2>1, <3>4, BeginStep
    <3>5. CASE ApplyMove(t)
      BY <2>0, <2>1, <3>5, ApplyMoveStep
    <3>6. CASE RevertMove(t)
      BY <2>0, <2>1, <3>6, RevertMoveStep
    <3> QED BY <1>1, <3>1, <3>2, <3>3, <3>4, <3>5, <3>6 DEF SearchStep
  <2>4. QualityInv'
    BY <1>1, <2>0, <2>1, <2>3, QualityStep
  <2> QED BY <1>0, <2>3, <2>4 DEF PartitionInv
<1>2. ASSUME UNCHANGED vars PROVE PartitionInv'
  <2>1. UNCHANGED <<pc, delta, part, part_weights, max_part_weights, quality, start_quality, lock, sequence, applied>>
    BY <1>2 DEF vars, schedulerVars, positionVars, partitionVars, flowVars
  <2>2. \A t \in Searches : Before(t)' = Before(t) /\ After(t)' = After(t) /\ Restored(t)' = Restored(t)
    BY <2>1 DEF Before, After, Restored
  <2>3. \A t \in Searches : (MoveInv(t) => MoveInv(t)') /\ (RevertInv(t) => RevertInv(t)')
    BY <2>1, <2>2 DEF MoveInv, RevertInv, IsBalanced
  <2>4. ApplyInv'
    BY <2>1, <2>3 DEF PartitionInv, ApplyInv, IsBalanced, IdleInv
  <2>5. QualityInv'
    BY <2>1 DEF PartitionInv, QualityInv, Unreported
  <2> QED BY <1>0, <2>4, <2>5 DEF PartitionInv
<1> QED BY <1>1, <1>2 DEF Next, Finished

\* What the invariant says about weights and improvements.
LEMMA PartitionInvImplies == PartitionInv => WeightsTracked /\ ImprovementAccounted
<1> SUFFICES ASSUME PartitionInv PROVE WeightsTracked /\ ImprovementAccounted
  OBVIOUS
<1>1. WeightsTracked
  BY DEF PartitionInv, ApplyInv, WeightsTracked
<1>2. ASSUME AllDone PROVE quality = Km1(part) /\ quality <= start_quality
  <2>1. \A t \in Searches : Unreported[t] = IF t \in {} THEN 1 ELSE 0
    BY <1>2 DEF Unreported, AllDone, At
  <2>2. SumFunctionOnSet(Unreported, Searches) = 0
    <3> HIDE DEF Unreported
    <3>1. SumFunctionOnSet(Unreported, Searches) = Cardinality({})
      BY <2>1, SearchSets, SumCount
    <3> QED BY <3>1, FS_EmptySet
  <2>3. quality \in Int
    BY DEF PartitionInv, RoundInv, FlowTypeOK
  <2> HIDE DEF Unreported
  <2> QED BY <2>2, <2>3 DEF PartitionInv, QualityInv
<1> QED BY <1>1, <1>2 DEF ImprovementAccounted

\* Whenever no search holds the lock of applyMoves, the part weights are the weights of the
\* blocks and within the limits, for all hypergraphs, pairs, plans and orders of the steps.
THEOREM FlowWeightsAreTracked == Spec => []WeightsTracked
<1>1. Init => PartitionInv
  BY InitPartition
<1>2. PartitionInv /\ [Next]_vars => PartitionInv'
  BY PartitionInvStep
<1>3. PartitionInv => WeightsTracked
  BY PartitionInvImplies
<1> QED BY <1>1, <1>2, <1>3, PTL DEF Spec

\* The improvements that the searches report add up to the change of the objective, and
\* the refinement never makes the partition worse: a sequence of moves that turns out to
\* be bad on the current partition is always taken back.
THEOREM FlowsNeverWorsen == Spec => []ImprovementAccounted
<1>1. Init => PartitionInv
  BY InitPartition
<1>2. PartitionInv /\ [Next]_vars => PartitionInv'
  BY PartitionInvStep
<1>3. PartitionInv => ImprovementAccounted
  BY PartitionInvImplies
<1> QED BY <1>1, <1>2, <1>3, PTL DEF Spec
-----------------------------------------------------------------------------
(***************************************************************************)
(* What is left over.                                                      *)
(***************************************************************************)

\* The number of pairs in the queues of the rounds up to a given one.
QueueLengths == [r \in DOMAIN rounds |-> Len(rounds[r].queue)]
QueuedTo(n) == SumFunctionOnSet(QueueLengths, {r \in DOMAIN rounds : r <= n})

\* A search that will look at the counters of all rounds again.
Active(t) == pc[t] \notin {"sum", "pop", "lost", "finish_lost", "close_lost", "done"}

\* A search that has counted all pairs of the rounds it has added up, or that has found the
\* queues of the rounds before its own empty.
Seen(t) == pc[t] = "sum" /\ remaining[t] >= QueuedTo(round[t])
Walks(t) == pc[t] = "pop" /\ \A r \in DOMAIN rounds : r < round[t] => rounds[r].queue = <<>>

\* While more pairs are queued than the last searches may leave behind, a search is left
\* that looks at them.
Watched ==
  \/ stopped
  \/ QueuedTo(Len(rounds)) < NumSearches
  \/ \E s \in Searches : Active(s) \/ Seen(s) \/ Walks(s)

\* A search only loses its pair to one that constructs its flow problem.
OwnersKnown == \A p \in owned : \E s \in Searches : pc[s] = "construct" /\ pair[s] = p

\* The invariant about what is left over.
LeftInv ==
  /\ RoundInv
  /\ terminate => stopped
  /\ OwnersKnown
  /\ Watched

\* The sums over the queues are natural numbers, and the next queue is added at the end.
LEMMA QueuedToNext ==
  ASSUME rounds \in Seq(RoundType), NEW n \in Nat
  PROVE  /\ QueuedTo(n) \in Nat
         /\ QueuedTo(n + 1) = QueuedTo(n) + (IF n + 1 \in DOMAIN rounds THEN Len(rounds[n + 1].queue) ELSE 0)
         /\ n >= Len(rounds) => QueuedTo(n) = QueuedTo(Len(rounds))
         /\ (\A r \in DOMAIN rounds : r <= n => rounds[r].queue = <<>>) => QueuedTo(n) = 0
<1> DEFINE f == QueueLengths
           To(k) == {r \in DOMAIN rounds : r <= k}
<1>1. /\ Len(rounds) \in Nat /\ DOMAIN rounds = 1..Len(rounds)
      /\ \A r \in DOMAIN rounds : f[r] = Len(rounds[r].queue) /\ f[r] \in Nat
  BY RoundFields DEF QueueLengths
<1>2. ASSUME NEW k \in Nat PROVE To(k) \in SUBSET DOMAIN rounds /\ IsFiniteSet(To(k))
  <2>1. IsFiniteSet(1..Len(rounds))
    BY <1>1, FS_Interval
  <2> QED BY <1>1, <2>1, FS_Subset
<1>3. IsFiniteSet(DOMAIN rounds)
  BY <1>1, FS_Interval
<1> HIDE DEF f, RoundType
<1>4. QueuedTo(n) \in Nat
  <2>1. SumFunctionOnSet(f, To(n)) \in Nat
    <3> HIDE DEF To
    <3> QED BY <1>1, <1>2, <1>3, SumSubset
  <2> QED BY <2>1 DEF QueuedTo, f
<1>5. QueuedTo(n + 1) = QueuedTo(n) + (IF n + 1 \in DOMAIN rounds THEN Len(rounds[n + 1].queue) ELSE 0)
  <2>1. CASE n + 1 \in DOMAIN rounds
    <3>1. To(n + 1) = To(n) \cup {n + 1} /\ n + 1 \notin To(n)
      BY <1>1, <2>1
    <3>2. SumFunctionOnSet(f, To(n) \cup {n + 1}) = f[n + 1] + SumFunctionOnSet(f, To(n))
      <4>1. \A x \in To(n) \cup {n + 1} : f[x] \in Int
        BY <1>1, <2>1
      <4> HIDE DEF To
      <4> QED BY <1>2, <3>1, <4>1, SumAdd
    <3>3. QueuedTo(n + 1) = f[n + 1] + QueuedTo(n)
      BY <3>1, <3>2 DEF QueuedTo, f
    <3>4. f[n + 1] = Len(rounds[n + 1].queue) /\ f[n + 1] \in Nat
      BY <1>1, <2>1
    <3> HIDE DEF To
    <3> QED BY <1>4, <2>1, <3>3, <3>4
  <2>2. CASE n + 1 \notin DOMAIN rounds
    <3>1. To(n + 1) = To(n)
      BY <1>1, <2>2
    <3>2. QueuedTo(n + 1) = QueuedTo(n)
      BY <3>1 DEF QueuedTo
    <3> QED BY <1>4, <2>2, <3>2
  <2> QED BY <2>1, <2>2
<1>6. n >= Len(rounds) => QueuedTo(n) = QueuedTo(Len(rounds))
  <2>1. n >= Len(rounds) => To(n) = To(Len(rounds))
    BY <1>1
  <2> QED BY <2>1 DEF QueuedTo
<1>7. ASSUME \A r \in DOMAIN rounds : r <= n => rounds[r].queue = <<>>
      PROVE  QueuedTo(n) = 0
  <2>1. \A x \in To(n) : f[x] = IF x \in {} THEN 1 ELSE 0
    BY <1>1, <1>7
  <2>2. SumFunctionOnSet(f, To(n)) = Cardinality({})
    <3>1. {} \in SUBSET To(n)
      OBVIOUS
    <3> HIDE DEF To
    <3> QED BY <1>2, <2>1, <3>1, SumCount
  <2> QED BY <2>2, FS_EmptySet DEF QueuedTo, f
<1> QED BY <1>4, <1>5, <1>6, <1>7

\* No queue changes.
SameQueues ==
  /\ Len(rounds') = Len(rounds)
  /\ \A r \in 1..Len(rounds) : rounds'[r].queue = rounds[r].queue

\* Then neither do the sums, nor what the other searches know.
LEMMA SameQueued ==
  ASSUME SchedulerTypeOK, SchedulerTypeOK', NEW t \in Searches, OthersStay(t), SameQueues
  PROVE  /\ \A n : QueuedTo(n)' = QueuedTo(n)
         /\ (QueuedTo(Len(rounds)))' = QueuedTo(Len(rounds))
         /\ \A s \in Searches : s # t /\ (Active(s) \/ Seen(s) \/ Walks(s))
                                  => Active(s)' \/ Seen(s)' \/ Walks(s)'
<1>1. DOMAIN rounds = 1..Len(rounds) /\ DOMAIN rounds' = 1..Len(rounds)
  BY RoundFields DEF SchedulerTypeOK, SameQueues
<1>2. QueueLengths' = QueueLengths
  BY <1>1 DEF QueueLengths, SameQueues
<1>3. \A n : QueuedTo(n)' = QueuedTo(n)
  BY <1>1, <1>2 DEF QueuedTo
<1>5. (QueuedTo(Len(rounds)))' = QueuedTo(Len(rounds))
  BY <1>1, <1>2 DEF QueuedTo, SameQueues
<1>4. ASSUME NEW s \in Searches, s # t, Active(s) \/ Seen(s) \/ Walks(s)
      PROVE  Active(s)' \/ Seen(s)' \/ Walks(s)'
  <2>1. pc'[s] = pc[s] /\ round'[s] = round[s] /\ remaining'[s] = remaining[s]
    BY <1>4 DEF OthersStay
  <2>2. Active(s) => Active(s)'
    BY <2>1 DEF Active
  <2>3. Seen(s) => Seen(s)'
    <3>1. (QueuedTo(round[s]))' = QueuedTo(round[s])
      BY <1>1, <1>2, <2>1 DEF QueuedTo
    <3> QED BY <2>1, <3>1 DEF Seen
  <2>4. Walks(s) => Walks(s)'
    BY <1>1, <2>1 DEF Walks, SameQueues
  <2> QED BY <1>4, <2>2, <2>3, <2>4
<1> QED BY <1>3, <1>4, <1>5

\* A counter can only be below the length of its queue while a pair is being counted.
LEMMA CounterCoversQueue ==
  ASSUME SchedulerTypeOK, CountersExact, \A s \in Searches : ~Counting(s), NEW r \in Nat
  PROVE  /\ RemainingBlocks(r) \in Int
         /\ RemainingBlocks(r) >= (IF r \in DOMAIN rounds THEN Len(rounds[r].queue) ELSE 0)
<1>1. CASE r \in DOMAIN rounds
  <2>1. /\ r \in 1..Len(rounds) /\ Len(rounds[r].queue) \in Nat
        /\ RemainingBlocks(r) = rounds[r].remaining
    BY <1>1, RoundFields DEF SchedulerTypeOK, RemainingBlocks
  <2>2. CountingTo(r) = {}
    BY DEF CountingTo
  <2>3. Cardinality(CountingTo(r)) = 0 /\ Cardinality(WorkingAt(r)) \in Nat
    BY <2>2, SearchSets, FS_EmptySet
  <2>4. rounds[r].remaining = Len(rounds[r].queue) + Cardinality(WorkingAt(r)) - Cardinality(CountingTo(r))
    BY <2>1 DEF CountersExact
  <2>5. rounds[r].remaining \in Int /\ rounds[r].remaining >= Len(rounds[r].queue)
    BY <2>1, <2>3, <2>4
  <2> QED BY <1>1, <2>1, <2>5
<1>2. CASE r \notin DOMAIN rounds
  BY <1>2 DEF RemainingBlocks
<1> QED BY <1>1, <1>2

\* A search that is not needed any more changes its place.
LEMMA BystanderWatched ==
  ASSUME SchedulerTypeOK, SchedulerTypeOK', NEW t \in Searches, OthersStay(t), SameQueues,
         RecordStop, Watched, Active(t) \/ Seen(t) \/ Walks(t) => Watched'
  PROVE  Watched'
<1>1. CASE stopped
  BY <1>1 DEF Watched, RecordStop
<1>2. CASE QueuedTo(Len(rounds)) < NumSearches
  <2>1. (QueuedTo(Len(rounds)))' = QueuedTo(Len(rounds))
    BY SameQueued
  <2> QED BY <1>2, <2>1 DEF Watched
<1>3. ASSUME NEW s \in Searches, s # t, Active(s) \/ Seen(s) \/ Walks(s) PROVE Watched'
  BY <1>3, SameQueued DEF Watched
<1>4. CASE Active(t) \/ Seen(t) \/ Walks(t)
  BY <1>4 DEF Watched
<1> QED BY <1>1, <1>2, <1>3, <1>4 DEF Watched

\* A search begins to add up the counters, or adds the next one.
LEMMA SumWatched ==
  ASSUME RoundInv, RoundInv', NEW t \in Searches, OthersStay(t), RecordStop, Watched,
         BeginSum(t) \/ AddRemaining(t)
  PROVE  Watched'
<1> USE DEF At, Goto
<1>0. /\ SchedulerTypeOK /\ SchedulerTypeOK' /\ CountersExact /\ RoundsClosed
      /\ rounds' = rounds /\ first_active' = first_active
      /\ rounds \in Seq(RoundType) /\ first_active \in Nat \ {0}
      /\ Len(rounds) \in Nat /\ DOMAIN rounds = 1..Len(rounds)
  <2>1. rounds' = rounds /\ first_active' = first_active
    BY DEF BeginSum, AddRemaining, schedulerVars
  <2>2. SchedulerTypeOK /\ SchedulerTypeOK' /\ CountersExact /\ RoundsClosed
    BY DEF RoundInv
  <2> QED BY <2>1, <2>2, RoundFields DEF SchedulerTypeOK
<1>1. SameQueues
  BY <1>0 DEF SameQueues
<1>2. CASE \E s \in Searches : s # t /\ Active(s)
  <2>1. PICK s \in Searches : s # t /\ Active(s)
    BY <1>2
  <2>2. Active(s)'
    BY <2>1 DEF Active, OthersStay
  <2> QED BY <2>2 DEF Watched
<1>3. CASE \A s \in Searches : s # t => ~Active(s)
  <2>1. \A s \in Searches : ~Counting(s)
    <3>1. ~Counting(t)
      BY DEF BeginSum, AddRemaining, Counting
    <3>2. \A s \in Searches : Counting(s) => Active(s)
      BY DEF Counting, Active
    <3> QED BY <1>3, <3>1, <3>2
  <2>2. \A r \in Nat : /\ RemainingBlocks(r) \in Int
                       /\ RemainingBlocks(r) >= (IF r \in DOMAIN rounds THEN Len(rounds[r].queue) ELSE 0)
    BY <1>0, <2>1, CounterCoversQueue
  <2>3. pc'[t] = "sum" /\ round[t] \in Nat /\ remaining[t] \in Int
    BY <1>0 DEF BeginSum, AddRemaining, SchedulerTypeOK
  <2>4. CASE BeginSum(t)
    <3>1. round'[t] = first_active /\ remaining'[t] = RemainingBlocks(first_active)
      BY <1>0, <2>4 DEF BeginSum, SchedulerTypeOK
    <3>2. QueuedTo(first_active - 1) = 0
      <4>1. first_active - 1 \in Nat /\ \A r \in DOMAIN rounds : r <= first_active - 1 => r < first_active
        BY <1>0
      <4>2. \A r \in DOMAIN rounds : r <= first_active - 1 => rounds[r].queue = <<>>
        BY <1>0, <4>1 DEF RoundsClosed
      <4> QED BY <1>0, <4>1, <4>2, QueuedToNext
    <3>3. QueuedTo(first_active) = IF first_active \in DOMAIN rounds THEN Len(rounds[first_active].queue) ELSE 0
      <4> DEFINE n == first_active - 1
      <4>1. n \in Nat /\ n + 1 = first_active
        BY <1>0
      <4>2. QueuedTo(n + 1) = QueuedTo(n) + (IF n + 1 \in DOMAIN rounds THEN Len(rounds[n + 1].queue) ELSE 0)
        <5> HIDE DEF n
        <5> QED BY <1>0, <4>1, QueuedToNext
      <4>3. \A r \in DOMAIN rounds : Len(rounds[r].queue) \in Nat
        BY <1>0, RoundFields
      <4> QED BY <3>2, <4>1, <4>2, <4>3
    <3>4. remaining'[t] >= QueuedTo(first_active)
      BY <1>0, <2>2, <3>1, <3>3
    <3>5. (QueuedTo(round[t]))' = QueuedTo(first_active)
      BY <1>0, <3>1 DEF QueuedTo, QueueLengths
    <3>6. Seen(t)'
      BY <2>3, <3>4, <3>5 DEF Seen
    <3> QED BY <3>6 DEF Watched
  <2>5. CASE AddRemaining(t)
    <3>1. /\ round'[t] = round[t] + 1 /\ remaining'[t] = remaining[t] + RemainingBlocks(round[t] + 1)
          /\ pc[t] = "sum"
      BY <1>0, <2>5 DEF AddRemaining, SchedulerTypeOK
    <3>2. ASSUME Seen(t) PROVE Seen(t)'
      <4>1. remaining[t] >= QueuedTo(round[t])
        BY <3>2 DEF Seen
      <4>2. /\ QueuedTo(round[t]) \in Nat
            /\ QueuedTo(round[t] + 1) = QueuedTo(round[t])
                 + (IF round[t] + 1 \in DOMAIN rounds THEN Len(rounds[round[t] + 1].queue) ELSE 0)
        BY <1>0, <2>3, QueuedToNext
      <4>3. (QueuedTo(round[t]))' = QueuedTo(round[t] + 1)
        BY <1>0, <3>1 DEF QueuedTo, QueueLengths
      <4> DEFINE len == IF round[t] + 1 \in DOMAIN rounds THEN Len(rounds[round[t] + 1].queue) ELSE 0
      <4>4. len \in Int
        BY <1>0, RoundFields
      <4>5. round[t] + 1 \in Nat /\ RemainingBlocks(round[t] + 1) \in Int /\ RemainingBlocks(round[t] + 1) >= len
        BY <2>2, <2>3
      <4>6. QueuedTo(round[t] + 1) = QueuedTo(round[t]) + len
        BY <4>2
      <4> HIDE DEF len
      <4>7. remaining'[t] >= QueuedTo(round[t] + 1)
        BY <2>3, <3>1, <4>1, <4>2, <4>4, <4>5, <4>6
      <4> QED BY <2>3, <4>3, <4>7 DEF Seen
    <3>3. ~Active(t) /\ ~Walks(t)
      BY <3>1 DEF Active, Walks
    <3>4. Seen(t)' => Watched'
      BY DEF Watched
    <3> QED BY <1>0, <1>1, <3>2, <3>3, <3>4, BystanderWatched
  <2> QED BY <2>4, <2>5
<1> QED BY <1>2, <1>3

\* A search gives up because few pairs remain, or begins to look for one.
LEMMA CheckWatched ==
  ASSUME RoundInv, RoundInv', NEW t \in Searches, OthersStay(t), RecordStop, Watched,
         CheckRemaining(t)
  PROVE  Watched'
<1> USE DEF At, Goto
<1>0. /\ SchedulerTypeOK /\ SchedulerTypeOK' /\ RoundsClosed
      /\ rounds' = rounds /\ first_active' = first_active
      /\ rounds \in Seq(RoundType) /\ first_active \in Nat \ {0}
      /\ Len(rounds) \in Nat /\ DOMAIN rounds = 1..Len(rounds)
      /\ pc[t] = "sum" /\ round[t] \in Nat /\ remaining[t] \in Int /\ round[t] >= Len(rounds)
  <2>1. rounds' = rounds /\ first_active' = first_active /\ pc[t] = "sum" /\ LastRoundRead(t)
    BY DEF CheckRemaining, schedulerVars
  <2>2. SchedulerTypeOK /\ SchedulerTypeOK' /\ RoundsClosed
    BY DEF RoundInv
  <2> QED BY <2>1, <2>2, RoundFields DEF SchedulerTypeOK, LastRoundRead
<1>1. SameQueues
  BY <1>0 DEF SameQueues
<1>2. ASSUME Seen(t) PROVE Watched'
  <2>1. QueuedTo(round[t]) = QueuedTo(Len(rounds)) /\ QueuedTo(round[t]) \in Nat
    BY <1>0, QueuedToNext
  <2>2. remaining[t] >= QueuedTo(Len(rounds))
    BY <1>2, <2>1 DEF Seen
  <2>3. CASE round' = [round EXCEPT ![t] = first_active] /\ Goto(t, "pop")
    <3>1. round'[t] = first_active /\ pc'[t] = "pop"
      BY <1>0, <2>3 DEF SchedulerTypeOK
    <3>2. Walks(t)'
      BY <1>0, <3>1 DEF Walks, RoundsClosed
    <3> QED BY <3>2 DEF Watched
  <2>4. CASE remaining[t] \in 0..t
    <3>1. t \in Int /\ t < NumSearches /\ NumSearches \in Nat
      BY SchedulerAssumption DEF Searches
    <3>2. QueuedTo(Len(rounds)) < NumSearches
      BY <1>0, <2>1, <2>2, <2>4, <3>1
    <3>3. (QueuedTo(Len(rounds)))' = QueuedTo(Len(rounds))
      BY <1>0, <1>1, SameQueued
    <3> QED BY <3>2, <3>3 DEF Watched
  <2> QED BY <2>3, <2>4 DEF CheckRemaining
<1>3. ~Active(t) /\ ~Walks(t)
  BY <1>0 DEF Active, Walks
<1> QED BY <1>0, <1>1, <1>2, <1>3, BystanderWatched

\* A search finds an empty queue, or no queue at all.
LEMMA PopWatched ==
  ASSUME RoundInv, RoundInv', NEW t \in Searches, OthersStay(t), RecordStop, Watched,
         terminate => stopped,
         \/ PopPair(t) /\ UNCHANGED <<rounds, pc>> /\ round'[t] = round[t] + 1 /\ rounds[round[t]].queue = <<>>
         \/ PopFails(t)
  PROVE  Watched'
<1> USE DEF At, Goto
<1>0. /\ SchedulerTypeOK /\ SchedulerTypeOK'
      /\ rounds' = rounds /\ terminate' = terminate
      /\ rounds \in Seq(RoundType)
      /\ Len(rounds) \in Nat /\ DOMAIN rounds = 1..Len(rounds)
      /\ pc[t] = "pop" /\ round[t] \in Nat \ {0}
  <2>1. rounds' = rounds /\ terminate' = terminate /\ pc[t] = "pop"
    BY DEF PopPair, PopFails, schedulerVars
  <2>2. SchedulerTypeOK /\ SchedulerTypeOK'
    BY DEF RoundInv
  <2> QED BY <2>1, <2>2, RoundFields DEF SchedulerTypeOK
<1>1. SameQueues
  BY <1>0 DEF SameQueues
<1>2. ASSUME Walks(t) PROVE Watched'
  <2>1. CASE PopPair(t) /\ UNCHANGED <<rounds, pc>> /\ round'[t] = round[t] + 1 /\ rounds[round[t]].queue = <<>>
    <3>1. Walks(t)'
      BY <1>0, <1>2, <2>1 DEF Walks
    <3> QED BY <3>1 DEF Watched
  <2>2. CASE PopFails(t) /\ terminate
    BY <1>0, <2>2 DEF RecordStop, Watched
  <2>3. CASE PopFails(t) /\ ~terminate
    <3>1. round[t] > Len(rounds)
      BY <1>0, <2>3 DEF PopFails
    <3>2. \A r \in DOMAIN rounds : r <= Len(rounds) => rounds[r].queue = <<>>
      BY <1>0, <1>2, <3>1 DEF Walks
    <3>3. QueuedTo(Len(rounds)) = 0
      BY <1>0, <3>2, QueuedToNext
    <3>4. (QueuedTo(Len(rounds)))' = QueuedTo(Len(rounds))
      BY <1>0, <1>1, SameQueued
    <3>5. 0 < NumSearches
      BY SchedulerAssumption
    <3> QED BY <3>3, <3>4, <3>5 DEF Watched
  <2> QED BY <2>1, <2>2, <2>3
<1>3. ~Active(t) /\ ~Seen(t)
  BY <1>0 DEF Active, Seen
<1> QED BY <1>0, <1>1, <1>2, <1>3, BystanderWatched

\* The owner of a pair is known.
LEMMA OwnersStep ==
  ASSUME SchedulerTypeOK, NEW t \in Searches, OthersStay(t), OwnersKnown, SearchStep(t)
  PROVE  OwnersKnown'
<1> USE DEF At, Goto
<1>1. CASE owned' = owned /\ pc[t] # "construct"
  <2>1. ASSUME NEW p \in owned' PROVE \E s \in Searches : pc'[s] = "construct" /\ pair'[s] = p
    <3>1. PICK s \in Searches : pc[s] = "construct" /\ pair[s] = p
      BY <1>1, <2>1 DEF OwnersKnown
    <3>2. s # t
      BY <1>1, <3>1
    <3> QED BY <3>1, <3>2 DEF OthersStay
  <2> QED BY <2>1 DEF OwnersKnown
<1>2. CASE Acquire(t)
  <2>1. CASE pair[t] \in owned
    BY <1>1, <1>2, <2>1 DEF Acquire
  <2>2. CASE pair[t] \notin owned
    <3>1. /\ owned' = owned \union {pair[t]} /\ pc'[t] = "construct" /\ pc[t] = "acquire" /\ pair'[t] = pair[t]
      BY <1>2, <2>2 DEF Acquire, SchedulerTypeOK, positionVars
    <3>2. ASSUME NEW p \in owned PROVE \E s \in Searches : pc'[s] = "construct" /\ pair'[s] = p
      <4>1. PICK s \in Searches : pc[s] = "construct" /\ pair[s] = p
        BY <3>2 DEF OwnersKnown
      <4>2. s # t
        BY <3>1, <4>1
      <4> QED BY <4>1, <4>2 DEF OthersStay
    <3> QED BY <3>1, <3>2 DEF OwnersKnown
  <2> QED BY <2>1, <2>2
<1>3. CASE Construct(t)
  <2>1. owned' = owned \ {pair[t]}
    BY <1>3 DEF Construct
  <2>2. ASSUME NEW p \in owned' PROVE \E s \in Searches : pc'[s] = "construct" /\ pair'[s] = p
    <3>1. PICK s \in Searches : pc[s] = "construct" /\ pair[s] = p
      BY <2>1, <2>2 DEF OwnersKnown
    <3>2. s # t
      BY <2>1, <2>2, <3>1
    <3> QED BY <3>1, <3>2 DEF OthersStay
  <2> QED BY <2>2 DEF OwnersKnown
<1>4. CASE BeginSum(t) \/ AddRemaining(t) \/ CheckRemaining(t) \/ PopPair(t) \/ PopFails(t)
  <2>1. owned' = owned /\ pc[t] # "construct"
    BY <1>4 DEF BeginSum, AddRemaining, CheckRemaining, PopPair, PopFails, schedulerVars
  <2> QED BY <1>1, <2>1
<1>5. CASE MarkPopped(t) \/ Count(t) \/ Decrement(t) \/ CheckRound(t) \/ FinishRounds(t)
  <2>1. owned' = owned /\ pc[t] # "construct"
    BY <1>5 DEF MarkPopped, Count, Decrement, CheckRound, FinishRounds, schedulerVars
  <2> QED BY <1>1, <2>1
<1>6. CASE Schedule(t) \/ ScheduleAgain(t)
  <2>1. owned' = owned /\ pc[t] # "construct"
    BY <1>6 DEF Schedule, ScheduleAgain
  <2> QED BY <1>1, <2>1
<1>7. CASE ExtractMoves(t) \/ BeginApply(t) \/ ApplyMove(t) \/ RevertMove(t) \/ AddNewCutHyperedge(t) \/ ReportSearch(t)
  <2>1. owned' = owned /\ pc[t] # "construct"
    BY <1>7 DEF ExtractMoves, BeginApply, ApplyMove, RevertMove, AddNewCutHyperedge, ReportSearch, Report, schedulerVars
  <2> QED BY <1>1, <2>1
<1> QED BY <1>2, <1>3, <1>4, <1>5, <1>6, <1>7 DEF SearchStep, SchedulerStep

\* A search that has lost its pair leaves.
LEMMA LeaveWatched ==
  ASSUME SchedulerTypeOK, SchedulerTypeOK', NEW t \in Searches, OthersStay(t), RecordStop, Watched,
         SameQueues, pc[t] \in {"lost", "finish_lost", "close_lost"}
  PROVE  Watched'
<1>1. ~Active(t) /\ ~Seen(t) /\ ~Walks(t)
  BY DEF Active, Seen, Walks
<1> QED BY <1>1, BystanderWatched

\* Every step keeps the queues watched.
LEMMA WatchedStep ==
  ASSUME RoundInv, RoundInv', OwnersKnown, terminate => stopped, Watched,
         NEW t \in Searches, OthersStay(t), SearchStep(t)
  PROVE  Watched'
<1> USE DEF At, Goto
<1>0. SchedulerTypeOK /\ SchedulerTypeOK' /\ PlacesOK /\ RecordStop
  BY DEF RoundInv, SearchStep
<1>1. CASE pc'[t] \notin {"sum", "pop", "lost", "finish_lost", "close_lost", "done"}
  BY <1>1 DEF Watched, Active
<1>2. CASE BeginSum(t) \/ AddRemaining(t)
  BY <1>0, <1>2, SumWatched
<1>3. CASE CheckRemaining(t)
  BY <1>0, <1>3, CheckWatched
<1>4. CASE PopFails(t)
  BY <1>0, <1>4, PopWatched
<1>5. CASE PopPair(t)
  <2>1. CASE Pops(t)
    BY <1>1, <2>1 DEF Pops
  <2>2. CASE UNCHANGED <<rounds, pc>> /\ round'[t] = round[t] + 1 /\ rounds[round[t]].queue = <<>>
    BY <1>0, <1>5, <2>2, PopWatched
  <2> QED BY <1>0, <1>5, <2>1, <2>2, PopEffect
<1>6. CASE Acquire(t)
  <2>1. CASE pair[t] \in owned
    <3>1. PICK s \in Searches : pc[s] = "construct" /\ pair[s] = pair[t]
      BY <2>1 DEF OwnersKnown
    <3>2. s # t
      BY <1>6, <3>1 DEF Acquire
    <3>3. Active(s)'
      BY <3>1, <3>2 DEF OthersStay, Active
    <3> QED BY <3>3 DEF Watched
  <2>2. CASE pair[t] \notin owned
    <3>1. pc'[t] = "construct"
      BY <1>0, <1>6, <2>2 DEF Acquire, SchedulerTypeOK
    <3> QED BY <1>1, <3>1
  <2> QED BY <2>1, <2>2
<1>7. CASE Decrement(t)
  <2>1. CASE pc[t] = "lost"
    <3>1. Finishes(t)
      BY <1>0, <1>7, <2>1, CounterEffect DEF Counts, Counting
    <3>2. SameQueues
      BY <3>1 DEF Finishes, SameQueues, SameRound
    <3> QED BY <1>0, <2>1, <3>2, LeaveWatched
  <2>2. CASE pc[t] = "decrement"
    <3>1. pc'[t] = "finish"
      BY <1>0, <1>7, <2>2 DEF Decrement, SchedulerTypeOK
    <3> QED BY <1>1, <3>1
  <2> QED BY <1>7, <2>1, <2>2 DEF Decrement
<1>8. CASE CheckRound(t)
  <2>0. SameQueues
    BY <1>8 DEF CheckRound, SameQueues, schedulerVars
  <2>1. CASE pc[t] = "finish_lost"
    BY <1>0, <2>0, <2>1, LeaveWatched
  <2>2. CASE pc[t] = "finish"
    <3>1. pc'[t] = "close" \/ pc'[t] = "loop"
      BY <1>0, <1>8, <2>2 DEF CheckRound, ReturnFromFinalize, SchedulerTypeOK
    <3> QED BY <1>1, <3>1
  <2> QED BY <1>8, <2>1, <2>2 DEF CheckRound
<1>9. CASE FinishRounds(t)
  <2>0. Closes(t)
    BY <1>0, <1>9, CloseEffect
  <2>1. CASE pc[t] = "close_lost"
    <3>1. SameQueues
      BY <2>0 DEF Closes, SameQueues, SameRound
    <3> QED BY <1>0, <2>1, <3>1, LeaveWatched
  <2>2. CASE pc'[t] = "loop"
    BY <1>1, <2>2
  <2> QED BY <2>0, <2>1, <2>2 DEF Closes
<1>10. CASE MarkPopped(t) \/ Count(t)
  <2>1. pc'[t] \in {"acquire", "schedule", "decrement"}
    BY <1>0, <1>10 DEF MarkPopped, Count, SchedulerTypeOK
  <2> QED BY <1>1, <2>1
<1>11. CASE Schedule(t) \/ ScheduleAgain(t)
  <2>1. pc'[t] \in {"schedule", "count", "count_again", "decrement"}
    BY <1>0, <1>11 DEF Schedule, ScheduleAgain, Push, SchedulerTypeOK
  <2> QED BY <1>1, <2>1
<1>12. CASE Construct(t) \/ ExtractMoves(t) \/ BeginApply(t) \/ AddNewCutHyperedge(t)
  <2>1. Goto(t, "flow") \/ Goto(t, "report") \/ Goto(t, "apply") \/ Goto(t, "move") \/ Goto(t, "add_cut")
    BY <1>12 DEF Construct, ExtractMoves, BeginApply, AddNewCutHyperedge
  <2>2. pc'[t] \in {"flow", "report", "apply", "move", "add_cut"}
    BY <1>0, <2>1 DEF SchedulerTypeOK
  <2> QED BY <1>1, <2>2
<1>13. CASE ReportSearch(t)
  <2>1. pc'[t] = "schedule"
    BY <1>0, <1>13 DEF ReportSearch, Report, SchedulerTypeOK
  <2> QED BY <1>1, <2>1
<1>14. CASE RevertMove(t)
  <2>1. Goto(t, "report") \/ Goto(t, "revert")
    BY <1>14 DEF RevertMove
  <2>2. pc'[t] \in {"report", "revert"}
    BY <1>0, <2>1 DEF SchedulerTypeOK
  <2> QED BY <1>1, <2>2
<1>15. CASE ApplyMove(t)
  <2>1. \/ pc' = pc /\ pc[t] = "move"
        \/ Goto(t, "report") \/ Goto(t, "revert") \/ Goto(t, "add_cut")
    BY <1>15 DEF ApplyMove, EndApply
  <2>2. pc'[t] \in {"report", "revert", "add_cut", "move"}
    BY <1>0, <2>1 DEF SchedulerTypeOK
  <2> QED BY <1>1, <2>2
<1> QED BY <1>2, <1>3, <1>4, <1>5, <1>6, <1>7, <1>8, <1>9, <1>10, <1>11, <1>12, <1>13, <1>14, <1>15
        DEF SearchStep, SchedulerStep

\* Every step keeps the invariant about what is left over.
LEMMA LeftInvStep == LeftInv /\ [Next]_vars => LeftInv'
<1> SUFFICES ASSUME LeftInv, [Next]_vars PROVE LeftInv'
  OBVIOUS
<1>0. RoundInv /\ RoundInv' /\ OwnersKnown /\ Watched /\ (terminate => stopped)
  BY RoundInvStep DEF LeftInv
<1>1. ASSUME NEW t \in Searches, SearchStep(t) PROVE LeftInv'
  <2>1. SchedulerTypeOK /\ PlacesOK /\ FlowTypeOK
    BY <1>0 DEF RoundInv
  <2>2. OthersStay(t)
    BY <1>1, <2>1, StepEffect
  <2>3. (terminate => stopped)'
    BY <1>1 DEF SearchStep, RecordStop
  <2>4. OwnersKnown'
    BY <1>0, <1>1, <2>1, <2>2, OwnersStep
  <2>5. Watched'
    BY <1>0, <1>1, <2>2, WatchedStep
  <2> QED BY <1>0, <2>3, <2>4, <2>5 DEF LeftInv
<1>2. ASSUME UNCHANGED vars PROVE LeftInv'
  <2>1. UNCHANGED <<rounds, owned, terminate, stopped, pc, pair, round, remaining>>
    BY <1>2 DEF vars, schedulerVars, positionVars
  <2>2. OwnersKnown' /\ (terminate => stopped)'
    BY <1>0, <2>1 DEF OwnersKnown
  <2>3. Watched'
    BY <1>0, <2>1 DEF Watched, Active, Seen, Walks, QueuedTo, QueueLengths
  <2> QED BY <1>0, <2>2, <2>3 DEF LeftInv
<1> QED BY <1>1, <1>2 DEF Next, Finished

\* What the invariant says when all searches have ended.
LEMMA LeftInvImplies == LeftInv => LeftOverBounded
<1> SUFFICES ASSUME LeftInv, \A t \in Searches : At(t, "done"), ~stopped
             PROVE  MapThenSumSet(LAMBDA r : Len(rounds[r].queue), DOMAIN rounds) < NumSearches
  BY DEF LeftOverBounded
<1>1. \A s \in Searches : ~Active(s) /\ ~Seen(s) /\ ~Walks(s)
  BY DEF At, Active, Seen, Walks
<1>2. QueuedTo(Len(rounds)) < NumSearches
  BY <1>1 DEF LeftInv, Watched
<1>3. DOMAIN rounds = 1..Len(rounds) /\ Len(rounds) \in Nat
  BY RoundFields DEF LeftInv, RoundInv, SchedulerTypeOK
<1>4. {r \in DOMAIN rounds : r <= Len(rounds)} = DOMAIN rounds
  BY <1>3
<1>5. QueuedTo(Len(rounds)) = SumFunctionOnSet(QueueLengths, DOMAIN rounds)
  BY <1>4 DEF QueuedTo
<1>6. SumFunctionOnSet(QueueLengths, DOMAIN rounds) = MapThenSumSet(LAMBDA r : Len(rounds[r].queue), DOMAIN rounds)
  BY DEF QueueLengths, MapThenSumSet, SumFunctionOnSet, FoldFunctionOnSet, MapThenFoldSet
<1> QED BY <1>2, <1>5, <1>6

\* When all searches have ended and no early termination was ever decided on, fewer pairs
\* than searches are left in the queues, for every number of searches: a search that gives
\* up has seen few pairs while no search could still push one, or leaves others behind that
\* look at all queues again.
THEOREM FewPairsAreLeftOver == Spec => []LeftOverBounded
<1>1. Init => LeftInv
  <2> SUFFICES ASSUME Init PROVE LeftInv
    OBVIOUS
  <2>1. RoundInv
    BY InitRounds
  <2>2. terminate = FALSE /\ owned = {} /\ \A t \in Searches : pc[t] = "loop"
    BY DEF Init
  <2>3. 0 \in Searches
    BY SchedulerAssumption DEF Searches
  <2>4. Watched
    BY <2>2, <2>3 DEF Watched, Active
  <2> QED BY <2>1, <2>2, <2>4 DEF LeftInv, OwnersKnown
<1>2. LeftInv /\ [Next]_vars => LeftInv'
  BY LeftInvStep
<1>3. LeftInv => LeftOverBounded
  BY LeftInvImplies
<1> QED BY <1>1, <1>2, <1>3, PTL DEF Spec
=============================================================================
