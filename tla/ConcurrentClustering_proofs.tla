-------------------- MODULE ConcurrentClustering_proofs ---------------------
(***************************************************************************)
(* Proofs about the clustering pass for every set of nodes, every choice   *)
(* of weights and neighbors and every number of threads.                   *)
(***************************************************************************)
EXTENDS ConcurrentClusteringInv, SumTheorems, TLAPS

-----------------------------------------------------------------------------
(* Typing *)

\* The pass begins with well-typed state.
LEMMA TypeInit == Init => TypeOK
BY WeightAssumption DEF Init, TypeOK, States, Origins, Steps, Outside, Joining, Waiting

LocalTypes ==
  /\ pc \in [Nodes -> Steps]
  /\ target \in [Nodes -> Nodes]
  /\ rep \in [Nodes -> Nodes]
  /\ origin \in [Nodes -> Origins]
  /\ success \in [Nodes -> BOOLEAN]
  /\ cur_u \in [Nodes -> Nodes]
  /\ smallest \in [Nodes -> Nodes]

\* Entering joinCluster keeps the types of the local variables.
LEMMA CallJoinType ==
  ASSUME TypeOK, NEW u \in Nodes, NEW v \in Nodes, NEW site \in Origins,
         CallJoin(u, v, site)
  PROVE  LocalTypes'
<1>1. "join_check" \in Steps
  BY DEF Steps, Joining
<1> QED
  BY <1>1 DEF TypeOK, LocalTypes, CallJoin, Goto

\* So does following a partner that is matched already,
LEMMA FollowVType ==
  ASSUME TypeOK, NEW u \in Nodes, NEW site \in Origins, FollowV(u, site)
  PROVE  LocalTypes'
<1>1. "read_rep" \in Steps
  BY DEF Steps
<1> QED
  BY <1>1 DEF TypeOK, LocalTypes, FollowV, Goto

\* and the beginning of a search for a cyclic dependency.
LEMMA StartWalkType ==
  ASSUME TypeOK, NEW u \in Nodes, StartWalk(u)
  PROVE  LocalTypes' /\ visited' \in [Nodes -> SUBSET Nodes]
<1>1. "walk" \in Steps
  BY DEF Steps, Waiting
<1>2. LocalTypes'
  BY <1>1 DEF TypeOK, LocalTypes, StartWalk, Goto
<1>3. visited' \in [Nodes -> SUBSET Nodes]
  BY DEF TypeOK, StartWalk
<1> QED
  BY <1>2, <1>3

\* Every step of an iteration preserves the type invariant.
LEMMA TypeStep ==
  ASSUME TypeOK, NEW u \in Nodes, Iterate(u)
  PROVE  TypeOK'
<1> USE DEF TypeOK, States, Origins, Steps, Outside, Joining, Waiting, Goto,
            shared, locals, aux
<1>1. CASE Rate(u)
  <2> PICK v \in RatingTargets(u) : target' = [target EXCEPT ![u] = v]
    BY <1>1 DEF Rate
  <2>1. PICK x \in Neighbors[u] : v = cluster_ids[x]
    BY DEF RatingTargets
  <2>2. v \in Nodes
    BY <2>1, NeighborAssumption
  <2> QED
    BY <1>1, <2>2 DEF Rate
<1>2. CASE Skip(u)
  BY <1>2 DEF Skip
<1>3. CASE CheckWeight(u)
  BY <1>3 DEF CheckWeight
<1>4. CASE AcquireU(u)
  BY <1>4 DEF AcquireU
<1>5. CASE PublishPartner(u)
  BY <1>5 DEF PublishPartner
<1>6. CASE InspectV(u)
  <2>1. CASE matching_state[target[u]] = "MATCHED"
    <3>1. FollowV(u, "matched") /\ UNCHANGED <<shared, joins, resolvers, visited>>
      BY <1>6, <2>1 DEF InspectV
    <3>2. overtaken' \subseteq Nodes
      BY <1>6, <2>1 DEF InspectV
    <3>3. LocalTypes'
      BY <3>1, FollowVType
    <3> QED
      BY <3>1, <3>2, <3>3 DEF LocalTypes
  <2>2. CASE matching_state[target[u]] = "UNMATCHED"
    <3>1. Goto(u, "acquire_v") /\ UNCHANGED <<shared, locals, aux>>
      BY <1>6, <2>2 DEF InspectV
    <3> QED
      BY <3>1
  <2>3. CASE matching_state[target[u]] = "MATCHING_IN_PROGRESS"
    <3>1. StartWalk(u) /\ UNCHANGED <<shared, joins, resolvers, overtaken>>
      BY <1>6, <2>3 DEF InspectV
    <3> QED
      BY <3>1, StartWalkType DEF LocalTypes
  <2> QED
    BY <2>1, <2>2, <2>3
<1>7. CASE AcquireV(u)
  <2>1. CASE matching_state[target[u]] = "UNMATCHED"
    <3>1. CallJoin(u, target[u], "acquired")
      BY <1>7, <2>1 DEF AcquireV
    <3>2. LocalTypes'
      BY <3>1, CallJoinType
    <3>3. matching_state' \in [Nodes -> States]
      BY <1>7, <2>1 DEF AcquireV
    <3> QED
      BY <1>7, <2>1, <3>2, <3>3 DEF AcquireV, LocalTypes
  <2>2. CASE matching_state[target[u]] # "UNMATCHED"
    <3>1. StartWalk(u)
      BY <1>7, <2>2 DEF AcquireV
    <3> QED
      BY <1>7, <2>2, <3>1, StartWalkType DEF AcquireV, LocalTypes
  <2> QED
    BY <2>1, <2>2
<1>8. CASE ReadRepresentative(u)
  BY <1>8 DEF ReadRepresentative
<1>9. CASE JoinCheck(u)
  <2>1. success' \in [Nodes -> BOOLEAN]
    BY <1>9 DEF JoinCheck
  <2>2. pc' \in [Nodes -> Steps]
    <3>1. \E step \in {"join_write", "release_v", "mark"} : Goto(u, step)
      BY <1>9 DEF JoinCheck, JoinReturns
    <3> QED
      BY <3>1
  <2> QED
    BY <1>9, <2>1, <2>2 DEF JoinCheck
<1>10. CASE JoinWrite(u)
  BY <1>10 DEF JoinWrite
<1>11. CASE JoinWeight(u)
  <2>1. success' \in [Nodes -> BOOLEAN]
    BY <1>11 DEF JoinWeight
  <2>2. pc' \in [Nodes -> Steps]
    BY <1>11 DEF JoinWeight, JoinReturns
  <2>3. cluster_weight' \in [Nodes -> Nat] /\ joins' \in [Nodes -> Nat]
    <3>1. rep[u] \in Nodes /\ cluster_weight[rep[u]] + NodeWeight[u] \in Nat
      BY WeightAssumption
    <3>2. joins[u] + 1 \in Nat
      OBVIOUS
    <3> QED
      BY <1>11, <3>1, <3>2 DEF JoinWeight
  <2> QED
    BY <1>11, <2>1, <2>2, <2>3 DEF JoinWeight
<1>12. CASE ReleaseV(u)
  BY <1>12 DEF ReleaseV
<1>13. CASE WalkPartners(u)
  <2> DEFINE next == matching_partner[cur_u[u]]
  <2>1. next \in Nodes /\ visited[u] \union {next} \in SUBSET Nodes
    OBVIOUS
  <2>2. (IF next < smallest[u] THEN next ELSE smallest[u]) \in Nodes
    BY <2>1, NodesAssumption
  <2>3. /\ cur_u' \in [Nodes -> Nodes] /\ smallest' \in [Nodes -> Nodes]
        /\ visited' \in [Nodes -> SUBSET Nodes]
    <3>1. CASE next # u /\ next # cur_u[u]
      <4>1. /\ cur_u' = [cur_u EXCEPT ![u] = next]
            /\ smallest' = [smallest EXCEPT ![u] =
                              IF next < smallest[u] THEN next ELSE smallest[u]]
            /\ visited' = [visited EXCEPT ![u] = visited[u] \union {next}]
        BY <1>13, <3>1 DEF WalkPartners
      <4> HIDE DEF next
      <4> QED
        BY <4>1, <2>1, <2>2
    <3>2. CASE ~(next # u /\ next # cur_u[u])
      BY <1>13, <3>2 DEF WalkPartners
    <3> QED
      BY <3>1, <3>2
  <2> QED
    BY <1>13, <2>3 DEF WalkPartners
<1>14. CASE ResolveCycle(u)
  <2>1. CASE CallJoin(u, target[u], "cycle") /\ resolvers' = resolvers \union {u}
    BY <1>14, <2>1 DEF ResolveCycle, CallJoin
  <2>2. CASE Goto(u, "wait") /\ UNCHANGED <<locals, resolvers>>
    BY <1>14, <2>2 DEF ResolveCycle
  <2> QED
    BY <1>14, <2>1, <2>2 DEF ResolveCycle
<1>15. CASE WaitForV(u)
  <2>1. CASE matching_state[target[u]] = "MATCHING_IN_PROGRESS"
    <3>1. StartWalk(u)
      BY <1>15, <2>1 DEF WaitForV
    <3> QED
      BY <1>15, <2>1, <3>1, StartWalkType DEF WaitForV, LocalTypes
  <2>2. CASE matching_state[target[u]] # "MATCHING_IN_PROGRESS"
    BY <1>15, <2>2 DEF WaitForV
  <2> QED
    BY <2>1, <2>2
<1>16. CASE JoinLate(u)
  BY <1>16 DEF JoinLate, FollowV
<1>17. CASE MarkAsMatched(u)
  BY <1>17 DEF MarkAsMatched
<1>18. CASE RetractPartner(u)
  BY <1>18 DEF RetractPartner
<1>19. CASE ReleaseU(u)
  BY <1>19 DEF ReleaseU
<1> QED
  BY <1>1, <1>2, <1>3, <1>4, <1>5, <1>6, <1>7, <1>8, <1>9, <1>10, <1>11, <1>12,
     <1>13, <1>14, <1>15, <1>16, <1>17, <1>18, <1>19 DEF Iterate

\* The variables of the pass keep their types.
THEOREM TypeCorrect == Spec => []TypeOK
<1>1. TypeOK /\ [Next]_vars => TypeOK'
  <2> SUFFICES ASSUME TypeOK, [Next]_vars PROVE TypeOK'
    OBVIOUS
  <2>1. CASE \E u \in Nodes : Iterate(u)
    BY <2>1, TypeStep
  <2>2. CASE UNCHANGED vars
    BY <2>2 DEF TypeOK, vars, shared, locals, aux
  <2> QED
    BY <2>1, <2>2 DEF Next, PassComplete
<1> QED
  BY TypeInit, <1>1, PTL DEF Spec

-----------------------------------------------------------------------------
(***************************************************************************)
(* What a step of the iteration of u does to each variable, pointwise.     *)
(***************************************************************************)

AfterJoin(u) == IF origin[u] \in {"acquired", "cycle"} THEN "release_v" ELSE "mark"

PcStep(u) ==
  /\ pc[u] # "done"
  /\ pc[u] = "idle" => pc'[u] \in {"check", "done"}
  /\ pc[u] = "check" => pc'[u] \in {"acquire_u", "done"}
  /\ pc[u] = "acquire_u" =>
       pc'[u] = IF matching_state[u] = "UNMATCHED" THEN "publish" ELSE "done"
  /\ pc[u] = "publish" => pc'[u] = "inspect"
  /\ pc[u] = "inspect" =>
       \/ matching_state[target[u]] = "MATCHED" /\ pc'[u] = "read_rep"
       \/ matching_state[target[u]] = "UNMATCHED" /\ pc'[u] = "acquire_v"
       \/ matching_state[target[u]] = "MATCHING_IN_PROGRESS" /\ pc'[u] = "walk"
  /\ pc[u] = "acquire_v" =>
       pc'[u] = IF matching_state[target[u]] = "UNMATCHED" THEN "join_check" ELSE "walk"
  /\ pc[u] = "read_rep" => pc'[u] = "join_check"
  /\ pc[u] = "join_check" => pc'[u] \in {"join_write", AfterJoin(u)}
  /\ pc[u] = "join_write" => pc'[u] = "join_weight"
  /\ pc[u] = "join_weight" => pc'[u] = AfterJoin(u)
  /\ pc[u] = "release_v" => pc'[u] = IF origin[u] = "cycle" THEN "wait" ELSE "mark"
  /\ pc[u] = "walk" => pc'[u] \in {"walk", "cycle"}
  /\ pc[u] = "cycle" =>
       pc'[u] = IF matching_partner[cur_u[u]] = u /\ smallest[u] = u
                THEN "join_check" ELSE "wait"
  /\ pc[u] = "wait" =>
       pc'[u] = IF matching_state[target[u]] = "MATCHING_IN_PROGRESS"
                THEN "walk" ELSE "late"
  /\ pc[u] = "late" =>
       pc'[u] = IF matching_state[u] = "MATCHING_IN_PROGRESS"
                THEN "read_rep" ELSE "mark"
  /\ pc[u] = "mark" => pc'[u] = "retract"
  /\ pc[u] = "retract" => pc'[u] = "release_u"
  /\ pc[u] = "release_u" => pc'[u] = "done"

\* The iterations of the other nodes do not move.
FrameStep(u) ==
  \A x \in Nodes \ {u} :
    /\ pc'[x] = pc[x] /\ target'[x] = target[x]
    /\ rep'[x] = rep[x] /\ origin'[x] = origin[x]
    /\ cur_u'[x] = cur_u[x] /\ smallest'[x] = smallest[x] /\ visited'[x] = visited[x]
    /\ matching_partner'[x] = matching_partner[x] /\ cluster_ids'[x] = cluster_ids[x]

Acquires(u, x) ==
  /\ matching_state[x] = "UNMATCHED"
  /\ \/ pc[u] = "acquire_u" /\ x = u
     \/ pc[u] = "acquire_v" /\ x = target[u]

Settles(u, x) ==
  \/ pc[u] = "release_v" /\ x = target[u]
  \/ pc[u] = "release_u" /\ x = u

StateStep(u) ==
  \A x \in Nodes :
    matching_state'[x] = IF Acquires(u, x) THEN "MATCHING_IN_PROGRESS"
                         ELSE IF Settles(u, x) THEN "MATCHED" ELSE matching_state[x]

OwnStep(u) ==
  /\ pc[u] # "idle" => target'[u] = target[u]
  /\ pc[u] = "idle" => target'[u] # u \/ (pc'[u] = "done" /\ target'[u] = target[u])
  /\ matching_partner'[u] = IF pc[u] = "publish" THEN target[u]
                            ELSE IF pc[u] = "retract" THEN u ELSE matching_partner[u]
  /\ cluster_ids'[u] = IF pc[u] = "join_write" THEN rep[u] ELSE cluster_ids[u]

JoinStep(u) ==
  /\ pc[u] \notin {"inspect", "acquire_v", "read_rep", "cycle", "late"} =>
       rep'[u] = rep[u] /\ origin'[u] = origin[u]
  /\ pc[u] = "acquire_v" /\ pc'[u] = "join_check" =>
       rep'[u] = target[u] /\ origin'[u] = "acquired"
  /\ pc[u] = "cycle" /\ pc'[u] = "join_check" =>
       rep'[u] = target[u] /\ origin'[u] = "cycle"
  /\ pc[u] = "read_rep" => rep'[u] = cluster_ids[target[u]] /\ origin'[u] = origin[u]
  /\ pc[u] = "inspect" /\ pc'[u] = "read_rep" => origin'[u] = "matched"
  /\ pc[u] = "late" /\ pc'[u] = "read_rep" => origin'[u] = "late"

WalkStep(u) ==
  /\ pc[u] # "walk" /\ pc'[u] # "walk" =>
       cur_u'[u] = cur_u[u] /\ smallest'[u] = smallest[u] /\ visited'[u] = visited[u]
  /\ pc[u] # "walk" /\ pc'[u] = "walk" =>
       cur_u'[u] = u /\ smallest'[u] = u /\ visited'[u] = {u}
  /\ pc[u] = "walk" /\ pc'[u] = "walk" =>
       /\ cur_u'[u] = matching_partner[cur_u[u]]
       /\ matching_partner[cur_u[u]] # cur_u[u]
       /\ visited'[u] = visited[u] \union {matching_partner[cur_u[u]]}
       /\ smallest'[u] = IF matching_partner[cur_u[u]] < smallest[u]
                         THEN matching_partner[cur_u[u]] ELSE smallest[u]
  /\ pc[u] = "walk" /\ pc'[u] # "walk" =>
       cur_u'[u] = cur_u[u] /\ smallest'[u] = smallest[u] /\ visited'[u] = visited[u]

HistoryStep(u) ==
  /\ resolvers' = IF pc[u] = "cycle" /\ pc'[u] = "join_check"
                  THEN resolvers \union {u} ELSE resolvers
  /\ overtaken \subseteq overtaken'
  /\ pc[u] = "inspect" /\ pc'[u] = "read_rep" /\ matching_state[u] = "MATCHED" =>
       u \in overtaken'

Step(u) ==
  /\ PcStep(u) /\ FrameStep(u) /\ StateStep(u) /\ OwnStep(u)
  /\ JoinStep(u) /\ WalkStep(u) /\ HistoryStep(u)

\* Where an iteration goes next, for every action.
LEMMA PcStepHolds ==
  ASSUME TypeOK, NEW u \in Nodes, Iterate(u)
  PROVE  PcStep(u)
<1> USE DEF TypeOK, Goto, shared, locals, aux, PcStep, AfterJoin
<1>1. CASE Rate(u)
  BY <1>1 DEF Rate
<1>2. CASE Skip(u)
  BY <1>2 DEF Skip
<1>3. CASE CheckWeight(u)
  BY <1>3 DEF CheckWeight
<1>4. CASE AcquireU(u)
  BY <1>4 DEF AcquireU
<1>5. CASE PublishPartner(u)
  BY <1>5 DEF PublishPartner
<1>6. CASE InspectV(u)
  BY <1>6 DEF InspectV, FollowV, StartWalk
<1>7. CASE AcquireV(u)
  BY <1>7 DEF AcquireV, CallJoin, StartWalk
<1>8. CASE ReadRepresentative(u)
  BY <1>8 DEF ReadRepresentative
<1>9. CASE JoinCheck(u)
  BY <1>9 DEF JoinCheck, JoinReturns
<1>10. CASE JoinWrite(u)
  BY <1>10 DEF JoinWrite
<1>11. CASE JoinWeight(u)
  BY <1>11 DEF JoinWeight, JoinReturns
<1>12. CASE ReleaseV(u)
  BY <1>12 DEF ReleaseV
<1>13. CASE WalkPartners(u)
  BY <1>13 DEF WalkPartners
<1>14. CASE ResolveCycle(u)
  BY <1>14 DEF ResolveCycle, CallJoin
<1>15. CASE WaitForV(u)
  BY <1>15 DEF WaitForV, StartWalk
<1>16. CASE JoinLate(u)
  BY <1>16 DEF JoinLate, FollowV
<1>17. CASE MarkAsMatched(u)
  BY <1>17 DEF MarkAsMatched
<1>18. CASE RetractPartner(u)
  BY <1>18 DEF RetractPartner
<1>19. CASE ReleaseU(u)
  BY <1>19 DEF ReleaseU
<1> QED
  BY <1>1, <1>2, <1>3, <1>4, <1>5, <1>6, <1>7, <1>8, <1>9, <1>10, <1>11,
     <1>12, <1>13, <1>14, <1>15, <1>16, <1>17, <1>18, <1>19 DEF Iterate

\* What an iteration of one node leaves alone of the other nodes.
LEMMA FrameStepHolds ==
  ASSUME TypeOK, NEW u \in Nodes, Iterate(u)
  PROVE  FrameStep(u)
<1> USE DEF TypeOK, Goto, shared, locals, aux, FrameStep
<1>1. CASE Rate(u)
  BY <1>1 DEF Rate
<1>2. CASE Skip(u)
  BY <1>2 DEF Skip
<1>3. CASE CheckWeight(u)
  BY <1>3 DEF CheckWeight
<1>4. CASE AcquireU(u)
  BY <1>4 DEF AcquireU
<1>5. CASE PublishPartner(u)
  BY <1>5 DEF PublishPartner
<1>6. CASE InspectV(u)
  BY <1>6 DEF InspectV, FollowV, StartWalk
<1>7. CASE AcquireV(u)
  BY <1>7 DEF AcquireV, CallJoin, StartWalk
<1>8. CASE ReadRepresentative(u)
  BY <1>8 DEF ReadRepresentative
<1>9. CASE JoinCheck(u)
  BY <1>9 DEF JoinCheck, JoinReturns
<1>10. CASE JoinWrite(u)
  BY <1>10 DEF JoinWrite
<1>11. CASE JoinWeight(u)
  BY <1>11 DEF JoinWeight, JoinReturns
<1>12. CASE ReleaseV(u)
  BY <1>12 DEF ReleaseV
<1>13. CASE WalkPartners(u)
  BY <1>13 DEF WalkPartners
<1>14. CASE ResolveCycle(u)
  BY <1>14 DEF ResolveCycle, CallJoin
<1>15. CASE WaitForV(u)
  BY <1>15 DEF WaitForV, StartWalk
<1>16. CASE JoinLate(u)
  BY <1>16 DEF JoinLate, FollowV
<1>17. CASE MarkAsMatched(u)
  BY <1>17 DEF MarkAsMatched
<1>18. CASE RetractPartner(u)
  BY <1>18 DEF RetractPartner
<1>19. CASE ReleaseU(u)
  BY <1>19 DEF ReleaseU
<1> QED
  BY <1>1, <1>2, <1>3, <1>4, <1>5, <1>6, <1>7, <1>8, <1>9, <1>10, <1>11,
     <1>12, <1>13, <1>14, <1>15, <1>16, <1>17, <1>18, <1>19 DEF Iterate

\* How matching states change: a free node is acquired, an acquired one is settled.
LEMMA StateStepHolds ==
  ASSUME TypeOK, NEW u \in Nodes, Iterate(u)
  PROVE  StateStep(u)
<1> USE DEF TypeOK, Goto, shared, locals, aux, StateStep, Acquires, Settles
<1>1. CASE Rate(u)
  BY <1>1 DEF Rate
<1>2. CASE Skip(u)
  BY <1>2 DEF Skip
<1>3. CASE CheckWeight(u)
  BY <1>3 DEF CheckWeight
<1>4. CASE AcquireU(u)
  BY <1>4 DEF AcquireU
<1>5. CASE PublishPartner(u)
  BY <1>5 DEF PublishPartner
<1>6. CASE InspectV(u)
  BY <1>6 DEF InspectV, FollowV, StartWalk
<1>7. CASE AcquireV(u)
  BY <1>7 DEF AcquireV, CallJoin, StartWalk
<1>8. CASE ReadRepresentative(u)
  BY <1>8 DEF ReadRepresentative
<1>9. CASE JoinCheck(u)
  BY <1>9 DEF JoinCheck, JoinReturns
<1>10. CASE JoinWrite(u)
  BY <1>10 DEF JoinWrite
<1>11. CASE JoinWeight(u)
  BY <1>11 DEF JoinWeight, JoinReturns
<1>12. CASE ReleaseV(u)
  BY <1>12 DEF ReleaseV
<1>13. CASE WalkPartners(u)
  BY <1>13 DEF WalkPartners
<1>14. CASE ResolveCycle(u)
  BY <1>14 DEF ResolveCycle, CallJoin
<1>15. CASE WaitForV(u)
  BY <1>15 DEF WaitForV, StartWalk
<1>16. CASE JoinLate(u)
  BY <1>16 DEF JoinLate, FollowV
<1>17. CASE MarkAsMatched(u)
  BY <1>17 DEF MarkAsMatched
<1>18. CASE RetractPartner(u)
  BY <1>18 DEF RetractPartner
<1>19. CASE ReleaseU(u)
  BY <1>19 DEF ReleaseU
<1> QED
  BY <1>1, <1>2, <1>3, <1>4, <1>5, <1>6, <1>7, <1>8, <1>9, <1>10, <1>11,
     <1>12, <1>13, <1>14, <1>15, <1>16, <1>17, <1>18, <1>19 DEF Iterate

\* How an iteration changes the partner it publishes and its own target.
LEMMA OwnStepHolds ==
  ASSUME TypeOK, NEW u \in Nodes, Iterate(u)
  PROVE  OwnStep(u)
<1> USE DEF TypeOK, Goto, shared, locals, aux, OwnStep
<1>1. CASE Rate(u)
  BY <1>1 DEF Rate, RatingTargets
<1>2. CASE Skip(u)
  BY <1>2 DEF Skip
<1>3. CASE CheckWeight(u)
  BY <1>3 DEF CheckWeight
<1>4. CASE AcquireU(u)
  BY <1>4 DEF AcquireU
<1>5. CASE PublishPartner(u)
  BY <1>5 DEF PublishPartner
<1>6. CASE InspectV(u)
  BY <1>6 DEF InspectV, FollowV, StartWalk
<1>7. CASE AcquireV(u)
  BY <1>7 DEF AcquireV, CallJoin, StartWalk
<1>8. CASE ReadRepresentative(u)
  BY <1>8 DEF ReadRepresentative
<1>9. CASE JoinCheck(u)
  BY <1>9 DEF JoinCheck, JoinReturns
<1>10. CASE JoinWrite(u)
  BY <1>10 DEF JoinWrite
<1>11. CASE JoinWeight(u)
  BY <1>11 DEF JoinWeight, JoinReturns
<1>12. CASE ReleaseV(u)
  BY <1>12 DEF ReleaseV
<1>13. CASE WalkPartners(u)
  BY <1>13 DEF WalkPartners
<1>14. CASE ResolveCycle(u)
  BY <1>14 DEF ResolveCycle, CallJoin
<1>15. CASE WaitForV(u)
  BY <1>15 DEF WaitForV, StartWalk
<1>16. CASE JoinLate(u)
  BY <1>16 DEF JoinLate, FollowV
<1>17. CASE MarkAsMatched(u)
  BY <1>17 DEF MarkAsMatched
<1>18. CASE RetractPartner(u)
  BY <1>18 DEF RetractPartner
<1>19. CASE ReleaseU(u)
  BY <1>19 DEF ReleaseU
<1> QED
  BY <1>1, <1>2, <1>3, <1>4, <1>5, <1>6, <1>7, <1>8, <1>9, <1>10, <1>11,
     <1>12, <1>13, <1>14, <1>15, <1>16, <1>17, <1>18, <1>19 DEF Iterate

\* How an iteration chooses and joins a cluster.
LEMMA JoinStepHolds ==
  ASSUME TypeOK, NEW u \in Nodes, Iterate(u)
  PROVE  JoinStep(u)
<1> USE DEF TypeOK, Goto, shared, locals, aux, JoinStep
<1>1. CASE Rate(u)
  BY <1>1 DEF Rate
<1>2. CASE Skip(u)
  BY <1>2 DEF Skip
<1>3. CASE CheckWeight(u)
  BY <1>3 DEF CheckWeight
<1>4. CASE AcquireU(u)
  BY <1>4 DEF AcquireU
<1>5. CASE PublishPartner(u)
  BY <1>5 DEF PublishPartner
<1>6. CASE InspectV(u)
  BY <1>6 DEF InspectV, FollowV, StartWalk
<1>7. CASE AcquireV(u)
  BY <1>7 DEF AcquireV, CallJoin, StartWalk
<1>8. CASE ReadRepresentative(u)
  BY <1>8 DEF ReadRepresentative
<1>9. CASE JoinCheck(u)
  BY <1>9 DEF JoinCheck, JoinReturns
<1>10. CASE JoinWrite(u)
  BY <1>10 DEF JoinWrite
<1>11. CASE JoinWeight(u)
  BY <1>11 DEF JoinWeight, JoinReturns
<1>12. CASE ReleaseV(u)
  BY <1>12 DEF ReleaseV
<1>13. CASE WalkPartners(u)
  BY <1>13 DEF WalkPartners
<1>14. CASE ResolveCycle(u)
  BY <1>14 DEF ResolveCycle, CallJoin
<1>15. CASE WaitForV(u)
  BY <1>15 DEF WaitForV, StartWalk
<1>16. CASE JoinLate(u)
  BY <1>16 DEF JoinLate, FollowV
<1>17. CASE MarkAsMatched(u)
  BY <1>17 DEF MarkAsMatched
<1>18. CASE RetractPartner(u)
  BY <1>18 DEF RetractPartner
<1>19. CASE ReleaseU(u)
  BY <1>19 DEF ReleaseU
<1> QED
  BY <1>1, <1>2, <1>3, <1>4, <1>5, <1>6, <1>7, <1>8, <1>9, <1>10, <1>11,
     <1>12, <1>13, <1>14, <1>15, <1>16, <1>17, <1>18, <1>19 DEF Iterate

\* How a search follows the published partners.
LEMMA WalkStepHolds ==
  ASSUME TypeOK, NEW u \in Nodes, Iterate(u)
  PROVE  WalkStep(u)
<1> USE DEF TypeOK, Goto, shared, locals, aux, WalkStep
<1>1. CASE Rate(u)
  BY <1>1 DEF Rate
<1>2. CASE Skip(u)
  BY <1>2 DEF Skip
<1>3. CASE CheckWeight(u)
  BY <1>3 DEF CheckWeight
<1>4. CASE AcquireU(u)
  BY <1>4 DEF AcquireU
<1>5. CASE PublishPartner(u)
  BY <1>5 DEF PublishPartner
<1>6. CASE InspectV(u)
  BY <1>6 DEF InspectV, FollowV, StartWalk
<1>7. CASE AcquireV(u)
  BY <1>7 DEF AcquireV, CallJoin, StartWalk
<1>8. CASE ReadRepresentative(u)
  BY <1>8 DEF ReadRepresentative
<1>9. CASE JoinCheck(u)
  BY <1>9 DEF JoinCheck, JoinReturns
<1>10. CASE JoinWrite(u)
  BY <1>10 DEF JoinWrite
<1>11. CASE JoinWeight(u)
  BY <1>11 DEF JoinWeight, JoinReturns
<1>12. CASE ReleaseV(u)
  BY <1>12 DEF ReleaseV
<1>13. CASE WalkPartners(u)
  BY <1>13 DEF WalkPartners
<1>14. CASE ResolveCycle(u)
  BY <1>14 DEF ResolveCycle, CallJoin
<1>15. CASE WaitForV(u)
  BY <1>15 DEF WaitForV, StartWalk
<1>16. CASE JoinLate(u)
  BY <1>16 DEF JoinLate, FollowV
<1>17. CASE MarkAsMatched(u)
  BY <1>17 DEF MarkAsMatched
<1>18. CASE RetractPartner(u)
  BY <1>18 DEF RetractPartner
<1>19. CASE ReleaseU(u)
  BY <1>19 DEF ReleaseU
<1> QED
  BY <1>1, <1>2, <1>3, <1>4, <1>5, <1>6, <1>7, <1>8, <1>9, <1>10, <1>11,
     <1>12, <1>13, <1>14, <1>15, <1>16, <1>17, <1>18, <1>19 DEF Iterate

\* How the resolvers and the overtaken threads are recorded.
LEMMA HistoryStepHolds ==
  ASSUME TypeOK, NEW u \in Nodes, Iterate(u)
  PROVE  HistoryStep(u)
<1> USE DEF TypeOK, Goto, shared, locals, aux, HistoryStep
<1>1. CASE Rate(u)
  BY <1>1 DEF Rate
<1>2. CASE Skip(u)
  BY <1>2 DEF Skip
<1>3. CASE CheckWeight(u)
  BY <1>3 DEF CheckWeight
<1>4. CASE AcquireU(u)
  BY <1>4 DEF AcquireU
<1>5. CASE PublishPartner(u)
  BY <1>5 DEF PublishPartner
<1>6. CASE InspectV(u)
  BY <1>6 DEF InspectV, FollowV, StartWalk
<1>7. CASE AcquireV(u)
  BY <1>7 DEF AcquireV, CallJoin, StartWalk
<1>8. CASE ReadRepresentative(u)
  BY <1>8 DEF ReadRepresentative
<1>9. CASE JoinCheck(u)
  BY <1>9 DEF JoinCheck, JoinReturns
<1>10. CASE JoinWrite(u)
  BY <1>10 DEF JoinWrite
<1>11. CASE JoinWeight(u)
  BY <1>11 DEF JoinWeight, JoinReturns
<1>12. CASE ReleaseV(u)
  BY <1>12 DEF ReleaseV
<1>13. CASE WalkPartners(u)
  BY <1>13 DEF WalkPartners
<1>14. CASE ResolveCycle(u)
  BY <1>14 DEF ResolveCycle, CallJoin
<1>15. CASE WaitForV(u)
  BY <1>15 DEF WaitForV, StartWalk
<1>16. CASE JoinLate(u)
  BY <1>16 DEF JoinLate, FollowV
<1>17. CASE MarkAsMatched(u)
  BY <1>17 DEF MarkAsMatched
<1>18. CASE RetractPartner(u)
  BY <1>18 DEF RetractPartner
<1>19. CASE ReleaseU(u)
  BY <1>19 DEF ReleaseU
<1> QED
  BY <1>1, <1>2, <1>3, <1>4, <1>5, <1>6, <1>7, <1>8, <1>9, <1>10, <1>11,
     <1>12, <1>13, <1>14, <1>15, <1>16, <1>17, <1>18, <1>19 DEF Iterate

\* All of this together: from here on the proofs use Step and not the actions.
LEMMA StepHolds ==
  ASSUME TypeOK, NEW u \in Nodes, Iterate(u)
  PROVE  Step(u)
BY PcStepHolds, FrameStepHolds, StateStepHolds, OwnStepHolds, JoinStepHolds,
   WalkStepHolds, HistoryStepHolds DEF Step

-----------------------------------------------------------------------------
(* What no step can undo *)

\* A settled node stays settled, an acquired one is never free again, a target is chosen
\* once, and an iteration does not return to its beginning.
LEMMA StateMonotone ==
  ASSUME TypeOK, NEW u \in Nodes, Step(u), NEW x \in Nodes
  PROVE  /\ matching_state[x] = "MATCHED" => matching_state'[x] = "MATCHED"
         /\ matching_state[x] # "UNMATCHED" => matching_state'[x] # "UNMATCHED"
         /\ pc[x] # "idle" => target'[x] = target[x]
         /\ pc[x] \notin Early \union {"publish"} =>
              pc'[x] \notin Early \union {"publish"}
<1>1. /\ matching_state[x] = "MATCHED" => matching_state'[x] = "MATCHED"
      /\ matching_state[x] # "UNMATCHED" => matching_state'[x] # "UNMATCHED"
  BY DEF Step, StateStep, Acquires, Settles
<1>2. pc[x] # "idle" => target'[x] = target[x]
  BY DEF Step, FrameStep, OwnStep
<1>3. CASE x = u
  <2>1. pc[u] \in Steps
    BY DEF TypeOK
  <2> QED
    BY <1>1, <1>2, <1>3, <2>1
       DEF Step, PcStep, AfterJoin, Early, Steps, Outside, Joining, Waiting
<1>4. CASE x # u
  BY <1>1, <1>2, <1>4 DEF Step, FrameStep
<1> QED
  BY <1>3, <1>4

\* A node that will not wait any more never waits again.
LEMMA DeadStable ==
  ASSUME TypeOK, NEW u \in Nodes, Step(u), NEW x \in Nodes, Dead(x)
  PROVE  Dead(x)'
<1>1. CASE matching_state[x] = "MATCHED"
  BY <1>1, StateMonotone DEF Dead
<1>2. CASE matching_state[x] = "MATCHING_IN_PROGRESS" /\ pc[x] \in Early \union {"done"}
  <2>1. matching_state'[x] \in {"MATCHING_IN_PROGRESS", "MATCHED"}
    BY <1>2 DEF Step, StateStep
  <2>2. pc'[x] \in Early \union {"done"}
    BY <1>2 DEF Step, FrameStep, PcStep, Early
  <2> QED
    BY <2>1, <2>2 DEF Dead
<1> QED
  BY <1>1, <1>2 DEF Dead

\* Targets are only added: a set that is closed under targets after a step was closed
\* before it.
LEMMA ClosedBack ==
  ASSUME TypeOK, \A w \in Nodes : PartnerOK(w), NEW u \in Nodes, Step(u)
  PROVE  \A S \in SUBSET Nodes : Closed(S)' => Closed(S)
<1> SUFFICES ASSUME NEW S \in SUBSET Nodes, Closed(S)', NEW x \in S
             PROVE  target[x] \in S
  BY DEF Closed
<1>1. target'[x] \in S
  BY DEF Closed
<1>2. CASE pc[x] = "idle"
  BY <1>2 DEF PartnerOK
<1>3. CASE pc[x] # "idle"
  BY <1>1, <1>3, StateMonotone
<1> QED
  BY <1>2, <1>3

\* A cycle that was resolved stays resolved, and what excuses a node stays true.
LEMMA ResolvedStable ==
  ASSUME TypeOK, \A w \in Nodes : ResolverOK(w), NEW u \in Nodes, Step(u)
  PROVE  /\ \A y \in resolvers : y \in resolvers' /\ visited'[y] = visited[y]
         /\ \A x \in Nodes : InResolvedCycle(x) => InResolvedCycle(x)'
         /\ \A x \in Nodes : pc[x] # "idle" /\ Excused(x) => Excused(x)'
<1>1. ASSUME NEW y \in resolvers
      PROVE  y \in resolvers' /\ visited'[y] = visited[y]
  <2>1. y \in Nodes /\ y \in resolvers'
    BY DEF TypeOK, Step, HistoryStep
  <2>2. CASE y # u
    BY <2>1, <2>2 DEF Step, FrameStep
  <2>3. CASE y = u
    <3>1. pc[u] # "walk" /\ pc'[u] # "walk"
      BY <2>1, <2>3
         DEF ResolverOK, Step, PcStep, AfterJoin, JoinPhase, Joining
    <3> QED
      BY <2>1, <2>3, <3>1 DEF Step, WalkStep
  <2> QED
    BY <2>2, <2>3
<1>2. ASSUME NEW x \in Nodes, InResolvedCycle(x) PROVE InResolvedCycle(x)'
  BY <1>1, <1>2 DEF InResolvedCycle
<1>3. ASSUME NEW x \in Nodes, pc[x] # "idle", Excused(x) PROVE Excused(x)'
  <2>1. target'[x] = target[x] /\ target[x] \in Nodes
    BY <1>3, StateMonotone DEF TypeOK
  <2>2. Dead(target[x]) => Dead(target[x])'
    <3> SUFFICES ASSUME Dead(target[x]) PROVE Dead(target[x])'
      OBVIOUS
    <3>1. \A v \in Nodes : Dead(v) => Dead(v)'
      BY DeadStable
    <3> QED
      BY <2>1, <3>1 DEF Dead
  <2> QED
    BY <1>2, <1>3, <2>1, <2>2 DEF Excused
<1> QED
  BY <1>1, <1>2, <1>3

-----------------------------------------------------------------------------
(* Cyclic dependencies *)

\* Two resolved cycles with a common node are the same.
LEMMA ResolverUnique ==
  ASSUME TypeOK, \A w \in Nodes : ResolverOK(w),
         NEW y \in resolvers, NEW z \in resolvers,
         NEW x \in Nodes, x \in visited[y], x \in visited[z]
  PROVE  y = z
<1>1. y \in Nodes /\ z \in Nodes /\ visited[y] \in SUBSET Nodes /\ visited[z] \in SUBSET Nodes
  BY DEF TypeOK
<1>2. Closed(visited[y]) /\ Closed(visited[z])
  BY <1>1 DEF ResolverOK
<1>3. visited[y] \intersect visited[z] # {}
  OBVIOUS
<1>4. y \in visited[z] /\ z \in visited[y]
  BY <1>1, <1>2, <1>3 DEF ResolverOK, LeadsTo
<1>5. y <= z /\ z <= y
  BY <1>1, <1>4 DEF ResolverOK
<1>6. y \in Nat /\ z \in Nat
  BY <1>1, NodesAssumption
<1> QED
  BY <1>5, <1>6

\* A thread settles another node only if it holds it or resolves its cycle.
LEMMA SettledNode ==
  ASSUME TypeOK, \A w \in Nodes : RoleOK(w), NEW u \in Nodes, pc[u] = "release_v"
  PROVE  /\ u # target[u] /\ matching_state[target[u]] = "MATCHING_IN_PROGRESS"
         /\ \/ Holds(u) /\ pc[target[u]] \in Early \union {"done"}
            \/ /\ Resolving(u) /\ u \in resolvers
               /\ target[u] \in visited[u] /\ Live(target[u])
<1>1. u # target[u] /\ target[u] \in Nodes
  BY DEF RoleOK, PartnerOK, TypeOK
<1>2. origin[u] \in {"acquired", "cycle"}
  BY DEF RoleOK, CallOK
<1>3. CASE origin[u] = "acquired"
  BY <1>1, <1>3 DEF RoleOK, HolderOK, Holds, JoinPhase
<1>4. CASE origin[u] = "cycle"
  <2>1. Resolving(u)
    BY <1>4 DEF Resolving, JoinPhase
  <2>2. u \in resolvers /\ \A x \in visited[u] \ {u} : Live(x)
    BY <2>1 DEF RoleOK, ResolvingOK
  <2>3. target[u] \in visited[u]
    BY <2>2 DEF RoleOK, ResolverOK, Closed
  <2> QED
    BY <1>1, <2>1, <2>2, <2>3 DEF Live
<1> QED
  BY <1>2, <1>3, <1>4

\* A search that returns to u, the smallest node on its way, has found a cycle of
\* nodes that all still wait and that nobody has resolved.
LEMMA CycleIntact ==
  ASSUME TypeOK, \A w \in Nodes : RoleOK(w), NEW u \in Nodes,
         pc[u] = "cycle", matching_partner[cur_u[u]] = u, smallest[u] = u
  PROVE  /\ u \notin resolvers /\ u \in visited[u] /\ Closed(visited[u])
         /\ LeadsTo(visited[u], u)
         /\ \A x \in visited[u] :
              /\ u <= x /\ Live(x) /\ ~InResolvedCycle(x)
              /\ matching_state[x] # "UNMATCHED"
              /\ pc[x] \notin Early \union {"publish"}
<1> DEFINE c == cur_u[u]
           V == visited[u]
<1>0. c \in Nodes /\ V \in SUBSET Nodes /\ target[u] \in Nodes
  BY DEF TypeOK
<1>1. u \notin resolvers
  BY DEF RoleOK, ResolverOK, JoinPhase, Joining
<1>2. u \in V /\ c \in V /\ (\A x \in V : SeenOK(u, x)) /\ LeadsTo(V, c)
  BY DEF RoleOK, WalkerOK
<1>3. matching_partner[u] # u
  BY DEF RoleOK, PartnerOK, Published, WaitLoop, Waiting
<1>4. c # u
  BY <1>3
<1>5. pc[c] \in Published /\ target[c] = u
  BY <1>0, <1>4 DEF RoleOK, PartnerOK
<1>6. Live(c) \/ Excused(c)
  BY <1>0, <1>5 DEF RoleOK, ExcuseOK
<1>7. matching_state[c] # "UNMATCHED" /\ pc[c] \notin Early \union {"publish"}
  <2>1. pc[c] \notin Early \union {"publish", "done"}
    BY <1>5 DEF Published, WaitLoop, JoinPhase, Joining, Waiting, Early
  <2> QED
    BY <1>0, <2>1 DEF RoleOK, OwnershipOK
<1>8. \A x \in V : /\ u <= x /\ target[x] \in V /\ (Live(x) \/ Excused(x))
                   /\ matching_state[x] # "UNMATCHED"
                   /\ pc[x] \notin Early \union {"publish"}
  <2> SUFFICES ASSUME NEW x \in V
               PROVE  /\ u <= x /\ target[x] \in V /\ (Live(x) \/ Excused(x))
                      /\ matching_state[x] # "UNMATCHED"
                      /\ pc[x] \notin Early \union {"publish"}
    OBVIOUS
  <2>1. CASE x = c
    BY <1>2, <1>5, <1>6, <1>7, <2>1 DEF SeenOK
  <2>2. CASE x # c
    BY <1>2, <2>2 DEF SeenOK
  <2> QED
    BY <2>1, <2>2
<1>9. Closed(V)
  BY <1>8 DEF Closed
<1>10. LeadsTo(V, u)
  BY <1>2, <1>5 DEF LeadsTo, Closed
<1>11. \A x \in V : ~InResolvedCycle(x)
  <2> SUFFICES ASSUME NEW x \in V, NEW y \in resolvers, x \in visited[y]
               PROVE  FALSE
    BY DEF InResolvedCycle
  <2>1. y \in Nodes /\ visited[y] \in SUBSET Nodes
    BY DEF TypeOK
  <2>2. /\ Closed(visited[y]) /\ LeadsTo(visited[y], y)
        /\ \A z \in visited[y] : y <= z
    BY <2>1 DEF RoleOK, ResolverOK
  <2>3. y \in V
    BY <1>0, <1>9, <2>2 DEF LeadsTo
  <2>4. u \in visited[y]
    BY <1>10, <2>1, <2>2 DEF LeadsTo
  <2>5. y <= u /\ u <= y
    BY <1>8, <2>2, <2>3, <2>4
  <2> QED
    BY <1>1, <2>1, <2>5, NodesAssumption
<1>12. Live(u)
  <2>1. matching_state[u] # "UNMATCHED" /\ (matching_state[u] = "MATCHED" => InResolvedCycle(u))
    BY <1>2, <1>8 DEF RoleOK, OwnershipOK, WaitLoop, Waiting
  <2>2. matching_state[u] = "MATCHING_IN_PROGRESS"
    BY <1>2, <1>11, <2>1 DEF TypeOK, States
  <2> QED
    BY <2>2 DEF Live, WaitLoop, Waiting
<1>13. \A x \in V : Live(x)
  <2> DEFINE N == {x \in V : ~Live(x)}
  <2>1. N \in SUBSET Nodes
    BY <1>0
  <2>2. Closed(N)
    <3> SUFFICES ASSUME NEW x \in N PROVE target[x] \in N
      BY DEF Closed
    <3>1. Excused(x) /\ ~InResolvedCycle(x) /\ target[x] \in V
      BY <1>8, <1>11
    <3>2. ~Live(target[x])
      BY <3>1 DEF Excused, Dead, Live, Early, WaitLoop, Waiting
    <3> QED
      BY <3>1, <3>2
  <2>3. u \notin N
    BY <1>12
  <2>4. N \intersect V = {}
    BY <1>10, <2>1, <2>2, <2>3 DEF LeadsTo
  <2> QED
    BY <2>4
<1> QED
  BY <1>1, <1>2, <1>8, <1>9, <1>10, <1>11, <1>13

-----------------------------------------------------------------------------
(***************************************************************************)
(* Preservation of the invariant, part by part.  x is the node a part is   *)
(* about, u the node whose iteration takes the step.                       *)
(***************************************************************************)

\* A step keeps PartnerOK.
LEMMA PartnerStep ==
  ASSUME TypeOK, NEW u \in Nodes, Step(u), NEW x \in Nodes, PartnerOK(x)
  PROVE  PartnerOK(x)'
<1>1. CASE x # u
  BY <1>1 DEF PartnerOK, Step, FrameStep
<1>2. CASE x = u
  <2>1. pc[u] \in Steps
    BY DEF TypeOK
  <2>2. pc'[u] # "idle"
    BY <2>1 DEF Step, PcStep, AfterJoin, Steps, Outside, Joining, Waiting
  <2>3. pc'[u] # "done" => target'[u] # u
    BY <1>2, <2>1 DEF PartnerOK, Step, PcStep, OwnStep
  <2>4. matching_partner'[u] = IF pc'[u] \in Published THEN target'[u] ELSE u
    BY <1>2, <2>1
       DEF PartnerOK, Step, PcStep, OwnStep, AfterJoin, Steps, Outside, Joining,
           Waiting, Published, WaitLoop, JoinPhase
  <2> QED
    BY <1>2, <2>2, <2>3, <2>4 DEF PartnerOK
<1> QED
  BY <1>1, <1>2

\* A step keeps OwnershipOK: only an overtaken thread goes on to join a cluster
\* after its node was settled.
LEMMA OwnershipStep ==
  ASSUME TypeOK, TypeOK', \A w \in Nodes : RoleOK(w),
         NEW u \in Nodes, Step(u), NEW x \in Nodes
  PROVE  OwnershipOK(x)'
<1> USE DEF Early, JoinPhase, Joining, WaitLoop, Waiting
<1>0. OwnershipOK(x) /\ pc[x] \in Steps /\ target[x] \in Nodes
      /\ matching_state[x] \in States /\ matching_state'[x] \in States
  BY DEF RoleOK, TypeOK
<1>m. /\ matching_state[x] = "MATCHED" => matching_state'[x] = "MATCHED"
      /\ matching_state[x] # "UNMATCHED" => matching_state'[x] # "UNMATCHED"
      /\ matching_state[target[x]] # "UNMATCHED" => matching_state'[target[x]] # "UNMATCHED"
      /\ InResolvedCycle(x) => InResolvedCycle(x)'
      /\ x \in overtaken => x \in overtaken'
  BY <1>0, StateMonotone, ResolvedStable DEF RoleOK, Step, HistoryStep
<1>1. CASE x # u
  <2>1. pc'[x] = pc[x] /\ target'[x] = target[x]
    BY <1>1 DEF Step, FrameStep
  <2>2. pc[x] \in JoinPhase \union {"publish", "read_rep"}
          /\ matching_state[x] = "MATCHING_IN_PROGRESS" =>
            matching_state'[x] = "MATCHING_IN_PROGRESS"
    <3> SUFFICES ASSUME pc[x] \in JoinPhase \union {"publish", "read_rep"},
                        matching_state[x] = "MATCHING_IN_PROGRESS"
                 PROVE  matching_state'[x] = "MATCHING_IN_PROGRESS"
      OBVIOUS
    <3>1. ~Settles(u, x)
      BY <1>1, SettledNode DEF Settles, Live
    <3> QED
      BY <3>1 DEF Step, StateStep
  <2>3. pc[x] \in WaitLoop /\ matching_state'[x] = "MATCHED" => InResolvedCycle(x)'
    <3> SUFFICES ASSUME pc[x] \in WaitLoop, matching_state'[x] = "MATCHED"
                 PROVE  InResolvedCycle(x)'
      OBVIOUS
    <3>1. CASE matching_state[x] = "MATCHED"
      BY <1>0, <1>m, <3>1 DEF OwnershipOK
    <3>2. CASE matching_state[x] # "MATCHED"
      <4>1. pc[u] = "release_v" /\ x = target[u]
        BY <1>1, <3>2 DEF Step, StateStep, Settles
      <4>2. u \in resolvers /\ x \in visited[u]
        BY <4>1, SettledNode
      <4> QED
        BY <1>m, <4>2 DEF InResolvedCycle
    <3> QED
      BY <3>1, <3>2
  <2> QED
    BY <1>0, <1>1, <1>m, <2>1, <2>2, <2>3 DEF OwnershipOK, Step, FrameStep
<1>2. CASE x = u
  <2>1. pc'[u] \notin Early \union {"done"} => matching_state'[u] # "UNMATCHED"
    BY <1>0, <1>2, <1>m DEF OwnershipOK, Step, PcStep, StateStep, Acquires, Steps, Outside
  <2>2. pc'[u] \in JoinPhase \union {"publish", "read_rep"} =>
          \/ matching_state'[u] = "MATCHING_IN_PROGRESS"
          \/ pc'[u] # "publish" /\ u \in overtaken' /\ origin'[u] = "matched"
    <3> SUFFICES ASSUME pc'[u] \in JoinPhase \union {"publish", "read_rep"}
                 PROVE  \/ matching_state'[u] = "MATCHING_IN_PROGRESS"
                        \/ /\ pc'[u] # "publish" /\ u \in overtaken'
                           /\ origin'[u] = "matched"
      OBVIOUS
    <3>1. CASE pc[u] = "acquire_u"
      BY <3>1 DEF Step, PcStep, StateStep, Acquires
    <3>2. CASE pc[u] = "inspect"
      <4>1. matching_state[u] # "UNMATCHED" /\ pc'[u] = "read_rep"
        BY <1>0, <1>2, <3>2 DEF OwnershipOK, Step, PcStep
      <4>2. CASE matching_state[u] = "MATCHED"
        BY <3>2, <4>1, <4>2 DEF Step, HistoryStep, JoinStep
      <4>3. CASE matching_state[u] = "MATCHING_IN_PROGRESS"
        BY <3>2, <4>3 DEF Step, StateStep, Acquires, Settles
      <4> QED
        BY <1>0, <1>2, <4>1, <4>2, <4>3 DEF States
    <3>3. CASE pc[u] = "late"
      BY <3>3 DEF Step, PcStep, StateStep, Acquires, Settles
    <3>4. CASE pc[u] = "acquire_v"
      <4>1. matching_state[target[u]] = "UNMATCHED"
        BY <3>4 DEF Step, PcStep
      <4>2. ~InResolvedCycle(u)
        BY <4>1 DEF InResolvedCycle, RoleOK, ResolverOK, Closed, TypeOK
      <4>3. matching_state[u] = "MATCHING_IN_PROGRESS"
        BY <1>0, <1>2, <3>4, <4>2 DEF OwnershipOK, States
      <4> QED
        BY <3>4, <4>1, <4>3 DEF Step, StateStep, Acquires, Settles
    <3>5. CASE pc[u] = "cycle"
      <4>1. matching_partner[cur_u[u]] = u /\ smallest[u] = u
        BY <3>5 DEF Step, PcStep
      <4>2. Live(u)
        BY <3>5, <4>1, CycleIntact
      <4> QED
        BY <3>5, <4>2 DEF Live, Step, StateStep, Acquires, Settles
    <3>6. CASE pc[u] \in {"read_rep", "join_check", "join_write", "join_weight"}
      BY <1>0, <1>2, <1>m, <3>6 DEF OwnershipOK, Step, PcStep, AfterJoin, JoinStep, StateStep, Acquires,
         Settles
    <3> QED
      BY <1>0, <1>2, <3>1, <3>2, <3>3, <3>4, <3>5, <3>6 DEF Step, PcStep, Steps, Outside
  <2>3. pc'[u] \in Waiting => matching_state'[target'[u]] # "UNMATCHED"
    <3> SUFFICES ASSUME pc'[u] \in Waiting PROVE matching_state'[target'[u]] # "UNMATCHED"
      OBVIOUS
    <3>1. pc[u] \in {"inspect", "acquire_v", "release_v"} \union Waiting
      BY <1>0, <1>2 DEF Step, PcStep, AfterJoin, Steps, Outside
    <3>2. target'[u] = target[u]
      BY <3>1 DEF Step, OwnStep
    <3>3. CASE pc[u] = "release_v"
      BY <1>0, <1>2, <3>2, <3>3 DEF Step, StateStep, Settles, Acquires
    <3>4. CASE pc[u] # "release_v"
      BY <1>0, <1>2, <1>m, <3>1, <3>2, <3>4 DEF OwnershipOK, Step, PcStep
    <3> QED
      BY <3>3, <3>4
  <2>4. pc'[u] \in WaitLoop /\ matching_state'[u] = "MATCHED" => InResolvedCycle(u)'
    <3> SUFFICES ASSUME pc'[u] \in WaitLoop, matching_state'[u] = "MATCHED"
                 PROVE  InResolvedCycle(u)'
      OBVIOUS
    <3>1. pc[u] \in {"publish", "release_v"} \union WaitLoop
      BY <1>0, <1>2 DEF Step, PcStep, AfterJoin, Steps, Outside
    <3>2. target[u] # u
      BY <3>1 DEF RoleOK, PartnerOK
    <3>3. matching_state[u] = "MATCHED"
      BY <3>1, <3>2 DEF Step, StateStep, Settles, Acquires
    <3> QED
      BY <1>0, <1>2, <1>m, <3>1, <3>3 DEF OwnershipOK, RoleOK, CallOK
  <2> QED
    BY <1>2, <2>1, <2>2, <2>3, <2>4 DEF OwnershipOK
<1> QED
  BY <1>1, <1>2

\* A step keeps CallOK.
LEMMA CallStep ==
  ASSUME TypeOK, \A w \in Nodes : RoleOK(w), NEW u \in Nodes, Step(u), NEW x \in Nodes
  PROVE  CallOK(x)'
<1>0. CallOK(x) /\ pc[x] \in Steps /\ target[x] \in Nodes /\ matching_state[target[x]] \in States
  BY DEF RoleOK, TypeOK
<1>m. matching_state[target[x]] = "MATCHED" => matching_state'[target[x]] = "MATCHED"
  BY <1>0, StateMonotone
<1>1. CASE x # u
  BY <1>0, <1>1, <1>m DEF CallOK, Step, FrameStep
<1>2. CASE x = u
  <2>1. pc'[u] \in {"late", "read_rep"} =>
          target'[u] = target[u] /\ matching_state[target[u]] = "MATCHED"
    <3> SUFFICES ASSUME pc'[u] \in {"late", "read_rep"}
                 PROVE  target'[u] = target[u] /\ matching_state[target[u]] = "MATCHED"
      OBVIOUS
    <3>1. pc[u] \in {"inspect", "wait", "late"}
      BY <1>0, <1>2 DEF Step, PcStep, AfterJoin, Steps, Outside, Joining, Waiting
    <3>2. target'[u] = target[u]
      BY <3>1 DEF Step, OwnStep
    <3>3. pc[u] = "wait" => matching_state[target[u]] = "MATCHED"
      BY <1>0, <1>2 DEF RoleOK, OwnershipOK, Waiting, States, Step, PcStep
    <3> QED
      BY <1>0, <1>2, <3>1, <3>2, <3>3 DEF CallOK, Step, PcStep
  <2>2. pc'[u] = "read_rep" => origin'[u] \in {"matched", "late"}
    BY <1>0, <1>2
       DEF Step, PcStep, JoinStep, AfterJoin, Steps, Outside, Joining, Waiting
  <2>3. pc'[u] = "release_v" => origin'[u] \in {"acquired", "cycle"}
    BY <1>0, <1>2
       DEF Step, PcStep, JoinStep, AfterJoin, Steps, Outside, Joining, Waiting
  <2> QED
    BY <1>2, <1>m, <2>1, <2>2, <2>3 DEF CallOK
<1> QED
  BY <1>1, <1>2

\* A step keeps HolderOK: two threads never hold the same partner.
LEMMA HolderStep ==
  ASSUME TypeOK, \A w \in Nodes : RoleOK(w), NEW u \in Nodes, Step(u), NEW x \in Nodes
  PROVE  HolderOK(x)'
<1> USE DEF Early, JoinPhase, Joining, WaitLoop, Waiting
<1> SUFFICES ASSUME Holds(x)'
             PROVE  /\ matching_state'[target'[x]] = "MATCHING_IN_PROGRESS"
                    /\ pc'[target'[x]] \in Early \union {"done"}
                    /\ \A w \in Nodes : Holds(w)' /\ target'[w] = target'[x] => w = x
  BY DEF HolderOK
<1>0. target[x] \in Nodes /\ pc[u] \in Steps
  BY DEF TypeOK
<1>w. \A w \in Nodes : Holds(w)' =>
        /\ target'[w] = target[w]
        /\ \/ Holds(w)
           \/ w = u /\ pc[u] = "acquire_v" /\ matching_state[target[u]] = "UNMATCHED"
  <2> SUFFICES ASSUME NEW w \in Nodes, Holds(w)'
               PROVE  /\ target'[w] = target[w]
                      /\ \/ Holds(w)
                         \/ /\ w = u /\ pc[u] = "acquire_v"
                            /\ matching_state[target[u]] = "UNMATCHED"
    OBVIOUS
  <2>1. CASE w # u
    BY <2>1 DEF Holds, Step, FrameStep
  <2>2. CASE w = u
    <3>1. pc[u] \in {"acquire_v", "read_rep", "cycle"} \union Joining
      BY <1>0, <2>2 DEF Holds, Step, PcStep, AfterJoin, Steps, Outside
    <3>2. pc[u] # "read_rep"
      BY <2>2 DEF Holds, Step, JoinStep, RoleOK, CallOK
    <3>3. pc[u] # "cycle"
      BY <2>2 DEF Holds, Step, PcStep, JoinStep
    <3>4. pc[u] \in Joining => origin[u] = "acquired"
      BY <2>2 DEF Holds, Step, JoinStep
    <3>5. pc[u] = "acquire_v" => matching_state[target[u]] = "UNMATCHED"
      BY <2>2 DEF Holds, Step, PcStep
    <3> QED
      BY <2>2, <3>1, <3>2, <3>3, <3>4, <3>5 DEF Holds, Step, OwnStep
  <2> QED
    BY <2>1, <2>2
<1>1. CASE Holds(x)
  <2>1. /\ matching_state[target[x]] = "MATCHING_IN_PROGRESS"
        /\ pc[target[x]] \in Early \union {"done"}
        /\ \A w \in Nodes : Holds(w) /\ target[w] = target[x] => w = x
    BY <1>1 DEF RoleOK, HolderOK
  <2>2. ~Settles(u, target[x])
    <3>1. CASE pc[u] = "release_v" /\ target[u] = target[x]
      <4>1. Holds(u)
        BY <2>1, <3>1, SettledNode DEF Live
      <4>2. u = x
        BY <2>1, <3>1, <4>1
      <4> QED
        BY <3>1, <4>2 DEF Holds, Step, PcStep
    <3>2. CASE pc[u] = "release_u" /\ u = target[x]
      BY <2>1, <3>2
    <3> QED
      BY <3>1, <3>2 DEF Settles
  <2>3. matching_state'[target[x]] = "MATCHING_IN_PROGRESS"
    BY <1>0, <2>1, <2>2 DEF Step, StateStep
  <2>4. pc'[target[x]] \in Early \union {"done"}
    <3>1. CASE target[x] = u
      BY <2>1, <3>1 DEF Step, PcStep
    <3>2. CASE target[x] # u
      BY <1>0, <2>1, <3>2 DEF Step, FrameStep
    <3> QED
      BY <3>1, <3>2
  <2> QED
    BY <1>w, <2>1, <2>3, <2>4
<1>2. CASE /\ x = u /\ pc[u] = "acquire_v" /\ matching_state[target[u]] = "UNMATCHED"
  <2>1. matching_state'[target[u]] = "MATCHING_IN_PROGRESS"
    BY <1>0, <1>2 DEF Step, StateStep, Acquires
  <2>2. pc[target[u]] \in Early \union {"done"} /\ target[u] # u
    BY <1>0, <1>2 DEF RoleOK, OwnershipOK, PartnerOK
  <2>3. pc'[target[u]] \in Early \union {"done"}
    BY <1>0, <1>2, <2>2 DEF Step, FrameStep
  <2>4. \A w \in Nodes : Holds(w) => target[w] # target[u]
    BY <1>2 DEF RoleOK, HolderOK
  <2> QED
    BY <1>2, <1>w, <2>1, <2>3, <2>4
<1> QED
  BY <1>1, <1>2, <1>w

\* A step keeps PointerOK.
LEMMA PointerStep ==
  ASSUME TypeOK, \A w \in Nodes : NodeOK(w), NEW u \in Nodes, Step(u), NEW x \in Nodes
  PROVE  PointerOK(x)'
<1>0. PointerOK(x) /\ cluster_ids[x] \in Nodes /\ target[x] \in Nodes /\ rep[x] \in Nodes
  BY DEF NodeOK, RoleOK, PlaceOK, TypeOK
<1>m. \A w \in Nodes : matching_state[w] = "MATCHED" => matching_state'[w] = "MATCHED"
  BY StateMonotone
<1>1. CASE x # u
  BY <1>0, <1>1, <1>m DEF PointerOK, Step, FrameStep
<1>2. CASE x = u /\ pc[u] = "join_write"
  <2>1. cluster_ids'[u] = rep[u] /\ pc'[u] = "join_weight"
        /\ origin'[u] = origin[u] /\ target'[u] = target[u]
    BY <1>2 DEF Step, OwnStep, PcStep, JoinStep
  <2> QED
    BY <1>0, <1>2, <1>m, <2>1 DEF NodeOK, RoleOK, PlaceOK, JoinOK, PointerOK, Joining
<1>3. CASE x = u /\ pc[u] # "join_write"
  <2>1. cluster_ids'[u] = cluster_ids[u]
    BY <1>3 DEF Step, OwnStep
  <2>2. CASE pc[u] = "join_weight"
    <3>1. origin'[u] = origin[u] /\ target'[u] = target[u] /\ pc'[u] = AfterJoin(u)
      BY <2>2 DEF Step, OwnStep, PcStep, JoinStep
    <3> QED
      BY <1>0, <1>3, <1>m, <2>1, <3>1 DEF PointerOK, AfterJoin
  <2>3. CASE pc[u] = "release_v"
    <3>1. matching_state'[target[u]] = "MATCHED"
      BY <1>0, <1>3, <2>3 DEF Step, StateStep, Settles, Acquires
    <3> QED
      BY <1>0, <1>3, <1>m, <2>1, <3>1 DEF PointerOK
  <2>4. CASE pc[u] \notin {"join_weight", "release_v"}
    BY <1>0, <1>3, <1>m, <2>1, <2>4 DEF PointerOK
  <2> QED
    BY <2>2, <2>3, <2>4
<1> QED
  BY <1>1, <1>2, <1>3

\* A step keeps AloneOK: nobody else writes the cluster id of a node.
LEMMA AloneStep ==
  ASSUME TypeOK, \A w \in Nodes : NodeOK(w), NEW u \in Nodes, Step(u), NEW x \in Nodes
  PROVE  AloneOK(x)'
<1> USE DEF Early
<1>0. AloneOK(x) /\ pc[x] \in Steps
  BY DEF NodeOK, RoleOK, PlaceOK, TypeOK
<1>m. matching_state[x] = "MATCHED" => matching_state'[x] = "MATCHED"
  BY StateMonotone
<1>1. CASE x # u
  BY <1>0, <1>1, <1>m DEF AloneOK, Step, FrameStep, HistoryStep
<1>2. CASE x = u
  <2>1. CASE pc[u] = "join_write"
    BY <1>2, <2>1 DEF AloneOK, Step, PcStep
  <2>2. CASE pc[u] = "release_v"
    <3>1. pc'[u] = "wait" => u \in resolvers'
      <4>1. pc'[u] = "wait" => Resolving(u)
        BY <2>2 DEF Step, PcStep, Resolving, JoinPhase
      <4> QED
        BY <4>1 DEF NodeOK, RoleOK, PlaceOK, ResolvingOK, Step, HistoryStep
    <3> QED
      BY <1>2, <2>2, <3>1 DEF AloneOK, Step, PcStep
  <2>3. CASE pc[u] = "wait"
    <3>1. pc'[u] = "walk" => u \notin resolvers
      BY <2>3 DEF NodeOK, RoleOK, PlaceOK, ResolverOK, Step, PcStep
    <3> QED
      BY <1>0, <1>2, <2>3, <3>1 DEF AloneOK, Step, PcStep, OwnStep
  <2>4. CASE pc[u] = "release_u"
    BY <1>2, <2>4 DEF AloneOK, Step, PcStep, StateStep, Settles, Acquires
  <2>5. CASE pc[u] \notin {"join_write", "release_v", "wait", "release_u"}
    <3>1. cluster_ids'[u] = cluster_ids[u]
      BY <2>5 DEF Step, OwnStep
    <3> QED
      BY <1>0, <1>2, <2>5, <3>1
         DEF AloneOK, Step, PcStep, AfterJoin, Steps, Outside, Joining, Waiting
  <2> QED
    BY <2>1, <2>2, <2>3, <2>4, <2>5
<1> QED
  BY <1>1, <1>2

\* Nobody points at a node that is about to join a cluster.
LEMMA JoinerUnreferenced ==
  ASSUME TypeOK, overtaken = {}, \A w \in Nodes : NodeOK(w), NEW u \in Nodes,
         pc[u] \in JoinPhase \union {"read_rep"}, NEW x \in Nodes, x # u
  PROVE  /\ cluster_ids[x] # u
         /\ pc[x] \in Joining => rep[x] # u
<1> USE DEF JoinPhase, Joining
<1>1. matching_state[u] # "MATCHED"
  BY DEF NodeOK, RoleOK, PlaceOK, OwnershipOK
<1>2. pc[x] \in JoinPhase /\ origin[x] = "acquired" => target[x] # u
  BY DEF NodeOK, RoleOK, PlaceOK, HolderOK, Holds, Early
<1>3. pc[x] \in JoinPhase /\ origin[x] = "cycle" => target[x] # u
  <2> SUFFICES ASSUME pc[x] \in JoinPhase, origin[x] = "cycle", target[x] = u
               PROVE  FALSE
    OBVIOUS
  <2>1. x \in resolvers /\ \A z \in visited[x] \ {x} : Live(z)
    BY DEF NodeOK, RoleOK, PlaceOK, ResolvingOK, Resolving
  <2>2. u \in visited[x]
    BY <2>1 DEF NodeOK, RoleOK, PlaceOK, ResolverOK, Closed
  <2> QED
    BY <2>1, <2>2 DEF Live, WaitLoop, Waiting
<1>4. cluster_ids[x] # u
  BY <1>1, <1>2, <1>3 DEF NodeOK, RoleOK, PlaceOK, PointerOK
<1>5. pc[x] \in Joining => rep[x] # u
  BY <1>1, <1>2, <1>3 DEF NodeOK, RoleOK, PlaceOK, JoinOK
<1> QED
  BY <1>4, <1>5

\* A step keeps JoinOK: the representative that was read is still one when it is joined.
LEMMA JoinTargetStep ==
  ASSUME TypeOK, overtaken = {}, \A w \in Nodes : NodeOK(w), ClusterInvariant,
         NEW u \in Nodes, Step(u), NEW x \in Nodes
  PROVE  JoinOK(x)'
<1> USE DEF Joining
<1>0. /\ JoinOK(x) /\ CallOK(x) /\ pc[x] \in Steps
      /\ target[x] \in Nodes /\ rep[x] \in Nodes /\ cluster_ids[target[x]] \in Nodes
  BY DEF NodeOK, RoleOK, PlaceOK, TypeOK
<1>n. \A w \in Nodes : RoleOK(w)
  BY DEF NodeOK
<1>m. \A w \in Nodes : matching_state[w] = "MATCHED" => matching_state'[w] = "MATCHED"
  BY StateMonotone
<1>1. CASE x # u
  <2>1. /\ pc'[x] = pc[x] /\ target'[x] = target[x] /\ rep'[x] = rep[x]
        /\ origin'[x] = origin[x] /\ cluster_ids'[x] = cluster_ids[x]
    BY <1>1 DEF Step, FrameStep
  <2>2. pc[x] \in Joining => cluster_ids'[rep[x]] = rep[x]
    <3>1. CASE rep[x] = u
      <4>1. pc[x] \in Joining => pc[u] # "join_write"
        BY <1>1, <3>1, JoinerUnreferenced DEF JoinPhase
      <4> QED
        BY <1>0, <3>1, <4>1 DEF JoinOK, Step, OwnStep
    <3>2. CASE rep[x] # u
      BY <1>0, <3>2 DEF JoinOK, Step, FrameStep
    <3> QED
      BY <3>1, <3>2
  <2> QED
    BY <1>0, <1>m, <2>1, <2>2 DEF JoinOK
<1>2. CASE x = u
  <2>1. CASE pc[u] = "inspect"
    BY <1>2, <2>1 DEF JoinOK, Step, PcStep
  <2>2. CASE pc[u] = "acquire_v"
    <3>1. CASE matching_state[target[u]] = "UNMATCHED"
      <4>1. pc'[u] = "join_check" /\ rep'[u] = target[u] /\ origin'[u] = "acquired"
            /\ target'[u] = target[u]
        BY <2>2, <3>1 DEF Step, PcStep, JoinStep, OwnStep
      <4>2. target[u] # u
        BY <2>2 DEF NodeOK, RoleOK, PlaceOK, PartnerOK
      <4>3. pc[target[u]] \in Early \union {"done"}
        BY <1>0, <1>2, <3>1 DEF NodeOK, RoleOK, PlaceOK, OwnershipOK
      <4>4. cluster_ids[target[u]] = target[u]
        BY <1>0, <1>2, <3>1, <4>3 DEF NodeOK, RoleOK, PlaceOK, AloneOK
      <4>5. cluster_ids'[target[u]] = target[u]
        BY <1>0, <1>2, <4>2, <4>4 DEF Step, FrameStep
      <4> QED
        BY <1>2, <4>1, <4>2, <4>5 DEF JoinOK
    <3>2. CASE matching_state[target[u]] # "UNMATCHED"
      BY <1>2, <2>2, <3>2 DEF JoinOK, Step, PcStep
    <3> QED
      BY <3>1, <3>2
  <2>3. CASE pc[u] = "cycle"
    <3>1. CASE matching_partner[cur_u[u]] = u /\ smallest[u] = u
      <4>1. pc'[u] = "join_check" /\ rep'[u] = target[u] /\ origin'[u] = "cycle"
            /\ target'[u] = target[u]
        BY <2>3, <3>1 DEF Step, PcStep, JoinStep, OwnStep
      <4>2. target[u] # u
        BY <2>3 DEF NodeOK, RoleOK, PlaceOK, PartnerOK
      <4>3. target[u] \in visited[u]
        BY <1>n, <2>3, <3>1, CycleIntact DEF Closed
      <4>4. Live(target[u]) /\ ~InResolvedCycle(target[u])
        BY <1>n, <2>3, <3>1, <4>3, CycleIntact
      <4>5. target[u] \notin resolvers
        BY <1>0, <1>2, <4>4 DEF InResolvedCycle, NodeOK, RoleOK, PlaceOK, ResolverOK
      <4>6. cluster_ids[target[u]] = target[u]
        BY <1>0, <1>2, <4>4, <4>5 DEF NodeOK, RoleOK, PlaceOK, AloneOK, Live, WaitLoop, Waiting
      <4>7. cluster_ids'[target[u]] = target[u]
        BY <1>0, <1>2, <4>2, <4>6 DEF Step, FrameStep
      <4> QED
        BY <1>2, <4>1, <4>2, <4>7 DEF JoinOK
    <3>2. CASE ~(matching_partner[cur_u[u]] = u /\ smallest[u] = u)
      BY <1>2, <2>3, <3>2 DEF JoinOK, Step, PcStep
    <3> QED
      BY <3>1, <3>2
  <2>4. CASE pc[u] = "read_rep"
    <3> DEFINE r == cluster_ids[target[u]]
    <3>1. /\ pc'[u] = "join_check" /\ rep'[u] = r /\ origin'[u] = origin[u]
          /\ target'[u] = target[u]
      BY <2>4 DEF Step, PcStep, JoinStep, OwnStep
    <3>2. matching_state[target[u]] = "MATCHED" /\ origin[u] \in {"matched", "late"}
      BY <1>0, <1>2, <2>4 DEF CallOK
    <3>3. target[u] # u /\ matching_state[u] # "MATCHED"
      BY <2>4 DEF NodeOK, RoleOK, PlaceOK, PartnerOK, OwnershipOK
    <3>4. pc[target[u]] \notin {"join_weight", "release_v"}
      BY <1>0, <1>2, <3>2 DEF NodeOK, RoleOK, PlaceOK, OwnershipOK, JoinPhase
    <3>5. matching_state[r] = "MATCHED"
      BY <1>0, <1>2, <3>2, <3>4 DEF NodeOK, RoleOK, PlaceOK, PointerOK
    <3>6. r \in Nodes /\ r # u /\ cluster_ids[r] = r
      BY <1>0, <1>2, <3>3, <3>5 DEF ClusterInvariant
    <3>7. cluster_ids'[r] = r /\ matching_state'[r] = "MATCHED"
      BY <1>m, <3>5, <3>6 DEF Step, FrameStep
    <3> QED
      BY <1>2, <3>1, <3>2, <3>6, <3>7 DEF JoinOK
  <2>5. CASE pc[u] = "join_write"
    <3>1. /\ pc'[u] = "join_weight" /\ rep'[u] = rep[u] /\ origin'[u] = origin[u]
          /\ target'[u] = target[u] /\ cluster_ids'[u] = rep[u]
      BY <2>5 DEF Step, PcStep, JoinStep, OwnStep
    <3>2. cluster_ids'[rep[u]] = rep[u]
      BY <1>0, <1>2, <2>5 DEF JoinOK, Step, FrameStep
    <3> QED
      BY <1>0, <1>2, <1>m, <2>5, <3>1, <3>2 DEF JoinOK
  <2>6. CASE pc[u] \in {"join_check", "join_weight"}
    <3>1. /\ rep'[u] = rep[u] /\ origin'[u] = origin[u]
          /\ target'[u] = target[u] /\ cluster_ids'[u] = cluster_ids[u]
          /\ cluster_ids'[rep[u]] = cluster_ids[rep[u]]
      BY <1>0, <1>2, <2>6 DEF Step, JoinStep, OwnStep, FrameStep
    <3>2. pc'[u] \in {"join_write", AfterJoin(u)}
      BY <2>6 DEF Step, PcStep
    <3> QED
      BY <1>0, <1>2, <1>m, <2>6, <3>1, <3>2 DEF JoinOK, AfterJoin
  <2>7. CASE pc[u] \in {"idle", "check", "acquire_u", "publish", "release_v", "walk",
                        "wait", "late", "mark", "retract", "release_u", "done"}
    BY <1>2, <2>7 DEF JoinOK, Step, PcStep
  <2> QED
    BY <1>0, <1>2, <2>1, <2>2, <2>3, <2>4, <2>5, <2>6, <2>7
       DEF Steps, Outside, Waiting
<1> QED
  BY <1>1, <1>2

\* A step keeps the clusters flat.
LEMMA ClusterStep ==
  ASSUME TypeOK, overtaken = {}, \A w \in Nodes : NodeOK(w), ClusterInvariant, NEW u \in Nodes, Step(u)
  PROVE  ClusterInvariant'
<1> SUFFICES ASSUME NEW x \in Nodes PROVE cluster_ids'[cluster_ids'[x]] = cluster_ids'[x]
  BY DEF ClusterInvariant
<1>0. cluster_ids[x] \in Nodes /\ rep[u] \in Nodes
  BY DEF TypeOK
<1>1. CASE pc[u] = "join_write"
  <2>1. rep[u] # u /\ cluster_ids[rep[u]] = rep[u] /\ cluster_ids'[u] = rep[u]
    BY <1>1 DEF NodeOK, RoleOK, PlaceOK, JoinOK, Joining, Step, OwnStep
  <2>2. cluster_ids'[rep[u]] = rep[u]
    BY <1>0, <2>1 DEF Step, FrameStep
  <2>3. CASE x = u
    BY <2>1, <2>2, <2>3
  <2>4. CASE x # u
    <3>1. cluster_ids[x] # u
      BY <1>1, <2>4, JoinerUnreferenced DEF JoinPhase, Joining
    <3> QED
      BY <1>0, <2>4, <3>1 DEF Step, FrameStep, ClusterInvariant
  <2> QED
    BY <2>3, <2>4
<1>2. CASE pc[u] # "join_write"
  <2>1. \A w \in Nodes : cluster_ids'[w] = cluster_ids[w]
    BY <1>2 DEF Step, OwnStep, FrameStep
  <2> QED
    BY <1>0, <2>1 DEF ClusterInvariant
<1> QED
  BY <1>1, <1>2

\* A step keeps ExcuseOK: nobody stops waiting without a reason.
LEMMA ExcuseStep ==
  ASSUME TypeOK, \A w \in Nodes : RoleOK(w), NEW u \in Nodes, Step(u), NEW x \in Nodes
  PROVE  ExcuseOK(x)'
<1> USE DEF WaitLoop, Waiting
<1> SUFFICES ASSUME pc'[x] \in Published PROVE Live(x)' \/ Excused(x)'
  BY DEF ExcuseOK
<1>0. pc[x] \in Steps /\ target[x] \in Nodes
  BY DEF TypeOK
<1>m. /\ \A w \in Nodes : matching_state[w] = "MATCHED" => matching_state'[w] = "MATCHED"
      /\ pc[x] # "idle" => target'[x] = target[x]
      /\ InResolvedCycle(x) => InResolvedCycle(x)'
      /\ pc[x] # "idle" /\ Excused(x) => Excused(x)'
  BY StateMonotone, ResolvedStable DEF RoleOK
<1>1. CASE x # u
  <2>1. pc'[x] = pc[x] /\ pc[x] # "idle" /\ pc[x] \in Published
    BY <1>1 DEF Step, FrameStep, Published, JoinPhase, Joining
  <2>2. CASE Excused(x)
    BY <1>m, <2>1, <2>2
  <2>3. CASE Live(x)
    <3>1. CASE Settles(u, x)
      <4>1. pc[u] = "release_v" /\ x = target[u]
        BY <1>1, <3>1 DEF Settles
      <4>2. u \in resolvers /\ x \in visited[u]
        BY <2>3, <4>1, SettledNode DEF Live, Early
      <4> QED
        BY <1>m, <4>2 DEF InResolvedCycle, Excused
    <3>2. CASE ~Settles(u, x)
      BY <2>1, <2>3, <3>2 DEF Live, Step, StateStep
    <3> QED
      BY <3>1, <3>2
  <2> QED
    BY <2>1, <2>2, <2>3 DEF RoleOK, ExcuseOK
<1>2. CASE x = u
  <2>1. pc[u] \in Published \union {"publish"} /\ pc[u] # "idle"
    BY <1>0, <1>2
       DEF Step, PcStep, AfterJoin, Published, JoinPhase, Joining, Steps, Outside
  <2>2. CASE pc[u] = "publish"
    <3>1. matching_state[u] = "MATCHING_IN_PROGRESS" /\ pc'[u] = "inspect"
      BY <2>2 DEF RoleOK, OwnershipOK, Step, PcStep
    <3>2. matching_state'[u] = "MATCHING_IN_PROGRESS"
      BY <2>2, <3>1 DEF Step, StateStep, Settles, Acquires
    <3> QED
      BY <1>2, <3>1, <3>2 DEF Live
  <2>3. CASE pc[u] \in Published /\ Excused(u)
    BY <1>2, <1>m, <2>1, <2>3
  <2>4. CASE pc[u] \in Published /\ Live(u)
    <3>1. CASE pc'[u] \in WaitLoop
      <4>1. matching_state'[u] = "MATCHING_IN_PROGRESS"
        BY <2>4 DEF Live, Step, StateStep, Settles, Acquires
      <4> QED
        BY <1>2, <3>1, <4>1 DEF Live
    <3>2. CASE pc[u] = "inspect" /\ pc'[u] = "read_rep"
      <4>1. matching_state[target[u]] = "MATCHED"
        BY <3>2 DEF Step, PcStep
      <4> QED
        BY <1>0, <1>2, <1>m, <3>2, <4>1 DEF Excused, Dead
    <3>3. CASE pc[u] = "acquire_v" /\ pc'[u] = "join_check"
      <4>1. matching_state[target[u]] = "UNMATCHED"
        BY <3>3 DEF Step, PcStep
      <4>2. matching_state'[target[u]] = "MATCHING_IN_PROGRESS"
        BY <1>0, <1>2, <3>3, <4>1 DEF Step, StateStep, Acquires
      <4>3. pc[target[u]] \in Early \union {"done"} /\ target[u] # u
        BY <1>0, <1>2, <3>3, <4>1 DEF RoleOK, OwnershipOK, PartnerOK
      <4>4. pc'[target[u]] \in Early \union {"done"}
        BY <1>0, <1>2, <4>3 DEF Step, FrameStep
      <4> QED
        BY <1>2, <1>m, <2>1, <4>2, <4>4 DEF Excused, Dead
    <3>4. CASE pc[u] = "cycle" /\ pc'[u] = "join_check"
      <4>1. u \in resolvers' /\ visited'[u] = visited[u]
        BY <3>4 DEF Step, HistoryStep, WalkStep
      <4>2. u \in visited[u]
        BY <3>4 DEF RoleOK, WalkerOK
      <4> QED
        BY <1>2, <4>1, <4>2 DEF Excused, InResolvedCycle
    <3>5. CASE pc[u] = "wait" /\ pc'[u] = "late"
      <4>1. matching_state[target[u]] = "MATCHED"
        BY <1>0, <1>2, <3>5 DEF Step, PcStep, RoleOK, OwnershipOK, TypeOK, States
      <4> QED
        BY <1>0, <1>2, <1>m, <3>5, <4>1 DEF Excused, Dead
    <3> QED
      BY <1>0, <2>4, <3>1, <3>2, <3>3, <3>4, <3>5 DEF Live, Step, PcStep
  <2> QED
    BY <1>2, <2>1, <2>2, <2>3, <2>4 DEF RoleOK, ExcuseOK
<1> QED
  BY <1>1, <1>2

\* A node that waited or was excused waits or is excused after the step.
LEMMA SeenStep ==
  ASSUME TypeOK, \A w \in Nodes : RoleOK(w), NEW u \in Nodes, Step(u), NEW x \in Nodes,
         pc[x] # "idle", Live(x) \/ Excused(x)
  PROVE  Live(x)' \/ Excused(x)'
<1>1. CASE Excused(x)
  BY <1>1, ResolvedStable DEF RoleOK
<1>2. CASE Live(x)
  <2>1. pc[x] \in WaitLoop
    BY <1>2 DEF Live
  <2>2. pc'[x] \in Published
    BY <2>1 DEF Step, PcStep, FrameStep, Published, WaitLoop, Waiting, JoinPhase, Joining
  <2> QED
    BY <2>2, ExcuseStep DEF ExcuseOK
<1> QED
  BY <1>1, <1>2

\* A step keeps WalkerOK: what a search has seen stays a path of partners.
LEMMA WalkerStep ==
  ASSUME TypeOK, \A w \in Nodes : RoleOK(w), NEW u \in Nodes, Step(u), NEW x \in Nodes
  PROVE  WalkerOK(x)'
<1> SUFFICES ASSUME pc'[x] \in {"walk", "cycle"}
             PROVE  /\ x \in visited'[x] /\ cur_u'[x] \in visited'[x]
                    /\ \A z \in visited'[x] : SeenOK(x, z)'
                    /\ LeadsTo(visited[x], cur_u[x])'
  BY DEF WalkerOK
<1>0. pc[x] \in Steps /\ visited[x] \in SUBSET Nodes /\ cur_u[x] \in Nodes
  BY DEF TypeOK
<1>c. \A S \in SUBSET Nodes : Closed(S)' => Closed(S)
  BY ClosedBack DEF RoleOK
<1>s. ASSUME NEW z \in Nodes, target[z] \in visited[x],
             pc[z] \notin Early \union {"publish"}, matching_state[z] # "UNMATCHED",
             Live(z) \/ Excused(z)
      PROVE  /\ target'[z] \in visited[x] /\ pc'[z] \notin Early \union {"publish"}
             /\ matching_state'[z] # "UNMATCHED" /\ (Live(z)' \/ Excused(z)')
  <2>1. pc[z] # "idle"
    BY <1>s DEF Early
  <2> QED
    BY <1>s, <2>1, StateMonotone, SeenStep
\* The search does not move.
<1>1. CASE /\ pc[x] \in {"walk", "cycle"} /\ visited'[x] = visited[x]
           /\ cur_u'[x] = cur_u[x] /\ smallest'[x] = smallest[x]
  <2>1. /\ x \in visited[x] /\ cur_u[x] \in visited[x]
        /\ \A z \in visited[x] : SeenOK(x, z)
        /\ LeadsTo(visited[x], cur_u[x])
    BY <1>1 DEF RoleOK, WalkerOK
  <2>2. \A z \in visited'[x] : SeenOK(x, z)'
    BY <1>0, <1>1, <1>s, <2>1 DEF SeenOK
  <2>3. LeadsTo(visited[x], cur_u[x])'
    BY <1>1, <1>c, <2>1 DEF LeadsTo
  <2> QED
    BY <1>1, <2>1, <2>2, <2>3
\* A new search starts.
<1>2. CASE visited'[x] = {x} /\ cur_u'[x] = x /\ smallest'[x] = x
  <2>1. SeenOK(x, x)'
    <3>1. x \in Nat /\ x <= x
      BY NodesAssumption
    <3> QED
      BY <1>2, <3>1 DEF SeenOK
  <2>2. LeadsTo(visited[x], cur_u[x])'
    BY <1>2 DEF LeadsTo
  <2> QED
    BY <1>2, <2>1, <2>2
\* The search advances to the partner of its last node.
<1>3. CASE x = u /\ pc[u] = "walk" /\ pc'[u] = "walk"
  <2> DEFINE c == cur_u[u]
             n == matching_partner[cur_u[u]]
  <2>1. /\ cur_u'[u] = n /\ n # c /\ visited'[u] = visited[u] \union {n}
        /\ smallest'[u] = IF n < smallest[u] THEN n ELSE smallest[u]
    BY <1>3 DEF Step, WalkStep
  <2>2. /\ u \in visited[u] /\ c \in visited[u]
        /\ \A z \in visited[u] : SeenOK(u, z)
        /\ LeadsTo(visited[u], c)
    BY <1>3 DEF RoleOK, WalkerOK
  <2>3. pc[c] \in Published /\ target[c] = n /\ n \in Nodes
    BY <1>0, <1>3, <2>1 DEF RoleOK, PartnerOK, TypeOK
  <2>4. /\ matching_state[c] # "UNMATCHED" /\ pc[c] \notin Early \union {"publish"}
        /\ Live(c) \/ Excused(c)
    <3>1. pc[c] \notin Early \union {"publish", "done"}
      BY <2>3 DEF Published, WaitLoop, JoinPhase, Joining, Waiting, Early
    <3> QED
      BY <1>0, <1>3, <2>3, <3>1 DEF RoleOK, OwnershipOK, ExcuseOK
  <2>5. \A z \in Nodes : /\ pc'[z] = pc[z] /\ matching_state'[z] = matching_state[z]
                         /\ target'[z] = target[z]
    BY <1>3 DEF Step, FrameStep, StateStep, Acquires, Settles, OwnStep
  <2>6. \A z \in visited[u] : smallest'[u] <= z
    <3>1. smallest[u] \in Nat /\ n \in Nat /\ visited[u] \subseteq Nat
      BY <1>0, <1>3, <2>3, NodesAssumption DEF TypeOK
    <3>2. \A z \in visited[u] : smallest[u] <= z
      BY <2>2 DEF SeenOK
    <3> QED
      BY <2>1, <3>1, <3>2
  <2>7. smallest'[u] <= n
    <3>1. smallest[u] \in Nat /\ n \in Nat
      BY <2>3, NodesAssumption DEF TypeOK
    <3> QED
      BY <2>1, <3>1
  <2>8. ASSUME NEW z \in visited'[u] PROVE SeenOK(u, z)'
    <3>1. CASE z = n
      BY <2>1, <2>7, <3>1 DEF SeenOK
    <3>2. CASE z # n
      <4>1. z \in visited[u] /\ z \in Nodes
        BY <1>0, <1>3, <2>1, <3>2, <2>8
      <4>2. /\ target[z] \in visited'[u] /\ pc[z] \notin Early \union {"publish"}
            /\ matching_state[z] # "UNMATCHED" /\ (Live(z) \/ Excused(z))
        <5>1. CASE z = c
          BY <2>1, <2>3, <2>4, <5>1
        <5>2. CASE z # c
          BY <2>1, <2>2, <4>1, <5>2 DEF SeenOK
        <5> QED
          BY <5>1, <5>2
      <4>3. Live(z)' \/ Excused(z)'
        <5>1. pc[z] # "idle"
          BY <4>2 DEF Early
        <5> QED
          BY <4>1, <4>2, <5>1, SeenStep
      <4> QED
        BY <2>5, <2>6, <4>1, <4>2, <4>3 DEF SeenOK
    <3> QED
      BY <3>1, <3>2
  <2>9. LeadsTo(visited[u], cur_u[u])'
    <3> SUFFICES ASSUME NEW S \in SUBSET Nodes, Closed(S)', S \intersect visited'[u] # {}
                 PROVE  n \in S
      BY <2>1 DEF LeadsTo
    <3>1. Closed(S)
      BY <1>c
    <3>2. CASE S \intersect visited[u] # {}
      <4>1. c \in S
        BY <2>2, <3>1, <3>2 DEF LeadsTo
      <4> QED
        BY <2>3, <3>1, <4>1 DEF Closed
    <3>3. CASE S \intersect visited[u] = {}
      BY <2>1, <3>3
    <3> QED
      BY <3>2, <3>3
  <2> QED
    BY <1>3, <2>1, <2>2, <2>8, <2>9
<1>4. CASE x # u
  BY <1>1, <1>4 DEF Step, FrameStep
<1>5. CASE x = u /\ pc[u] = "walk" /\ pc'[u] # "walk"
  BY <1>1, <1>5 DEF Step, WalkStep
<1>6. CASE x = u /\ pc[u] # "walk" /\ pc'[u] = "walk"
  BY <1>2, <1>6 DEF Step, WalkStep
<1>7. CASE x = u /\ pc[u] # "walk" /\ pc'[u] # "walk"
  BY <1>0, <1>7 DEF Step, PcStep, AfterJoin, Steps, Outside, Joining, Waiting
<1> QED
  BY <1>3, <1>4, <1>5, <1>6, <1>7

\* A step keeps ResolverOK: a cycle has one resolver, its smallest node.
LEMMA ResolverStep ==
  ASSUME TypeOK, \A w \in Nodes : RoleOK(w), NEW u \in Nodes, Step(u), NEW y \in Nodes
  PROVE  ResolverOK(y)'
<1> USE DEF JoinPhase, Joining
<1> SUFFICES ASSUME y \in resolvers'
             PROVE  /\ pc'[y] \in JoinPhase \union {"wait", "late", "read_rep", "mark",
                                                    "retract", "release_u", "done"}
                    /\ pc'[y] = "wait" => matching_state'[target'[y]] = "MATCHED"
                    /\ y \in visited'[y] /\ Closed(visited[y])'
                    /\ \A x \in visited'[y] :
                         /\ y <= x
                         /\ pc'[x] \notin Early \union {"publish"}
                         /\ matching_state'[x] # "UNMATCHED"
                    /\ LeadsTo(visited[y], y)'
  BY DEF ResolverOK
<1>0. visited[y] \in SUBSET Nodes /\ target[y] \in Nodes
  BY DEF TypeOK
<1>c. \A S \in SUBSET Nodes : Closed(S)' => Closed(S)
  BY ClosedBack DEF RoleOK
<1>r. ASSUME visited'[y] = visited[y], y \in visited[y], Closed(visited[y]),
             LeadsTo(visited[y], y),
             \A x \in visited[y] : /\ y <= x
                                   /\ pc[x] \notin Early \union {"publish"}
                                   /\ matching_state[x] # "UNMATCHED"
      PROVE  /\ y \in visited'[y] /\ Closed(visited[y])'
             /\ \A x \in visited'[y] :
                  /\ y <= x
                  /\ pc'[x] \notin Early \union {"publish"}
                  /\ matching_state'[x] # "UNMATCHED"
             /\ LeadsTo(visited[y], y)'
  <2>1. \A x \in visited[y] : /\ target'[x] = target[x]
                              /\ pc'[x] \notin Early \union {"publish"}
                              /\ matching_state'[x] # "UNMATCHED"
    BY <1>0, <1>r, StateMonotone DEF Early
  <2>2. Closed(visited[y])'
    BY <1>r, <2>1 DEF Closed
  <2>3. LeadsTo(visited[y], y)'
    BY <1>r, <1>c DEF LeadsTo
  <2> QED
    BY <1>r, <2>1, <2>2, <2>3
<1>1. CASE y \in resolvers
  <2>1. visited'[y] = visited[y]
    BY <1>1, ResolvedStable DEF RoleOK
  <2>2. /\ pc[y] \in JoinPhase \union {"wait", "late", "read_rep", "mark", "retract",
                                       "release_u", "done"}
        /\ pc[y] = "wait" => matching_state[target[y]] = "MATCHED"
    BY <1>1 DEF RoleOK, ResolverOK
  <2>3. CASE y # u
    <3>1. pc'[y] = pc[y] /\ target'[y] = target[y]
      BY <2>3 DEF Step, FrameStep
    <3>2. matching_state[target[y]] = "MATCHED" => matching_state'[target[y]] = "MATCHED"
      BY <1>0, StateMonotone
    <3> QED
      BY <1>1, <1>r, <2>1, <2>2, <3>1, <3>2 DEF RoleOK, ResolverOK
  <2>4. CASE y = u
    <3>1. /\ pc'[u] \in JoinPhase \union {"wait", "late", "read_rep", "mark", "retract",
                                          "release_u", "done"}
          /\ pc'[u] = "wait" => pc[u] = "release_v"
      BY <2>2, <2>4 DEF Step, PcStep, AfterJoin
    <3>2. pc[u] = "release_v" => matching_state'[target'[u]] = "MATCHED"
      BY <1>0, <2>4 DEF Step, OwnStep, StateStep, Settles, Acquires
    <3> QED
      BY <1>1, <1>r, <2>1, <2>4, <3>1, <3>2 DEF RoleOK, ResolverOK
  <2> QED
    BY <2>3, <2>4
<1>2. CASE y \notin resolvers
  <2>1. y = u /\ pc[u] = "cycle" /\ pc'[u] = "join_check"
    BY <1>2 DEF Step, HistoryStep
  <2>2. matching_partner[cur_u[u]] = u /\ smallest[u] = u
    BY <2>1 DEF Step, PcStep
  <2>3. visited'[y] = visited[y]
    BY <2>1 DEF Step, WalkStep
  <2>4. /\ y \in visited[y] /\ Closed(visited[y]) /\ LeadsTo(visited[y], y)
        /\ \A x \in visited[y] : /\ y <= x
                                 /\ pc[x] \notin Early \union {"publish"}
                                 /\ matching_state[x] # "UNMATCHED"
    BY <2>1, <2>2, CycleIntact
  <2> QED
    BY <1>r, <2>1, <2>3, <2>4
<1> QED
  BY <1>1, <1>2

\* A step keeps ResolvingOK: the other nodes of a cycle wait while it is resolved.
LEMMA ResolvingStep ==
  ASSUME TypeOK, \A w \in Nodes : RoleOK(w), NEW u \in Nodes, Step(u), NEW y \in Nodes
  PROVE  ResolvingOK(y)'
<1> USE DEF JoinPhase, Joining
<1> SUFFICES ASSUME Resolving(y)'
             PROVE  y \in resolvers' /\ \A x \in visited'[y] \ {y} : Live(x)'
  BY DEF ResolvingOK
<1>0. pc[y] \in Steps /\ visited[y] \in SUBSET Nodes
  BY DEF TypeOK
<1>1. CASE Resolving(y)
  <2>1. y \in resolvers /\ \A x \in visited[y] \ {y} : Live(x)
    BY <1>1 DEF RoleOK, ResolvingOK
  <2>2. y \in resolvers' /\ visited'[y] = visited[y]
    BY <2>1, ResolvedStable DEF RoleOK
  <2>3. Closed(visited[y]) /\ y \in visited[y]
    BY <2>1 DEF RoleOK, ResolverOK
  <2>4. ASSUME NEW x \in visited[y] \ {y} PROVE Live(x)'
    <3>0. Live(x) /\ x \in Nodes /\ target[x] \in visited[y]
      BY <1>0, <2>1, <2>3 DEF Closed
    <3>1. ~Settles(u, x)
      <4>1. CASE pc[u] = "release_v" /\ x = target[u]
        <5>1. u \in resolvers /\ x \in visited[u]
          BY <3>0, <4>1, SettledNode DEF Live, Early, WaitLoop, Waiting
        <5>2. u = y
          BY <2>1, <3>0, <5>1, ResolverUnique DEF RoleOK
        <5> QED
          BY <4>1, <5>2 DEF Resolving, Step, PcStep
      <4>2. CASE pc[u] = "release_u" /\ x = u
        BY <3>0, <4>2 DEF Live, WaitLoop, Waiting
      <4> QED
        BY <4>1, <4>2 DEF Settles
    <3>2. matching_state'[x] = "MATCHING_IN_PROGRESS"
      BY <3>0, <3>1 DEF Live, Step, StateStep
    <3>3. CASE x # u
      BY <3>0, <3>2, <3>3 DEF Live, Step, FrameStep
    <3>4. CASE x = u
      <4>1. matching_state[target[u]] = "MATCHING_IN_PROGRESS"
        <5>1. CASE target[u] = y
          BY <1>1, <5>1 DEF Resolving, RoleOK, OwnershipOK
        <5>2. CASE target[u] # y
          BY <2>1, <3>0, <3>4, <5>2 DEF Live
        <5> QED
          BY <5>1, <5>2
      <4>2. ~(pc[u] = "cycle" /\ matching_partner[cur_u[u]] = u /\ smallest[u] = u)
        <5> SUFFICES ASSUME pc[u] = "cycle", matching_partner[cur_u[u]] = u, smallest[u] = u
                     PROVE  FALSE
          OBVIOUS
        <5>1. u \in visited[u] /\ ~InResolvedCycle(u)
          BY CycleIntact
        <5> QED
          BY <2>1, <3>4, <5>1 DEF InResolvedCycle
      <4>3. pc'[u] \in WaitLoop
        BY <3>0, <3>4, <4>1, <4>2 DEF Live, Step, PcStep, WaitLoop, Waiting
      <4> QED
        BY <3>2, <3>4, <4>3 DEF Live
    <3> QED
      BY <3>3, <3>4
  <2> QED
    BY <2>2, <2>4
<1>2. CASE ~Resolving(y)
  <2>1. y = u
    BY <1>2 DEF Resolving, Step, FrameStep
  <2>2. pc[u] = "cycle" /\ pc'[u] = "join_check"
    <3>1. pc[u] \in {"acquire_v", "read_rep", "cycle"} \union Joining
      BY <1>0, <2>1 DEF Resolving, Step, PcStep, AfterJoin, Steps, Outside, Waiting
    <3>2. pc[u] # "acquire_v"
      BY <2>1 DEF Resolving, Step, PcStep, JoinStep
    <3>3. pc[u] # "read_rep"
      BY <2>1 DEF Resolving, Step, JoinStep, RoleOK, CallOK
    <3>4. pc[u] \notin Joining
      BY <1>2, <2>1 DEF Resolving, Step, JoinStep
    <3> QED
      BY <2>1, <3>1, <3>2, <3>3, <3>4 DEF Resolving, Step, PcStep
  <2>3. matching_partner[cur_u[u]] = u /\ smallest[u] = u
    BY <2>2 DEF Step, PcStep
  <2>4. u \in resolvers' /\ visited'[u] = visited[u]
    BY <2>2 DEF Step, HistoryStep, WalkStep
  <2>5. ASSUME NEW x \in visited[u] \ {u} PROVE Live(x)'
    <3>1. Live(x) /\ x \in Nodes
      BY <1>0, <2>1, <2>2, <2>3, CycleIntact
    <3> QED
      BY <2>2, <3>1 DEF Live, Step, FrameStep, StateStep, Settles, Acquires
  <2> QED
    BY <2>1, <2>4, <2>5
<1> QED
  BY <1>1, <1>2

-----------------------------------------------------------------------------
(* The invariant and what follows from it *)

\* A step keeps RejoinOK.
LEMMA RejoinStep ==
  ASSUME TypeOK, ClusterInvariant, \A w \in Nodes : NodeOK(w), NEW u \in Nodes, Step(u),
         NEW x \in Nodes
  PROVE  RejoinOK(x)'
<1>0. RejoinOK(x) /\ AloneOK(x) /\ JoinOK(x) /\ pc[x] \in Steps
  BY DEF NodeOK, RoleOK, PlaceOK, TypeOK
<1>1. CASE x # u
  BY <1>0, <1>1 DEF RejoinOK, Step, FrameStep
<1>2. CASE x = u
  <2> USE <1>2
  <2>1. CASE pc[u] \in {"inspect", "acquire_v", "cycle"}
    <3>1. cluster_ids[u] = u /\ cluster_ids'[u] = cluster_ids[u]
      BY <1>0, <2>1 DEF AloneOK, Step, OwnStep
    <3> QED
      BY <3>1 DEF RejoinOK
  <2>2. CASE pc[u] = "read_rep"
    <3>1. /\ cluster_ids'[u] = cluster_ids[u] /\ pc'[u] = "join_check"
          /\ rep'[u] = cluster_ids[target[u]]
      BY <2>2 DEF Step, OwnStep, PcStep, JoinStep
    <3>2. cluster_ids[u] = target[u] => cluster_ids[target[u]] = target[u]
      BY DEF ClusterInvariant
    <3> QED
      BY <1>0, <2>2, <3>1, <3>2 DEF RejoinOK
  <2>3. CASE pc[u] \in {"join_check", "join_write", "join_weight"}
    <3>1. /\ rep'[u] = rep[u] /\ target'[u] = target[u] /\ origin'[u] = origin[u]
          /\ cluster_ids'[u] = IF pc[u] = "join_write" THEN rep[u] ELSE cluster_ids[u]
      BY <2>3 DEF Step, OwnStep, JoinStep
    <3>2. cluster_ids'[u] \in {u, rep[u]}
      BY <1>0, <2>3, <3>1 DEF RejoinOK, JoinOK
    <3>3. pc'[u] = "release_v" => rep[u] = target[u]
      BY <1>0, <2>3 DEF JoinOK, Joining, Step, PcStep, AfterJoin
    <3>4. pc'[u] \notin {"wait", "late", "read_rep"}
      BY <2>3 DEF Step, PcStep, AfterJoin
    <3> QED
      BY <3>1, <3>2, <3>3, <3>4 DEF RejoinOK
  <2>4. CASE pc[u] \in {"wait", "late", "release_v"}
    <3>1. cluster_ids'[u] = cluster_ids[u] /\ target'[u] = target[u]
      BY <2>4 DEF Step, OwnStep
    <3>2. pc'[u] \notin {"join_check", "join_write"}
      BY <2>4 DEF Step, PcStep
    <3> QED
      BY <1>0, <2>4, <3>1, <3>2 DEF RejoinOK
  <2>5. CASE pc[u] \in Early \union {"publish", "walk", "mark", "retract", "release_u"}
    <3>1. pc'[u] \notin {"wait", "late", "read_rep", "release_v", "join_check", "join_write"}
      BY <2>5 DEF Step, PcStep, Early
    <3> QED
      BY <3>1 DEF RejoinOK
  <2>6. pc[u] # "done"
    BY DEF Step, PcStep
  <2> QED
    BY <1>0, <2>1, <2>2, <2>3, <2>4, <2>5, <2>6
       DEF Steps, Outside, Joining, Waiting, Early
<1> QED
  BY <1>1, <1>2

\* The invariant holds when the pass begins.
LEMMA IndInvInit == Init => IndInv
<1> SUFFICES ASSUME Init PROVE IndInv
  OBVIOUS
<1>1. TypeOK
  BY TypeInit
<1>2. ClusterInvariant
  BY DEF Init, ClusterInvariant
<1>3. ASSUME NEW u \in Nodes PROVE NodeOK(u)
  <2>1. pc[u] = "idle" /\ target[u] = u /\ matching_partner[u] = u /\ cluster_ids[u] = u
        /\ resolvers = {} /\ matching_state[u] = "UNMATCHED"
    BY DEF Init
  <2>2. PartnerOK(u) /\ ExcuseOK(u) /\ OwnershipOK(u)
    BY <2>1 DEF PartnerOK, ExcuseOK, OwnershipOK, Published, WaitLoop, Waiting, Joining,
                JoinPhase, Early
  <2>3. HolderOK(u) /\ CallOK(u) /\ PointerOK(u) /\ AloneOK(u) /\ JoinOK(u) /\ RejoinOK(u)
    BY <2>1 DEF HolderOK, Holds, CallOK, PointerOK, AloneOK, JoinOK, RejoinOK, Joining,
                JoinPhase
  <2>4. WalkerOK(u) /\ ResolverOK(u) /\ ResolvingOK(u)
    BY <2>1 DEF WalkerOK, ResolverOK, ResolvingOK, Resolving, Joining, JoinPhase
  <2> QED
    BY <2>2, <2>3, <2>4 DEF NodeOK, RoleOK, PlaceOK
<1> QED
  BY <1>1, <1>2, <1>3 DEF IndInv, NodeOK

\* Every step keeps the invariant.
LEMMA IndInvStep == IndInv /\ [Next]_vars => IndInv'
<1> SUFFICES ASSUME IndInv, [Next]_vars PROVE IndInv'
  OBVIOUS
<1>1. CASE \E u \in Nodes : Iterate(u)
  <2> PICK u \in Nodes : Iterate(u)
    BY <1>1
  <2>1. TypeOK /\ TypeOK' /\ Step(u)
    BY TypeStep, StepHolds DEF IndInv
  <2>2. ASSUME NEW x \in Nodes PROVE RoleOK(x)'
    <3>1. \A w \in Nodes : RoleOK(w)
      BY DEF IndInv
    <3>2. PartnerOK(x)'
      BY <2>1, <3>1, PartnerStep DEF RoleOK
    <3>3. OwnershipOK(x)' /\ HolderOK(x)' /\ CallOK(x)'
      BY <2>1, <3>1, OwnershipStep, HolderStep, CallStep
    <3>4. ExcuseOK(x)' /\ WalkerOK(x)' /\ ResolverOK(x)' /\ ResolvingOK(x)'
      BY <2>1, <3>1, ExcuseStep, WalkerStep, ResolverStep, ResolvingStep
    <3> QED
      BY <3>2, <3>3, <3>4 DEF RoleOK
  <2>3. ASSUME overtaken' = {} PROVE ClusterInvariant' /\ \A x \in Nodes : PlaceOK(x)'
    <3>1. overtaken = {}
      BY <2>1, <2>3 DEF Step, HistoryStep
    <3>2. ClusterInvariant /\ \A w \in Nodes : NodeOK(w)
      BY <3>1 DEF IndInv, NodeOK
    <3>3. ASSUME NEW x \in Nodes PROVE PlaceOK(x)'
      <4>1. PointerOK(x)' /\ AloneOK(x)'
        BY <2>1, <3>2, PointerStep, AloneStep
      <4>2. JoinOK(x)' /\ RejoinOK(x)'
        BY <2>1, <3>1, <3>2, JoinTargetStep, RejoinStep
      <4> QED
        BY <4>1, <4>2 DEF PlaceOK
    <3>4. ClusterInvariant'
      BY <2>1, <3>1, <3>2, ClusterStep
    <3> QED
      BY <3>3, <3>4
  <2> QED
    BY <2>1, <2>2, <2>3 DEF IndInv
<1>2. CASE UNCHANGED vars
  <2> USE <1>2 DEF vars, shared, locals, aux
  <2>1. TypeOK' /\ (overtaken' = {} => overtaken = {})
    BY DEF IndInv, TypeOK
  <2>2. ClusterInvariant => ClusterInvariant'
    BY DEF ClusterInvariant
  <2>3. ASSUME NEW x \in Nodes, PlaceOK(x) PROVE PlaceOK(x)'
    BY <2>3 DEF PlaceOK, PointerOK, AloneOK, JoinOK, RejoinOK
  <2>4. ASSUME NEW x \in Nodes, RoleOK(x) PROVE RoleOK(x)'
    <3>1. PartnerOK(x)' /\ CallOK(x)'
      BY <2>4 DEF RoleOK, PartnerOK, CallOK
    <3>2. OwnershipOK(x)' /\ ExcuseOK(x)'
      BY <2>4 DEF RoleOK, OwnershipOK, ExcuseOK, Live, Dead, Excused, InResolvedCycle
    <3>3. HolderOK(x)'
      BY <2>4 DEF RoleOK, HolderOK, Holds
    <3>4. WalkerOK(x)'
      BY <2>4 DEF RoleOK, WalkerOK, SeenOK, LeadsTo, Closed, Live, Dead, Excused,
                  InResolvedCycle
    <3>5. ResolverOK(x)' /\ ResolvingOK(x)'
      BY <2>4 DEF RoleOK, ResolverOK, ResolvingOK, Resolving, LeadsTo, Closed, Live
    <3> QED
      BY <3>1, <3>2, <3>3, <3>4, <3>5 DEF RoleOK
  <2> QED
    BY <2>1, <2>2, <2>3, <2>4 DEF IndInv
<1> QED
  BY <1>1, <1>2 DEF Next, PassComplete


\* The invariant of the pass holds in every reachable state.
THEOREM IndInvariant == Spec => []IndInv
BY IndInvInit, IndInvStep, PTL DEF Spec

\* Every cluster has a representative that stands for itself, at every moment and
\* for every interleaving of matchVertices, unless a thread that had published its
\* partner was overtaken before it looked at the state of that partner.
THEOREM ClusterSafety == Spec => []ClusterInvariantUnlessOvertaken
<1>1. IndInv => ClusterInvariantUnlessOvertaken
  BY DEF IndInv, ClusterInvariantUnlessOvertaken
<1> QED
  BY <1>1, IndInvariant, PTL

\* Both assertions of matchVertices about the representative that is joined hold.
THEOREM JoinSafety ==
  Spec => []JoinTargetIsRepresentative /\ []RepresentativeIsMatched
<1>1. IndInv => JoinTargetIsRepresentative
  BY DEF IndInv, JoinTargetIsRepresentative, NodeOK, RoleOK, PlaceOK, JoinOK
<1>2. IndInv => RepresentativeIsMatched
  BY DEF IndInv, RepresentativeIsMatched, NodeOK, RoleOK, PlaceOK, JoinOK
<1> QED
  BY <1>1, <1>2, IndInvariant, PTL

\* A MATCHED node stays MATCHED, and its cluster id changes in one case only: its own
\* thread was overtaken, that is it found its partner MATCHED after the node itself
\* had been matched by the thread that resolved their cyclic dependency.  Nothing is
\* assumed about other threads: they may have been overtaken before.
THEOREM MatchedFinality == Spec => MatchedIsFinal
<1> DEFINE Final ==
      \A u \in Nodes : matching_state[u] = "MATCHED" =>
        /\ matching_state'[u] = "MATCHED"
        /\ cluster_ids'[u] = cluster_ids[u] \/ u \in overtaken
<1>1. IndInv /\ [Next]_vars => [Final]_vars
  <2> SUFFICES ASSUME IndInv, NEW u \in Nodes, Iterate(u),
                      NEW x \in Nodes, matching_state[x] = "MATCHED"
               PROVE  /\ matching_state'[x] = "MATCHED"
                      /\ cluster_ids'[x] = cluster_ids[x] \/ x \in overtaken
    BY DEF Next, PassComplete
  <2>1. TypeOK /\ Step(u)
    BY StepHolds DEF IndInv
  <2>2. RoleOK(x)
    BY DEF IndInv
  <2>3. matching_state'[x] = "MATCHED"
    BY <2>1, StateMonotone
  <2>4. x = u /\ pc[u] = "join_write" => x \in overtaken
    BY <2>2 DEF RoleOK, OwnershipOK, JoinPhase, Joining
  <2> QED
    BY <2>1, <2>3, <2>4 DEF Step, OwnStep, FrameStep
<1> QED
  BY <1>1, IndInvariant, PTL DEF Spec, MatchedIsFinal

-----------------------------------------------------------------------------
(* Refinement *)

\* The committed nodes of the abstract clustering.
Settled == {x \in Nodes : matching_state[x] = "MATCHED"}

\* A join is an abstract join, or repeats the one by which a cycle was resolved.
LEMMA JoinWriteRefines ==
  ASSUME TypeOK, overtaken = {}, ClusterInvariant, \A w \in Nodes : NodeOK(w), NEW u \in Nodes, Step(u),
         TypeOK', pc[u] = "join_write"
  PROVE  Abstract!Join(u, rep[u]) \/ UNCHANGED Abstract!vars
<1>1. Settled' = Settled
  BY DEF Step, StateStep, Acquires, Settles, Settled
<1>2. cluster_ids' = [cluster_ids EXCEPT ![u] = rep[u]]
  <2>1. \A x \in Nodes : cluster_ids'[x] = IF x = u THEN rep[u] ELSE cluster_ids[x]
    BY DEF Step, OwnStep, FrameStep
  <2> QED
    BY <2>1 DEF TypeOK
<1>3. /\ matching_state[u] = "MATCHING_IN_PROGRESS" /\ cluster_ids[u] \in {u, rep[u]}
      /\ rep[u] # u /\ cluster_ids[rep[u]] = rep[u]
  BY DEF NodeOK, RoleOK, PlaceOK, OwnershipOK, RejoinOK, JoinOK, Joining, JoinPhase
<1>4. CASE cluster_ids[u] = rep[u]
  <2>1. cluster_ids' = cluster_ids
    BY <1>2, <1>4 DEF TypeOK
  <2> QED
    BY <1>1, <2>1 DEF Abstract!vars, Settled
<1>5. CASE cluster_ids[u] = u
  <2>1. \A x \in Nodes : cluster_ids[x] = u <=> x = u
    BY <1>5, JoinerUnreferenced DEF JoinPhase, Joining
  <2>2. u \notin Settled
    BY <1>3 DEF Settled
  <2> QED
    BY <1>1, <1>2, <1>3, <2>1, <2>2 DEF Abstract!Join, Settled
<1> QED
  BY <1>3, <1>4, <1>5

\* A node is settled after its representative.
LEMMA SettleRefines ==
  ASSUME TypeOK, \A w \in Nodes : NodeOK(w), NEW u \in Nodes, Step(u), TypeOK',
         NEW x \in Nodes, Settles(u, x)
  PROVE  Abstract!Commit(x)
<1>1. cluster_ids[x] \in Settled \union {x}
  <2>1. PointerOK(x) /\ cluster_ids[x] \in Nodes
    BY DEF NodeOK, RoleOK, PlaceOK, TypeOK
  <2>2. pc[x] \notin {"join_weight", "release_v"}
    <3>1. CASE pc[u] = "release_u" /\ x = u
      BY <3>1
    <3>2. CASE pc[u] = "release_v" /\ x = target[u]
      <4>1. origin[u] \in {"acquired", "cycle"} /\ x # u
        BY <3>2 DEF NodeOK, RoleOK, CallOK, PartnerOK
      <4>2. CASE origin[u] = "acquired"
        BY <3>2, <4>2 DEF NodeOK, RoleOK, PlaceOK, HolderOK, Holds, JoinPhase, Early
      <4>3. CASE origin[u] = "cycle"
        <5>1. u \in resolvers /\ \A z \in visited[u] \ {u} : Live(z)
          BY <3>2, <4>3 DEF NodeOK, RoleOK, PlaceOK, ResolvingOK, Resolving, JoinPhase
        <5>2. x \in visited[u]
          BY <3>2, <5>1 DEF NodeOK, RoleOK, PlaceOK, ResolverOK, Closed
        <5> QED
          BY <4>1, <5>1, <5>2 DEF Live, WaitLoop, Waiting
      <4> QED
        BY <4>1, <4>2, <4>3
    <3> QED
      BY <3>1, <3>2 DEF Settles
  <2> QED
    BY <2>1, <2>2 DEF PointerOK, Settled
<1>2. Settled' = Settled \union {x}
  BY DEF Step, StateStep, Settles, Acquires, Settled
<1>3. cluster_ids' = cluster_ids
  <2>1. \A z \in Nodes : cluster_ids'[z] = cluster_ids[z]
    BY DEF Settles, Step, OwnStep, FrameStep
  <2> QED
    BY <2>1 DEF TypeOK
<1> QED
  BY <1>1, <1>2, <1>3 DEF Abstract!Commit, Settled

\* The clustering pass implements the abstract clustering for as long as no thread
\* was overtaken: joins go to representatives and are final once committed.
THEOREM Refinement == Spec => ImplementsClustering
<1> DEFINE Implements == overtaken' = {} => [Abstract!Next]_(Abstract!vars)
<1>1. Init => Abstract!Init
  BY DEF Init, Abstract!Init
<1>2. IndInv /\ [Next]_vars => [Implements]_vars
  <2> SUFFICES ASSUME IndInv, NEW u \in Nodes, Iterate(u), overtaken' = {}
               PROVE  [Abstract!Next]_(Abstract!vars)
    BY DEF Next, PassComplete
  <2>1. TypeOK /\ TypeOK' /\ Step(u)
    BY TypeStep, StepHolds DEF IndInv
  <2>2. overtaken = {} /\ ClusterInvariant /\ \A w \in Nodes : NodeOK(w)
    BY <2>1 DEF IndInv, NodeOK, Step, HistoryStep
  <2>3. CASE pc[u] = "join_write"
    <3>1. rep[u] \in Nodes
      BY <2>1 DEF TypeOK
    <3> QED
      BY <2>1, <2>2, <2>3, <3>1, JoinWriteRefines DEF Abstract!Next
  <2>4. CASE pc[u] \in {"release_u", "release_v"}
    <3>1. PICK x \in Nodes : Settles(u, x)
      BY <2>1, <2>4 DEF Settles, TypeOK
    <3> QED
      BY <2>1, <2>2, <3>1, SettleRefines DEF Abstract!Next
  <2>5. CASE pc[u] \notin {"join_write", "release_u", "release_v"}
    <3>1. cluster_ids' = cluster_ids
      <4>1. \A z \in Nodes : cluster_ids'[z] = cluster_ids[z]
        BY <2>1, <2>5 DEF Step, OwnStep, FrameStep
      <4> QED
        BY <2>1, <4>1 DEF TypeOK
    <3>2. Settled' = Settled
      BY <2>1, <2>5 DEF Step, StateStep, Settles, Acquires, Settled
    <3> QED
      BY <3>1, <3>2 DEF Abstract!vars, Settled
  <2> QED
    BY <2>3, <2>4, <2>5
<1> QED
  BY <1>1, <1>2, IndInvariant, PTL DEF Spec, ImplementsClustering

-----------------------------------------------------------------------------
(* The weights of the clusters *)

\* What a step does to the weights, and what the two checks on the way mean.
WeightStep(u) ==
  /\ pc[u] = "join_weight" =>
       /\ joins' = [joins EXCEPT ![u] = @ + 1]
       /\ cluster_weight' = [cluster_weight EXCEPT ![rep[u]] = @ + NodeWeight[u]]
  /\ pc[u] # "join_weight" => joins' = joins /\ cluster_weight' = cluster_weight
  /\ pc[u] = "join_check" /\ pc'[u] = "join_write" =>
       NodeWeight[u] + cluster_weight[rep[u]] <= MaxAllowedNodeWeight
  /\ pc[u] = "idle" /\ pc'[u] = "check" => Cardinality(Running) < NumThreads

\* A step of the iteration of u changes the weights as described.
LEMMA WeightStepHolds ==
  ASSUME TypeOK, NEW u \in Nodes, Iterate(u)
  PROVE  WeightStep(u)
<1> USE DEF TypeOK, Goto, shared, locals, aux, WeightStep
<1>1. CASE Rate(u)
  BY <1>1 DEF Rate
<1>2. CASE Skip(u)
  BY <1>2 DEF Skip
<1>3. CASE CheckWeight(u)
  BY <1>3 DEF CheckWeight
<1>4. CASE AcquireU(u)
  BY <1>4 DEF AcquireU
<1>5. CASE PublishPartner(u)
  BY <1>5 DEF PublishPartner
<1>6. CASE InspectV(u)
  BY <1>6 DEF InspectV, FollowV, StartWalk
<1>7. CASE AcquireV(u)
  BY <1>7 DEF AcquireV, CallJoin, StartWalk
<1>8. CASE ReadRepresentative(u)
  BY <1>8 DEF ReadRepresentative
<1>9. CASE JoinCheck(u)
  BY <1>9 DEF JoinCheck, JoinReturns
<1>10. CASE JoinWrite(u)
  BY <1>10 DEF JoinWrite
<1>11. CASE JoinWeight(u)
  BY <1>11 DEF JoinWeight, JoinReturns
<1>12. CASE ReleaseV(u)
  BY <1>12 DEF ReleaseV
<1>13. CASE WalkPartners(u)
  BY <1>13 DEF WalkPartners
<1>14. CASE ResolveCycle(u)
  BY <1>14 DEF ResolveCycle, CallJoin
<1>15. CASE WaitForV(u)
  BY <1>15 DEF WaitForV, StartWalk
<1>16. CASE JoinLate(u)
  BY <1>16 DEF JoinLate, FollowV
<1>17. CASE MarkAsMatched(u)
  BY <1>17 DEF MarkAsMatched
<1>18. CASE RetractPartner(u)
  BY <1>18 DEF RetractPartner
<1>19. CASE ReleaseU(u)
  BY <1>19 DEF ReleaseU
<1> QED
  BY <1>1, <1>2, <1>3, <1>4, <1>5, <1>6, <1>7, <1>8, <1>9, <1>10, <1>11,
     <1>12, <1>13, <1>14, <1>15, <1>16, <1>17, <1>18, <1>19 DEF Iterate

\* A node joins once, and a second time only by following its partner.
LEMMA JoinCountStep ==
  ASSUME TypeOK, \A w \in Nodes : NodeOK(w), NEW u \in Nodes, Step(u), WeightStep(u),
         TypeOK', NEW x \in Nodes, JoinCountOK(x)
  PROVE  JoinCountOK(x)'
<1>1. CASE x # u
  <2>1. joins'[x] = joins[x]
    BY <1>1 DEF WeightStep, TypeOK
  <2>2. /\ pc'[x] = pc[x] /\ origin'[x] = origin[x] /\ cluster_ids'[x] = cluster_ids[x]
        /\ resolvers \subseteq resolvers'
    BY <1>1 DEF Step, FrameStep, HistoryStep
  <2> QED
    BY <2>1, <2>2 DEF JoinCountOK
<1>2. CASE x = u
  <2>1. joins[u] \in Nat /\ pc[u] \in Steps
    BY DEF TypeOK
  <2>2. joins'[u] = IF pc[u] = "join_weight" THEN joins[u] + 1 ELSE joins[u]
    BY DEF WeightStep, TypeOK
  <2>3. AloneOK(u) /\ JoinOK(u) /\ ResolverOK(u) /\ resolvers \subseteq resolvers'
    BY DEF NodeOK, RoleOK, PlaceOK, Step, HistoryStep
  <2>4. cluster_ids'[u] = u => joins'[u] = 0
    BY <1>2, <2>2, <2>3 DEF JoinCountOK, Step, OwnStep, JoinOK, Joining
  <2>5. pc'[u] \in Joining \union {"read_rep"} =>
          joins'[u] = 0 \/ (joins'[u] = 1 /\ origin'[u] = "late")
    <3> USE <1>2, <2>1, <2>2, <2>3
         DEF JoinCountOK, Step, PcStep, AfterJoin, JoinStep, AloneOK, Early, Joining
    <3>1. CASE pc[u] \in {"inspect", "acquire_v", "cycle"}
      BY <3>1
    <3>2. CASE pc[u] = "late"
      BY <3>2 DEF WeightStep
    <3>3. CASE pc[u] \in {"read_rep", "join_check", "join_write"}
      BY <3>3
    <3>4. CASE pc[u] \notin {"inspect", "acquire_v", "cycle", "late", "read_rep", "join_check", "join_write"}
      BY <3>4 DEF Steps, Outside, Waiting
    <3> QED
      BY <3>1, <3>2, <3>3, <3>4
  <2>6. pc'[u] \in {"release_v", "wait", "late"} => joins'[u] <= 1
    <3> USE <1>2, <2>1, <2>2, <2>3
         DEF JoinCountOK, Step, PcStep, AfterJoin, AloneOK, Early, Joining
    <3>1. CASE pc[u] \in {"join_check", "join_weight"}
      BY <3>1
    <3>2. CASE pc[u] \in {"release_v", "wait", "cycle"}
      BY <3>2
    <3>3. CASE pc[u] \notin {"join_check", "join_weight", "release_v", "wait", "cycle"}
      BY <3>3 DEF Steps, Outside, Waiting
    <3> QED
      BY <3>1, <3>2, <3>3
  <2>7. pc'[u] \in {"mark", "retract", "release_u", "done"} =>
          joins'[u] <= 1 \/ (joins'[u] = 2 /\ origin'[u] = "late")
    <3> USE <1>2, <2>1, <2>2, <2>3
         DEF JoinCountOK, Step, PcStep, AfterJoin, JoinStep, AloneOK, Early, Joining
    <3>1. CASE pc[u] \in {"join_check", "join_weight"}
      BY <3>1
    <3>2. CASE pc[u] \in {"release_v", "late", "mark", "retract", "release_u"}
      BY <3>2
    <3>3. CASE pc[u] \in {"idle", "check", "acquire_u"}
      BY <3>3
    <3>4. CASE pc[u] \notin {"join_check", "join_weight", "release_v", "late", "mark",
                             "retract", "release_u", "idle", "check", "acquire_u"}
      BY <3>4 DEF Steps, Outside, Waiting
    <3> QED
      BY <3>1, <3>2, <3>3, <3>4
  <2>8. cluster_ids'[u] # u /\ pc'[u] # "join_weight" => joins'[u] >= 1
    <3>1. CASE pc[u] = "join_write"
      BY <3>1 DEF Step, PcStep
    <3>2. CASE pc[u] # "join_write"
      BY <1>2, <2>1, <2>2, <3>2 DEF JoinCountOK, Step, OwnStep
    <3> QED
      BY <3>1, <3>2
  <2>9. joins'[u] = 1 /\ pc'[u] \in Joining \union {"late", "read_rep"} => u \in resolvers'
    <3> USE <1>2, <2>1, <2>2, <2>3
         DEF JoinCountOK, Step, PcStep, AfterJoin, AloneOK, Early, Joining
    <3>1. CASE pc[u] \in {"inspect", "acquire_v", "cycle"}
      BY <3>1
    <3>2. CASE pc[u] = "wait"
      BY <3>2
    <3>3. CASE pc[u] \in {"late", "read_rep", "join_check", "join_write"}
      BY <3>3
    <3>4. CASE pc[u] \notin {"inspect", "acquire_v", "cycle", "wait", "late", "read_rep",
                             "join_check", "join_write"}
      BY <3>4 DEF Steps, Outside, Waiting
    <3> QED
      BY <3>1, <3>2, <3>3, <3>4
  <2>10. joins'[u] = 2 => u \in resolvers'
    BY <1>2, <2>1, <2>2, <2>3 DEF JoinCountOK, Joining
  <2> QED
    BY <1>2, <2>4, <2>5, <2>6, <2>7, <2>8, <2>9, <2>10 DEF JoinCountOK
<1> QED
  BY <1>1, <1>2

\* One more join adds the weight once more.
LEMMA OneMore ==
  ASSUME NEW a \in Nat, NEW b \in Nat
  PROVE  (a + 1) * b = a * b + b /\ a * b \in Int
OBVIOUS

\* The members of the cluster of r other than r.
Joined(r) == Members(r) \ {r}

\* The sets of members are finite and what their joins add is a natural number.
LEMMA JoinedTypes ==
  ASSUME TypeOK, NEW r \in Nodes
  PROVE  /\ IsFiniteSet(Joined(r)) /\ Joined(r) \subseteq Nodes
         /\ \A x \in Nodes : JoinedWeight[x] \in Nat
         /\ SumFunctionOnSet(JoinedWeight, Joined(r)) \in Nat
<1>1. Joined(r) \in SUBSET Nodes
  BY DEF Joined, Members
<1>2. IsFiniteSet(Joined(r))
  BY <1>1, NodesAssumption, FS_Subset
<1>3. ASSUME NEW x \in Nodes PROVE JoinedWeight[x] \in Nat
  <2>1. joins[x] \in Nat /\ NodeWeight[x] \in Nat
    BY WeightAssumption DEF TypeOK
  <2>2. joins[x] * NodeWeight[x] \in Nat
    BY <2>1
  <2> QED
    BY <2>2 DEF JoinedWeight
<1>4. SumFunctionOnSet(JoinedWeight, Joined(r)) \in Nat
  <2>1. \A x \in Joined(r) : JoinedWeight[x] \in Nat
    BY <1>1, <1>3
  <2> QED
    BY <1>2, <2>1, SumSubset
<1> QED
  BY <1>1, <1>2, <1>3, <1>4

\* The weight of a representative accounts for the joins of its members.
WeightOK(r) ==
  cluster_ids[r] = r =>
    cluster_weight[r] = NodeWeight[r] + SumFunctionOnSet(JoinedWeight, Joined(r))

\* Writing the cluster id moves a node that has not added anything, or moves nothing.
LEMMA WeightAfterWrite ==
  ASSUME TypeOK, \A w \in Nodes : NodeOK(w), NEW u \in Nodes, Step(u), WeightStep(u),
         TypeOK', pc[u] = "join_write", JoinCountOK(u), NEW r \in Nodes, WeightOK(r)
  PROVE  WeightOK(r)'
<1> SUFFICES ASSUME cluster_ids'[r] = r
             PROVE  cluster_weight'[r] = NodeWeight[r] + SumFunctionOnSet(JoinedWeight', Joined(r)')
  BY DEF WeightOK
<1>1. rep[u] # u /\ cluster_ids[u] \in {u, rep[u]}
  BY DEF NodeOK, RoleOK, PlaceOK, JoinOK, RejoinOK, Joining
<1>2. cluster_ids'[u] = rep[u] /\ \A x \in Nodes \ {u} : cluster_ids'[x] = cluster_ids[x]
  BY DEF Step, OwnStep, FrameStep
<1>3. JoinedWeight' = JoinedWeight /\ cluster_weight' = cluster_weight
  BY DEF WeightStep, JoinedWeight
<1>4. r # u /\ cluster_ids[r] = r
  BY <1>1, <1>2
<1>5. CASE Joined(r)' = Joined(r)
  BY <1>3, <1>4, <1>5 DEF WeightOK
<1>6. CASE cluster_ids[u] = u /\ r = rep[u]
  <2>1. Joined(r)' = Joined(r) \cup {u} /\ u \notin Joined(r)
    BY <1>1, <1>2, <1>4, <1>6 DEF Joined, Members
  <2>2. JoinedWeight[u] = 0
    <3>1. joins[u] = 0 /\ NodeWeight[u] \in Nat
      BY <1>6, WeightAssumption DEF JoinCountOK
    <3> QED
      BY <3>1 DEF JoinedWeight
  <2>3. SumFunctionOnSet(JoinedWeight, Joined(r) \cup {u}) = 0 + SumFunctionOnSet(JoinedWeight, Joined(r))
    <3>1. \A x \in Joined(r) \cup {u} : JoinedWeight[x] \in Int
      BY JoinedTypes
    <3>2. IsFiniteSet(Joined(r))
      BY JoinedTypes
    <3> QED
      BY <2>1, <2>2, <3>1, <3>2, SumAdd
  <2>4. SumFunctionOnSet(JoinedWeight, Joined(r)) \in Nat
    BY JoinedTypes
  <2> QED
    BY <1>3, <1>4, <2>1, <2>3, <2>4 DEF WeightOK
<1>7. CASE ~(cluster_ids[u] = u /\ r = rep[u])
  <2>1. Joined(r)' = Joined(r)
    BY <1>1, <1>2, <1>4, <1>7 DEF Joined, Members
  <2> QED
    BY <1>5, <2>1
<1> QED
  BY <1>6, <1>7

\* The addition to the weight and the count of the join agree.
LEMMA WeightAfterAddition ==
  ASSUME TypeOK, \A w \in Nodes : NodeOK(w), NEW u \in Nodes, Step(u), WeightStep(u),
         TypeOK', pc[u] = "join_weight", NEW r \in Nodes, WeightOK(r)
  PROVE  WeightOK(r)'
<1> SUFFICES ASSUME cluster_ids'[r] = r
             PROVE  cluster_weight'[r] = NodeWeight[r] + SumFunctionOnSet(JoinedWeight', Joined(r)')
  BY DEF WeightOK
<1> DEFINE f == JoinedWeight
           g == JoinedWeight'
           S == Joined(r)
<1>1. rep[u] \in Nodes /\ rep[u] # u /\ cluster_ids[u] = rep[u]
  BY DEF NodeOK, RoleOK, PlaceOK, JoinOK, Joining, TypeOK
<1>2. \A x \in Nodes : cluster_ids'[x] = cluster_ids[x]
  BY DEF Step, OwnStep, FrameStep
<1>3. Joined(r)' = S /\ S \subseteq Nodes
  BY <1>2 DEF Joined, Members
<1>4. /\ cluster_weight[r] = NodeWeight[r] + SumFunctionOnSet(f, S)
      /\ cluster_weight'[r] = IF r = rep[u] THEN cluster_weight[r] + NodeWeight[u]
                              ELSE cluster_weight[r]
  BY <1>1, <1>2 DEF WeightOK, WeightStep, TypeOK
<1>5. f[u] \in Int /\ NodeWeight[u] \in Int /\ g[u] = f[u] + NodeWeight[u]
  <2>1. joins[u] \in Nat /\ NodeWeight[u] \in Nat /\ joins'[u] = joins[u] + 1
    BY WeightAssumption DEF TypeOK, WeightStep
  <2>2. (joins[u] + 1) * NodeWeight[u] = joins[u] * NodeWeight[u] + NodeWeight[u]
        /\ joins[u] * NodeWeight[u] \in Int
    BY <2>1, OneMore
  <2>3. f[u] = joins[u] * NodeWeight[u] /\ g[u] = joins'[u] * NodeWeight[u]
    BY DEF JoinedWeight
  <2> HIDE DEF f, g
  <2> QED
    BY <2>1, <2>2, <2>3
<1>6. \A x \in Nodes \ {u} : f[x] = g[x]
  BY DEF JoinedWeight, WeightStep, TypeOK
<1>7. IsFiniteSet(S) /\ SumFunctionOnSet(f, S) \in Nat /\ \A x \in Nodes : f[x] \in Nat
  BY JoinedTypes
<1>8. NodeWeight[r] \in Nat
  BY WeightAssumption
<1>9. u \in S <=> r = rep[u]
  BY <1>1 DEF Joined, Members
<1>10. CASE r = rep[u]
  <2>1. SumFunctionOnSet(g, S) = SumFunctionOnSet(f, S) - f[u] + g[u]
    <3>1. \A x \in S : f[x] \in Int /\ g[x] \in Int
      <4> HIDE DEF f, g
      <4> QED
        BY <1>3, <1>5, <1>6, <1>7
    <3>2. \A x \in S \ {u} : f[x] = g[x]
      BY <1>3, <1>6
    <3> HIDE DEF f, g, S
    <3> QED
      BY <1>7, <1>9, <1>10, <3>1, <3>2, SumChange
  <2> HIDE DEF f, g, S
  <2>2. SumFunctionOnSet(g, S) = SumFunctionOnSet(f, S) + NodeWeight[u]
    BY <1>5, <1>7, <2>1
  <2>3. cluster_weight'[r] = NodeWeight[r] + SumFunctionOnSet(g, S)
    BY <1>4, <1>5, <1>7, <1>8, <1>10, <2>2
  <2> USE DEF f, g
  <2> QED
    BY <1>3, <2>3
<1>11. CASE r # rep[u]
  <2>1. \A x \in S : f[x] = g[x]
    BY <1>3, <1>6, <1>9, <1>11
  <2>2. SumFunctionOnSet(f, S) = SumFunctionOnSet(g, S)
    <3> HIDE DEF f, g, S
    <3> QED
      BY <1>7, <2>1, SumCongruence
  <2> QED
    BY <1>3, <1>4, <1>11, <2>2
<1> QED
  BY <1>10, <1>11

\* Every step keeps the account of the weights.
LEMMA WeightInvStep ==
  ASSUME IndInv, IndInv', WeightInv, [Next]_vars
  PROVE  WeightInv'
<1> SUFFICES ASSUME overtaken' = {}
             PROVE  \A x \in Nodes : JoinCountOK(x)' /\ WeightOK(x)'
  BY DEF WeightInv, WeightOK, Joined
<1>1. CASE UNCHANGED vars
  <2> USE <1>1 DEF vars, shared, locals, aux
  <2>1. ASSUME NEW x \in Nodes PROVE JoinCountOK(x)'
    BY DEF WeightInv, JoinCountOK
  <2>2. ASSUME NEW x \in Nodes PROVE WeightOK(x)'
    <3>1. JoinedWeight' = JoinedWeight /\ Joined(x)' = Joined(x)
      BY DEF JoinedWeight, Joined, Members
    <3>2. WeightOK(x)
      BY DEF WeightInv, WeightOK, Joined
    <3> QED
      BY <3>1, <3>2 DEF WeightOK
  <2> QED
    BY <2>1, <2>2
<1>2. CASE \E u \in Nodes : Iterate(u)
  <2> PICK u \in Nodes : Iterate(u)
    BY <1>2
  <2>1. TypeOK /\ TypeOK' /\ Step(u) /\ WeightStep(u)
    BY StepHolds, WeightStepHolds DEF IndInv
  <2>2. overtaken = {}
    BY <2>1 DEF Step, HistoryStep
  <2>3. \A w \in Nodes : NodeOK(w)
    BY <2>2 DEF IndInv, NodeOK
  <2>4. \A x \in Nodes : JoinCountOK(x) /\ WeightOK(x)
    BY <2>2 DEF WeightInv, WeightOK, Joined
  <2>5. ASSUME NEW x \in Nodes PROVE JoinCountOK(x)'
    BY <2>1, <2>3, <2>4, JoinCountStep
  <2>6. ASSUME NEW r \in Nodes PROVE WeightOK(r)'
    <3>1. CASE pc[u] = "join_write"
      BY <2>1, <2>3, <2>4, <3>1, WeightAfterWrite
    <3>2. CASE pc[u] = "join_weight"
      BY <2>1, <2>3, <2>4, <3>2, WeightAfterAddition
    <3>3. CASE pc[u] \notin {"join_write", "join_weight"}
      <4>1. JoinedWeight' = JoinedWeight /\ cluster_weight' = cluster_weight
        BY <2>1, <3>3 DEF WeightStep, JoinedWeight
      <4>2. \A x \in Nodes : cluster_ids'[x] = cluster_ids[x]
        BY <2>1, <3>3 DEF Step, OwnStep, FrameStep
      <4>3. Joined(r)' = Joined(r)
        BY <4>2 DEF Joined, Members
      <4> QED
        BY <2>4, <4>1, <4>2, <4>3 DEF WeightOK
    <3> QED
      BY <3>1, <3>2, <3>3
  <2> QED
    BY <2>5, <2>6
<1> QED
  BY <1>1, <1>2 DEF Next, PassComplete

\* Initially nothing has joined.
LEMMA WeightInvInit == Init => WeightInv
<1> SUFFICES ASSUME Init, NEW r \in Nodes PROVE JoinCountOK(r) /\ WeightOK(r)
  BY DEF WeightInv, WeightOK, Joined
<1>1. JoinCountOK(r)
  BY DEF Init, JoinCountOK, Joining
<1>2. Joined(r) = {} /\ cluster_weight[r] = NodeWeight[r] /\ NodeWeight[r] \in Nat
  BY WeightAssumption DEF Init, Joined, Members
<1>3. NodeWeight[r] + 0 = NodeWeight[r]
  BY <1>2
<1> QED
  BY <1>1, <1>2, <1>3, SumEmpty DEF WeightOK

\* A member other than the representative has joined at least once, or is about to
\* have, and at most twice.
LEMMA MemberJoins ==
  ASSUME IndInv, WeightInv, overtaken = {}, NEW u \in Nodes, cluster_ids[u] # u
  PROVE  /\ pc[u] = "join_weight" => joins[u] \in {0, 1}
         /\ pc[u] # "join_weight" => joins[u] \in {1, 2}
         /\ joins[u] = (IF pc[u] = "join_weight" THEN 1 ELSE 2) => u \in resolvers
<1>1. pc[u] \in Steps /\ JoinCountOK(u) /\ AloneOK(u) /\ joins[u] \in Nat
  BY DEF IndInv, PlaceOK, TypeOK, WeightInv
<1>2. pc[u] \notin Early \union {"publish", "inspect", "acquire_v", "walk", "cycle"}
  BY <1>1 DEF AloneOK
<1>3. joins[u] <= 2
  BY <1>1, <1>2 DEF JoinCountOK, Steps, Joining, Waiting, Outside, Early
<1> QED
  BY <1>1, <1>3 DEF JoinCountOK, Joining

\* The sum over the members: every join is an addition that was executed.
LEMMA JoinsSumUp ==
  ASSUME IndInv, WeightInv, overtaken = {}, NEW r \in Nodes, cluster_ids[r] = r
  PROVE  SumFunctionOnSet(JoinedWeight, Joined(r)) + WeightOf(Adding(r))
           = WeightOf(Joined(r)) + WeightOf(JoinedTwice(r))
<1> DEFINE S == Joined(r)
           A == Adding(r)
           T == JoinedTwice(r)
           f == JoinedWeight
           a == [x \in S |-> IF x \in A THEN NodeWeight[x] ELSE 0]
           t == [x \in S |-> IF x \in T THEN NodeWeight[x] ELSE 0]
           h == [x \in S |-> f[x] + a[x]]
<1>0. TypeOK
  BY DEF IndInv
<1>1. IsFiniteSet(S) /\ S \subseteq Nodes /\ \A x \in S : f[x] \in Nat
  BY <1>0, JoinedTypes
<1>2. A \in SUBSET S /\ T \in SUBSET S
  <2>1. r \notin A
    BY DEF Adding, IndInv, PlaceOK, JoinOK, Joining
  <2> QED
    BY <2>1 DEF Adding, JoinedTwice, Joined, Members
<1>3. \A x \in S : NodeWeight[x] \in Nat
  BY <1>1, WeightAssumption
<1>4. SumFunctionOnSet(a, S) = WeightOf(A)
  <2> HIDE DEF S, A
  <2> QED
    BY <1>1, <1>2, <1>3, SumExtend DEF WeightOf
<1>5. SumFunctionOnSet(t, S) = WeightOf(T)
  <2> HIDE DEF S, T
  <2> QED
    BY <1>1, <1>2, <1>3, SumExtend DEF WeightOf
<1>6. ASSUME NEW x \in S PROVE f[x] + a[x] = NodeWeight[x] + t[x]
  <2>1. x \in Nodes /\ cluster_ids[x] # x /\ x \in Members(r) /\ x # r
    BY DEF Joined, Members
  <2>2. /\ pc[x] = "join_weight" => joins[x] \in {0, 1}
        /\ pc[x] # "join_weight" => joins[x] \in {1, 2}
    BY <2>1, MemberJoins
  <2>3. /\ x \in A <=> pc[x] = "join_weight"
        /\ x \in T <=> joins[x] = IF pc[x] = "join_weight" THEN 1 ELSE 2
    BY <2>1 DEF Adding, JoinedTwice
  <2>4. /\ joins[x] = 0 => f[x] = 0
        /\ joins[x] = 1 => f[x] = NodeWeight[x]
        /\ joins[x] = 2 => f[x] = NodeWeight[x] + NodeWeight[x]
    BY <1>3, <2>1 DEF JoinedWeight
  <2>5. /\ a[x] = IF x \in A THEN NodeWeight[x] ELSE 0
        /\ t[x] = IF x \in T THEN NodeWeight[x] ELSE 0
        /\ NodeWeight[x] \in Nat
    BY <1>3
  <2> HIDE DEF S, A, T, f, a, t
  <2> QED
    BY <2>2, <2>3, <2>4, <2>5
<1>7. \A x \in S : a[x] \in Int /\ t[x] \in Int
  BY <1>3
<1>8. SumFunctionOnSet(h, S) = SumFunctionOnSet(f, S) + SumFunctionOnSet(a, S)
  <2>1. \A x \in S : f[x] \in Int /\ a[x] \in Int /\ h[x] = f[x] + a[x]
    BY <1>1, <1>7
  <2> HIDE DEF S, f, a, h
  <2> QED
    BY <1>1, <2>1, SumPlus
<1>9. SumFunctionOnSet(h, S) = SumFunctionOnSet(NodeWeight, S) + SumFunctionOnSet(t, S)
  <2>1. \A x \in S : NodeWeight[x] \in Int /\ t[x] \in Int /\ h[x] = NodeWeight[x] + t[x]
    <3>1. \A x \in S : h[x] = f[x] + a[x]
      OBVIOUS
    <3> HIDE DEF S, f, a, h, t
    <3> QED
      BY <1>3, <1>6, <1>7, <3>1
  <2> HIDE DEF S, t, h
  <2> QED
    BY <1>1, <2>1, SumPlus
<1> QED
  BY <1>4, <1>5, <1>8, <1>9 DEF WeightOf

\* What verifyClustering compares, for every interleaving of the unsynchronized loads
\* and additions of joinCluster: _cluster_weight[r] and the additions under way make
\* up the weight of the members of r, exceeded by the members that joined twice, and
\* those have resolved a cyclic dependency.
THEOREM WeightsAreAccounted == Spec => []WeightAccounted
<1>1. IndInv /\ WeightInv => WeightAccounted
  <2> SUFFICES ASSUME IndInv, WeightInv, overtaken = {}, NEW r \in Nodes, cluster_ids[r] = r
               PROVE  /\ cluster_weight[r] + WeightOf(Adding(r))
                           = WeightOf(Members(r)) + WeightOf(JoinedTwice(r))
                      /\ JoinedTwice(r) \subseteq resolvers
    BY DEF WeightAccounted
  <2>1. JoinedTwice(r) \subseteq resolvers
    BY MemberJoins DEF JoinedTwice, Members
  <2>2. cluster_weight[r] = NodeWeight[r] + SumFunctionOnSet(JoinedWeight, Joined(r))
    BY DEF WeightInv, Joined
  <2>3. /\ IsFiniteSet(Joined(r)) /\ Joined(r) \subseteq Nodes
        /\ SumFunctionOnSet(JoinedWeight, Joined(r)) \in Nat
    BY JoinedTypes DEF IndInv
  <2>4. \A S \in SUBSET Nodes : WeightOf(S) \in Nat
    <3> SUFFICES ASSUME NEW S \in SUBSET Nodes PROVE WeightOf(S) \in Nat
      OBVIOUS
    <3>1. IsFiniteSet(S) /\ \A x \in S : NodeWeight[x] \in Nat
      BY NodesAssumption, WeightAssumption, FS_Subset
    <3> QED
      BY <3>1, SumSubset DEF WeightOf
  <2>5. WeightOf(Members(r)) = NodeWeight[r] + WeightOf(Joined(r))
    <3>1. Members(r) = Joined(r) \cup {r} /\ r \notin Joined(r)
      BY DEF Joined, Members
    <3>2. \A x \in Joined(r) \cup {r} : NodeWeight[x] \in Int
      BY <2>3, WeightAssumption
    <3> QED
      BY <2>3, <3>1, <3>2, SumAdd DEF WeightOf
  <2>6. SumFunctionOnSet(JoinedWeight, Joined(r)) + WeightOf(Adding(r))
          = WeightOf(Joined(r)) + WeightOf(JoinedTwice(r))
    BY JoinsSumUp
  <2>7. /\ WeightOf(Adding(r)) \in Nat /\ WeightOf(JoinedTwice(r)) \in Nat
        /\ WeightOf(Joined(r)) \in Nat /\ NodeWeight[r] \in Nat
    BY <2>3, <2>4, WeightAssumption DEF Adding, JoinedTwice, Members
  <2> QED
    BY <2>1, <2>2, <2>3, <2>5, <2>6, <2>7
<1> QED
  BY <1>1, WeightInvInit, WeightInvStep, IndInvariant, PTL DEF Spec

\* Multiplication is monotone.
LEMMA TimesMonotone ==
  ASSUME NEW a \in Nat, NEW b \in Nat, NEW h \in Nat
  PROVE  a * h \in Nat /\ b * h \in Nat /\ (a <= b => a * h <= b * h)
OBVIOUS

-----------------------------------------------------------------------------
(* How far a cluster can exceed the weight limit *)

\* The heaviest node bounds the weight of every node.
LEMMA Heaviest ==
  ASSUME NEW u \in Nodes
  PROVE  /\ Max({NodeWeight[x] : x \in Nodes}) \in Nat
         /\ NodeWeight[u] <= Max({NodeWeight[x] : x \in Nodes})
<1>1. \A x \in Nodes : NodeWeight[x] \in Nat
  BY WeightAssumption
<1>2. /\ Max({NodeWeight[x] : x \in Nodes}) \in {NodeWeight[x] : x \in Nodes}
      /\ \A x \in Nodes : NodeWeight[x] <= Max({NodeWeight[y] : y \in Nodes})
  <2>1. \A x \in Nodes : NodeWeight[x] \in Int
    BY <1>1
  <2>2. IsFiniteSet(Nodes) /\ Nodes # {}
    BY NodesAssumption
  <2> QED
    BY <2>1, <2>2, MaxOfValues, Zenon
<1> QED
  BY <1>1, <1>2

\* The bound in the property and the one in the invariant are the same.
LEMMA LimitIsMax ==
  ASSUME NEW r \in Nodes
  PROVE  Max({MaxAllowedNodeWeight, NodeWeight[r]}) = Limit(r) /\ Limit(r) \in Nat
         /\ MaxAllowedNodeWeight <= Limit(r) /\ NodeWeight[r] <= Limit(r)
<1>1. NodeWeight[r] \in Nat /\ MaxAllowedNodeWeight \in Nat
  BY WeightAssumption
<1> DEFINE V == {MaxAllowedNodeWeight, NodeWeight[r]}
<1>2. Limit(r) \in V /\ \A y \in V : Limit(r) >= y
  BY <1>1 DEF Limit
<1>3. \A x \in V : (\A y \in V : x >= y) => x = Limit(r)
  BY <1>1 DEF Limit
<1>4. Max(V) = Limit(r)
  <2> HIDE DEF V
  <2> QED
    BY <1>2, <1>3 DEF Max
<1> QED
  BY <1>1, <1>4 DEF Limit

\* The iterations under way are finitely many, and so are those about to join.
LEMMA JoinersRun ==
  ASSUME TypeOK, NEW r \in Nodes
  PROVE  /\ IsFiniteSet(Running) /\ Cardinality(Running) \in Nat
         /\ IsFiniteSet(Joiners(r)) /\ Joiners(r) \subseteq Running
         /\ \A x \in Joiners(r) : NodeWeight[x] \in Nat
         /\ SumFunctionOnSet(NodeWeight, Joiners(r)) \in Nat
<1>1. Running \in SUBSET Nodes /\ Joiners(r) \in SUBSET Nodes
  BY DEF Running, Joiners
<1>2. IsFiniteSet(Running) /\ IsFiniteSet(Joiners(r))
  BY <1>1, NodesAssumption, FS_Subset
<1>3. Joiners(r) \subseteq Running
  BY DEF Running, Joiners, Outside
<1>4. \A x \in Joiners(r) : NodeWeight[x] \in Nat
  BY <1>1, WeightAssumption
<1>5. SumFunctionOnSet(NodeWeight, Joiners(r)) \in Nat
  BY <1>2, <1>4, SumSubset
<1> QED
  BY <1>2, <1>3, <1>4, <1>5, FS_CardinalityType

\* An iteration starts only if a thread is free.
LEMMA RunningStep ==
  ASSUME TypeOK, TypeOK', NEW u \in Nodes, Step(u), WeightStep(u),
         Cardinality(Running) <= NumThreads
  PROVE  Cardinality(Running') <= NumThreads
<1>1. IsFiniteSet(Running) /\ Cardinality(Running) \in Nat /\ NumThreads \in Nat
  BY JoinersRun, ThreadAssumption
<1>2. CASE pc[u] = "idle" /\ pc'[u] = "check"
  <2>1. Running' = Running \cup {u}
    BY <1>2 DEF Running, Outside, Step, FrameStep
  <2>2. Cardinality(Running \cup {u}) <= Cardinality(Running) + 1
    BY <1>1, FS_AddElement
  <2>3. Cardinality(Running) < NumThreads
    BY <1>2 DEF WeightStep
  <2>4. Cardinality(Running \cup {u}) \in Nat
    BY <1>1, FS_AddElement, FS_CardinalityType
  <2> QED
    BY <1>1, <2>1, <2>2, <2>3, <2>4
<1>3. CASE ~(pc[u] = "idle" /\ pc'[u] = "check")
  <2>1. Running' \in SUBSET Running
    <3>1. pc'[u] \notin Outside => pc[u] \notin Outside
      BY <1>3 DEF Step, PcStep, Outside
    <3> QED
      BY <3>1 DEF Running, Step, FrameStep
  <2>2. IsFiniteSet(Running') /\ Cardinality(Running') <= Cardinality(Running)
    BY <1>1, <2>1, FS_Subset
  <2>3. Cardinality(Running') \in Nat
    BY <2>2, FS_CardinalityType
  <2> QED
    BY <1>1, <2>2, <2>3
<1> QED
  BY <1>2, <1>3

\* Threads other than the one that passed the check add at most the heaviest node
\* each.
LEMMA OthersBounded ==
  ASSUME TypeOK, Cardinality(Running) <= NumThreads, NEW r \in Nodes,
         NEW u \in Running, u \notin Joiners(r)
  PROVE  SumFunctionOnSet(NodeWeight, Joiners(r))
           <= (NumThreads - 1) * Max({NodeWeight[x] : x \in Nodes})
<1> DEFINE h == Max({NodeWeight[x] : x \in Nodes})
           J == Joiners(r)
<1>1. /\ IsFiniteSet(Running) /\ Cardinality(Running) \in Nat
      /\ IsFiniteSet(J) /\ J \subseteq Running
      /\ SumFunctionOnSet(NodeWeight, J) \in Nat
  BY JoinersRun
<1>2. h \in Nat /\ \A x \in Nodes : NodeWeight[x] <= h
  BY Heaviest DEF Running
<1>3. SumFunctionOnSet(NodeWeight, J) <= Cardinality(J) * h
  <2>1. \A x \in J : NodeWeight[x] \in Int /\ NodeWeight[x] <= h
    <3> SUFFICES ASSUME NEW x \in J PROVE NodeWeight[x] \in Int /\ NodeWeight[x] <= h
      OBVIOUS
    <3>1. x \in Nodes
      BY DEF Joiners
    <3> QED
      BY <1>2, <3>1, WeightAssumption
  <2> HIDE DEF h, J
  <2> QED
    BY <1>1, <1>2, <2>1, SumBounded
<1>4. Cardinality(J) \in Nat /\ Cardinality(J) <= NumThreads - 1
  <2>1. J \in SUBSET (Running \ {u})
    BY <1>1
  <2>2. IsFiniteSet(Running \ {u}) /\ Cardinality(Running \ {u}) = Cardinality(Running) - 1
    BY <1>1, FS_RemoveElement
  <2>3. Cardinality(J) <= Cardinality(Running \ {u})
    BY <2>1, <2>2, FS_Subset
  <2>4. Cardinality(J) \in Nat
    BY <1>1, FS_CardinalityType
  <2> QED
    BY <1>1, <2>2, <2>3, <2>4, ThreadAssumption
<1>5. Cardinality(J) * h <= (NumThreads - 1) * h
      /\ Cardinality(J) * h \in Nat /\ (NumThreads - 1) * h \in Nat
  <2>1. NumThreads - 1 \in Nat
    BY ThreadAssumption
  <2> HIDE DEF h, J
  <2> QED
    BY <1>2, <1>4, <2>1, TimesMonotone
<1> HIDE DEF h, J
<1>6. SumFunctionOnSet(NodeWeight, J) <= (NumThreads - 1) * h
  BY <1>1, <1>3, <1>5
<1> QED
  BY <1>6 DEF h, J

\* Weight and outstanding additions of the cluster of r.
Committed(r) == cluster_weight[r] + SumFunctionOnSet(NodeWeight, Joiners(r))

\* A step that is not a passed check leaves the sum of a weight and of its
\* outstanding additions alone.
LEMMA CommittedStep ==
  ASSUME TypeOK, TypeOK', NEW u \in Nodes, Step(u), WeightStep(u), NEW r \in Nodes,
         ~(pc[u] = "join_check" /\ pc'[u] = "join_write" /\ rep[u] = r)
  PROVE  Committed(r)' = Committed(r)
<1>1. \A x \in Nodes \ {u} : pc'[x] = pc[x] /\ rep'[x] = rep[x]
  BY DEF Step, FrameStep
<1>2. \A x \in Nodes : cluster_weight[x] \in Nat
  BY DEF TypeOK
<1>3. CASE pc[u] = "join_weight" /\ rep[u] = r
  <2>1. u \in Joiners(r) /\ Joiners(r)' = Joiners(r) \ {u}
    BY <1>1, <1>3 DEF Joiners, Step, PcStep, AfterJoin
  <2>2. SumFunctionOnSet(NodeWeight, Joiners(r))
          = NodeWeight[u] + SumFunctionOnSet(NodeWeight, Joiners(r) \ {u})
    <3>1. IsFiniteSet(Joiners(r)) /\ \A x \in Joiners(r) : NodeWeight[x] \in Int
      BY JoinersRun
    <3> QED
      BY <2>1, <3>1, SumRemove
  <2>3. cluster_weight'[r] = cluster_weight[r] + NodeWeight[u]
    BY <1>3 DEF WeightStep, TypeOK
  <2>4. SumFunctionOnSet(NodeWeight, Joiners(r) \ {u}) \in Int
    <3>1. IsFiniteSet(Joiners(r) \ {u}) /\ \A x \in Joiners(r) \ {u} : NodeWeight[x] \in Int
      BY JoinersRun, FS_RemoveElement
    <3> QED
      BY <3>1, SumInt
  <2>5. NodeWeight[u] \in Nat
    BY WeightAssumption
  <2> QED
    BY <1>2, <2>1, <2>2, <2>3, <2>4, <2>5 DEF Committed
<1>4. CASE ~(pc[u] = "join_weight" /\ rep[u] = r)
  <2>1. Joiners(r)' = Joiners(r)
    <3>1. u \in Joiners(r)' <=> u \in Joiners(r)
      <4> USE <1>4 DEF Joiners, Step, PcStep, AfterJoin, JoinStep
      <4>1. CASE pc[u] \in {"join_write", "join_weight"}
        BY <4>1
      <4>2. CASE pc[u] = "join_check"
        BY <4>2
      <4>3. CASE pc[u] \notin {"join_write", "join_weight", "join_check"}
        <5>1. pc[u] \in Steps
          BY DEF TypeOK
        <5>2. pc'[u] \notin {"join_write", "join_weight"}
          BY <4>3, <5>1 DEF Steps, Outside, Waiting, Joining
        <5> QED
          BY <4>3, <5>2
      <4> QED
        BY <4>1, <4>2, <4>3
    <3> QED
      BY <1>1, <3>1 DEF Joiners
  <2>2. cluster_weight'[r] = cluster_weight[r]
    BY <1>4 DEF WeightStep, TypeOK
  <2> QED
    BY <2>1, <2>2 DEF Committed
<1> QED
  BY <1>3, <1>4

\* After a passed check only the other threads can exceed the limit.
LEMMA CheckedStep ==
  ASSUME TypeOK, TypeOK', NEW u \in Nodes, Step(u), WeightStep(u), NEW r \in Nodes,
         pc[u] = "join_check", pc'[u] = "join_write", rep[u] = r,
         Cardinality(Running) <= NumThreads
  PROVE  Committed(r)' <= Limit(r) + (NumThreads - 1) * Max({NodeWeight[x] : x \in Nodes})
<1> DEFINE h == Max({NodeWeight[x] : x \in Nodes})
           J == Joiners(r)
<1>1. u \in Running /\ u \notin J
  BY DEF Running, Outside, Joiners
<1>2. SumFunctionOnSet(NodeWeight, J) <= (NumThreads - 1) * h
  BY <1>1, OthersBounded
<1>3. Joiners(r)' = J \cup {u}
  BY DEF Joiners, Step, FrameStep, JoinStep
<1>4. IsFiniteSet(J) /\ SumFunctionOnSet(NodeWeight, J) \in Nat /\ NodeWeight[u] \in Nat
  BY JoinersRun, WeightAssumption
<1>5. SumFunctionOnSet(NodeWeight, J \cup {u}) = NodeWeight[u] + SumFunctionOnSet(NodeWeight, J)
  <2>1. \A x \in J \cup {u} : NodeWeight[x] \in Int
    BY WeightAssumption DEF Joiners
  <2> HIDE DEF J
  <2> QED
    BY <1>1, <1>4, <2>1, SumAdd
<1>6. cluster_weight'[r] = cluster_weight[r] /\ cluster_weight[r] \in Nat
      /\ NodeWeight[u] + cluster_weight[r] <= MaxAllowedNodeWeight
  BY DEF WeightStep, TypeOK
<1>7. MaxAllowedNodeWeight <= Limit(r) /\ Limit(r) \in Nat /\ MaxAllowedNodeWeight \in Nat
  BY LimitIsMax, WeightAssumption
<1>8. (NumThreads - 1) * h \in Int
  BY Heaviest, ThreadAssumption
<1>9. Committed(r)' = cluster_weight[r] + (NodeWeight[u] + SumFunctionOnSet(NodeWeight, J))
  BY <1>3, <1>5, <1>6 DEF Committed
<1> HIDE DEF h, J
<1>10. Committed(r)' <= Limit(r) + (NumThreads - 1) * h
  BY <1>2, <1>4, <1>6, <1>7, <1>8, <1>9
<1> QED
  BY <1>10 DEF h

\* However the checks and additions of joinCluster interleave, the weight of a
\* cluster exceeds the limit (or the weight its representative had alone) by at most
\* one node of every other thread.
THEOREM OvershootIsBounded == Spec => []OvershootBounded
<1>1. Init => OvershootInv
  <2> SUFFICES ASSUME Init PROVE OvershootInv
    OBVIOUS
  <2>1. Cardinality(Running) <= NumThreads
    <3>1. Running = {}
      BY DEF Init, Running, Outside
    <3> QED
      BY <3>1, FS_EmptySet, ThreadAssumption
  <2>2. ASSUME NEW r \in Nodes
        PROVE  Committed(r) <= Limit(r) + (NumThreads - 1) * Max({NodeWeight[x] : x \in Nodes})
    <3>1. Joiners(r) = {} /\ cluster_weight[r] = NodeWeight[r]
      BY DEF Init, Joiners
    <3>2. NodeWeight[r] <= Limit(r) /\ Limit(r) \in Nat /\ NodeWeight[r] \in Nat
      BY LimitIsMax, WeightAssumption
    <3>3. (NumThreads - 1) * Max({NodeWeight[x] : x \in Nodes}) \in Nat
      <4>1. NumThreads - 1 \in Nat /\ Max({NodeWeight[x] : x \in Nodes}) \in Nat
        BY Heaviest, ThreadAssumption
      <4> QED
        BY <4>1, TimesMonotone
    <3> DEFINE b == (NumThreads - 1) * Max({NodeWeight[x] : x \in Nodes})
    <3>4. Committed(r) = NodeWeight[r] + 0
      BY <3>1, SumEmpty DEF Committed
    <3> HIDE DEF b
    <3>5. b \in Nat
      BY <3>3 DEF b
    <3>6. Committed(r) <= Limit(r) + b
      BY <3>2, <3>4, <3>5
    <3> QED
      BY <3>6 DEF b
  <2> QED
    BY <2>1, <2>2 DEF OvershootInv, Committed
<1>2. TypeOK /\ TypeOK' /\ OvershootInv /\ [Next]_vars => OvershootInv'
  <2> SUFFICES ASSUME TypeOK, TypeOK', OvershootInv, [Next]_vars PROVE OvershootInv'
    OBVIOUS
  <2>0. /\ Cardinality(Running) <= NumThreads
        /\ \A r \in Nodes : Committed(r)
             <= Limit(r) + (NumThreads - 1) * Max({NodeWeight[x] : x \in Nodes})
    BY DEF OvershootInv, Committed
  <2>1. CASE UNCHANGED vars
    <3>1. Running' = Running /\ cluster_weight' = cluster_weight
          /\ \A r \in Nodes : Joiners(r)' = Joiners(r)
      BY <2>1 DEF vars, shared, locals, Running, Joiners
    <3> QED
      BY <3>1 DEF OvershootInv, Limit
  <2>2. CASE \E u \in Nodes : Iterate(u)
    <3> PICK u \in Nodes : Iterate(u)
      BY <2>2
    <3>1. Step(u) /\ WeightStep(u)
      BY StepHolds, WeightStepHolds
    <3>2. Cardinality(Running') <= NumThreads
      BY <2>0, <3>1, RunningStep
    <3>3. ASSUME NEW r \in Nodes
          PROVE  Committed(r)' <= Limit(r) + (NumThreads - 1) * Max({NodeWeight[x] : x \in Nodes})
      <4>1. CASE pc[u] = "join_check" /\ pc'[u] = "join_write" /\ rep[u] = r
        BY <2>0, <3>1, <4>1, CheckedStep
      <4>2. CASE ~(pc[u] = "join_check" /\ pc'[u] = "join_write" /\ rep[u] = r)
        <5>1. Committed(r)' = Committed(r)
          BY <3>1, <4>2, CommittedStep
        <5> QED
          BY <2>0, <5>1
      <4> QED
        BY <4>1, <4>2
    <3> QED
      BY <3>2, <3>3 DEF OvershootInv, Committed, Limit
  <2> QED
    BY <2>1, <2>2 DEF Next, PassComplete
<1>3. TypeOK /\ OvershootInv => OvershootBounded
  <2> SUFFICES ASSUME TypeOK, OvershootInv, NEW r \in Nodes
      PROVE  cluster_weight[r] <= Max({MaxAllowedNodeWeight, NodeWeight[r]})
                                    + (NumThreads - 1) * Max({NodeWeight[u] : u \in Nodes})
    BY DEF OvershootBounded
  <2> DEFINE b == (NumThreads - 1) * Max({NodeWeight[u] : u \in Nodes})
             s == SumFunctionOnSet(NodeWeight, Joiners(r))
  <2>1. cluster_weight[r] + s <= Limit(r) + b
    BY DEF OvershootInv
  <2>2. cluster_weight[r] \in Nat /\ s \in Nat /\ Limit(r) \in Nat
    BY JoinersRun, LimitIsMax DEF TypeOK
  <2>3. b \in Int
    BY Heaviest, ThreadAssumption
  <2>4. cluster_weight[r] <= Limit(r) + b
    <3> HIDE DEF b, s
    <3> QED
      BY <2>1, <2>2, <2>3
  <2> QED
    BY <2>4, LimitIsMax
<1> QED
  BY <1>1, <1>2, <1>3, TypeCorrect, PTL DEF Spec
=============================================================================
