---------------------------- MODULE Km1GainCache ----------------------------
(***************************************************************************)
(* The gain cache of the connectivity metric                               *)
(* (refinement/gains/km1/km1_gain_cache.{h,cpp}) and the attributed gains  *)
(* of moves, below an arbitrary refiner: any node is moved any number of   *)
(* times, by one thread at a time, and at the end of a round the penalty   *)
(* terms of the moved nodes are recomputed.                                *)
(***************************************************************************)
EXTENDS PartitionedHypergraph

CONSTANTS
  EdgeWeight,
  MaxMoves      \* how often a refiner moves a node in one round, reverts included

ASSUME GainCacheAssumption ==
  EdgeWeight \in [Edges -> Nat \ {0}] /\ MaxMoves \in Nat

VARIABLES
  penalty,    \* _gain_cache[penalty_index(u)]
  benefit,    \* _gain_cache[benefit_index(u, b)]
  quality,    \* objective before the round plus all attributed gains since
  moves       \* how often each node was moved in this round

cacheVars == <<penalty, benefit>>
km1Vars == <<phgVars, cacheVars, quality, moves>>

\* Nodes whose penalty term is invalid because they were moved.
Moved == {u \in Nodes : moves[u] > 0}

EdgeWeightOf(S) == MapThenSumSet(LAMBDA e : EdgeWeight[e], S)

\* The connectivity metric, from the connectivity sets (metrics::quality).
Quality == MapThenSumSet(LAMBDA e : EdgeWeight[e] * (Cardinality(connectivity_set[e]) - 1), Edges)

RecomputePenaltyTerm(u) ==
  EdgeWeightOf({e \in IncidentEdges(u) : pin_count[e][part_ids[u]] > 1})
RecomputeBenefitTerm(u, b) ==
  EdgeWeightOf({e \in IncidentEdges(u) : pin_count[e][b] >= 1})

InitializeGainCache ==
  /\ penalty = [u \in Nodes |-> RecomputePenaltyTerm(u)]
  /\ benefit = [u \in Nodes |-> [b \in Blocks |->
                  EdgeWeightOf({e \in IncidentEdges(u) : b \in connectivity_set[e]})]]

Km1Init ==
  /\ PhgInit
  /\ InitializeGainCache
  /\ quality = Quality
  /\ moves = [u \in Nodes |-> 0]

-----------------------------------------------------------------------------
(* Faulty variants of definitions below. *)

\* The node that moves, which is in block b by now, is treated like a pin that
\* stays in block a.
PenaltyDeltaForAllPins(u, a, b, e, from_after, to_after) ==
  (IF u \in Pins[e] /\ from_after = 1 THEN -EdgeWeight[e] ELSE 0)
  + (IF u \in Pins[e] /\ part_ids[u] = b /\ to_after = 2 THEN EdgeWeight[e] ELSE 0)

\* The terms of the moved nodes stay as they are.
NothingRecomputed(S) == UNCHANGED penalty

-----------------------------------------------------------------------------
(* deltaGainUpdate *)

\* Change of the penalty term of node u, and of its benefit term for block c.
PenaltyDelta(u, a, b, e, from_after, to_after) ==
  (IF u \in Pins[e] /\ part_ids[u] = a /\ from_after = 1 THEN -EdgeWeight[e] ELSE 0)
  + (IF u \in Pins[e] /\ part_ids[u] = b /\ to_after = 2 THEN EdgeWeight[e] ELSE 0)
BenefitDelta(u, c, a, b, e, from_after, to_after) ==
  (IF u \in Pins[e] /\ c = a /\ from_after = 0 THEN -EdgeWeight[e] ELSE 0)
  + (IF u \in Pins[e] /\ c = b /\ to_after = 1 THEN EdgeWeight[e] ELSE 0)

\* Km1AttributedGains::gain
AttributedGain(s) ==
  (IF s.to_after = 1 THEN EdgeWeight[s.he] ELSE 0)
  - (IF s.from_after = 0 THEN EdgeWeight[s.he] ELSE 0)

\* The terms of the pins are updated one by one with atomic additions; nobody reads
\* them before the end of the round, and the block of a pin that another thread
\* moves only matters for its penalty term, which is recomputed then.
DeltaGainUpdate(m) ==
  LET s == update[m] IN
  /\ penalty' = [u \in Nodes |-> penalty[u] +
       PenaltyDelta(u, from[m], to[m], s.he, s.from_after, s.to_after)]
  /\ benefit' = [u \in Nodes |-> [c \in Blocks |-> benefit[u][c] +
       BenefitDelta(u, c, from[m], to[m], s.he, s.from_after, s.to_after)]]

\* my_delta_func of changeNodePart(gain_cache, ...)
DeltaFunctionWithCache(m) ==
  /\ DeltaFunction(m)
  /\ quality' = quality + AttributedGain(update[m])
  /\ DeltaGainUpdate(m)
  /\ UNCHANGED moves

CallWithCache(m) ==
  /\ moves[NodeOf[m]] < MaxMoves
  /\ Call(m)
  /\ UNCHANGED <<cacheVars, quality, moves>>

SilentWithCache(m) ==
  /\ Silent(m)
  /\ moves' = [moves EXCEPT ![NodeOf[m]] = IF pc[m] = "set_part" THEN @ + 1 ELSE @]
  /\ UNCHANGED <<cacheVars, quality>>

\* recomputeInvalidTerms for every node of S
RecomputeInvalidTerms(S) ==
  penalty' = [u \in Nodes |-> IF u \in S THEN RecomputePenaltyTerm(u) ELSE penalty[u]]

\* After the barrier at the end of a round: all moved nodes are recomputed, and
\* perhaps others.
EndOfRound ==
  /\ \A m \in Movers : pc[m] = "idle"
  /\ \E S \in SUBSET Nodes : Moved \subseteq S /\ RecomputeInvalidTerms(S)
  /\ moves' = [u \in Nodes |-> 0]
  /\ UNCHANGED <<phgVars, benefit, quality>>

Km1Next ==
  \/ \E m \in Movers : CallWithCache(m) \/ SilentWithCache(m) \/ DeltaFunctionWithCache(m)
  \/ EndOfRound

Km1Spec == Km1Init /\ [][Km1Next]_km1Vars
-----------------------------------------------------------------------------
(* Properties *)

\* Movers whose update of the cache is outstanding.
Outstanding == {m \in Movers : pc[m] = "delta"}

\* deltaGainUpdate: benefit terms are exact up to outstanding updates, although the
\* updates of one net arrive in any order.
BenefitTracked ==
  \A u \in Nodes, b \in Blocks :
    benefit[u][b] + MapThenSumSet(LAMBDA m :
        BenefitDelta(u, b, from[m], to[m], update[m].he, update[m].from_after, update[m].to_after),
      Outstanding)
    = RecomputeBenefitTerm(u, b)

\* The penalty term of a node that was not moved is exact up to outstanding
\* updates: all updates find it in its block.
PenaltyTracked ==
  \A u \in Nodes \ Moved :
    penalty[u] + MapThenSumSet(LAMBDA m :
        PenaltyDelta(u, from[m], to[m], update[m].he, update[m].from_after, update[m].to_after),
      Outstanding)
    = RecomputePenaltyTerm(u)

\* Km1AttributedGains: the objective before the round and the gains that are
\* attributed to the moves since add up to the objective of the partition, up to
\* outstanding updates, although several movers change the same net.
QualityTracked ==
  quality + MapThenSumSet(LAMBDA m : AttributedGain(update[m]), Outstanding) = Quality

\* What the delta function of a move keeps true of the gain cache, and of the
\* objective that refiners report, while moves are under way.
CacheTracked == BenefitTracked /\ PenaltyTracked /\ QualityTracked

\* checkTrackedPartitionInformation(gain_cache) after a round.
GainCacheExact ==
  Moved = {} /\ (\A m \in Movers : pc[m] = "idle") =>
    \A u \in Nodes :
      /\ penalty[u] = RecomputePenaltyTerm(u)
      /\ \A b \in Blocks : benefit[u][b] = RecomputeBenefitTerm(u, b)
=============================================================================
