----------------------------- MODULE Matchmaker -----------------------------
(***************************************************************************)
(* One round's pairing of the waiting pool, as the set of answers it may   *)
(* give: every draw it makes is a choice.  The pool is a sequence of what  *)
(* the policy is told about each waiting engine; an engine is its index in *)
(* it, a pairing the set of its two players, whose sides are a coin, and   *)
(* an optional value a set of at most one.                                 *)
(***************************************************************************)
EXTENDS Presets, SequencesExt

RematchPenalty        == 400
UnratedRematchPenalty == 4000
SameAccountPenalty    == 800
EstimateMargin        == 200
ExhaustivePool        == 7

Some(option) == CHOOSE value \in option : TRUE

TakesASlot(engine) == engine.preset /\ engine.pays

\* A fitted rating, a provisional one, the last opponent's shifted by how the
\* game went, or the configured estimate.
EstimateRate(engine, unrated) ==
    IF engine.rate # {} THEN Some(engine.rate)
    ELSE IF engine.provisional # {} THEN Some(engine.provisional)
    ELSE IF engine.previous = {} \/ Some(engine.previous).rate = {} THEN unrated
    ELSE LET game == Some(engine.previous)
         IN Some(game.rate) + (IF game.won THEN EstimateMargin ELSE -EstimateMargin)

\* Either side's memory of its previous game is enough.
IsRematch(one, other) ==
    \/ \E game \in one.previous : game.opponent = other.engine
    \/ \E game \in other.previous : game.opponent = one.engine

Cost(one, other, unrated) ==
      Distance(EstimateRate(one, unrated), EstimateRate(other, unrated))
    + (IF IsRematch(one, other)
       THEN RematchPenalty
              + (IF one.rate = {} \/ other.rate = {} THEN UnratedRematchPenalty ELSE 0)
       ELSE 0)
    + (IF one.account = other.account THEN SameAccountPenalty ELSE 0)

\* An ordering pairs its consecutive entries.
PairsOf(order) == [k \in 1..Len(order) \div 2 |-> {order[2 * k - 1], order[2 * k]}]

Score(pool, order, unrated) ==
    MapThenSumSet(LAMBDA k : Cost(pool[order[2 * k - 1]], pool[order[2 * k]], unrated),
                  1..Len(order) \div 2)

\* A small half is paired at the least cost, a large one as its samples fall.
BestOrderings(pool, members, unrated) ==
    LET orders == SetToSeqs(members)
        least  == Min({Score(pool, order, unrated) : order \in orders})
    IN IF Cardinality(members) > ExhaustivePool THEN orders
       ELSE {order \in orders : Score(pool, order, unrated) = least}

\* Any member of an odd half may be the one left over.
Leftovers(members) ==
    IF Cardinality(members) % 2 = 1 THEN {{left} : left \in members} ELSE {{}}

PairPool(pool, members, unrated) ==
    UNION {{[pairs |-> PairsOf(order), left |-> left] :
              order \in BestOrderings(pool, members \ left, unrated)} :
           left \in Leftovers(members)}

\* The half the rules pair: the engines that are no presets, when there is one.
PresetHalf(pool) == {i \in DOMAIN pool : pool[i].preset}
PairedHalf(pool) ==
    IF PresetHalf(pool) = DOMAIN pool THEN DOMAIN pool ELSE DOMAIN pool \ PresetHalf(pool)

\* The waiting presets closest in rate to the engine left over: the draw's set.
ClosestTo(pool, alone, preset, unrated) ==
    LET gap(i) == Distance(EstimateRate(pool[i], unrated), EstimateRate(pool[alone], unrated))
    IN {i \in preset : \A j \in preset : gap(i) <= gap(j)}

\* What a pairing charges, and what those kept up to the k-th have charged.
SlotCost(pool, pairing) == Cardinality({i \in pairing : TakesASlot(pool[i])})

Charged(pool, spare, pairs) ==
    LET left[k \in 0..Len(pairs)] ==
          IF k = 0 THEN spare
          ELSE LET cost == SlotCost(pool, pairs[k])
               IN IF cost > left[k - 1] THEN left[k - 1] ELSE left[k - 1] - cost
    IN left

Kept(pool, spare, pairs) ==
    LET left == Charged(pool, spare, pairs)
    IN {pairs[k] : k \in {k \in 1..Len(pairs) : SlotCost(pool, pairs[k]) <= left[k - 1]}}

Answer(pool, pairings) ==
    [pairings |-> pairings, waiting |-> DOMAIN pool \ UNION pairings]

\* Faulty: the engine left over is never offered a preset.
PairRoundApart(pool, unrated, spare) ==
    {Answer(pool, Kept(pool, spare, half.pairs)) :
       half \in PairPool(pool, PairedHalf(pool), unrated)}

\* The engine left over of an odd half of engines that are no presets meets a
\* preset; the cap withdraws pairings once the rules have decided.
PairRound(pool, unrated, spare) ==
    LET preset == PresetHalf(pool) \ PairedHalf(pool)
        joined(half) ==
          IF half.left = {} \/ preset = {} THEN {half.pairs}
          ELSE LET alone == Some(half.left) IN
               {Append(half.pairs, {alone, partner}) :
                  partner \in ClosestTo(pool, alone, preset, unrated)}
    IN {Answer(pool, Kept(pool, spare, pairs)) :
          pairs \in UNION {joined(half) : half \in PairPool(pool, PairedHalf(pool), unrated)}}
=============================================================================
