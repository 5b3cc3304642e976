---------------------------- MODULE RoundSearch ----------------------------
(***************************************************************************)
(* A round as the matchmaker computes it: an engine dropped from an odd     *)
(* half, Heap's enumeration of the orderings of the rest, the engine left  *)
(* over joined to a preset, and pairings withdrawn over the cap.  A larger *)
(* half than ExhaustivePool is sampled instead, which Round describes.     *)
(***************************************************************************)
EXTENDS Matchmaker

CONSTANTS Pools, Spares, Unrated

ASSUME SmallPools == \A pool \in Pools : Len(pool) <= ExhaustivePool

VARIABLES
    pool, spare,            \* what the round is given
    phase,                  \* where the computation is
    order, best, bestScore, \* the search: the ordering, the least one so far
    counters, level,        \* Heap's counters, and where in them it is
    left,                   \* the engine dropped from an odd half, if there is one
    pairings, waiting,      \* what has been decided
    slots                   \* what the cap leaves to charge

given  == <<pool, spare>>
search == <<order, best, bestScore, counters, level>>
vars   == <<given, search, phase, left, pairings, waiting, slots>>

Members == PairedHalf(pool)
Ascending(indices) == SetToSortSeq(indices, LAMBDA i, j : i < j)

Init ==
    /\ pool \in Pools /\ spare \in Spares
    /\ phase = "even"
    /\ order = <<>> /\ best = <<>> /\ bestScore = 0
    /\ counters = <<>> /\ level = 0
    /\ left = {} /\ pairings = <<>> /\ waiting = {} /\ slots = 0

MakeEven ==
    /\ phase = "even"
    /\ left' \in Leftovers(Members)
    /\ order' = Ascending(Members \ left')
    /\ best' = order' /\ bestScore' = Score(pool, order', Unrated)
    /\ counters' = [i \in DOMAIN order' |-> 0] /\ level' = 0
    /\ phase' = "search"
    /\ UNCHANGED <<given, pairings, waiting, slots>>

Exchange(s, i, j) == [s EXCEPT ![i] = s[j], ![j] = s[i]]

\* What the entry at the level is exchanged with.
ExchangedWith == IF level % 2 = 0 THEN 0 ELSE counters[level + 1]

Searching == phase = "search" /\ level < Len(order)

\* Faulty: the exchange is not counted.
NotCounted == counters

Counted == [counters EXCEPT ![level + 1] = @ + 1]

\* The next ordering, scored; the first of the least ones is kept.
Transpose ==
    /\ Searching
    /\ counters[level + 1] < level
    /\ order' = Exchange(order, ExchangedWith + 1, level + 1)
    /\ LET candidate == Score(pool, order', Unrated) IN
         /\ bestScore' = IF candidate < bestScore THEN candidate ELSE bestScore
         /\ best' = IF candidate < bestScore THEN order' ELSE best
    /\ counters' = Counted
    /\ level' = 0
    /\ UNCHANGED <<given, phase, left, pairings, waiting, slots>>

Climb ==
    /\ Searching
    /\ counters[level + 1] >= level
    /\ counters' = [counters EXCEPT ![level + 1] = 0]
    /\ level' = level + 1
    /\ UNCHANGED <<given, order, best, bestScore, phase, left, pairings, waiting, slots>>

\* The best ordering becomes pairings.
Settle ==
    /\ phase = "search" /\ ~Searching
    /\ pairings' = PairsOf(best)
    /\ phase' = "join"
    /\ UNCHANGED <<given, search, left, waiting, slots>>

\* Faulty: the preset that joins is still among those who wait.
StaysBehind(presets, partner) == presets

LeftWaiting(presets, partner) == presets \ {partner}

\* The engine left over is offered the closest of the presets.
Join ==
    /\ phase = "join"
    /\ LET presets == DOMAIN pool \ Members IN
       IF left = {} \/ presets = {}
       THEN /\ waiting' = presets \cup left
            /\ UNCHANGED pairings
       ELSE \E partner \in ClosestTo(pool, Some(left), presets, Unrated) :
              /\ pairings' = Append(pairings, left \cup {partner})
              /\ waiting' = LeftWaiting(presets, partner)
    /\ slots' = spare
    /\ phase' = "withdraw"
    /\ level' = 0
    /\ UNCHANGED <<given, order, best, bestScore, counters, left>>

\* Faulty: any pairing is withdrawn once the slots are used up.
NoSlotLeft(cost) == cost > slots \/ slots = 0

DoesNotFit(cost) == cost > slots

\* The next pairing is kept and charged, or withdrawn whole.
Withdraw ==
    /\ phase = "withdraw" /\ level < Len(pairings)
    /\ LET pairing == pairings[level + 1]
           cost    == SlotCost(pool, pairing)
       IN IF DoesNotFit(cost)
          THEN /\ pairings' = RemoveAt(pairings, level + 1)
               /\ waiting' = waiting \cup pairing
               /\ UNCHANGED <<level, slots>>
          ELSE /\ slots' = slots - cost
               /\ level' = level + 1
               /\ UNCHANGED <<pairings, waiting>>
    /\ UNCHANGED <<given, order, best, bestScore, counters, phase, left>>

Finish ==
    /\ phase = "withdraw" /\ level >= Len(pairings)
    /\ phase' = "done"
    /\ UNCHANGED <<given, search, left, pairings, waiting, slots>>

Next == MakeEven \/ Transpose \/ Climb \/ Settle \/ Join \/ Withdraw \/ Finish

\* The round is one call that runs to its end.
Spec == Init /\ [][Next]_vars /\ WF_vars(Next)

-----------------------------------------------------------------------------
Rules == INSTANCE Round WITH
    answer <- IF phase = "done" THEN {[pairings |-> Range(pairings), waiting |-> waiting]}
              ELSE {}

\* The round follows the rules: the search ends, and what it ends with is one of
\* the least costly ways to pair the half, with the cap applied on top.
FollowsTheRules == Rules!Spec

\* A round decides.
RoundDecides == <>(phase = "done")

\* Nobody is lost on the way, and nobody is paired twice: at every step after the
\* half is made even, each engine is in one pairing, waiting, or still to be placed.
EveryEngineOnce ==
    phase \in {"withdraw", "done"} =>
        /\ UNION Range(pairings) \cup waiting = DOMAIN pool
        /\ UNION Range(pairings) \cap waiting = {}
        /\ Cardinality(UNION Range(pairings)) = 2 * Len(pairings)
=============================================================================
