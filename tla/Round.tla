-------------------------------- MODULE Round --------------------------------
(***************************************************************************)
(* What a round promises the coordinator: for the pool as it was read and   *)
(* the slots left under the cap, one of the answers the rules allow, once. *)
(***************************************************************************)
EXTENDS Matchmaker

CONSTANTS Pools, Spares, Unrated

VARIABLES pool, spare, answer

Undecided == {}

Init ==
    /\ pool \in Pools /\ spare \in Spares
    /\ answer = Undecided

Decide ==
    /\ answer = Undecided /\ answer' # Undecided
    /\ \E decided \in PairRound(pool, Unrated, spare) : answer' = {decided}
    /\ UNCHANGED <<pool, spare>>

Spec == Init /\ [][Decide]_<<pool, spare, answer>>
=============================================================================
