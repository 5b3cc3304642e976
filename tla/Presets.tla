------------------------------ MODULE Presets ------------------------------
(***************************************************************************)
(* What one matchmaking round does about the preset engines: which to      *)
(* start, which to stop, and whether to break off the game between two of  *)
(* them.  Pure: a preset is the standing a round reads, and presets are    *)
(* numbered from 1 in configuration order.                                 *)
(***************************************************************************)
EXTENDS Integers, Sequences, FiniteSetsExt

\* How many presets may be in a game at once.
MaxPlaying == 2

PresetStates == {"Stopped", "Connecting", "Idle", "PlayingExternal", "PlayingPreset"}
PresetKinds  == {"ExternallyRun", "Resident", "OnDemand"}
Standings    == [state : PresetStates, kind : PresetKinds, estimate : Int]

IsPlaying(state) == state \in {"PlayingExternal", "PlayingPreset"}

PaysOnPairing(kind) == kind # "OnDemand"

\* Faulty: an on-demand preset pays only while it plays, like the others.
OccupiesInGameOnly(preset) == IsPlaying(preset.state)

OccupiesASlot(preset) ==
    IF preset.kind = "OnDemand" THEN preset.state # "Stopped"
                                ELSE IsPlaying(preset.state)

IsStartable(preset) == preset.kind = "OnDemand" /\ preset.state = "Stopped"

IsAvailable(preset) ==
    ~IsPlaying(preset.state) /\ (IsStartable(preset) \/ preset.state # "Stopped")

Held(presets) == Cardinality({i \in DOMAIN presets : OccupiesASlot(presets[i])})

-----------------------------------------------------------------------------
(* The rates a round aims at. *)

Distance(a, b) == IF a < b THEN b - a ELSE a - b

Total(rates) == MapThenSumSet(LAMBDA i : rates[i], DOMAIN rates)

\* Rounded toward zero.
Mean(rates) ==
    IF Total(rates) >= 0 THEN Total(rates) \div Len(rates)
                         ELSE -((-Total(rates)) \div Len(rates))

FirstOf(indices) == {i \in indices : \A j \in indices : i <= j}

\* The admitted presets closest to the mean, the first of them only: at most one.
Closest(externals, presets, admitted) ==
    LET gap(i) == Distance(presets[i].estimate, Mean(externals))
    IN FirstOf({i \in admitted : \A j \in admitted : gap(i) <= gap(j)})

-----------------------------------------------------------------------------
(* The plan. *)

InState(presets, state) == {i \in DOMAIN presets : presets[i].state = state}
Playing(presets)        == {i \in DOMAIN presets : IsPlaying(presets[i].state)}
Startable(presets)      == {i \in DOMAIN presets : IsStartable(presets[i])}

\* The first two available presets, those already there before the stopped.
CalibrationPair(presets) ==
    LET available == {i \in DOMAIN presets : IsAvailable(presets[i])}
        there(i)  == presets[i].state # "Stopped"
        before(j, i) == \/ there(j) /\ ~there(i)
                        \/ there(j) = there(i) /\ j < i
    IN IF Cardinality(available) < 2 THEN {}
       ELSE {i \in available : Cardinality({j \in available : before(j, i)}) < 2}

\* Faulty: a preset on its way is forgotten, so each round stops it again.
ForgetsTheComing(externals, presets, free) ==
    LET waiting == InState(presets, "Idle") IN
    IF waiting # {} THEN Closest(externals, presets, waiting)
    ELSE IF free = 0 THEN {}
    ELSE Closest(externals, presets, Startable(presets))

\* A preset waiting, else one on its way, else one to start if a slot is free.
JoinsTheLeftover(externals, presets, free) ==
    LET waiting == InState(presets, "Idle")
        coming  == InState(presets, "Connecting")
    IN IF waiting # {} THEN Closest(externals, presets, waiting)
       ELSE IF coming # {} THEN FirstOf(coming)
       ELSE IF free = 0 THEN {}
       ELSE Closest(externals, presets, Startable(presets))

Odd(externals) == Len(externals) % 2 = 1

Wanted(externals, presets) ==
    LET playing == Playing(presets)
        free    == IF Cardinality(playing) < MaxPlaying
                   THEN MaxPlaying - Cardinality(playing) ELSE 0
    IN playing \cup
         (IF externals = <<>>
          THEN IF InState(presets, "PlayingPreset") = {} /\ free >= 2
               THEN CalibrationPair(presets) ELSE {}
          ELSE IF Odd(externals) THEN JoinsTheLeftover(externals, presets, free)
          ELSE {})

\* Faulty: off by one.
AbortsAboveTheCap(externals, presets) ==
    /\ Odd(externals)
    /\ \A i \in DOMAIN presets : OccupiesASlot(presets[i]) => IsPlaying(presets[i].state)
    /\ Held(presets) > MaxPlaying
    /\ InState(presets, "PlayingPreset") # {}

\* An odd number of externals, nobody whose slot is paid for to join them, no
\* slot free, and a game between two presets that holds the slots.
Aborts(externals, presets) ==
    /\ Odd(externals)
    /\ \A i \in DOMAIN presets : OccupiesASlot(presets[i]) => IsPlaying(presets[i].state)
    /\ Held(presets) >= MaxPlaying
    /\ InState(presets, "PlayingPreset") # {}

Plan(externals, presets) ==
    LET wanted == Wanted(externals, presets) IN
    [start |-> wanted \cap Startable(presets),
     stop  |-> {i \in DOMAIN presets \ wanted :
                   /\ presets[i].kind = "OnDemand"
                   /\ OccupiesASlot(presets[i])
                   /\ ~IsPlaying(presets[i].state)},
     abort |-> Aborts(externals, presets)]
=============================================================================
