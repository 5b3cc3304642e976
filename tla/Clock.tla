------------------------------- MODULE Clock -------------------------------
(***************************************************************************)
(* The arithmetic of a clock: what a move is charged, what a turn may      *)
(* cost, when the flag falls, and what a settlement leaves.  Durations are *)
(* in ticks (the code's nanoseconds), counts are in a configuration's time *)
(* units and saturate where the code's u32 does.                           *)
(***************************************************************************)
EXTENDS Integers

CONSTANT CountMax   \* u32::MAX

ASSUME CountAssumption == CountMax \in Nat \ {0}

Sides == {"black", "white"}

\* A byoyomi or an increment that is left out counts as 0; `reduced` is the
\* side that carries a reduction, if one is configured.  Configured durations
\* are counts of the unit.
TimeConfigs ==
    {c \in [unit : Nat \ {0}, total : Nat, byoyomi : Nat, increment : Nat,
            least : Nat, reduction : Nat, roundup : BOOLEAN,
            reduced : Sides \cup {"none"}] :
        \A d \in {c.total, c.byoyomi, c.increment, c.least, c.reduction} :
            d % c.unit = 0}

-----------------------------------------------------------------------------
Capped(n) == IF n > CountMax THEN CountMax ELSE n

SatAdd(a, b) == Capped(a + b)

SatSub(a, b) == IF a > b THEN a - b ELSE 0

\* A duration as a count of units: rounded up, or truncated.
UnitsOf(duration, cfg) ==
    Capped(IF cfg.roundup /\ duration % cfg.unit # 0
           THEN duration \div cfg.unit + 1
           ELSE duration \div cfg.unit)

\* What a move costs: what it used, at least the floor.
ChargedUnits(elapsed, cfg) ==
    LET floor == UnitsOf(cfg.least, cfg)
        used  == UnitsOf(elapsed, cfg)
    IN IF used > floor THEN used ELSE floor

TotalUnits(cfg) == UnitsOf(cfg.total, cfg)

ByoyomiUnits(cfg) == UnitsOf(cfg.byoyomi, cfg)

IncrementUnits(cfg) == UnitsOf(cfg.increment, cfg)

\* More than any count: nothing bounds the turn.
NoLimit == CountMax + 1

\* Faulty: a server without a total is taken for untimed.
TurnAllowanceOfTotal(remaining, cfg) ==
    IF TotalUnits(cfg) = 0 THEN NoLimit
    ELSE SatAdd(SatAdd(remaining, ByoyomiUnits(cfg)), IncrementUnits(cfg))

\* What the side to move may spend on this turn.
TurnAllowance(remaining, cfg) ==
    IF TotalUnits(cfg) = 0 /\ ByoyomiUnits(cfg) = 0 /\ IncrementUnits(cfg) = 0
    THEN NoLimit
    ELSE SatAdd(SatAdd(remaining, ByoyomiUnits(cfg)), IncrementUnits(cfg))

\* Faulty: the timer waits for whole units where the charge rounds up.
FlagAfterWholeUnits(allowance, cfg) ==
    IF UnitsOf(cfg.least, cfg) >= allowance THEN 0 ELSE allowance * cfg.unit

\* The earliest duration whose charge reaches an allowance.
FlagAfter(allowance, cfg) ==
    IF UnitsOf(cfg.least, cfg) >= allowance THEN 0
    ELSE IF cfg.roundup THEN (allowance - 1) * cfg.unit + 1
    ELSE allowance * cfg.unit

\* Faulty: the increment of the turn is not credited.
SettledUncredited(remaining, increment, charged) == SatSub(remaining, charged)

\* One settlement: credit, deduct, floor at zero.
Settled(remaining, increment, charged) ==
    SatSub(SatAdd(remaining, increment), charged)

-----------------------------------------------------------------------------
(* The setup moves that carry an asymmetric allowance. *)

\* A start that authored no moves is sent the king shuttle under a reduction.
EffectiveSetup(authored, cfg) ==
    IF authored = 0 /\ cfg.reduced # "none" THEN 4 ELSE authored

\* A setup alternates from black; its plies are counted from 0.
SetupMover(ply) == IF ply % 2 = 0 THEN "black" ELSE "white"

FirstMoveIndex(side) == IF side = "black" THEN 0 ELSE 1

\* Faulty: the reduction takes the place of the increment.
SetupTValueBare(ply, cfg) ==
    IF cfg.reduced # "none" /\ ply = FirstMoveIndex(cfg.reduced)
    THEN UnitsOf(cfg.reduction, cfg) ELSE IncrementUnits(cfg)

\* The T-value of a setup ply: the increment, and the whole reduction with it
\* on the reduced side's first.
SetupTValue(ply, cfg) ==
    IF cfg.reduced # "none" /\ ply = FirstMoveIndex(cfg.reduced)
    THEN SatAdd(IncrementUnits(cfg), UnitsOf(cfg.reduction, cfg))
    ELSE IncrementUnits(cfg)
=============================================================================
