---------------------------- MODULE MCGameClock ----------------------------
(***************************************************************************)
(* The instances TLC checks.  A unit is two ticks, so that half units tell *)
(* rounding up from truncating.                                            *)
(***************************************************************************)
EXTENDS GameClockProperties

Config(total, byoyomi, increment, least, roundup) ==
    [unit |-> 2, total |-> 2 * total, byoyomi |-> 2 * byoyomi,
     increment |-> 2 * increment, least |-> 2 * least, roundup |-> roundup,
     reduced |-> "none", reduction |-> 0]

Reduced(cfg, side, units) ==
    [cfg EXCEPT !.reduced = side, !.reduction = 2 * units]

\* Sudden death, byoyomi with and without a total, an increment under a
\* reduction, and no clock at all.
TimeSettings ==
    {Config(2, 0, 0, 0, FALSE), Config(1, 1, 0, 1, TRUE), Config(0, 1, 0, 0, TRUE),
     Reduced(Config(2, 0, 1, 0, TRUE), "black", 1), Config(0, 0, 0, 0, FALSE)}

\* Both sides move; the other lines are shared out.
AllLines == [black |-> {"MOVE", "RESIGN", "KEEPALIVE"},
             white |-> {"MOVE", "DECLARE", "SUSPEND"}]

\* One side moves, the other keeps its connection alive.
Moves == [black |-> {"MOVE"}, white |-> {"KEEPALIVE"}]
=============================================================================
