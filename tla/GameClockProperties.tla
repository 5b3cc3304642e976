------------------------ MODULE GameClockProperties ------------------------
(***************************************************************************)
(* What GameClock promises: the clients' clocks are the server's, the      *)
(* timer and the charge agree to the tick, and a game ends.                *)
(***************************************************************************)
EXTENDS GameClock

\* No stamp is in the future.
Lines == [kind : Kinds, at : 0..elapsed]

Messages == [kind : Kinds, side : Sides, at : 0..elapsed]

Outcomes == [kind : {"none", "timeout", "repetition", "max_moves", "illegal",
                     "resignation", "declared", "undeclared"},
             by : Sides \cup {"none"}]

\* The clocks stay in the range of the code's u32 and what waits was stamped in
\* this turn (game_task.rs, connection.rs read_lines).
TypeOK ==
    /\ time \in Configs /\ setup \in Nat
    /\ turn \in Sides
    /\ remaining \in [Sides -> 0..CountMax]
    /\ reckoned \in [Sides -> Nat]
    /\ plies \in Nat /\ elapsed \in Nat
    /\ lines \in [Sides -> Seq(Lines)]
    /\ inbox \in Seq(Messages)
    /\ outcome \in Outcomes

\* "The T-value written equals the time deducted, so a client applying
\* remaining + increment - T reaches the remaining time the server holds"
\* (clock.rs:3-5): at every moment of the setup and of play.
ClientsAgree == outcome = None => reckoned = remaining

\* A setup leaves both clocks as the summary announces them: the total, and for
\* the reduced side the total less its reduction (game_task.rs Game::new).
StartAllowances ==
    plies = setup =>
        \A s \in Sides :
            LET cut == IF s = time.reduced THEN UnitsOf(time.reduction, time) ELSE 0
            IN outcome = None => remaining[s] = SatSub(TotalUnits(time), cut)

\* The deadline of the turn is the first tick at which a line would be charged
\* its whole allowance: timer and arrival cannot reach different verdicts
\* (clock.rs flag_after, game_task.rs flagged).
DeadlineIsExact ==
    (Playing /\ Allowance(turn) # NoLimit) =>
        (elapsed >= FlagAfter(Allowance(turn), time)
           <=> Flagged(turn, ChargedUnits(elapsed, time)))

\* Only the side to move loses on time, and only once its deadline has passed,
\* whether a timer, a line or a keep-alive of either side found it
\* (game_task.rs flagged, resign, expired).
NoEarlyFlag ==
    outcome.kind = "timeout" =>
        /\ outcome.by = turn
        /\ Allowance(turn) # NoLimit
        /\ elapsed >= FlagAfter(Allowance(turn), time)

\* Without byoyomi a clock that still had time never runs dry in play, so
\* moves charged 0 cannot go on for ever (clock.rs turn_allowance, "the verdict
\* is charged >= allowance").
ClockNeverRunsDry ==
    /\ Playing /\ plies > setup
    /\ time.byoyomi = 0 /\ TotalUnits(time) > UnitsOf(time.reduction, time)
    => \A s \in Sides : remaining[s] > 0

\* A move is only ever answered within the ply limit, the setup's plies
\* counted, even where the setup alone already reaches it (game_task.rs
\* reached_max_moves).
GameIsBounded ==
    (Playing /\ plies > setup /\ MaxMoves # 0) => plies < MaxMoves

-----------------------------------------------------------------------------
Quiet == inbox = <<>> /\ \A s \in Sides : lines[s] = <<>>

\* Any one of the three allowances makes a game timed.
Timed == time.total > 0 \/ time.byoyomi > 0 \/ time.increment > 0

\* A timed turn in which nothing arrives is flagged: the side to move cannot
\* hold the game by silence (pairing.rs wait, expired; clock.rs turn_allowance).
SilenceIsFlagged ==
    (Playing /\ Quiet /\ Timed) ~> (outcome # None \/ ~Quiet)

\* A move of the open turn that its stamp puts inside the allowance.
InTime(m) ==
    /\ m.kind = "MOVE" /\ m.side = turn
    /\ ~Flagged(turn, ChargedUnits(m.at, time))

\* "A message already queued when the deadline passes is taken first, so it is
\* judged by its own stamp rather than by the timer, and channel delay is not
\* billed to a player" (pairing.rs:372-374): nobody loses on time with a move
\* of the open turn queued, stamped inside the allowance.
QueuedMoveIsInTime ==
    [][ (outcome = None /\ outcome'.kind = "timeout") =>
          \A i \in DOMAIN inbox : ~InTime(inbox[i]) ]_vars
=============================================================================
