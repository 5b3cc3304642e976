------------------------------ MODULE GameClock ------------------------------
(***************************************************************************)
(* One game on the clock.  Its setup settles ply by ply; then the readers  *)
(* stamp lines, the sessions pass them on, and the game task charges each  *)
(* by its stamp, settles, relays, and rearms the deadline of the side to   *)
(* move.  Stamps and the deadline are measured from the last relay, as the *)
(* code measures them: a line stamped before it has used no time.          *)
(***************************************************************************)
EXTENDS Clock, Sequences

CONSTANTS
    Configs,        \* the time settings a server may have
    Authored,       \* how many plies a start may author
    MaxMoves,       \* the ply limit, or 0 for none
    SideLines,      \* per side, the kinds of line its client may send
    ElapsedBound,   \* bound: ticks of one turn that are told apart
    PlyBound,       \* bound: plies of one game
    LineBound       \* bound: lines stamped and not yet taken by the game

\* What a move line is - its sign, whether it denotes a move of the position,
\* whether that is legal - is decided where the game takes it.
Kinds == {"MOVE", "RESIGN", "DECLARE", "SUSPEND", "KEEPALIVE"}

ASSUME ConfigAssumption == Configs \subseteq TimeConfigs

\* What a configuration counts is far below u32::MAX.
ASSUME FitAssumption == \A cfg \in Configs :
    /\ TotalUnits(cfg) + IncrementUnits(cfg) <= CountMax
    /\ IncrementUnits(cfg) + UnitsOf(cfg.reduction, cfg) <= CountMax

ASSUME GameAssumption ==
    /\ Authored \subseteq Nat /\ MaxMoves \in Nat
    /\ SideLines \in [Sides -> SUBSET Kinds]
    /\ ElapsedBound \in Nat /\ PlyBound \in Nat /\ LineBound \in Nat

VARIABLES
    time,        \* the settings of this game
    setup,       \* plies of the setup that was sent
    turn,        \* the side to move
    remaining,   \* what each side's clock holds, in units
    reckoned,    \* the same, as the clients reckon it from what they read
    plies,       \* plies in the history, those of the setup included
    elapsed,     \* ticks since the last relay
    lines,       \* per side, stamped lines its session has not taken yet
    inbox,       \* the game's messages
    outcome      \* how the game ended

clockVars == <<turn, remaining, reckoned, plies>>
vars == <<time, setup, clockVars, elapsed, lines, inbox, outcome>>

-----------------------------------------------------------------------------
Other(s) == IF s = "black" THEN "white" ELSE "black"

None == [kind |-> "none", by |-> "none"]

NoLines == [s \in Sides |-> <<>>]

\* The task returns and its inbox with it; what a session still holds is no
\* longer this game's.
Ends(kind, by) ==
    /\ outcome' = [kind |-> kind, by |-> by]
    /\ inbox' = <<>> /\ lines' = NoLines

\* The setup is replayed, START is out and nothing has ended the game.
Playing == plies >= setup /\ outcome = None

Allowance(s) == TurnAllowance(remaining[s], time)

\* Faulty: the flag of a clock that is not running may fall.
FlaggedOffTurn(s, charged) == charged >= Allowance(s)

\* Faulty: a charge must exceed the allowance.
FlaggedBeyond(s, charged) == s = turn /\ charged > Allowance(s)

\* The one predicate of the deadline, of a keep-alive and of every line.
Flagged(s, charged) == s = turn /\ charged >= Allowance(s)

\* A client's reckoning, from the T it is told.
Reckon(s, t) ==
    LET left == reckoned[s] + IncrementUnits(time) - t
    IN reckoned' = [reckoned EXCEPT ![s] = IF left < 0 THEN 0 ELSE left]

Settle(s, charged) ==
    remaining' = [remaining EXCEPT ![s] = Settled(@, IncrementUnits(time), charged)]

\* A board start may have either side to move; a setup starts from black.  The
\* load-time rules keep a reduction off boards and off setups too short for it.
Init ==
    /\ time \in Configs
    /\ \E authored \in Authored : setup = EffectiveSetup(authored, time)
    /\ time.reduced # "none" => FirstMoveIndex(time.reduced) < setup
    /\ turn \in Sides /\ (setup > 0 => turn = "black")
    /\ remaining = [s \in Sides |-> TotalUnits(time)]
    /\ reckoned = remaining
    /\ plies = 0
    /\ elapsed = 0
    /\ lines = NoLines
    /\ inbox = <<>>
    /\ outcome = None

\* One setup ply, before START: settled as a played move settles, and written
\* into the summary both clients read.
Seed ==
    /\ plies < setup
    /\ Settle(SetupMover(plies), SetupTValue(plies, time))
    /\ Reckon(SetupMover(plies), SetupTValue(plies, time))
    /\ turn' = Other(turn)
    /\ plies' = plies + 1
    /\ UNCHANGED <<time, setup, elapsed, lines, inbox, outcome>>

-----------------------------------------------------------------------------
(* Time, the readers and the sessions. *)

Tick ==
    /\ Playing /\ elapsed < ElapsedBound
    /\ elapsed' = elapsed + 1
    /\ UNCHANGED <<time, setup, clockVars, lines, inbox, outcome>>

InFlight == Len(inbox) + Len(lines["black"]) + Len(lines["white"])

\* The reader stamps a line as it comes off the socket.
Stamp(s) ==
    /\ Playing /\ InFlight < LineBound
    /\ \E kind \in SideLines[s] :
         lines' = [lines EXCEPT ![s] = Append(@, [kind |-> kind, at |-> elapsed])]
    /\ UNCHANGED <<time, setup, clockVars, elapsed, inbox, outcome>>

\* The session hands it to the game with the stamp it has; a keep-alive goes
\* without one.
Forward(s) ==
    /\ Playing /\ lines[s] # <<>>
    /\ LET line == Head(lines[s]) IN
       inbox' = Append(inbox,
                  [kind |-> line.kind, side |-> s,
                   at |-> IF line.kind = "KEEPALIVE" THEN 0 ELSE line.at])
    /\ lines' = [lines EXCEPT ![s] = Tail(@)]
    /\ UNCHANGED <<time, setup, clockVars, elapsed, outcome>>

-----------------------------------------------------------------------------
(* The game task. *)

Mover == Head(inbox).side

\* What the message at hand is charged.
Charge == ChargedUnits(Head(inbox).at, time)

Received(kinds) ==
    /\ Playing /\ inbox # <<>>
    /\ Head(inbox).kind \in kinds
    /\ UNCHANGED <<time, setup>>

\* The message changed nothing.
GoesOn == inbox' = Tail(inbox) /\ UNCHANGED <<lines, outcome>>

\* A line whose stamp is past its sender's allowance is a flag, whatever it
\* says, and nothing settles.
Late ==
    /\ Received({"MOVE", "RESIGN", "DECLARE", "SUSPEND"})
    /\ Flagged(Mover, Charge)
    /\ Ends("timeout", Mover)
    /\ UNCHANGED <<clockVars, elapsed>>

\* Out of turn a move, a declaration or a suspension changes nothing, and
\* neither does a move with the sign of the side not to move.
Ignored ==
    /\ \/ Received({"MOVE"})
       \/ Received({"DECLARE", "SUSPEND"}) /\ Mover # turn
    /\ GoesOn
    /\ UNCHANGED <<clockVars, elapsed>>

\* Faulty: the limit is looked for, not reached.
FullExactly(n) == MaxMoves # 0 /\ n = MaxMoves

\* The history has reached the ply limit.
Full(n) == MaxMoves # 0 /\ n >= MaxMoves

\* Faulty: a stamp older than the relay counts from the relay before.
RestampedNever(queue) == queue

\* What is waiting when a move is relayed was stamped before the new turn.
Restamped(queue) == [i \in DOMAIN queue |-> [queue[i] EXCEPT !.at = 0]]

\* A legal move in time: settled, relayed with its charge, and the turn passes.
\* It may complete a repetition, and short of that reach the ply limit.
Relay ==
    /\ Received({"MOVE"}) /\ Mover = turn /\ ~Flagged(Mover, Charge)
    /\ plies < PlyBound
    /\ Settle(Mover, Charge) /\ Reckon(Mover, Charge)
    /\ turn' = Other(turn)
    /\ plies' = plies + 1
    /\ elapsed' = 0
    /\ \/ \E s \in Sides \cup {"none"} : Ends("repetition", s)
       \/ Full(plies + 1) /\ Ends("max_moves", "none")
       \/ /\ ~Full(plies + 1)
          /\ inbox' = Restamped(Tail(inbox))
          /\ lines' = [s \in Sides |-> Restamped(lines[s])]
          /\ UNCHANGED outcome

\* An illegal move or a suspension in time: settled, and echoed with its charge.
Penalise ==
    /\ Received({"MOVE", "SUSPEND"}) /\ Mover = turn /\ ~Flagged(Mover, Charge)
    /\ Settle(Mover, Charge) /\ Reckon(Mover, Charge)
    /\ Ends("illegal", Mover)
    /\ UNCHANGED <<turn, plies, elapsed>>

\* A move line that denotes no move of the position never reaches the game: it
\* is echoed with its charge and not settled, and neither the flag nor the turn
\* of its sender is looked at.
Unreadable ==
    /\ Received({"MOVE"})
    /\ Reckon(Mover, Charge)
    /\ Ends("illegal", Mover)
    /\ UNCHANGED <<turn, remaining, plies, elapsed>>

\* A resignation counts in turn and out of turn.
Resign ==
    /\ Received({"RESIGN"}) /\ ~Flagged(Mover, Charge)
    /\ Settle(Mover, Charge) /\ Reckon(Mover, Charge)
    /\ Ends("resignation", Mover)
    /\ UNCHANGED <<turn, plies, elapsed>>

\* A declaration in time is won or lost; nothing settles.
Declare ==
    /\ Received({"DECLARE"}) /\ Mover = turn /\ ~Flagged(Mover, Charge)
    /\ \E verdict \in {"declared", "undeclared"} : Ends(verdict, Mover)
    /\ UNCHANGED <<clockVars, elapsed>>

\* A keep-alive of either client asks for the deadline's own check, now.
KeepAlive ==
    /\ Received({"KEEPALIVE"})
    /\ IF Flagged(turn, ChargedUnits(elapsed, time))
       THEN Ends("timeout", turn) ELSE GoesOn
    /\ UNCHANGED <<clockVars, elapsed>>

\* The deadline is armed where something bounds the turn.  It fires over an
\* empty inbox only: what is queued is taken first, and then asks again.
Deadline ==
    /\ Playing /\ inbox = <<>>
    /\ Allowance(turn) # NoLimit
    /\ elapsed >= FlagAfter(Allowance(turn), time)
    /\ Flagged(turn, ChargedUnits(elapsed, time))
    /\ Ends("timeout", turn)
    /\ UNCHANGED <<time, setup, clockVars, elapsed>>

-----------------------------------------------------------------------------
TaskStep ==
    \/ Late \/ Ignored \/ Relay \/ Penalise \/ Unreadable
    \/ Resign \/ Declare \/ KeepAlive \/ Deadline

Next ==
    \/ Seed \/ Tick \/ TaskStep
    \/ \E s \in Sides : Stamp(s) \/ Forward(s)

Spec == Init /\ [][Next]_vars

\* Time passes, and the runtime runs a game task that has a message or whose
\* timer fired.  Nothing is assumed of the clients.
Fairness == WF_vars(Tick) /\ WF_vars(TaskStep)

FairSpec == Spec /\ Fairness
=============================================================================
