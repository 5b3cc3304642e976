-------------------------------- MODULE Play --------------------------------
(***************************************************************************)
(* One game by the rules (session/game_task.rs, the Game half): it begins  *)
(* from a starting position replayed and counted, each side plays, claims  *)
(* the jishogi win or gives up, and the first event that ends it decides.  *)
(* The clock's half of the same handlers is GameClock.                     *)
(***************************************************************************)
EXTENDS Repetition, Sequences, SequencesExt

\* What can be played: a start (a StartSpec), the ply ceiling max_moves (setup
\* entries included) and, to bound the model, the moves a side may try.
CONSTANT Games

VARIABLES
  game,        \* the member of Games being played
  line,        \* the positions passed through since the transmitted start
  repetition,  \* what they have been counted as
  outcome      \* NoOutcome, or how the game ended and by whom
vars == <<game, line, repetition, outcome>>

NoOutcome == [how |-> "none", by |-> "none"]
Ended(how, by) == [how |-> how, by |-> by]
position == Last(line)
Plies == Len(line) - 1         \* moves.len()

\* A StartSpec: a position written down, and the setup replayed from it (a
\* buoy's is hirate; a written board has none).
Traversal(start) ==
  LET passed[k \in 0..Len(start.setup)] ==
        IF k = 0 THEN <<start.at>>
        ELSE Append(passed[k - 1], After(Last(passed[k - 1]), start.setup[k]))
  IN  passed[Len(start.setup)]

SetupIsLegal(start) ==
  LET passed == Traversal(start)
  IN  \A i \in DOMAIN start.setup : IsLegal(passed[i], start.setup[i])

\* What a collection may hold: a legal setup repeating no position four times.
Validated(start) ==
  LET passed == Traversal(start)
  IN  /\ SetupIsLegal(start)
      /\ \A i \in DOMAIN passed :
           Cardinality({j \in 1..i : passed[j] = passed[i]}) < Occurrences

\* Pieces of a kind, on the board and in the hands, and how many a game has.
Stock(p, kind) ==
  Cardinality({s \in Occupied(p) : p.board[s].kind = kind})
    + IF kind = "K" THEN 0 ELSE p.hands["black"][kind] + p.hands["white"][kind]

FullSet == [R |-> 2, B |-> 2, G |-> 4, S |-> 4, N |-> 4, L |-> 4, P |-> 18]

\* No loader makes a written board and nothing checks one (StartSpec::Board): here it
\* is one a game from hirate can reach, of no more pieces than there are, the king of
\* the side that waits not there to be taken.
ASSUME PlayAssumption ==
  \A g \in Games :
    LET at == g.start.at IN
    /\ g.tries \subseteq Moves /\ g.start.setup \in Seq(Moves)
    /\ at.turn \in Colors /\ at.hands \in [Colors -> [HandKinds -> Nat]]
    /\ IsFiniteSet(Occupied(at)) /\ at.board \in [Occupied(at) -> Pieces]
    /\ \A kind \in HandKinds : Stock(at, kind) <= FullSet[kind]
    /\ ~InCheck(at, Opponent(at.turn))

\* The occurrences a game has before its first move.
Seeded(passed) ==
  LET moves == Len(passed) - 1
      counted[k \in 0..moves] ==
        IF k = 0 THEN CountStart(Fresh, Head(passed))
        ELSE Record(counted[k - 1], passed[k + 1])
  IN  counted[moves]

Init ==
  \E g \in Games :
    /\ Validated(g.start)
    /\ game = g
    /\ line = Traversal(g.start)
    /\ repetition = Seeded(line)
    /\ outcome = NoOutcome

-----------------------------------------------------------------------------
\* What a legal move leads to: the fourth occurrence goes before the ceiling.
OutcomeOf(r, p, count) ==
  LET verdict == Verdict(r, p)
  IN  CASE verdict = "draw" -> Ended("repetition", "none")
        [] verdict \in Colors -> Ended("perpetual", verdict)
        [] verdict = "none" /\ count >= game.max_moves -> Ended("max_moves", "none")
        [] OTHER -> NoOutcome

\* A legal move is made, counted and judged.
Play(m) ==
  LET next == After(position, m)
  IN  /\ outcome = NoOutcome
      /\ IsLegal(position, m)
      /\ line' = Append(line, next)
      /\ repetition' = Record(repetition, next)
      /\ outcome' = OutcomeOf(repetition', next, Plies + 1)
      /\ UNCHANGED game

\* An illegal move, and %CHUDAN with it, loses where it is sent.
Misplay(m) ==
  /\ outcome = NoOutcome
  /\ ~IsLegal(position, m)
  /\ outcome' = Ended("illegal", position.turn)
  /\ UNCHANGED <<game, line, repetition>>

\* %KACHI from the side to move is judged against the position.
Declare ==
  /\ outcome = NoOutcome
  /\ outcome' = Ended(IF DeclarationHolds(position, position.turn)
                        THEN "declared" ELSE "misdeclared", position.turn)
  /\ UNCHANGED <<game, line, repetition>>

\* %TORYO is taken from either side, whoever is to move.
Resign(side) ==
  /\ outcome = NoOutcome
  /\ outcome' = Ended("resigned", side)
  /\ UNCHANGED <<game, line, repetition>>

Next ==
  \/ \E m \in game.tries : Play(m) \/ Misplay(m)
  \/ Declare
  \/ \E side \in Colors : Resign(side)

Spec == Init /\ [][Next]_vars
=============================================================================
