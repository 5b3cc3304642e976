----------------------------- MODULE Repetition -----------------------------
(***************************************************************************)
(* Repetition (game/repetition.rs): how often a position has occurred, and *)
(* for each side the streak of checks it is giving, broken by its first    *)
(* move without one.  A position is known by its board, hands and turn.    *)
(***************************************************************************)
EXTENDS Shogi

Occurrences == 4
CheckerThreshold == 4
EscaperThreshold == 3

\* Occurrence counts: a function over the positions counted so far.
Zero == [p \in {} |-> 0]
CountOf(counts, p) == IF p \in DOMAIN counts THEN counts[p] ELSE 0
Count(counts, p) ==
  [q \in DOMAIN counts \cup {p} |-> CountOf(counts, q) + IF q = p THEN 1 ELSE 0]

\* A streak that is not checking is Broken and counts nothing.
Broken == [checking |-> FALSE, counts |-> Zero]
Fresh == [global |-> Zero, streak |-> [c \in Colors |-> Broken]]

\* The transmitted start is one occurrence and no move.
CountStart(r, p) == [r EXCEPT !.global = Count(@, p)]

\* Faulty: a move without check does not clear the streak.
NeverBroken(streak, checks) ==
  IF checks THEN [streak EXCEPT !.checking = TRUE] ELSE streak

\* The mover's streak runs on, begins or is cleared, as it gave check or not.
Continued(streak, checks) ==
  IF checks THEN [streak EXCEPT !.checking = TRUE] ELSE Broken

\* A running streak counts the position; both sides' streaks do.
Noted(streak, p) ==
  IF streak.checking THEN [streak EXCEPT !.counts = Count(@, p)] ELSE streak

\* Faulty: only the mover's streak counts the position.
OnlyTheMover(r, p) ==
  LET mover == Opponent(p.turn)
  IN  [global |-> Count(r.global, p),
       streak |-> [r.streak EXCEPT ![mover] =
                     Noted(Continued(@, InCheck(p, p.turn)), p)]]

\* One applied move, p being the position it produced.
Record(r, p) ==
  LET mover == Opponent(p.turn)
      run(c) == IF c = mover THEN Continued(r.streak[c], InCheck(p, p.turn))
                             ELSE r.streak[c]
  IN  [global |-> Count(r.global, p),
       streak |-> [c \in Colors |-> Noted(run(c), p)]]

\* What the move means once it is counted: who loses, if anyone.
Verdict(r, p) ==
  LET mover == Opponent(p.turn)
      times(c) == CountOf(r.streak[c].counts, p)
  IN  IF CountOf(r.global, p) < Occurrences THEN "none"
      ELSE IF times(mover) >= CheckerThreshold THEN mover
      ELSE IF times(p.turn) >= EscaperThreshold THEN p.turn
      ELSE "draw"

=============================================================================
