--------------------------- MODULE PlayProperties ---------------------------
(***************************************************************************)
(* What a game by the rules promises.                                      *)
(***************************************************************************)
EXTENDS Play

TypeOK ==
  /\ game \in Games
  /\ \A i \in DOMAIN line :
       /\ Occupied(line[i]) \subseteq Squares
       /\ line[i].board \in [Occupied(line[i]) -> Pieces]
       /\ line[i].hands \in [Colors -> [HandKinds -> 0..18]]
       /\ line[i].turn \in Colors
  /\ DOMAIN repetition.global \subseteq Range(line)
  /\ outcome.by \in Colors \cup {"none"}

-----------------------------------------------------------------------------
\* Both kings stay on the board: no sequence of accepted moves ever leaves one
\* to be taken (validate refuses a move that leaves the mover's king attacked).
KingsStand ==
  \A c \in Colors :
    Cardinality({s \in Own(position, c) : position.board[s].kind = "K"}) = 1

\* No move makes or loses a piece: what was captured, promoted, dropped and
\* captured again adds up to the pieces the game began with.
MaterialIsKept ==
  \A kind \in HandKinds \cup {"K"} :
    Stock(position, kind) = Stock(Head(line), kind)

\* A reply exists under the whole of the rules, drop-pawn-mate included.
HasReply(p) ==
  \/ \E s \in Own(p, p.turn), to \in Squares, up \in BOOLEAN :
       IsLegal(p, [from |-> s, to |-> to, promote |-> up])
  \/ \E k \in HandKinds, to \in Squares : IsLegal(p, [drop |-> k, to |-> to])

\* A pawn drop is refused exactly when it mates under the whole of the rules:
\* suspending the rule in the search for a reply (DropPawnMateRule::Suspended)
\* changes no verdict.
OnlyMatesAreRefused ==
  \A m \in game.tries :
    (IsDrop(m) /\ m.drop = "P" /\ IsSound(position, m)) =>
      LET next == After(position, m)
      IN  IsLegal(position, m) <=> ~InCheck(next, next.turn) \/ HasReply(next)

\* At most one side's declaration can hold: the thresholds 28 and 27 leave one
\* point more than the 54 there are.
OneDeclarer == ~ \A c \in Colors : DeclarationHolds(position, c)

-----------------------------------------------------------------------------
\* Where the present position has occurred.
Occasions == {i \in DOMAIN line : line[i] = position}

\* Every move c made to reach line[i], line[i + 1], ... gave check.
ChecksFrom(c, i) ==
  \A j \in i..Len(line) : line[j].turn = Opponent(c) => InCheck(line[j], line[j].turn)

\* Who the streaks find to have checked throughout, told from the line alone:
\* the mover, if it has checked from the first occurrence on and that was a
\* move; else the other, if it has from its move before the second.
Checker ==
  LET mover == Opponent(position.turn)
      first == Min(Occasions)
      second == Min(Occasions \ {first})
  IN  IF first > 1 /\ ChecksFrom(mover, first) THEN mover
      ELSE IF ChecksFrom(position.turn, second - 1) THEN position.turn
      ELSE "none"

\* The game ends at the fourth occurrence and never passes it, and the two
\* streaks' thresholds read off the verdict the whole line gives.
VerdictIsTheLine ==
  /\ Cardinality(Occasions) <= Occurrences
  /\ (Cardinality(Occasions) = Occurrences)
       <=> outcome.how \in {"repetition", "perpetual"}
  /\ outcome.how = "repetition" => Checker = "none"
  /\ outcome.how = "perpetual" => outcome.by = Checker

\* "A side that checks on most of its moves but not all therefore reaches an
\* ordinary draw" (repetition.rs): a perpetual checker has checked on every
\* move since the position first occurred.
MostIsNotAll ==
  outcome.how = "perpetual" => ChecksFrom(outcome.by, Min(Occasions) + 1)
=============================================================================
