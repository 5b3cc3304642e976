------------------------------- MODULE Shogi -------------------------------
(***************************************************************************)
(* The rules of shogi as src/game decides them: how pieces move, check,    *)
(* captures and hands, promotion, drops, the drop-pawn-mate rule and the   *)
(* jishogi declaration.  Pure operators over a position; a refusal's       *)
(* reason is abstracted to FALSE.                                          *)
(***************************************************************************)
EXTENDS Integers, FiniteSets, FiniteSetsExt, Functions

Colors == {"black", "white"}
Opponent(color) == IF color = "black" THEN "white" ELSE "black"

\* A square is <<file, rank>>; rank 1 is Black's last rank.
Squares == (1..9) \X (1..9)

HandKinds == {"R", "B", "G", "S", "N", "L", "P"}
\* up: the piece is promoted.
Pieces == [kind : HandKinds \cup {"K"}, up : BOOLEAN, color : Colors]
Promotes(piece) == ~piece.up /\ piece.kind \notin {"K", "G"}

\* board is a partial function: the empty squares are outside its domain.
Occupied(p) == DOMAIN p.board
Own(p, color) == {s \in Occupied(p) : p.board[s].color = color}

Moves == [from : Squares, to : Squares, promote : BOOLEAN]
           \cup [drop : HandKinds, to : Squares]
IsDrop(m) == "drop" \in DOMAIN m

-----------------------------------------------------------------------------
\* How a piece moves, from Black's side: <<file, rank>> differences.
Orthogonal == {<<0, -1>>, <<0, 1>>, <<1, 0>>, <<-1, 0>>}
Diagonal == {<<1, -1>>, <<-1, -1>>, <<1, 1>>, <<-1, 1>>}
GoldSteps == Orthogonal \cup {<<1, -1>>, <<-1, -1>>}

Steps(piece) ==
  CASE piece.kind = "K" -> Orthogonal \cup Diagonal
    [] piece.kind = "R" -> IF piece.up THEN Diagonal ELSE {}
    [] piece.kind = "B" -> IF piece.up THEN Orthogonal ELSE {}
    [] piece.kind = "G" \/ (piece.up /\ piece.kind \in {"S", "N", "L", "P"}) -> GoldSteps
    [] piece.kind = "S" /\ ~piece.up -> Diagonal \cup {<<0, -1>>}
    [] piece.kind = "N" /\ ~piece.up -> {<<1, -2>>, <<-1, -2>>}
    [] piece.kind = "P" /\ ~piece.up -> {<<0, -1>>}
    [] OTHER -> {}

Slides(piece) ==
  CASE piece.kind = "R" -> Orthogonal
    [] piece.kind = "B" -> Diagonal
    [] piece.kind = "L" /\ ~piece.up -> {<<0, -1>>}
    [] OTHER -> {}

\* The n-th square from s along d, White's board being Black's turned around.
Along(s, d, n, color) ==
  IF color = "black" THEN <<s[1] + n * d[1], s[2] + n * d[2]>>
                     ELSE <<s[1] - n * d[1], s[2] - n * d[2]>>

Reaches(p, from, to) ==
  LET piece == p.board[from]
      at(d, n) == Along(from, d, n, piece.color)
  IN  \/ \E d \in Steps(piece) : at(d, 1) = to
      \/ \E d \in Slides(piece), n \in 1..8 :
           at(d, n) = to /\ \A k \in 1..(n - 1) : at(d, k) \notin Occupied(p)

InCheck(p, color) ==
  \E king \in Own(p, color) :
    /\ p.board[king].kind = "K"
    /\ \E from \in Own(p, Opponent(color)) : Reaches(p, from, king)

RanksFromLast(color, s) == IF color = "black" THEN s[2] - 1 ELSE 9 - s[2]
InPromotionZone(color, s) == RanksFromLast(color, s) < 3

\* A piece of this kind could never leave s again.
MustPromote(kind, color, s) ==
  \/ kind \in {"P", "L"} /\ RanksFromLast(color, s) = 0
  \/ kind = "N" /\ RanksFromLast(color, s) <= 1

-----------------------------------------------------------------------------
CanMove(p, m) ==
  LET piece == p.board[m.from]
  IN  /\ m.from \in Own(p, p.turn)
      /\ m.to \notin Own(p, p.turn)
      /\ Reaches(p, m.from, m.to)
      /\ IF m.promote
         THEN /\ Promotes(piece)
              /\ \/ InPromotionZone(p.turn, m.from)
                 \/ InPromotionZone(p.turn, m.to)
         ELSE piece.up \/ ~MustPromote(piece.kind, p.turn, m.to)

\* Two unpromoted pawns of one side on a file.
IsNifu(p, m) ==
  /\ m.drop = "P"
  /\ \E s \in Own(p, p.turn) :
       s[1] = m.to[1] /\ p.board[s].kind = "P" /\ ~p.board[s].up

CanDrop(p, m) ==
  /\ p.hands[p.turn][m.drop] > 0
  /\ m.to \notin Occupied(p)
  /\ ~MustPromote(m.drop, p.turn, m.to)
  /\ ~IsNifu(p, m)

\* Faulty: a captured piece enters no hand.
TakesNothing(p, to) == {}

\* A captured piece enters the hand unpromoted; a king has no hand kind.
Taken(p, to) ==
  IF to \in Occupied(p) THEN {p.board[to].kind} \ {"K"} ELSE {}

Moved(p, m) ==
  LET piece == p.board[m.from]
      arriving == [piece EXCEPT !.up = @ \/ m.promote]
  IN  [board |-> [s \in (Occupied(p) \ {m.from}) \cup {m.to} |->
                    IF s = m.to THEN arriving ELSE p.board[s]],
       hands |-> [p.hands EXCEPT ![p.turn] =
                    [k \in HandKinds |->
                       @[k] + IF k \in Taken(p, m.to) THEN 1 ELSE 0]],
       turn |-> Opponent(p.turn)]

Dropped(p, m) ==
  LET piece == [kind |-> m.drop, up |-> FALSE, color |-> p.turn]
  IN  [board |-> [s \in Occupied(p) \cup {m.to} |->
                    IF s = m.to THEN piece ELSE p.board[s]],
       hands |-> [p.hands EXCEPT ![p.turn][m.drop] = @ - 1],
       turn |-> Opponent(p.turn)]

After(p, m) == IF IsDrop(m) THEN Dropped(p, m) ELSE Moved(p, m)

\* Faulty: nobody looks whether the mover's king is left in check.
ForgetsTheKing(p, m) == IF IsDrop(m) THEN CanDrop(p, m) ELSE CanMove(p, m)

\* The move fits the pieces and leaves the mover's own king out of check.
IsSound(p, m) ==
  /\ IF IsDrop(m) THEN CanDrop(p, m) ELSE CanMove(p, m)
  /\ ~InCheck(After(p, m), p.turn)

\* Faulty: only the king looks for a way out.
OnlyTheKingReplies(p) ==
  \E from \in Own(p, p.turn), to \in Squares :
    /\ p.board[from].kind = "K"
    /\ IsSound(p, [from |-> from, to |-> to, promote |-> FALSE])

\* The brute-force search for a reply, the drop-pawn-mate rule suspended.
HasLegalMove(p) ==
  \/ \E from \in Own(p, p.turn), to \in Squares, up \in BOOLEAN :
       IsSound(p, [from |-> from, to |-> to, promote |-> up])
  \/ \E k \in {h \in HandKinds : p.hands[p.turn][h] > 0}, to \in Squares :
       IsSound(p, [drop |-> k, to |-> to])

\* The move is a pawn drop and the opponent is in check with no reply.
IsDropPawnMate(p, m) ==
  /\ IsDrop(m)
  /\ m.drop = "P"
  /\ InCheck(After(p, m), Opponent(p.turn))
  /\ ~HasLegalMove(After(p, m))

IsLegal(p, m) == IsSound(p, m) /\ ~IsDropPawnMate(p, m)

-----------------------------------------------------------------------------
\* The jishogi declaration of 1.1: %KACHI against the position.
RequiredPieces == 10
\* Faulty: one threshold for both sides.
SameForBoth(color) == 27
RequiredPoints(color) == IF color = "black" THEN 28 ELSE 27
Points(kind) == CASE kind = "K" -> 0 [] kind \in {"R", "B"} -> 5 [] OTHER -> 1

InCamp(p, color) == {s \in Own(p, color) : InPromotionZone(color, s)}
CampPieces(p, color) == {s \in InCamp(p, color) : p.board[s].kind # "K"}

\* What a side has of a kind in the camp and in hand, and what all of it is worth.
Worth(p, color, kind) ==
  Points(kind) * (Cardinality({s \in CampPieces(p, color) : p.board[s].kind = kind})
                    + p.hands[color][kind])

DeclaredPoints(p, color) ==
  LET worth(kind) == Worth(p, color, kind)
  IN  worth("R") + worth("B") + worth("G") + worth("S") + worth("N") + worth("L") + worth("P")

DeclarationHolds(p, color) ==
  /\ ~InCheck(p, color)
  /\ \E s \in InCamp(p, color) : p.board[s].kind = "K"
  /\ Cardinality(CampPieces(p, color)) >= RequiredPieces
  /\ DeclaredPoints(p, color) >= RequiredPoints(color)

-----------------------------------------------------------------------------
\* The even start.
BackRank == <<"L", "N", "S", "G", "K", "G", "S", "N", "L">>
Placed == [s \in ((1..9) \X {1, 3, 7, 9}) \cup ({2, 8} \X {2, 8}) |->
             IF s[2] \in {1, 9} THEN BackRank[s[1]]
             ELSE IF s[2] \in {3, 7} THEN "P"
             ELSE IF s[1] = s[2] THEN "B" ELSE "R"]

Hirate ==
  [board |-> [s \in DOMAIN Placed |->
                [kind |-> Placed[s], up |-> FALSE,
                 color |-> IF s[2] < 5 THEN "white" ELSE "black"]],
   hands |-> [c \in Colors |-> [k \in HandKinds |-> 0]],
   turn |-> "black"]

=============================================================================
