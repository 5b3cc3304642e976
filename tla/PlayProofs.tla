----------------------------- MODULE PlayProofs -----------------------------
(***************************************************************************)
(* Proofs about Play and the rules it plays by, for any games, from any     *)
(* starts with any setups.  The search for a reply with the drop-pawn-mate *)
(* rule suspended refuses the same drops as the whole of the rules would:  *)
(* a pawn that gives check from where it was dropped gives it alone and    *)
(* from the next square, so no drop answers it, and the suspended rule is  *)
(* about drops only.  And the two streaks give the verdict of the line:    *)
(* each holds, position by position, what its side has reached since it    *)
(* began to check without a break.                                         *)
(***************************************************************************)
EXTENDS PlayProperties, SequenceTheorems, FiniteSetTheorems, WellFoundedInduction, TLAPS

LEMMA TwoSides ==
    ASSUME NEW color \in Colors
    PROVE  /\ Opponent(color) \in Colors /\ Opponent(color) # color
           /\ Opponent(Opponent(color)) = color
BY DEF Colors, Opponent

LEMMA DropIsADrop ==
    ASSUME NEW kind, NEW to
    PROVE  /\ IsDrop([drop |-> kind, to |-> to])
           /\ [drop |-> kind, to |-> to].drop = kind /\ [drop |-> kind, to |-> to].to = to
BY DEF IsDrop

LEMMA MoveIsNoDrop ==
    ASSUME NEW from, NEW to, NEW up
    PROVE  ~IsDrop([from |-> from, to |-> to, promote |-> up])
BY DEF IsDrop

\* A dropped piece is there, and every other square is as it was.
LEMMA DroppedBoard ==
    ASSUME NEW p, NEW m
    PROVE  LET q == Dropped(p, m) IN
           /\ q.turn = Opponent(p.turn)
           /\ Occupied(q) = Occupied(p) \cup {m.to}
           /\ q.board[m.to] = [kind |-> m.drop, up |-> FALSE, color |-> p.turn]
           /\ \A s \in Occupied(p) \ {m.to} : q.board[s] = p.board[s]
BY DEF Dropped, Occupied

\* A drop opens no line: what reaches a square afterwards, and was there before,
\* reached it before.
LEMMA DropOpensNothing ==
    ASSUME NEW p, NEW m, NEW from \in Occupied(p) \ {m.to}, NEW to,
           Reaches(Dropped(p, m), from, to)
    PROVE  Reaches(p, from, to)
<1> DEFINE q == Dropped(p, m)
<1>1. q.board[from] = p.board[from]
  BY DroppedBoard, Zenon
<1>2. Occupied(q) = Occupied(p) \cup {m.to}
  BY DroppedBoard, Zenon
<1>3. Occupied(p) \subseteq Occupied(q)
  BY <1>2
<1>4. Reaches(q, from, to)
  OBVIOUS
<1> HIDE DEF q
<1> QED BY <1>1, <1>3, <1>4 DEF Reaches

\* An unpromoted pawn reaches the square in front of it, whatever stands elsewhere.
LEMMA PawnReaches ==
    ASSUME NEW p, NEW from, NEW to, NEW color,
           p.board[from] = [kind |-> "P", up |-> FALSE, color |-> color]
    PROVE  Reaches(p, from, to) <=> Along(from, <<0, -1>>, 1, color) = to
<1> DEFINE pawn == [kind |-> "P", up |-> FALSE, color |-> color]
<1>1. pawn.kind = "P" /\ pawn.up = FALSE /\ pawn.color = color
  OBVIOUS
<1> HIDE DEF pawn
<1>2. Steps(pawn) = {<<0, -1>>}
  BY <1>1 DEF Steps
<1>3. Slides(pawn) = {}
  BY <1>1 DEF Slides
<1>4. p.board[from] = pawn
  BY DEF pawn
<1> QED BY <1>1, <1>2, <1>3, <1>4 DEF Reaches

\* The check a pawn drop gives to a king nothing attacked is the dropped pawn's.
LEMMA CheckedByThePawn ==
    ASSUME NEW p, NEW m, p.turn \in Colors, m.drop = "P", m.to \notin Occupied(p),
           ~InCheck(p, Opponent(p.turn)),
           InCheck(Dropped(p, m), Opponent(p.turn))
    PROVE  \E king \in Own(p, Opponent(p.turn)) :
             p.board[king].kind = "K" /\ Along(m.to, <<0, -1>>, 1, p.turn) = king
<1> DEFINE q == Dropped(p, m)
           c == Opponent(p.turn)
<1>1. /\ Occupied(q) = Occupied(p) \cup {m.to}
      /\ q.board[m.to] = [kind |-> "P", up |-> FALSE, color |-> p.turn]
      /\ \A s \in Occupied(p) : q.board[s] = p.board[s]
  BY DroppedBoard
<1>2. c # p.turn /\ Opponent(c) = p.turn
  BY TwoSides
<1>3. PICK king \in Own(q, c), from \in Own(q, p.turn) :
        q.board[king].kind = "K" /\ Reaches(q, from, king)
  BY <1>2 DEF InCheck
<1>4. king \in Own(p, c) /\ p.board[king].kind = "K"
  <2>1. [kind |-> "P", up |-> FALSE, color |-> p.turn].color = p.turn
    OBVIOUS
  <2>2. king # m.to
    BY <1>1, <1>2, <1>3, <2>1 DEF Own
  <2> QED BY <1>1, <1>3, <2>2 DEF Own
<1>5. from = m.to
  <2> SUFFICES ASSUME from # m.to PROVE FALSE
    OBVIOUS
  <2>1. from \in Own(p, p.turn) /\ from \in Occupied(p) \ {m.to}
    BY <1>1 DEF Own
  <2>2. Reaches(p, from, king)
    BY <1>3, <2>1, DropOpensNothing
  <2> QED BY <1>2, <1>4, <2>1, <2>2 DEF InCheck
<1> QED BY <1>1, <1>3, <1>4, <1>5, PawnReaches

\* No drop answers it.
LEMMA NoDropAnswers ==
    ASSUME NEW p, NEW m, NEW r, p.turn \in Colors, m.drop = "P", m.to \notin Occupied(p),
           ~InCheck(p, Opponent(p.turn)),
           InCheck(Dropped(p, m), Opponent(p.turn)),
           IsDrop(r)
    PROVE  ~IsSound(Dropped(p, m), r)
<1> DEFINE q == Dropped(p, m)
           c == Opponent(p.turn)
           after == Dropped(q, r)
<1>1. PICK king \in Own(p, c) :
        p.board[king].kind = "K" /\ Along(m.to, <<0, -1>>, 1, p.turn) = king
  BY CheckedByThePawn
<1>2. c # p.turn /\ Opponent(c) = p.turn
  BY TwoSides
<1>3. /\ q.turn = c
      /\ Occupied(q) = Occupied(p) \cup {m.to}
      /\ q.board[m.to] = [kind |-> "P", up |-> FALSE, color |-> p.turn]
      /\ \A s \in Occupied(p) : q.board[s] = p.board[s]
  BY DroppedBoard
<1> SUFFICES ASSUME IsSound(q, r) PROVE FALSE
  OBVIOUS
<1>4. r.to \notin Occupied(q) /\ ~InCheck(after, c)
  BY <1>3 DEF IsSound, CanDrop, After
<1>5. /\ Occupied(after) = Occupied(q) \cup {r.to}
      /\ \A s \in Occupied(q) : after.board[s] = q.board[s]
  <2> HIDE DEF q
  <2>1. /\ Occupied(after) = Occupied(q) \cup {r.to}
        /\ \A s \in Occupied(q) \ {r.to} : after.board[s] = q.board[s]
    BY DroppedBoard
  <2>2. r.to \notin Occupied(q)
    BY <1>4
  <2> HIDE DEF after
  <2> QED BY <2>1, <2>2
<1>6. king \in Own(after, c) /\ after.board[king].kind = "K"
  BY <1>1, <1>3, <1>5 DEF Own
<1>7. /\ m.to \in Occupied(after)
      /\ after.board[m.to] = [kind |-> "P", up |-> FALSE, color |-> p.turn]
  BY <1>3, <1>5
<1>8. m.to \in Own(after, p.turn)
  <2>1. [kind |-> "P", up |-> FALSE, color |-> p.turn].color = p.turn
    OBVIOUS
  <2> QED BY <1>7, <2>1 DEF Own
<1> HIDE DEF after
<1>9. Reaches(after, m.to, king)
  BY <1>1, <1>7, PawnReaches
<1> QED BY <1>2, <1>4, <1>6, <1>8, <1>9 DEF InCheck

\* A reply that is legal under the whole of the rules is one with the drop-pawn-mate
\* rule suspended; and when a dropped pawn gives check, the other way around.
LEMMA RepliesAgree ==
    ASSUME NEW p, NEW m, p.turn \in Colors, m.drop = "P", m.to \notin Occupied(p),
           ~InCheck(p, Opponent(p.turn)),
           InCheck(Dropped(p, m), Opponent(p.turn))
    PROVE  HasLegalMove(Dropped(p, m)) <=> HasReply(Dropped(p, m))
<1> DEFINE q == Dropped(p, m)
<1>1. ASSUME NEW from, NEW to, NEW up
      PROVE  IsLegal(q, [from |-> from, to |-> to, promote |-> up])
               <=> IsSound(q, [from |-> from, to |-> to, promote |-> up])
  BY MoveIsNoDrop DEF IsLegal, IsDropPawnMate
<1>2. ASSUME NEW kind, NEW to PROVE ~IsSound(q, [drop |-> kind, to |-> to])
  BY DropIsADrop, NoDropAnswers
<1>3. ASSUME NEW kind, NEW to PROVE ~IsLegal(q, [drop |-> kind, to |-> to])
  BY <1>2 DEF IsLegal
<1> HIDE DEF q
<1> QED BY <1>1, <1>2, <1>3 DEF HasLegalMove, HasReply, q

-----------------------------------------------------------------------------
(* Induction over the natural numbers, on a set *)

\* A set of numbers has a least one.
LEMMA Least ==
    ASSUME NEW T, T \subseteq Nat, T # {}
    PROVE  \E x \in T : \A y \in T : x <= y
<1>1. PICK x \in T : \A y \in T : ~(<<y, x>> \in {ss \in Nat \X Nat : ss[1] < ss[2]})
  BY NatLessThanWellFounded, WFMin DEF OpToRel
<1>2. ASSUME NEW y \in T PROVE x <= y
  <2>1. x \in Nat /\ y \in Nat
    OBVIOUS
  <2>2. <<y, x>> \in Nat \X Nat /\ <<y, x>>[1] = y /\ <<y, x>>[2] = x
    BY <2>1
  <2> QED BY <1>1, <2>1, <2>2
<1> QED BY <1>2

LEMMA Induction ==
    ASSUME NEW S, 0 \in S, \A n \in Nat : n \in S => n + 1 \in S
    PROVE  Nat \subseteq S
<1> SUFFICES ASSUME Nat \ S # {} PROVE FALSE
  OBVIOUS
<1>1. PICK x \in Nat \ S : \A y \in Nat \ S : x <= y
  BY Least
<1>2. x - 1 \in Nat /\ (x - 1) + 1 = x
  BY <1>1
<1>3. x - 1 \in S
  BY <1>1, <1>2
<1> QED BY <1>1, <1>2, <1>3

-----------------------------------------------------------------------------
(* How a game begins: the setup replayed, and counted *)

\* One step of the replay, and one of the count.
Passing(start, sofar, k) == Append(sofar, After(Last(sofar), start.setup[k]))
Counting(passed, sofar, k) == Record(sofar, passed[k + 1])

\* f is what a replay of the setup has passed through, after each of its first n moves.
PassedTo(start, n, f) ==
    /\ f = [k \in 0..n |-> f[k]] /\ f[0] = <<start.at>>
    /\ \A k \in 1..n : f[k] = Passing(start, f[k - 1], k)

LEMMA PassedExists ==
    ASSUME NEW start, NEW n \in Nat
    PROVE  \E f : PassedTo(start, n, f)
<1> DEFINE S == {m \in Nat : \E f : PassedTo(start, m, f)}
<1>1. 0 \in S
  <2>1. PassedTo(start, 0, [k \in 0..0 |-> <<start.at>>])
    BY DEF PassedTo
  <2> QED BY <2>1
<1>2. ASSUME NEW m \in Nat, m \in S PROVE m + 1 \in S
  <2>1. PICK f : PassedTo(start, m, f)
    BY <1>2
  <2> DEFINE g == [k \in 0..m + 1 |-> IF k = m + 1 THEN Passing(start, f[m], m + 1) ELSE f[k]]
  <2>2. /\ g = [k \in 0..m + 1 |-> g[k]] /\ g[0] = <<start.at>>
        /\ g[m + 1] = Passing(start, f[m], m + 1)
        /\ \A k \in 0..m : g[k] = f[k]
    BY <2>1 DEF PassedTo
  <2> HIDE DEF g
  <2>3. ASSUME NEW k \in 1..m + 1 PROVE g[k] = Passing(start, g[k - 1], k)
    <3>1. CASE k = m + 1
      <4>1. k - 1 = m /\ m \in 0..m
        BY <3>1
      <4> QED BY <2>2, <3>1, <4>1
    <3>2. CASE k # m + 1
      <4>1. k \in 1..m /\ k \in 0..m /\ k - 1 \in 0..m
        BY <3>2
      <4> QED BY <2>1, <2>2, <4>1 DEF PassedTo
    <3> QED BY <3>1, <3>2
  <2>4. PassedTo(start, m + 1, g)
    BY <2>2, <2>3 DEF PassedTo
  <2> QED BY <2>4
<1> HIDE DEF S
<1>3. n \in S
  BY <1>1, <1>2, Induction
<1> QED BY <1>3 DEF S

LEMMA PassedIs ==
    ASSUME NEW start, Len(start.setup) \in Nat
    PROVE  \E f : PassedTo(start, Len(start.setup), f) /\ Traversal(start) = f[Len(start.setup)]
<1> DEFINE n == Len(start.setup)
           Body(f) == [k \in 0..n |-> IF k = 0 THEN <<start.at>> ELSE Append(f[k - 1], After(Last(f[k - 1]), start.setup[k]))]
           kept == CHOOSE f : f = Body(f)
<1>1. PICK g : PassedTo(start, n, g)
  BY PassedExists
<1>2. g = Body(g)
  <2>1. g = [k \in 0..n |-> g[k]]
    BY <1>1 DEF PassedTo
  <2>2. ASSUME NEW k \in 0..n PROVE g[k] = Body(g)[k]
    <3>1. k # 0 => k \in 1..n
      OBVIOUS
    <3> QED BY <1>1, <3>1 DEF PassedTo, Passing
  <2> QED BY <2>1, <2>2
<1>3. kept = Body(kept)
  BY <1>2
<1>4. Traversal(start) = kept[n]
  BY DEF Traversal
<1> HIDE DEF kept, n
<1>5. PassedTo(start, Len(start.setup), kept)
  <2>1. kept = [k \in 0..n |-> kept[k]] /\ 0 \in 0..n
    BY <1>3 DEF n
  <2>2. \A k \in 1..n : k \in 0..n /\ k # 0
    BY DEF n
  <2>3. \A k \in 0..n : kept[k] = IF k = 0 THEN <<start.at>> ELSE Append(kept[k - 1], After(Last(kept[k - 1]), start.setup[k]))
    BY <1>3
  <2> QED BY <2>1, <2>2, <2>3 DEF PassedTo, Passing, n
<1> QED BY <1>4, <1>5 DEF n

\* f is what a game has counted, after each of its first n moves.
CountedTo(passed, n, f) ==
    /\ f = [k \in 0..n |-> f[k]] /\ f[0] = CountStart(Fresh, Head(passed))
    /\ \A k \in 1..n : f[k] = Counting(passed, f[k - 1], k)

LEMMA CountedExists ==
    ASSUME NEW passed, NEW n \in Nat
    PROVE  \E f : CountedTo(passed, n, f)
<1> DEFINE S == {m \in Nat : \E f : CountedTo(passed, m, f)}
<1>1. 0 \in S
  <2>1. CountedTo(passed, 0, [k \in 0..0 |-> CountStart(Fresh, Head(passed))])
    BY DEF CountedTo
  <2> QED BY <2>1
<1>2. ASSUME NEW m \in Nat, m \in S PROVE m + 1 \in S
  <2>1. PICK f : CountedTo(passed, m, f)
    BY <1>2
  <2> DEFINE g == [k \in 0..m + 1 |-> IF k = m + 1 THEN Counting(passed, f[m], m + 1) ELSE f[k]]
  <2>2. /\ g = [k \in 0..m + 1 |-> g[k]] /\ g[0] = CountStart(Fresh, Head(passed))
        /\ g[m + 1] = Counting(passed, f[m], m + 1)
        /\ \A k \in 0..m : g[k] = f[k]
    BY <2>1 DEF CountedTo
  <2> HIDE DEF g
  <2>3. ASSUME NEW k \in 1..m + 1 PROVE g[k] = Counting(passed, g[k - 1], k)
    <3>1. CASE k = m + 1
      <4>1. k - 1 = m /\ m \in 0..m
        BY <3>1
      <4> QED BY <2>2, <3>1, <4>1
    <3>2. CASE k # m + 1
      <4>1. k \in 1..m /\ k \in 0..m /\ k - 1 \in 0..m
        BY <3>2
      <4> QED BY <2>1, <2>2, <4>1 DEF CountedTo
    <3> QED BY <3>1, <3>2
  <2>4. CountedTo(passed, m + 1, g)
    BY <2>2, <2>3 DEF CountedTo
  <2> QED BY <2>4
<1> HIDE DEF S
<1>3. n \in S
  BY <1>1, <1>2, Induction
<1> QED BY <1>3 DEF S

LEMMA CountedIs ==
    ASSUME NEW passed, Len(passed) - 1 \in Nat
    PROVE  \E f : CountedTo(passed, Len(passed) - 1, f) /\ Seeded(passed) = f[Len(passed) - 1]
<1> DEFINE n == Len(passed) - 1
           Body(f) == [k \in 0..n |-> IF k = 0 THEN CountStart(Fresh, Head(passed)) ELSE Record(f[k - 1], passed[k + 1])]
           kept == CHOOSE f : f = Body(f)
<1>1. PICK g : CountedTo(passed, n, g)
  BY CountedExists
<1>2. g = Body(g)
  <2>1. g = [k \in 0..n |-> g[k]]
    BY <1>1 DEF CountedTo
  <2>2. ASSUME NEW k \in 0..n PROVE g[k] = Body(g)[k]
    <3>1. k # 0 => k \in 1..n
      OBVIOUS
    <3> QED BY <1>1, <3>1 DEF CountedTo, Counting
  <2> QED BY <2>1, <2>2
<1>3. kept = Body(kept)
  BY <1>2
<1>4. Seeded(passed) = kept[n]
  BY DEF Seeded
<1> HIDE DEF kept, n
<1>5. CountedTo(passed, Len(passed) - 1, kept)
  <2>1. kept = [k \in 0..n |-> kept[k]] /\ 0 \in 0..n
    BY <1>3 DEF n
  <2>2. \A k \in 1..n : k \in 0..n /\ k # 0
    BY DEF n
  <2>3. \A k \in 0..n : kept[k] = IF k = 0 THEN CountStart(Fresh, Head(passed)) ELSE Record(kept[k - 1], passed[k + 1])
    BY <1>3
  <2> QED BY <2>1, <2>2, <2>3 DEF CountedTo, Counting, n
<1> QED BY <1>4, <1>5 DEF n

-----------------------------------------------------------------------------
(* The positions of a game *)

\* The sides move in turn, and the king of the side that waits is not attacked.
TurnByTurn(L) ==
    /\ \E T : L \in Seq(T)
    /\ Len(L) \in Nat /\ Len(L) >= 1
    /\ \A i \in 1..Len(L) : L[i].turn \in Colors
    /\ \A i \in 1..Len(L) - 1 : L[i + 1].turn = Opponent(L[i].turn)

WaitsInSafety(p) == ~InCheck(p, Opponent(p.turn))

LEMMA TurnPasses == ASSUME NEW p, NEW m PROVE After(p, m).turn = Opponent(p.turn)
BY DEF After, Moved, Dropped

LEMMA LegalIsSafe ==
    ASSUME NEW p, NEW m, p.turn \in Colors, IsLegal(p, m)
    PROVE  WaitsInSafety(After(p, m))
BY TurnPasses, TwoSides DEF IsLegal, IsSound, WaitsInSafety

LEMMA AppendTurn ==
    ASSUME NEW L, NEW m, TurnByTurn(L)
    PROVE  LET M == Append(L, After(Last(L), m)) IN
           /\ TurnByTurn(M) /\ Len(M) = Len(L) + 1
           /\ Last(M) = After(Last(L), m)
           /\ \A i \in 1..Len(L) : M[i] = L[i]
<1> DEFINE p == After(Last(L), m)
           M == Append(L, p)
<1>1. PICK T : L \in Seq(T)
  BY DEF TurnByTurn
<1>2. L \in Seq(T \cup {p})
  BY <1>1
<1>3. p.turn = Opponent(L[Len(L)].turn)
  BY TurnPasses DEF Last
<1> HIDE DEF p
<1>4. /\ M \in Seq(T \cup {p}) /\ Len(M) = Len(L) + 1
      /\ \A i \in 1..Len(L) : M[i] = L[i]
      /\ M[Len(L) + 1] = p
  BY <1>2, AppendProperties
<1> HIDE DEF M
<1>5. L[Len(L)].turn \in Colors /\ p.turn \in Colors
  BY <1>3, TwoSides DEF TurnByTurn
<1>6. ASSUME NEW i \in 1..Len(M) PROVE M[i].turn \in Colors
  <2>1. i \in 1..Len(L) \/ i = Len(L) + 1
    BY <1>4 DEF TurnByTurn
  <2> QED BY <1>4, <1>5, <2>1 DEF TurnByTurn
<1>7. ASSUME NEW i \in 1..Len(M) - 1 PROVE M[i + 1].turn = Opponent(M[i].turn)
  <2>1. CASE i = Len(L)
    <3>1. i \in 1..Len(L)
      BY <2>1 DEF TurnByTurn
    <3> QED BY <1>3, <1>4, <2>1, <3>1
  <2>2. CASE i # Len(L)
    <3>1. i \in 1..Len(L) - 1 /\ i \in 1..Len(L) /\ i + 1 \in 1..Len(L)
      BY <1>4, <2>2 DEF TurnByTurn
    <3> QED BY <1>4, <3>1 DEF TurnByTurn
  <2> QED BY <2>1, <2>2
<1>8. TurnByTurn(M)
  BY <1>4, <1>6, <1>7 DEF TurnByTurn
<1>9. Last(M) = p
  BY <1>4 DEF Last
<1> QED BY <1>4, <1>8, <1>9 DEF M, p

\* The line of a replay: every move of the setup leads from one position to the next.
Replayed(start, L, n) ==
    /\ TurnByTurn(L) /\ Len(L) = n + 1 /\ L[1] = start.at
    /\ \A i \in 1..n : L[i + 1] = After(L[i], start.setup[i])

LEMMA TraversalSteps ==
    ASSUME NEW start, start.setup \in Seq(Moves), start.at.turn \in Colors
    PROVE  Replayed(start, Traversal(start), Len(start.setup))
<1> DEFINE n == Len(start.setup)
           L == Traversal(start)
<1>1. n \in Nat
  BY LenProperties
<1>2. PICK f : PassedTo(start, n, f) /\ L = f[n]
  BY <1>1, PassedIs
<1> HIDE DEF n, L
<1> DEFINE S == {k \in Nat : k \in 0..n => Replayed(start, f[k], k)}
<1>3. 0 \in S
  <2>1. f[0] = <<start.at>>
    BY <1>2 DEF PassedTo
  <2>2. /\ <<start.at>> \in Seq({start.at})
        /\ Len(<<start.at>>) = 1 /\ <<start.at>>[1] = start.at
    OBVIOUS
  <2>3. f[0] \in Seq({start.at}) /\ Len(f[0]) = 1 /\ f[0][1] = start.at
    BY <2>1, <2>2
  <2>4. TurnByTurn(f[0])
    BY <2>3 DEF TurnByTurn
  <2> QED BY <2>3, <2>4 DEF Replayed
<1>4. ASSUME NEW k \in Nat, k \in S PROVE k + 1 \in S
  <2> SUFFICES ASSUME k + 1 \in 0..n PROVE Replayed(start, f[k + 1], k + 1)
    OBVIOUS
  <2>1. k \in 0..n /\ k + 1 \in 1..n /\ (k + 1) - 1 = k
    BY <1>1
  <2>2. /\ TurnByTurn(f[k]) /\ Len(f[k]) = k + 1 /\ f[k][1] = start.at
        /\ \A i \in 1..k : f[k][i + 1] = After(f[k][i], start.setup[i])
    BY <1>4, <2>1 DEF Replayed
  <2> DEFINE M == f[k + 1]
  <2>3. M = Append(f[k], After(Last(f[k]), start.setup[k + 1]))
    BY <1>2, <2>1 DEF PassedTo, Passing
  <2>4. /\ TurnByTurn(M) /\ Len(M) = k + 2 /\ Last(M) = After(Last(f[k]), start.setup[k + 1])
        /\ \A i \in 1..k + 1 : M[i] = f[k][i]
    BY <2>2, <2>3, AppendTurn
  <2> HIDE DEF M
  <2>5. M[k + 2] = After(M[k + 1], start.setup[k + 1])
    BY <2>2, <2>4 DEF Last
  <2>6. ASSUME NEW i \in 1..k + 1 PROVE M[i + 1] = After(M[i], start.setup[i])
    <3>1. CASE i = k + 1
      BY <2>5, <3>1
    <3>2. CASE i # k + 1
      <4>1. i \in 1..k /\ i \in 1..k + 1 /\ i + 1 \in 1..k + 1
        BY <3>2
      <4> QED BY <2>2, <2>4, <4>1
    <3> QED BY <3>1, <3>2
  <2>7. M[1] = start.at
    BY <2>2, <2>4
  <2> QED BY <2>4, <2>6, <2>7 DEF Replayed, M
<1> HIDE DEF S
<1>5. n \in S
  BY <1>1, <1>3, <1>4, Induction
<1> QED BY <1>1, <1>2, <1>5 DEF S, L, n

\* A replay of a legal setup is played in turn and in safety.
LEMMA TraversalIsPlayed ==
    ASSUME NEW start, start.setup \in Seq(Moves), start.at.turn \in Colors,
           WaitsInSafety(start.at), SetupIsLegal(start)
    PROVE  TurnByTurn(Traversal(start)) /\ WaitsInSafety(Last(Traversal(start)))
<1> DEFINE n == Len(start.setup)
           L == Traversal(start)
<1>1. n \in Nat /\ DOMAIN start.setup = 1..n
  BY LenProperties
<1>2. /\ TurnByTurn(L) /\ Len(L) = n + 1 /\ L[1] = start.at
      /\ \A i \in 1..n : L[i + 1] = After(L[i], start.setup[i])
  BY TraversalSteps DEF Replayed
<1>3. \A i \in 1..n : IsLegal(L[i], start.setup[i])
  BY <1>1 DEF SetupIsLegal
<1> HIDE DEF n, L
<1>4. CASE n = 0
  BY <1>2, <1>4 DEF L, Last
<1>5. CASE n # 0
  <2>1. n \in 1..n /\ n \in 1..Len(L)
    BY <1>1, <1>2, <1>5
  <2>2. L[n].turn \in Colors /\ Last(L) = After(L[n], start.setup[n])
    BY <1>2, <2>1 DEF TurnByTurn, Last
  <2> QED BY <1>2, <1>3, <2>1, <2>2, LegalIsSafe DEF L
<1> QED BY <1>4, <1>5


-----------------------------------------------------------------------------
(* What the repetition state holds, told from the line *)

Occ(L, n, p) == {i \in 1..n : L[i] = p}

\* Those a set of places holds.
Seen(S, L, n, p) == S \cap Occ(L, n, p)

\* Every move c made to reach L[i], ..., L[n] gave check.
Checks(L, n, c, i) ==
    \A j \in i..n : L[j].turn = Opponent(c) => InCheck(L[j], L[j].turn)

\* What c's streak has seen: from its first move in it on, to reach L[2] or later.
Run(L, n, c) == {i \in 2..n : \E j \in 2..i : L[j].turn = Opponent(c) /\ Checks(L, n, c, j)}

Streak(checking, counts) == [checking |-> checking, counts |-> counts]

\* r counts every occurrence up to the n-th position, and for each side those of
\* the streak it is in.
Tally(L, n, r) ==
    /\ \A p : CountOf(r.global, p) = Cardinality(Occ(L, n, p))
    /\ \A c \in Colors : \E f :
         /\ r.streak[c] = Streak(Run(L, n, c) # {}, f)
         /\ \A p : CountOf(f, p) = Cardinality(Seen(Run(L, n, c), L, n, p))

LEMMA StreakFields ==
    ASSUME NEW checking, NEW counts
    PROVE  LET streak == Streak(checking, counts) IN
           /\ streak.checking = checking /\ streak.counts = counts
BY DEF Streak

LEMMA StreakCounts ==
    ASSUME NEW checking, NEW counts, NEW other
    PROVE  [Streak(checking, counts) EXCEPT !.counts = other] = Streak(checking, other)
BY DEF Streak

LEMMA StreakChecking ==
    ASSUME NEW checking, NEW counts, NEW other
    PROVE  [Streak(checking, counts) EXCEPT !.checking = other] = Streak(other, counts)
BY DEF Streak

LEMMA CountAdds ==
    ASSUME NEW counts, NEW p, NEW q
    PROVE  CountOf(Count(counts, p), q) = CountOf(counts, q) + IF q = p THEN 1 ELSE 0
BY DEF Count, CountOf

LEMMA CountNothing == ASSUME NEW p PROVE CountOf(Zero, p) = 0
BY DEF CountOf, Zero

LEMMA OccFinite ==
    ASSUME NEW L, NEW n \in Nat, NEW S, NEW p
    PROVE  /\ IsFiniteSet(Occ(L, n, p)) /\ Cardinality(Occ(L, n, p)) \in Nat
           /\ IsFiniteSet(Seen(S, L, n, p)) /\ Cardinality(Seen(S, L, n, p)) \in Nat
<1>1. IsFiniteSet(1..n)
  BY FS_Interval
<1>2. Occ(L, n, p) \in SUBSET (1..n) /\ Seen(S, L, n, p) \in SUBSET (1..n)
  BY DEF Occ, Seen
<1> QED BY <1>1, <1>2, FS_Subset, FS_CardinalityType

\* One more position.
LEMMA OccGrows ==
    ASSUME NEW L, NEW n \in Nat, NEW q
    PROVE  /\ Occ(L, n + 1, q) = Occ(L, n, q) \cup (IF q = L[n + 1] THEN {n + 1} ELSE {})
           /\ n + 1 \notin Occ(L, n, q)
<1>1. 1..n + 1 = (1..n) \cup {n + 1} /\ n + 1 \notin 1..n
  OBVIOUS
<1> QED BY <1>1 DEF Occ

LEMMA ChecksGrow ==
    ASSUME NEW L, NEW n \in Nat, NEW c, NEW j \in Nat, j <= n
    PROVE  Checks(L, n + 1, c, j) <=>
             /\ Checks(L, n, c, j)
             /\ L[n + 1].turn = Opponent(c) => InCheck(L[n + 1], L[n + 1].turn)
<1>1. j..n + 1 = (j..n) \cup {n + 1}
  OBVIOUS
<1> QED BY <1>1 DEF Checks

LEMMA ChecksLast ==
    ASSUME NEW L, NEW n \in Nat, NEW c
    PROVE  Checks(L, n, c, n) <=> (L[n].turn = Opponent(c) => InCheck(L[n], L[n].turn))
<1>1. n..n = {n}
  OBVIOUS
<1> QED BY <1>1 DEF Checks

\* The mover's streak goes on, begins or is broken.
LEMMA RunOfMover ==
    ASSUME NEW L, NEW n \in Nat, n >= 1, NEW c, L[n + 1].turn = Opponent(c)
    PROVE  Run(L, n + 1, c) =
             IF InCheck(L[n + 1], L[n + 1].turn) THEN Run(L, n, c) \cup {n + 1} ELSE {}
<1> DEFINE p == L[n + 1]
<1>1. CASE InCheck(p, p.turn)
  <2>1. ASSUME NEW i \in 2..n + 1
        PROVE  i \in Run(L, n + 1, c) <=> i \in Run(L, n, c) \cup {n + 1}
    <3>1. CASE i = n + 1
      <4>1. n + 1 \in 2..n + 1 /\ n + 1 \in 2..i
        BY <3>1
      <4>2. Checks(L, n + 1, c, n + 1)
        BY <1>1, ChecksLast
      <4> QED BY <3>1, <4>1, <4>2 DEF Run
    <3>2. CASE i # n + 1
      <4>1. i \in 2..n /\ \A j \in 2..i : j \in Nat /\ j <= n
        BY <3>2
      <4>2. \A j \in 2..i : Checks(L, n + 1, c, j) <=> Checks(L, n, c, j)
        BY <1>1, <4>1, ChecksGrow
      <4> QED BY <3>2, <4>1, <4>2 DEF Run
    <3> QED BY <3>1, <3>2
  <2>2. Run(L, n + 1, c) \subseteq 2..n + 1 /\ Run(L, n, c) \cup {n + 1} \subseteq 2..n + 1
    BY DEF Run
  <2> QED BY <1>1, <2>1, <2>2
<1>2. CASE ~InCheck(p, p.turn)
  <2>1. ASSUME NEW i \in 2..n + 1, NEW j \in 2..i PROVE ~Checks(L, n + 1, c, j)
    <3>1. n + 1 \in j..n + 1
      OBVIOUS
    <3> QED BY <1>2, <3>1 DEF Checks
  <2>2. Run(L, n + 1, c) = {}
    BY <2>1 DEF Run
  <2> QED BY <1>2, <2>2
<1> QED BY <1>1, <1>2

\* The other's is not touched.
LEMMA RunOfOther ==
    ASSUME NEW L, NEW n \in Nat, n >= 1, NEW c, L[n + 1].turn # Opponent(c)
    PROVE  Run(L, n + 1, c) = IF Run(L, n, c) = {} THEN {} ELSE Run(L, n, c) \cup {n + 1}
<1>1. ASSUME NEW i \in 2..n PROVE i \in Run(L, n + 1, c) <=> i \in Run(L, n, c)
  <2>1. i \in 2..n + 1 /\ \A j \in 2..i : j \in Nat /\ j <= n
    OBVIOUS
  <2>2. \A j \in 2..i : Checks(L, n + 1, c, j) <=> Checks(L, n, c, j)
    BY <2>1, ChecksGrow
  <2> QED BY <2>1, <2>2 DEF Run
<1>2. n + 1 \in Run(L, n + 1, c) <=> Run(L, n, c) # {}
  <2>1. ASSUME n + 1 \in Run(L, n + 1, c) PROVE Run(L, n, c) # {}
    <3>1. PICK j \in 2..n + 1 : L[j].turn = Opponent(c) /\ Checks(L, n + 1, c, j)
      BY <2>1 DEF Run
    <3>2. j # n + 1
      BY <3>1
    <3>3. j \in 2..n /\ j \in Nat /\ j <= n /\ j \in 2..j
      BY <3>2
    <3>4. Checks(L, n, c, j)
      BY <3>1, <3>3, ChecksGrow
    <3>5. j \in Run(L, n, c)
      BY <3>1, <3>3, <3>4 DEF Run
    <3> QED BY <3>5
  <2>2. ASSUME NEW i \in Run(L, n, c) PROVE n + 1 \in Run(L, n + 1, c)
    <3>1. PICK j \in 2..i : L[j].turn = Opponent(c) /\ Checks(L, n, c, j)
      BY <2>2 DEF Run
    <3>2. i \in 2..n
      BY <2>2 DEF Run
    <3>3. j \in 2..n + 1 /\ j \in Nat /\ j <= n /\ n + 1 \in 2..n + 1
      BY <3>2
    <3>4. Checks(L, n + 1, c, j)
      BY <3>1, <3>3, ChecksGrow
    <3> QED BY <3>1, <3>3, <3>4 DEF Run
  <2> QED BY <2>1, <2>2
<1>3. /\ Run(L, n + 1, c) \subseteq (2..n) \cup {n + 1}
      /\ Run(L, n, c) \subseteq 2..n
  <2>1. 2..n + 1 = (2..n) \cup {n + 1}
    OBVIOUS
  <2> QED BY <2>1 DEF Run
<1> QED BY <1>1, <1>2, <1>3

\* The occurrences, with the new position, and those of a streak that takes it in.
LEMMA OccCount ==
    ASSUME NEW L, NEW n \in Nat, NEW q
    PROVE  Cardinality(Occ(L, n + 1, q)) =
             Cardinality(Occ(L, n, q)) + IF q = L[n + 1] THEN 1 ELSE 0
<1>1. IsFiniteSet(Occ(L, n, q)) /\ Cardinality(Occ(L, n, q)) \in Nat
  BY OccFinite
<1>2. /\ Occ(L, n + 1, q) = Occ(L, n, q) \cup (IF q = L[n + 1] THEN {n + 1} ELSE {})
      /\ n + 1 \notin Occ(L, n, q)
  BY OccGrows
<1>3. Cardinality(Occ(L, n, q) \cup {n + 1}) = Cardinality(Occ(L, n, q)) + 1
  BY <1>1, <1>2, FS_AddElement
<1> QED BY <1>1, <1>2, <1>3

LEMMA RunCount ==
    ASSUME NEW L, NEW n \in Nat, NEW S, NEW M, M = S \cup {n + 1}, NEW q
    PROVE  Cardinality(Seen(M, L, n + 1, q)) =
             Cardinality(Seen(S, L, n, q)) + IF q = L[n + 1] THEN 1 ELSE 0
<1> DEFINE more == Seen(M, L, n + 1, q)
           old  == Seen(S, L, n, q)
<1>1. IsFiniteSet(old) /\ Cardinality(old) \in Nat
  BY OccFinite
<1>2. /\ Occ(L, n + 1, q) = Occ(L, n, q) \cup (IF q = L[n + 1] THEN {n + 1} ELSE {})
      /\ n + 1 \notin Occ(L, n, q)
  BY OccGrows
<1>3. /\ q = L[n + 1] => more = old \cup {n + 1}
      /\ q # L[n + 1] => more = old
      /\ n + 1 \notin old
  BY <1>2 DEF Seen
<1> HIDE DEF more, old
<1>4. Cardinality(old \cup {n + 1}) = Cardinality(old) + 1
  BY <1>1, <1>3, FS_AddElement
<1>5. /\ q = L[n + 1] => Cardinality(more) = Cardinality(old) + 1
      /\ q # L[n + 1] => Cardinality(more) = Cardinality(old)
  BY <1>3, <1>4
<1> QED BY <1>1, <1>5 DEF more, old

LEMMA TallyStart ==
    ASSUME NEW L
    PROVE  Tally(L, 1, CountStart(Fresh, L[1]))
<1> DEFINE r == CountStart(Fresh, L[1])
<1>1. r.global = Count(Zero, L[1]) /\ r.streak = [c \in Colors |-> Broken]
  BY DEF CountStart, Fresh
<1>2. Broken = Streak(FALSE, Zero)
  BY DEF Broken, Streak
<1>3. \A c : Run(L, 1, c) = {}
  BY DEF Run
<1>4. \A p : Cardinality(Occ(L, 0, p)) = 0
  <2>1. \A p : Occ(L, 0, p) = {}
    BY DEF Occ
  <2> QED BY <2>1, FS_EmptySet
<1>5. ASSUME NEW p PROVE CountOf(r.global, p) = Cardinality(Occ(L, 1, p))
  <2>1. CountOf(r.global, p) = 0 + IF p = L[1] THEN 1 ELSE 0
    BY <1>1, CountAdds, CountNothing
  <2>2. 0 \in Nat /\ 0 + 1 = 1
    OBVIOUS
  <2>3. Cardinality(Occ(L, 0 + 1, p)) = Cardinality(Occ(L, 0, p)) + IF p = L[0 + 1] THEN 1 ELSE 0
    BY <2>2, OccCount
  <2> QED BY <1>4, <2>1, <2>2, <2>3
<1>6. ASSUME NEW c \in Colors
      PROVE  \E f : /\ r.streak[c] = Streak(Run(L, 1, c) # {}, f)
                    /\ \A p : CountOf(f, p) = Cardinality(Seen(Run(L, 1, c), L, 1, p))
  <2>1. r.streak[c] = Streak(Run(L, 1, c) # {}, Zero)
    BY <1>1, <1>2, <1>3
  <2>2. \A p : Cardinality(Seen(Run(L, 1, c), L, 1, p)) = 0
    <3>1. \A p : Seen(Run(L, 1, c), L, 1, p) = {}
      BY <1>3 DEF Seen
    <3> QED BY <3>1, FS_EmptySet
  <2> QED BY <2>1, <2>2, CountNothing
<1> HIDE DEF r
<1>7. Tally(L, 1, r)
  BY <1>5, <1>6 DEF Tally
<1> QED BY <1>7 DEF r

\* One recorded move.
LEMMA TallyRecord ==
    ASSUME NEW L, NEW n \in Nat, n >= 1, NEW r, Tally(L, n, r), L[n + 1].turn \in Colors
    PROVE  Tally(L, n + 1, Record(r, L[n + 1]))
<1> DEFINE p == L[n + 1]
           mover == Opponent(p.turn)
           after == Record(r, p)
           run(c) == IF c = mover THEN Continued(r.streak[c], InCheck(p, p.turn)) ELSE r.streak[c]
<1>1. /\ after.global = Count(r.global, p)
      /\ \A c \in Colors : after.streak[c] = Noted(run(c), p)
  BY DEF Record
<1>2. /\ mover \in Colors /\ Opponent(mover) = p.turn
      /\ \A c \in Colors : c # mover => Opponent(c) # p.turn
  BY DEF Colors, Opponent
<1>3. ASSUME NEW q PROVE CountOf(after.global, q) = Cardinality(Occ(L, n + 1, q))
  <2>1. CountOf(after.global, q) = CountOf(r.global, q) + IF q = p THEN 1 ELSE 0
    BY <1>1, CountAdds
  <2>2. CountOf(r.global, q) = Cardinality(Occ(L, n, q))
    BY DEF Tally
  <2> QED BY <2>1, <2>2, OccCount
<1> HIDE DEF after
<1> DEFINE Good(c) ==
      \E f : /\ after.streak[c] = Streak(Run(L, n + 1, c) # {}, f)
             /\ \A q : CountOf(f, q) = Cardinality(Seen(Run(L, n + 1, c), L, n + 1, q))
<1>4. ASSUME NEW c \in Colors PROVE Good(c)
  <2>1. PICK f : /\ r.streak[c] = Streak(Run(L, n, c) # {}, f)
                 /\ \A q : CountOf(f, q) = Cardinality(Seen(Run(L, n, c), L, n, q))
    BY DEF Tally
  <2>2. \A q : CountOf(Count(f, p), q) =
                 Cardinality(Seen(Run(L, n, c) \cup {n + 1}, L, n + 1, q))
    <3>1. \A q : CountOf(Count(f, p), q) = CountOf(f, q) + IF q = p THEN 1 ELSE 0
      BY CountAdds
    <3> DEFINE M == Run(L, n, c) \cup {n + 1}
    <3>2. M = Run(L, n, c) \cup {n + 1}
      OBVIOUS
    <3> HIDE DEF M, p
    <3>3. ASSUME NEW q
          PROVE  Cardinality(Seen(M, L, n + 1, q)) =
                   Cardinality(Seen(Run(L, n, c), L, n, q)) + IF q = L[n + 1] THEN 1 ELSE 0
      BY <3>2, RunCount
    <3> QED BY <2>1, <3>1, <3>3 DEF M, p
  <2>3. Run(L, n + 1, c) = {} => \A q : Cardinality(Seen(Run(L, n + 1, c), L, n + 1, q)) = 0
    <3>1. Run(L, n + 1, c) = {} => \A q : Seen(Run(L, n + 1, c), L, n + 1, q) = {}
      BY DEF Seen
    <3> QED BY <3>1, FS_EmptySet
  <2>4. after.streak[c] = Noted(run(c), p)
    BY <1>1
  \* The streak runs, and counts the position.
  <2>5. ASSUME run(c) = Streak(TRUE, f), Run(L, n + 1, c) = Run(L, n, c) \cup {n + 1}
        PROVE  Good(c)
    <3>1. Noted(Streak(TRUE, f), p) = Streak(TRUE, Count(f, p))
      <4>1. Streak(TRUE, f).checking = TRUE /\ Streak(TRUE, f).counts = f
        BY StreakFields
      <4>2. [Streak(TRUE, f) EXCEPT !.counts = Count(f, p)] = Streak(TRUE, Count(f, p))
        BY StreakCounts
      <4> QED BY <4>1, <4>2 DEF Noted
    <3>2. after.streak[c] = Streak(TRUE, Count(f, p))
      BY <2>4, <2>5, <3>1
    <3>3. Run(L, n + 1, c) # {}
      BY <2>5
    <3>4. after.streak[c] = Streak(Run(L, n + 1, c) # {}, Count(f, p))
      BY <3>2, <3>3
    <3> HIDE DEF p, run
    <3> QED BY <2>2, <2>5, <3>4
  \* It does not, and counts nothing.
  <2>6. ASSUME NEW g, run(c) = Streak(FALSE, g), Run(L, n + 1, c) = {},
               \A q : CountOf(g, q) = 0
        PROVE  Good(c)
    <3>1. Noted(Streak(FALSE, g), p) = Streak(FALSE, g)
      BY StreakFields DEF Noted
    <3>2. after.streak[c] = Streak(Run(L, n + 1, c) # {}, g)
      BY <2>4, <2>6, <3>1
    <3> HIDE DEF p, run
    <3> QED BY <2>3, <2>6, <3>2
  <2> HIDE DEF Good
  <2>7. CASE c = mover
    <3>1. p.turn = Opponent(c)
      BY <1>2, <2>7
    <3>2. CASE InCheck(p, p.turn)
      <4>1. run(c) = Streak(TRUE, f)
        <5>1. [Streak(Run(L, n, c) # {}, f) EXCEPT !.checking = TRUE] = Streak(TRUE, f)
          BY StreakChecking
        <5> QED BY <2>1, <2>7, <3>2, <5>1 DEF Continued
      <4> QED BY <2>5, <3>1, <3>2, <4>1, RunOfMover
    <3>3. CASE ~InCheck(p, p.turn)
      <4>1. run(c) = Streak(FALSE, Zero)
        BY <2>7, <3>3 DEF Continued, Broken, Streak
      <4> QED BY <2>6, <3>1, <3>3, <4>1, RunOfMover, CountNothing
    <3> QED BY <3>2, <3>3
  <2>8. CASE c # mover
    <3>1. p.turn # Opponent(c) /\ run(c) = r.streak[c]
      BY <1>2, <2>8
    <3>2. CASE Run(L, n, c) # {}
      <4>1. run(c) = Streak(TRUE, f)
        <5>1. (Run(L, n, c) # {}) = TRUE
          BY <3>2
        <5> QED BY <2>1, <3>1, <5>1
      <4> QED BY <2>5, <3>1, <3>2, <4>1, RunOfOther
    <3>3. CASE Run(L, n, c) = {}
      <4>1. run(c) = Streak(FALSE, f)
        <5>1. (Run(L, n, c) # {}) = FALSE
          BY <3>3
        <5> QED BY <2>1, <3>1, <5>1
      <4>2. \A q : CountOf(f, q) = 0
        <5>1. \A q : Seen(Run(L, n, c), L, n, q) = {}
          BY <3>3 DEF Seen
        <5> QED BY <2>1, <5>1, FS_EmptySet
      <4> QED BY <2>6, <3>1, <3>3, <4>1, <4>2, RunOfOther
    <3> QED BY <3>2, <3>3
  <2> QED BY <2>7, <2>8
<1>5. Tally(L, n + 1, after)
  BY <1>3, <1>4 DEF Tally
<1> QED BY <1>5 DEF after

\* The tally is of the positions up to the n-th, and no others.
LEMMA TallyFrame ==
    ASSUME NEW L, NEW M, NEW n \in Nat, NEW r, Tally(L, n, r), \A i \in 1..n : M[i] = L[i]
    PROVE  Tally(M, n, r)
<1>1. \A p : Occ(M, n, p) = Occ(L, n, p)
  BY DEF Occ
<1>2. ASSUME NEW c, NEW i \in 2..n PROVE Checks(M, n, c, i) <=> Checks(L, n, c, i)
  <2>1. \A j \in i..n : j \in 1..n
    OBVIOUS
  <2> QED BY <2>1 DEF Checks
<1>3. ASSUME NEW c PROVE Run(M, n, c) = Run(L, n, c)
  <2>1. \A i \in 2..n : \A j \in 2..i : j \in 2..n /\ j \in 1..n
    OBVIOUS
  <2> QED BY <1>2, <2>1 DEF Run
<1>4. \A c, p : Seen(Run(M, n, c), M, n, p) = Seen(Run(L, n, c), L, n, p)
  BY <1>1, <1>3 DEF Seen
<1>5. ASSUME NEW c \in Colors
      PROVE  \E f : /\ r.streak[c] = Streak(Run(M, n, c) # {}, f)
                    /\ \A p : CountOf(f, p) = Cardinality(Seen(Run(M, n, c), M, n, p))
  BY <1>3, <1>4 DEF Tally
<1>6. \A p : CountOf(r.global, p) = Cardinality(Occ(M, n, p))
  BY <1>1 DEF Tally
<1> QED BY <1>5, <1>6 DEF Tally

\* What a game has counted when it begins.
LEMMA SeededTally ==
    ASSUME NEW L, TurnByTurn(L)
    PROVE  Tally(L, Len(L), Seeded(L))
<1> DEFINE n == Len(L) - 1
<1>1. n \in Nat /\ n + 1 = Len(L)
  BY DEF TurnByTurn
<1>2. PICK f : CountedTo(L, n, f) /\ Seeded(L) = f[n]
  BY <1>1, CountedIs
<1>3. Head(L) = L[1]
  <2>1. PICK T : L \in Seq(T)
    BY DEF TurnByTurn
  <2>2. L # <<>>
    BY <1>1, <2>1
  <2> QED BY <2>1, <2>2
<1> HIDE DEF n
<1> DEFINE S == {k \in Nat : k \in 0..n => Tally(L, k + 1, f[k])}
<1>4. 0 \in S
  <2>1. f[0] = CountStart(Fresh, L[1])
    BY <1>2, <1>3 DEF CountedTo
  <2>2. Tally(L, 0 + 1, f[0])
    BY <2>1, TallyStart
  <2> QED BY <2>2
<1>5. ASSUME NEW k \in Nat, k \in S PROVE k + 1 \in S
  <2> SUFFICES ASSUME k + 1 \in 0..n PROVE Tally(L, (k + 1) + 1, f[k + 1])
    OBVIOUS
  <2>1. /\ k \in 0..n /\ k + 1 \in 1..n /\ (k + 1) - 1 = k
        /\ k + 1 \in Nat /\ k + 1 >= 1 /\ (k + 1) + 1 \in 1..Len(L)
    BY <1>1
  <2>2. Tally(L, k + 1, f[k])
    BY <1>5, <2>1
  <2>3. f[k + 1] = Record(f[k], L[(k + 1) + 1])
    BY <1>2, <2>1 DEF CountedTo, Counting
  <2>4. L[(k + 1) + 1].turn \in Colors
    BY <2>1 DEF TurnByTurn
  <2> QED BY <2>1, <2>2, <2>3, <2>4, TallyRecord
<1> HIDE DEF S
<1>6. n \in S
  BY <1>1, <1>4, <1>5, Induction
<1>7. Tally(L, n + 1, f[n])
  BY <1>1, <1>6 DEF S
<1> QED BY <1>1, <1>2, <1>7

-----------------------------------------------------------------------------
(* The verdict *)

\* Checker, of any line.
CheckerOf(L) ==
    LET n == Len(L)
        occasions == Occ(L, n, Last(L))
        mover == Opponent(Last(L).turn)
        first == Min(occasions)
        second == Min(occasions \ {first})
    IN  IF first > 1 /\ Checks(L, n, mover, first) THEN mover
        ELSE IF Checks(L, n, Last(L).turn, second - 1) THEN Last(L).turn
        ELSE "none"

LEMMA MinIs ==
    ASSUME NEW T, T \subseteq Nat, T # {}
    PROVE  Min(T) \in T /\ \A x \in T : Min(T) <= x
BY Least DEF Min

\* From one of its places on, a side that has checked throughout has checked
\* throughout from any later one.
LEMMA ChecksLater ==
    ASSUME NEW L, NEW n \in Nat, NEW c, NEW i \in Nat, NEW j \in Nat, i <= j, Checks(L, n, c, i)
    PROVE  Checks(L, n, c, j)
<1>1. \A k \in j..n : k \in i..n
  OBVIOUS
<1> QED BY <1>1 DEF Checks

\* At a fourth occurrence, a streak has seen all four exactly when its side has
\* checked throughout from the first, that being its move.
LEMMA FourTimes ==
    ASSUME NEW L, NEW n \in Nat, NEW p, NEW c, p.turn = Opponent(c),
           Cardinality(Occ(L, n, p)) = 4, NEW first, first = Min(Occ(L, n, p))
    PROVE  Cardinality(Seen(Run(L, n, c), L, n, p)) >= 4
             <=> first > 1 /\ Checks(L, n, c, first)
<1> DEFINE O == Occ(L, n, p)
           R == Run(L, n, c)
<1>1. IsFiniteSet(O) /\ Cardinality(O) = 4
  BY OccFinite
<1>2. O \subseteq 1..n /\ R \subseteq 2..n /\ \A i \in O : L[i] = p
  BY DEF Occ, Run
<1>3. first \in O /\ (\A i \in O : first <= i) /\ first \in Nat
  <2>1. O # {} /\ O \subseteq Nat
    BY <1>1, <1>2, FS_EmptySet
  <2> QED BY <2>1, MinIs
<1>4. Seen(R, L, n, p) = R \cap O /\ R \cap O \in SUBSET O
  BY DEF Seen
<1>5. /\ Cardinality(R \cap O) \in Nat /\ Cardinality(R \cap O) <= 4
      /\ Cardinality(R \cap O) = 4 => R \cap O = O
  <2>1. /\ IsFiniteSet(R \cap O) /\ Cardinality(R \cap O) <= Cardinality(O)
        /\ Cardinality(O) = Cardinality(R \cap O) => O = R \cap O
    BY <1>1, <1>4, FS_Subset
  <2> QED BY <1>1, <2>1, FS_CardinalityType
<1>6. ASSUME Cardinality(R \cap O) >= 4 PROVE first > 1 /\ Checks(L, n, c, first)
  <2>1. first \in R
    BY <1>3, <1>5, <1>6
  <2>2. PICK j \in 2..first : Checks(L, n, c, j)
    BY <2>1 DEF Run
  <2>3. first > 1 /\ j \in Nat /\ j <= first
    BY <1>2, <2>1
  <2> QED BY <1>3, <2>2, <2>3, ChecksLater
<1>7. ASSUME first > 1, Checks(L, n, c, first) PROVE Cardinality(R \cap O) >= 4
  <2>1. ASSUME NEW i \in O PROVE i \in R
    <3>1. i \in 2..n /\ first \in 2..i /\ L[first].turn = Opponent(c)
      BY <1>2, <1>3, <1>7
    <3> QED BY <1>7, <3>1 DEF Run
  <2>2. R \cap O = O
    BY <2>1
  <2> QED BY <1>1, <2>2
<1> HIDE DEF O, R
<1> QED BY <1>4, <1>6, <1>7 DEF R

\* It has seen three of them, one of which is not the side's own move, exactly when
\* the side has checked throughout from its move before the second.
LEMMA ThreeTimes ==
    ASSUME NEW L, TurnByTurn(L), NEW n, n = Len(L), NEW p, NEW c \in Colors, p.turn = c,
           Cardinality(Occ(L, n, p)) = 4, NEW first, first = Min(Occ(L, n, p)),
           NEW second, second = Min(Occ(L, n, p) \ {first})
    PROVE  Cardinality(Seen(Run(L, n, c), L, n, p)) >= 3 <=> Checks(L, n, c, second - 1)
<1> DEFINE O == Occ(L, n, p)
           R == Run(L, n, c)
<1>0. n \in Nat
  BY DEF TurnByTurn
<1>1. IsFiniteSet(O) /\ Cardinality(O) = 4
  BY <1>0, OccFinite
<1>2. O \subseteq 1..n /\ R \subseteq 2..n /\ \A i \in O : L[i] = p
  BY DEF Occ, Run
<1>3. first \in O /\ (\A i \in O : first <= i) /\ first \in Nat
  <2>1. O # {} /\ O \subseteq Nat
    BY <1>1, <1>2, FS_EmptySet
  <2> QED BY <2>1, MinIs
<1> HIDE DEF O
<1>4. IsFiniteSet(O \ {first}) /\ Cardinality(O \ {first}) = 3
  BY <1>1, <1>3, FS_RemoveElement
<1>5. /\ second \in O \ {first} /\ second \in Nat
      /\ \A i \in O \ {first} : second <= i
  <2> DEFINE rest == O \ {first}
  <2> HIDE DEF rest
  <2>a. IsFiniteSet(rest) /\ Cardinality(rest) = 3
    BY <1>4 DEF rest
  <2>b. rest # {}
    BY <2>a, FS_EmptySet
  <2>1. O \ {first} # {} /\ O \ {first} \subseteq Nat
    <3>1. O \subseteq Nat
      BY <1>0, <1>2
    <3> QED BY <3>1, <2>b DEF rest
  <2> QED BY <2>1, MinIs DEF O
<1>6. IsFiniteSet(O \ {first, second}) /\ Cardinality(O \ {first, second}) = 2
  <2>1. O \ {first, second} = (O \ {first}) \ {second}
    OBVIOUS
  <2> DEFINE rest == O \ {first}
  <2>2. IsFiniteSet(rest) /\ Cardinality(rest) = 3 /\ second \in rest
    BY <1>4, <1>5
  <2> HIDE DEF rest
  <2>3. /\ IsFiniteSet(rest \ {second})
        /\ Cardinality(rest \ {second}) = IF second \in rest THEN Cardinality(rest) - 1
                                          ELSE Cardinality(rest)
    BY <2>2, FS_RemoveElement, Zenon
  <2>4. Cardinality(rest \ {second}) = 2
    BY <2>2, <2>3
  <2> QED BY <2>1, <2>3, <2>4 DEF rest
<1>7. Seen(R, L, n, p) = R \cap O /\ IsFiniteSet(R \cap O) /\ Cardinality(R \cap O) \in Nat
  BY <1>0, OccFinite DEF Seen, O
\* The move before the second was the side's, and not the first of the line.
<1>8. L[second - 1].turn = Opponent(c) /\ second - 1 \in 2..n /\ first <= second - 1
  <2>1. first < second /\ first \in 1..n /\ second \in 1..n
    BY <1>2, <1>3, <1>5
  <2>2. second - 1 \in 1..Len(L) - 1 /\ second - 1 \in 1..Len(L) /\ (second - 1) + 1 = second
    BY <1>0, <2>1
  <2>3. L[second].turn = Opponent(L[second - 1].turn) /\ L[second - 1].turn \in Colors
    BY <2>2 DEF TurnByTurn
  <2>4. L[second].turn = c /\ L[first].turn = c
    BY <1>2, <1>3, <1>5
  <2> DEFINE x == L[second - 1].turn
  <2>a. x \in Colors /\ Opponent(x) = c
    BY <2>3, <2>4
  <2> HIDE DEF x
  <2>b. x = Opponent(c)
    BY <2>a, TwoSides
  <2>5. L[second - 1].turn = Opponent(c)
    BY <2>b DEF x
  <2>6. first # second - 1
    BY <2>4, <2>5, TwoSides
  <2> QED BY <1>0, <2>1, <2>2, <2>5, <2>6
<1>9. ASSUME Checks(L, n, c, second - 1) PROVE Cardinality(R \cap O) >= 3
  <2>1. ASSUME NEW i \in O \ {first} PROVE i \in R
    <3>1. second <= i /\ i \in 1..n /\ second - 1 \in 2..n
      BY <1>2, <1>5, <1>8
    <3>2. i \in 2..n /\ second - 1 \in 2..i
      BY <1>0, <1>5, <3>1
    <3> QED BY <1>8, <1>9, <3>2 DEF Run
  <2>2. O \ {first} \in SUBSET (R \cap O)
    BY <2>1
  <2>3. Cardinality(O \ {first}) <= Cardinality(R \cap O)
    BY <1>7, <2>2, FS_Subset
  <2> QED BY <1>4, <1>7, <2>3
<1>10. ASSUME ~Checks(L, n, c, second - 1) PROVE ~(Cardinality(R \cap O) >= 3)
  <2>1. ASSUME NEW i \in R, i <= second PROVE FALSE
    <3>1. PICK j \in 2..i : L[j].turn = Opponent(c) /\ Checks(L, n, c, j)
      BY DEF Run
    <3>2. L[second].turn = c
      BY <1>2, <1>5
    <3>3. j # second
      BY <3>1, <3>2, TwoSides
    <3>4. j \in Nat /\ second - 1 \in Nat /\ j <= second - 1
      BY <1>2, <1>5, <1>8, <2>1, <3>3
    <3> QED BY <1>0, <1>10, <3>1, <3>4, ChecksLater
  <2>2. first \notin R /\ second \notin R
    BY <1>3, <1>5, <2>1
  <2>3. R \cap O \in SUBSET (O \ {first, second})
    BY <2>2
  <2>4. Cardinality(R \cap O) <= 2
    <3> DEFINE seen == R \cap O
               rest == O \ {first, second}
    <3>1. seen \in SUBSET rest /\ IsFiniteSet(rest) /\ Cardinality(rest) = 2
      BY <1>6, <2>3
    <3> HIDE DEF seen, rest
    <3>2. Cardinality(seen) <= 2
      BY <3>1, FS_Subset
    <3> QED BY <3>2 DEF seen
  <2> QED BY <1>7, <2>4
<1> HIDE DEF R
<1> QED BY <1>7, <1>9, <1>10 DEF R

\* What a tally of the whole line says of its last position.
LEMMA VerdictOf ==
    ASSUME NEW L, TurnByTurn(L), NEW r, Tally(L, Len(L), r), NEW p, p = Last(L)
    PROVE  /\ Cardinality(Occ(L, Len(L), p)) < 4 => Verdict(r, p) = "none"
           /\ Cardinality(Occ(L, Len(L), p)) = 4 =>
                /\ CheckerOf(L) \in Colors \cup {"none"}
                /\ Verdict(r, p) = IF CheckerOf(L) = "none" THEN "draw" ELSE CheckerOf(L)
<1> DEFINE n == Len(L)
           mover == Opponent(p.turn)
           times(c) == CountOf(r.streak[c].counts, p)
<1>0. n \in Nat
  BY DEF TurnByTurn
<1>1. p.turn \in Colors /\ mover \in Colors /\ Opponent(mover) = p.turn /\ mover # p.turn
  <2>1. p.turn \in Colors
    BY DEF TurnByTurn, Last
  <2> QED BY <2>1, TwoSides
<1>2. CountOf(r.global, p) = Cardinality(Occ(L, n, p)) /\ Cardinality(Occ(L, n, p)) \in Nat
  BY <1>0, OccFinite DEF Tally
<1>3. ASSUME NEW c \in Colors PROVE times(c) = Cardinality(Seen(Run(L, n, c), L, n, p))
  <2>1. PICK f : /\ r.streak[c] = Streak(Run(L, n, c) # {}, f)
                 /\ \A q : CountOf(f, q) = Cardinality(Seen(Run(L, n, c), L, n, q))
    BY DEF Tally
  <2>2. r.streak[c].counts = f
    BY <2>1, StreakFields
  <2> QED BY <2>1, <2>2
<1>4. CASE Cardinality(Occ(L, n, p)) < 4
  <2>1. Verdict(r, p) = IF CountOf(r.global, p) < 4 THEN "none"
                      ELSE IF times(mover) >= 4 THEN mover
                      ELSE IF times(p.turn) >= 3 THEN p.turn ELSE "draw"
    BY DEF Verdict, Occurrences, CheckerThreshold, EscaperThreshold
  <2> HIDE DEF times, mover
  <2> QED BY <1>2, <1>4, <2>1
<1>5. CASE Cardinality(Occ(L, n, p)) = 4
  <2> DEFINE first == Min(Occ(L, n, p))
             second == Min(Occ(L, n, p) \ {first})
             four == first > 1 /\ Checks(L, n, mover, first)
             three == Checks(L, n, p.turn, second - 1)
  <2>1. times(mover) >= 4 <=> four
    BY <1>0, <1>1, <1>3, <1>5, FourTimes
  <2>2. times(p.turn) >= 3 <=> three
    BY <1>1, <1>3, <1>5, ThreeTimes
  <2>3. CheckerOf(L) = IF four THEN mover ELSE IF three THEN p.turn ELSE "none"
    BY DEF CheckerOf
  <2>4. times(mover) \in Nat /\ times(p.turn) \in Nat
    BY <1>0, <1>1, <1>3, OccFinite
  <2>5. Verdict(r, p) = IF CountOf(r.global, p) < 4 THEN "none"
                      ELSE IF times(mover) >= 4 THEN mover
                      ELSE IF times(p.turn) >= 3 THEN p.turn ELSE "draw"
    BY DEF Verdict, Occurrences, CheckerThreshold, EscaperThreshold
  <2> HIDE DEF first, second, four, three, times, mover
  <2>6. Verdict(r, p) = IF four THEN mover ELSE IF three THEN p.turn ELSE "draw"
    <3>1. ~(CountOf(r.global, p) < 4)
      BY <1>2, <1>5
    <3>2. CASE four
      BY <2>1, <2>4, <2>5, <3>1, <3>2
    <3>3. CASE ~four /\ three
      BY <2>1, <2>2, <2>4, <2>5, <3>1, <3>3
    <3>4. CASE ~four /\ ~three
      BY <2>1, <2>2, <2>4, <2>5, <3>1, <3>4
    <3> QED BY <3>2, <3>3, <3>4
  <2>7. "none" \notin Colors
    BY DEF Colors
  <2> QED BY <1>1, <1>2, <1>5, <2>3, <2>6, <2>7
<1>6. CASE ~(Cardinality(Occ(L, n, p)) < 4) /\ Cardinality(Occ(L, n, p)) # 4
  BY <1>6
<1> QED BY <1>4, <1>5, <1>6

-----------------------------------------------------------------------------
(* The game *)

\* No position has come up four times.
FewTimes(L) == \A i \in 1..Len(L) : Cardinality(Occ(L, i, L[i])) < 4

\* VerdictIsTheLine, of any line and outcome.
Fits(L, over) ==
    LET times == Cardinality(Occ(L, Len(L), Last(L))) IN
    /\ times <= 4
    /\ (times = 4) <=> over.how \in {"repetition", "perpetual"}
    /\ over.how = "repetition" => CheckerOf(L) = "none"
    /\ over.how = "perpetual" => over.by = CheckerOf(L)

PlayedInSafety == TurnByTurn(line) /\ WaitsInSafety(position)

GameInv ==
    /\ PlayedInSafety
    /\ Tally(line, Len(line), repetition)
    /\ outcome = NoOutcome => FewTimes(line)
    /\ Fits(line, outcome)

LEMMA LineDomain == ASSUME NEW L, TurnByTurn(L) PROVE DOMAIN L = 1..Len(L)
<1>1. PICK T : L \in Seq(T)
  BY DEF TurnByTurn
<1> QED BY <1>1, LenProperties

LEMMA FitsMeans ==
    ASSUME TurnByTurn(line)
    PROVE  Fits(line, outcome) => VerdictIsTheLine
<1>1. Occasions = Occ(line, Len(line), Last(line))
  BY LineDomain DEF Occasions, Occ, position
<1>2. \A c, i : ChecksFrom(c, i) <=> Checks(line, Len(line), c, i)
  BY DEF ChecksFrom, Checks
<1>3. Checker = CheckerOf(line)
  BY <1>1, <1>2 DEF Checker, CheckerOf, position
<1> QED BY <1>1, <1>3 DEF Fits, VerdictIsTheLine, Occurrences

LEMMA Greatest ==
    ASSUME NEW n \in Nat, NEW T, T \subseteq 1..n, T # {}
    PROVE  \E m \in T : \A y \in T : y <= m
<1> DEFINE U == {k \in Nat : n - k \in T}
<1>1. U # {} /\ U \subseteq Nat
  <2>1. PICK y \in T : TRUE
    OBVIOUS
  <2>2. n - y \in Nat /\ n - (n - y) = y
    BY <2>1
  <2> QED BY <2>1, <2>2
<1>2. PICK k \in U : \A j \in U : k <= j
  BY <1>1, Least
<1>3. n - k \in T /\ k \in Nat
  BY <1>2
<1>4. ASSUME NEW y \in T PROVE y <= n - k
  <2>1. y \in 1..n /\ n - y \in Nat /\ n - (n - y) = y
    OBVIOUS
  <2>2. n - y \in U
    BY <2>1
  <2>3. k <= n - y
    BY <1>2, <2>2
  <2> QED BY <1>3, <2>1, <2>3
<1> QED BY <1>3, <1>4

\* Then neither has any other.
LEMMA FewAreFew ==
    ASSUME NEW L, Len(L) \in Nat, FewTimes(L), NEW p
    PROVE  Cardinality(Occ(L, Len(L), p)) < 4
<1> DEFINE n == Len(L)
           O == Occ(L, n, p)
<1>1. CASE O = {}
  BY <1>1, FS_EmptySet
<1>2. CASE O # {}
  <2>1. O \subseteq 1..n
    BY DEF Occ
  <2>2. PICK m \in O : \A y \in O : y <= m
    BY <1>2, <2>1, Greatest
  <2>3. m \in 1..n /\ L[m] = p
    BY <2>2 DEF Occ
  <2>4. \A y \in 1..n : y \in O => y \in 1..m
    BY <2>2, <2>3
  <2>5. O = Occ(L, m, p)
    BY <2>3, <2>4 DEF Occ
  <2> QED BY <2>3, <2>5 DEF FewTimes
<1> QED BY <1>1, <1>2

LEMMA GameInit == Init => GameInv
<1> SUFFICES ASSUME Init PROVE GameInv
  OBVIOUS
<1>1. PICK g \in Games : /\ Validated(g.start) /\ line = Traversal(g.start)
                         /\ repetition = Seeded(line) /\ outcome = NoOutcome
  BY DEF Init
<1>2. TurnByTurn(line) /\ WaitsInSafety(position)
  <2>1. /\ g.start.setup \in Seq(Moves) /\ g.start.at.turn \in Colors
        /\ WaitsInSafety(g.start.at)
    BY PlayAssumption DEF WaitsInSafety
  <2>2. SetupIsLegal(g.start)
    BY <1>1 DEF Validated
  <2> QED BY <1>1, <2>1, <2>2, TraversalIsPlayed DEF position
<1>3. Tally(line, Len(line), repetition)
  BY <1>1, <1>2, SeededTally
<1>4. FewTimes(line)
  <2>1. \A i \in DOMAIN line : Cardinality({j \in 1..i : line[j] = line[i]}) < Occurrences
    BY <1>1 DEF Validated
  <2> QED BY <1>2, <2>1, LineDomain DEF FewTimes, Occ, Occurrences
<1>5. Cardinality(Occ(line, Len(line), Last(line))) < 4
  BY <1>2, <1>4, FewAreFew DEF TurnByTurn
<1>6. Cardinality(Occ(line, Len(line), Last(line))) \in Nat
  BY <1>2, OccFinite DEF TurnByTurn
<1>7. outcome.how = "none"
  BY <1>1 DEF NoOutcome
<1>8. Fits(line, outcome)
  BY <1>5, <1>6, <1>7 DEF Fits
<1> QED BY <1>2, <1>3, <1>4, <1>8 DEF GameInv, PlayedInSafety

\* What a verdict makes of a game.
LEMMA OutcomeIs ==
    ASSUME NEW r, NEW p, NEW count
    PROVE  /\ Verdict(r, p) = "none" => OutcomeOf(r, p, count).how \in {"none", "max_moves"}
           /\ Verdict(r, p) = "draw" => OutcomeOf(r, p, count).how = "repetition"
           /\ Verdict(r, p) \in Colors => /\ OutcomeOf(r, p, count).how = "perpetual"
                                          /\ OutcomeOf(r, p, count).by = Verdict(r, p)
<1> DEFINE verdict == Verdict(r, p)
<1>1. \A how, by : Ended(how, by).how = how /\ Ended(how, by).by = by
  BY DEF Ended
<1>2. NoOutcome.how = "none"
  BY DEF NoOutcome
<1>3. "none" \notin Colors /\ "draw" \notin Colors
  BY DEF Colors
<1>4. OutcomeOf(r, p, count) =
        CASE verdict = "draw" -> Ended("repetition", "none")
          [] verdict \in Colors -> Ended("perpetual", verdict)
          [] verdict = "none" /\ count >= game.max_moves -> Ended("max_moves", "none")
          [] OTHER -> NoOutcome
  BY DEF OutcomeOf
<1> HIDE DEF verdict
<1>5. CASE verdict = "none"
  BY <1>1, <1>2, <1>3, <1>4, <1>5 DEF verdict
<1>6. CASE verdict = "draw"
  BY <1>1, <1>3, <1>4, <1>6 DEF verdict
<1>7. CASE verdict \in Colors
  BY <1>1, <1>3, <1>4, <1>7 DEF verdict
<1>8. verdict = Verdict(r, p)
  BY DEF verdict
<1> QED BY <1>3, <1>5, <1>6, <1>7, <1>8

LEMMA PlayKeeps ==
    ASSUME GameInv, NEW m, Play(m)
    PROVE  GameInv'
<1> DEFINE next == After(Last(line), m)
           n == Len(line)
<1>1. /\ outcome = NoOutcome /\ IsLegal(Last(line), m) /\ line' = Append(line, next)
      /\ repetition' = Record(repetition, next)
      /\ outcome' = OutcomeOf(repetition', next, Plies + 1)
  BY DEF Play, position
<1>2. TurnByTurn(line) /\ Tally(line, n, repetition) /\ FewTimes(line)
  BY <1>1 DEF GameInv, PlayedInSafety
<1>3. n \in Nat /\ n >= 1
  BY <1>2 DEF TurnByTurn
<1>4. /\ TurnByTurn(line') /\ Len(line') = n + 1 /\ Last(line') = next
      /\ \A i \in 1..n : line'[i] = line[i]
  BY <1>1, <1>2, AppendTurn
<1> HIDE DEF next, n
<1>5. line'[n + 1] = next
  BY <1>4 DEF Last
<1>6. WaitsInSafety(next)
  <2>1. Last(line).turn \in Colors
    BY <1>2 DEF TurnByTurn, Last
  <2> QED BY <1>1, <2>1, LegalIsSafe DEF next
<1>7. Tally(line', n + 1, repetition')
  <2>1. Tally(line', n, repetition)
    BY <1>2, <1>3, <1>4, TallyFrame
  <2>2. line'[n + 1].turn \in Colors
    BY <1>3, <1>4 DEF TurnByTurn
  <2> QED BY <1>1, <1>3, <1>5, <2>1, <2>2, TallyRecord
<1> DEFINE times == Cardinality(Occ(line', n + 1, next))
<1>8. times \in Nat /\ times <= 4
  <2>1. Occ(line', n, next) = Occ(line, n, next)
    BY <1>4 DEF Occ
  <2>2. Cardinality(Occ(line, n, next)) < 4 /\ Cardinality(Occ(line, n, next)) \in Nat
    BY <1>2, <1>3, FewAreFew, OccFinite DEF n
  <2>3. times = Cardinality(Occ(line', n, next)) + IF next = line'[n + 1] THEN 1 ELSE 0
    BY <1>3, OccCount
  <2> HIDE DEF times
  <2> QED BY <1>5, <2>1, <2>2, <2>3
<1>9. /\ times < 4 => Verdict(repetition', next) = "none"
      /\ times = 4 => /\ CheckerOf(line') \in Colors \cup {"none"}
                      /\ Verdict(repetition', next) =
                           IF CheckerOf(line') = "none" THEN "draw" ELSE CheckerOf(line')
  BY <1>4, <1>7, VerdictOf
<1>10. times = 4 => Verdict(repetition', next) # "none"
  BY <1>9
<1>11. /\ Verdict(repetition', next) = "none" => outcome'.how \in {"none", "max_moves"}
       /\ Verdict(repetition', next) = "draw" => outcome'.how = "repetition"
       /\ Verdict(repetition', next) \in Colors => /\ outcome'.how = "perpetual"
                                                   /\ outcome'.by = Verdict(repetition', next)
  BY <1>1, OutcomeIs
<1> HIDE DEF times
<1>12. (times = 4) <=> outcome'.how \in {"repetition", "perpetual"}
  BY <1>8, <1>9, <1>11
<1>13. /\ outcome'.how = "repetition" => CheckerOf(line') = "none"
       /\ outcome'.how = "perpetual" => outcome'.by = CheckerOf(line')
  BY <1>8, <1>9, <1>11, <1>12
<1>14. Fits(line', outcome')
  BY <1>4, <1>8, <1>12, <1>13 DEF Fits, times
<1>15. outcome' = NoOutcome => FewTimes(line')
  <2> SUFFICES ASSUME outcome' = NoOutcome, NEW i \in 1..Len(line')
               PROVE  Cardinality(Occ(line', i, line'[i])) < 4
    BY DEF FewTimes
  <2>1. CASE i = n + 1
    <3>1. outcome'.how = "none"
      BY DEF NoOutcome
    <3>2. times < 4
      BY <1>8, <1>12, <3>1
    <3> QED BY <1>5, <2>1, <3>2 DEF times
  <2>2. CASE i # n + 1
    <3>1. i \in 1..n /\ \A j \in 1..i : j \in 1..n
      BY <1>3, <1>4, <2>2
    <3>2. Occ(line', i, line'[i]) = Occ(line, i, line[i])
      BY <1>4, <3>1 DEF Occ
    <3> QED BY <1>2, <3>1, <3>2 DEF FewTimes, n
  <2> QED BY <2>1, <2>2
<1>16. position' = next
  BY <1>4 DEF position
<1> QED BY <1>4, <1>6, <1>7, <1>14, <1>15, <1>16 DEF GameInv, PlayedInSafety

\* The other ways a game ends leave the line, and are no repetition.
LEMMA EndKeeps ==
    ASSUME GameInv, UNCHANGED <<line, repetition>>, outcome = NoOutcome, NEW by,
           NEW how \in {"illegal", "declared", "misdeclared", "resigned"},
           outcome' = Ended(how, by)
    PROVE  GameInv'
<1>1. outcome'.how = how
  BY DEF Ended
<1>2. outcome' # NoOutcome
  BY <1>1 DEF NoOutcome
<1>3. TurnByTurn(line) /\ FewTimes(line)
  BY DEF GameInv, PlayedInSafety
<1>4. /\ Cardinality(Occ(line, Len(line), Last(line))) < 4
      /\ Cardinality(Occ(line, Len(line), Last(line))) \in Nat
  BY <1>3, FewAreFew, OccFinite DEF TurnByTurn
<1>5. Fits(line, outcome')
  BY <1>1, <1>4 DEF Fits
<1> QED BY <1>2, <1>5 DEF GameInv, PlayedInSafety, position

LEMMA GameNext == GameInv /\ [Next]_vars => GameInv'
<1> SUFFICES ASSUME GameInv, [Next]_vars PROVE GameInv'
  OBVIOUS
<1>1. ASSUME NEW m \in game.tries, Play(m) PROVE GameInv'
  BY <1>1, PlayKeeps
<1>2. ASSUME NEW m \in game.tries, Misplay(m) PROVE GameInv'
  BY <1>2, EndKeeps DEF Misplay
<1>3. CASE Declare
  BY <1>3, EndKeeps DEF Declare
<1>4. ASSUME NEW side \in Colors, Resign(side) PROVE GameInv'
  BY <1>4, EndKeeps DEF Resign
<1>5. CASE UNCHANGED vars
  BY <1>5 DEF vars, GameInv, PlayedInSafety, position
<1> QED BY <1>1, <1>2, <1>3, <1>4, <1>5 DEF Next

LEMMA MateRuleIsExact == PlayedInSafety => OnlyMatesAreRefused
<1> SUFFICES ASSUME PlayedInSafety, NEW m \in game.tries,
                    IsDrop(m), m.drop = "P", IsSound(position, m)
             PROVE  LET next == After(position, m)
                    IN  IsLegal(position, m) <=> ~InCheck(next, next.turn) \/ HasReply(next)
  BY DEF OnlyMatesAreRefused
<1> DEFINE next == Dropped(position, m)
<1>1. /\ After(position, m) = next /\ m.to \notin Occupied(position)
      /\ next.turn = Opponent(position.turn)
  BY DroppedBoard DEF After, IsSound, CanDrop
<1>2. position.turn \in Colors /\ ~InCheck(position, Opponent(position.turn))
  BY DEF PlayedInSafety, TurnByTurn, WaitsInSafety, position, Last
<1>3. InCheck(next, Opponent(position.turn)) => (HasLegalMove(next) <=> HasReply(next))
  BY <1>1, <1>2, RepliesAgree
<1>4. IsLegal(position, m) <=> ~(InCheck(next, Opponent(position.turn)) /\ ~HasLegalMove(next))
  BY <1>1 DEF IsLegal, IsDropPawnMate
<1> HIDE DEF next
<1> QED BY <1>1, <1>3, <1>4

\* In every game, whatever was played before, a sound pawn drop is refused exactly
\* when it gives check and the other side has no legal reply under the whole of the
\* rules: the one level of search that suspends the rule decides it.
THEOREM MatesAreRefused == Spec => []OnlyMatesAreRefused
<1>1. GameInv => PlayedInSafety
  BY DEF GameInv
<1> QED BY <1>1, GameInit, GameNext, MateRuleIsExact, PTL DEF Spec

\* In every game, from any start with any setup, the streaks read off the verdict the
\* whole line gives, at the fourth occurrence of a position and never later
\* (VerdictIsTheLine: repetition.rs record, with the two thresholds).
THEOREM VerdictsFit == Spec => []VerdictIsTheLine
<1>1. GameInv => VerdictIsTheLine
  BY FitsMeans DEF GameInv, PlayedInSafety
<1> QED BY <1>1, GameInit, GameNext, PTL DEF Spec

-----------------------------------------------------------------------------
(* The pieces *)

\* A position as the rules make it.
Sound(p) ==
    /\ p.turn \in Colors
    /\ p.hands \in [Colors -> [HandKinds -> Nat]]
    /\ IsFiniteSet(Occupied(p)) /\ p.board \in [Occupied(p) -> Pieces]
    /\ WaitsInSafety(p)

\* Where the pieces of a kind stand.
Standing(p, kind) == {s \in Occupied(p) : p.board[s].kind = kind}

Held(p, kind) == IF kind = "K" THEN 0 ELSE p.hands["black"][kind] + p.hands["white"][kind]

LEMMA StockIs == ASSUME NEW p, NEW kind PROVE Stock(p, kind) = Cardinality(Standing(p, kind)) + Held(p, kind)
BY DEF Stock, Standing, Held

LEMMA StandingFinite ==
    ASSUME NEW p, Sound(p), NEW kind
    PROVE  IsFiniteSet(Standing(p, kind)) /\ Cardinality(Standing(p, kind)) \in Nat
<1>1. IsFiniteSet(Occupied(p)) /\ Standing(p, kind) \in SUBSET Occupied(p)
  BY DEF Sound, Standing
<1> QED BY <1>1, FS_Subset, FS_CardinalityType

LEMMA HeldType ==
    ASSUME NEW p, Sound(p), NEW kind \in HandKinds \cup {"K"}
    PROVE  Held(p, kind) \in Nat
BY DEF Sound, Held, Colors, HandKinds

LEMMA PieceFields ==
    ASSUME NEW piece \in Pieces, NEW up \in BOOLEAN
    PROVE  /\ piece.kind \in HandKinds \cup {"K"} /\ piece.color \in Colors /\ piece.up \in BOOLEAN
           /\ [piece EXCEPT !.up = up] \in Pieces
           /\ [piece EXCEPT !.up = up].kind = piece.kind
           /\ [piece EXCEPT !.up = up].color = piece.color
BY DEF Pieces

\* One side's hand changes.
LEMMA HandsChange ==
    ASSUME NEW before \in [Colors -> [HandKinds -> Nat]], NEW after, NEW turn \in Colors,
           NEW hand \in [HandKinds -> Nat], NEW kind \in HandKinds,
           after["black"] = IF turn = "black" THEN hand ELSE before["black"],
           after["white"] = IF turn = "white" THEN hand ELSE before["white"]
    PROVE  after["black"][kind] + after["white"][kind] =
             (before["black"][kind] + before["white"][kind]) - before[turn][kind] + hand[kind]
<1>1. /\ before["black"][kind] \in Nat /\ before["white"][kind] \in Nat /\ hand[kind] \in Nat
      /\ turn \in {"black", "white"}
  BY DEF Colors
<1>2. CASE turn = "black"
  BY <1>1, <1>2
<1>3. CASE turn = "white"
  BY <1>1, <1>3
<1> QED BY <1>1, <1>2, <1>3

\* A move on the board carries its piece along, and what it takes into a hand.  It
\* never takes a king: the side that waits has none that could be.
LEMMA MoveMaterial ==
    ASSUME NEW p, Sound(p), NEW m, m.promote \in BOOLEAN, CanMove(p, m)
    PROVE  LET q == Moved(p, m) IN
           /\ q.hands \in [Colors -> [HandKinds -> Nat]]
           /\ IsFiniteSet(Occupied(q)) /\ q.board \in [Occupied(q) -> Pieces]
           /\ \A kind \in HandKinds \cup {"K"} : Stock(q, kind) = Stock(p, kind)
<1> DEFINE q == Moved(p, m)
           piece == p.board[m.from]
           arriving == [piece EXCEPT !.up = piece.up \/ m.promote]
           hand == [k \in HandKinds |-> p.hands[p.turn][k] + IF k \in Taken(p, m.to) THEN 1 ELSE 0]
<1>1. /\ p.turn \in Colors /\ p.hands \in [Colors -> [HandKinds -> Nat]]
      /\ IsFiniteSet(Occupied(p)) /\ p.board \in [Occupied(p) -> Pieces]
      /\ ~InCheck(p, Opponent(p.turn))
  BY DEF Sound, WaitsInSafety
<1>2. /\ m.from \in Occupied(p) /\ piece.color = p.turn /\ m.to \notin Own(p, p.turn)
      /\ Reaches(p, m.from, m.to) /\ m.from \in Own(p, p.turn)
  BY DEF CanMove, Own
<1>3. m.to # m.from
  BY <1>2
<1>4. /\ q.hands = [p.hands EXCEPT ![p.turn] = hand]
      /\ q.board = [s \in (Occupied(p) \ {m.from}) \cup {m.to} |->
                      IF s = m.to THEN arriving ELSE p.board[s]]
  BY DEF Moved
<1>5. /\ piece \in Pieces /\ arriving \in Pieces /\ arriving.kind = piece.kind
      /\ piece.kind \in HandKinds \cup {"K"}
  <2>1. piece \in Pieces
    BY <1>1, <1>2
  <2>2. (piece.up \/ m.promote) \in BOOLEAN
    BY <2>1, PieceFields
  <2> HIDE DEF piece
  <2> QED BY <2>1, <2>2, PieceFields
<1>6. ~(m.to \in Occupied(p) /\ p.board[m.to].kind = "K")
  <2> SUFFICES ASSUME m.to \in Occupied(p), p.board[m.to].kind = "K" PROVE FALSE
    OBVIOUS
  <2>1. p.board[m.to].color \in Colors /\ p.board[m.to].color # p.turn
    <3>1. p.board[m.to] \in Pieces
      BY <1>1
    <3> QED BY <1>2, <3>1, PieceFields DEF Own
  <2>2. m.to \in Own(p, Opponent(p.turn))
    BY <1>1, <2>1 DEF Own, Opponent, Colors
  <2> QED BY <1>1, <1>2, <2>2, TwoSides DEF InCheck
<1> HIDE DEF piece, arriving, q
<1>7. /\ Occupied(q) = (Occupied(p) \ {m.from}) \cup {m.to}
      /\ q.board[m.to] = arriving
      /\ \A s \in Occupied(p) \ {m.from, m.to} : q.board[s] = p.board[s]
  BY <1>4 DEF Occupied
<1>8. IsFiniteSet(Occupied(q)) /\ q.board \in [Occupied(q) -> Pieces]
  <2>1. IsFiniteSet(Occupied(p) \ {m.from})
    BY <1>1, FS_RemoveElement
  <2>2. IsFiniteSet(Occupied(q))
    BY <1>7, <2>1, FS_AddElement
  <2>3. q.board \in [(Occupied(p) \ {m.from}) \cup {m.to} -> Pieces]
    BY <1>1, <1>4, <1>5
  <2> QED BY <1>7, <2>2, <2>3
<1>9. hand \in [HandKinds -> Nat]
  BY <1>1
<1>10. q.hands \in [Colors -> [HandKinds -> Nat]]
  BY <1>1, <1>4, <1>9
<1>11. ASSUME NEW kind \in HandKinds \cup {"K"} PROVE Stock(q, kind) = Stock(p, kind)
  <2> DEFINE before == Standing(p, kind)
             rest == before \ {m.from}
             taken == m.to \in Occupied(p) /\ p.board[m.to].kind = kind
  <2>1. IsFiniteSet(before) /\ Cardinality(before) \in Nat
    BY StandingFinite
  <2>2. /\ m.from \in before <=> piece.kind = kind
        /\ m.to \in before <=> taken
    BY <1>2 DEF Standing, piece
  <2>3. Standing(q, kind) = ((before \ {m.from}) \ {m.to})
                              \cup (IF piece.kind = kind THEN {m.to} ELSE {})
    BY <1>3, <1>5, <1>7 DEF Standing
  <2> HIDE DEF before, taken
  <2>4. /\ IsFiniteSet(rest)
        /\ Cardinality(rest) = IF piece.kind = kind THEN Cardinality(before) - 1
                               ELSE Cardinality(before)
    BY <2>1, <2>2, FS_RemoveElement
  <2>5. Cardinality(rest) \in Nat
    BY <2>4, FS_CardinalityType
  <2>6. m.to \in rest <=> taken
    BY <1>3, <2>2
  <2> HIDE DEF rest
  <2> DEFINE left == rest \ {m.to}
  <2>7. /\ IsFiniteSet(left) /\ m.to \notin left
        /\ Cardinality(left) = IF taken THEN Cardinality(rest) - 1 ELSE Cardinality(rest)
    BY <2>4, <2>6, FS_RemoveElement
  <2>8. Cardinality(left) \in Nat
    BY <2>7, FS_CardinalityType
  <2>9. Standing(q, kind) = left \cup (IF piece.kind = kind THEN {m.to} ELSE {})
    BY <2>3 DEF rest
  <2> HIDE DEF left
  <2>10. Cardinality(left \cup {m.to}) = Cardinality(left) + 1
    BY <2>7, FS_AddElement
  <2>11. Cardinality(Standing(q, kind)) = Cardinality(before) - (IF taken THEN 1 ELSE 0)
    <3>1. CASE piece.kind = kind
      BY <2>1, <2>4, <2>5, <2>7, <2>8, <2>9, <2>10, <3>1
    <3>2. CASE piece.kind # kind
      BY <2>1, <2>4, <2>5, <2>7, <2>8, <2>9, <3>2
    <3> QED BY <3>1, <3>2
  <2>12. CASE kind = "K"
    <3>1. ~taken
      BY <1>6, <2>12 DEF taken
    <3>2. Held(q, kind) = 0 /\ Held(p, kind) = 0
      BY <2>12 DEF Held
    <3> QED BY <2>1, <2>11, <3>1, <3>2, StockIs DEF before
  <2>13. CASE kind # "K"
    <3>1. kind \in HandKinds
      BY <2>13
    <3>2. kind \in Taken(p, m.to) <=> taken
      BY <2>13 DEF Taken, taken
    <3>3. hand[kind] = p.hands[p.turn][kind] + IF taken THEN 1 ELSE 0
      BY <3>1, <3>2
    <3>4. q.hands["black"][kind] + q.hands["white"][kind] =
            (p.hands["black"][kind] + p.hands["white"][kind]) - p.hands[p.turn][kind] + hand[kind]
      <4> HIDE DEF hand
      <4>1. /\ q.hands["black"] = IF p.turn = "black" THEN hand ELSE p.hands["black"]
            /\ q.hands["white"] = IF p.turn = "white" THEN hand ELSE p.hands["white"]
        BY <1>1, <1>4 DEF Colors
      <4>2. hand \in [HandKinds -> Nat]
        BY <1>9
      <4> QED BY <1>1, <3>1, <4>1, <4>2, HandsChange
    <3>5. Held(q, kind) = Held(p, kind) + IF taken THEN 1 ELSE 0
      <4>1. /\ Held(q, kind) = q.hands["black"][kind] + q.hands["white"][kind]
            /\ Held(p, kind) = p.hands["black"][kind] + p.hands["white"][kind]
        BY <2>13 DEF Held
      <4>2. p.hands[p.turn][kind] \in Nat /\ Held(p, kind) \in Nat
        BY <1>1, <3>1, HeldType
      <4> QED BY <3>3, <3>4, <4>1, <4>2
    <3>6. Held(p, kind) \in Nat
      BY HeldType
    <3> QED BY <2>1, <2>11, <3>5, <3>6, StockIs DEF before
  <2> QED BY <2>12, <2>13
<1> QED BY <1>8, <1>10, <1>11 DEF q

\* A drop moves a piece from the hand to the board.
LEMMA DropMaterial ==
    ASSUME NEW p, Sound(p), NEW m, m.drop \in HandKinds, CanDrop(p, m)
    PROVE  LET q == Dropped(p, m) IN
           /\ q.hands \in [Colors -> [HandKinds -> Nat]]
           /\ IsFiniteSet(Occupied(q)) /\ q.board \in [Occupied(q) -> Pieces]
           /\ \A kind \in HandKinds \cup {"K"} : Stock(q, kind) = Stock(p, kind)
<1> DEFINE q == Dropped(p, m)
           piece == [kind |-> m.drop, up |-> FALSE, color |-> p.turn]
           hand == [p.hands[p.turn] EXCEPT ![m.drop] = p.hands[p.turn][m.drop] - 1]
<1>1. /\ p.turn \in Colors /\ p.hands \in [Colors -> [HandKinds -> Nat]]
      /\ IsFiniteSet(Occupied(p)) /\ p.board \in [Occupied(p) -> Pieces]
  BY DEF Sound
<1>2. p.hands[p.turn][m.drop] > 0 /\ m.to \notin Occupied(p)
  BY DEF CanDrop
<1>3. /\ q.hands = [p.hands EXCEPT ![p.turn][m.drop] = p.hands[p.turn][m.drop] - 1]
      /\ q.board = [s \in Occupied(p) \cup {m.to} |-> IF s = m.to THEN piece ELSE p.board[s]]
  BY DEF Dropped
<1>4. q.hands = [p.hands EXCEPT ![p.turn] = hand]
  BY <1>3
<1>5. piece \in Pieces /\ piece.kind = m.drop /\ m.drop # "K"
  BY <1>1 DEF Pieces, HandKinds
<1> HIDE DEF piece, q
<1>6. /\ Occupied(q) = Occupied(p) \cup {m.to} /\ q.board[m.to] = piece
      /\ \A s \in Occupied(p) : q.board[s] = p.board[s]
  BY <1>2, <1>3 DEF Occupied
<1>7. IsFiniteSet(Occupied(q)) /\ q.board \in [Occupied(q) -> Pieces]
  <2>1. q.board \in [Occupied(p) \cup {m.to} -> Pieces]
    BY <1>1, <1>3, <1>5
  <2> QED BY <1>1, <1>6, <2>1, FS_AddElement
<1>8. /\ hand \in [HandKinds -> Nat]
      /\ \A k \in HandKinds : hand[k] = p.hands[p.turn][k] - (IF k = m.drop THEN 1 ELSE 0)
  <2>1. p.hands[p.turn] \in [HandKinds -> Nat] /\ p.hands[p.turn][m.drop] - 1 \in Nat
    BY <1>1, <1>2
  <2> QED BY <2>1
<1>9. q.hands \in [Colors -> [HandKinds -> Nat]]
  BY <1>1, <1>4, <1>8
<1>10. ASSUME NEW kind \in HandKinds \cup {"K"} PROVE Stock(q, kind) = Stock(p, kind)
  <2> DEFINE before == Standing(p, kind)
  <2>1. IsFiniteSet(before) /\ Cardinality(before) \in Nat
    BY StandingFinite
  <2>2. m.to \notin before
    BY <1>2 DEF Standing
  <2>3. Standing(q, kind) = before \cup (IF kind = m.drop THEN {m.to} ELSE {})
    BY <1>2, <1>5, <1>6 DEF Standing
  <2> HIDE DEF before
  <2>4. Cardinality(before \cup {m.to}) = Cardinality(before) + 1
    BY <2>1, <2>2, FS_AddElement
  <2>5. Cardinality(Standing(q, kind)) = Cardinality(before) + IF kind = m.drop THEN 1 ELSE 0
    BY <2>1, <2>3, <2>4
  <2>6. CASE kind = "K"
    <3>1. Held(q, kind) = 0 /\ Held(p, kind) = 0 /\ kind # m.drop
      BY <1>5, <2>6 DEF Held
    <3> QED BY <2>1, <2>5, <3>1, StockIs DEF before
  <2>7. CASE kind # "K"
    <3>1. kind \in HandKinds
      BY <2>7
    <3>2. q.hands["black"][kind] + q.hands["white"][kind] =
            (p.hands["black"][kind] + p.hands["white"][kind]) - p.hands[p.turn][kind] + hand[kind]
      <4> HIDE DEF hand
      <4>1. /\ q.hands["black"] = IF p.turn = "black" THEN hand ELSE p.hands["black"]
            /\ q.hands["white"] = IF p.turn = "white" THEN hand ELSE p.hands["white"]
        BY <1>1, <1>4 DEF Colors
      <4>2. hand \in [HandKinds -> Nat]
        BY <1>8
      <4>3. /\ p.hands["black"][kind] \in Nat /\ p.hands["white"][kind] \in Nat
            /\ hand[kind] \in Nat /\ p.turn \in {"black", "white"}
        BY <1>1, <3>1, <4>2 DEF Colors
      <4>4. CASE p.turn = "black"
        BY <4>1, <4>3, <4>4
      <4>5. CASE p.turn = "white"
        BY <4>1, <4>3, <4>5
      <4> QED BY <4>3, <4>4, <4>5
    <3>3. hand[kind] = p.hands[p.turn][kind] - (IF kind = m.drop THEN 1 ELSE 0)
      BY <1>8, <3>1
    <3>4. /\ Held(q, kind) = q.hands["black"][kind] + q.hands["white"][kind]
          /\ Held(p, kind) = p.hands["black"][kind] + p.hands["white"][kind]
      BY <2>7 DEF Held
    <3>5. p.hands[p.turn][kind] \in Nat /\ Held(p, kind) \in Nat
      BY <1>1, <3>1, HeldType
    <3> HIDE DEF hand
    <3>6. Held(q, kind) = Held(p, kind) - (IF kind = m.drop THEN 1 ELSE 0)
      BY <3>2, <3>3, <3>4, <3>5
    <3> QED BY <2>1, <2>5, <3>5, <3>6, StockIs DEF before
  <2> QED BY <2>6, <2>7
<1> QED BY <1>7, <1>9, <1>10 DEF q

LEMMA AfterMaterial ==
    ASSUME NEW p, Sound(p), NEW m \in Moves, IsLegal(p, m)
    PROVE  /\ Sound(After(p, m))
           /\ \A kind \in HandKinds \cup {"K"} : Stock(After(p, m), kind) = Stock(p, kind)
<1> DEFINE q == After(p, m)
<1>1. q.turn \in Colors /\ WaitsInSafety(q)
  BY TurnPasses, TwoSides, LegalIsSafe DEF Sound
<1>2. CASE IsDrop(m)
  <2>1. m.drop \in HandKinds
    BY <1>2 DEF Moves, IsDrop
  <2>2. CanDrop(p, m) /\ q = Dropped(p, m)
    BY <1>2 DEF IsLegal, IsSound, After
  <2> HIDE DEF q
  <2> QED BY <1>1, <2>1, <2>2, DropMaterial DEF Sound, q
<1>3. CASE ~IsDrop(m)
  <2>1. m.promote \in BOOLEAN
    BY <1>3 DEF Moves, IsDrop
  <2>2. CanMove(p, m) /\ q = Moved(p, m)
    BY <1>3 DEF IsLegal, IsSound, After
  <2> HIDE DEF q
  <2> QED BY <1>1, <2>1, <2>2, MoveMaterial DEF Sound, q
<1> QED BY <1>2, <1>3

\* A line whose positions are as the rules make them, of the pieces it began with.
OfOneSet(L, i) ==
    /\ Sound(L[i])
    /\ \A kind \in HandKinds \cup {"K"} : Stock(L[i], kind) = Stock(L[1], kind)

LEMMA ReplayMaterial ==
    ASSUME NEW start, start.setup \in Seq(Moves), Sound(start.at), SetupIsLegal(start)
    PROVE  LET L == Traversal(start) IN OfOneSet(L, Len(L)) /\ L[1] = start.at
<1> DEFINE n == Len(start.setup)
           L == Traversal(start)
<1>1. n \in Nat /\ DOMAIN start.setup = 1..n /\ \A i \in 1..n : start.setup[i] \in Moves
  BY LenProperties, ElementOfSeq
<1>2. /\ Len(L) = n + 1 /\ L[1] = start.at
      /\ \A i \in 1..n : L[i + 1] = After(L[i], start.setup[i])
  BY TraversalSteps DEF Replayed, Sound
<1>3. \A i \in 1..n : IsLegal(L[i], start.setup[i])
  BY <1>1 DEF SetupIsLegal
<1> HIDE DEF n, L
<1> DEFINE S == {k \in Nat : k \in 0..n => OfOneSet(L, k + 1)}
<1>4. 0 \in S
  BY <1>2 DEF OfOneSet
<1>5. ASSUME NEW k \in Nat, k \in S PROVE k + 1 \in S
  <2> SUFFICES ASSUME k + 1 \in 0..n PROVE OfOneSet(L, (k + 1) + 1)
    OBVIOUS
  <2>1. k \in 0..n /\ k + 1 \in 1..n
    BY <1>1
  <2>2. OfOneSet(L, k + 1)
    BY <1>5, <2>1
  <2> HIDE DEF S
  <2> DEFINE p == L[k + 1]
             m == start.setup[k + 1]
             q == L[(k + 1) + 1]
  <2>3. m \in Moves /\ IsLegal(p, m) /\ q = After(p, m)
    BY <1>1, <1>2, <1>3, <2>1
  <2>4. Sound(p) /\ \A kind \in HandKinds \cup {"K"} : Stock(p, kind) = Stock(L[1], kind)
    BY <2>2 DEF OfOneSet
  <2> HIDE DEF p, m, q
  <2>5. Sound(q) /\ \A kind \in HandKinds \cup {"K"} : Stock(q, kind) = Stock(p, kind)
    BY <2>3, <2>4, AfterMaterial
  <2> QED BY <2>4, <2>5 DEF OfOneSet, q
<1> HIDE DEF S
<1>6. n \in S
  BY <1>1, <1>4, <1>5, Induction
<1> QED BY <1>1, <1>2, <1>6 DEF S, L, n

MaterialInv ==
    /\ game \in Games
    /\ TurnByTurn(line)
    /\ OfOneSet(line, Len(line))
    /\ \A kind \in HandKinds : Stock(line[1], kind) <= FullSet[kind]

LEMMA MaterialInit == Init => MaterialInv
<1> SUFFICES ASSUME Init PROVE MaterialInv
  OBVIOUS
<1>1. PICK g \in Games : Validated(g.start) /\ game = g /\ line = Traversal(g.start)
  BY DEF Init
<1> DEFINE start == g.start
<1>2. /\ start.setup \in Seq(Moves) /\ start.at.turn \in Colors /\ Sound(start.at)
      /\ \A kind \in HandKinds : Stock(start.at, kind) <= FullSet[kind]
  BY PlayAssumption DEF Sound, WaitsInSafety
<1>3. SetupIsLegal(start)
  BY <1>1 DEF Validated
<1> HIDE DEF start
<1>4. TurnByTurn(line)
  BY <1>1, <1>2, TraversalSteps DEF Replayed, start
<1>5. OfOneSet(line, Len(line)) /\ line[1] = start.at
  BY <1>1, <1>2, <1>3, ReplayMaterial DEF start
<1> QED BY <1>1, <1>2, <1>4, <1>5 DEF MaterialInv

LEMMA MaterialNext == MaterialInv /\ [Next]_vars => MaterialInv'
<1> SUFFICES ASSUME MaterialInv, [Next]_vars PROVE MaterialInv'
  OBVIOUS
<1>1. ASSUME NEW m \in game.tries, Play(m) PROVE MaterialInv'
  <2> DEFINE p == Last(line)
             n == Len(line)
  <2>1. m \in Moves
    BY PlayAssumption DEF MaterialInv
  <2>2. IsLegal(p, m) /\ line' = Append(line, After(p, m)) /\ game' = game
    BY <1>1 DEF Play, position
  <2>3. TurnByTurn(line) /\ n \in Nat /\ n >= 1 /\ OfOneSet(line, n) /\ p = line[n]
    BY DEF MaterialInv, TurnByTurn, Last
  <2>4. /\ TurnByTurn(line') /\ Len(line') = n + 1 /\ Last(line') = After(p, m)
        /\ \A i \in 1..n : line'[i] = line[i]
    BY <2>2, <2>3, AppendTurn
  <2>5. Sound(p) /\ \A kind \in HandKinds \cup {"K"} : Stock(p, kind) = Stock(line[1], kind)
    BY <2>3 DEF OfOneSet
  <2> HIDE DEF p, n
  <2> DEFINE q == After(p, m)
  <2>6. Sound(q) /\ \A kind \in HandKinds \cup {"K"} : Stock(q, kind) = Stock(p, kind)
    BY <2>1, <2>2, <2>5, AfterMaterial
  <2>7. line'[n + 1] = q /\ line'[1] = line[1]
    BY <2>3, <2>4 DEF Last
  <2> HIDE DEF q
  <2>8. OfOneSet(line', n + 1)
    BY <2>5, <2>6, <2>7 DEF OfOneSet
  <2> QED BY <2>2, <2>4, <2>7, <2>8 DEF MaterialInv
<1>2. CASE UNCHANGED <<game, line>>
  BY <1>2 DEF MaterialInv
<1>3. UNCHANGED <<game, line>> \/ \E m \in game.tries : Play(m)
  BY DEF Next, Misplay, Declare, Resign, vars
<1> QED BY <1>1, <1>2, <1>3

\* In every game, whatever is captured, promoted and dropped, the board and the hands
\* hold the pieces the game began with (MaterialIsKept: position.rs apply_move).
THEOREM MaterialStays == Spec => []MaterialIsKept
<1>1. ASSUME MaterialInv PROVE MaterialIsKept
  <2>1. PICK T : line \in Seq(T)
    BY <1>1 DEF MaterialInv, TurnByTurn
  <2>2. Head(line) = line[1] /\ position = line[Len(line)]
    BY <1>1, <2>1 DEF MaterialInv, TurnByTurn, position, Last
  <2> QED BY <1>1, <2>2 DEF MaterialInv, OfOneSet, MaterialIsKept
<1> QED BY <1>1, MaterialInit, MaterialNext, PTL DEF Spec

\* What a side counts of a kind: its pieces in the camp and in hand.
Counted(p, color, kind) ==
  Cardinality({s \in CampPieces(p, color) : p.board[s].kind = kind}) + p.hands[color][kind]

\* No piece is counted by both sides.
LEMMA CountedOnce ==
    ASSUME NEW p, Sound(p), NEW kind \in HandKinds
    PROVE  /\ Counted(p, "black", kind) \in Nat /\ Counted(p, "white", kind) \in Nat
           /\ Counted(p, "black", kind) + Counted(p, "white", kind) <= Stock(p, kind)
<1> DEFINE Camp(color) == {s \in CampPieces(p, color) : p.board[s].kind = kind}
           black == Camp("black")
           white == Camp("white")
           standing == Standing(p, kind)
<1>1. IsFiniteSet(standing) /\ Cardinality(standing) \in Nat
  BY StandingFinite
<1>2. black \subseteq standing /\ white \subseteq standing /\ black \cap white = {}
  BY DEF CampPieces, InCamp, Own, Standing
<1>3. /\ p.hands["black"][kind] \in Nat /\ p.hands["white"][kind] \in Nat /\ kind # "K"
  BY DEF Sound, Colors, HandKinds
<1>4. /\ Counted(p, "black", kind) = Cardinality(black) + p.hands["black"][kind]
      /\ Counted(p, "white", kind) = Cardinality(white) + p.hands["white"][kind]
  BY DEF Counted
<1>5. Stock(p, kind) = Cardinality(standing) + p.hands["black"][kind] + p.hands["white"][kind]
  BY <1>1, <1>3, StockIs DEF Held
<1> HIDE DEF black, white, standing
<1>6. /\ IsFiniteSet(black) /\ IsFiniteSet(white)
      /\ Cardinality(black) \in Nat /\ Cardinality(white) \in Nat
  BY <1>1, <1>2, FS_Subset, FS_CardinalityType
<1> DEFINE both == black \cup white
<1>7. Cardinality(both) = Cardinality(black) + Cardinality(white)
  <2>1. Cardinality(both) = Cardinality(black) + Cardinality(white) - Cardinality(black \cap white)
    BY <1>6, FS_Union
  <2>2. Cardinality(black \cap white) = 0
    BY <1>2, FS_EmptySet
  <2> HIDE DEF both
  <2> QED BY <1>6, <2>1, <2>2
<1>8. both \subseteq standing
  BY <1>2
<1> HIDE DEF both
<1>9. Cardinality(both) <= Cardinality(standing)
  BY <1>1, <1>8, FS_Subset
<1> QED BY <1>1, <1>3, <1>4, <1>5, <1>6, <1>7, <1>9

LEMMA PointsAre ==
    ASSUME NEW p, NEW color
    PROVE  DeclaredPoints(p, color) =
             5 * Counted(p, color, "R") + 5 * Counted(p, color, "B")
             + 1 * Counted(p, color, "G") + 1 * Counted(p, color, "S") + 1 * Counted(p, color, "N")
             + 1 * Counted(p, color, "L") + 1 * Counted(p, color, "P")
<1>1. /\ Points("R") = 5 /\ Points("B") = 5 /\ Points("G") = 1 /\ Points("S") = 1
      /\ Points("N") = 1 /\ Points("L") = 1 /\ Points("P") = 1
  BY DEF Points
<1>2. \A kind : Worth(p, color, kind) = Points(kind) * Counted(p, color, kind)
  BY DEF Worth, Counted
<1> QED BY <1>1, <1>2 DEF DeclaredPoints

LEMMA FewPoints ==
    ASSUME NEW p, Sound(p), \A kind \in HandKinds : Stock(p, kind) <= FullSet[kind]
    PROVE  DeclaredPoints(p, "black") + DeclaredPoints(p, "white") <= 54
<1> DEFINE black(kind) == Counted(p, "black", kind)
           white(kind) == Counted(p, "white", kind)
<1>1. /\ FullSet["R"] = 2 /\ FullSet["B"] = 2 /\ FullSet["G"] = 4 /\ FullSet["S"] = 4
      /\ FullSet["N"] = 4 /\ FullSet["L"] = 4 /\ FullSet["P"] = 18
  BY DEF FullSet
<1>2. ASSUME NEW kind \in HandKinds
      PROVE  black(kind) \in Nat /\ white(kind) \in Nat /\ black(kind) + white(kind) <= FullSet[kind]
  <2>1. Stock(p, kind) <= FullSet[kind] /\ FullSet[kind] \in Nat
    BY <1>1 DEF HandKinds
  <2>2. Stock(p, kind) \in Nat
    BY StandingFinite, HeldType, StockIs
  <2>3. black(kind) \in Nat /\ white(kind) \in Nat /\ black(kind) + white(kind) <= Stock(p, kind)
    BY CountedOnce
  <2> HIDE DEF black, white
  <2> QED BY <2>1, <2>2, <2>3
<1>3. /\ "R" \in HandKinds /\ "B" \in HandKinds /\ "G" \in HandKinds /\ "S" \in HandKinds
      /\ "N" \in HandKinds /\ "L" \in HandKinds /\ "P" \in HandKinds
  BY DEF HandKinds
<1>4. /\ DeclaredPoints(p, "black") =
            5 * black("R") + 5 * black("B") + 1 * black("G") + 1 * black("S") + 1 * black("N")
            + 1 * black("L") + 1 * black("P")
      /\ DeclaredPoints(p, "white") =
            5 * white("R") + 5 * white("B") + 1 * white("G") + 1 * white("S") + 1 * white("N")
            + 1 * white("L") + 1 * white("P")
  BY PointsAre
<1> HIDE DEF black, white
<1>5. /\ black("R") \in Nat /\ white("R") \in Nat /\ black("R") + white("R") <= 2
      /\ black("B") \in Nat /\ white("B") \in Nat /\ black("B") + white("B") <= 2
      /\ black("G") \in Nat /\ white("G") \in Nat /\ black("G") + white("G") <= 4
      /\ black("S") \in Nat /\ white("S") \in Nat /\ black("S") + white("S") <= 4
      /\ black("N") \in Nat /\ white("N") \in Nat /\ black("N") + white("N") <= 4
      /\ black("L") \in Nat /\ white("L") \in Nat /\ black("L") + white("L") <= 4
      /\ black("P") \in Nat /\ white("P") \in Nat /\ black("P") + white("P") <= 18
  BY <1>1, <1>2, <1>3
<1> QED BY <1>4, <1>5

\* In every game both sides' declarations never hold in one position: of the 54
\* points a set has, neither side counts one of the other's, and 28 and 27 together
\* are one more (declaration.rs required_points, camp_census, hand_points).
THEOREM OneSideDeclares == Spec => []OneDeclarer
<1>1. ASSUME MaterialInv PROVE OneDeclarer
  <2>1. Sound(position) /\ \A kind \in HandKinds : Stock(position, kind) <= FullSet[kind]
    BY <1>1 DEF MaterialInv, OfOneSet, position, Last
  <2>2. DeclaredPoints(position, "black") + DeclaredPoints(position, "white") <= 54
    BY <2>1, FewPoints
  <2>3. /\ DeclaredPoints(position, "black") \in Nat /\ DeclaredPoints(position, "white") \in Nat
    <3>1. \A kind \in HandKinds : /\ Counted(position, "black", kind) \in Nat
                                   /\ Counted(position, "white", kind) \in Nat
      BY <2>1, CountedOnce
    <3>2. \A kind \in {"R", "B", "G", "S", "N", "L", "P"} :
            /\ Counted(position, "black", kind) \in Nat
            /\ Counted(position, "white", kind) \in Nat
      BY <3>1 DEF HandKinds
    <3> QED BY <3>2, PointsAre
  <2>4. ~(DeclarationHolds(position, "black") /\ DeclarationHolds(position, "white"))
    <3>1. RequiredPoints("black") = 28 /\ RequiredPoints("white") = 27
      BY DEF RequiredPoints
    <3> QED BY <2>2, <2>3, <3>1 DEF DeclarationHolds
  <2> QED BY <2>4 DEF OneDeclarer, Colors
<1> QED BY <1>1, MaterialInit, MaterialNext, PTL DEF Spec
=============================================================================
