------------------------------- MODULE MCPlay -------------------------------
EXTENDS PlayProperties, TLC

\* Pieces by their letter; a promoted one has a plus.
Man(kind, color) == [kind |-> kind, up |-> FALSE, color |-> color]
Promoted(kind, color) == [kind |-> kind, up |-> TRUE, color |-> color]

OnBoard(board, k) == Cardinality({s \in DOMAIN board : board[s].kind = k})
NoHand == [k \in HandKinds |-> 0]

\* A written board: what it does not show is in one side's hand, but for held.
Written(board, turn, rich, held) ==
  [at |-> [board |-> board,
           hands |-> [c \in Colors |->
             IF c = rich
             THEN [k \in HandKinds |-> FullSet[k] - OnBoard(board, k) - held[k]]
             ELSE held],
           turn |-> turn],
   setup |-> <<>>]

Step(from, to) == [from |-> from, to |-> to, promote |-> FALSE]
Up(from, to) == [from |-> from, to |-> to, promote |-> TRUE]
Put(kind, to) == [drop |-> kind, to |-> to]
Between(S) == {Step(s, t) : s \in S, t \in S}

\* The dummy buoy's king shuttle, replayed once before play and open after it.
Shuttle == <<Step(<<5, 9>>, <<5, 8>>), Step(<<5, 1>>, <<5, 2>>),
             Step(<<5, 8>>, <<5, 9>>), Step(<<5, 2>>, <<5, 1>>)>>
Buoy == [start |-> [at |-> Hirate, setup |-> Shuttle], max_moves |-> 13,
         tries |-> Range(Shuttle)]

\* A rook that chases a king on two files, and can also stand off.
Chase(rook) ==
  LET board == (<<1, 1>> :> Man("K", "white") @@ <<9, 9>> :> Man("K", "black")
                 @@ rook :> Man("R", "black"))
  IN  [start |-> Written(board, "black", "white", NoHand), max_moves |-> 14,
       tries |-> Between({<<1, 5>>, <<2, 5>>, <<3, 5>>}) \cup Between({<<1, 1>>, <<2, 1>>})]

\* A cornered king, a rook that may or may not guard the pawn's square.
Corner ==
  LET board == (<<1, 1>> :> Man("K", "white") @@ <<2, 1>> :> Man("N", "white")
                 @@ <<8, 2>> :> Man("R", "white") @@ <<2, 3>> :> Man("G", "black")
                 @@ <<9, 9>> :> Man("K", "black") @@ <<3, 7>> :> Man("P", "black"))
  IN  [start |-> Written(board, "black", "black", [NoHand EXCEPT !["P"] = 1]),
       max_moves |-> 6,
       tries |-> {Put("P", <<1, 2>>), Put("L", <<1, 2>>), Put("P", <<3, 2>>),
                  Put("P", <<1, 4>>), Put("P", <<2, 2>>), Put("P", <<1, 1>>),
                  Step(<<8, 2>>, <<8, 1>>), Step(<<8, 2>>, <<3, 2>>),
                  Step(<<8, 2>>, <<1, 2>>), Step(<<3, 2>>, <<1, 2>>),
                  Step(<<2, 3>>, <<2, 2>>), Step(<<2, 3>>, <<1, 2>>),
                  Step(<<1, 1>>, <<1, 2>>), Step(<<1, 1>>, <<2, 2>>),
                  Step(<<9, 9>>, <<8, 9>>)}]

\* Promotion, captures of promoted pieces, and drops that could never move.
Middle ==
  LET board == (<<5, 1>> :> Man("K", "white") @@ <<5, 9>> :> Man("K", "black")
                 @@ <<5, 4>> :> Man("P", "black") @@ <<4, 4>> :> Man("N", "black")
                 @@ <<3, 4>> :> Man("L", "black") @@ <<6, 3>> :> Promoted("S", "white"))
  IN  [start |-> Written(board, "black", "white", [NoHand EXCEPT !["P"] = 1, !["N"] = 1]),
       max_moves |-> 5,
       tries |-> {Step(<<5, 4>>, <<5, 3>>), Up(<<5, 4>>, <<5, 3>>), Up(<<5, 3>>, <<5, 2>>),
                  Step(<<4, 4>>, <<5, 2>>), Up(<<4, 4>>, <<5, 2>>), Up(<<4, 4>>, <<3, 2>>),
                  Step(<<3, 4>>, <<3, 1>>), Up(<<3, 4>>, <<3, 2>>),
                  Step(<<6, 3>>, <<5, 3>>), Step(<<6, 3>>, <<5, 4>>), Step(<<6, 3>>, <<6, 4>>),
                  Step(<<5, 1>>, <<5, 2>>), Step(<<5, 2>>, <<5, 3>>), Step(<<5, 1>>, <<4, 1>>),
                  Put("P", <<5, 6>>), Put("P", <<2, 6>>), Put("N", <<1, 2>>), Put("N", <<5, 3>>),
                  Put("P", <<5, 8>>), Step(<<5, 9>>, <<5, 8>>)}]

\* Both kings entered, the points at the thresholds, two pieces at odds.
Entered ==
  LET camp(r) == (1..9) \X {r} \cup {<<1, IF r = 2 THEN 3 ELSE 7>>}
      board == [s \in camp(2) |-> Promoted("P", "black")]
                 @@ [s \in camp(8) |-> IF s[1] < 9 /\ s[2] = 8 THEN Promoted("P", "white")
                                       ELSE Man("G", "white")]
                 @@ (<<5, 1>> :> Man("K", "black") @@ <<5, 9>> :> Man("K", "white")
                 @@ <<9, 6>> :> Man("L", "black") @@ <<9, 5>> :> Man("G", "white"))
      held == [NoHand EXCEPT !["R"] = 1, !["B"] = 1, !["L"] = 3, !["N"] = 4]
  IN  [start |-> Written(board, "black", "white", held), max_moves |-> 5,
       tries |-> {Step(<<9, 6>>, <<9, 5>>), Step(<<9, 5>>, <<9, 6>>), Step(<<9, 6>>, <<9, 7>>),
                  Step(<<5, 1>>, <<4, 1>>), Step(<<4, 1>>, <<5, 1>>),
                  Step(<<5, 9>>, <<4, 9>>), Step(<<4, 9>>, <<5, 9>>),
                  Put("G", <<7, 3>>), Put("L", <<9, 7>>), Put("N", <<9, 7>>)}]

MCGames == {Buoy, Chase(<<2, 5>>), Chase(<<3, 5>>), Corner, Middle, Entered}
=============================================================================
