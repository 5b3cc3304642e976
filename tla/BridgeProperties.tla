-------------------------- MODULE BridgeProperties --------------------------
(***************************************************************************)
(* What the bridge of a preset keeps to, between a server and an engine    *)
(* that do not wait for each other.                                        *)
(***************************************************************************)
EXTENDS Bridge

Lines(words) == [word : words, game : 0..Games, ply : 0..Plies]

\* The variables hold what their types let them hold.
TypeOK ==
    /\ table \in [state : {"login", "idle", "offered", "agreed", "playing", "gone"},
                  game : 0..Games, ply : 0..Plies, ours : {0, 1}]
    /\ phase \in {"usi", "isready", "in", "ended"}
    /\ collecting \in BOOLEAN /\ asked \in BOOLEAN /\ hurried \in BOOLEAN
    /\ playing \in SUBSET [game : 1..Games, ours : {0, 1}, ply : 0..Plies, thinking : BOOLEAN]
    /\ Cardinality(playing) <= 1
    /\ stale \in Nat
    /\ searching \in Seq(Lines({"go"}))
    /\ fromEngine \in Seq(Lines({"bestmove", "resign", "win", "bare"}))

Thinking == \E game \in playing : game.thinking

\* Where the goes are in what the engine has not read.
Goes == {k \in DOMAIN toEngine : toEngine[k].word = "go"}

\* The bridge's two books, a count of dead games' answers and a mark on the game
\* in progress, are together the goes that have not been answered.
EveryGoIsOwed ==
    stale + (IF Thinking THEN 1 ELSE 0) = Cardinality(Goes) + Len(searching) + Len(fromEngine)

\* A move reaches the server in the game, and on the turn, it was thought out for:
\* a dead game's late answer is never played in the next one.
MovesAreCurrent ==
    /\ table.state = "playing" /\ toServer # <<>>
    /\ Head(toServer).word \in {"move", "%TORYO", "%KACHI"}
    => /\ Head(toServer).game = table.game
       /\ Head(toServer).ply = table.ply
       /\ OurTurn(table)

\* The two boards do not drift: the bridge's game is the server's as far as the
\* lines on their way to the bridge have not told it.
BoardsAgree ==
    \A game \in playing :
        table.state = "playing" /\ game.game = table.game =>
            /\ game.ours = table.ours
            /\ game.ply + Len(SelectSeq(toBridge, LAMBDA line : line.word = "move"
                                          /\ line.game = game.game)) = table.ply

\* An engine is not told that a game is over while it searches it, unasked to stop.
StopComesFirst ==
    phase = "in" /\ toEngine # <<>> /\ Head(toEngine).word = "gameover"
        => searching = <<>> \/ hurried

\* The answer to the question of the game in progress is not taken for a dead
\* game's: it is passed on.
AnswerIsPassedOn ==
    [][\A game \in playing :
         /\ game.thinking /\ fromEngine # <<>> /\ fromEngine' = Tail(fromEngine)
         /\ Head(fromEngine).game = game.game /\ Head(fromEngine).ply = game.ply
         /\ Head(fromEngine).word # "bare"
         => toServer' = Append(toServer, Written(Head(fromEngine)))]_vars

\* The word of usi/engine.rs:188-190: a go that produced no move is treated as the
\* engine having broken off.
NoMoveBreaksOff ==
    [][\A game \in playing :
         /\ game.thinking /\ fromEngine # <<>> /\ fromEngine' = Tail(fromEngine)
         /\ Head(fromEngine).word = "bare"
         => phase' = "ended"]_vars

\* A preset whose turn it is moves, or its game or its bridge ends.
TurnIsTaken ==
    \A g \in 1..Games, p \in 0..Plies - 1 :
        /\ table.state = "playing" /\ table.game = g /\ table.ply = p /\ OurTurn(table)
        ~> table.state # "playing" \/ table.game # g \/ table.ply # p \/ phase = "ended"
=============================================================================
