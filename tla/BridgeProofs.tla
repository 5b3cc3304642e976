---------------------------- MODULE BridgeProofs ----------------------------
(***************************************************************************)
(* Proofs about Bridge, for every number of games and of moves.            *)
(*                                                                         *)
(* What the bridge does not know yet is in toBridge, and the proofs are    *)
(* about the first lines of it: the stretch that still belongs to the game *)
(* the bridge is in.                                                       *)
(***************************************************************************)
EXTENDS BridgeProperties, TLAPS, FiniteSetTheorems, SequenceTheorems

Words == {"LOGIN", "LOGIN OK", "LOGIN:incorrect", "BEGIN", "END", "AGREE", "START", "REJECT",
          "move", "over", "closed", "%TORYO", "%KACHI", "go", "stop", "gameover", "quit",
          "bestmove", "resign", "win", "bare"}

AnyLine == [word : Words, game : Nat, ply : Nat]

Answer == [word : {"bestmove", "resign", "win", "bare"}, game : Nat, ply : Nat]

Shapes ==
    /\ table \in [state : {"login", "idle", "offered", "agreed", "playing", "gone"},
                  game : Nat, ply : Nat, ours : {0, 1}]
    /\ toBridge \in Seq(AnyLine) /\ toServer \in Seq(AnyLine)
    /\ phase \in {"usi", "isready", "in", "ended"}
    /\ collecting \in BOOLEAN
    /\ playing \in SUBSET [game : Nat, ours : Nat, ply : Nat, thinking : BOOLEAN]
    /\ \A g, h \in playing : g = h
    /\ stale \in Nat
    /\ toEngine \in Seq(AnyLine) /\ fromEngine \in Seq(Answer) /\ searching \in Seq(AnyLine)

-----------------------------------------------------------------------------
(* The inductive invariant. *)

\* The first n lines on their way to the bridge are the game's it is in: its START if
\* the bridge has not read it, and moves, no more than the bridge can have fallen behind.
Stretch(n) ==
    \E game \in playing :
      \/ /\ n \in {1, 2}
         /\ toBridge[1].word = "START" /\ toBridge[1].game = game.game
         /\ game.ply = 0 /\ ~game.thinking
         /\ n = 2 => toBridge[2].word = "move" /\ ~OurTurn(game)
      \/ /\ n \in {0, 1, 2}
         /\ \A k \in 1..n : toBridge[k].word = "move"
         /\ n = 2 => OurTurn(game)
         /\ game.thinking => n = 0 /\ OurTurn(game)

\* Behind the stretch comes what ends the game, and no line of a later one before the
\* bridge has answered its summary.
Behind ==
    phase = "in" /\ table.state # "playing" =>
      \E n \in 0..Len(toBridge) :
        /\ \A k \in n+1..Len(toBridge) : toBridge[k].word \notin {"START", "move"}
        /\ Thinking \/ n > 0 =>
             /\ Stretch(n) /\ ~collecting
             /\ n < Len(toBridge) /\ toBridge[n+1].word \in {"over", "closed"}

\* The bridge is in the game the server has it in, and has heard nothing of it yet.
Seated ==
    /\ ~collecting
    /\ playing = {[game |-> table.game, ours |-> table.ours, ply |-> 0, thinking |-> FALSE]}

\* One summary is open at a time: it is the last line to the bridge, or the bridge's
\* AGREE is the last line to the server.
Offering ==
    table.state = "offered" =>
      /\ table.ply = 0
      /\ \/ /\ toBridge # <<>> /\ toBridge[Len(toBridge)] = Line("END", table.game, table.ours)
            /\ \A k \in 1..Len(toBridge) - 1 : toBridge[k].word # "END"
            /\ \A k \in DOMAIN toServer : toServer[k].word # "AGREE"
         \/ /\ toBridge = <<>>
            /\ \A k \in DOMAIN toServer :
                  toServer[k].word = "AGREE" => k = Len(toServer) /\ Seated

Agreed ==
    table.state = "agreed" => table.ply = 0 /\ toBridge = <<>> /\ toServer = <<>> /\ Seated

\* While the game is played all that is on its way to the bridge is the game's, and the
\* bridge is behind by as many moves as there are; what is on its way from the bridge is
\* the answer to the position the game is in.
Underway ==
    table.state = "playing" =>
      /\ Stretch(Len(toBridge)) /\ ~collecting
      /\ \A game \in playing :
           /\ game.game = table.game /\ game.ours = table.ours
           /\ table.ply = game.ply + Len(toBridge)
                            - (IF toBridge # <<>> /\ toBridge[1].word = "START" THEN 1 ELSE 0)
           /\ toServer # <<>> =>
                /\ Len(toServer) = 1 /\ toBridge = <<>> /\ ~game.thinking /\ OurTurn(table)
                /\ toServer[1].game = table.game /\ toServer[1].ply = table.ply

Handshake ==
    phase \in {"usi", "isready"} =>
        table.state = "login" /\ toServer = <<>> /\ toBridge = <<>> /\ playing = {}

Asks(line, game) == line.game = game.game /\ line.ply = game.ply

\* The newest go not answered is the question of the game in progress.
NewestIsTheQuestion ==
    \A game \in playing : game.thinking =>
      /\ \A k \in Goes : (\A j \in Goes : j <= k) => Asks(toEngine[k], game)
      /\ Goes = {} /\ searching # <<>> => Asks(searching[Len(searching)], game)
      /\ Goes = {} /\ searching = <<>> /\ fromEngine # <<>>
           => Asks(fromEngine[Len(fromEngine)], game)

Outstanding == Cardinality(Goes) + Len(searching) + Len(fromEngine)

Booked == stale + (IF Thinking THEN 1 ELSE 0)

\* No answer comes that no book counts: a bare bestmove leaves one too many in the books.
NoneUnbooked == Outstanding <= Booked

Course == Behind /\ Offering /\ Agreed /\ Underway /\ Handshake

IInv == Shapes /\ Course /\ NewestIsTheQuestion /\ NoneUnbooked
-----------------------------------------------------------------------------
(* Queues of lines. *)

\* What follows a queue of lines by one.
LEMMA Added ==
    ASSUME NEW S, NEW q \in Seq(S), NEW a \in S
    PROVE  /\ q \o <<a>> \in Seq(S)
           /\ Len(q \o <<a>>) = Len(q) + 1
           /\ \A k \in 1..Len(q) : (q \o <<a>>)[k] = q[k]
           /\ (q \o <<a>>)[Len(q) + 1] = a
<1>1. <<a>> \in Seq(S) /\ Len(<<a>>) = 1 /\ <<a>>[1] = a
      OBVIOUS
<1>2. Len(q) \in Nat
      BY LenProperties
<1> DEFINE r == <<a>>
<1>3. r \in Seq(S) /\ Len(r) = 1 /\ r[1] = a
      BY <1>1
<1> HIDE DEF r
<1>4. /\ q \o r \in Seq(S) /\ Len(q \o r) = Len(q) + Len(r)
      /\ \A k \in 1..Len(q) + Len(r) : (q \o r)[k] = IF k <= Len(q) THEN q[k] ELSE r[k - Len(q)]
      BY <1>3, ConcatProperties
<1>5. /\ \A k \in 1..Len(q) : (q \o r)[k] = q[k]
      /\ (q \o r)[Len(q) + 1] = a
      BY <1>2, <1>3, <1>4
<1>6. QED BY <1>3, <1>4, <1>5 DEF r

\* What follows a queue of lines by two.
LEMMA AddedTwo ==
    ASSUME NEW S, NEW q \in Seq(S), NEW a \in S, NEW b \in S
    PROVE  /\ q \o <<a, b>> \in Seq(S)
           /\ Len(q \o <<a, b>>) = Len(q) + 2
           /\ \A k \in 1..Len(q) : (q \o <<a, b>>)[k] = q[k]
           /\ (q \o <<a, b>>)[Len(q) + 1] = a
           /\ (q \o <<a, b>>)[Len(q) + 2] = b
<1>1. <<a, b>> \in Seq(S) /\ Len(<<a, b>>) = 2 /\ <<a, b>>[1] = a /\ <<a, b>>[2] = b
      OBVIOUS
<1>2. Len(q) \in Nat
      BY LenProperties
<1> DEFINE r == <<a, b>>
<1>3. r \in Seq(S) /\ Len(r) = 2 /\ r[1] = a /\ r[2] = b
      BY <1>1
<1> HIDE DEF r
<1>4. /\ q \o r \in Seq(S) /\ Len(q \o r) = Len(q) + Len(r)
      /\ \A k \in 1..Len(q) + Len(r) : (q \o r)[k] = IF k <= Len(q) THEN q[k] ELSE r[k - Len(q)]
      BY <1>3, ConcatProperties
<1>5. /\ \A k \in 1..Len(q) : (q \o r)[k] = q[k]
      /\ (q \o r)[Len(q) + 1] = a /\ (q \o r)[Len(q) + 2] = b
      BY <1>2, <1>3, <1>4
<1>6. QED BY <1>3, <1>4, <1>5 DEF r

\* Taking the first line of a queue.
LEMMA Taken ==
    ASSUME NEW S, NEW q \in Seq(S), q # <<>>
    PROVE  /\ Head(q) \in S /\ Head(q) = q[1] /\ Len(q) \in Nat \ {0}
           /\ Tail(q) \in Seq(S) /\ Len(Tail(q)) = Len(q) - 1
           /\ \A k \in 1..Len(q) - 1 : Tail(q)[k] = q[k + 1]
BY HeadTailProperties, EmptySeq

\* A queue is empty when its length is nought.
LEMMA NoLines ==
    ASSUME NEW S, NEW q \in Seq(S)
    PROVE  (q = <<>>) <=> (Len(q) = 0)
BY EmptySeq

-----------------------------------------------------------------------------
(* The shapes. *)

LEMMA LineShape ==
    ASSUME NEW word \in Words, NEW game \in Nat, NEW ply \in Nat
    PROVE  /\ Line(word, game, ply) \in AnyLine /\ Word(word) \in AnyLine
           /\ Line(word, game, ply).word = word /\ Line(word, game, ply).game = game
           /\ Line(word, game, ply).ply = ply /\ Word(word).word = word
BY DEF Line, Word, AnyLine

LEMMA ServerShapes == Shapes /\ Server => Shapes'
<1> SUFFICES ASSUME Shapes, Server PROVE Shapes'
    OBVIOUS
<1> USE DEF Shapes
<1>0. /\ table.game \in Nat /\ table.ply \in Nat /\ table.ours \in {0, 1}
      /\ table.game + 1 \in Nat /\ table.ply + 1 \in Nat /\ 0 \in Nat
      OBVIOUS
<1>1. ASSUME NEW word \in Words, NEW game \in Nat, NEW ply \in Nat
      PROVE  toBridge \o <<Line(word, game, ply)>> \in Seq(AnyLine)
      BY Added, LineShape
<1>2. ASSUME NEW word \in Words
      PROVE  toBridge \o <<Word(word)>> \in Seq(AnyLine)
      BY Added, LineShape, <1>0
<1>3. toServer # <<>> => Tail(toServer) \in Seq(AnyLine)
      BY Taken
<1>4. CASE AnswersLogin
  <2>1. table' = Idle(table) \/ table' = [table EXCEPT !.state = "gone"]
        BY <1>4 DEF AnswersLogin
  <2>2. toBridge' \in Seq(AnyLine)
        BY <1>4, <1>2 DEF AnswersLogin, Say, Words
  <2>3. QED BY <1>4, <1>3, <2>1, <2>2 DEF AnswersLogin, Idle, bridgeVars, engineVars
<1>5. CASE Offers
  <2>1. PICK ours \in {0, 1} :
            table' = [state |-> "offered", game |-> table.game + 1, ply |-> 0, ours |-> ours]
        BY <1>5 DEF Offers
  <2> DEFINE game == table'.game
             seat == table'.ours
  <2>a. game = table.game + 1 /\ seat = ours /\ game \in Nat /\ seat \in Nat
        BY <2>1, <1>0
  <2> HIDE DEF game, seat
  <2>2. Word("BEGIN") \in AnyLine /\ Line("END", game, seat) \in AnyLine
        BY <2>a, <1>0, LineShape DEF Words
  <2>3. toBridge' \in Seq(AnyLine)
        BY <1>5, <2>2, AddedTwo DEF Offers, Say, game, seat
  <2>4. QED BY <1>5, <1>0, <2>1, <2>3 DEF Offers, bridgeVars, engineVars
<1>6. CASE Starts
      BY <1>6, <1>0, <1>1 DEF Starts, Say, Words, bridgeVars, engineVars
<1>7. CASE Rejects
      BY <1>7, <1>0, <1>1 DEF Rejects, Say, Words, Idle, bridgeVars, engineVars
<1>8. CASE OpponentMoves
      BY <1>8, <1>0, <1>1 DEF OpponentMoves, Relays, Say, Words, bridgeVars, engineVars
<1>9. CASE EndsGame
      BY <1>9, <1>0, <1>1 DEF EndsGame, Say, Words, Idle, bridgeVars, engineVars
<1>10. CASE HearsClient
  <2> DEFINE line == Head(toServer)
  <2>0. /\ toServer' \in Seq(AnyLine)
        /\ UNCHANGED <<bridgeVars, toEngine, fromEngine, engineVars>>
        BY <1>10, <1>3 DEF HearsClient
  <2>1. CASE line.word = "AGREE" /\ table.state = "offered"
        BY <1>10, <2>0, <2>1 DEF HearsClient, bridgeVars, engineVars
  <2>2. CASE line.word = "move" /\ table.state = "playing" /\ table.ply < Plies
    <3>1. /\ table' = [table EXCEPT !.ply = @ + 1]
          /\ toBridge' = toBridge \o <<Line("move", table.game, table.ply)>>
          BY <1>10, <2>2 DEF HearsClient, Relays, Say
    <3>2. QED BY <3>1, <2>0, <1>0, <1>1 DEF Words, bridgeVars, engineVars
  <2>3. CASE line.word \in {"%TORYO", "%KACHI"} /\ table.state = "playing"
    <3>1. /\ table' = [table EXCEPT !.state = "idle"]
          /\ toBridge' = toBridge \o <<Line("over", table.game, 0)>>
          BY <1>10, <2>3 DEF HearsClient, Idle, Say
    <3>2. QED BY <3>1, <2>0, <1>0, <1>1 DEF Words, bridgeVars, engineVars
  <2>4. CASE /\ ~(line.word = "AGREE" /\ table.state = "offered")
             /\ ~(line.word = "move" /\ table.state = "playing" /\ table.ply < Plies)
             /\ ~(line.word \in {"%TORYO", "%KACHI"} /\ table.state = "playing")
        BY <1>10, <2>0, <2>4 DEF HearsClient, bridgeVars, engineVars
  <2>5. QED BY <2>1, <2>2, <2>3, <2>4
<1>11. CASE HangsUp
      BY <1>11, <1>0, <1>2 DEF HangsUp, Say, Words, bridgeVars, engineVars
<1>12. QED BY <1>4, <1>5, <1>6, <1>7, <1>8, <1>9, <1>10, <1>11 DEF Server

\* A game of the bridge is a record of its fields.
LEMMA GameShape ==
    ASSUME Shapes, NEW game \in playing
    PROVE  /\ playing = {game} /\ game.game \in Nat /\ game.ours \in Nat /\ game.ply \in Nat
           /\ game.thinking \in BOOLEAN
           /\ game = [game |-> game.game, ours |-> game.ours, ply |-> game.ply,
                      thinking |-> game.thinking]
BY DEF Shapes

\* A question joins what the engine has not read.
LEMMA ContinueShapes ==
    ASSUME Shapes, NEW g \in [game : Nat, ours : Nat, ply : Nat, thinking : BOOLEAN], Continue(g)
    PROVE  /\ playing' \in SUBSET [game : Nat, ours : Nat, ply : Nat, thinking : BOOLEAN]
           /\ \A a, b \in playing' : a = b
           /\ toEngine' \in Seq(AnyLine)
<1>1. CASE OurTurn(g)
  <2>1. /\ playing' = {[g EXCEPT !.thinking = TRUE]}
        /\ toEngine' = toEngine \o <<Line("go", g.game, g.ply)>>
        BY <1>1 DEF Continue, Think, Tell
  <2>2. toEngine' \in Seq(AnyLine)
        BY <2>1, Added, LineShape DEF Shapes, Words
  <2>3. QED BY <2>1, <2>2
<1>2. CASE ~OurTurn(g)
      BY <1>2 DEF Continue, Shapes
<1>3. QED BY <1>1, <1>2

LEMMA ServerHeardShapes == Shapes /\ HearsServer => Shapes'
<1> SUFFICES ASSUME Shapes, HearsServer PROVE Shapes'
    OBVIOUS
<1> USE DEF Shapes
<1> DEFINE line == Head(toBridge)
           Game == [game : Nat, ours : Nat, ply : Nat, thinking : BOOLEAN]
<1>1. /\ toBridge # <<>> /\ toBridge' = Tail(toBridge) /\ phase = "in"
      /\ UNCHANGED <<table, asked, fromEngine, searching, hurried>>
      BY DEF HearsServer, engineVars
<1>2. /\ line \in AnyLine /\ toBridge' \in Seq(AnyLine)
      BY <1>1, Taken
<1>3. line.game \in Nat /\ line.ply \in Nat
      BY <1>2 DEF AnyLine
<1> DEFINE Rest == /\ phase' \in {"in", "ended"} /\ collecting' \in BOOLEAN
                   /\ playing' \in SUBSET Game /\ (\A g, h \in playing' : g = h)
                   /\ stale' \in Nat /\ toServer' \in Seq(AnyLine) /\ toEngine' \in Seq(AnyLine)
<1>4. (End /\ collecting' = collecting) => Rest
      BY <1>1 DEF End
<1>5. UNCHANGED <<phase, playing, stale, toServer, toEngine>> /\ collecting' \in BOOLEAN => Rest
      BY <1>1
<1>6. CASE collecting /\ line.word = "END"
  <2>1. /\ collecting' = FALSE
        /\ playing' = {[game |-> line.game, ours |-> line.ply, ply |-> 0, thinking |-> FALSE]}
        /\ toServer' = toServer \o <<Word("AGREE")>>
        /\ UNCHANGED <<phase, stale, toEngine>>
        BY <1>6 DEF HearsServer, Offered, Reply
  <2>2. toServer' \in Seq(AnyLine)
        BY <2>1, Added, LineShape DEF Words
  <2> DEFINE seat == [game |-> line.game, ours |-> line.ply, ply |-> 0, thinking |-> FALSE]
  <2>a. seat \in Game
        BY <1>3
  <2> HIDE DEF seat
  <2>b. playing' = {seat}
        BY <2>1 DEF seat
  <2>3. Rest
        BY <2>1, <2>2, <2>a, <2>b, <1>1
  <2>4. QED BY <1>1, <1>2, <2>3
<1>7. CASE ~collecting /\ line.word = "START"
  <2>1. Started(line)
        BY <1>7 DEF HearsServer
  <2>2. CASE playing = {} \/ \E game \in playing : game.game # line.game
        BY <1>1, <1>2, <1>4, <2>1, <2>2 DEF Started, End
  <2>3. CASE ~(playing = {} \/ \E game \in playing : game.game # line.game)
    <3>1. /\ \E game \in playing : Continue(game)
          /\ UNCHANGED <<phase, collecting, stale, toServer>>
          BY <2>1, <2>3 DEF Started
    <3>2. Rest
          BY <3>1, <1>1, ContinueShapes
    <3>3. QED BY <1>1, <1>2, <3>2
  <2>4. QED BY <2>2, <2>3
<1>8. CASE ~collecting /\ line.word = "move"
  <2>1. Relayed
        BY <1>8 DEF HearsServer
  <2>2. CASE playing = {}
        BY <1>1, <1>2, <1>5, <2>1, <2>2 DEF Relayed
  <2>3. CASE playing # {}
    <3>1. /\ \E game \in playing : Continue([game EXCEPT !.ply = @ + 1])
          /\ UNCHANGED <<phase, collecting, stale, toServer>>
          BY <2>1, <2>3 DEF Relayed
    <3>2. \A game \in playing : [game EXCEPT !.ply = @ + 1] \in Game
      <4> TAKE game \in playing
      <4>1. game \in Game
            OBVIOUS
      <4>2. game.ply + 1 \in Nat
            BY <4>1
      <4>3. QED BY <4>1, <4>2
    <3>3. Rest
          BY <3>1, <3>2, <1>1, ContinueShapes
    <3>4. QED BY <1>1, <1>2, <3>3
  <2>4. QED BY <2>2, <2>3
<1>9. CASE ~collecting /\ line.word = "over"
  <2>1. Over
        BY <1>9 DEF HearsServer
  <2>2. CASE playing = {}
        BY <1>1, <1>2, <2>1, <2>2 DEF Over
  <2>3. CASE playing # {}
    <3>1. PICK game \in playing : stale' = stale + Owed(game) /\ Tell(LastWords(game))
          BY <2>1, <2>3 DEF Over
    <3>2. Owed(game) \in Nat
          BY DEF Owed
    <3>3. toEngine' \in Seq(AnyLine)
      <4>1. Word("stop") \in AnyLine /\ Word("gameover") \in AnyLine
            BY LineShape DEF Words
      <4>2. CASE game.thinking
            BY <3>1, <4>1, <4>2, AddedTwo DEF Tell, LastWords
      <4>3. CASE ~game.thinking
            BY <3>1, <4>1, <4>3, Added DEF Tell, LastWords
      <4>4. QED BY <4>2, <4>3
    <3>4. stale' \in Nat
          BY <3>1, <3>2
    <3>5. QED BY <1>1, <1>2, <2>1, <3>3, <3>4 DEF Over
  <2>4. QED BY <2>2, <2>3
<1>10. CASE ~collecting /\ line.word = "REJECT"
      BY <1>1, <1>2, <1>10 DEF HearsServer
<1>11. CASE ~collecting /\ line.word \in {"LOGIN:incorrect", "closed"}
      BY <1>1, <1>2, <1>4, <1>11 DEF HearsServer, End
<1>12. CASE \/ collecting /\ line.word # "END"
            \/ ~collecting /\ line.word = "BEGIN"
            \/ ~collecting /\ line.word \notin {"START", "move", "over", "REJECT", "BEGIN",
                                               "LOGIN:incorrect", "closed"}
  <2>1. UNCHANGED <<phase, playing, stale, toServer, toEngine>> /\ collecting' \in BOOLEAN
        BY <1>12 DEF HearsServer
  <2>2. QED BY <1>1, <1>2, <2>1
<1>13. QED BY <1>6, <1>7, <1>8, <1>9, <1>10, <1>11, <1>12

\* What the client writes for an answer that can be read.
LEMMA WrittenShape ==
    ASSUME NEW answer \in Answer, answer.word # "bare"
    PROVE  /\ Written(answer) \in AnyLine /\ Written(answer).word \in {"move", "%TORYO", "%KACHI"}
           /\ Written(answer).game = answer.game /\ Written(answer).ply = answer.ply
<1>1. /\ answer.word \in {"bestmove", "resign", "win"} /\ answer.game \in Nat
      /\ answer.ply \in Nat
      BY DEF Answer
<1> DEFINE word == CASE answer.word = "resign" -> "%TORYO"
                     [] answer.word = "win" -> "%KACHI"
                     [] answer.word = "bestmove" -> "move"
<1>2. word \in {"move", "%TORYO", "%KACHI"}
      BY <1>1
<1>3. Written(answer) = [answer EXCEPT !.word = word]
      BY DEF Written
<1> HIDE DEF word
<1>4. /\ Written(answer) = [word |-> word, game |-> answer.game, ply |-> answer.ply]
      BY <1>3 DEF Answer
<1>5. /\ Written(answer).word = word /\ Written(answer).game = answer.game
      /\ Written(answer).ply = answer.ply
      BY <1>4
<1>6. Written(answer) \in AnyLine
  <2>1. word \in Words
        BY <1>2 DEF Words
  <2>2. QED BY <1>1, <1>4, <2>1 DEF AnyLine
<1>7. QED BY <1>2, <1>5, <1>6

LEMMA EngineHeardShapes == Shapes /\ HearsEngine => Shapes'
<1> SUFFICES ASSUME Shapes, HearsEngine PROVE Shapes'
    OBVIOUS
<1> USE DEF Shapes
<1> DEFINE answer == Head(fromEngine)
<1>1. /\ fromEngine # <<>> /\ fromEngine' = Tail(fromEngine)
      /\ UNCHANGED <<table, toBridge, phase, collecting, asked, toEngine, searching, hurried>>
      BY DEF HearsEngine, engineVars
<1>2. answer \in Answer /\ fromEngine' \in Seq(Answer)
      BY <1>1, Taken
<1>3. CASE UNCHANGED <<playing, stale, toServer>>
      BY <1>1, <1>2, <1>3
<1>4. CASE answer.word # "bare" /\ stale > 0
      BY <1>1, <1>2, <1>4 DEF HearsEngine, AnswersADeadGame
<1>5. CASE /\ answer.word # "bare"
           /\ playing' = {[game EXCEPT !.thinking = FALSE] : game \in playing}
           /\ toServer' = toServer \o <<Written(answer)>> /\ stale' = stale
  <2>1. toServer' \in Seq(AnyLine)
        BY <1>2, <1>5, WrittenShape, Added
  <2>2. /\ playing' \in SUBSET [game : Nat, ours : Nat, ply : Nat, thinking : BOOLEAN]
        /\ \A g, h \in playing' : g = h
    <3>1. \A game \in playing : [game EXCEPT !.thinking = FALSE]
                                    \in [game : Nat, ours : Nat, ply : Nat, thinking : BOOLEAN]
          OBVIOUS
    <3>2. \A a \in playing' : \E game \in playing : a = [game EXCEPT !.thinking = FALSE]
          BY <1>5
    <3>3. \A a \in playing' : a \in [game : Nat, ours : Nat, ply : Nat, thinking : BOOLEAN]
          BY <3>1, <3>2
    <3>4. ASSUME NEW a \in playing', NEW b \in playing' PROVE a = b
      <4>1. PICK g \in playing : a = [g EXCEPT !.thinking = FALSE]
            BY <3>2
      <4>2. PICK h \in playing : b = [h EXCEPT !.thinking = FALSE]
            BY <3>2
      <4>3. g = h
            OBVIOUS
      <4>4. QED BY <4>1, <4>2, <4>3
    <3>5. QED BY <3>3, <3>4
  <2>3. QED BY <1>1, <1>2, <1>5, <2>1, <2>2
<1>6. QED BY <1>3, <1>4, <1>5 DEF HearsEngine, AnswersADeadGame, Reply

LEMMA NextShapes == Shapes /\ [Next]_vars => Shapes'
<1> SUFFICES ASSUME Shapes, [Next]_vars PROVE Shapes'
    OBVIOUS
<1>1. CASE Server
      BY <1>1, ServerShapes
<1>2. CASE HearsServer
      BY <1>2, ServerHeardShapes
<1>3. CASE HearsEngine
      BY <1>3, EngineHeardShapes
<1>4. CASE Identified \/ HandshakeFails \/ AsksToStop
      BY <1>4 DEF Identified, HandshakeFails, AsksToStop, End, Shapes, serverVars, engineVars
<1>5. CASE LogsIn
  <2>1. toServer' \in Seq(AnyLine)
        BY <1>5, Added, LineShape DEF LogsIn, Reply, Words, Shapes
  <2>2. QED BY <1>5, <2>1 DEF LogsIn, Shapes, engineVars
<1>6. CASE Quits
  <2>1. toEngine' \in Seq(AnyLine)
        BY <1>6, Added, LineShape DEF Quits, Tell, Words, Shapes
  <2>2. QED BY <1>6, <2>1 DEF Quits, Shapes, serverVars, engineVars
<1>7. CASE ReadsLine
  <2>1. /\ toEngine' \in Seq(AnyLine) /\ Head(toEngine) \in AnyLine
        BY <1>7, Taken DEF ReadsLine, Shapes
  <2>2. searching' \in Seq(AnyLine)
        BY <1>7, <2>1, AppendProperties DEF ReadsLine, Shapes
  <2>3. QED BY <1>7, <2>1, <2>2 DEF ReadsLine, Shapes, serverVars, bridgeVars
<1>8. CASE Answers
  <2>1. /\ searching' \in Seq(AnyLine) /\ Head(searching) \in AnyLine
        BY <1>8, Taken DEF Answers, Shapes
  <2>2. PICK word \in {"bestmove", "resign", "win", "bare"} :
            fromEngine' = Append(fromEngine, [Head(searching) EXCEPT !.word = word])
        BY <1>8 DEF Answers
  <2>3. [Head(searching) EXCEPT !.word = word] \in Answer
        BY <2>1 DEF AnyLine, Answer
  <2>4. fromEngine' \in Seq(Answer)
        BY <2>2, <2>3, AppendProperties DEF Shapes
  <2>5. QED BY <1>8, <2>1, <2>4 DEF Answers, Shapes, serverVars, bridgeVars
<1>9. CASE Dies
      BY <1>9 DEF Dies, End, Shapes, engineVars
<1>10. CASE UNCHANGED vars
      BY <1>10 DEF vars, bridgeVars, engineVars, Shapes
<1>11. QED BY <1>1, <1>2, <1>3, <1>4, <1>5, <1>6, <1>7, <1>8, <1>9, <1>10
        DEF Next, TheBridge, TheEngine

-----------------------------------------------------------------------------
(* The stretch. *)

\* Turns alternate.
LEMMA Parity == \A p \in Nat : (p + 1) % 2 # p % 2 /\ (p + 2) % 2 = p % 2 /\ p % 2 \in {0, 1}
OBVIOUS

LEMMA StretchLength ==
    ASSUME Shapes, NEW n, Stretch(n)
    PROVE  n \in {0, 1, 2} /\ playing # {} /\ (Thinking => n = 0)
<1>1. PICK game \in playing : n \in {0, 1, 2} /\ (game.thinking => n = 0)
      BY DEF Stretch
<1>2. playing = {game}
      BY DEF Shapes
<1>3. QED BY <1>1, <1>2 DEF Thinking

\* It is read off the bridge's game and the first lines only.
LEMMA StretchStays ==
    ASSUME NEW n, Stretch(n), playing' = playing,
           \A k \in 1..n : toBridge'[k] = toBridge[k]
    PROVE  Stretch(n)'
<1>1. PICK game \in playing :
        \/ /\ n \in {1, 2}
           /\ toBridge[1].word = "START" /\ toBridge[1].game = game.game
           /\ game.ply = 0 /\ ~game.thinking
           /\ n = 2 => toBridge[2].word = "move" /\ ~OurTurn(game)
        \/ /\ n \in {0, 1, 2}
           /\ \A k \in 1..n : toBridge[k].word = "move"
           /\ n = 2 => OurTurn(game)
           /\ game.thinking => n = 0 /\ OurTurn(game)
      BY DEF Stretch
<1>2. n \in {0, 1, 2} /\ (n = 2 => toBridge'[2] = toBridge[2])
      /\ (n \in {1, 2} => toBridge'[1] = toBridge[1])
      BY <1>1
<1>3. QED BY <1>1, <1>2 DEF Stretch, OurTurn

\* What Continue does to the one game.
LEMMA Continued ==
    ASSUME NEW g \in [game : Nat, ours : Nat, ply : Nat, thinking : BOOLEAN], ~g.thinking,
           Continue(g)
    PROVE  \E new \in playing' :
              /\ playing' = {new} /\ new \in [game : Nat, ours : Nat, ply : Nat, thinking : BOOLEAN]
              /\ new.game = g.game /\ new.ours = g.ours /\ new.ply = g.ply
              /\ \/ /\ OurTurn(g) /\ new.thinking
                    /\ toEngine' = toEngine \o <<Line("go", g.game, g.ply)>>
                 \/ ~OurTurn(g) /\ ~new.thinking /\ toEngine' = toEngine
<1>1. CASE OurTurn(g)
      BY <1>1 DEF Continue, Think, Tell
<1>2. CASE ~OurTurn(g)
      BY <1>2 DEF Continue
<1>3. QED BY <1>1, <1>2

\* The bridge hears a line of the stretch: it is one shorter, and if it is empty then
\* and the turn is the bridge's, the engine is asked.
StretchHeard(n, old, new) ==
    /\ playing = {old} /\ playing' = {new} /\ ~old.thinking
    /\ new.game = old.game /\ new.ours = old.ours
    /\ new.ply = old.ply + (IF toBridge[1].word = "START" THEN 0 ELSE 1)
    /\ \/ new.thinking /\ toEngine' = toEngine \o <<Line("go", new.game, new.ply)>>
       \/ ~new.thinking /\ toEngine' = toEngine
    /\ Stretch(n - 1)'

LEMMA StretchTaken ==
    ASSUME Shapes, NEW n \in 1..Len(toBridge), Stretch(n), ~collecting, HearsServer
    PROVE  /\ UNCHANGED <<table, phase, collecting, stale, toServer, fromEngine, searching>>
           /\ toBridge[1].word \in {"START", "move"}
           /\ \E old \in playing, new \in playing' : StretchHeard(n, old, new)
<1> DEFINE line == Head(toBridge)
           Game == [game : Nat, ours : Nat, ply : Nat, thinking : BOOLEAN]
<1>1. /\ toBridge # <<>> /\ toBridge' = Tail(toBridge) /\ toBridge \in Seq(AnyLine)
      /\ UNCHANGED <<table, fromEngine, searching>>
      BY DEF HearsServer, engineVars, Shapes
<1>2. /\ line = toBridge[1] /\ Len(toBridge) \in Nat
      /\ \A k \in 1..Len(toBridge) - 1 : toBridge'[k] = toBridge[k + 1]
      BY <1>1, Taken
<1>3. PICK old \in playing :
        \/ /\ n \in {1, 2}
           /\ toBridge[1].word = "START" /\ toBridge[1].game = old.game
           /\ old.ply = 0 /\ ~old.thinking
           /\ n = 2 => toBridge[2].word = "move" /\ ~OurTurn(old)
        \/ /\ n \in {0, 1, 2}
           /\ \A k \in 1..n : toBridge[k].word = "move"
           /\ n = 2 => OurTurn(old)
           /\ old.thinking => n = 0 /\ OurTurn(old)
      BY DEF Stretch
<1>4. playing = {old} /\ old \in Game /\ old.ply \in Nat /\ old.ours \in Nat
      BY DEF Shapes
<1>5. /\ n = 2 => toBridge'[1] = toBridge[2]
      /\ n \in {1, 2}
      BY <1>2, <1>3
<1>6. CASE toBridge[1].word = "START"
  <2>1. /\ n = 2 => toBridge[2].word = "move" /\ ~OurTurn(old)
        /\ toBridge[1].game = old.game /\ ~old.thinking
        BY <1>3, <1>5, <1>6
  <2>2. Started(line)
        BY <1>2, <1>6 DEF HearsServer
  <2>3. Continue(old) /\ UNCHANGED <<phase, collecting, stale, toServer>>
        BY <2>1, <2>2, <1>2, <1>4 DEF Started
  <2>4. PICK new \in playing' :
              /\ playing' = {new} /\ new \in Game
              /\ new.game = old.game /\ new.ours = old.ours /\ new.ply = old.ply
              /\ \/ /\ OurTurn(old) /\ new.thinking
                    /\ toEngine' = toEngine \o <<Line("go", old.game, old.ply)>>
                 \/ ~OurTurn(old) /\ ~new.thinking /\ toEngine' = toEngine
        BY <2>1, <2>3, <1>4, Continued
  <2>5. OurTurn(new) <=> OurTurn(old)
        BY <2>4 DEF OurTurn
  <2>6. Stretch(n - 1)'
    <3>1. CASE n = 1
          BY <3>1, <2>4, <2>5 DEF Stretch, OurTurn
    <3>2. CASE n = 2
      <4>1. n - 1 = 1 /\ ~new.thinking /\ toBridge'[1].word = "move"
            BY <3>2, <2>1, <2>4, <1>5
      <4>2. Stretch(1)'
            BY <4>1, <2>4 DEF Stretch
      <4>3. QED BY <4>1, <4>2
    <3>3. QED BY <3>1, <3>2, <1>5
  <2>7. StretchHeard(n, old, new)
        BY <2>1, <2>4, <2>6, <1>4, <1>6 DEF StretchHeard
  <2>8. QED BY <2>3, <2>7, <1>1, <1>6
<1>7. CASE toBridge[1].word # "START"
  <2>1. /\ \A k \in 1..n : toBridge[k].word = "move"
        /\ n = 2 => OurTurn(old)
        /\ ~old.thinking
        BY <1>3, <1>5, <1>7
  <2>2. toBridge[1].word = "move"
        BY <2>1
  <2>3. Relayed
        BY <1>2, <2>2 DEF HearsServer
  <2> DEFINE later == [old EXCEPT !.ply = @ + 1]
  <2>4. Continue(later) /\ UNCHANGED <<phase, collecting, stale, toServer>>
        BY <2>3, <1>4 DEF Relayed
  <2>5. /\ later \in Game /\ ~later.thinking /\ later.game = old.game
        /\ later.ours = old.ours /\ later.ply = old.ply + 1
        BY <2>1, <1>4
  <2> HIDE DEF later
  <2>6. PICK new \in playing' :
              /\ playing' = {new} /\ new \in Game
              /\ new.game = later.game /\ new.ours = later.ours /\ new.ply = later.ply
              /\ \/ /\ OurTurn(later) /\ new.thinking
                    /\ toEngine' = toEngine \o <<Line("go", later.game, later.ply)>>
                 \/ ~OurTurn(later) /\ ~new.thinking /\ toEngine' = toEngine
        BY <2>4, <2>5, Continued
  <2>7. /\ OurTurn(new) <=> OurTurn(later)
        /\ OurTurn(old) => ~OurTurn(later)
    <3>1. (old.ply + 1) % 2 # old.ply % 2
          BY <1>4, Parity
    <3>2. QED BY <3>1, <2>5, <2>6, <1>4 DEF OurTurn
  <2>8. Stretch(n - 1)'
    <3>1. CASE n = 1
          BY <3>1, <2>6, <2>7 DEF Stretch, OurTurn
    <3>2. CASE n = 2
      <4>1. n - 1 = 1 /\ ~new.thinking /\ toBridge'[1].word = "move"
            BY <3>2, <2>1, <2>6, <2>7, <1>5
      <4>2. Stretch(1)'
            BY <4>1, <2>6 DEF Stretch
      <4>3. QED BY <4>1, <4>2
    <3>3. QED BY <3>1, <3>2, <1>5
  <2>9. new.ply = old.ply + (IF toBridge[1].word = "START" THEN 0 ELSE 1)
        BY <2>5, <2>6, <1>7
  <2>10. StretchHeard(n, old, new)
        BY <2>1, <2>5, <2>6, <2>8, <2>9, <1>4 DEF StretchHeard
  <2>11. QED BY <2>2, <2>4, <2>10, <1>1
<1>8. QED BY <1>6, <1>7

-----------------------------------------------------------------------------
(* The course of the game on both sides. *)

\* Lines that neither start nor move leave what is behind the stretch as it was.
LEMMA BehindGrows ==
    ASSUME Shapes, Behind, table.state # "playing", UNCHANGED <<phase, collecting, playing>>,
           Len(toBridge') \in Nat, Len(toBridge') >= Len(toBridge),
           \A k \in 1..Len(toBridge) : toBridge'[k] = toBridge[k],
           \A k \in Len(toBridge) + 1..Len(toBridge') : toBridge'[k].word \notin {"START", "move"}
    PROVE  Behind'
<1> SUFFICES ASSUME phase = "in" PROVE Behind'
    BY DEF Behind
<1>1. Len(toBridge) \in Nat
      BY LenProperties DEF Shapes
<1>2. PICK n \in 0..Len(toBridge) :
        /\ \A k \in n+1..Len(toBridge) : toBridge[k].word \notin {"START", "move"}
        /\ Thinking \/ n > 0 =>
             /\ Stretch(n) /\ ~collecting
             /\ n < Len(toBridge) /\ toBridge[n+1].word \in {"over", "closed"}
      BY DEF Behind
<1>3. n \in 0..Len(toBridge') /\ (n < Len(toBridge) => n < Len(toBridge') /\ n + 1 \in 1..Len(toBridge))
      BY <1>1
<1>4. \A k \in n+1..Len(toBridge') : toBridge'[k].word \notin {"START", "move"}
  <2> TAKE k \in n+1..Len(toBridge')
  <2>1. CASE k <= Len(toBridge)
        BY <1>1, <1>2, <2>1
  <2>2. CASE k > Len(toBridge)
        BY <1>1, <2>2
  <2>3. QED BY <2>1, <2>2, <1>1
<1>5. Thinking' = Thinking
      BY DEF Thinking
<1>6. Stretch(n) => Stretch(n)'
  <2>1. \A k \in 1..n : toBridge'[k] = toBridge[k]
        BY <1>1
  <2>2. QED BY <2>1, StretchStays
<1>7. Thinking' \/ n > 0 =>
             /\ Stretch(n)' /\ ~collecting'
             /\ n < Len(toBridge') /\ toBridge'[n+1].word \in {"over", "closed"}
      BY <1>2, <1>3, <1>5, <1>6
<1>8. QED BY <1>3, <1>4, <1>7 DEF Behind

\* The line that ends the game closes the stretch.
LEMMA BehindEnds ==
    ASSUME Shapes, Underway, table.state = "playing", UNCHANGED <<collecting, playing>>,
           NEW last \in AnyLine, last.word \in {"over", "closed"},
           toBridge' = toBridge \o <<last>>
    PROVE  Behind'
<1>0. PICK n \in Nat : n = Len(toBridge)
      BY LenProperties DEF Shapes
<1>1. n \in Nat /\ Len(toBridge') = n + 1 /\ toBridge'[n + 1] = last
      /\ \A k \in 1..n : toBridge'[k] = toBridge[k]
      BY <1>0, Added DEF Shapes
<1>2. Stretch(n) /\ ~collecting
      BY <1>0 DEF Underway
<1>3. Stretch(n)' /\ ~collecting'
      BY <1>1, <1>2, StretchStays
<1>4. /\ n \in 0..Len(toBridge') /\ n < Len(toBridge')
      /\ \A k \in n+1..Len(toBridge') : k = n + 1
      BY <1>1
<1>5. QED BY <1>1, <1>3, <1>4 DEF Behind

\* Only what the course is about matters to it.
LEMMA CourseFrame ==
    ASSUME Course, UNCHANGED <<table, toBridge, toServer, collecting, playing>>,
           phase' \in {phase, "ended"}
    PROVE  Course'
<1>1. Stretch(Len(toBridge)) => Stretch(Len(toBridge))'
      BY StretchStays
<1>2. Behind'
  <2> SUFFICES ASSUME phase = "in", table.state # "playing", phase' = phase PROVE Behind'
      BY DEF Behind
  <2>1. \A n : Stretch(n) => Stretch(n)'
        BY StretchStays
  <2>2. Thinking' = Thinking
        BY DEF Thinking
  <2>3. QED BY <2>1, <2>2 DEF Behind, Course
<1>3. Offering' /\ Agreed'
      BY DEF Course, Offering, Agreed, Seated
<1>4. Underway'
      BY <1>1 DEF Course, Underway, OurTurn
<1>5. Handshake'
      BY DEF Course, Handshake
<1>6. QED BY <1>2, <1>3, <1>4, <1>5 DEF Course

\* The server's steps.
LEMMA ServerCourse == Shapes /\ Course /\ Server => Course'
<1> SUFFICES ASSUME Shapes, Course, Server PROVE Course'
    OBVIOUS
<1>0. /\ Behind /\ Offering /\ Agreed /\ Underway /\ Handshake
      /\ toBridge \in Seq(AnyLine) /\ toServer \in Seq(AnyLine)
      /\ Len(toBridge) \in Nat /\ Len(toServer) \in Nat
      /\ table.game \in Nat /\ table.ply \in Nat /\ table.ours \in {0, 1}
      /\ 0 \in Nat
      BY LenProperties DEF Course, Shapes
<1>1. ASSUME NEW word \in Words, NEW game \in Nat, NEW ply \in Nat
      PROVE  Line(word, game, ply) \in AnyLine /\ Line(word, game, ply).word = word
      BY LineShape
<1>2. ASSUME NEW line \in AnyLine, toBridge' = toBridge \o <<line>>
      PROVE  /\ Len(toBridge') = Len(toBridge) + 1 /\ toBridge'[Len(toBridge) + 1] = line
             /\ \A k \in 1..Len(toBridge) : toBridge'[k] = toBridge[k]
      BY <1>0, <1>2, Added
<1>3. ASSUME NEW line \in AnyLine, toBridge' = toBridge \o <<line>>, table.state # "playing",
             line.word \notin {"START", "move"}, UNCHANGED bridgeVars
      PROVE  Behind'
  <2>1. \A k \in Len(toBridge) + 1..Len(toBridge') : k = Len(toBridge) + 1
        BY <1>0, <1>2, <1>3
  <2>2. QED BY <1>0, <1>2, <1>3, <2>1, BehindGrows DEF bridgeVars
<1>4. CASE AnswersLogin
  <2>1. PICK word \in {"LOGIN OK", "LOGIN:incorrect"} : toBridge' = toBridge \o <<Word(word)>>
        BY <1>4 DEF AnswersLogin, Say
  <2>a. word \in Words
        BY DEF Words
  <2>2. Word(word) \in AnyLine /\ Word(word).word = word
        BY <2>a, LineShape, <1>0
  <2>3. /\ table.state = "login" /\ table'.state \in {"idle", "gone"} /\ UNCHANGED bridgeVars
        /\ toServer # <<>>
        BY <1>4, <1>0 DEF AnswersLogin, Idle, Shapes
  <2>4. Behind'
        BY <1>3, <2>1, <2>2, <2>3
  <2>5. phase \notin {"usi", "isready"}
        BY <1>0, <2>3 DEF Handshake
  <2>6. QED BY <2>3, <2>4, <2>5 DEF Course, Offering, Agreed, Underway, Handshake, bridgeVars
<1>5. CASE Offers
  <2>1. PICK ours \in {0, 1} :
            table' = [state |-> "offered", game |-> table.game + 1, ply |-> 0, ours |-> ours]
        BY <1>5 DEF Offers
  <2> DEFINE last == Line("END", table.game + 1, ours)
  <2>2. /\ table'.state = "offered" /\ table'.game = table.game + 1 /\ table'.ours = ours
        BY <2>1
  <2>3. /\ toBridge' = toBridge \o <<Word("BEGIN"), last>>
        /\ table.state = "idle" /\ UNCHANGED bridgeVars /\ toServer' = toServer
        /\ \A k \in DOMAIN toBridge : toBridge[k].word # "END"
        /\ \A k \in DOMAIN toServer : toServer[k].word # "AGREE"
        BY <1>5, <2>2 DEF Offers, Say, SummaryIsAnswered
  <2>4. /\ Word("BEGIN") \in AnyLine /\ last \in AnyLine
        /\ Word("BEGIN").word = "BEGIN" /\ last.word = "END"
        /\ last = Line("END", table'.game, table'.ours)
    <3>1. "BEGIN" \in Words /\ "END" \in Words /\ table.game + 1 \in Nat /\ ours \in Nat
          BY <1>0 DEF Words
    <3>2. last = Line("END", table'.game, table'.ours)
          BY <2>2
    <3>3. last \in AnyLine /\ last.word = "END"
          BY <3>1, <1>1
    <3>4. Word("BEGIN") \in AnyLine /\ Word("BEGIN").word = "BEGIN"
          BY <3>1, <1>0, LineShape
    <3>5. QED BY <3>2, <3>3, <3>4
  <2> HIDE DEF last
  <2>5. /\ Len(toBridge') = Len(toBridge) + 2 /\ toBridge'[Len(toBridge) + 1] = Word("BEGIN")
        /\ toBridge'[Len(toBridge) + 2] = last
        /\ \A k \in 1..Len(toBridge) : toBridge'[k] = toBridge[k]
        /\ toBridge' \in Seq(AnyLine)
        BY <1>0, <2>3, <2>4, AddedTwo
  <2>6. \A k \in Len(toBridge) + 1..Len(toBridge') : k \in {Len(toBridge) + 1, Len(toBridge) + 2}
        BY <1>0, <2>5
  <2>7. Behind'
        BY <1>0, <2>3, <2>4, <2>5, <2>6, BehindGrows DEF bridgeVars
  <2>8. Offering'
    <3>1. toBridge' # <<>> /\ toBridge'[Len(toBridge')] = Line("END", table'.game, table'.ours)
          BY <1>0, <2>4, <2>5, NoLines
    <3>2. \A k \in 1..Len(toBridge') - 1 : k \in 1..Len(toBridge) \/ k = Len(toBridge) + 1
          BY <1>0, <2>5
    <3>3. \A k \in 1..Len(toBridge') - 1 : toBridge'[k].word # "END"
          BY <1>0, <2>3, <2>4, <2>5, <3>2
    <3>4. table'.ply = 0
          BY <2>1
    <3>5. QED BY <2>3, <3>1, <3>3, <3>4 DEF Offering
  <2>9. Handshake'
        BY <1>0, <2>3 DEF Handshake, bridgeVars
  <2>10. QED BY <2>2, <2>7, <2>8, <2>9 DEF Course, Agreed, Underway
<1>6. CASE Starts
  <2> DEFINE line == Line("START", table.game, 0)
  <2>1. /\ table.state = "agreed" /\ table' = [table EXCEPT !.state = "playing"]
        /\ toBridge' = toBridge \o <<line>> /\ UNCHANGED bridgeVars /\ toServer' = toServer
        BY <1>6 DEF Starts, Say
  <2>2. toBridge = <<>> /\ toServer = <<>> /\ Seated /\ Len(toBridge) = 0
        BY <1>0, <2>1, NoLines DEF Agreed
  <2>a. "START" \in Words
        BY DEF Words
  <2>3. line \in AnyLine /\ line.word = "START" /\ line.game = table.game
        BY <2>a, <1>0, LineShape
  <2> HIDE DEF line
  <2>4. Len(toBridge') = 1 /\ toBridge'[1] = line /\ toBridge' # <<>>
        BY <1>2, <2>1, <2>2, <2>3
  <2>5. /\ table'.state = "playing" /\ table'.game = table.game /\ table'.ply = table.ply
        /\ table'.ours = table.ours
        BY <2>1, <1>0 DEF Shapes
  <2>6. /\ playing' = {[game |-> table.game, ours |-> table.ours, ply |-> 0, thinking |-> FALSE]}
        /\ ~collecting'
        BY <2>1, <2>2 DEF Seated, bridgeVars
  <2>7. Stretch(1)'
        BY <2>3, <2>4, <2>6 DEF Stretch
  <2>8. table.ply = 0
        BY <1>0, <2>1 DEF Agreed
  <2>9. Underway'
        BY <2>1, <2>2, <2>3, <2>4, <2>5, <2>6, <2>7, <2>8 DEF Underway
  <2>10. Handshake' /\ Behind' /\ Offering' /\ Agreed'
        BY <1>0, <2>1, <2>5 DEF Handshake, Behind, Offering, Agreed, bridgeVars
  <2>11. QED BY <2>9, <2>10 DEF Course
<1>7. CASE Rejects
  <2> DEFINE line == Line("REJECT", table.game, 0)
  <2>1. /\ table.state \in {"offered", "agreed"} /\ table' = [table EXCEPT !.state = "idle"]
        /\ toBridge' = toBridge \o <<line>> /\ UNCHANGED bridgeVars /\ toServer' = toServer
        BY <1>7 DEF Rejects, Say, Idle
  <2>2. "REJECT" \in Words
        BY DEF Words
  <2>3. line \in AnyLine /\ line.word = "REJECT"
        BY <2>2, <1>0, <1>1
  <2> HIDE DEF line
  <2>4. table'.state = "idle"
        BY <2>1, <1>0 DEF Shapes
  <2>5. Behind'
        BY <1>3, <2>1, <2>3
  <2>6. QED BY <1>0, <2>1, <2>4, <2>5
            DEF Course, Offering, Agreed, Underway, Handshake, bridgeVars
<1>8. CASE HangsUp
  <2>1. /\ table' = [table EXCEPT !.state = "gone"] /\ toServer' = toServer
        /\ toBridge' = toBridge \o <<Word("closed")>> /\ UNCHANGED bridgeVars
        /\ table.state \notin {"login", "gone"}
        BY <1>8 DEF HangsUp, Say
  <2>2. "closed" \in Words
        BY DEF Words
  <2>3. Word("closed") \in AnyLine /\ Word("closed").word = "closed"
        BY <2>2, <1>0, LineShape
  <2>4. table'.state = "gone"
        BY <2>1, <1>0 DEF Shapes
  <2>5. Behind'
    <3>1. CASE table.state = "playing"
          BY <1>0, <2>1, <2>3, <3>1, BehindEnds DEF bridgeVars
    <3>2. CASE table.state # "playing"
          BY <1>3, <2>1, <2>3, <3>2
    <3>3. QED BY <3>1, <3>2
  <2>6. QED BY <1>0, <2>1, <2>4, <2>5
            DEF Course, Offering, Agreed, Underway, Handshake, bridgeVars
<1>9. ASSUME table.state = "playing", UNCHANGED bridgeVars,
             table' = [table EXCEPT !.state = "idle"],
             toBridge' = toBridge \o <<Line("over", table.game, 0)>>
      PROVE  Course'
  <2>1. "over" \in Words
        BY DEF Words
  <2>2. Line("over", table.game, 0) \in AnyLine /\ Line("over", table.game, 0).word = "over"
        BY <2>1, <1>0, <1>1
  <2>3. Behind'
        BY <1>0, <1>9, <2>2, BehindEnds DEF bridgeVars
  <2>4. table'.state = "idle"
        BY <1>9, <1>0 DEF Shapes
  <2>5. phase \notin {"usi", "isready"}
        BY <1>0, <1>9 DEF Handshake
  <2>6. QED BY <1>9, <2>3, <2>4, <2>5 DEF Course, Offering, Agreed, Underway, Handshake, bridgeVars
<1>10. CASE EndsGame
      BY <1>9, <1>10 DEF EndsGame, Say, Idle
\* A move is relayed, the opponent's in the opponent's turn or the bridge's in its own.
<1>11. ASSUME table.state = "playing", UNCHANGED bridgeVars,
              table' = [table EXCEPT !.ply = @ + 1],
              toBridge' = toBridge \o <<Line("move", table.game, table.ply)>>,
              \/ ~OurTurn(table) /\ toServer' = toServer
              \/ toServer # <<>> /\ toServer' = Tail(toServer)
       PROVE  Course'
  <2> DEFINE line == Line("move", table.game, table.ply)
  <2>1. "move" \in Words
        BY DEF Words
  <2>2. line \in AnyLine /\ line.word = "move"
        BY <2>1, <1>0, <1>1
  <2>3. toBridge' = toBridge \o <<line>>
        BY <1>11
  <2> HIDE DEF line
  <2>4. /\ Len(toBridge') = Len(toBridge) + 1 /\ toBridge'[Len(toBridge) + 1] = line
        /\ \A k \in 1..Len(toBridge) : toBridge'[k] = toBridge[k]
        BY <1>2, <2>2, <2>3
  <2>5. /\ table'.state = "playing" /\ table'.game = table.game /\ table'.ours = table.ours
        /\ table'.ply = table.ply + 1 /\ playing' = playing /\ collecting' = collecting
        BY <1>11, <1>0 DEF Shapes, bridgeVars
  <2>6. PICK n \in Nat : n = Len(toBridge)
        BY <1>0
  <2>7. PICK game \in playing :
        \/ /\ n \in {1, 2}
           /\ toBridge[1].word = "START" /\ toBridge[1].game = game.game
           /\ game.ply = 0 /\ ~game.thinking
           /\ n = 2 => toBridge[2].word = "move" /\ ~OurTurn(game)
        \/ /\ n \in {0, 1, 2}
           /\ \A k \in 1..n : toBridge[k].word = "move"
           /\ n = 2 => OurTurn(game)
           /\ game.thinking => n = 0 /\ OurTurn(game)
        BY <1>0, <1>11, <2>6 DEF Underway, Stretch
  <2>8. /\ playing = {game} /\ game.ply \in Nat
        /\ game.game = table.game /\ game.ours = table.ours /\ ~collecting
        /\ table.ply = game.ply + n
                        - (IF toBridge # <<>> /\ toBridge[1].word = "START" THEN 1 ELSE 0)
        /\ toServer # <<>> =>
             /\ Len(toServer) = 1 /\ toBridge = <<>> /\ ~game.thinking /\ OurTurn(table)
             /\ toServer[1].game = table.game /\ toServer[1].ply = table.ply
        BY <1>0, <1>11, <2>6, GameShape DEF Underway
  <2>9. toServer' = <<>>
    <3>1. CASE ~OurTurn(table) /\ toServer' = toServer
          BY <2>8, <3>1
    <3>2. CASE toServer # <<>> /\ toServer' = Tail(toServer)
      <4>1. Tail(toServer) \in Seq(AnyLine) /\ Len(Tail(toServer)) = 0
            BY <1>0, <2>8, <3>2, Taken
      <4>2. QED BY <3>2, <4>1, NoLines
    <3>3. QED BY <1>11, <3>1, <3>2
  <2>10. toBridge = <<>> <=> n = 0
        BY <1>0, <2>6, NoLines
  <2>11. /\ n > 0 => toBridge'[1] = toBridge[1]
         /\ n > 1 => toBridge'[2] = toBridge[2]
         /\ toBridge'[n + 1].word = "move" /\ Len(toBridge') = n + 1
        BY <2>2, <2>4, <2>6
  <2>12. toBridge' # <<>>
        BY <1>0, <2>2, <2>3, <2>4, <2>11, Added, NoLines
  <2>13. Stretch(n + 1)' /\ (toBridge'[1].word = "START" <=> n > 0 /\ toBridge[1].word = "START")
    <3>0. /\ (game.ply + 1) % 2 # game.ply % 2 /\ (game.ply + 2) % 2 = game.ply % 2
          /\ game.ply % 2 \in {0, 1} /\ (game.ply + 1) % 2 \in {0, 1}
          /\ game.ours \in {0, 1}
      <4>1. game.ply \in Nat /\ game.ply + 1 \in Nat /\ game.ours \in {0, 1}
            BY <2>8, <1>0
      <4>2. QED BY <4>1, Parity
    <3>1. CASE n > 0 /\ toBridge[1].word = "START"
      <4>1. /\ n \in {1, 2} /\ toBridge[1].game = game.game /\ game.ply = 0 /\ ~game.thinking
            /\ n = 2 => ~OurTurn(game)
            BY <2>7, <3>1
      <4>2. ~OurTurn(table) /\ table.ply = n - 1
            BY <1>11, <2>8, <2>10, <3>1, <4>1
      <4>3. n = 1
        <5>1. SUFFICES ASSUME n = 2 PROVE FALSE
              BY <4>1
        <5>2. game.ply % 2 # game.ours /\ (game.ply + 1) % 2 # game.ours
              BY <2>8, <4>1, <4>2, <5>1 DEF OurTurn
        <5>3. QED BY <3>0, <5>2
      <4>4. ~OurTurn(game)
            BY <2>8, <4>1, <4>2, <4>3 DEF OurTurn
      <4>5. Stretch(2)'
            BY <2>5, <2>8, <2>11, <3>1, <4>1, <4>3, <4>4 DEF Stretch, OurTurn
      <4>6. QED BY <2>11, <3>1, <4>3, <4>5
    <3>2. CASE ~(n > 0 /\ toBridge[1].word = "START")
      <4>1. /\ n \in {0, 1, 2} /\ \A k \in 1..n : toBridge[k].word = "move"
            /\ n = 2 => OurTurn(game)
            /\ game.thinking => n = 0 /\ OurTurn(game)
            BY <2>7, <3>2
      <4>2. table.ply = game.ply + n
            BY <2>8, <2>10, <3>2
      <4>3. CASE n = 0
        <5>1. ~game.thinking
              BY <1>11, <2>8, <4>1, <4>2, <4>3 DEF OurTurn
        <5>2. toBridge'[1].word = "move"
              BY <2>11, <4>3
        <5>3. Stretch(1)'
              BY <2>5, <2>8, <5>1, <5>2 DEF Stretch
        <5>4. QED BY <4>3, <5>2, <5>3
      <4>4. CASE n > 0
        <5>1. toServer = <<>> /\ ~OurTurn(table) /\ ~game.thinking
              BY <1>11, <2>8, <2>10, <4>1, <4>4
        <5>2. n = 1
          <6>1. SUFFICES ASSUME n = 2 PROVE FALSE
                BY <4>1, <4>4
          <6>2. game.ply % 2 = game.ours /\ (game.ply + 2) % 2 # game.ours
                BY <2>8, <4>1, <4>2, <5>1, <6>1 DEF OurTurn
          <6>3. QED BY <3>0, <6>2
        <5>3. OurTurn(game)
          <6>1. (game.ply + 1) % 2 # game.ours
                BY <2>8, <4>2, <5>1, <5>2 DEF OurTurn
          <6>2. QED BY <3>0, <6>1 DEF OurTurn
        <5>4. toBridge'[1].word = "move" /\ toBridge'[2].word = "move"
              BY <2>11, <4>1, <5>2
        <5>5. Stretch(2)'
              BY <2>5, <2>8, <5>1, <5>3, <5>4 DEF Stretch, OurTurn
        <5>6. QED BY <5>2, <5>4, <5>5, <4>1
      <4>5. QED BY <4>1, <4>3, <4>4
    <3>3. QED BY <3>1, <3>2
  <2>14. Underway'
    <3>1. Stretch(Len(toBridge))'
          BY <2>11, <2>13
    <3>2. table'.ply = game.ply + Len(toBridge')
              - (IF toBridge' # <<>> /\ toBridge'[1].word = "START" THEN 1 ELSE 0)
      <4>1. CASE n > 0 /\ toBridge[1].word = "START"
        <5>1. toBridge # <<>> /\ toBridge'[1].word = "START"
              BY <2>10, <2>13, <4>1
        <5>2. table.ply = game.ply + n - 1
              BY <2>8, <4>1, <5>1
        <5>3. QED BY <2>5, <2>8, <2>11, <2>12, <5>1, <5>2
      <4>2. CASE ~(n > 0 /\ toBridge[1].word = "START")
        <5>1. /\ toBridge'[1].word # "START"
              /\ ~(toBridge # <<>> /\ toBridge[1].word = "START")
              BY <2>10, <2>13, <4>2
        <5>2. table.ply = game.ply + n
              BY <2>8, <5>1
        <5>3. QED BY <2>5, <2>8, <2>11, <5>1, <5>2
      <4>3. QED BY <4>1, <4>2
    <3>3. QED BY <2>5, <2>8, <2>9, <3>1, <3>2 DEF Underway
  <2>15. phase \notin {"usi", "isready"}
        BY <1>0, <1>11 DEF Handshake
  <2>16. Behind' /\ Offering' /\ Agreed' /\ Handshake'
        BY <1>11, <2>5, <2>15 DEF Behind, Offering, Agreed, Handshake, bridgeVars
  <2>17. QED BY <2>14, <2>16 DEF Course
<1>12. CASE OpponentMoves
      BY <1>11, <1>12 DEF OpponentMoves, Relays, Say
<1>13. CASE HearsClient
  <2> DEFINE line == Head(toServer)
  <2>0. /\ toServer # <<>> /\ toServer' = Tail(toServer) /\ UNCHANGED bridgeVars
        /\ line = toServer[1] /\ Len(toServer) > 0 /\ Len(toServer') = Len(toServer) - 1
        /\ toServer' \in Seq(AnyLine)
        /\ \A k \in 1..Len(toServer) - 1 : toServer'[k] = toServer[k + 1]
        BY <1>0, <1>13, Taken DEF HearsClient
  <2>1. phase \notin {"usi", "isready"}
        BY <1>0, <2>0 DEF Handshake
  <2>2. CASE line.word = "AGREE" /\ table.state = "offered"
    <3>1. table' = [table EXCEPT !.state = "agreed"] /\ toBridge' = toBridge
          BY <1>13, <2>2 DEF HearsClient
    <3>2. table'.state = "agreed" /\ table'.game = table.game /\ table'.ours = table.ours
          /\ table'.ply = table.ply
          BY <3>1, <1>0 DEF Shapes
    <3>3. 1 \in DOMAIN toServer
          BY <1>0, <2>0, LenProperties
    <3>4. /\ toBridge = <<>> /\ 1 = Len(toServer) /\ Seated /\ table.ply = 0
          BY <1>0, <2>0, <2>2, <3>3 DEF Offering
    <3>5. toServer' = <<>>
          BY <2>0, <3>4, NoLines
    <3>6. Agreed'
          BY <2>0, <3>1, <3>2, <3>4, <3>5 DEF Agreed, Seated, bridgeVars
    <3>7. \A n : Stretch(n) => Stretch(n)'
          BY <2>0, <3>1, StretchStays DEF bridgeVars
    <3>8. Behind'
          BY <1>0, <2>0, <2>2, <3>1, <3>2, <3>7 DEF Behind, Thinking, bridgeVars
    <3>9. QED BY <2>0, <2>1, <3>2, <3>6, <3>8 DEF Course, Offering, Underway, Handshake, bridgeVars
  <2>3. CASE line.word = "move" /\ table.state = "playing" /\ table.ply < Plies
        BY <1>11, <1>13, <2>0, <2>3 DEF HearsClient, Relays, Say
  <2>4. CASE line.word \in {"%TORYO", "%KACHI"} /\ table.state = "playing"
        BY <1>9, <1>13, <2>0, <2>4 DEF HearsClient, Idle, Say
  <2>5. CASE /\ ~(line.word = "AGREE" /\ table.state = "offered")
             /\ ~(line.word = "move" /\ table.state = "playing" /\ table.ply < Plies)
             /\ ~(line.word \in {"%TORYO", "%KACHI"} /\ table.state = "playing")
    <3>1. table' = table /\ toBridge' = toBridge
          BY <1>13, <2>5 DEF HearsClient
    <3>2. \A n : Stretch(n) => Stretch(n)'
          BY <2>0, <3>1, StretchStays DEF bridgeVars
    <3>3. Behind'
          BY <1>0, <2>0, <3>1, <3>2 DEF Behind, Thinking, bridgeVars
    <3>4. Offering'
      <4>1. SUFFICES ASSUME table.state = "offered" PROVE Offering'
            BY <3>1 DEF Offering
      <4>2. \A k \in DOMAIN toServer' : k + 1 \in DOMAIN toServer /\ toServer'[k] = toServer[k + 1]
                                         /\ (k + 1 = Len(toServer) => k = Len(toServer'))
            BY <1>0, <2>0, LenProperties
      <4>3. Seated => Seated'
            BY <2>0, <3>1 DEF Seated, bridgeVars
      <4>4. QED BY <1>0, <3>1, <4>1, <4>2, <4>3 DEF Offering
    <3>5. Agreed'
          BY <1>0, <2>0, <3>1 DEF Agreed
    <3>6. Underway'
      <4>1. SUFFICES ASSUME table.state = "playing" PROVE Underway'
            BY <3>1 DEF Underway
      <4>2. Stretch(Len(toBridge))'
            BY <1>0, <3>1, <3>2, <4>1 DEF Underway
      <4>3. toServer' = <<>>
        <5>1. Len(toServer) = 1
          <6>1. PICK game \in playing : TRUE
                BY <1>0, <4>1 DEF Underway, Stretch
          <6>2. QED BY <1>0, <2>0, <4>1, <6>1 DEF Underway
        <5>2. QED BY <2>0, <5>1, NoLines
      <4>4. QED BY <1>0, <2>0, <3>1, <4>1, <4>2, <4>3 DEF Underway, bridgeVars
    <3>7. QED BY <2>0, <2>1, <3>3, <3>4, <3>5, <3>6 DEF Course, Handshake, bridgeVars
  <2>6. QED BY <2>2, <2>3, <2>4, <2>5
<1>20. QED BY <1>4, <1>5, <1>6, <1>7, <1>8, <1>10, <1>12, <1>13 DEF Server

\* The bridge hears the server.
LEMMA ServerHeardCourse == Shapes /\ Course /\ HearsServer => Course'
<1> SUFFICES ASSUME Shapes, Course, HearsServer PROVE Course'
    OBVIOUS
<1> DEFINE line == Head(toBridge)
<1>1. /\ toBridge # <<>> /\ toBridge' = Tail(toBridge) /\ phase = "in"
      /\ UNCHANGED table
      /\ toBridge \in Seq(AnyLine) /\ toServer \in Seq(AnyLine) /\ Len(toServer) \in Nat
      /\ toBridge' \in Seq(AnyLine) /\ Len(toBridge) \in Nat /\ Len(toBridge) > 0
      /\ Len(toBridge') = Len(toBridge) - 1 /\ line = toBridge[1] /\ line \in AnyLine
      /\ \A k \in 1..Len(toBridge) - 1 : toBridge'[k] = toBridge[k + 1]
      BY Taken, LenProperties DEF HearsServer, Shapes
<1>2. Behind /\ Offering /\ Agreed /\ Underway /\ Handshake
      BY DEF Course
<1>3. phase' \in {"in", "ended"}
      BY <1>1 DEF HearsServer, Offered, Started, Relayed, Over, End
<1>4. Handshake' /\ (table.state # "agreed")
      BY <1>1, <1>2, <1>3 DEF Handshake, Agreed
<1>5. CASE table.state = "playing"
  <2>1. PICK n \in Nat : n = Len(toBridge)
        BY <1>1
  <2>2. Stretch(n) /\ ~collecting
        BY <1>2, <1>5, <2>1 DEF Underway
  <2>3. /\ UNCHANGED <<phase, collecting, toServer>>
        /\ \E old \in playing, new \in playing' : StretchHeard(n, old, new)
        BY <1>1, <2>1, <2>2, StretchTaken
  <2>4. PICK old \in playing, new \in playing' : StretchHeard(n, old, new)
        BY <2>3
  <2>5. /\ old.game = table.game /\ old.ours = table.ours
        /\ table.ply = old.ply + n - (IF toBridge[1].word = "START" THEN 1 ELSE 0)
        /\ toServer = <<>>
        BY <1>1, <1>2, <1>5, <2>1 DEF Underway
  <2>6. n - 1 = Len(toBridge') /\ Stretch(n - 1)' /\ playing' = {new}
        BY <1>1, <2>1, <2>4 DEF StretchHeard
  <2>7. Stretch(Len(toBridge))'
        BY <2>6
  <2>8. toBridge' # <<>> => toBridge'[1].word = "move"
    <3>1. SUFFICES ASSUME toBridge' # <<>> PROVE toBridge'[1].word = "move"
          OBVIOUS
    <3>2. n > 1
          BY <1>1, <2>1, <3>1, NoLines
    <3>3. toBridge'[1] = toBridge[2] /\ n = 2
          BY <1>1, <2>1, <2>2, <3>2, StretchLength
    <3>4. toBridge[2].word = "move"
          BY <2>2, <3>3 DEF Stretch
    <3>5. QED BY <3>3, <3>4
  <2>9. /\ old.ply \in Nat /\ new.game = table.game /\ new.ours = table.ours
        /\ table.ply = new.ply + Len(toBridge')
    <3>1. old.ply \in Nat
          BY GameShape
    <3>2. new.ply = old.ply + (IF toBridge[1].word = "START" THEN 0 ELSE 1)
          BY <2>4 DEF StretchHeard
    <3>3. table.ply = new.ply + (n - 1)
          BY <3>1, <3>2, <2>5
    <3>4. QED BY <2>4, <2>5, <2>6, <3>1, <3>3 DEF StretchHeard
  <2>10. Underway'
        <3>1. \A game \in playing' : game = new
              BY <2>6
        <3>2. table.ply = new.ply + Len(toBridge')
                      - (IF toBridge' # <<>> /\ toBridge'[1].word = "START" THEN 1 ELSE 0)
              BY <2>8, <2>9, <2>6
        <3>3. QED BY <1>1, <2>2, <2>3, <2>5, <2>7, <2>9, <3>1, <3>2 DEF Underway
  <2>11. Behind' /\ Offering' /\ Agreed'
        BY <1>1, <1>5 DEF Behind, Offering, Agreed
  <2>12. QED BY <1>4, <2>10, <2>11 DEF Course
<1>6. CASE table.state # "playing"
  <2>1. PICK n \in 0..Len(toBridge) :
        /\ \A k \in n+1..Len(toBridge) : toBridge[k].word \notin {"START", "move"}
        /\ Thinking \/ n > 0 =>
             /\ Stretch(n) /\ ~collecting
             /\ n < Len(toBridge) /\ toBridge[n+1].word \in {"over", "closed"}
        BY <1>1, <1>2, <1>6 DEF Behind
  <2>2. CASE n > 0
    <3>1. /\ UNCHANGED <<table, phase, collecting, toServer>>
          /\ \E old \in playing, new \in playing' : StretchHeard(n, old, new)
          BY <1>1, <2>1, <2>2, StretchTaken
    <3>2. Stretch(n - 1)' /\ ~collecting'
          BY <2>1, <2>2, <3>1 DEF StretchHeard
    <3>3. /\ n - 1 \in 0..Len(toBridge') /\ n - 1 < Len(toBridge')
          /\ \A k \in n..Len(toBridge') : toBridge'[k] = toBridge[k + 1] /\ k + 1 \in n+1..Len(toBridge)
          /\ toBridge'[n] = toBridge[n + 1] /\ n \in Nat
          BY <1>1, <2>1, <2>2
    <3>4. Behind'
      <4>1. \A k \in n-1+1..Len(toBridge') : toBridge'[k].word \notin {"START", "move"}
            BY <2>1, <3>3
      <4>2. toBridge'[n-1+1].word \in {"over", "closed"}
            BY <2>1, <2>2, <3>3
      <4>3. QED BY <3>2, <3>3, <4>1, <4>2 DEF Behind
    <3>5. Offering'
      <4>1. SUFFICES ASSUME table.state = "offered" PROVE Offering'
            BY <3>1 DEF Offering
      <4>2. /\ toBridge[Len(toBridge)] = Line("END", table.game, table.ours) /\ table.ply = 0
            /\ \A k \in 1..Len(toBridge) - 1 : toBridge[k].word # "END"
            /\ \A k \in DOMAIN toServer : toServer[k].word # "AGREE"
            BY <1>1, <1>2, <4>1 DEF Offering
      <4>a. Len(toBridge') >= 1
            BY <1>1, <2>2, <3>3
      <4>b. Len(<<>>) = 0
            OBVIOUS
      <4>3. Len(toBridge') >= 1 /\ toBridge' # <<>>
            BY <4>a, <4>b
      <4>4. /\ toBridge'[Len(toBridge')] = toBridge[Len(toBridge)]
            /\ \A k \in 1..Len(toBridge') - 1 : toBridge'[k] = toBridge[k + 1]
                                                /\ k + 1 \in 1..Len(toBridge) - 1
            BY <1>1, <4>3
      <4>5. QED BY <1>1, <3>1, <4>2, <4>3, <4>4 DEF Offering
    <3>6. Agreed' /\ Underway'
          BY <1>4, <1>6, <3>1 DEF Agreed, Underway
    <3>7. QED BY <1>4, <3>4, <3>5, <3>6 DEF Course
  <2>3. CASE n = 0
    <3>1. /\ \A k \in 1..Len(toBridge') : toBridge'[k].word \notin {"START", "move"}
          /\ line.word \notin {"START", "move"}
      <4>1. \A k \in 1..Len(toBridge') : toBridge'[k] = toBridge[k + 1] /\ k + 1 \in n+1..Len(toBridge)
            BY <1>1, <2>3
      <4>2. 1 \in n+1..Len(toBridge)
            BY <1>1, <2>3
      <4>3. QED BY <1>1, <2>1, <4>1, <4>2
    <3>2. ~Thinking' \/ phase' = "ended" => Behind'
          BY <1>1, <3>1 DEF Behind
    <3>3. table.state = "offered" =>
            /\ toBridge[Len(toBridge)] = Line("END", table.game, table.ours) /\ table.ply = 0
            /\ \A k \in 1..Len(toBridge) - 1 : toBridge[k].word # "END"
            /\ \A k \in DOMAIN toServer : toServer[k].word # "AGREE"
          BY <1>1, <1>2 DEF Offering
    <3>4. CASE collecting /\ line.word = "END"
      <4>1. /\ collecting' = FALSE
            /\ playing' = {[game |-> line.game, ours |-> line.ply, ply |-> 0, thinking |-> FALSE]}
            /\ toServer' = toServer \o <<Word("AGREE")>>
            BY <3>4 DEF HearsServer, Offered, Reply
      <4>2. ~Thinking'
            BY <4>1 DEF Thinking
      <4>3. Offering'
        <5>1. SUFFICES ASSUME table.state = "offered" PROVE Offering'
              BY <1>1 DEF Offering
        <5>2. Len(toBridge) = 1 /\ toBridge' = <<>>
          <6>1. Len(toBridge) = 1
                BY <1>1, <3>3, <3>4, <5>1
          <6>2. QED BY <1>1, <6>1, NoLines
        <5>3. line.game = table.game /\ line.ply = table.ours /\ table.ply = 0
              BY <1>1, <3>3, <5>1, <5>2 DEF Line
        <5>4. Seated'
              BY <1>1, <4>1, <5>3 DEF Seated
        <5>5. "AGREE" \in Words /\ 0 \in Nat
              BY DEF Words
        <5>6. Word("AGREE") \in AnyLine
              BY <5>5, LineShape
        <5>7. /\ toServer' \in Seq(AnyLine) /\ Len(toServer') = Len(toServer) + 1
              /\ \A k \in 1..Len(toServer) : toServer'[k] = toServer[k]
              BY <1>1, <4>1, <5>6, Added
        <5>8. \A k \in DOMAIN toServer' : k \in 1..Len(toServer) \/ k = Len(toServer')
              BY <1>1, <5>7, LenProperties
        <5>9. \A k \in DOMAIN toServer' : toServer'[k].word = "AGREE" => k = Len(toServer')
              BY <1>1, <3>3, <5>1, <5>7, <5>8, LenProperties
        <5>10. QED BY <1>1, <5>2, <5>3, <5>4, <5>9 DEF Offering
      <4>4. QED BY <1>1, <1>4, <1>6, <3>2, <4>2, <4>3 DEF Course, Agreed, Underway
    <3>5. CASE ~(collecting /\ line.word = "END")
      <4>1. /\ toServer' = toServer
            /\ playing' \in {playing, {}}
            /\ ~collecting /\ line.word = "over" => playing' = {}
            /\ ~collecting /\ line.word = "closed" => phase' = "ended"
            BY <3>1, <3>5 DEF HearsServer, Over, End
      <4>2. Thinking => ~collecting /\ line.word \in {"over", "closed"}
            BY <1>1, <2>1, <2>3
      <4>3. ~Thinking' \/ phase' = "ended"
            BY <4>1, <4>2 DEF Thinking
      <4>4. Offering'
        <5>1. SUFFICES ASSUME table.state = "offered" PROVE Offering'
              BY <1>1 DEF Offering
        <5>2. CASE Len(toBridge) = 1
          <6>1. toBridge' = <<>>
                BY <1>1, <5>2, NoLines
          <6>2. QED BY <1>1, <3>3, <4>1, <5>1, <6>1 DEF Offering
        <5>3. CASE Len(toBridge) > 1
          <6>a. Len(toBridge') >= 1
                BY <1>1, <5>3
          <6>b. Len(<<>>) = 0
                OBVIOUS
          <6>1. Len(toBridge') >= 1 /\ toBridge' # <<>>
                BY <6>a, <6>b
          <6>2. /\ toBridge'[Len(toBridge')] = toBridge[Len(toBridge)]
                /\ \A k \in 1..Len(toBridge') - 1 : toBridge'[k] = toBridge[k + 1]
                                                    /\ k + 1 \in 1..Len(toBridge) - 1
                BY <1>1, <6>1
          <6>3. QED BY <1>1, <3>3, <4>1, <5>1, <6>1, <6>2 DEF Offering
        <5>4. QED BY <1>1, <5>2, <5>3
      <4>5. QED BY <1>1, <1>4, <1>6, <3>2, <4>3, <4>4 DEF Course, Agreed, Underway
    <3>6. QED BY <3>4, <3>5
  <2>4. QED BY <2>1, <2>2, <2>3
<1>7. QED BY <1>5, <1>6

\* What an answer does: nothing, or it settles what a dead game is owed, or it is the
\* game's and goes to the server.
Dropped ==
    /\ UNCHANGED <<playing, stale, toServer>>
    /\ Head(fromEngine).word = "bare" \/ (stale = 0 /\ ~Thinking)

Settled ==
    /\ UNCHANGED <<playing, toServer>> /\ stale > 0 /\ stale' = stale - 1
    /\ Head(fromEngine).word # "bare"

Played(old, new) ==
    /\ playing = {old} /\ playing' = {new} /\ old.thinking /\ ~new.thinking
    /\ new.game = old.game /\ new.ours = old.ours /\ new.ply = old.ply
    /\ UNCHANGED stale /\ stale = 0 /\ Head(fromEngine).word # "bare"
    /\ toServer' = toServer \o <<Written(Head(fromEngine))>>

LEMMA AnswerTaken ==
    ASSUME Shapes, HearsEngine
    PROVE  /\ UNCHANGED <<table, toBridge, phase, collecting, toEngine, searching>>
           /\ phase = "in"
           /\ fromEngine # <<>> /\ fromEngine' = Tail(fromEngine)
           /\ Dropped \/ Settled \/ \E old \in playing, new \in playing' : Played(old, new)
<1>1. /\ UNCHANGED <<table, toBridge, phase, collecting, toEngine, searching>>
      /\ phase = "in" /\ fromEngine # <<>> /\ fromEngine' = Tail(fromEngine)
      BY DEF HearsEngine, engineVars
<1> DEFINE answer == Head(fromEngine)
<1>2. stale \in Nat
      BY DEF Shapes
<1>3. CASE answer.word = "bare"
  <2>1. UNCHANGED <<playing, stale, toServer>>
        BY <1>3 DEF HearsEngine
  <2>2. Dropped
        BY <1>3, <2>1 DEF Dropped
  <2>3. QED BY <1>1, <2>2
<1>4. CASE answer.word # "bare" /\ stale > 0
  <2>1. Settled
        BY <1>4 DEF HearsEngine, AnswersADeadGame, Settled
  <2>2. QED BY <1>1, <2>1
<1>5. CASE answer.word # "bare" /\ ~(stale > 0) /\ \A game \in playing : ~game.thinking
  <2>1. UNCHANGED <<playing, stale, toServer>>
        BY <1>5 DEF HearsEngine, AnswersADeadGame
  <2>2. Dropped
        BY <1>2, <1>5, <2>1 DEF Dropped, Thinking
  <2>3. QED BY <1>1, <2>2
<1>6. CASE answer.word # "bare" /\ ~(stale > 0) /\ ~\A game \in playing : ~game.thinking
  <2>1. /\ playing' = {[game EXCEPT !.thinking = FALSE] : game \in playing}
        /\ toServer' = toServer \o <<Written(answer)>> /\ stale' = stale /\ stale = 0
        BY <1>2, <1>6 DEF HearsEngine, AnswersADeadGame, Reply
  <2>2. PICK old \in playing : old.thinking
        BY <1>6
  <2>3. playing = {old} /\ old \in [game : Nat, ours : Nat, ply : Nat, thinking : BOOLEAN]
        BY DEF Shapes
  <2> DEFINE new == [old EXCEPT !.thinking = FALSE]
  <2>4. playing' = {new}
        BY <2>1, <2>3
  <2>5. ~new.thinking /\ new.game = old.game /\ new.ours = old.ours /\ new.ply = old.ply
        BY <2>3
  <2> HIDE DEF new
  <2>6. Played(old, new)
        BY <1>6, <2>1, <2>2, <2>3, <2>4, <2>5 DEF Played
  <2>7. QED BY <1>1, <2>4, <2>6
<1>7. QED BY <1>3, <1>4, <1>5, <1>6

-----------------------------------------------------------------------------
(* The goes not answered. *)

GoesOf(q) == {k \in DOMAIN q : q[k].word = "go"}

LEMMA GoesFinite ==
    ASSUME NEW q \in Seq(AnyLine)
    PROVE  /\ IsFiniteSet(GoesOf(q))
           /\ Cardinality(GoesOf(q)) \in Nat
           /\ Cardinality(GoesOf(q)) = 0 <=> GoesOf(q) = {}
<1> DEFINE goes == {k \in DOMAIN q : q[k].word = "go"}
<1>1. DOMAIN q = 1..Len(q) /\ Len(q) \in Nat
      BY LenProperties
<1>2. IsFiniteSet(1..Len(q))
      BY <1>1, FS_Interval
<1>3. goes \in SUBSET (1..Len(q))
      BY <1>1
<1>4. IsFiniteSet(goes)
      BY <1>2, <1>3, FS_Subset
<1> HIDE DEF goes
<1>5. Cardinality(goes) \in Nat /\ (Cardinality(goes) = 0 <=> goes = {})
      BY <1>4, FS_CardinalityType, FS_EmptySet
<1>6. QED BY <1>4, <1>5 DEF goes, GoesOf

\* One more line is one more go, or none.
LEMMA GoesAdded ==
    ASSUME NEW q \in Seq(AnyLine), NEW a \in AnyLine
    PROVE  /\ a.word = "go" =>
                /\ GoesOf(q \o <<a>>) = GoesOf(q) \cup {Len(q) + 1}
                /\ Len(q) + 1 \notin GoesOf(q)
                /\ Cardinality(GoesOf(q \o <<a>>)) = Cardinality(GoesOf(q)) + 1
           /\ a.word # "go" => GoesOf(q \o <<a>>) = GoesOf(q)
<1> DEFINE Old == GoesOf(q)
           New == GoesOf(q \o <<a>>)
<1>1. /\ DOMAIN q = 1..Len(q) /\ Len(q) \in Nat
      /\ q \o <<a>> \in Seq(AnyLine) /\ Len(q \o <<a>>) = Len(q) + 1
      /\ \A k \in 1..Len(q) : (q \o <<a>>)[k] = q[k]
      /\ (q \o <<a>>)[Len(q) + 1] = a
      BY Added, LenProperties
<1>2. DOMAIN (q \o <<a>>) = 1..Len(q) + 1
      BY <1>1, LenProperties
<1>3. a.word = "go" => New = Old \cup {Len(q) + 1} /\ Len(q) + 1 \notin Old
      BY <1>1, <1>2 DEF GoesOf
<1>4. a.word # "go" => New = Old
      BY <1>1, <1>2 DEF GoesOf
<1>5. IsFiniteSet(Old)
      BY GoesFinite
<1> HIDE DEF Old, New
<1>6. a.word = "go" => Cardinality(New) = Cardinality(Old) + 1
      BY <1>3, <1>5, FS_AddElement
<1>7. QED BY <1>3, <1>4, <1>6 DEF Old, New

\* Two lines that are no goes.
LEMMA GoesAddedTwo ==
    ASSUME NEW q \in Seq(AnyLine), NEW a \in AnyLine, NEW b \in AnyLine,
           a.word # "go", b.word # "go"
    PROVE  GoesOf(q \o <<a, b>>) = GoesOf(q)
<1>1. /\ DOMAIN q = 1..Len(q) /\ Len(q) \in Nat
      /\ q \o <<a, b>> \in Seq(AnyLine) /\ Len(q \o <<a, b>>) = Len(q) + 2
      /\ \A k \in 1..Len(q) : (q \o <<a, b>>)[k] = q[k]
      /\ (q \o <<a, b>>)[Len(q) + 1] = a /\ (q \o <<a, b>>)[Len(q) + 2] = b
      BY AddedTwo, LenProperties
<1>2. DOMAIN (q \o <<a, b>>) = 1..Len(q) + 2
      BY <1>1, LenProperties
<1>3. \A k \in 1..Len(q) + 2 : k \in 1..Len(q) \/ k = Len(q) + 1 \/ k = Len(q) + 2
      BY <1>1
<1>4. QED BY <1>1, <1>2, <1>3 DEF GoesOf

\* The first line taken, the goes stand one place nearer.
LEMMA GoesTaken ==
    ASSUME NEW q \in Seq(AnyLine), q # <<>>
    PROVE  /\ \A k \in GoesOf(Tail(q)) : k \in 1..Len(q) - 1 /\ k + 1 \in GoesOf(q)
           /\ \A k \in GoesOf(q) : k \in 1..Len(q) /\ (k # 1 => k - 1 \in GoesOf(Tail(q)))
           /\ Head(q).word = "go" =>
                1 \in GoesOf(q) /\ Cardinality(GoesOf(q)) = Cardinality(GoesOf(Tail(q))) + 1
           /\ Head(q).word # "go" =>
                1 \notin GoesOf(q) /\ Cardinality(GoesOf(q)) = Cardinality(GoesOf(Tail(q)))
<1> DEFINE Old == GoesOf(q)
           New == GoesOf(Tail(q))
<1>1. /\ DOMAIN q = 1..Len(q) /\ Len(q) \in Nat /\ Len(q) > 0 /\ Head(q) = q[1]
      /\ Tail(q) \in Seq(AnyLine) /\ Len(Tail(q)) = Len(q) - 1
      /\ \A k \in 1..Len(q) - 1 : Tail(q)[k] = q[k + 1]
      BY Taken, LenProperties
<1>2. DOMAIN Tail(q) = 1..Len(q) - 1
      BY <1>1, LenProperties
<1>3. New = {k \in 1..Len(q) - 1 : k + 1 \in Old}
      BY <1>1, <1>2 DEF GoesOf
<1>4. IsFiniteSet(Old) /\ IsFiniteSet(New) /\ Old \subseteq 1..Len(q)
      BY <1>1, GoesFinite DEF GoesOf
<1>a. 1 \in Old <=> Head(q).word = "go"
      BY <1>1 DEF GoesOf
<1> HIDE DEF Old, New
<1> DEFINE later == Old \ {1}
           shift == [k \in New |-> k + 1]
<1>5. shift \in Bijection(New, later)
  <2>1. \A k \in New : k \in Int /\ k + 1 \in later
        BY <1>1, <1>3
  <2>2. \A m \in later : m - 1 \in New /\ m \in Int
        BY <1>1, <1>3, <1>4
  <2>3. shift \in [New -> later]
        BY <2>1
  <2>4. \A a, b \in New : shift[a] = shift[b] => a = b
        BY <2>1
  <2>5. \A m \in later : \E k \in New : shift[k] = m
    <3> TAKE m \in later
    <3>1. m - 1 \in New /\ shift[m - 1] = m
          BY <2>2
    <3>2. QED BY <3>1
  <2>6. shift \in Injection(New, later)
        BY <2>3, <2>4 DEF Injection, IsInjective
  <2>7. QED BY <2>3, <2>5, <2>6 DEF Bijection, Surjection
<1>6. Cardinality(later) = Cardinality(New)
      BY <1>4, <1>5, FS_Bijection DEF ExistsBijection
<1>7. Cardinality(later) = IF 1 \in Old THEN Cardinality(Old) - 1 ELSE Cardinality(Old)
      BY <1>4, FS_RemoveElement
<1>9. Cardinality(Old) \in Nat /\ Cardinality(New) \in Nat
      BY <1>4, FS_CardinalityType
<1> HIDE DEF later
<1>10. 1 \in Old => Cardinality(Old) = Cardinality(New) + 1
  <2>1. 1 \in Old => Cardinality(later) = Cardinality(Old) - 1
        BY <1>7
  <2>2. \A a, b \in Nat : b = a - 1 => a = b + 1
        OBVIOUS
  <2>3. 1 \in Old => Cardinality(New) = Cardinality(Old) - 1
        BY <2>1, <1>6
  <2>4. QED BY <2>2, <2>3, <1>9
<1>11. 1 \notin Old => Cardinality(Old) = Cardinality(New)
      BY <1>6, <1>7
<1>12. \A k \in Old : k \in 1..Len(q) /\ (k # 1 => k - 1 \in New)
      BY <1>1, <1>3, <1>4
<1>13. \A k \in New : k \in 1..Len(q) - 1 /\ k + 1 \in Old
      BY <1>3
<1>14. QED BY <1>a, <1>10, <1>11, <1>12, <1>13 DEF Old, New

\* Only these matter to the books.
LEMMA BooksFrame ==
    ASSUME UNCHANGED <<playing, stale, toEngine, searching, fromEngine>>
    PROVE  /\ Outstanding' = Outstanding /\ Booked' = Booked
           /\ NewestIsTheQuestion => NewestIsTheQuestion'
<1>1. Goes' = Goes /\ Thinking' = Thinking
      BY DEF Goes, Thinking
<1>2. QED BY <1>1 DEF Outstanding, Booked, NewestIsTheQuestion, Asks

LEMMA BooksTypes ==
    ASSUME Shapes
    PROVE  /\ Cardinality(Goes) \in Nat /\ (Cardinality(Goes) = 0 <=> Goes = {})
           /\ Len(searching) \in Nat /\ Len(fromEngine) \in Nat /\ stale \in Nat
           /\ Outstanding \in Nat /\ Booked \in Nat
<1>1. Cardinality(Goes) \in Nat /\ (Cardinality(Goes) = 0 <=> Goes = {})
      BY GoesFinite DEF Goes, GoesOf, Shapes
<1>2. Len(searching) \in Nat /\ Len(fromEngine) \in Nat /\ stale \in Nat
      BY LenProperties DEF Shapes
<1>3. QED BY <1>1, <1>2 DEF Outstanding, Booked

\* The answer that is played is the question's of the game in progress.
LEMMA PlayedAsAsked ==
    ASSUME Shapes, NewestIsTheQuestion, NoneUnbooked, NEW old \in playing, NEW new \in playing',
           Played(old, new), fromEngine # <<>>
    PROVE  /\ Asks(Head(fromEngine), old) /\ Len(fromEngine) = 1
           /\ Head(fromEngine) \in Answer /\ Outstanding = 1
<1>1. /\ stale = 0 /\ old.thinking /\ Thinking
      BY DEF Played, Thinking
<1>2. Outstanding <= 1
      BY <1>1 DEF NoneUnbooked, Booked
<1>3. /\ Len(fromEngine) > 0 /\ Head(fromEngine) = fromEngine[1] /\ Head(fromEngine) \in Answer
      BY Taken DEF Shapes
<1>4. Len(fromEngine) = 1 /\ Cardinality(Goes) = 0 /\ Len(searching) = 0
  <2>1. \A a, b, c \in Nat : a + b + c <= 1 /\ c > 0 => a = 0 /\ b = 0 /\ c = 1
        OBVIOUS
  <2>2. Cardinality(Goes) + Len(searching) + Len(fromEngine) <= 1
        BY <1>2 DEF Outstanding
  <2>3. Cardinality(Goes) \in Nat /\ Len(searching) \in Nat /\ Len(fromEngine) \in Nat
        BY BooksTypes
  <2>4. QED BY <1>3, <2>1, <2>2, <2>3
<1>5. Goes = {} /\ searching = <<>>
      BY <1>4, BooksTypes, NoLines DEF Shapes
<1>6. Asks(fromEngine[Len(fromEngine)], old)
      BY <1>1, <1>5 DEF NewestIsTheQuestion
<1>7. QED BY <1>3, <1>4, <1>6 DEF Outstanding

\* The bridge hears the engine.
LEMMA EngineHeardCourse ==
    Shapes /\ Course /\ NewestIsTheQuestion /\ NoneUnbooked /\ HearsEngine => Course'
<1> SUFFICES ASSUME Shapes, Course, NewestIsTheQuestion, NoneUnbooked, HearsEngine PROVE Course'
    OBVIOUS
<1>1. /\ UNCHANGED <<table, toBridge, phase, collecting>> /\ phase = "in" /\ fromEngine # <<>>
      /\ Dropped \/ Settled \/ \E old \in playing, new \in playing' : Played(old, new)
      BY AnswerTaken
<1>2. CASE Dropped \/ Settled
      BY <1>1, <1>2, CourseFrame DEF Dropped, Settled
<1>3. CASE \E old \in playing, new \in playing' : Played(old, new)
  <2>1. PICK old \in playing, new \in playing' : Played(old, new)
        BY <1>3
  <2>2. /\ playing = {old} /\ playing' = {new} /\ old.thinking /\ ~new.thinking
        /\ new.game = old.game /\ new.ours = old.ours /\ new.ply = old.ply
        /\ toServer' = toServer \o <<Written(Head(fromEngine))>>
        /\ Head(fromEngine).word # "bare"
        BY <2>1 DEF Played
  <2>3. Asks(Head(fromEngine), old) /\ Head(fromEngine) \in Answer
        BY <1>1, <2>1, PlayedAsAsked
  <2> DEFINE written == Written(Head(fromEngine))
  <2>4. /\ written \in AnyLine /\ written.word # "AGREE"
        /\ written.game = old.game /\ written.ply = old.ply
        BY <2>2, <2>3, WrittenShape DEF Asks
  <2> HIDE DEF written
  <2>5. /\ toServer \in Seq(AnyLine) /\ Len(toServer) \in Nat
        /\ toServer' \in Seq(AnyLine) /\ Len(toServer') = Len(toServer) + 1
        /\ \A k \in 1..Len(toServer) : toServer'[k] = toServer[k]
        /\ toServer'[Len(toServer) + 1] = written
        BY <2>2, <2>4, Added, LenProperties DEF Shapes, written
  <2>6. Thinking /\ ~Thinking'
        BY <2>2 DEF Thinking
  <2>7. Behind'
    <3>1. SUFFICES ASSUME table.state # "playing" PROVE Behind'
          BY <1>1 DEF Behind
    <3>2. PICK n \in 0..Len(toBridge) :
            /\ \A k \in n+1..Len(toBridge) : toBridge[k].word \notin {"START", "move"}
            /\ Thinking => Stretch(n)
          BY <1>1, <3>1 DEF Course, Behind
    <3>3. n = 0
          BY <2>6, <3>2, StretchLength
    <3>4. QED BY <1>1, <2>6, <3>2, <3>3 DEF Behind
  <2>8. ~Seated
        BY <2>2 DEF Seated
  <2>9. Offering'
    <3>1. SUFFICES ASSUME table.state = "offered" PROVE Offering'
          BY <1>1 DEF Offering
    <3>2. \A k \in DOMAIN toServer : toServer[k].word # "AGREE"
          BY <2>8, <3>1 DEF Course, Offering
    <3>3. \A k \in DOMAIN toServer' : k \in DOMAIN toServer \/ k = Len(toServer) + 1
          BY <2>5, LenProperties
    <3>4. \A k \in DOMAIN toServer' : toServer'[k].word # "AGREE"
          BY <2>4, <2>5, <3>2, <3>3, LenProperties
    <3>5. QED BY <1>1, <3>1, <3>4 DEF Course, Offering
  <2>10. Agreed' /\ Handshake'
        BY <1>1, <2>8 DEF Course, Agreed, Handshake
  <2>11. Underway'
    <3>1. SUFFICES ASSUME table.state = "playing" PROVE Underway'
          BY <1>1 DEF Underway
    <3>2. /\ Stretch(Len(toBridge)) /\ ~collecting
          /\ old.game = table.game /\ old.ours = table.ours
          /\ table.ply = old.ply + Len(toBridge)
                           - (IF toBridge # <<>> /\ toBridge[1].word = "START" THEN 1 ELSE 0)
          /\ toServer # <<>> => ~old.thinking
          BY <3>1 DEF Course, Underway
    <3>3. Len(toBridge) = 0 /\ toServer = <<>> /\ OurTurn(old)
      <4>1. PICK n : n = Len(toBridge)
            OBVIOUS
      <4>2. n = 0 /\ OurTurn(old)
            BY <2>2, <3>2, <4>1 DEF Stretch
      <4>3. QED BY <2>2, <3>2, <4>1, <4>2
    <3>4. toBridge = <<>>
          BY <3>3, NoLines DEF Shapes
    <3>5. table.ply = old.ply
          BY <3>2, <3>3, <3>4, GameShape
    <3>6. Stretch(0)'
          BY <2>2 DEF Stretch
    <3>7. Stretch(Len(toBridge))'
          BY <1>1, <3>3, <3>6
    <3>8. OurTurn(table) /\ Len(toServer) = 0
          BY <2>5, <3>2, <3>3, <3>5, NoLines DEF OurTurn
    <3>9. /\ Len(toServer') = 1 /\ toServer'[1].game = table.game
          /\ toServer'[1].ply = table.ply
          BY <2>4, <2>5, <3>2, <3>5, <3>8
    <3>10. \A game \in playing' : game = new
          BY <2>2
    <3>11. QED BY <1>1, <2>2, <3>2, <3>4, <3>7, <3>8, <3>9, <3>10 DEF Underway, OurTurn
  <2>12. QED BY <2>7, <2>9, <2>10, <2>11 DEF Course
<1>4. QED BY <1>1, <1>2, <1>3

LEMMA InitCourse == Init => Shapes /\ Course /\ NewestIsTheQuestion
<1> SUFFICES ASSUME Init PROVE Shapes /\ Course /\ NewestIsTheQuestion
    OBVIOUS
<1>1. toBridge = <<>> /\ Len(toBridge) = 0 /\ toServer = <<>> /\ playing = {} /\ table.state = "login"
      BY DEF Init
<1>2. ~Thinking
      BY <1>1 DEF Thinking
<1>3. Shapes
  <2>1. /\ <<>> \in Seq(AnyLine) /\ <<>> \in Seq(Answer)
        BY EmptySeq
  <2>2. table \in [state : {"login", "idle", "offered", "agreed", "playing", "gone"},
                   game : Nat, ply : Nat, ours : {0, 1}]
        BY DEF Init
  <2>3. QED BY <2>1, <2>2 DEF Init, Shapes
<1>4. Course
      BY <1>1, <1>2 DEF Course, Behind, Offering, Agreed, Underway, Handshake
<1>5. QED BY <1>1, <1>3, <1>4 DEF NewestIsTheQuestion

\* A question joins the books on both sides.
LEMMA BooksAsked ==
    ASSUME Shapes, NEW old \in playing, NEW new \in playing', playing = {old}, playing' = {new},
           ~old.thinking, new.thinking, new.game \in Nat, new.ply \in Nat,
           toEngine' = toEngine \o <<Line("go", new.game, new.ply)>>,
           UNCHANGED <<stale, searching, fromEngine>>
    PROVE  /\ Outstanding' = Outstanding + 1 /\ Booked' = Booked + 1
           /\ NewestIsTheQuestion'
<1> DEFINE go == Line("go", new.game, new.ply)
<1>1. "go" \in Words
      BY DEF Words
<1>2. go \in AnyLine /\ go.word = "go" /\ Asks(go, new)
      BY <1>1, LineShape DEF Asks
<1> HIDE DEF go
<1>3. toEngine' = toEngine \o <<go>> /\ toEngine \in Seq(AnyLine) /\ Len(toEngine) \in Nat
      BY LenProperties DEF go, Shapes
<1>4. PICK Old : Old = Goes
      OBVIOUS
<1>5. PICK New : New = Goes'
      OBVIOUS
<1>6. /\ New = Old \cup {Len(toEngine) + 1}
      /\ Cardinality(New) = Cardinality(Old) + 1
  <2>1. Old = GoesOf(toEngine) /\ New = GoesOf(toEngine \o <<go>>)
        BY <1>3, <1>4, <1>5 DEF Goes, GoesOf
  <2>2. QED BY <1>2, <1>3, <2>1, GoesAdded
<1>7. ~Thinking /\ Thinking'
      BY DEF Thinking
<1>8. Outstanding' = Outstanding + 1
      BY <1>4, <1>5, <1>6, BooksTypes DEF Outstanding
<1>9. Booked' = Booked + 1
      BY <1>7, BooksTypes DEF Booked
<1>10. NewestIsTheQuestion'
  <2>1. Goes' # {} /\ Len(toEngine) + 1 \in Goes'
        BY <1>5, <1>6
  <2>2. \A k \in Goes' : (\A j \in Goes' : j <= k) => k = Len(toEngine) + 1
    <3> SUFFICES ASSUME NEW k \in Goes', \A j \in Goes' : j <= k PROVE k = Len(toEngine) + 1
        OBVIOUS
    <3>1. k \in 1..Len(toEngine) + 1
          BY <1>3, <1>4, <1>5, <1>6, LenProperties DEF Goes
    <3>2. QED BY <1>3, <2>1, <3>1
  <2>3. toEngine'[Len(toEngine) + 1] = go
        BY <1>2, <1>3, Added
  <2>4. \A k \in Goes' : (\A j \in Goes' : j <= k) => Asks(toEngine'[k], new)
        BY <1>2, <2>2, <2>3
  <2>5. QED BY <2>1, <2>4 DEF NewestIsTheQuestion, Asks
<1>11. QED BY <1>8, <1>9, <1>10

\* The bridge hears the server: a game that ends in a search leaves its answer owed.
LEMMA ServerHeardBooks ==
    ASSUME Shapes, Course, NewestIsTheQuestion, HearsServer
    PROVE  /\ NewestIsTheQuestion'
           /\ \E d \in {0, 1} : Outstanding' = Outstanding + d /\ Booked' = Booked + d
<1> DEFINE line == Head(toBridge)
<1>1. /\ toBridge # <<>> /\ phase = "in" /\ UNCHANGED <<table, fromEngine, searching>>
      /\ toBridge \in Seq(AnyLine) /\ Len(toBridge) \in Nat /\ Len(toBridge) > 0
      /\ line = toBridge[1]
      BY Taken, LenProperties DEF HearsServer, engineVars, Shapes
<1>2. Outstanding \in Nat /\ Booked \in Nat
      BY BooksTypes
<1>3. PICK n \in 0..Len(toBridge) :
        /\ n > 0 \/ Thinking => Stretch(n) /\ ~collecting
        /\ n = 0 => toBridge[1].word \notin {"START", "move"}
        /\ Thinking => toBridge[1].word \in {"over", "closed"}
  <2>1. CASE table.state = "playing"
    <3>1. PICK n \in Nat : n = Len(toBridge)
          BY <1>1
    <3>2. Stretch(n) /\ ~collecting /\ n > 0
          BY <1>1, <2>1, <3>1 DEF Course, Underway
    <3>3. ~Thinking
          BY <3>2, StretchLength
    <3>4. QED BY <1>1, <3>1, <3>2, <3>3
  <2>2. CASE table.state # "playing"
    <3>1. PICK n \in 0..Len(toBridge) :
            /\ \A k \in n+1..Len(toBridge) : toBridge[k].word \notin {"START", "move"}
            /\ Thinking \/ n > 0 =>
                 /\ Stretch(n) /\ ~collecting
                 /\ n < Len(toBridge) /\ toBridge[n+1].word \in {"over", "closed"}
          BY <1>1, <2>2 DEF Course, Behind
    <3>2. Thinking => n = 0
          BY <3>1, StretchLength
    <3>3. n = 0 => toBridge[1].word \notin {"START", "move"}
          BY <1>1, <3>1
    <3>4. QED BY <3>1, <3>2, <3>3
  <2>3. QED BY <2>1, <2>2
<1>4. CASE n > 0
  <2>1. /\ UNCHANGED <<stale, fromEngine, searching>>
        /\ \E old \in playing, new \in playing' : StretchHeard(n, old, new)
        BY <1>1, <1>3, <1>4, StretchTaken
  <2>2. PICK old \in playing, new \in playing' : StretchHeard(n, old, new)
        BY <2>1
  <2>3. /\ playing = {old} /\ playing' = {new} /\ ~old.thinking
        /\ new.game = old.game
        /\ new.ply = old.ply + (IF toBridge[1].word = "START" THEN 0 ELSE 1)
        /\ \/ new.thinking /\ toEngine' = toEngine \o <<Line("go", new.game, new.ply)>>
           \/ ~new.thinking /\ toEngine' = toEngine
        BY <2>2 DEF StretchHeard
  <2>4. new.game \in Nat /\ new.ply \in Nat
        BY <2>3, GameShape
  <2>5. CASE new.thinking
    <3>1. toEngine' = toEngine \o <<Line("go", new.game, new.ply)>>
          BY <2>3, <2>5
    <3>2. Outstanding' = Outstanding + 1 /\ Booked' = Booked + 1 /\ NewestIsTheQuestion'
          BY <2>1, <2>3, <2>4, <2>5, <3>1, BooksAsked
    <3>3. QED BY <3>2
  <2>6. CASE ~new.thinking
    <3>1. toEngine' = toEngine
          BY <2>3, <2>6
    <3>2. ~Thinking /\ ~Thinking'
          BY <2>3, <2>6 DEF Thinking
    <3>3. Outstanding' = Outstanding /\ Booked' = Booked
          BY <2>1, <3>1, <3>2 DEF Outstanding, Booked, Goes
    <3>4. NewestIsTheQuestion'
          BY <3>2 DEF NewestIsTheQuestion, Thinking
    <3>5. QED BY <1>2, <3>3, <3>4
  <2>7. QED BY <2>5, <2>6
<1>5. CASE n = 0
  <2>1. line.word \notin {"START", "move"}
        BY <1>1, <1>3, <1>5
  <2>2. CASE ~collecting /\ line.word = "over"
    <3>1. Over
          BY <2>2 DEF HearsServer
    <3>2. playing' = {} /\ ~Thinking'
          BY <3>1 DEF Over, Thinking
    <3>3. /\ Goes' = Goes /\ stale' = stale + (IF Thinking THEN 1 ELSE 0)
      <4>1. CASE playing = {}
            BY <3>1, <4>1, BooksTypes DEF Over, Thinking, Goes
      <4>2. CASE playing # {}
        <5>1. PICK game \in playing : stale' = stale + Owed(game) /\ Tell(LastWords(game))
              BY <3>1, <4>2 DEF Over
        <5>2. Thinking <=> game.thinking
              BY GameShape DEF Thinking
        <5>3. "stop" \in Words /\ "gameover" \in Words /\ 0 \in Nat
              BY DEF Words
        <5>4. /\ Word("stop") \in AnyLine /\ Word("stop").word = "stop"
              /\ Word("gameover") \in AnyLine /\ Word("gameover").word = "gameover"
              BY <5>3, LineShape
        <5>5. toEngine \in Seq(AnyLine)
              BY DEF Shapes
        <5>6. Goes' = Goes
          <6>1. CASE game.thinking
            <7>1. toEngine' = toEngine \o <<Word("stop"), Word("gameover")>>
                  BY <5>1, <6>1 DEF Tell, LastWords
            <7>2. QED BY <5>4, <5>5, <7>1, GoesAddedTwo DEF Goes, GoesOf
          <6>2. CASE ~game.thinking
            <7>1. toEngine' = toEngine \o <<Word("gameover")>>
                  BY <5>1, <6>2 DEF Tell, LastWords
            <7>2. QED BY <5>4, <5>5, <7>1, GoesAdded DEF Goes, GoesOf
          <6>3. QED BY <6>1, <6>2
        <5>7. QED BY <5>1, <5>2, <5>6 DEF Owed
      <4>3. QED BY <4>1, <4>2
    <3>4. Outstanding' = Outstanding
          BY <1>1, <3>3 DEF Outstanding
    <3>5. Booked' = Booked
          BY <3>2, <3>3, BooksTypes DEF Booked
    <3>6. NewestIsTheQuestion'
          BY <3>2 DEF NewestIsTheQuestion
    <3>7. QED BY <1>2, <3>4, <3>5, <3>6
  <2>3. CASE ~(~collecting /\ line.word = "over")
    <3>1. UNCHANGED <<stale, toEngine>>
          BY <2>1, <2>3 DEF HearsServer, Offered, End
    <3>2. playing' = playing \/ (~Thinking /\ ~Thinking')
      <4>1. CASE collecting /\ line.word = "END"
        <5>1. playing' = {[game |-> line.game, ours |-> line.ply, ply |-> 0, thinking |-> FALSE]}
              BY <4>1 DEF HearsServer, Offered
        <5>2. ~Thinking'
              BY <5>1 DEF Thinking
        <5>3. QED BY <1>3, <4>1, <5>2
      <4>2. CASE ~collecting /\ line.word = "REJECT"
        <5>1. playing' = {}
              BY <4>2 DEF HearsServer
        <5>2. QED BY <1>1, <1>3, <4>2, <5>1 DEF Thinking
      <4>3. CASE ~(collecting /\ line.word = "END") /\ ~(~collecting /\ line.word = "REJECT")
            BY <2>1, <2>3, <4>3 DEF HearsServer, End
      <4>4. QED BY <4>1, <4>2, <4>3
    <3>3. CASE playing' = playing
          BY <1>1, <1>2, <3>1, <3>3, BooksFrame
    <3>4. CASE ~Thinking /\ ~Thinking'
      <4>1. Outstanding' = Outstanding /\ Booked' = Booked
            BY <1>1, <3>1, <3>4 DEF Outstanding, Booked, Goes
      <4>2. NewestIsTheQuestion'
            BY <3>4 DEF NewestIsTheQuestion, Thinking
      <4>3. QED BY <1>2, <4>1, <4>2
    <3>5. QED BY <3>2, <3>3, <3>4
  <2>4. QED BY <2>2, <2>3
<1>6. QED BY <1>3, <1>4, <1>5

\* The bridge hears the engine: one answer fewer on both sides, unless it is bare.
LEMMA EngineHeardBooks ==
    ASSUME Shapes, NewestIsTheQuestion, NoneUnbooked, HearsEngine
    PROVE  /\ NewestIsTheQuestion' /\ Outstanding' = Outstanding - 1 /\ Outstanding > 0
           /\ Booked' = Booked - 1 \/ (Booked' = Booked /\ Head(fromEngine).word = "bare")
<1>1. /\ UNCHANGED <<toEngine, searching>> /\ fromEngine # <<>> /\ fromEngine' = Tail(fromEngine)
      /\ Dropped \/ Settled \/ \E old \in playing, new \in playing' : Played(old, new)
      BY AnswerTaken
<1>2. /\ fromEngine \in Seq(Answer) /\ Len(fromEngine) \in Nat /\ Len(fromEngine) > 0
      /\ fromEngine' \in Seq(Answer) /\ Len(fromEngine') = Len(fromEngine) - 1
      /\ \A k \in 1..Len(fromEngine) - 1 : fromEngine'[k] = fromEngine[k + 1]
      BY <1>1, Taken DEF Shapes
<1>3. Goes' = Goes
      BY <1>1 DEF Goes
<1>4. Outstanding' = Outstanding - 1 /\ Outstanding > 0
      BY <1>1, <1>2, <1>3, BooksTypes DEF Outstanding
<1>5. Booked \in Nat /\ stale \in Nat
      BY BooksTypes
<1>6. playing' = playing => NewestIsTheQuestion'
  <2> SUFFICES ASSUME playing' = playing, NEW game \in playing, game.thinking
               PROVE  /\ \A k \in Goes' : (\A j \in Goes' : j <= k) => Asks(toEngine'[k], game)
                      /\ Goes' = {} /\ searching' # <<>>
                           => Asks(searching'[Len(searching')], game)
                      /\ Goes' = {} /\ searching' = <<>> /\ fromEngine' # <<>>
                           => Asks(fromEngine'[Len(fromEngine')], game)
      BY DEF NewestIsTheQuestion, Asks
  <2>1. ASSUME fromEngine' # <<>> PROVE fromEngine'[Len(fromEngine')] = fromEngine[Len(fromEngine)]
    <3>1. Len(fromEngine') > 0
          BY <1>2, <2>1, NoLines
    <3>2. QED BY <1>2, <3>1
  <2>2. QED BY <1>1, <1>3, <2>1 DEF NewestIsTheQuestion
<1>7. CASE Dropped
  <2>1. UNCHANGED <<playing, stale, toServer>>
        BY <1>7 DEF Dropped
  <2>2. Booked' = Booked
        BY <2>1 DEF Booked, Thinking
  <2>3. Head(fromEngine).word = "bare"
    <3>1. SUFFICES ASSUME stale = 0, ~Thinking PROVE FALSE
          BY <1>7 DEF Dropped
    <3>2. Booked = 0
          BY <3>1 DEF Booked
    <3>3. QED BY <1>4, <3>2, BooksTypes DEF NoneUnbooked
  <2>4. QED BY <1>4, <1>6, <2>1, <2>2, <2>3
<1>8. CASE Settled
  <2>1. UNCHANGED playing /\ stale > 0 /\ stale' = stale - 1
        BY <1>8 DEF Settled
  <2>2. Thinking' = Thinking
        BY <2>1 DEF Thinking
  <2>3. Booked' = Booked - 1
        BY <1>5, <2>1, <2>2 DEF Booked
  <2>4. QED BY <1>4, <1>6, <2>1, <2>3
<1>9. CASE \E old \in playing, new \in playing' : Played(old, new)
  <2>1. PICK old \in playing, new \in playing' : Played(old, new)
        BY <1>9
  <2>2. playing' = {new} /\ old.thinking /\ ~new.thinking /\ stale' = stale
        BY <2>1 DEF Played
  <2>3. Thinking /\ ~Thinking'
        BY <2>2 DEF Thinking
  <2>4. Booked' = Booked - 1
        BY <1>5, <2>2, <2>3 DEF Booked
  <2>5. NewestIsTheQuestion'
        BY <2>3 DEF NewestIsTheQuestion, Thinking
  <2>6. QED BY <1>4, <2>4, <2>5
<1>10. QED BY <1>1, <1>7, <1>8, <1>9

\* A go the engine reads is a go it searches.
LEMMA ReadBooks ==
    ASSUME Shapes, NewestIsTheQuestion, ReadsLine
    PROVE  Outstanding' = Outstanding /\ Booked' = Booked /\ NewestIsTheQuestion'
<1> DEFINE line == Head(toEngine)
<1>1. /\ toEngine # <<>> /\ toEngine' = Tail(toEngine)
      /\ searching' = IF line.word = "go" THEN Append(searching, line) ELSE searching
      /\ UNCHANGED <<playing, stale, fromEngine>>
      BY DEF ReadsLine, bridgeVars
<1>2. /\ toEngine \in Seq(AnyLine) /\ Len(toEngine) \in Nat /\ Len(toEngine) > 0
      /\ line = toEngine[1] /\ line \in AnyLine
      /\ toEngine' \in Seq(AnyLine) /\ Len(toEngine') = Len(toEngine) - 1
      /\ \A k \in 1..Len(toEngine) - 1 : toEngine'[k] = toEngine[k + 1]
      BY <1>1, Taken DEF Shapes
<1>3. Goes = GoesOf(toEngine) /\ Goes' = GoesOf(Tail(toEngine))
      BY <1>1 DEF Goes, GoesOf
<1>4. PICK Old : Old = Goes
      OBVIOUS
<1>5. PICK New : New = Goes'
      OBVIOUS
<1>6. /\ \A k \in New : k \in 1..Len(toEngine) - 1 /\ k + 1 \in Old
      /\ \A k \in Old : k \in 1..Len(toEngine) /\ (k # 1 => k - 1 \in New)
      /\ line.word = "go" => 1 \in Old /\ Cardinality(Old) = Cardinality(New) + 1
      /\ line.word # "go" => 1 \notin Old /\ Cardinality(Old) = Cardinality(New)
      BY <1>1, <1>2, <1>3, <1>4, <1>5, GoesTaken
<1>7. Booked' = Booked
      BY <1>1 DEF Booked, Thinking
<1>8. \A k \in New : k \in 1..Len(toEngine) - 1 /\ k + 1 \in Old /\ toEngine'[k] = toEngine[k + 1]
      BY <1>2, <1>6
<1>9. \A k \in Old : k \in 1..Len(toEngine) /\ (k # 1 => k - 1 \in New)
      BY <1>6
<1>10. ASSUME NEW game \in playing, game.thinking, NEW k \in New, \A j \in New : j <= k
       PROVE  Asks(toEngine'[k], game)
  <2>1. \A j \in Old : j <= k + 1
    <3> TAKE j \in Old
    <3>1. CASE j = 1
          BY <1>8, <3>1
    <3>2. CASE j # 1
      <4>1. j - 1 <= k /\ j \in Int /\ k \in Int
            BY <1>2, <1>8, <1>9, <1>10, <3>2
      <4>2. QED BY <4>1
    <3>3. QED BY <3>1, <3>2
  <2>2. k + 1 \in Goes /\ (\A j \in Goes : j <= k + 1)
        BY <1>4, <1>8, <2>1
  <2>3. Asks(toEngine[k + 1], game)
        BY <1>10, <2>2 DEF NewestIsTheQuestion
  <2>4. QED BY <1>8, <2>3
<1>11. CASE line.word = "go"
  <2>1. /\ searching' = Append(searching, line) /\ searching \in Seq(AnyLine)
        /\ Len(searching) \in Nat
        BY <1>1, <1>11, LenProperties DEF Shapes
  <2>2. /\ Len(searching') = Len(searching) + 1 /\ searching' # <<>>
        /\ searching'[Len(searching')] = line
        BY <1>2, <2>1, AppendProperties
  <2>3. Outstanding' = Outstanding
    <3>1. Cardinality(Goes) = Cardinality(Goes') + 1
          BY <1>4, <1>5, <1>6, <1>11
    <3>2. Cardinality(Goes') \in Nat
          BY <1>2, <1>3, <1>1, GoesFinite
    <3>3. Len(fromEngine) \in Nat
          BY BooksTypes
    <3>4. \A a, b, c \in Nat : (a + 1) + b + c = a + (b + 1) + c
          OBVIOUS
    <3>5. /\ Len(searching') = Len(searching) + 1 /\ Len(fromEngine') = Len(fromEngine)
          BY <1>1, <2>2
    <3>6. QED BY <2>1, <3>1, <3>2, <3>3, <3>4, <3>5 DEF Outstanding
  <2>4. ASSUME NEW game \in playing, game.thinking, New = {} PROVE Asks(line, game)
    <3>1. \A j \in Goes : j = 1
          BY <1>4, <1>9, <2>4
    <3>2. 1 \in Goes /\ \A j \in Goes : j <= 1
          BY <1>4, <1>6, <1>11, <3>1
    <3>3. QED BY <1>2, <2>4, <3>2 DEF NewestIsTheQuestion
  <2>5. NewestIsTheQuestion'
    <3>1. ASSUME NEW game \in playing', game.thinking
          PROVE  /\ \A k \in Goes' : (\A j \in Goes' : j <= k) => Asks(toEngine'[k], game)
                 /\ Goes' = {} => Asks(searching'[Len(searching')], game)
      <4>1. game \in playing
            BY <1>1, <3>1
      <4>2. QED BY <1>5, <1>10, <2>2, <2>4, <3>1, <4>1
    <3>2. QED BY <3>1, <2>2 DEF NewestIsTheQuestion, Asks
  <2>6. QED BY <1>7, <2>3, <2>5
<1>12. CASE line.word # "go"
  <2>1. searching' = searching
        BY <1>1, <1>12
  <2>2. Outstanding' = Outstanding
        BY <1>1, <1>4, <1>5, <1>6, <1>12, <2>1 DEF Outstanding
  <2>3. New = {} => Old = {}
        BY <1>6, <1>9, <1>12
  <2>4. NewestIsTheQuestion'
    <3>1. ASSUME NEW game \in playing', game.thinking
          PROVE  /\ \A k \in Goes' : (\A j \in Goes' : j <= k) => Asks(toEngine'[k], game)
                 /\ Goes' = {} /\ searching' # <<>> => Asks(searching'[Len(searching')], game)
                 /\ Goes' = {} /\ searching' = <<>> /\ fromEngine' # <<>>
                      => Asks(fromEngine'[Len(fromEngine')], game)
      <4>1. game \in playing /\ (Goes' = {} => Goes = {})
            BY <1>1, <1>4, <1>5, <2>3, <3>1
      <4>2. \A k \in Goes' : (\A j \in Goes' : j <= k) => Asks(toEngine'[k], game)
            BY <1>5, <1>10, <3>1, <4>1
      <4>3. /\ Goes = {} /\ searching # <<>> => Asks(searching[Len(searching)], game)
            /\ Goes = {} /\ searching = <<>> /\ fromEngine # <<>>
                 => Asks(fromEngine[Len(fromEngine)], game)
            BY <3>1, <4>1 DEF NewestIsTheQuestion
      <4>4. QED BY <1>1, <2>1, <4>1, <4>2, <4>3
    <3>2. QED BY <3>1 DEF NewestIsTheQuestion, Asks
  <2>5. QED BY <1>7, <2>2, <2>4
<1>13. QED BY <1>11, <1>12

\* A go the engine answers is an answer on its way.
LEMMA AnsweredBooks ==
    ASSUME Shapes, NewestIsTheQuestion, Answers
    PROVE  /\ Outstanding' = Outstanding /\ Booked' = Booked /\ NewestIsTheQuestion'
           /\ \E answer \in Answer : /\ fromEngine' = Append(fromEngine, answer)
                                     /\ ~MayAnswerBare => answer.word # "bare"
<1>1. /\ searching # <<>> /\ searching' = Tail(searching)
      /\ UNCHANGED <<playing, stale, toEngine>>
      BY DEF Answers, bridgeVars
<1>2. PICK word \in {"bestmove", "resign", "win"} \cup (IF MayAnswerBare THEN {"bare"} ELSE {}) :
         fromEngine' = Append(fromEngine, [Head(searching) EXCEPT !.word = word])
      BY DEF Answers
<1>3. /\ searching \in Seq(AnyLine) /\ Len(searching) \in Nat /\ Len(searching) > 0
      /\ Head(searching) = searching[1] /\ Head(searching) \in AnyLine
      /\ searching' \in Seq(AnyLine) /\ Len(searching') = Len(searching) - 1
      /\ \A k \in 1..Len(searching) - 1 : searching'[k] = searching[k + 1]
      BY <1>1, Taken DEF Shapes
<1> DEFINE answer == [Head(searching) EXCEPT !.word = word]
<1>4. /\ answer \in Answer /\ answer.game = Head(searching).game
      /\ answer.ply = Head(searching).ply /\ answer.word = word
  <2>1. word \in {"bestmove", "resign", "win", "bare"}
        BY <1>2
  <2>2. QED BY <1>3, <2>1 DEF AnyLine, Answer
<1> HIDE DEF answer
<1>5. fromEngine' = Append(fromEngine, answer)
      BY <1>2 DEF answer
<1>6. /\ fromEngine \in Seq(Answer) /\ Len(fromEngine) \in Nat
      /\ Len(fromEngine') = Len(fromEngine) + 1 /\ fromEngine' # <<>>
      /\ fromEngine'[Len(fromEngine')] = answer
      BY <1>4, <1>5, AppendProperties, LenProperties DEF Shapes
<1>7. Goes' = Goes /\ Thinking' = Thinking
      BY <1>1 DEF Goes, Thinking
<1>8. Booked' = Booked
      BY <1>1, <1>7 DEF Booked
<1>9. Outstanding' = Outstanding
      BY <1>3, <1>6, <1>7, BooksTypes DEF Outstanding
<1>10. searching' # <<>> => searching'[Len(searching')] = searching[Len(searching)]
  <2> SUFFICES ASSUME searching' # <<>>
               PROVE  searching'[Len(searching')] = searching[Len(searching)]
      OBVIOUS
  <2>1. Len(searching') # 0
        BY <1>3, NoLines
  <2>2. Len(searching') \in 1..Len(searching) - 1 /\ Len(searching') + 1 = Len(searching)
        BY <1>3, <2>1
  <2>3. QED BY <1>3, <2>2
<1>11. searching' = <<>> => Head(searching) = searching[Len(searching)]
  <2> SUFFICES ASSUME searching' = <<>> PROVE Head(searching) = searching[Len(searching)]
      OBVIOUS
  <2>1. Len(searching') = 0
        OBVIOUS
  <2>2. Len(searching) = 1
        BY <1>3, <2>1
  <2>3. QED BY <1>3, <2>2
<1>12. NewestIsTheQuestion'
      BY <1>1, <1>4, <1>6, <1>7, <1>10, <1>11 DEF NewestIsTheQuestion, Asks
<1>13. ~MayAnswerBare => answer.word # "bare"
      BY <1>2, <1>4
<1>14. QED BY <1>4, <1>5, <1>8, <1>9, <1>12, <1>13

-----------------------------------------------------------------------------
(* The theorems. *)

\* No bare bestmove is on its way when the engine makes none.
NoneBare == ~MayAnswerBare => \A k \in DOMAIN fromEngine : fromEngine[k].word # "bare"

LEMMA NextNoneBare == Shapes /\ NewestIsTheQuestion /\ NoneBare /\ [Next]_vars => NoneBare'
<1> SUFFICES ASSUME Shapes, NewestIsTheQuestion, NoneBare, [Next]_vars, ~MayAnswerBare
             PROVE  \A k \in DOMAIN fromEngine' : fromEngine'[k].word # "bare"
    BY DEF NoneBare
<1>1. /\ fromEngine \in Seq(Answer) /\ Len(fromEngine) \in Nat
      /\ \A k \in 1..Len(fromEngine) : fromEngine[k].word # "bare"
      BY LenProperties DEF NoneBare, Shapes
<1>2. CASE fromEngine' = fromEngine
      BY <1>1, <1>2, LenProperties
<1>3. CASE HearsEngine
  <2>1. fromEngine # <<>> /\ fromEngine' = Tail(fromEngine)
        BY <1>3 DEF HearsEngine
  <2>2. /\ fromEngine' \in Seq(Answer) /\ Len(fromEngine') = Len(fromEngine) - 1
        /\ \A k \in 1..Len(fromEngine) - 1 : fromEngine'[k] = fromEngine[k + 1]
        BY <1>1, <2>1, Taken
  <2>3. \A k \in DOMAIN fromEngine' : k + 1 \in 1..Len(fromEngine)
                                      /\ fromEngine'[k] = fromEngine[k + 1]
        BY <1>1, <2>2, LenProperties
  <2>4. QED BY <1>1, <2>3
<1>4. CASE Answers
  <2>1. PICK answer \in Answer : fromEngine' = Append(fromEngine, answer) /\ answer.word # "bare"
        BY <1>4, AnsweredBooks
  <2>2. /\ fromEngine' \in Seq(Answer) /\ Len(fromEngine') = Len(fromEngine) + 1
        /\ \A k \in 1..Len(fromEngine) : fromEngine'[k] = fromEngine[k]
        /\ fromEngine'[Len(fromEngine) + 1] = answer
        BY <1>1, <2>1, AppendProperties
  <2>3. \A k \in DOMAIN fromEngine' : k \in 1..Len(fromEngine) \/ k = Len(fromEngine) + 1
        BY <1>1, <2>2, LenProperties
  <2>4. QED BY <1>1, <2>1, <2>2, <2>3
<1>5. CASE Server \/ Identified \/ LogsIn \/ HandshakeFails \/ HearsServer \/ AsksToStop
           \/ Quits \/ ReadsLine \/ Dies \/ UNCHANGED vars
      BY <1>2, <1>5 DEF Server, AnswersLogin, Offers, Starts, Rejects, OpponentMoves, EndsGame,
             HearsClient, HangsUp, Identified, LogsIn, HandshakeFails, HearsServer, AsksToStop,
             Quits, ReadsLine, Dies, vars
<1>6. QED BY <1>3, <1>4, <1>5 DEF Next, TheBridge, TheEngine

\* A step that neither hears an answer leaves the difference of the books as it was.
LEMMA NextBooks ==
    ASSUME Shapes, Course, NewestIsTheQuestion, NoneUnbooked, [Next]_vars
    PROVE  /\ NewestIsTheQuestion'
           /\ \/ \E d \in {0, 1} : Outstanding' = Outstanding + d /\ Booked' = Booked + d
              \/ Outstanding' = Outstanding - 1 /\ Outstanding > 0 /\ Booked' = Booked - 1
              \/ /\ Outstanding' = Outstanding - 1 /\ Outstanding > 0 /\ Booked' = Booked
                 /\ fromEngine # <<>> /\ Head(fromEngine).word = "bare"
<1>0. Outstanding \in Nat /\ Booked \in Nat
      BY BooksTypes
<1>1. CASE UNCHANGED <<playing, stale, toEngine, searching, fromEngine>>
      BY <1>0, <1>1, BooksFrame
<1>2. CASE HearsServer
      BY <1>2, ServerHeardBooks
<1>3. CASE HearsEngine
  <2>1. fromEngine # <<>>
        BY <1>3 DEF HearsEngine
  <2>2. QED BY <1>3, <2>1, EngineHeardBooks
<1>4. CASE ReadsLine
      BY <1>0, <1>4, ReadBooks
<1>5. CASE Answers
      BY <1>0, <1>5, AnsweredBooks
<1>6. CASE Quits
  <2>1. /\ toEngine' = toEngine \o <<Word("quit")>> /\ toEngine \in Seq(AnyLine)
        /\ UNCHANGED <<playing, stale, searching, fromEngine>>
        BY <1>6 DEF Quits, Tell, Shapes, engineVars
  <2>2. "quit" \in Words /\ 0 \in Nat
        BY DEF Words
  <2>3. Word("quit") \in AnyLine /\ Word("quit").word = "quit"
        BY <2>2, LineShape
  <2>4. Goes' = Goes
        BY <2>1, <2>3, GoesAdded DEF Goes, GoesOf
  <2>5. \A k \in Goes : toEngine'[k] = toEngine[k]
    <3>1. \A k \in Goes : k \in 1..Len(toEngine)
          BY <2>1, LenProperties DEF Goes
    <3>2. QED BY <2>1, <2>3, <3>1, Added
  <2>6. NewestIsTheQuestion'
    <3>1. ASSUME NEW game \in playing', game.thinking
          PROVE  /\ \A k \in Goes' : (\A j \in Goes' : j <= k) => Asks(toEngine'[k], game)
                 /\ Goes' = {} /\ searching' # <<>> => Asks(searching'[Len(searching')], game)
                 /\ Goes' = {} /\ searching' = <<>> /\ fromEngine' # <<>>
                      => Asks(fromEngine'[Len(fromEngine')], game)
      <4>1. game \in playing
            BY <2>1, <3>1
      <4>2. /\ \A k \in Goes : (\A j \in Goes : j <= k) => Asks(toEngine[k], game)
            /\ Goes = {} /\ searching # <<>> => Asks(searching[Len(searching)], game)
            /\ Goes = {} /\ searching = <<>> /\ fromEngine # <<>>
                 => Asks(fromEngine[Len(fromEngine)], game)
            BY <3>1, <4>1 DEF NewestIsTheQuestion
      <4>3. searching' = searching /\ fromEngine' = fromEngine
            BY <2>1
      <4>4. \A k \in Goes' : (\A j \in Goes' : j <= k) => Asks(toEngine'[k], game)
            BY <2>4, <2>5, <4>2
      <4>5. QED BY <2>4, <4>2, <4>3, <4>4
    <3>2. QED BY <3>1 DEF NewestIsTheQuestion, Asks
  <2>7. Outstanding' = Outstanding /\ Booked' = Booked
        BY <2>1, <2>4 DEF Outstanding, Booked, Thinking
  <2>8. QED BY <1>0, <2>6, <2>7
<1>7. CASE Server \/ Identified \/ LogsIn \/ HandshakeFails \/ AsksToStop \/ Dies
           \/ UNCHANGED vars
      BY <1>1, <1>7 DEF Server, AnswersLogin, Offers, Starts, Rejects, OpponentMoves, EndsGame,
             HearsClient, HangsUp, Identified, LogsIn, HandshakeFails, AsksToStop, Dies, End,
             vars, bridgeVars, engineVars
<1>8. QED BY <1>2, <1>3, <1>4, <1>5, <1>6, <1>7 DEF Next, TheBridge, TheEngine

LEMMA NextCourse ==
    Shapes /\ Course /\ NewestIsTheQuestion /\ NoneUnbooked /\ [Next]_vars => Course'
<1> SUFFICES ASSUME Shapes, Course, NewestIsTheQuestion, NoneUnbooked, [Next]_vars PROVE Course'
    OBVIOUS
<1>1. CASE Server
      BY <1>1, ServerCourse
<1>2. CASE HearsServer
      BY <1>2, ServerHeardCourse
<1>3. CASE HearsEngine
      BY <1>3, EngineHeardCourse
<1>4. CASE HandshakeFails \/ AsksToStop \/ Quits \/ ReadsLine \/ Answers \/ Dies \/ UNCHANGED vars
  <2>1. /\ UNCHANGED <<table, toBridge, toServer, collecting, playing>>
        /\ phase' \in {phase, "ended"}
        BY <1>4 DEF HandshakeFails, AsksToStop, Quits, ReadsLine, Answers, Dies, End, vars,
                    serverVars, bridgeVars
  <2>2. QED BY <2>1, CourseFrame
<1>5. CASE Identified \/ LogsIn
  <2>1. /\ phase \in {"usi", "isready"} /\ phase' \in {"isready", "in"}
        /\ UNCHANGED <<table, toBridge, collecting, playing>>
        /\ phase' = "isready" => toServer' = toServer
        BY <1>5 DEF Identified, LogsIn, serverVars
  <2>2. table.state = "login" /\ toServer = <<>> /\ toBridge = <<>> /\ playing = {}
        BY <2>1 DEF Course, Handshake
  <2>3. Len(toBridge) = 0 /\ ~Thinking'
        BY <2>1, <2>2 DEF Thinking
  <2>4. Behind'
        BY <2>1, <2>2, <2>3 DEF Behind
  <2>5. Offering' /\ Agreed' /\ Underway' /\ Handshake'
        BY <2>1, <2>2 DEF Offering, Agreed, Underway, Handshake
  <2>6. QED BY <2>4, <2>5 DEF Course
<1>6. QED BY <1>1, <1>2, <1>3, <1>4, <1>5 DEF Next, TheBridge, TheEngine

LEMMA InitBooks == Init => Outstanding = 0 /\ Booked = 0
<1> SUFFICES ASSUME Init PROVE Outstanding = 0 /\ Booked = 0
    OBVIOUS
<1>1. toEngine = <<>> /\ searching = <<>> /\ fromEngine = <<>> /\ stale = 0 /\ playing = {}
      BY DEF Init
<1>2. Goes = {}
      BY <1>1 DEF Goes
<1>3. Cardinality(Goes) = 0 /\ ~Thinking
      BY <1>1, <1>2, FS_EmptySet DEF Thinking
<1>4. QED BY <1>1, <1>3 DEF Outstanding, Booked

LEMMA Inductive == Spec => []IInv
<1>1. Init => IInv
      BY InitCourse, InitBooks DEF IInv, NoneUnbooked
<1>2. IInv /\ [Next]_vars => IInv'
  <2> SUFFICES ASSUME IInv, [Next]_vars PROVE IInv'
      OBVIOUS
  <2>1. Shapes /\ Course /\ NewestIsTheQuestion /\ NoneUnbooked
        BY DEF IInv
  <2>2. Shapes' /\ Course'
        BY <2>1, NextShapes, NextCourse
  <2>3. NewestIsTheQuestion'
        BY <2>1, NextBooks
  <2>4. NoneUnbooked'
        BY <2>1, NextBooks, BooksTypes DEF NoneUnbooked
  <2>5. QED BY <2>2, <2>3, <2>4 DEF IInv
<1>3. QED BY <1>1, <1>2, PTL DEF Spec

\* An engine's move reaches the server in the game, and on the turn, it was thought out
\* for (session/bridge.rs: the stale count and the order of the lines), whatever the
\* engine leaves unanswered.
THEOREM NoLateMove == Spec => []MovesAreCurrent
<1>1. IInv => MovesAreCurrent
  <2> SUFFICES ASSUME IInv, table.state = "playing", toServer # <<>>
               PROVE  /\ Head(toServer).game = table.game /\ Head(toServer).ply = table.ply
                      /\ OurTurn(table)
      BY DEF MovesAreCurrent
  <2>1. Head(toServer) = toServer[1]
        BY Taken DEF IInv, Shapes
  <2>2. PICK game \in playing : TRUE
        BY DEF IInv, Course, Underway, Stretch
  <2>3. QED BY <2>1, <2>2 DEF IInv, Course, Underway
<1>2. QED BY <1>1, Inductive, PTL

EveryAnswerNames == MayAnswerBare = FALSE

\* The bridge's two books are the goes not answered, as long as every bestmove names a
\* move: one that names none is dropped without a book being struck.
THEOREM BooksBalance == ASSUME EveryAnswerNames PROVE Spec => []EveryGoIsOwed
<1>1. Init => NoneBare /\ EveryGoIsOwed
      BY InitBooks DEF Init, NoneBare, EveryGoIsOwed, Outstanding, Booked
<1>2. IInv /\ NoneBare /\ EveryGoIsOwed /\ [Next]_vars => NoneBare' /\ EveryGoIsOwed'
  <2> SUFFICES ASSUME IInv, NoneBare, EveryGoIsOwed, [Next]_vars
               PROVE  NoneBare' /\ EveryGoIsOwed'
      OBVIOUS
  <2>1. Shapes /\ Course /\ NewestIsTheQuestion /\ NoneUnbooked
        BY DEF IInv
  <2>2. NoneBare'
        BY <2>1, NextNoneBare
  <2>3. fromEngine # <<>> => Head(fromEngine).word # "bare"
    <3> SUFFICES ASSUME fromEngine # <<>> PROVE Head(fromEngine).word # "bare"
        OBVIOUS
    <3>1. Head(fromEngine) = fromEngine[1] /\ 1 \in DOMAIN fromEngine
          BY <2>1, Taken, LenProperties DEF Shapes
    <3>2. QED BY <3>1 DEF NoneBare, EveryAnswerNames
  <2>4. Booked = Outstanding
        BY DEF EveryGoIsOwed, Booked, Outstanding
  <2>5. Booked' = Outstanding'
        BY <2>1, <2>3, <2>4, NextBooks
  <2>6. EveryGoIsOwed'
        BY <2>5 DEF EveryGoIsOwed, Booked, Outstanding
  <2>7. QED BY <2>2, <2>6
<1>3. QED BY <1>1, <1>2, Inductive, PTL DEF Spec
=============================================================================
