------------------------------- MODULE Bridge -------------------------------
(***************************************************************************)
(* The task that plays a preset: a USI engine on one side, the server's own *)
(* listener on the other, as the CSA client of one token.                  *)
(*                                                                         *)
(*   server --toBridge--> bridge --toEngine--> engine                      *)
(*          <--toServer--        <--fromEngine--                           *)
(*                                                                         *)
(* Each arrow is a FIFO.  The two readers put what they hear in one inbox: *)
(* which of the two the bridge hears next is a choice.  A game is its      *)
(* number and how many moves it has had; an answer carries, for the        *)
(* properties to read, the go it answers, which no line on the wire says.  *)
(***************************************************************************)
EXTENDS Integers, Sequences, FiniteSets

CONSTANTS
    Games,        \* bound: games the server offers
    Plies,        \* bound: moves of one game
    MayAnswerBare,\* whether a bestmove may name no move that can be read
    MayFail       \* whether the engine may die, and the server hang up

ASSUME BridgeAssumption ==
    /\ Games \in Nat /\ Plies \in Nat
    /\ MayAnswerBare \in BOOLEAN /\ MayFail \in BOOLEAN

VARIABLES
    table,       \* the server: its game, what it waits for, whose turn it is
    toBridge, toServer,
    phase,       \* the bridge: its handshake, in, or ended
    collecting,  \* whether a Game_Summary is being collected
    playing,     \* the game in progress, a set of at most one
    stale,       \* answers the engine owes to games that have ended
    asked,       \* whether the supervisor has asked the bridge to stop
    toEngine, fromEngine,
    searching,   \* the engine: the goes it has not answered, oldest first
    hurried      \* whether it has been told to stop since the last of them

serverVars == <<table, toServer>>
bridgeVars == <<phase, collecting, playing, stale, asked>>
engineVars == <<searching, hurried>>
vars == <<table, toBridge, toServer, bridgeVars, toEngine, fromEngine, engineVars>>

Line(word, game, ply) == [word |-> word, game |-> game, ply |-> ply]
Word(word) == Line(word, 0, 0)

-----------------------------------------------------------------------------
(* The server, as the listener and the game task behave to this client.    *)

\* The presets moves on the plies of one parity.
OurTurn(game) == game.ply % 2 = game.ours

Say(lines) == toBridge' = toBridge \o lines

Idle(game) == [game EXCEPT !.state = "idle"]

AnswersLogin ==
    /\ table.state = "login" /\ toServer # <<>> /\ Head(toServer).word = "LOGIN"
    /\ toServer' = Tail(toServer)
    /\ \/ Say(<<Word("LOGIN OK")>>) /\ table' = Idle(table)
       \/ MayFail /\ Say(<<Word("LOGIN:incorrect")>>) /\ table' = [table EXCEPT !.state = "gone"]
    /\ UNCHANGED <<bridgeVars, toEngine, fromEngine, engineVars>>

\* A round is an interval later than the last: the bridge has answered the summary
\* of a game that was rejected, whose AGREE names no game and would count for the next.
SummaryIsAnswered ==
    /\ \A k \in DOMAIN toBridge : toBridge[k].word # "END"
    /\ \A k \in DOMAIN toServer : toServer[k].word # "AGREE"

\* A pairing: the summary is a block of lines.
Offers ==
    /\ table.state = "idle" /\ table.game < Games /\ SummaryIsAnswered
    /\ \E ours \in {0, 1} :
         table' = [state |-> "offered", game |-> table.game + 1, ply |-> 0, ours |-> ours]
    /\ Say(<<Word("BEGIN"), Line("END", table'.game, table'.ours)>>)
    /\ UNCHANGED <<toServer, bridgeVars, toEngine, fromEngine, engineVars>>

\* Both have agreed, or the other one has not.
Starts ==
    /\ table.state = "agreed"
    /\ table' = [table EXCEPT !.state = "playing"]
    /\ Say(<<Line("START", table.game, 0)>>)
    /\ UNCHANGED <<toServer, bridgeVars, toEngine, fromEngine, engineVars>>

Rejects ==
    /\ table.state \in {"offered", "agreed"}
    /\ table' = Idle(table)
    /\ Say(<<Line("REJECT", table.game, 0)>>)
    /\ UNCHANGED <<toServer, bridgeVars, toEngine, fromEngine, engineVars>>

\* A move is relayed to both players; one more than Plies never is.
Relays(game) ==
    /\ game.ply < Plies
    /\ table' = [game EXCEPT !.ply = @ + 1]
    /\ Say(<<Line("move", game.game, game.ply)>>)

OpponentMoves ==
    /\ table.state = "playing" /\ ~OurTurn(table)
    /\ Relays(table)
    /\ UNCHANGED <<toServer, bridgeVars, toEngine, fromEngine, engineVars>>

\* A rule, a clock, the opponent or an operator ends the game.
EndsGame ==
    /\ table.state = "playing"
    /\ table' = Idle(table)
    /\ Say(<<Line("over", table.game, 0)>>)
    /\ UNCHANGED <<toServer, bridgeVars, toEngine, fromEngine, engineVars>>

\* A line that means nothing where the session is goes nowhere.
HearsClient ==
    /\ table.state # "login" /\ toServer # <<>>
    /\ toServer' = Tail(toServer)
    /\ LET line == Head(toServer) IN
         CASE line.word = "AGREE" /\ table.state = "offered" ->
                table' = [table EXCEPT !.state = "agreed"] /\ UNCHANGED toBridge
           [] line.word = "move" /\ table.state = "playing" /\ table.ply < Plies ->
                Relays(table)
           [] line.word \in {"%TORYO", "%KACHI"} /\ table.state = "playing" ->
                table' = Idle(table) /\ Say(<<Line("over", table.game, 0)>>)
           [] OTHER -> UNCHANGED <<table, toBridge>>
    /\ UNCHANGED <<bridgeVars, toEngine, fromEngine, engineVars>>

HangsUp ==
    /\ MayFail /\ table.state \notin {"login", "gone"}
    /\ table' = [table EXCEPT !.state = "gone"]
    /\ Say(<<Word("closed")>>)
    /\ UNCHANGED <<toServer, bridgeVars, toEngine, fromEngine, engineVars>>

-----------------------------------------------------------------------------
(* The bridge. *)

Reply(lines) == toServer' = toServer \o lines
Tell(lines)  == toEngine' = toEngine \o lines

\* Whatever ends the bridge kills the engine and drops the connection.
End ==
    /\ phase' = "ended"
    /\ UNCHANGED <<collecting, playing, stale, toServer, toEngine>>

\* usi ... usiok, the options, isready ... readyok, and LOGIN.
Identified ==
    /\ phase = "usi" /\ phase' = "isready"
    /\ UNCHANGED <<serverVars, toBridge, collecting, playing, stale, asked, toEngine,
                   fromEngine, engineVars>>

LogsIn ==
    /\ phase = "isready" /\ phase' = "in"
    /\ Reply(<<Word("LOGIN")>>)
    /\ UNCHANGED <<table, toBridge, collecting, playing, stale, asked, toEngine,
                   fromEngine, engineVars>>

\* The engine does not answer in time, or has no name to log in with.
HandshakeFails ==
    /\ MayFail /\ phase \in {"usi", "isready"}
    /\ End
    /\ UNCHANGED <<table, toBridge, asked, fromEngine, engineVars>>

\* The position and the go are one question.
Think(game) ==
    /\ playing' = {[game EXCEPT !.thinking = TRUE]}
    /\ Tell(<<Line("go", game.game, game.ply)>>)

Continue(game) ==
    IF OurTurn(game) THEN Think(game)
    ELSE playing' = {game} /\ UNCHANGED toEngine

\* The summary is whole: the game it names, agreed to whatever it is.
Offered(line) ==
    /\ playing' = {[game |-> line.game, ours |-> line.ply, ply |-> 0, thinking |-> FALSE]}
    /\ Reply(<<Word("AGREE")>>)
    /\ UNCHANGED <<phase, stale, toEngine>>

Started(line) ==
    IF playing = {} \/ \E game \in playing : game.game # line.game THEN End
    ELSE /\ \E game \in playing : Continue(game)
         /\ UNCHANGED <<phase, collecting, stale, toServer>>

\* Faulty: the bridge's own moves are counted as it writes them as well.
RelayedTwice ==
    IF playing = {} THEN UNCHANGED <<phase, collecting, playing, stale, toServer, toEngine>>
    ELSE /\ \E game \in playing :
              Continue([game EXCEPT !.ply = @ + 1 + (IF OurTurn(game) THEN 1 ELSE 0)])
         /\ UNCHANGED <<phase, collecting, stale, toServer>>

Relayed ==
    IF playing = {} THEN UNCHANGED <<phase, collecting, playing, stale, toServer, toEngine>>
    ELSE /\ \E game \in playing : Continue([game EXCEPT !.ply = @ + 1])
         /\ UNCHANGED <<phase, collecting, stale, toServer>>

\* Faulty: the answer a dead game is owed is not counted.
NotOwed(game) == 0

\* Faulty: every game that ends is owed one.
AlwaysOwed(game) == 1

\* The answer a search cut short by the end of its game is owed.
Owed(game) == IF game.thinking THEN 1 ELSE 0

\* Faulty: gameover goes out while the engine searches.
OverAtOnce(game) == <<Word("gameover")>>

\* stop before gameover.
LastWords(game) ==
    IF game.thinking THEN <<Word("stop"), Word("gameover")>> ELSE <<Word("gameover")>>

Over ==
    /\ IF playing = {} THEN UNCHANGED <<stale, toEngine>>
       ELSE \E game \in playing : stale' = stale + Owed(game) /\ Tell(LastWords(game))
    /\ playing' = {}
    /\ UNCHANGED <<phase, collecting, toServer>>

HearsServer ==
    /\ phase = "in" /\ ~asked /\ toBridge # <<>>
    /\ toBridge' = Tail(toBridge)
    /\ LET line == Head(toBridge) IN
         CASE collecting ->
                IF line.word = "END" THEN collecting' = FALSE /\ Offered(line)
                ELSE UNCHANGED <<phase, collecting, playing, stale, toServer, toEngine>>
           [] ~collecting /\ line.word = "BEGIN" ->
                collecting' = TRUE /\ UNCHANGED <<phase, playing, stale, toServer, toEngine>>
           [] ~collecting /\ line.word \in {"LOGIN:incorrect", "closed"} -> End
           [] ~collecting /\ line.word = "START" -> Started(line)
           [] ~collecting /\ line.word = "REJECT" ->
                playing' = {} /\ UNCHANGED <<phase, collecting, stale, toServer, toEngine>>
           [] ~collecting /\ line.word = "move" -> Relayed
           [] ~collecting /\ line.word = "over" -> Over
           [] OTHER -> UNCHANGED <<phase, collecting, playing, stale, toServer, toEngine>>
    /\ UNCHANGED <<table, asked, fromEngine, engineVars>>

\* The client's line for an answer: a move, %TORYO or %KACHI.
Written(answer) ==
    [answer EXCEPT !.word = CASE answer.word = "resign" -> "%TORYO"
                              [] answer.word = "win" -> "%KACHI"
                              [] answer.word = "bestmove" -> "move"]

\* Faulty: off by one.
AnswersNoGame == stale >= 0

AnswersADeadGame == stale > 0

\* Only a bestmove that can be read is acted on.
HearsEngine ==
    /\ phase = "in" /\ ~asked /\ fromEngine # <<>>
    /\ fromEngine' = Tail(fromEngine)
    /\ LET answer == Head(fromEngine) IN
         IF answer.word = "bare" THEN UNCHANGED <<playing, stale, toServer>>
         ELSE IF AnswersADeadGame THEN stale' = stale - 1 /\ UNCHANGED <<playing, toServer>>
         ELSE IF \A game \in playing : ~game.thinking THEN UNCHANGED <<playing, stale, toServer>>
         ELSE /\ playing' = {[game EXCEPT !.thinking = FALSE] : game \in playing}
              /\ Reply(<<Written(answer)>>)
              /\ UNCHANGED stale
    /\ UNCHANGED <<table, toBridge, phase, collecting, asked, toEngine, engineVars>>

\* The supervisor asks, once; it is heard between two lines, never in the handshake.
AsksToStop ==
    /\ MayFail /\ ~asked /\ phase # "ended"
    /\ asked' = TRUE
    /\ UNCHANGED <<serverVars, toBridge, phase, collecting, playing, stale, toEngine,
                   fromEngine, engineVars>>

Quits ==
    /\ phase = "in" /\ asked
    /\ phase' = "ended" /\ Tell(<<Word("quit")>>)
    /\ UNCHANGED <<serverVars, toBridge, collecting, playing, stale, asked, fromEngine,
                   engineVars>>

-----------------------------------------------------------------------------
(* The engine: it answers every go once, in order, whenever it likes.      *)

ReadsLine ==
    /\ phase = "in" /\ toEngine # <<>>
    /\ toEngine' = Tail(toEngine)
    /\ LET line == Head(toEngine) IN
         /\ searching' = IF line.word = "go" THEN Append(searching, line) ELSE searching
         /\ hurried' = CASE line.word = "go" -> FALSE
                         [] line.word = "stop" -> TRUE
                         [] OTHER -> hurried
    /\ UNCHANGED <<serverVars, toBridge, bridgeVars, fromEngine>>

Answers ==
    /\ phase = "in" /\ searching # <<>>
    /\ \E word \in {"bestmove", "resign", "win"} \cup (IF MayAnswerBare THEN {"bare"} ELSE {}) :
         fromEngine' = Append(fromEngine, [Head(searching) EXCEPT !.word = word])
    /\ searching' = Tail(searching)
    /\ UNCHANGED <<serverVars, toBridge, bridgeVars, toEngine, hurried>>

\* The process exits, which the bridge waits on as it waits on its inbox.
Dies ==
    /\ MayFail /\ phase = "in" /\ ~asked
    /\ End
    /\ UNCHANGED <<table, toBridge, asked, fromEngine, engineVars>>

-----------------------------------------------------------------------------
Init ==
    /\ table = [state |-> "login", game |-> 0, ply |-> 0, ours |-> 0]
    /\ toBridge = <<>> /\ toServer = <<>>
    /\ phase = "usi" /\ collecting = FALSE /\ playing = {} /\ stale = 0 /\ asked = FALSE
    /\ toEngine = <<>> /\ fromEngine = <<>>
    /\ searching = <<>> /\ hurried = FALSE

Server == AnswersLogin \/ Offers \/ Starts \/ Rejects \/ OpponentMoves \/ EndsGame
            \/ HearsClient \/ HangsUp
TheBridge == Identified \/ LogsIn \/ HandshakeFails \/ HearsServer \/ HearsEngine
            \/ AsksToStop \/ Quits
TheEngine == ReadsLine \/ Answers \/ Dies

Next == Server \/ TheBridge \/ TheEngine

Spec == Init /\ [][Next]_vars

\* The runtime polls the bridge and the connection, and the engine keeps to USI.
FairSpec ==
    /\ Spec
    /\ WF_vars(AnswersLogin) /\ WF_vars(HearsClient)
    /\ WF_vars(Identified) /\ WF_vars(LogsIn) /\ WF_vars(Quits)
    /\ WF_vars(HearsServer) /\ WF_vars(HearsEngine)
    /\ WF_vars(ReadsLine) /\ WF_vars(Answers)
=============================================================================
