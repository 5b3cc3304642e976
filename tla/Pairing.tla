------------------------------ MODULE Pairing ------------------------------
(***************************************************************************)
(* Two logged-in connections, the coordinator that pairs them, and the     *)
(* game task that offers, plays and ends their games, round after round.   *)
(*                                                                         *)
(*   client <--lines/out--> session task <--control-- coordinator          *)
(*                               |                        |                *)
(*                               +------inbox--> game task (one per game)  *)
(*                                                                         *)
(* Every arrow is a FIFO with the capacity the code gives it, and every    *)
(* await point of the code is a point where another task may run.  Clocks  *)
(* and positions are abstracted to what they decide: a turn may be flagged *)
(* while it is Timed, and a move in turn is legal, final or illegal.       *)
(***************************************************************************)
EXTENDS Naturals, Sequences, FiniteSets, SessionMachine

Side == {"black", "white"}

CONSTANTS
    OutboundCapacity,  \* lines queued for one client before a producer waits
    MessageCapacity,   \* client events queued for one game
    ControlCapacity,   \* control messages queued for one connection
    WireBound,         \* bound: lines a client has sent and nobody has read
    GameBound,         \* bound: games offered in one behaviour
    ClientCommands,    \* the commands each side's client uses
    Repeats,           \* whether a client may answer one line twice
    Timed,             \* whether the time control bounds a turn
    PresetGame,        \* whether the coordinator may abort the game
    Leavers,           \* the sides whose client may close its socket
    Replaced,          \* the sides whose token may log in again
    Faults             \* which tasks may panic: a subset of {"game", "session"}

ASSUME CapacityAssumption ==
    /\ OutboundCapacity \in Nat \ {0}
    /\ MessageCapacity \in Nat \ {0}
    /\ ControlCapacity \in Nat \ {0}

ASSUME BoundAssumption ==
    /\ WireBound \in Nat
    /\ GameBound \in Nat

ASSUME ChoiceAssumption ==
    /\ ClientCommands \in [Side -> SUBSET Commands]
    /\ Repeats \in BOOLEAN
    /\ Timed \in BOOLEAN
    /\ PresetGame \in BOOLEAN
    /\ Leavers \subseteq Side
    /\ Replaced \subseteq Side
    /\ Faults \subseteq {"game", "session"}
Other(s) == IF s = "black" THEN "white" ELSE "black"

VARIABLES
    \* the client's end of each connection
    open,        \* the client has not closed its socket
    seen,        \* the last prompt the client read, or that it answered it
    heard,       \* how many summaries it has read: the game it believes in
    lines,       \* what it sent and the session has not taken
    \* the writer task of each connection
    out,         \* lines queued for the client, kernel buffer included
    writer,      \* the task is running
    \* the session task of each connection
    pc,          \* where the task is
    sess,        \* the state machine's state
    game,        \* whether it holds a game task's inbox
    pend,        \* sends the line in hand still owes, in order
    control,     \* the control channel
    \* the game task of the current game
    phase,       \* where the task is
    todo,        \* lines it has still to queue before its next step
    inbox,       \* the game task's channel
    alive,       \* which connections it still writes to
    agreed,      \* who sent AGREE
    turn,        \* the side to move
    outcome,     \* how the game ended
    \* the coordinator
    requests,    \* per session, what it has reported and nobody handled
    registered,  \* sessions in the registry
    pool,        \* sessions waiting for a round
    playing,     \* sessions whose game or pairing is in flight
    games        \* games offered so far

clientVars  == <<open, seen, heard, lines>>
writerVars  == <<out, writer>>
sessionVars == <<pc, sess, game, pend>>
boardVars   == <<agreed, turn>>
taskVars    == <<phase, todo, alive, boardVars, outcome>>
coordVars   == <<registered, pool, playing, games>>
vars == <<clientVars, writerVars, sessionVars, control, taskVars, inbox,
          requests, coordVars>>

-----------------------------------------------------------------------------
(* Values *)

Prompts   == {"SUMMARY", "REJECTED", "START", "RELAY", "OVER", "CUTOFF"}
OutLines  == Prompts \cup {"ECHO", "BYE", "UNKNOWN"}
GameMessages == AgreementCommands \cup GameCommands
                  \cup {"KEEPALIVE", "ABORT", "DiscardPairing", "CensorGame"}
Messages  == [msg : GameMessages, side : Side]
Controls  == {"Paired", "Started", "PairingDiscarded", "GameEnded", "Close"}
Phases    == {"idle", "proposing", "discarding", "playing", "filing",
              "telling", "dead", "over"}
Endings   == {"board", "timeup", "disconnect", "abort"}
Outcomes  == [kind : Endings, by : Side \cup {"none"}]

Ended(kind, by) == [kind |-> kind, by |-> by]
NoOutcome == Ended("none", "none")

\* By a resignation, a declaration, an illegal move, a repetition or the move
\* limit: the board decides which, and the tasks treat them alike.
OnBoard == Ended("board", "none")

\* The same line to both clients, black first.
Broadcast(line) == << [to |-> "black", line |-> line],
                      [to |-> "white", line |-> line] >>

\* The receiver of the game channel lives as long as the task does.
GameOpen == phase \notin {"idle", "dead", "over"}

\* try_send on a control channel: lost if the receiver is gone or full.
Tell(s, edge) ==
    IF pc[s] \notin {"gone", "closed"} /\ Len(control[s]) < ControlCapacity
    THEN Append(control[s], edge)
    ELSE control[s]

\* One edge to every session the task believes is there.
Notify(living, edge) ==
    control' = [s \in Side |-> IF living[s] THEN Tell(s, edge) ELSE control[s]]

\* A session holds a sender, or is about to be handed one.
Holds(s) == \/ game[s]
            \/ \E i \in DOMAIN control[s] : control[s][i] = "Paired"

\* The coordinator's own sender, kept while its preset game has a player.
CoordinatorHolds == PresetGame /\ playing # {}

NobodyHolds == ~CoordinatorHolds /\ \A s \in Side : ~Holds(s)

Init ==
    /\ open = [s \in Side |-> TRUE]
    /\ seen = [s \in Side |-> "OVER"]
    /\ heard = [s \in Side |-> 0]
    /\ lines = [s \in Side |-> <<>>]
    /\ out = [s \in Side |-> <<>>]
    /\ writer = [s \in Side |-> TRUE]
    /\ pc = [s \in Side |-> "loop"]
    /\ sess = [s \in Side |-> "Waiting"]
    /\ game = [s \in Side |-> FALSE]
    /\ pend = [s \in Side |-> <<>>]
    /\ control = [s \in Side |-> <<>>]
    /\ phase = "idle"
    /\ todo = <<>>
    /\ inbox = <<>>
    /\ alive = [s \in Side |-> FALSE]
    /\ agreed = {}
    /\ turn = "black"
    /\ outcome = NoOutcome
    /\ requests = [s \in Side |-> <<"Ready">>]
    /\ registered = Side
    /\ pool = {}
    /\ playing = {}
    /\ games = 0

-----------------------------------------------------------------------------
(* Clients.  A client answers what it last read, and may ask for a         *)
(* keep-alive, log out, log in again or send junk at any time.             *)

Sendable(s) ==
    ClientCommands[s] \cap
      ( (IF seen[s] = "SUMMARY" THEN AgreementCommands ELSE {})
        \cup (IF seen[s] \in {"START", "RELAY"} THEN GameCommands ELSE {})
        \cup LoginCommands \cup OtherCommands )

ClientSend(s) ==
    /\ open[s] /\ Len(lines[s]) < WireBound
    /\ \E c \in Sendable(s) :
         /\ lines' = [lines EXCEPT ![s] = Append(@, [cmd |-> c, game |-> heard[s]])]
         /\ seen' = [seen EXCEPT ![s] =
                       IF c \in AgreementCommands \cup GameCommands /\ ~Repeats
                       THEN "ANSWERED" ELSE @]
    /\ UNCHANGED <<open, heard, writerVars, sessionVars, control,
                   taskVars, inbox, requests, coordVars>>

ClientClose(s) ==
    /\ s \in Leavers /\ open[s]
    /\ open' = [open EXCEPT ![s] = FALSE]
    /\ UNCHANGED <<seen, heard, lines, writerVars, sessionVars, control,
                   taskVars, inbox, requests, coordVars>>

\* The writer puts the next group on the socket and the client reads it.
ClientRead(s) ==
    /\ open[s] /\ writer[s] /\ out[s] # <<>>
    /\ LET line == Head(out[s]) IN
         /\ seen' = [seen EXCEPT ![s] = IF line \in Prompts THEN line ELSE @]
         /\ heard' = [heard EXCEPT ![s] = IF line = "SUMMARY" THEN @ + 1 ELSE @]
    /\ out' = [out EXCEPT ![s] = Tail(@)]
    /\ UNCHANGED <<open, lines, writer, sessionVars, control, taskVars, inbox,
                   requests, coordVars>>

\* A closed socket refuses a write, or the last line is out: the writer ends.
WriterEnds(s) ==
    /\ writer[s] /\ ~open[s]
    /\ writer' = [writer EXCEPT ![s] = FALSE]
    /\ out' = [out EXCEPT ![s] = <<>>]
    /\ UNCHANGED <<clientVars, sessionVars, control, taskVars, inbox,
                   requests, coordVars>>

-----------------------------------------------------------------------------
(* Session tasks. *)

\* The select is biased: nothing is read from the client while a control
\* message waits.
Idle(s) == pc[s] = "loop" /\ pend[s] = <<>>

TakeControl(s) ==
    /\ Idle(s) /\ control[s] # <<>>
    /\ control' = [control EXCEPT ![s] = Tail(@)]
    /\ \/ /\ Head(control[s]) = "Close"
          /\ pc' = [pc EXCEPT ![s] = "closing"]
          /\ UNCHANGED <<sess, game, requests>>
       \/ /\ Head(control[s]) = "Paired"
          /\ sess' = [sess EXCEPT ![s] = Advance(@, "Paired")]
          /\ game' = [game EXCEPT ![s] = TRUE]
          /\ UNCHANGED <<pc, requests>>
       \/ /\ Head(control[s]) = "Started"
          /\ sess' = [sess EXCEPT ![s] = Advance(@, "BothAgreed")]
          /\ UNCHANGED <<pc, game, requests>>
       \/ /\ Head(control[s]) = "PairingDiscarded"
          /\ sess' = [sess EXCEPT ![s] = Advance(@, "PairingDiscarded")]
          /\ game' = [game EXCEPT ![s] = FALSE]
          /\ requests' = [requests EXCEPT ![s] = Append(@, "Ready")]
          /\ UNCHANGED pc
       \/ /\ Head(control[s]) = "GameEnded"
          /\ sess' = [sess EXCEPT ![s] = Advance(Advance(@, "GameEnded"), "NextGame")]
          /\ game' = [game EXCEPT ![s] = FALSE]
          /\ requests' = [requests EXCEPT ![s] = Append(@, "Ready")]
          /\ UNCHANGED pc
    /\ UNCHANGED <<clientVars, writerVars, pend, taskVars, inbox, coordVars>>

\* A game command is forwarded if there is a game to forward it to.
Forward(s, command) == IF game[s] THEN <<command>> ELSE <<>>

\* Faulty: a select that does not put control first.
TakeLineUnbiased(s) ==
    /\ Idle(s) /\ lines[s] # <<>>
    /\ lines' = [lines EXCEPT ![s] = Tail(@)]
    /\ LET command == Head(lines[s]).cmd IN
       pend' = [pend EXCEPT ![s] =
                  IF Route(sess[s], command) \in {"RouteAgreement", "RouteGame"}
                  THEN Forward(s, command) ELSE <<>>]
    /\ UNCHANGED <<open, seen, heard, writerVars, pc, sess, game, control,
                   taskVars, inbox, requests, coordVars>>

TakeLine(s) ==
    /\ Idle(s) /\ control[s] = <<>> /\ lines[s] # <<>>
    /\ lines' = [lines EXCEPT ![s] = Tail(@)]
    /\ LET command == Head(lines[s]).cmd
           answer  == Route(sess[s], command)
       IN \/ /\ answer \in {"RouteAgreement", "RouteGame"}
             /\ pend' = [pend EXCEPT ![s] = Forward(s, command)]
             /\ UNCHANGED pc
          \/ /\ answer = "KeepAlive"
             /\ \E echo \in {<<>>, <<"ECHO">>} :
                  pend' = [pend EXCEPT ![s] = echo \o Forward(s, command)]
             /\ UNCHANGED pc
          \/ /\ answer = "Logout"
             /\ pend' = [pend EXCEPT ![s] = <<"BYE">>]
             /\ pc' = [pc EXCEPT ![s] = "closing"]
          \/ /\ answer = "Malformed"
             \* the count below the limit, or at it
             /\ \E next \in {"loop", "closing"} : pc' = [pc EXCEPT ![s] = next]
             /\ UNCHANGED pend
          \/ /\ answer = "Warn"
             /\ pend' = [pend EXCEPT ![s] = <<"UNKNOWN">>]
             /\ UNCHANGED pc
          \/ /\ answer \in {"Ignore", "Unexpected"}
             /\ UNCHANGED <<pc, pend>>
    /\ UNCHANGED <<open, seen, heard, writerVars, sess, game, control,
                   taskVars, inbox, requests, coordVars>>

\* The next send the line in hand owes.  A full channel is waited on, a dead
\* one is given up.
SessionSend(s) ==
    /\ pend[s] # <<>>
    /\ LET next == Head(pend[s]) IN
         \/ /\ next \in OutLines
            /\ writer[s] => Len(out[s]) < OutboundCapacity
            /\ out' = [out EXCEPT ![s] = IF writer[s] THEN Append(@, next) ELSE @]
            /\ UNCHANGED <<game, inbox>>
         \/ /\ next \in GameMessages
            /\ GameOpen => Len(inbox) < MessageCapacity
            /\ inbox' = IF GameOpen THEN Append(inbox, [msg |-> next, side |-> s])
                                    ELSE inbox
            /\ game' = [game EXCEPT ![s] = @ /\ GameOpen]
            /\ UNCHANGED out
    /\ pend' = [pend EXCEPT ![s] = Tail(@)]
    /\ UNCHANGED <<clientVars, writer, pc, sess, control, taskVars, requests,
                   coordVars>>

\* Faulty: a session with a game waits for the game to end.
EndOfStreamOutOfGame(s) ==
    /\ Idle(s) /\ control[s] = <<>> /\ lines[s] = <<>> /\ ~open[s]
    /\ ~game[s]
    /\ pc' = [pc EXCEPT ![s] = "closing"]
    /\ UNCHANGED <<clientVars, writerVars, sess, game, pend, control, taskVars,
                   inbox, requests, coordVars>>

\* The reader is gone and everything it read has been taken.
EndOfStream(s) ==
    /\ Idle(s) /\ control[s] = <<>> /\ lines[s] = <<>> /\ ~open[s]
    /\ pc' = [pc EXCEPT ![s] = "closing"]
    /\ UNCHANGED <<clientVars, writerVars, sess, game, pend, control, taskVars,
                   inbox, requests, coordVars>>

\* The disconnect answer for the state the session is in, then its Gone.  What
\* the session was still to be told or to read is dropped with it.
Disconnect(s) ==
    /\ pc[s] = "closing" /\ pend[s] = <<>>
    /\ LET answer == OnDisconnect(sess[s])
           told   == answer # "DropSession" /\ game[s] /\ GameOpen
       IN /\ told => Len(inbox) < MessageCapacity
          /\ inbox' = IF told THEN Append(inbox, [msg |-> answer, side |-> s])
                              ELSE inbox
    /\ game' = [game EXCEPT ![s] = FALSE]
    /\ requests' = [requests EXCEPT ![s] = Append(@, "Gone")]
    /\ control' = [control EXCEPT ![s] = <<>>]
    /\ lines' = [lines EXCEPT ![s] = <<>>]
    /\ pc' = [pc EXCEPT ![s] = "gone"]
    /\ UNCHANGED <<open, seen, heard, writerVars, sess, pend, taskVars, coordVars>>

\* The writer is asked, in its turn, to flush and shut down.
CloseSocket(s) ==
    /\ pc[s] = "gone"
    /\ writer[s] => Len(out[s]) < OutboundCapacity
    /\ open' = [open EXCEPT ![s] = FALSE]
    /\ pc' = [pc EXCEPT ![s] = "closed"]
    /\ UNCHANGED <<seen, heard, lines, writerVars, sess, game, pend, control,
                   taskVars, inbox, requests, coordVars>>

\* A panic while a line is handled: the answer is given from Drop, where a
\* full channel cannot be waited on.
SessionPanics(s) ==
    /\ "session" \in Faults
    /\ Idle(s) /\ control[s] = <<>> /\ lines[s] # <<>>
    /\ LET answer == OnDisconnect(sess[s])
           told   == /\ answer # "DropSession" /\ game[s] /\ GameOpen
                     /\ Len(inbox) < MessageCapacity
       IN inbox' = IF told THEN Append(inbox, [msg |-> answer, side |-> s])
                           ELSE inbox
    /\ requests' = [requests EXCEPT ![s] = Append(@, "Gone")]
    /\ lines' = [lines EXCEPT ![s] = <<>>]
    /\ open' = [open EXCEPT ![s] = FALSE]
    /\ game' = [game EXCEPT ![s] = FALSE]
    /\ pc' = [pc EXCEPT ![s] = "closed"]
    /\ UNCHANGED <<seen, heard, writerVars, sess, pend, control, taskVars,
                   coordVars>>

-----------------------------------------------------------------------------
(* The game task. *)

\* One queued line: awaited while the client's channel is full, and the last
\* one a connection whose writer is gone is offered.
TaskSend ==
    /\ todo # <<>>
    /\ LET s == Head(todo).to
           line == Head(todo).line
           there == alive[s] /\ writer[s]
       IN /\ there => Len(out[s]) < OutboundCapacity
          /\ out' = [out EXCEPT ![s] = IF there THEN Append(@, line) ELSE @]
          /\ alive' = [alive EXCEPT ![s] = there]
    /\ todo' = Tail(todo)
    /\ UNCHANGED <<clientVars, writer, sessionVars, control, phase, boardVars,
                   outcome, inbox, requests, coordVars>>

\* The task awaits its inbox in one of its two loops.
Awaits(loop) == phase = loop /\ todo = <<>>

Received(loop, m) ==
    /\ Awaits(loop) /\ inbox # <<>>
    /\ m = Head(inbox)
    /\ inbox' = Tail(inbox)

\* The task returns: its inbox and everything it held are dropped.
Return ==
    /\ phase' = "over"
    /\ todo' = <<>>
    /\ inbox' = <<>>
    /\ alive' = [s \in Side |-> FALSE]
    /\ agreed' = {} /\ turn' = "black"
    /\ outcome' = NoOutcome

\* Faulty: a discarded pairing announced as an ended game.
DiscardAsGameEnded(living) ==
    /\ Notify(living, "GameEnded")
    /\ Return

\* The pairing is over before START: nothing is recorded, and whoever is left
\* goes back to the pool.
Discard(living) ==
    /\ Notify(living, "PairingDiscarded")
    /\ Return

\* Faulty: the first AGREE starts the game.
AgreeAlone(m) ==
    /\ Received("proposing", m) /\ m.msg = "AGREE"
    /\ agreed' = agreed \cup {m.side}
    /\ phase' = "playing"
    /\ Notify(alive, "Started")
    /\ todo' = Broadcast("START")
    /\ UNCHANGED <<clientVars, writerVars, sessionVars, turn, alive,
                   outcome, requests, coordVars>>

\* AGREE from one side waits; from both, the sessions take their edge and
\* START is queued behind it.
Agree(m) ==
    /\ Received("proposing", m) /\ m.msg = "AGREE"
    /\ agreed' = agreed \cup {m.side}
    /\ IF agreed' = Side /\ m.side \notin agreed
       THEN /\ phase' = "playing"
            /\ Notify(alive, "Started")
            /\ todo' = Broadcast("START")
       ELSE UNCHANGED <<phase, control, todo>>
    /\ UNCHANGED <<clientVars, writerVars, sessionVars, turn, alive,
                   outcome, requests, coordVars>>

\* REJECT from a side, or the server breaking the pairing off: both clients
\* read a REJECT line before the pairing is discarded.
Refuse ==
    /\ phase' = "discarding"
    /\ todo' = Broadcast("REJECTED")
    /\ UNCHANGED <<clientVars, writerVars, sessionVars, control, alive,
                   boardVars, outcome, requests, coordVars>>

Reject(m) ==
    /\ Received("proposing", m) /\ m.msg \in {"REJECT", "ABORT"}
    /\ Refuse

\* Faulty: the agreement timer outlives the agreement.
AgreementExpiresInGame ==
    /\ Awaits("proposing") \/ Awaits("playing")
    /\ Refuse
    /\ UNCHANGED inbox

\* Faulty: the agreement timer starts at the first AGREE.
AgreementExpiresOnceAgreed ==
    /\ Awaits("proposing") /\ agreed # {}
    /\ Refuse
    /\ UNCHANGED inbox

AgreementExpires ==
    /\ Awaits("proposing")
    /\ Refuse
    /\ UNCHANGED inbox

Refused ==
    /\ Awaits("discarding")
    /\ Discard(alive)
    /\ UNCHANGED <<clientVars, writerVars, sessionVars, requests, coordVars>>

\* Faulty: the side that left is told, its peer is not.
DisconnectedTellsTheLeaver(m) ==
    /\ Awaits("proposing") /\ inbox # <<>> /\ m = Head(inbox)
    /\ m.msg \in {"DiscardPairing", "CensorGame"}
    /\ Discard([s \in Side |-> s = m.side])
    /\ UNCHANGED <<clientVars, writerVars, sessionVars, requests, coordVars>>

DisconnectedBeforeStart(m) ==
    /\ Awaits("proposing") /\ inbox # <<>> /\ m = Head(inbox)
    /\ m.msg \in {"DiscardPairing", "CensorGame"}
    /\ Discard([alive EXCEPT ![m.side] = FALSE])
    /\ UNCHANGED <<clientVars, writerVars, sessionVars, requests, coordVars>>

\* A keep-alive only re-runs the expiry check; a game command is logged.
IgnoredBeforeStart(m) ==
    /\ Received("proposing", m) /\ m.msg \in GameCommands \cup {"KEEPALIVE"}
    /\ UNCHANGED <<clientVars, writerVars, sessionVars, control, taskVars,
                   requests, coordVars>>

\* Every sender of the inbox is gone: the task returns with nothing written.
NobodyLeft ==
    /\ \E loop \in {"proposing", "playing"} : Awaits(loop)
    /\ inbox = <<>> /\ NobodyHolds
    /\ Return
    /\ UNCHANGED <<clientVars, writerVars, sessionVars, control, requests, coordVars>>

\* Faulty: the sessions are released before the game is filed.
TerminateAndRelease(ending, relayed) ==
    /\ outcome' = ending
    /\ phase' = "filing"
    /\ todo' = relayed
    /\ Notify(alive, "GameEnded")
    /\ UNCHANGED agreed

\* terminate: the outcome is fixed and the files come first.
Terminate(ending, relayed) ==
    /\ outcome' = ending
    /\ phase' = "filing"
    /\ todo' = relayed
    /\ UNCHANGED <<control, agreed>>

\* Faulty: a flag that falls against nobody in particular.
FlagOfNeither == IF Timed THEN {Ended("timeup", "either")} ELSE {}

\* What an in-turn line may be answered with instead of being read: the flag.
Flag      == IF Timed THEN {Ended("timeup", turn)} ELSE {}
FlagOf(s) == IF s = turn THEN Flag ELSE {}

\* A legal move in turn is relayed; the game goes on, or that move has ended it.
Relayed(m) ==
    /\ m.side = turn
    /\ turn' = Other(turn)
    /\ \/ /\ todo' = Broadcast("RELAY")
          /\ UNCHANGED <<control, phase, agreed, outcome>>
       \/ Terminate(OnBoard, Broadcast("RELAY"))

\* Any other move is illegal, late, or a protocol error that changes nothing.
\* Only a move written with the waiting side's own sign is known to be out of
\* turn; one that denotes nothing on the board is illegal whoever sent it.
NotRelayed(m) ==
    /\ \/ UNCHANGED <<control, phase, todo, agreed, outcome>>
       \/ \E ending \in {OnBoard} \cup FlagOf(m.side) : Terminate(ending, <<>>)
    /\ UNCHANGED turn

Move(m) ==
    /\ Received("playing", m) /\ m.msg = "MOVE"
    /\ Relayed(m) \/ NotRelayed(m)
    /\ UNCHANGED <<clientVars, writerVars, sessionVars, alive, requests, coordVars>>

\* A resignation needs no turn; a late one by the side to move is a flag.
Resign(m) ==
    /\ Received("playing", m) /\ m.msg = "RESIGN"
    /\ \E ending \in {OnBoard} \cup FlagOf(m.side) : Terminate(ending, <<>>)
    /\ UNCHANGED <<clientVars, writerVars, sessionVars, alive, turn,
                   requests, coordVars>>

\* %KACHI and %CHUDAN end the game in turn, one way or another, and are
\* ignored out of turn.
Declare(m) ==
    /\ Received("playing", m) /\ m.msg \in {"DECLARE", "SUSPEND"}
    /\ \/ /\ m.side # turn
          /\ UNCHANGED <<control, phase, todo, agreed, outcome>>
       \/ /\ m.side = turn
          /\ \E ending \in {OnBoard} \cup Flag : Terminate(ending, <<>>)
    /\ UNCHANGED <<clientVars, writerVars, sessionVars, alive, turn,
                   requests, coordVars>>

\* A keep-alive runs the flag check the deadline runs.
KeepAlive(m) ==
    /\ Received("playing", m) /\ m.msg = "KEEPALIVE"
    /\ \/ UNCHANGED <<control, phase, todo, agreed, outcome>>
       \/ \E ending \in Flag : Terminate(ending, <<>>)
    /\ UNCHANGED <<clientVars, writerVars, sessionVars, alive, turn,
                   requests, coordVars>>

\* Faulty: an abort is only understood before START.
AbortIgnored(m) ==
    /\ Received("playing", m) /\ m.msg = "ABORT"
    /\ UNCHANGED <<clientVars, writerVars, sessionVars, control, taskVars,
                   requests, coordVars>>

Abort(m) ==
    /\ Received("playing", m) /\ m.msg = "ABORT"
    /\ Terminate(Ended("abort", "none"), <<>>)
    /\ UNCHANGED <<clientVars, writerVars, sessionVars, alive, turn,
                   requests, coordVars>>

\* Faulty: the peer is charged with the disconnect.
DisconnectedPeerCharged(m) ==
    /\ Received("playing", m) /\ m.msg \in {"CensorGame", "DiscardPairing"}
    /\ alive' = [alive EXCEPT ![m.side] = FALSE]
    /\ Terminate(Ended("disconnect", Other(m.side)), <<>>)
    /\ UNCHANGED <<clientVars, writerVars, sessionVars, turn, requests,
                   coordVars>>

\* A disconnect answered while Playing ends the game against its side.  One
\* answered while Agreeing has no game to end: the side is only written off.
Disconnected(m) ==
    /\ Received("playing", m) /\ m.msg \in {"CensorGame", "DiscardPairing"}
    /\ alive' = [alive EXCEPT ![m.side] = FALSE]
    /\ \/ /\ m.msg = "CensorGame"
          /\ Terminate(Ended("disconnect", m.side), <<>>)
       \/ /\ m.msg = "DiscardPairing"
          /\ UNCHANGED <<control, phase, todo, agreed, outcome>>
    /\ UNCHANGED <<clientVars, writerVars, sessionVars, turn, requests,
                   coordVars>>

IgnoredInGame(m) ==
    /\ Received("playing", m) /\ m.msg \in AgreementCommands
    /\ UNCHANGED <<clientVars, writerVars, sessionVars, control, taskVars,
                   requests, coordVars>>

\* The armed deadline drains the inbox before it may flag, so it flags only
\* over an empty one.
Deadline ==
    /\ Awaits("playing") /\ inbox = <<>>
    /\ \E ending \in Flag : Terminate(ending, <<>>)
    /\ UNCHANGED <<clientVars, writerVars, sessionVars, alive, turn,
                   inbox, requests, coordVars>>

\* The record and its sidecar are on disk, or their failure is logged; then the
\* termination lines are queued.
File ==
    /\ Awaits("filing")
    /\ phase' = "telling"
    /\ todo' = Broadcast("OVER")
    /\ UNCHANGED <<clientVars, writerVars, sessionVars, control, alive,
                   boardVars, outcome, inbox, requests, coordVars>>

\* The row, and then both sessions' way back to the pool.
Finish ==
    /\ Awaits("telling")
    /\ Notify(alive, "GameEnded")
    /\ Return
    /\ UNCHANGED <<clientVars, writerVars, sessionVars, requests, coordVars>>

\* A panic anywhere before the termination path drops the task and its inbox.
TaskPanics ==
    /\ "game" \in Faults
    /\ phase \in {"proposing", "playing"}
    /\ phase' = "dead"
    /\ todo' = <<>> /\ inbox' = <<>>
    /\ UNCHANGED <<clientVars, writerVars, sessionVars, control, alive,
                   boardVars, outcome, requests, coordVars>>

\* The supervisor cuts the game off on both connections, whatever the task
\* knew of them.
Watch ==
    /\ phase = "dead"
    /\ out' = [s \in Side |->
                 IF writer[s] /\ Len(out[s]) < OutboundCapacity
                 THEN Append(out[s], "CUTOFF") ELSE out[s]]
    /\ Notify([s \in Side |-> TRUE], "GameEnded")
    /\ Return
    /\ UNCHANGED <<clientVars, writer, sessionVars, requests, coordVars>>

-----------------------------------------------------------------------------
(* The coordinator. *)

\* Faulty: a session back in the pool is still counted as playing.
HandleReadyStillPlaying(s) ==
    /\ requests[s] # <<>> /\ Head(requests[s]) = "Ready"
    /\ requests' = [requests EXCEPT ![s] = Tail(@)]
    /\ pool' = IF s \in registered THEN pool \cup {s} ELSE pool
    /\ UNCHANGED <<clientVars, writerVars, sessionVars, control, taskVars,
                   inbox, registered, playing, games>>

HandleReady(s) ==
    /\ requests[s] # <<>> /\ Head(requests[s]) = "Ready"
    /\ requests' = [requests EXCEPT ![s] = Tail(@)]
    /\ IF s \in registered
       THEN /\ playing' = playing \ {s}
            /\ pool' = pool \cup {s}
       ELSE UNCHANGED <<playing, pool>>
    /\ UNCHANGED <<clientVars, writerVars, sessionVars, control, taskVars,
                   inbox, registered, games>>

HandleGone(s) ==
    /\ requests[s] # <<>> /\ Head(requests[s]) = "Gone"
    /\ requests' = [requests EXCEPT ![s] = Tail(@)]
    /\ pool' = pool \ {s}
    /\ playing' = playing \ {s}
    /\ registered' = registered \ {s}
    /\ UNCHANGED <<clientVars, writerVars, sessionVars, control, taskVars,
                   inbox, games>>

\* Faulty: the session a login replaces keeps its entry.
ReplaceKeepsEntry(s) ==
    /\ s \in Replaced \cap registered
    /\ pool' = pool \ {s}
    /\ playing' = playing \ {s}
    /\ control' = [control EXCEPT ![s] = Tell(s, "Close")]
    /\ UNCHANGED <<clientVars, writerVars, sessionVars, taskVars, inbox,
                   requests, registered, games>>

\* A new login on this session's token replaces it.  In a game that takes a
\* day without a command; out of one it is immediate.
Replace(s) ==
    /\ s \in Replaced \cap registered
    /\ registered' = registered \ {s}
    /\ pool' = pool \ {s}
    /\ playing' = playing \ {s}
    /\ control' = [control EXCEPT ![s] = Tell(s, "Close")]
    /\ UNCHANGED <<clientVars, writerVars, sessionVars, taskVars, inbox,
                   requests, games>>

\* Faulty: nobody marks the pair as playing.
OfferUnmarked ==
    /\ pool = Side
    /\ games < GameBound
    /\ games' = games + 1
    /\ pool' = {}
    /\ Notify([s \in Side |-> TRUE], "Paired")
    /\ phase' = "proposing"
    /\ todo' = Broadcast("SUMMARY")
    /\ alive' = [s \in Side |-> TRUE]
    /\ UNCHANGED <<clientVars, writerVars, sessionVars, boardVars, outcome,
                   inbox, requests, registered, playing>>

\* A round over a pool that holds both sessions: both take Paired before the
\* game task can queue a summary.
Offer ==
    /\ pool = Side
    /\ games < GameBound
    /\ games' = games + 1
    /\ pool' = {}
    /\ playing' = Side
    /\ Notify([s \in Side |-> TRUE], "Paired")
    /\ phase' = "proposing"
    /\ todo' = Broadcast("SUMMARY")
    /\ inbox' = <<>>
    /\ alive' = [s \in Side |-> TRUE]
    /\ agreed' = {}
    /\ turn' = "black"
    /\ outcome' = NoOutcome
    /\ UNCHANGED <<clientVars, writerVars, sessionVars, requests, registered>>

\* The coordinator breaks its preset game off to free a slot.
AskAbort ==
    /\ CoordinatorHolds /\ GameOpen
    /\ Len(inbox) < MessageCapacity
    /\ inbox' = Append(inbox, [msg |-> "ABORT", side |-> "black"])
    /\ UNCHANGED <<clientVars, writerVars, sessionVars, control, taskVars,
                   requests, coordVars>>

-----------------------------------------------------------------------------
ClientStep(s) == ClientSend(s) \/ ClientClose(s)

SessionStep(s) ==
    \/ TakeControl(s) \/ TakeLine(s) \/ SessionSend(s)
    \/ EndOfStream(s) \/ Disconnect(s) \/ CloseSocket(s)

Receive ==
    \E m \in Messages :
        \/ Agree(m) \/ Reject(m) \/ DisconnectedBeforeStart(m)
        \/ IgnoredBeforeStart(m) \/ Move(m) \/ Resign(m) \/ Declare(m)
        \/ KeepAlive(m) \/ Abort(m) \/ Disconnected(m) \/ IgnoredInGame(m)

TaskStep == TaskSend \/ Receive \/ Refused \/ NobodyLeft \/ File \/ Finish

Next ==
    \/ \E s \in Side :
         \/ ClientStep(s) \/ ClientRead(s) \/ WriterEnds(s)
         \/ SessionStep(s) \/ SessionPanics(s)
         \/ HandleReady(s) \/ HandleGone(s) \/ Replace(s)
    \/ TaskStep \/ AgreementExpires \/ Deadline \/ TaskPanics \/ Watch
    \/ Offer \/ AskAbort

Spec == Init /\ [][Next]_vars

\* The runtime schedules every ready task, the timers fire, the supervisor
\* answers and a write to a closed socket fails.  Clients read what they are
\* sent; none is assumed to send anything, to close, or to be replaced.
Fairness ==
    /\ \A s \in Side : /\ WF_vars(SessionStep(s))
                       /\ WF_vars(WriterEnds(s))
                       /\ WF_vars(ClientRead(s))
                       /\ WF_vars(HandleReady(s) \/ HandleGone(s))
    /\ WF_vars(TaskStep)
    /\ WF_vars(AgreementExpires)
    /\ WF_vars(Deadline)
    /\ WF_vars(Watch)

FairSpec == Spec /\ Fairness
=============================================================================
