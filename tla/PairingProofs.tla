--------------------------- MODULE PairingProofs ---------------------------
(***************************************************************************)
(* Theorems about Pairing, for every capacity, every number of games and   *)
(* every combination of client behaviour, replacement and faults.          *)
(***************************************************************************)
EXTENDS PairingProperties, SequenceTheorems, TLAPS

-----------------------------------------------------------------------------
(* The operators the actions are built from *)

\* A channel that loses its head or gains a message is still a channel.
LEMMA TakeHead ==
    ASSUME NEW S, NEW f \in [Side -> Seq(S)], NEW s \in Side, f[s] # <<>>
    PROVE  /\ Head(f[s]) \in S
           /\ [f EXCEPT ![s] = Tail(@)] \in [Side -> Seq(S)]
<1>1. Head(f[s]) \in S /\ Tail(f[s]) \in Seq(S)
      BY HeadTailProperties
<1>2. QED BY <1>1

\* A channel that gains a message of its kind is still a channel.
LEMMA AddLast ==
    ASSUME NEW S, NEW f \in [Side -> Seq(S)], NEW s \in Side, NEW e \in S
    PROVE  [f EXCEPT ![s] = Append(@, e)] \in [Side -> Seq(S)]
BY AppendProperties

\* An edge, or its absence, leaves a state of the machine.
LEMMA AdvanceType ==
    ASSUME NEW state \in States, NEW edge
    PROVE  Advance(state, edge) \in States
<1>1. CASE HasArrow(state, edge)
      BY <1>1 DEF Advance, HasArrow
<1>2. CASE ~HasArrow(state, edge)
      BY <1>2 DEF Advance
<1>3. QED BY <1>1, <1>2

\* A broadcast is two lines, one to each side.
LEMMA BroadcastType ==
    ASSUME NEW line \in OutLines
    PROVE  Broadcast(line) \in Seq(Todos)
BY DEF Broadcast, Todos, Side

\* Telling an edge keeps every control channel a sequence of control messages.
LEMMA NotifyType ==
    ASSUME control \in [Side -> Seq(Controls)],
           NEW living \in [Side -> BOOLEAN], NEW edge \in Controls,
           Notify(living, edge)
    PROVE  control' \in [Side -> Seq(Controls)]
BY DEF Notify, Tell

\* What a line is answered with is one of the machine's dispositions, and what a
\* disconnect sends the game task is one of its messages.
LEMMA DisconnectMessage ==
    ASSUME NEW state \in States, OnDisconnect(state) # "DropSession"
    PROVE  OnDisconnect(state) \in GameMessages
BY DEF OnDisconnect, GameMessages, States

\* A task that returns leaves its variables as they are before a game.
LEMMA ReturnType ==
    ASSUME Return
    PROVE  /\ phase' \in Phases /\ todo' \in Seq(Todos)
           /\ inbox' \in Seq(Messages) /\ alive' \in [Side -> BOOLEAN]
           /\ agreed' \subseteq Side /\ turn' \in Side
           /\ outcome' \in Outcomes \cup {NoOutcome}
BY DEF Return, Phases, Side

-----------------------------------------------------------------------------
(* Type correctness *)

USE DEF vars, clientVars, writerVars, sessionVars, boardVars, taskVars, coordVars

\* What a step leaves alone keeps its type.
LEMMA UnchangedType ==
    ASSUME TypeOK
    PROVE  /\ UNCHANGED clientVars  => ClientsOK'
           /\ UNCHANGED writerVars  => WritersOK'
           /\ UNCHANGED sessionVars => SessionsOK'
           /\ UNCHANGED control     => ControlOK'
           /\ UNCHANGED taskVars    => TaskOK'
           /\ UNCHANGED inbox       => InboxOK'
           /\ UNCHANGED requests    => RequestsOK'
           /\ UNCHANGED coordVars   => CoordinatorOK'
BY DEF TypeOK, ClientsOK, WritersOK, SessionsOK, ControlOK, TaskOK, InboxOK,
       RequestsOK, CoordinatorOK

\* What a session sends a game task keeps the inbox a sequence of messages.
LEMMA PostType ==
    ASSUME InboxOK, NEW m \in GameMessages, NEW s \in Side,
           \/ inbox' = inbox
           \/ inbox' = Append(inbox, [msg |-> m, side |-> s])
    PROVE  InboxOK'
<1>1. [msg |-> m, side |-> s] \in Messages
      BY DEF Messages
<1>2. QED BY <1>1, AppendProperties DEF InboxOK

\* The initial state: two sessions that have just reported themselves ready.
LEMMA InitType == Init => TypeOK
BY DEF Init, TypeOK, ClientsOK, WritersOK, SessionsOK, ControlOK, TaskOK,
       InboxOK, RequestsOK, CoordinatorOK, Prompts, States, Phases, Side

\* What a client and its writer do keeps the types.
LEMMA ClientType ==
    ASSUME TypeOK, NEW s \in Side,
           \/ ClientSend(s) \/ ClientClose(s) \/ ClientRead(s) \/ WriterEnds(s)
    PROVE  TypeOK'
<1>1. CASE ClientSend(s)
  <2>1. ClientsOK'
        BY <1>1 DEF TypeOK, ClientsOK, ClientSend, Sendable, ClientLines,
                    Commands, AgreementCommands, GameCommands, LoginCommands,
                    OtherCommands
  <2>2. QED BY <1>1, <2>1, UnchangedType DEF TypeOK, ClientSend
<1>2. CASE ClientClose(s)
  <2>1. ClientsOK'
        BY <1>2 DEF TypeOK, ClientsOK, ClientClose
  <2>2. QED BY <1>2, <2>1, UnchangedType DEF TypeOK, ClientClose
<1>3. CASE ClientRead(s)
  <2>1. ClientsOK'
        BY <1>3 DEF TypeOK, ClientsOK, WritersOK, ClientRead
  <2>2. WritersOK'
        BY <1>3 DEF TypeOK, WritersOK, ClientRead
  <2>3. QED BY <1>3, <2>1, <2>2, UnchangedType DEF TypeOK, ClientRead
<1>4. CASE WriterEnds(s)
  <2>1. WritersOK'
        BY <1>4 DEF TypeOK, WritersOK, WriterEnds
  <2>2. QED BY <1>4, <2>1, UnchangedType DEF TypeOK, WriterEnds
<1>5. QED BY <1>1, <1>2, <1>3, <1>4

\* What a session task does keeps the types.
LEMMA SessionType ==
    ASSUME TypeOK, NEW s \in Side, SessionStep(s) \/ SessionPanics(s)
    PROVE  TypeOK'
<1>1. CASE TakeControl(s)
  <2>1. /\ Head(control[s]) \in Controls
        /\ control' = [control EXCEPT ![s] = Tail(@)]
        /\ control' \in [Side -> Seq(Controls)]
        BY <1>1, TakeHead DEF TypeOK, ControlOK, TakeControl
  <2>2. \A edge : Advance(sess[s], edge) \in States
        BY AdvanceType DEF TypeOK, SessionsOK
  <2>3. \A edge : Advance(Advance(sess[s], "GameEnded"), edge) \in States
        BY <2>2, AdvanceType
  <2>4. SessionsOK'
    <3>1. pc' = pc \/ pc' = [pc EXCEPT ![s] = "closing"]
          BY <1>1 DEF TakeControl
    <3>2. \/ sess' = sess
          \/ \E to \in States : sess' = [sess EXCEPT ![s] = to]
          BY <1>1, <2>2, <2>3 DEF TakeControl
    <3>3. \/ game' = game
          \/ game' = [game EXCEPT ![s] = TRUE]
          \/ game' = [game EXCEPT ![s] = FALSE]
          BY <1>1 DEF TakeControl
    <3>4. pend' = pend
          BY <1>1 DEF TakeControl
    <3>5. QED BY <3>1, <3>2, <3>3, <3>4 DEF TypeOK, SessionsOK
  <2>5. RequestsOK'
    <3>1. \/ requests' = requests
          \/ requests' = [requests EXCEPT ![s] = Append(@, "Ready")]
          BY <1>1 DEF TakeControl
    <3>2. requests \in [Side -> Seq({"Ready", "Gone"})]
          BY DEF TypeOK, RequestsOK
    <3>3. [requests EXCEPT ![s] = Append(@, "Ready")]
             \in [Side -> Seq({"Ready", "Gone"})]
          BY <3>2, AddLast
    <3>4. QED BY <3>1, <3>2, <3>3 DEF RequestsOK
  <2>6. QED BY <1>1, <2>1, <2>4, <2>5, UnchangedType
            DEF TypeOK, ControlOK, TakeControl
<1>2. CASE TakeLine(s)
  <2>1. /\ Head(lines[s]) \in ClientLines
        /\ lines' \in [Side -> Seq(ClientLines)]
        BY <1>2, TakeHead DEF TypeOK, ClientsOK, TakeLine
  <2>2. ClientsOK'
        BY <1>2, <2>1 DEF TypeOK, ClientsOK, TakeLine
  <2>3. Head(lines[s]).cmd \in Commands
        BY <2>1 DEF ClientLines
  <2>4. SessionsOK'
    <3> DEFINE command == Head(lines[s]).cmd
               Sends   == Seq(OutLines \cup GameMessages)
    <3>0. ASSUME NEW c \in GameMessages
          PROVE  /\ Forward(s, c) \in Sends
                 /\ <<"ECHO">> \o Forward(s, c) \in Sends
                 /\ <<>> \o Forward(s, c) \in Sends
      <4>1. CASE game[s]
            BY <3>0, <4>1 DEF Forward, OutLines
      <4>2. CASE ~game[s]
            BY <3>0, <4>2 DEF Forward, OutLines
      <4>3. QED BY <4>1, <4>2
    <3>1. pc' = pc \/ \E next \in {"loop", "closing"} : pc' = [pc EXCEPT ![s] = next]
          BY <1>2 DEF TakeLine
    <3>2. CASE Route(sess[s], command) \in {"RouteAgreement", "RouteGame"}
      <4>1. command \in GameMessages
            BY <2>3, <3>2 DEF Route, Commands, GameMessages, LoginCommands, OtherCommands
      <4>2. Forward(s, command) \in Sends
            BY <3>0, <4>1
      <4>3. QED BY <1>2, <3>1, <3>2, <4>2 DEF TypeOK, SessionsOK, TakeLine
    <3>3. CASE Route(sess[s], command) = "KeepAlive"
      <4>1. command = "KEEPALIVE"
            BY <2>3, <3>3 DEF Route, Commands, AgreementCommands, GameCommands,
                              LoginCommands, OtherCommands
      <4>2. command \in GameMessages
            BY <4>1 DEF GameMessages
      <4>3. \A echo \in {<<>>, <<"ECHO">>} : echo \o Forward(s, command) \in Sends
            BY <3>0, <4>2
      <4>4. QED BY <1>2, <3>1, <3>3, <4>3 DEF TypeOK, SessionsOK, TakeLine
    <3>4. CASE Route(sess[s], command) \notin
                 {"RouteAgreement", "RouteGame", "KeepAlive"}
      <4>1. \/ pend' = pend
            \/ pend' = [pend EXCEPT ![s] = <<"BYE">>]
            \/ pend' = [pend EXCEPT ![s] = <<"UNKNOWN">>]
            BY <1>2, <3>4 DEF TakeLine
      <4>2. <<"BYE">> \in Sends /\ <<"UNKNOWN">> \in Sends
            BY DEF OutLines
      <4>3. QED BY <1>2, <3>1, <4>1, <4>2 DEF TypeOK, SessionsOK, TakeLine
    <3>5. QED BY <3>2, <3>3, <3>4
  <2>5. QED BY <1>2, <2>2, <2>4, UnchangedType DEF TypeOK, TakeLine
<1>3. CASE SessionSend(s)
  <2>1. pend' \in [Side -> Seq(OutLines \cup GameMessages)]
        BY <1>3, TakeHead DEF TypeOK, SessionsOK, SessionSend
  <2>2. SessionsOK'
        BY <1>3, <2>1 DEF TypeOK, SessionsOK, SessionSend
  <2>3. WritersOK'
    <3>1. \/ out' = out
          \/ \E line \in OutLines : out' = [out EXCEPT ![s] = Append(@, line)]
          BY <1>3 DEF TypeOK, WritersOK, SessionSend
    <3>2. writer' = writer
          BY <1>3 DEF SessionSend
    <3>3. \A line \in OutLines :
             [out EXCEPT ![s] = Append(@, line)] \in [Side -> Seq(OutLines)]
          BY AddLast DEF TypeOK, WritersOK
    <3>4. QED BY <3>1, <3>2, <3>3 DEF TypeOK, WritersOK
  <2>4. InboxOK'
    <3>1. \/ inbox' = inbox
          \/ \E m \in GameMessages : inbox' = Append(inbox, [msg |-> m, side |-> s])
          BY <1>3 DEF SessionSend
    <3>2. QED BY <3>1, PostType DEF TypeOK, InboxOK
  <2>5. QED BY <1>3, <2>2, <2>3, <2>4, UnchangedType DEF TypeOK, SessionSend
<1>4. CASE EndOfStream(s)
  <2>1. SessionsOK'
        BY <1>4 DEF TypeOK, SessionsOK, EndOfStream
  <2>2. QED BY <1>4, <2>1, UnchangedType DEF TypeOK, EndOfStream
<1>5. CASE Disconnect(s)
  <2>1. ClientsOK' /\ ControlOK' /\ RequestsOK'
        BY <1>5 DEF TypeOK, ClientsOK, ControlOK, RequestsOK, Disconnect
  <2>2. SessionsOK'
        BY <1>5 DEF TypeOK, SessionsOK, Disconnect
  <2>3. InboxOK'
    <3>1. \/ inbox' = inbox
          \/ \E m \in GameMessages : inbox' = Append(inbox, [msg |-> m, side |-> s])
          BY <1>5, DisconnectMessage DEF TypeOK, SessionsOK, Disconnect
    <3>2. QED BY <3>1, PostType DEF TypeOK, InboxOK
  <2>4. QED BY <1>5, <2>1, <2>2, <2>3, UnchangedType DEF TypeOK, Disconnect
<1>6. CASE CloseSocket(s)
  <2>1. ClientsOK' /\ SessionsOK'
        BY <1>6 DEF TypeOK, ClientsOK, SessionsOK, CloseSocket
  <2>2. QED BY <1>6, <2>1, UnchangedType DEF TypeOK, CloseSocket
<1>7. CASE SessionPanics(s)
  <2>1. ClientsOK' /\ RequestsOK'
        BY <1>7 DEF TypeOK, ClientsOK, RequestsOK, SessionPanics
  <2>2. SessionsOK'
        BY <1>7 DEF TypeOK, SessionsOK, SessionPanics
  <2>3. InboxOK'
    <3>1. \/ inbox' = inbox
          \/ \E m \in GameMessages : inbox' = Append(inbox, [msg |-> m, side |-> s])
          BY <1>7, DisconnectMessage DEF TypeOK, SessionsOK, SessionPanics
    <3>2. QED BY <3>1, PostType DEF TypeOK, InboxOK
  <2>4. QED BY <1>7, <2>1, <2>2, <2>3, UnchangedType DEF TypeOK, SessionPanics
<1>8. QED BY <1>1, <1>2, <1>3, <1>4, <1>5, <1>6, <1>7 DEF SessionStep

\* An ending the game task fixes is an outcome.
LEMMA FlagType ==
    ASSUME TypeOK, NEW s \in Side
    PROVE  /\ Flag \subseteq Outcomes
           /\ FlagOf(s) \subseteq Outcomes
           /\ OnBoard \in Outcomes
           /\ Ended("disconnect", s) \in Outcomes
           /\ Ended("abort", "none") \in Outcomes
<1>1. turn \in Side
      BY DEF TypeOK, TaskOK
<1>2. Ended("timeup", turn) \in Outcomes
      BY <1>1 DEF Ended, Outcomes, Endings
<1>3. OnBoard \in Outcomes /\ Ended("abort", "none") \in Outcomes
      BY DEF OnBoard, Ended, Outcomes, Endings
<1>4. Ended("disconnect", s) \in Outcomes
      BY DEF Ended, Outcomes, Endings
<1>5. QED BY <1>2, <1>3, <1>4 DEF Flag, FlagOf

\* The termination path fixes an outcome and has the relays to queue.
LEMMA TerminateType ==
    ASSUME TypeOK, NEW ending \in Outcomes, NEW relayed \in Seq(Todos),
           Terminate(ending, relayed)
    PROVE  /\ phase' \in Phases /\ todo' \in Seq(Todos)
           /\ agreed' \subseteq Side
           /\ outcome' \in Outcomes \cup {NoOutcome}
           /\ ControlOK'
BY DEF Terminate, TypeOK, TaskOK, ControlOK, Phases

\* What a loop receives is a message, and leaves a channel.
LEMMA ReceivedType ==
    ASSUME TypeOK, NEW loop, NEW m, Received(loop, m)
    PROVE  m \in Messages /\ m.side \in Side /\ InboxOK'
<1>1. Head(inbox) \in Messages /\ Tail(inbox) \in Seq(Messages)
      BY HeadTailProperties DEF Received, TypeOK, InboxOK
<1>2. QED BY <1>1 DEF Received, Messages, InboxOK

\* What the game task leaves alone whatever it does.
LEMMA TaskFrame ==
    ASSUME TypeOK, UNCHANGED <<clientVars, sessionVars, requests, coordVars>>
    PROVE  ClientsOK' /\ SessionsOK' /\ RequestsOK' /\ CoordinatorOK'
BY UnchangedType

\* What the loop over an offer does keeps the types.
LEMMA OfferType ==
    ASSUME TypeOK, NEW m \in Messages,
           \/ Agree(m) \/ Reject(m) \/ DisconnectedBeforeStart(m)
           \/ IgnoredBeforeStart(m) \/ IgnoredInGame(m)
    PROVE  TypeOK'
<1>0. alive \in [Side -> BOOLEAN] /\ ControlOK /\ m.side \in Side
      BY DEF TypeOK, TaskOK, Messages
<1>1. CASE Agree(m)
  <2>1. InboxOK'
        BY <1>1, ReceivedType DEF Agree
  <2>2. ControlOK'
    <3>1. control' = control \/ Notify(alive, "Started")
          BY <1>1 DEF Agree
    <3>2. QED BY <1>0, <3>1, NotifyType DEF ControlOK, Controls
  <2>3. phase' \in Phases /\ todo' \in Seq(Todos)
    <3>1. \/ phase' = phase /\ todo' = todo
          \/ phase' = "playing" /\ todo' = Broadcast("START")
          BY <1>1 DEF Agree
    <3>2. QED BY <3>1, BroadcastType
              DEF TypeOK, TaskOK, Phases, OutLines, Prompts
  <2>4. agreed' \subseteq Side
        BY <1>0, <1>1 DEF TypeOK, TaskOK, Agree
  <2>5. TaskOK'
        BY <1>1, <2>3, <2>4 DEF TypeOK, TaskOK, Agree
  <2>6. QED BY <1>1, <2>1, <2>2, <2>5, UnchangedType, TaskFrame DEF TypeOK, Agree
<1>2. CASE Reject(m)
  <2>1. InboxOK'
        BY <1>2, ReceivedType DEF Reject
  <2>2. TaskOK'
        BY <1>2, BroadcastType
        DEF TypeOK, TaskOK, Reject, Refuse, Phases, OutLines, Prompts
  <2>3. QED BY <1>2, <2>1, <2>2, UnchangedType DEF TypeOK, Reject, Refuse
<1>3. CASE DisconnectedBeforeStart(m)
  <2>1. [alive EXCEPT ![m.side] = FALSE] \in [Side -> BOOLEAN]
        BY <1>0
  <2>2. ControlOK'
        BY <1>0, <1>3, <2>1, NotifyType
        DEF ControlOK, DisconnectedBeforeStart, Discard, Controls
  <2>3. TaskOK' /\ InboxOK'
        BY <1>3, ReturnType DEF TaskOK, InboxOK, DisconnectedBeforeStart, Discard
  <2>4. QED BY <1>3, <2>2, <2>3, UnchangedType DEF TypeOK, DisconnectedBeforeStart
<1>4. CASE IgnoredBeforeStart(m)
  <2>1. InboxOK'
        BY <1>4, ReceivedType DEF IgnoredBeforeStart
  <2>2. QED BY <1>4, <2>1, UnchangedType DEF TypeOK, IgnoredBeforeStart
<1>5. CASE IgnoredInGame(m)
  <2>1. InboxOK'
        BY <1>5, ReceivedType DEF IgnoredInGame
  <2>2. QED BY <1>5, <2>1, UnchangedType DEF TypeOK, IgnoredInGame
<1>6. QED BY <1>1, <1>2, <1>3, <1>4, <1>5

\* A step of the move loop goes on, relays, or terminates: whichever it is, the
\* task's variables keep their types.
LEMMA LoopType ==
    ASSUME TypeOK, alive' \in [Side -> BOOLEAN], turn' \in Side,
           \/ UNCHANGED <<control, phase, todo, agreed, outcome>>
           \/ /\ todo' = Broadcast("RELAY")
              /\ UNCHANGED <<control, phase, agreed, outcome>>
           \/ \E ending \in Outcomes, relayed \in {<<>>, Broadcast("RELAY")} :
                Terminate(ending, relayed)
    PROVE  TaskOK' /\ ControlOK'
<1>1. Broadcast("RELAY") \in Seq(Todos) /\ <<>> \in Seq(Todos)
      BY BroadcastType DEF OutLines, Prompts
<1>2. CASE UNCHANGED <<control, phase, todo, agreed, outcome>>
      BY <1>2 DEF TypeOK, TaskOK, ControlOK
<1>3. CASE /\ todo' = Broadcast("RELAY")
           /\ UNCHANGED <<control, phase, agreed, outcome>>
      BY <1>1, <1>3 DEF TypeOK, TaskOK, ControlOK
<1>4. CASE \E ending \in Outcomes, relayed \in {<<>>, Broadcast("RELAY")} :
             Terminate(ending, relayed)
      BY <1>1, <1>4, TerminateType DEF TaskOK
<1>5. QED BY <1>2, <1>3, <1>4

\* What the loop over a game does keeps the types.
LEMMA GameType ==
    ASSUME TypeOK, NEW m \in Messages,
           \/ Move(m) \/ Resign(m) \/ Declare(m) \/ KeepAlive(m) \/ Abort(m)
           \/ Disconnected(m)
    PROVE  TypeOK'
<1>0. /\ alive \in [Side -> BOOLEAN] /\ turn \in Side /\ m.side \in Side
      /\ Other(turn) \in Side
      BY DEF TypeOK, TaskOK, Messages, Other, Side
<1>1. /\ Flag \subseteq Outcomes /\ FlagOf(m.side) \subseteq Outcomes
      /\ OnBoard \in Outcomes /\ Ended("abort", "none") \in Outcomes
      /\ Ended("disconnect", m.side) \in Outcomes
      BY <1>0, FlagType
<1>2. CASE Move(m)
  <2>1. InboxOK'
        BY <1>2, ReceivedType DEF Move
  <2>2. alive' \in [Side -> BOOLEAN] /\ turn' \in Side
        BY <1>0, <1>2 DEF Move, Relayed, NotRelayed
  <2>3. \/ UNCHANGED <<control, phase, todo, agreed, outcome>>
        \/ /\ todo' = Broadcast("RELAY")
           /\ UNCHANGED <<control, phase, agreed, outcome>>
        \/ \E ending \in Outcomes, relayed \in {<<>>, Broadcast("RELAY")} :
             Terminate(ending, relayed)
        BY <1>1, <1>2 DEF Move, Relayed, NotRelayed
  <2>4. TaskOK' /\ ControlOK'
        BY <2>2, <2>3, LoopType
  <2>5. QED BY <1>2, <2>1, <2>4, UnchangedType DEF TypeOK, Move
<1>3. CASE Resign(m)
  <2>1. InboxOK'
        BY <1>3, ReceivedType DEF Resign
  <2>2. \E ending \in Outcomes : Terminate(ending, <<>>)
        BY <1>1, <1>3 DEF Resign
  <2>3. TaskOK' /\ ControlOK'
        BY <1>0, <1>3, <2>2, LoopType DEF Resign
  <2>4. QED BY <1>3, <2>1, <2>3, UnchangedType DEF TypeOK, Resign
<1>4. CASE Declare(m)
  <2>1. InboxOK'
        BY <1>4, ReceivedType DEF Declare
  <2>2. \/ UNCHANGED <<control, phase, todo, agreed, outcome>>
        \/ \E ending \in Outcomes : Terminate(ending, <<>>)
        BY <1>1, <1>4 DEF Declare
  <2>3. TaskOK' /\ ControlOK'
        BY <1>0, <1>4, <2>2, LoopType DEF Declare
  <2>4. QED BY <1>4, <2>1, <2>3, UnchangedType DEF TypeOK, Declare
<1>5. CASE KeepAlive(m)
  <2>1. InboxOK'
        BY <1>5, ReceivedType DEF KeepAlive
  <2>2. \/ UNCHANGED <<control, phase, todo, agreed, outcome>>
        \/ \E ending \in Outcomes : Terminate(ending, <<>>)
        BY <1>1, <1>5 DEF KeepAlive
  <2>3. TaskOK' /\ ControlOK'
        BY <1>0, <1>5, <2>2, LoopType DEF KeepAlive
  <2>4. QED BY <1>5, <2>1, <2>3, UnchangedType DEF TypeOK, KeepAlive
<1>6. CASE Abort(m)
  <2>1. InboxOK'
        BY <1>6, ReceivedType DEF Abort
  <2>2. TaskOK' /\ ControlOK'
        BY <1>0, <1>1, <1>6, LoopType DEF Abort
  <2>3. QED BY <1>6, <2>1, <2>2, UnchangedType DEF TypeOK, Abort
<1>7. CASE Disconnected(m)
  <2>1. InboxOK'
        BY <1>7, ReceivedType DEF Disconnected
  <2>2. alive' \in [Side -> BOOLEAN] /\ turn' \in Side
        BY <1>0, <1>7 DEF Disconnected
  <2>3. \/ UNCHANGED <<control, phase, todo, agreed, outcome>>
        \/ \E ending \in Outcomes : Terminate(ending, <<>>)
        BY <1>1, <1>7 DEF Disconnected
  <2>4. TaskOK' /\ ControlOK'
        BY <2>2, <2>3, LoopType
  <2>5. QED BY <1>7, <2>1, <2>4, UnchangedType DEF TypeOK, Disconnected
<1>8. QED BY <1>2, <1>3, <1>4, <1>5, <1>6, <1>7

\* The steps the task takes of its own accord, and its supervisor's.
LEMMA TaskType ==
    ASSUME TypeOK,
           \/ TaskSend \/ AgreementExpires \/ Refused \/ NobodyLeft \/ Deadline
           \/ File \/ Finish \/ TaskPanics \/ Watch
    PROVE  TypeOK'
<1>0. alive \in [Side -> BOOLEAN] /\ ControlOK
      BY DEF TypeOK, TaskOK
<1>1. CASE TaskSend
  <2>1. /\ Head(todo) \in Todos /\ Tail(todo) \in Seq(Todos)
        /\ Head(todo).to \in Side /\ Head(todo).line \in OutLines
    <3>1. todo \in Seq(Todos) /\ todo # <<>>
          BY <1>1 DEF TaskSend, TypeOK, TaskOK
    <3>2. Head(todo) \in Todos /\ Tail(todo) \in Seq(Todos)
          BY <3>1, HeadTailProperties
    <3>3. QED BY <3>2 DEF Todos
  <2>2. [out EXCEPT ![Head(todo).to] = Append(@, Head(todo).line)]
           \in [Side -> Seq(OutLines)]
        BY <2>1, AddLast DEF TypeOK, WritersOK
  <2>3. \/ out' = out
        \/ out' = [out EXCEPT ![Head(todo).to] = Append(@, Head(todo).line)]
        BY <1>1 DEF TaskSend, TypeOK, WritersOK
  <2>4. WritersOK'
        BY <1>1, <2>2, <2>3 DEF TaskSend, TypeOK, WritersOK
  <2>5. alive[Head(todo).to] \in BOOLEAN /\ writer[Head(todo).to] \in BOOLEAN
        BY <1>0, <2>1 DEF TypeOK, WritersOK
  <2>6. alive' \in [Side -> BOOLEAN]
        BY <1>0, <1>1, <2>1, <2>5 DEF TaskSend
  <2>7. TaskOK'
        BY <1>1, <2>1, <2>6 DEF TaskSend, TypeOK, TaskOK
  <2>8. QED BY <1>1, <2>4, <2>7, UnchangedType DEF TypeOK, TaskSend
<1>2. CASE AgreementExpires
  <2>1. TaskOK'
        BY <1>2, BroadcastType
        DEF TypeOK, TaskOK, AgreementExpires, Refuse, Phases, OutLines, Prompts
  <2>2. QED BY <1>2, <2>1, UnchangedType DEF TypeOK, AgreementExpires, Refuse
<1>3. CASE Refused
  <2>1. ControlOK'
        BY <1>0, <1>3, NotifyType DEF ControlOK, Refused, Discard, Controls
  <2>2. TaskOK' /\ InboxOK'
        BY <1>3, ReturnType DEF TaskOK, InboxOK, Refused, Discard
  <2>3. QED BY <1>3, <2>1, <2>2, UnchangedType DEF TypeOK, Refused
<1>4. CASE NobodyLeft
  <2>1. TaskOK' /\ InboxOK'
        BY <1>4, ReturnType DEF TaskOK, InboxOK, NobodyLeft
  <2>2. QED BY <1>4, <2>1, UnchangedType DEF TypeOK, NobodyLeft
<1>5. CASE Deadline
  <2>1. \E ending \in Outcomes : Terminate(ending, <<>>)
        BY <1>5, FlagType DEF Deadline, Side
  <2>2. turn' = turn /\ alive' = alive
        BY <1>5 DEF Deadline
  <2>3. TaskOK' /\ ControlOK'
        BY <1>0, <2>1, <2>2, LoopType DEF TypeOK, TaskOK
  <2>4. QED BY <1>5, <2>3, UnchangedType DEF TypeOK, Deadline
<1>6. CASE File
  <2>1. TaskOK'
        BY <1>6, BroadcastType DEF TypeOK, TaskOK, File, Phases, OutLines, Prompts
  <2>2. QED BY <1>6, <2>1, UnchangedType DEF TypeOK, File
<1>7. CASE Finish
  <2>1. ControlOK'
        BY <1>0, <1>7, NotifyType DEF ControlOK, Finish, Controls
  <2>2. TaskOK' /\ InboxOK'
        BY <1>7, ReturnType DEF TaskOK, InboxOK, Finish
  <2>3. QED BY <1>7, <2>1, <2>2, UnchangedType DEF TypeOK, Finish
<1>8. CASE TaskPanics
  <2>1. TaskOK' /\ InboxOK'
        BY <1>8 DEF TypeOK, TaskOK, InboxOK, TaskPanics, Phases
  <2>2. QED BY <1>8, <2>1, UnchangedType DEF TypeOK, TaskPanics
<1>9. CASE Watch
  <2>1. \A s \in Side : Append(out[s], "CUTOFF") \in Seq(OutLines)
        BY AppendProperties DEF TypeOK, WritersOK, OutLines, Prompts
  <2>2. WritersOK'
        BY <1>9, <2>1 DEF TypeOK, WritersOK, Watch
  <2>3. [s \in Side |-> TRUE] \in [Side -> BOOLEAN]
        OBVIOUS
  <2>4. ControlOK'
        BY <1>0, <1>9, <2>3, NotifyType DEF ControlOK, Watch, Controls
  <2>5. TaskOK' /\ InboxOK'
        BY <1>9, ReturnType DEF TaskOK, InboxOK, Watch
  <2>6. QED BY <1>9, <2>2, <2>4, <2>5, UnchangedType DEF TypeOK, Watch
<1>10. QED BY <1>1, <1>2, <1>3, <1>4, <1>5, <1>6, <1>7, <1>8, <1>9

\* What the coordinator does keeps the types.
LEMMA CoordinatorType ==
    ASSUME TypeOK,
           \/ Offer \/ AskAbort
           \/ \E s \in Side : HandleReady(s) \/ HandleGone(s) \/ Replace(s)
    PROVE  TypeOK'
<1>1. CASE Offer
  <2>1. [s \in Side |-> TRUE] \in [Side -> BOOLEAN]
        OBVIOUS
  <2>2. ControlOK'
        BY <1>1, <2>1, NotifyType DEF TypeOK, ControlOK, Offer, Controls
  <2>3. TaskOK' /\ InboxOK'
        BY <1>1, <2>1, BroadcastType
        DEF TaskOK, InboxOK, Offer, Phases, OutLines, Prompts, Side
  <2>4. CoordinatorOK'
        BY <1>1 DEF TypeOK, CoordinatorOK, Offer
  <2>5. QED BY <1>1, <2>2, <2>3, <2>4, UnchangedType DEF TypeOK, Offer
<1>2. CASE AskAbort
  <2>1. InboxOK'
        BY <1>2, PostType DEF TypeOK, AskAbort, GameMessages, Side
  <2>2. QED BY <1>2, <2>1, UnchangedType DEF TypeOK, AskAbort
<1>3. ASSUME NEW s \in Side, HandleReady(s)
      PROVE  TypeOK'
  <2>1. RequestsOK'
        BY <1>3, TakeHead DEF TypeOK, RequestsOK, HandleReady
  <2>2. CoordinatorOK'
        BY <1>3 DEF TypeOK, CoordinatorOK, HandleReady
  <2>3. QED BY <1>3, <2>1, <2>2, UnchangedType DEF TypeOK, HandleReady
<1>4. ASSUME NEW s \in Side, HandleGone(s)
      PROVE  TypeOK'
  <2>1. RequestsOK'
        BY <1>4, TakeHead DEF TypeOK, RequestsOK, HandleGone
  <2>2. CoordinatorOK'
        BY <1>4 DEF TypeOK, CoordinatorOK, HandleGone
  <2>3. QED BY <1>4, <2>1, <2>2, UnchangedType DEF TypeOK, HandleGone
<1>5. ASSUME NEW s \in Side, Replace(s)
      PROVE  TypeOK'
  <2>1. [control EXCEPT ![s] = Append(@, "Close")] \in [Side -> Seq(Controls)]
        BY AddLast DEF TypeOK, ControlOK, Controls
  <2>2. \/ control' = control
        \/ control' = [control EXCEPT ![s] = Append(@, "Close")]
        BY <1>5 DEF Replace, Tell, TypeOK, ControlOK
  <2>3. ControlOK'
        BY <2>1, <2>2 DEF TypeOK, ControlOK
  <2>4. CoordinatorOK'
        BY <1>5 DEF TypeOK, CoordinatorOK, Replace
  <2>5. QED BY <1>5, <2>3, <2>4, UnchangedType DEF TypeOK, Replace
<1>6. QED BY <1>1, <1>2, <1>3, <1>4, <1>5

\* Every step keeps the types.
LEMMA NextType == TypeOK /\ [Next]_vars => TypeOK'
<1> SUFFICES ASSUME TypeOK, [Next]_vars PROVE TypeOK'
    OBVIOUS
<1>1. CASE UNCHANGED vars
      BY <1>1, UnchangedType DEF TypeOK
<1>2. ASSUME NEW s \in Side,
             \/ ClientStep(s) \/ ClientRead(s) \/ WriterEnds(s)
             \/ SessionStep(s) \/ SessionPanics(s)
             \/ HandleReady(s) \/ HandleGone(s) \/ Replace(s)
      PROVE  TypeOK'
      BY <1>2, ClientType, SessionType, CoordinatorType DEF ClientStep
<1>3. CASE Receive
      BY <1>3, OfferType, GameType DEF Receive
<1>4. CASE TaskSend \/ Refused \/ NobodyLeft \/ File \/ Finish
           \/ AgreementExpires \/ Deadline \/ TaskPanics \/ Watch
      BY <1>4, TaskType
<1>5. CASE Offer \/ AskAbort
      BY <1>5, CoordinatorType
<1>6. QED BY <1>1, <1>2, <1>3, <1>4, <1>5 DEF Next, TaskStep

\* Type correctness: the session state, the channels, the game task and the
\* registry hold values of their kinds for ever (TypeOK).
THEOREM TypeCorrect == Spec => []TypeOK
BY InitType, NextType, PTL DEF Spec

-----------------------------------------------------------------------------
(* One claim to the next game *)

\* What appending to a queue does to what is said of it.
LEMMA AppendedQueue ==
    ASSUME NEW S, NEW queue \in Seq(S), NEW e \in S
    PROVE  /\ \A kinds : Has(Append(queue, e), kinds)
                           <=> (Has(queue, kinds) \/ e \in kinds)
           /\ (OnlyClose(queue) /\ e = "Close") => OnlyClose(Append(queue, e))
           /\ (EndingLast(queue) /\ e = "Close") => EndingLast(Append(queue, e))
           /\ ~Has(queue, LastEdges) => EndingLast(Append(queue, e))
           /\ (OneReady(queue) /\ e # "Ready") => OneReady(Append(queue, e))
           /\ ~Has(queue, {"Ready"}) => OneReady(Append(queue, e))
<1> DEFINE more == Append(queue, e)
<1>1. /\ Len(more) = Len(queue) + 1 /\ Len(queue) \in Nat
      /\ \A i \in 1..Len(queue) : more[i] = queue[i]
      /\ more[Len(queue) + 1] = e
      BY AppendProperties
<1>2. \A i \in 1..Len(more) : i \in 1..Len(queue) \/ i = Len(queue) + 1
      BY <1>1
<1> HIDE DEF more
<1>3. \A kinds : Has(more, kinds) <=> (Has(queue, kinds) \/ e \in kinds)
      BY <1>1, <1>2 DEF Has
<1>4. (OnlyClose(queue) /\ e = "Close") => OnlyClose(more)
      BY <1>1, <1>2 DEF OnlyClose
<1>5. (EndingLast(queue) /\ e = "Close") => EndingLast(more)
      BY <1>1, <1>2 DEF EndingLast
<1>6. ~Has(queue, LastEdges) => EndingLast(more)
      BY <1>1, <1>2 DEF EndingLast, Has
<1>7. (OneReady(queue) /\ e # "Ready") => OneReady(more)
      BY <1>1, <1>2 DEF OneReady
<1>8. ~Has(queue, {"Ready"}) => OneReady(more)
      BY <1>1, <1>2 DEF OneReady, Has
<1>9. QED BY <1>3, <1>4, <1>5, <1>6, <1>7, <1>8 DEF more

\* What taking the head of a queue does.
LEMMA TakenQueue ==
    ASSUME NEW S, NEW queue \in Seq(S), queue # <<>>
    PROVE  /\ \A kinds : Has(Tail(queue), kinds) => Has(queue, kinds)
           /\ \A kinds : Head(queue) \in kinds => Has(queue, kinds)
           /\ OnlyClose(queue) => OnlyClose(Tail(queue))
           /\ OnlyClose(queue) => Head(queue) = "Close"
           /\ EndingLast(queue) => EndingLast(Tail(queue))
           /\ (EndingLast(queue) /\ Head(queue) \in LastEdges)
                => OnlyClose(Tail(queue))
           /\ OneReady(queue) => OneReady(Tail(queue))
           /\ (OneReady(queue) /\ Head(queue) = "Ready")
                => ~Has(Tail(queue), {"Ready"})
<1> DEFINE rest == Tail(queue)
<1>1. /\ Len(queue) \in Nat \ {0} /\ Len(rest) = Len(queue) - 1
      /\ \A i \in 1..Len(rest) : rest[i] = queue[i + 1] /\ i + 1 \in 1..Len(queue)
      /\ Head(queue) = queue[1] /\ 1 \in 1..Len(queue)
      BY HeadTailProperties
<1> HIDE DEF rest
<1>2. \A kinds : Has(rest, kinds) => Has(queue, kinds)
      BY <1>1 DEF Has
<1>3. \A kinds : Head(queue) \in kinds => Has(queue, kinds)
      BY <1>1 DEF Has
<1>4. OnlyClose(queue) => OnlyClose(rest) /\ Head(queue) = "Close"
      BY <1>1 DEF OnlyClose
<1>5. EndingLast(queue) => EndingLast(rest)
  <2> SUFFICES ASSUME EndingLast(queue), NEW i \in 1..Len(rest), NEW j \in 1..Len(rest),
                      rest[i] \in LastEdges, i < j
               PROVE  rest[j] = "Close"
      BY DEF EndingLast
  <2>1. queue[i + 1] \in LastEdges /\ i + 1 < j + 1
        BY <1>1
  <2>2. QED BY <1>1, <2>1 DEF EndingLast
<1>6. (EndingLast(queue) /\ Head(queue) \in LastEdges) => OnlyClose(rest)
      BY <1>1 DEF EndingLast, OnlyClose
<1>7. OneReady(queue) => OneReady(rest)
  <2> SUFFICES ASSUME OneReady(queue), NEW i \in 1..Len(rest), NEW j \in 1..Len(rest),
                      rest[i] = "Ready", rest[j] = "Ready"
               PROVE  i = j
      BY DEF OneReady
  <2>1. i + 1 = j + 1
        BY <1>1 DEF OneReady
  <2>2. QED BY <2>1
<1>8. (OneReady(queue) /\ Head(queue) = "Ready") => ~Has(rest, {"Ready"})
  <2> SUFFICES ASSUME OneReady(queue), Head(queue) = "Ready",
                      NEW i \in 1..Len(rest), rest[i] = "Ready"
               PROVE  FALSE
      BY DEF Has
  <2>1. queue[1] = "Ready" /\ queue[i + 1] = "Ready" /\ i + 1 # 1
        BY <1>1
  <2>2. QED BY <1>1, <2>1 DEF OneReady
<1>9. QED BY <1>2, <1>3, <1>4, <1>5, <1>6, <1>7, <1>8 DEF rest

\* What is said of an empty queue.
LEMMA EmptyQueue ==
    /\ \A kinds : ~Has(<<>>, kinds)
    /\ OnlyClose(<<>>) /\ EndingLast(<<>>) /\ OneReady(<<>>)
BY DEF Has, OnlyClose, EndingLast, OneReady

\* A queue of Close messages with no Close in it is empty.
LEMMA NoCloseLeft ==
    ASSUME NEW S, NEW queue \in Seq(S), OnlyClose(queue), ~Has(queue, {"Close"})
    PROVE  queue = <<>>
BY EmptySeq DEF OnlyClose, Has

\* Telling appends one edge to a queue, or leaves it.
LEMMA NotifiedQueue ==
    ASSUME TypeOK, NEW living, NEW edge \in Controls, Notify(living, edge),
           NEW s \in Side
    PROVE  control'[s] = control[s] \/ control'[s] = Append(control[s], edge)
BY DEF Notify, Tell

\* A step that starts no game, queues nothing for the session or from it, and
\* hands it no game leaves its claim alone.
LEMMA ClaimFrame ==
    ASSUME NEW s \in Side, Claim(s),
           TaskRuns' => TaskRuns,
           game'[s] => game[s],
           control'[s] = control[s], requests'[s] = requests[s],
           UNCHANGED <<registered, pool, playing>>
    PROVE  Claim(s)'
BY DEF Claim

\* The steps of clients and writers, and the session's own sends.
LEMMA ClientClaim ==
    ASSUME TypeOK, OneClaim, NEW t \in Side,
           \/ ClientSend(t) \/ ClientClose(t) \/ ClientRead(t) \/ WriterEnds(t)
           \/ TakeLine(t) \/ SessionSend(t) \/ EndOfStream(t) \/ CloseSocket(t)
    PROVE  OneClaim'
<1> SUFFICES ASSUME NEW s \in Side PROVE Claim(s)'
    BY DEF OneClaim
<1>1. UNCHANGED <<control, requests, registered, pool, playing, phase>>
      BY DEF ClientSend, ClientClose, ClientRead, WriterEnds, TakeLine,
             SessionSend, EndOfStream, CloseSocket
<1>2. game'[s] => game[s]
  <2>1. CASE SessionSend(t)
        BY <2>1 DEF SessionSend, TypeOK, SessionsOK
  <2>2. CASE ~SessionSend(t)
        BY <2>2 DEF ClientSend, ClientClose, ClientRead, WriterEnds, TakeLine,
                    EndOfStream, CloseSocket
  <2>3. QED BY <2>1, <2>2
<1>3. QED BY <1>1, <1>2, ClaimFrame DEF OneClaim, TaskRuns

\* A control message is taken: an ending turns into a Ready, and every other one
\* leaves the claim where it was.
LEMMA ControlClaim ==
    ASSUME TypeOK, OneClaim, NEW t \in Side, TakeControl(t)
    PROVE  OneClaim'
<1> SUFFICES ASSUME NEW s \in Side PROVE Claim(s)'
    BY DEF OneClaim
<1>0. /\ UNCHANGED <<registered, pool, playing, phase>>
      /\ control' = [control EXCEPT ![t] = Tail(@)]
      /\ control[t] \in Seq(Controls) /\ control[t] # <<>>
      /\ requests[t] \in Seq({"Ready", "Gone"})
      /\ game \in [Side -> BOOLEAN] /\ control \in [Side -> Seq(Controls)]
      /\ requests \in [Side -> Seq({"Ready", "Gone"})]
      /\ Claim(s) /\ Claim(t)
      BY DEF TakeControl, TypeOK, ControlOK, RequestsOK, SessionsOK, OneClaim
<1>1. CASE s # t
  <2>1. /\ control'[s] = control[s] /\ requests'[s] = requests[s]
        /\ game'[s] = game[s]
        BY <1>0, <1>1 DEF TakeControl
  <2>2. QED BY <1>0, <2>1, ClaimFrame DEF TaskRuns
<1>2. CASE s = t /\ Head(control[t]) \in LastEdges
  <2>1. /\ control'[t] = Tail(control[t]) /\ game'[t] = FALSE
        /\ requests'[t] = Append(requests[t], "Ready")
        BY <1>0, <1>2 DEF TakeControl, LastEdges
  <2>2. /\ Has(control[t], LastEdges)
        /\ OnlyClose(control'[t]) /\ EndingLast(control'[t])
        /\ \A kinds : Has(control'[t], kinds) => Has(control[t], kinds)
        BY <1>0, <1>2, <2>1, TakenQueue DEF Claim
  <2>3. /\ t \notin pool /\ ~TaskRuns /\ ~Has(requests[t], {"Ready"})
        BY <2>2, <1>0 DEF Claim
  <2>4. OneReady(requests'[t])
        BY <1>0, <2>1, <2>3, AppendedQueue
  <2>5. ~Has(control'[t], LastEdges)
        BY <2>2 DEF OnlyClose, Has, LastEdges
  <2>6. QED BY <1>0, <1>2, <2>1, <2>2, <2>3, <2>4, <2>5 DEF Claim, TaskRuns
<1>3. CASE s = t /\ Head(control[t]) \notin LastEdges
  <2>1. control'[t] = Tail(control[t]) /\ requests'[t] = requests[t]
        BY <1>0, <1>3 DEF TakeControl, LastEdges
  <2>2. /\ EndingLast(control'[t])
        /\ OnlyClose(control[t]) => OnlyClose(control'[t])
        /\ OnlyClose(control[t]) => Head(control[t]) = "Close"
        /\ \A kinds : Has(control'[t], kinds) => Has(control[t], kinds)
        BY <1>0, <2>1, TakenQueue DEF Claim
  <2>3. Head(control[t]) = "Close" => game'[t] = game[t]
        BY DEF TakeControl
  <2>4. QED BY <1>0, <1>3, <2>1, <2>2, <2>3 DEF Claim, TaskRuns
<1>4. QED BY <1>1, <1>2, <1>3

\* A session that goes takes its channels with it.
LEMMA GoneClaim ==
    ASSUME TypeOK, OneClaim, NEW t \in Side, Disconnect(t) \/ SessionPanics(t)
    PROVE  OneClaim'
<1> SUFFICES ASSUME NEW s \in Side PROVE Claim(s)'
    BY DEF OneClaim
<1>0. /\ UNCHANGED <<registered, pool, playing, phase>>
      /\ requests' = [requests EXCEPT ![t] = Append(@, "Gone")]
      /\ game' = [game EXCEPT ![t] = FALSE]
      /\ control'[t] = <<>>
      /\ s # t => control'[s] = control[s]
      /\ requests[t] \in Seq({"Ready", "Gone"})
      /\ game \in [Side -> BOOLEAN] /\ control \in [Side -> Seq(Controls)]
      /\ requests \in [Side -> Seq({"Ready", "Gone"})]
      /\ Claim(s) /\ Claim(t)
      BY DEF Disconnect, SessionPanics, TypeOK, ControlOK, RequestsOK, SessionsOK,
             OneClaim
<1>1. CASE s # t
  <2>1. /\ control'[s] = control[s] /\ requests'[s] = requests[s]
        /\ game'[s] = game[s]
        BY <1>0, <1>1
  <2>2. QED BY <1>0, <2>1, ClaimFrame DEF TaskRuns
<1>2. CASE s = t
  <2>1. requests'[t] = Append(requests[t], "Gone") /\ game'[t] = FALSE
        BY <1>0
  <2>2. /\ OneReady(requests'[t])
        /\ Has(requests'[t], {"Ready"}) <=> Has(requests[t], {"Ready"})
        BY <1>0, <2>1, AppendedQueue DEF Claim
  <2>3. QED BY <1>0, <1>2, <2>1, <2>2, EmptyQueue DEF Claim, TaskRuns
<1>3. QED BY <1>1, <1>2

\* The game task's steps that tell no session anything.
LEMMA QuietTaskClaim ==
    ASSUME OneClaim, TaskRuns' => TaskRuns,
           UNCHANGED <<sessionVars, control, requests, coordVars>>
    PROVE  OneClaim'
BY ClaimFrame DEF OneClaim

\* Whatever the game task tells a session, it tells while it runs, when the
\* session has no other claim.
LEMMA TellingTaskClaim ==
    ASSUME TypeOK, OneClaim, TaskRuns, NEW living, NEW edge \in Controls \ {"Close"},
           Notify(living, edge),
           TaskRuns' => edge \notin LastEdges,
           UNCHANGED <<sessionVars, requests, coordVars>>
    PROVE  OneClaim'
<1> SUFFICES ASSUME NEW s \in Side PROVE Claim(s)'
    BY DEF OneClaim
<1>0. /\ control[s] \in Seq(Controls) /\ Claim(s)
      BY DEF TypeOK, ControlOK, OneClaim
<1>1. CASE control'[s] = control[s]
      BY <1>0, <1>1, ClaimFrame
<1>2. CASE control'[s] = Append(control[s], edge)
  <2>1. s \notin pool /\ ~Has(requests[s], {"Ready"}) /\ ~Has(control[s], LastEdges)
        BY <1>0 DEF Claim
  <2>2. EndingLast(control'[s])
        BY <1>0, <1>2, <2>1, AppendedQueue
  <2>3. \A kinds : Has(control'[s], kinds) <=> (Has(control[s], kinds) \/ edge \in kinds)
        BY <1>0, <1>2, AppendedQueue
  <2>4. s \in registered' => ~Has(control'[s], {"Close"})
        BY <1>0, <2>3 DEF Claim
  <2>5. TaskRuns' => ~Has(control'[s], LastEdges)
        BY <2>1, <2>3
  <2>6. QED BY <1>0, <2>1, <2>2, <2>4, <2>5 DEF Claim
<1>3. QED BY <1>1, <1>2, NotifiedQueue

\* What the game task does of its own accord keeps every claim single.
LEMMA TaskClaim ==
    ASSUME TypeOK, OneClaim,
           \/ Receive \/ TaskSend \/ AgreementExpires \/ Refused \/ NobodyLeft
           \/ Deadline \/ File \/ Finish \/ TaskPanics \/ Watch
    PROVE  OneClaim'
<1>1. ASSUME NEW m, Agree(m)
      PROVE  OneClaim'
  <2>1. TaskRuns /\ UNCHANGED <<sessionVars, requests, coordVars>>
        BY <1>1 DEF Agree, Received, Awaits, TaskRuns
  <2>2. CASE UNCHANGED control
        BY <2>1, <2>2, QuietTaskClaim
  <2>3. CASE Notify(alive, "Started")
        BY <2>1, <2>3, TellingTaskClaim DEF Controls, LastEdges
  <2>4. QED BY <1>1, <2>2, <2>3 DEF Agree
<1>2. ASSUME NEW m, DisconnectedBeforeStart(m)
      PROVE  OneClaim'
  <2>1. /\ TaskRuns /\ ~TaskRuns'
        /\ UNCHANGED <<sessionVars, requests, coordVars>>
        BY <1>2 DEF DisconnectedBeforeStart, Discard, Return, Awaits, TaskRuns
  <2>2. \E living : Notify(living, "PairingDiscarded")
        BY <1>2 DEF DisconnectedBeforeStart, Discard
  <2>3. QED BY <2>1, <2>2, TellingTaskClaim DEF Controls
<1>3. CASE Refused
  <2>1. /\ TaskRuns /\ ~TaskRuns'
        /\ UNCHANGED <<sessionVars, requests, coordVars>>
        BY <1>3 DEF Refused, Discard, Return, Awaits, TaskRuns
  <2>2. Notify(alive, "PairingDiscarded")
        BY <1>3 DEF Refused, Discard
  <2>3. QED BY <2>1, <2>2, TellingTaskClaim DEF Controls
<1>4. CASE Finish
  <2>1. /\ TaskRuns /\ ~TaskRuns' /\ Notify(alive, "GameEnded")
        /\ UNCHANGED <<sessionVars, requests, coordVars>>
        BY <1>4 DEF Finish, Return, Awaits, TaskRuns
  <2>2. QED BY <2>1, TellingTaskClaim DEF Controls
<1>5. CASE Watch
  <2>1. /\ TaskRuns /\ ~TaskRuns' /\ Notify([s \in Side |-> TRUE], "GameEnded")
        /\ UNCHANGED <<sessionVars, requests, coordVars>>
        BY <1>5 DEF Watch, Return, TaskRuns
  <2>2. QED BY <2>1, TellingTaskClaim DEF Controls
<1>6. ASSUME NEW m,
             \/ Reject(m) \/ IgnoredBeforeStart(m) \/ Move(m) \/ Resign(m)
             \/ Declare(m) \/ KeepAlive(m) \/ Abort(m) \/ Disconnected(m)
             \/ IgnoredInGame(m)
      PROVE  OneClaim'
  <2>1. /\ TaskRuns
        /\ UNCHANGED <<sessionVars, control, requests, coordVars>>
        BY <1>6 DEF Reject, Refuse, IgnoredBeforeStart, Move, Relayed, NotRelayed,
             Resign, Declare, KeepAlive, Abort, Disconnected, IgnoredInGame,
             Terminate, Received, Awaits, TaskRuns
  <2>2. QED BY <2>1, QuietTaskClaim
<1>7. CASE \/ TaskSend \/ AgreementExpires \/ NobodyLeft \/ Deadline \/ File
           \/ TaskPanics
  <2>1. /\ UNCHANGED <<sessionVars, control, requests, coordVars>>
        /\ phase' # phase => TaskRuns
        BY <1>7 DEF TaskSend, AgreementExpires, Refuse, NobodyLeft, Return,
             Deadline, Terminate, File, TaskPanics, Awaits, TaskRuns
  <2>2. QED BY <2>1, QuietTaskClaim DEF TaskRuns
<1>8. QED BY <1>1, <1>2, <1>3, <1>4, <1>5, <1>6, <1>7 DEF Receive

\* What the coordinator does keeps every claim single.
LEMMA CoordinatorClaim ==
    ASSUME TypeOK, OneClaim, NEW t \in Side,
           HandleReady(t) \/ HandleGone(t) \/ Replace(t) \/ Offer \/ AskAbort
    PROVE  OneClaim'
<1> SUFFICES ASSUME NEW s \in Side PROVE Claim(s)'
    BY DEF OneClaim
<1>0. /\ control \in [Side -> Seq(Controls)] /\ game \in [Side -> BOOLEAN]
      /\ requests \in [Side -> Seq({"Ready", "Gone"})]
      /\ Claim(s) /\ Claim(t)
      BY DEF TypeOK, ControlOK, SessionsOK, RequestsOK, OneClaim
<1>1. CASE HandleReady(t) /\ s = t
  <2>1. /\ requests[t] # <<>> /\ Head(requests[t]) = "Ready"
        /\ requests'[t] = Tail(requests[t])
        /\ UNCHANGED <<game, control, phase, registered>>
        BY <1>0, <1>1 DEF HandleReady
  <2>2. Has(requests[t], {"Ready"}) /\ ~Has(requests'[t], {"Ready"})
        BY <1>0, <2>1, TakenQueue DEF Claim
  <2>3. OneReady(requests'[t])
        BY <1>0, <2>1, TakenQueue DEF Claim
  <2>4. /\ t \notin pool /\ ~game[t] /\ OnlyClose(control[t])
        /\ ~TaskRuns /\ ~Has(control[t], LastEdges)
        BY <1>0, <2>2 DEF Claim
  <2>5. t \in registered => control[t] = <<>>
        BY <1>0, <2>4, NoCloseLeft DEF Claim
  <2>6. t \in pool' => t \in registered /\ t \notin playing'
        BY <1>1, <2>4 DEF HandleReady
  <2>7. QED BY <1>0, <1>1, <2>1, <2>2, <2>3, <2>4, <2>5, <2>6 DEF Claim, TaskRuns
<1>2. CASE HandleReady(t) /\ s # t
  <2>1. /\ requests'[s] = requests[s]
        /\ s \in pool' <=> s \in pool
        /\ s \in playing' <=> s \in playing
        /\ UNCHANGED <<game, control, phase, registered>>
        BY <1>0, <1>2 DEF HandleReady
  <2>2. QED BY <1>0, <2>1 DEF Claim, TaskRuns
<1>3. CASE HandleGone(t)
  <2>1. /\ s \in pool' => s \in pool /\ s # t
        /\ s \in playing' => s \in playing
        /\ s \in registered' => s \in registered
        /\ s # t /\ s \in registered => s \in registered'
        /\ UNCHANGED <<game, control, phase>>
        BY <1>3 DEF HandleGone
  <2>2. /\ Has(requests'[s], {"Ready"}) => Has(requests[s], {"Ready"})
        /\ OneReady(requests'[s])
    <3>1. CASE s = t
          BY <1>0, <1>3, <3>1, TakenQueue DEF HandleGone, Claim
    <3>2. CASE s # t
          BY <1>0, <1>3, <3>2 DEF HandleGone, Claim
    <3>3. QED BY <3>1, <3>2
  <2>3. QED BY <1>0, <2>1, <2>2 DEF Claim, TaskRuns
<1>4. CASE Replace(t) /\ s = t
  <2>1. /\ t \notin pool' /\ t \notin registered'
        /\ UNCHANGED <<game, requests, phase>>
        BY <1>4 DEF Replace
  <2>2. control'[t] = control[t] \/ control'[t] = Append(control[t], "Close")
        BY <1>0, <1>4 DEF Replace, Tell
  <2>3. /\ EndingLast(control'[t])
        /\ OnlyClose(control[t]) => OnlyClose(control'[t])
        /\ Has(control'[t], LastEdges) => Has(control[t], LastEdges)
    <3>1. CASE control'[t] = control[t]
          BY <1>0, <3>1 DEF Claim
    <3>2. CASE control'[t] = Append(control[t], "Close")
      <4>1. "Close" \in Controls /\ "Close" \notin LastEdges
            BY DEF Controls, LastEdges
      <4>2. QED BY <1>0, <3>2, <4>1, AppendedQueue DEF Claim
    <3>3. QED BY <2>2, <3>1, <3>2
  <2>4. QED BY <1>0, <1>4, <2>1, <2>3 DEF Claim, TaskRuns
<1>5. CASE Replace(t) /\ s # t
  <2>1. /\ control'[s] = control[s]
        /\ s \in pool' <=> s \in pool
        /\ s \in playing' <=> s \in playing
        /\ s \in registered' <=> s \in registered
        /\ UNCHANGED <<game, requests, phase>>
        BY <1>0, <1>5 DEF Replace
  <2>2. QED BY <1>0, <2>1 DEF Claim, TaskRuns
<1>6. CASE Offer
  <2>1. /\ s \in pool /\ s \notin pool'
        /\ UNCHANGED <<game, requests, registered>>
        BY <1>6 DEF Offer
  <2>2. control[s] = <<>> /\ ~game[s] /\ ~Has(requests[s], {"Ready"})
        BY <1>0, <2>1 DEF Claim
  <2>3. control'[s] = <<>> \/ control'[s] = Append(<<>>, "Paired")
    <3>1. Notify([q \in Side |-> TRUE], "Paired") /\ "Paired" \in Controls
          BY <1>6 DEF Offer, Controls
    <3>2. QED BY <2>2, <3>1, NotifiedQueue
  <2>4. /\ EndingLast(control'[s])
        /\ ~Has(control'[s], LastEdges) /\ ~Has(control'[s], {"Close"})
    <3>1. <<>> \in Seq(Controls) /\ "Paired" \in Controls
          BY DEF Controls
    <3>2. CASE control'[s] = <<>>
          BY <3>2, EmptyQueue
    <3>3. CASE control'[s] = Append(<<>>, "Paired")
      <4>1. ASSUME NEW queue \in Seq(Controls), queue = <<>>
            PROVE  /\ EndingLast(Append(queue, "Paired"))
                   /\ ~Has(Append(queue, "Paired"), LastEdges)
                   /\ ~Has(Append(queue, "Paired"), {"Close"})
        <5>1. ~Has(queue, LastEdges) /\ ~Has(queue, {"Close"})
              BY <4>1, EmptyQueue
        <5>2. QED BY <3>1, <5>1, AppendedQueue DEF LastEdges
      <4>2. QED BY <3>1, <3>3, <4>1
    <3>4. QED BY <2>3, <3>2, <3>3
  <2>5. QED BY <1>0, <2>1, <2>2, <2>4 DEF Claim
<1>7. CASE AskAbort
  <2>1. UNCHANGED <<sessionVars, control, requests, coordVars, phase>>
        BY <1>7 DEF AskAbort
  <2>2. QED BY <1>0, <2>1, ClaimFrame DEF TaskRuns
<1>8. QED BY <1>1, <1>2, <1>3, <1>4, <1>5, <1>6, <1>7

\* At the start each session's one claim is its queued Ready.
LEMMA InitClaim == Init => OneClaim
<1> SUFFICES ASSUME Init, NEW s \in Side PROVE Claim(s)
    BY DEF OneClaim
<1>1. /\ ~TaskRuns /\ control[s] = <<>> /\ requests[s] = <<"Ready">>
      /\ pool = {} /\ ~game[s]
      BY DEF Init, TaskRuns
<1>2. OneReady(requests[s])
      BY <1>1 DEF OneReady
<1>3. QED BY <1>1, <1>2, EmptyQueue DEF Claim

\* Every step keeps every claim single.
LEMMA NextClaim == TypeOK /\ OneClaim /\ [Next]_vars => OneClaim'
<1> SUFFICES ASSUME TypeOK, OneClaim, [Next]_vars PROVE OneClaim'
    OBVIOUS
<1>1. CASE UNCHANGED vars
      BY <1>1, QuietTaskClaim DEF TaskRuns
<1>2. ASSUME NEW s \in Side,
             \/ ClientStep(s) \/ ClientRead(s) \/ WriterEnds(s)
             \/ SessionStep(s) \/ SessionPanics(s)
      PROVE  OneClaim'
      BY <1>2, ClientClaim, ControlClaim, GoneClaim DEF ClientStep, SessionStep
<1>3. ASSUME NEW s \in Side, HandleReady(s) \/ HandleGone(s) \/ Replace(s)
      PROVE  OneClaim'
      BY <1>3, CoordinatorClaim
<1>4. CASE TaskStep \/ AgreementExpires \/ Deadline \/ TaskPanics \/ Watch
      BY <1>4, TaskClaim DEF TaskStep
<1>5. CASE Offer \/ AskAbort
  <2>1. "black" \in Side
        BY DEF Side
  <2>2. QED BY <1>5, <2>1, CoordinatorClaim
<1>6. QED BY <1>1, <1>2, <1>3, <1>4, <1>5 DEF Next

\* Every session has at most one claim to a next game (OneClaim).
THEOREM ClaimIsSingle == Spec => []OneClaim
BY TypeCorrect, InitClaim, NextClaim, PTL DEF Spec

\* A session in the pool is done with its last game (PoolIsFree: connection.rs
\* on_control against server.rs ready and offer).
THEOREM PoolFree == Spec => []PoolIsFree
<1>1. TypeOK /\ OneClaim => PoolIsFree
  <2> SUFFICES ASSUME TypeOK, OneClaim, NEW s \in pool
               PROVE  /\ s \in registered /\ s \notin playing /\ ~game[s]
                      /\ control[s] = <<>>
                      /\ "Ready" \notin {requests[s][i] : i \in DOMAIN requests[s]}
      BY DEF PoolIsFree
  <2>1. s \in Side /\ requests[s] \in Seq({"Ready", "Gone"})
        BY DEF TypeOK, CoordinatorOK, RequestsOK
  <2>2. Claim(s)
        BY <2>1 DEF OneClaim
  <2>3. ~Has(requests[s], {"Ready"})
        BY <2>2 DEF Claim
  <2>4. "Ready" \notin {requests[s][i] : i \in DOMAIN requests[s]}
        BY <2>1, <2>3 DEF Has
  <2>5. QED BY <2>2, <2>4 DEF Claim
<1>2. QED BY <1>1, TypeCorrect, ClaimIsSingle, PTL

\* No round is made over sessions whose game task still runs (OneTaskAtATime:
\* pairing.rs terminate).
THEOREM OneTask == Spec => []OneTaskAtATime
<1>1. OneClaim => OneTaskAtATime
      BY DEF OneClaim, Claim, OneTaskAtATime, TaskRuns, Side
<1>2. QED BY <1>1, ClaimIsSingle, PTL
-----------------------------------------------------------------------------
(* Who has left *)

Farewells == {"DiscardPairing", "CensorGame"}

\* A session that sent its game task a disconnect answer is no longer reading,
\* a session that still reads owes the game task none, and a game scored as a
\* disconnect is scored against a session that sent one.
FarewellIsFinal ==
    /\ \A i \in 1..Len(inbox) :
          inbox[i].msg \in Farewells => pc[inbox[i].side] # "loop"
    /\ \A s \in Side : ~Has(pend[s], Farewells)
    /\ outcome.kind = "disconnect" =>
          outcome.by \in Side /\ pc[outcome.by] # "loop"

\* Only the tasks of the sessions change where a session is, and none of them
\* brings it back to its loop.
LEMMA LeftForGood ==
    ASSUME TypeOK, [Next]_vars, NEW s \in Side, pc[s] # "loop"
    PROVE  pc'[s] # "loop"
<1>1. CASE UNCHANGED pc
      BY <1>1
<1>2. ASSUME NEW t \in Side, SessionStep(t) \/ SessionPanics(t)
      PROVE  pc'[s] # "loop"
  <2>1. pc \in [Side -> {"loop", "closing", "gone", "closed"}]
        BY DEF TypeOK, SessionsOK
  <2>2. CASE TakeControl(t)
        BY <2>1, <2>2 DEF TakeControl, Idle
  <2>3. CASE TakeLine(t)
        BY <2>1, <2>3 DEF TakeLine, Idle
  <2>4. CASE SessionSend(t)
        BY <2>4 DEF SessionSend
  <2>5. CASE EndOfStream(t)
        BY <2>1, <2>5 DEF EndOfStream
  <2>6. CASE Disconnect(t)
        BY <2>1, <2>6 DEF Disconnect
  <2>7. CASE CloseSocket(t)
        BY <2>1, <2>7 DEF CloseSocket
  <2>8. CASE SessionPanics(t)
        BY <2>1, <2>8 DEF SessionPanics
  <2>9. QED BY <1>2, <2>2, <2>3, <2>4, <2>5, <2>6, <2>7, <2>8 DEF SessionStep
<1>3. ASSUME NEW t \in Side,
             \/ ClientStep(t) \/ ClientRead(t) \/ WriterEnds(t)
             \/ HandleReady(t) \/ HandleGone(t) \/ Replace(t)
      PROVE  pc'[s] # "loop"
      BY <1>1, <1>3 DEF ClientStep, ClientSend, ClientClose, ClientRead,
         WriterEnds, HandleReady, HandleGone, Replace
<1>4. ASSUME NEW m,
             \/ Agree(m) \/ Reject(m) \/ DisconnectedBeforeStart(m)
             \/ IgnoredBeforeStart(m) \/ Move(m) \/ Resign(m) \/ Declare(m)
             \/ KeepAlive(m) \/ Abort(m) \/ Disconnected(m) \/ IgnoredInGame(m)
      PROVE  pc'[s] # "loop"
      BY <1>1, <1>4 DEF Agree, Reject, Refuse, DisconnectedBeforeStart,
         IgnoredBeforeStart, Move, Resign, Declare, KeepAlive, Abort,
         Disconnected, IgnoredInGame
<1>5. CASE \/ TaskSend \/ Refused \/ NobodyLeft \/ File \/ Finish
           \/ AgreementExpires \/ Deadline \/ TaskPanics \/ Watch
           \/ Offer \/ AskAbort
      BY <1>1, <1>5 DEF TaskSend, Refused, NobodyLeft, File, Finish,
         AgreementExpires, Refuse, Deadline, TaskPanics, Watch, Offer, AskAbort
<1>6. QED BY <1>1, <1>2, <1>3, <1>4, <1>5 DEF Next, TaskStep, Receive

\* An inbox that loses messages, or gains one that is no farewell or comes from
\* a session that has left, holds the farewells of sessions that have left.
LEMMA InboxFarewells ==
    ASSUME TypeOK, TypeOK', FarewellIsFinal, [Next]_vars,
           \/ inbox' = inbox
           \/ inbox # <<>> /\ inbox' = Tail(inbox)
           \/ inbox' = <<>>
           \/ \E m \in GameMessages, s \in Side :
                 /\ inbox' = Append(inbox, [msg |-> m, side |-> s])
                 /\ m \in Farewells => pc'[s] # "loop"
    PROVE  \A i \in 1..Len(inbox') :
              inbox'[i].msg \in Farewells => pc'[inbox'[i].side] # "loop"
<1>1. inbox \in Seq(Messages) /\ inbox' \in Seq(Messages)
      BY DEF TypeOK, InboxOK
<1>2. ASSUME NEW i \in 1..Len(inbox), inbox[i].msg \in Farewells
      PROVE  pc'[inbox[i].side] # "loop"
  <2>1. inbox[i] \in Messages
        BY <1>1, ElementOfSeq
  <2>2. inbox[i].side \in Side
        BY <2>1 DEF Messages
  <2>3. QED BY <1>2, <2>2, LeftForGood DEF FarewellIsFinal
<1>3. CASE inbox' = inbox
      BY <1>2, <1>3
<1>4. CASE inbox # <<>> /\ inbox' = Tail(inbox)
  <2>1. \A i \in 1..Len(inbox') : inbox'[i] = inbox[i + 1] /\ i + 1 \in 1..Len(inbox)
        BY <1>1, <1>4, HeadTailProperties
  <2>2. QED BY <1>2, <2>1
<1>5. CASE inbox' = <<>>
      BY <1>5
<1>6. ASSUME NEW m \in GameMessages, NEW s \in Side,
             inbox' = Append(inbox, [msg |-> m, side |-> s]),
             m \in Farewells => pc'[s] # "loop"
      PROVE  \A i \in 1..Len(inbox') :
                inbox'[i].msg \in Farewells => pc'[inbox'[i].side] # "loop"
  <2>1. [msg |-> m, side |-> s] \in Messages
        BY DEF Messages
  <2>2. /\ Len(inbox') = Len(inbox) + 1 /\ Len(inbox) \in Nat
        /\ \A i \in 1..Len(inbox) : inbox'[i] = inbox[i]
        /\ inbox'[Len(inbox) + 1] = [msg |-> m, side |-> s]
        BY <1>1, <1>6, <2>1, AppendProperties
  <2>3. ASSUME NEW i \in 1..Len(inbox'), inbox'[i].msg \in Farewells
        PROVE  pc'[inbox'[i].side] # "loop"
    <3>1. CASE i \in 1..Len(inbox)
          BY <1>2, <2>2, <2>3, <3>1
    <3>2. CASE i = Len(inbox) + 1
          BY <1>6, <2>2, <2>3, <3>2
    <3>3. QED BY <2>2, <3>1, <3>2
  <2>4. QED BY <2>3
<1>7. QED BY <1>3, <1>4, <1>5, <1>6

\* Joining two queues adds nothing that is in neither.
LEMMA JoinedQueue ==
    ASSUME NEW S, NEW q \in Seq(S), NEW r \in Seq(S), NEW kinds,
           ~Has(q, kinds), ~Has(r, kinds)
    PROVE  ~Has(q \o r, kinds)
<1>1. /\ Len(q) \in Nat /\ Len(r) \in Nat /\ Len(q \o r) = Len(q) + Len(r)
      /\ \A i \in 1..Len(q) + Len(r) :
            (q \o r)[i] = IF i <= Len(q) THEN q[i] ELSE r[i - Len(q)]
      BY ConcatProperties
<1>2. \A i \in 1..Len(q) + Len(r) : i <= Len(q) => i \in 1..Len(q)
      BY <1>1
<1>3. \A i \in 1..Len(q) + Len(r) : ~(i <= Len(q)) => i - Len(q) \in 1..Len(r)
      BY <1>1
<1>4. QED BY <1>1, <1>2, <1>3 DEF Has

\* What is left of the invariant when neither what a session owes nor how the
\* game ended is new.
LEMMA FarewellFrame ==
    ASSUME TypeOK, TypeOK', FarewellIsFinal, [Next]_vars,
           UNCHANGED pend,
           \/ outcome' = outcome
           \/ outcome'.kind # "disconnect",
           \/ inbox' = inbox
           \/ inbox # <<>> /\ inbox' = Tail(inbox)
           \/ inbox' = <<>>
    PROVE  FarewellIsFinal'
<1>1. \A i \in 1..Len(inbox') :
         inbox'[i].msg \in Farewells => pc'[inbox'[i].side] # "loop"
      BY InboxFarewells
<1>2. outcome'.kind = "disconnect" => outcome'.by \in Side /\ pc'[outcome'.by] # "loop"
      BY LeftForGood DEF FarewellIsFinal
<1>3. QED BY <1>1, <1>2 DEF FarewellIsFinal

\* What a session does keeps its farewell its last word.
LEMMA SessionFarewell ==
    ASSUME TypeOK, TypeOK', FarewellIsFinal, [Next]_vars, NEW s \in Side,
           SessionStep(s) \/ SessionPanics(s)
    PROVE  FarewellIsFinal'
<1>0. /\ inbox \in Seq(Messages)
      /\ pend \in [Side -> Seq(OutLines \cup GameMessages)]
      /\ pc \in [Side -> {"loop", "closing", "gone", "closed"}]
      BY DEF TypeOK, InboxOK, SessionsOK
<1>1. CASE TakeControl(s) \/ EndOfStream(s) \/ CloseSocket(s)
      BY <1>1, FarewellFrame DEF TakeControl, EndOfStream, CloseSocket
<1>2. CASE TakeLine(s)
  <2>1. inbox' = inbox /\ outcome' = outcome
        BY <1>2 DEF TakeLine
  <2>2. Head(lines[s]).cmd \in Commands
    <3>1. lines \in [Side -> Seq(ClientLines)] /\ lines[s] # <<>>
          BY <1>2 DEF TypeOK, ClientsOK, TakeLine
    <3>2. Head(lines[s]) \in ClientLines
          BY <3>1, TakeHead
    <3>3. QED BY <3>2 DEF ClientLines
  <2>3. pend' = pend \/ \E q : pend' = [pend EXCEPT ![s] = q] /\ ~Has(q, Farewells)
    <3> DEFINE command == Head(lines[s]).cmd
    <3>1. command \notin Farewells
          BY <2>2 DEF Commands, AgreementCommands, GameCommands, LoginCommands,
                 OtherCommands, Farewells
    <3> HIDE DEF command
    <3>2. /\ ~Has(<<>>, Farewells) /\ ~Has(<<"BYE">>, Farewells) /\ ~Has(<<"UNKNOWN">>, Farewells)
          /\ ~Has(<<"ECHO">>, Farewells) /\ ~Has(<<command>>, Farewells)
          BY <3>1 DEF Has, Farewells
    <3>3. \/ Forward(s, command) = <<>>
          \/ Forward(s, command) = <<command>>
          BY DEF Forward
    <3> DEFINE Sent == {"ECHO", command}
    <3>4. /\ Forward(s, command) \in Seq(Sent)
          /\ \A echo \in {<<>>, <<"ECHO">>} : echo \in Seq(Sent)
      <4>1. <<>> \in Seq(Sent) /\ <<"ECHO">> \in Seq(Sent) /\ <<command>> \in Seq(Sent)
            OBVIOUS
      <4>2. QED BY <3>3, <4>1
    <3> HIDE DEF Sent
    <3>5. /\ ~Has(Forward(s, command), Farewells)
          /\ \A echo \in {<<>>, <<"ECHO">>} :
                ~Has(echo \o Forward(s, command), Farewells)
          BY <3>2, <3>3, <3>4, JoinedQueue
    <3>6. \/ pend' = pend
          \/ pend' = [pend EXCEPT ![s] = Forward(s, command)]
          \/ pend' = [pend EXCEPT ![s] = <<"BYE">>]
          \/ pend' = [pend EXCEPT ![s] = <<"UNKNOWN">>]
          \/ \E echo \in {<<>>, <<"ECHO">>} :
                pend' = [pend EXCEPT ![s] = echo \o Forward(s, command)]
          BY <1>2 DEF TakeLine, command
    <3>7. QED BY <3>2, <3>5, <3>6
  <2>4. \A t \in Side : ~Has(pend'[t], Farewells)
        BY <1>0, <2>3 DEF FarewellIsFinal
  <2>5. \A i \in 1..Len(inbox') :
           inbox'[i].msg \in Farewells => pc'[inbox'[i].side] # "loop"
        BY <2>1, InboxFarewells
  <2>6. outcome'.kind = "disconnect" => outcome'.by \in Side /\ pc'[outcome'.by] # "loop"
        BY <2>1, LeftForGood DEF FarewellIsFinal
  <2>7. QED BY <2>4, <2>5, <2>6 DEF FarewellIsFinal
<1>3. CASE SessionSend(s)
  <2>1. /\ pend[s] # <<>> /\ pend' = [pend EXCEPT ![s] = Tail(@)]
        /\ outcome' = outcome
        BY <1>3 DEF SessionSend
  <2>2. Head(pend[s]) \notin Farewells
        BY <1>0, <2>1, TakenQueue DEF FarewellIsFinal
  <2>3. \A t \in Side : ~Has(pend'[t], Farewells)
    <3>1. ~Has(Tail(pend[s]), Farewells)
          BY <1>0, <2>1, TakenQueue DEF FarewellIsFinal
    <3>2. QED BY <1>0, <2>1, <3>1 DEF FarewellIsFinal
  <2>4. \/ inbox' = inbox
        \/ /\ Head(pend[s]) \in GameMessages
           /\ inbox' = Append(inbox, [msg |-> Head(pend[s]), side |-> s])
        BY <1>3 DEF SessionSend
  <2>5. \A i \in 1..Len(inbox') :
           inbox'[i].msg \in Farewells => pc'[inbox'[i].side] # "loop"
        BY <2>2, <2>4, InboxFarewells
  <2>6. outcome'.kind = "disconnect" => outcome'.by \in Side /\ pc'[outcome'.by] # "loop"
        BY <2>1, LeftForGood DEF FarewellIsFinal
  <2>7. QED BY <2>3, <2>5, <2>6 DEF FarewellIsFinal
<1>4. CASE Disconnect(s) \/ SessionPanics(s)
  <2>1. pend' = pend /\ outcome' = outcome /\ pc'[s] # "loop"
        BY <1>0, <1>4 DEF Disconnect, SessionPanics
  <2>2. \/ inbox' = inbox
        \/ \E m \in GameMessages : inbox' = Append(inbox, [msg |-> m, side |-> s])
        BY <1>4, DisconnectMessage DEF TypeOK, SessionsOK, Disconnect, SessionPanics
  <2>3. \A i \in 1..Len(inbox') :
           inbox'[i].msg \in Farewells => pc'[inbox'[i].side] # "loop"
        BY <2>1, <2>2, InboxFarewells
  <2>4. outcome'.kind = "disconnect" => outcome'.by \in Side /\ pc'[outcome'.by] # "loop"
        BY <2>1, LeftForGood DEF FarewellIsFinal
  <2>5. QED BY <2>1, <2>3, <2>4 DEF FarewellIsFinal
<1>5. QED BY <1>1, <1>2, <1>3, <1>4 DEF SessionStep

\* A message received in a game is the head of its inbox, and the rest is kept.
LEMMA GameFarewell ==
    ASSUME TypeOK, TypeOK', FarewellIsFinal, [Next]_vars, NEW m \in Messages,
           \/ Agree(m) \/ Reject(m) \/ DisconnectedBeforeStart(m)
           \/ IgnoredBeforeStart(m) \/ Move(m) \/ Resign(m) \/ Declare(m)
           \/ KeepAlive(m) \/ Abort(m) \/ Disconnected(m) \/ IgnoredInGame(m)
    PROVE  FarewellIsFinal'
<1>1. CASE Agree(m) \/ Reject(m) \/ IgnoredBeforeStart(m) \/ IgnoredInGame(m)
      BY <1>1, FarewellFrame
      DEF Agree, Reject, Refuse, IgnoredBeforeStart, IgnoredInGame, Received
<1>2. CASE DisconnectedBeforeStart(m)
  <2>1. /\ inbox' = <<>> /\ outcome'.kind # "disconnect" /\ pend' = pend
        BY <1>2 DEF DisconnectedBeforeStart, Discard, Return, NoOutcome, Ended
  <2>2. QED BY <2>1, FarewellFrame
<1>3. CASE Move(m) \/ Resign(m) \/ Declare(m) \/ KeepAlive(m) \/ Abort(m)
  <2>1. /\ OnBoard.kind # "disconnect" /\ Ended("abort", "none").kind # "disconnect"
        /\ \A e \in Flag : e.kind # "disconnect"
        /\ \A e \in FlagOf(m.side) : e.kind # "disconnect"
        BY DEF OnBoard, Ended, Flag, FlagOf
  <2>2. outcome' = outcome \/ outcome'.kind # "disconnect"
        BY <1>3, <2>1 DEF Move, Relayed, NotRelayed, Resign, Declare, KeepAlive,
           Abort, Terminate
  <2>3. /\ inbox # <<>> /\ inbox' = Tail(inbox) /\ pend' = pend
        BY <1>3 DEF Move, Resign, Declare, KeepAlive, Abort, Received
  <2>4. QED BY <2>2, <2>3, FarewellFrame
<1>4. CASE Disconnected(m)
  <2>1. /\ inbox # <<>> /\ inbox' = Tail(inbox) /\ m = Head(inbox)
        /\ UNCHANGED <<pend, pc>>
        BY <1>4 DEF Disconnected, Received
  <2>2. m.msg \in Farewells /\ m.side \in Side
        BY <1>4 DEF Disconnected, Farewells, Messages
  <2>3. pc[m.side] # "loop"
    <3>1. inbox[1] = m /\ 1 \in 1..Len(inbox)
          BY <2>1, HeadTailProperties DEF TypeOK, InboxOK
    <3>2. QED BY <2>2, <3>1 DEF FarewellIsFinal
  <2>4. outcome' = outcome \/ outcome' = Ended("disconnect", m.side)
        BY <1>4 DEF Disconnected, Terminate
  <2>5. outcome'.kind = "disconnect" => outcome'.by \in Side /\ pc'[outcome'.by] # "loop"
        BY <2>1, <2>2, <2>3, <2>4 DEF FarewellIsFinal, Ended
  <2>6. \A i \in 1..Len(inbox') :
           inbox'[i].msg \in Farewells => pc'[inbox'[i].side] # "loop"
        BY <2>1, InboxFarewells
  <2>7. QED BY <2>1, <2>5, <2>6 DEF FarewellIsFinal
<1>5. QED BY <1>1, <1>2, <1>3, <1>4

\* Every step keeps the farewells the last words of the sessions that sent them.
LEMMA NextFarewell == TypeOK /\ TypeOK' /\ FarewellIsFinal /\ [Next]_vars => FarewellIsFinal'
<1> SUFFICES ASSUME TypeOK, TypeOK', FarewellIsFinal, [Next]_vars
             PROVE  FarewellIsFinal'
    OBVIOUS
<1>1. CASE UNCHANGED vars
      BY <1>1, FarewellFrame
<1>2. ASSUME NEW s \in Side, SessionStep(s) \/ SessionPanics(s)
      PROVE  FarewellIsFinal'
      BY <1>2, SessionFarewell
<1>3. ASSUME NEW s \in Side,
             \/ ClientStep(s) \/ ClientRead(s) \/ WriterEnds(s)
             \/ HandleReady(s) \/ HandleGone(s) \/ Replace(s)
      PROVE  FarewellIsFinal'
      BY <1>3, FarewellFrame DEF ClientStep, ClientSend, ClientClose, ClientRead,
         WriterEnds, HandleReady, HandleGone, Replace
<1>4. CASE Receive
      BY <1>4, GameFarewell DEF Receive
<1>5. CASE Deadline
  <2>1. \A e \in Flag : e.kind # "disconnect"
        BY DEF Flag, Ended
  <2>2. outcome'.kind # "disconnect"
        BY <1>5, <2>1 DEF Deadline, Terminate
  <2>3. QED BY <1>5, <2>2, FarewellFrame DEF Deadline
<1>6. CASE TaskSend \/ File \/ AgreementExpires \/ TaskPanics
      BY <1>6, FarewellFrame DEF TaskSend, File, AgreementExpires, Refuse, TaskPanics
<1>7. CASE Refused \/ NobodyLeft \/ Finish \/ Watch \/ Offer
  <2>1. /\ inbox' = <<>> /\ outcome'.kind # "disconnect" /\ pend' = pend
        BY <1>7 DEF Refused, Discard, NobodyLeft, Finish, Watch, Offer, Return,
           NoOutcome, Ended
  <2>2. QED BY <2>1, FarewellFrame
<1>8. CASE AskAbort
  <2>1. /\ UNCHANGED <<pend, outcome>>
        /\ inbox' = Append(inbox, [msg |-> "ABORT", side |-> "black"])
        BY <1>8 DEF AskAbort
  <2>2. "ABORT" \in GameMessages /\ "ABORT" \notin Farewells /\ "black" \in Side
        BY DEF GameMessages, Farewells, Side
  <2>3. \A i \in 1..Len(inbox') :
           inbox'[i].msg \in Farewells => pc'[inbox'[i].side] # "loop"
        BY <2>1, <2>2, InboxFarewells
  <2>4. outcome'.kind = "disconnect" => outcome'.by \in Side /\ pc'[outcome'.by] # "loop"
        BY <2>1, LeftForGood DEF FarewellIsFinal
  <2>5. QED BY <2>1, <2>3, <2>4 DEF FarewellIsFinal
<1>9. QED BY <1>1, <1>2, <1>3, <1>4, <1>5, <1>6, <1>7, <1>8 DEF Next, TaskStep

\* A game is scored as a disconnect only against a session that has ended
\* (DisconnectIsTrue: pairing.rs play, connection.rs Session::drop).
THEOREM DisconnectTrue == Spec => []DisconnectIsTrue
<1>1. Init => FarewellIsFinal
      BY EmptyQueue DEF Init, FarewellIsFinal, NoOutcome, Ended
<1>2. FarewellIsFinal => DisconnectIsTrue
      BY DEF FarewellIsFinal, DisconnectIsTrue
<1>3. QED BY <1>1, <1>2, NextFarewell, TypeCorrect, PTL DEF Spec
-----------------------------------------------------------------------------
(* On course *)

\* Where a session may be in the edges of a pairing on offer, of a game that has
\* begun, and of one that has ended.
Offered(state, queue) ==
    \/ state = "Waiting"  /\ queue = <<"Paired">>
    \/ state = "Agreeing" /\ queue = <<>>

Begun(state, queue) ==
    \/ state = "Waiting"  /\ queue = <<"Paired", "Started">>
    \/ state = "Agreeing" /\ queue = <<"Started">>
    \/ state = "Playing"  /\ queue = <<>>

Ending(state, queue) ==
    \/ state = "Waiting"  /\ queue = <<"Paired", "Started", "GameEnded">>
    \/ state = "Agreeing" /\ queue = <<"Started", "GameEnded">>
    \/ state = "Playing"  /\ queue = <<"GameEnded">>
    \/ state = "Waiting"  /\ queue = <<"Paired", "PairingDiscarded">>
    \/ state = "Agreeing" /\ queue = <<"PairingDiscarded">>

InOffer == phase \in {"proposing", "discarding"}
InGame  == phase \in {"playing", "filing", "telling"}

\* The state of a session and the edges still queued for it tell one story with
\* the place of its claim.
OnCourse(s) ==
    /\ (s \in pool \/ Has(requests[s], {"Ready"})) => sess[s] = "Waiting"
    /\ pc[s] = "loop" =>
         /\ (InOffer /\ alive[s]) => Offered(sess[s], control[s])
         /\ (InGame /\ alive[s]) => Begun(sess[s], control[s])
         /\ Has(control[s], LastEdges) => Ending(sess[s], control[s])

AllOnCourse == phase # "dead" /\ \A s \in registered : OnCourse(s)

\* No game task panics, and a control channel holds every edge of one game.
CourseAssumption == "game" \notin Faults /\ ControlCapacity >= 3

\* The arrows a session takes in a game.
LEMMA CourseArrows ==
    /\ Advance("Waiting", "Paired") = "Agreeing"
    /\ Advance("Agreeing", "BothAgreed") = "Playing"
    /\ Advance("Agreeing", "PairingDiscarded") = "Waiting"
    /\ Advance("Playing", "GameEnded") = "Finished"
    /\ Advance("Finished", "NextGame") = "Waiting"
<1>1. \A to : <<"Waiting", "Paired", to>> \in Arrows <=> to = "Agreeing"
      BY DEF Arrows
<1>2. \A to : <<"Agreeing", "BothAgreed", to>> \in Arrows <=> to = "Playing"
      BY DEF Arrows
<1>3. \A to : <<"Agreeing", "PairingDiscarded", to>> \in Arrows <=> to = "Waiting"
      BY DEF Arrows
<1>4. \A to : <<"Playing", "GameEnded", to>> \in Arrows <=> to = "Finished"
      BY DEF Arrows
<1>5. \A to : <<"Finished", "NextGame", to>> \in Arrows <=> to = "Waiting"
      BY DEF Arrows
<1>6. {"Waiting", "Agreeing", "Playing", "Finished"} \subseteq States
      BY DEF States
<1> HIDE DEF Arrows
<1>7. Advance("Waiting", "Paired") = "Agreeing"
      BY <1>1, <1>6 DEF Advance, HasArrow
<1>8. Advance("Agreeing", "BothAgreed") = "Playing"
      BY <1>2, <1>6 DEF Advance, HasArrow
<1>9. Advance("Agreeing", "PairingDiscarded") = "Waiting"
      BY <1>3, <1>6 DEF Advance, HasArrow
<1>10. Advance("Playing", "GameEnded") = "Finished"
      BY <1>4, <1>6 DEF Advance, HasArrow
<1>11. Advance("Finished", "NextGame") = "Waiting"
      BY <1>5, <1>6 DEF Advance, HasArrow
<1>12. QED BY <1>7, <1>8, <1>9, <1>10, <1>11

\* An edge told to a session that still reads is queued: the channel has room.
LEMMA EdgeIsQueued ==
    ASSUME CourseAssumption, NEW living, NEW edge, Notify(living, edge),
           NEW s \in Side, pc[s] = "loop", Len(control[s]) \in {0, 1, 2}
    PROVE  control'[s] = IF living[s] THEN Append(control[s], edge) ELSE control[s]
<1>1. Len(control[s]) < ControlCapacity
  <2>1. ControlCapacity \in Nat /\ ControlCapacity >= 3
        BY CapacityAssumption DEF CourseAssumption
  <2>2. \A n \in {0, 1, 2} : n < ControlCapacity
        BY <2>1
  <2>3. QED BY <2>2, Zenon
<1>2. Tell(s, edge) = Append(control[s], edge)
      BY <1>1 DEF Tell
<1>3. QED BY <1>2 DEF Notify

\* Appending to a short queue, element by element.
LEMMA AppendedTuples ==
    ASSUME NEW a, NEW b, NEW c
    PROVE  /\ Append(<<>>, c) = <<c>>
           /\ Append(<<a>>, c) = <<a, c>>
           /\ Append(<<a, b>>, c) = <<a, b, c>>
<1> DEFINE S == {a, b, c}
<1>1. /\ <<>> \in Seq(S) /\ <<a>> \in Seq(S) /\ <<a, b>> \in Seq(S)
      /\ <<c>> \in Seq(S) /\ <<a, c>> \in Seq(S) /\ <<a, b, c>> \in Seq(S)
      /\ c \in S
      OBVIOUS
<1>2. /\ Len(<<>>) = 0 /\ Len(<<a>>) = 1 /\ Len(<<a, b>>) = 2
      /\ Len(<<c>>) = 1 /\ Len(<<a, c>>) = 2 /\ Len(<<a, b, c>>) = 3
      OBVIOUS
<1> HIDE DEF S
<1>3. Append(<<>>, c) = <<c>>
      BY <1>1, <1>2, AppendProperties, SeqEqual
<1>4. Append(<<a>>, c) = <<a, c>>
  <2> DEFINE more == Append(<<a>>, c)
  <2>1. more \in Seq(S) /\ Len(more) = 2 /\ more[1] = a /\ more[2] = c
        BY <1>1, <1>2, AppendProperties
  <2> HIDE DEF more
  <2>2. \A i \in 1..2 : i = 1 \/ i = 2
        OBVIOUS
  <2>3. \A i \in 1..2 : more[i] = <<a, c>>[i]
        BY <2>1, <2>2
  <2>4. more = <<a, c>>
        BY <1>1, <1>2, <2>1, <2>3, SeqEqual
  <2>5. QED BY <2>4 DEF more
<1>5. Append(<<a, b>>, c) = <<a, b, c>>
  <2> DEFINE more == Append(<<a, b>>, c)
  <2>1. /\ more \in Seq(S) /\ Len(more) = 3
        /\ more[1] = a /\ more[2] = b /\ more[3] = c
        BY <1>1, <1>2, AppendProperties
  <2> HIDE DEF more
  <2>2. \A i \in 1..3 : i = 1 \/ i = 2 \/ i = 3
        OBVIOUS
  <2>3. \A i \in 1..3 : more[i] = <<a, b, c>>[i]
        BY <2>1, <2>2
  <2>4. more = <<a, b, c>>
        BY <1>1, <1>2, <2>1, <2>3, SeqEqual
  <2>5. QED BY <2>4 DEF more
<1>6. QED BY <1>3, <1>4, <1>5

\* From an offer to a game, and from either to its end.
LEMMA CourseGrows ==
    ASSUME NEW state, NEW queue
    PROVE  /\ Offered(state, queue) => /\ Begun(state, Append(queue, "Started"))
                                       /\ Ending(state, Append(queue, "PairingDiscarded"))
           /\ Begun(state, queue) => Ending(state, Append(queue, "GameEnded"))
           /\ Offered(state, queue) \/ Begun(state, queue) => Len(queue) \in {0, 1, 2}
<1>0. /\ Append(<<"Paired">>, "Started") = <<"Paired", "Started">>
      /\ Append(<<>>, "Started") = <<"Started">>
      /\ Append(<<"Paired">>, "PairingDiscarded") = <<"Paired", "PairingDiscarded">>
      /\ Append(<<>>, "PairingDiscarded") = <<"PairingDiscarded">>
      /\ Append(<<"Paired", "Started">>, "GameEnded")
           = <<"Paired", "Started", "GameEnded">>
      /\ Append(<<"Started">>, "GameEnded") = <<"Started", "GameEnded">>
      /\ Append(<<>>, "GameEnded") = <<"GameEnded">>
      BY AppendedTuples
<1>1. Offered(state, queue) => Begun(state, Append(queue, "Started"))
      BY <1>0 DEF Offered, Begun
<1>2. Offered(state, queue) => Ending(state, Append(queue, "PairingDiscarded"))
      BY <1>0 DEF Offered, Ending
<1>3. Begun(state, queue) => Ending(state, Append(queue, "GameEnded"))
      BY <1>0 DEF Begun, Ending
<1>4. Offered(state, queue) \/ Begun(state, queue) => Len(queue) \in {0, 1, 2}
      BY DEF Offered, Begun
<1>5. QED BY <1>1, <1>2, <1>3, <1>4

\* A step that neither tells the session nor advances it leaves it on course.
LEMMA CourseFrame ==
    ASSUME NEW s, OnCourse(s),
           sess'[s] = sess[s], control'[s] = control[s],
           pc'[s] = "loop" => pc[s] = "loop",
           (s \in pool' \/ Has(requests'[s], {"Ready"}))
             => (s \in pool \/ Has(requests[s], {"Ready"})),
           (InOffer' /\ alive'[s]) => (InOffer /\ alive[s]),
           (InGame' /\ alive'[s]) => (InGame /\ alive[s])
    PROVE  OnCourse(s)'
BY DEF OnCourse

\* A session that takes an edge of its game moves along the course.
LEMMA ControlCourse ==
    ASSUME CourseAssumption, TypeOK, OneClaim, AllOnCourse,
           NEW t \in Side, TakeControl(t)
    PROVE  AllOnCourse'
<1>0. /\ UNCHANGED <<registered, pool, phase, alive>>
      /\ control' = [control EXCEPT ![t] = Tail(@)]
      /\ control[t] \in Seq(Controls) /\ control[t] # <<>>
      /\ control \in [Side -> Seq(Controls)] /\ sess \in [Side -> States]
      /\ requests \in [Side -> Seq({"Ready", "Gone"})]
      /\ pc \in [Side -> {"loop", "closing", "gone", "closed"}]
      /\ registered \subseteq Side
      BY DEF TakeControl, TypeOK, ControlOK, RequestsOK, SessionsOK, CoordinatorOK
<1> SUFFICES ASSUME NEW s \in registered PROVE OnCourse(s)'
    BY <1>0 DEF AllOnCourse
<1>1. CASE s # t
  <2>1. /\ sess'[s] = sess[s] /\ control'[s] = control[s] /\ pc'[s] = pc[s]
        /\ requests'[s] = requests[s]
        BY <1>0, <1>1 DEF TakeControl
  <2>2. QED BY <1>0, <2>1, CourseFrame DEF AllOnCourse, InOffer, InGame
<1>2. CASE s = t
  <2>0. OnCourse(t) /\ Claim(t) /\ pc[t] = "loop" /\ control'[t] = Tail(control[t])
        BY <1>0, <1>2 DEF AllOnCourse, OneClaim, TakeControl, Idle
  <2>1. control[t] # <<>> => t \notin pool /\ ~Has(requests[t], {"Ready"})
    <3>1. t \in pool => control[t] = <<>>
          BY <2>0 DEF Claim
    <3>2. Has(requests[t], {"Ready"}) => control[t] = <<>>
          BY <1>0, <1>2, <2>0, NoCloseLeft DEF Claim
    <3>3. QED BY <3>1, <3>2
  <2>2. /\ Head(control[t]) = "Paired" =>
              sess'[t] = Advance(sess[t], "Paired") /\ requests' = requests
        /\ Head(control[t]) = "Started" =>
              sess'[t] = Advance(sess[t], "BothAgreed") /\ requests' = requests
        /\ Head(control[t]) = "PairingDiscarded" =>
              sess'[t] = Advance(sess[t], "PairingDiscarded")
        /\ Head(control[t]) = "GameEnded" =>
              sess'[t] = Advance(Advance(sess[t], "GameEnded"), "NextGame")
        BY <1>0 DEF TakeControl
  <2>3. CASE Has(control[t], LastEdges)
    <3>1. Ending(sess[t], control[t]) /\ ~InOffer /\ ~InGame
          BY <2>0, <2>3 DEF OnCourse, Claim, TaskRuns, InOffer, InGame
    <3>2. CASE Head(control[t]) \in LastEdges
      <4>1. sess'[t] = "Waiting" /\ control'[t] = <<>>
        <5>1. CASE sess[t] = "Playing" /\ control[t] = <<"GameEnded">>
              BY <2>0, <2>2, <5>1, CourseArrows
        <5>2. CASE sess[t] = "Agreeing" /\ control[t] = <<"PairingDiscarded">>
              BY <2>0, <2>2, <5>2, CourseArrows
        <5>3. QED BY <3>1, <3>2, <5>1, <5>2 DEF Ending, LastEdges
      <4>2. QED BY <1>0, <1>2, <3>1, <4>1, EmptyQueue DEF OnCourse, InOffer, InGame
    <3>3. CASE Head(control[t]) \notin LastEdges
      <4>1. Ending(sess'[t], control'[t]) /\ requests' = requests
        <5>1. CASE /\ sess[t] = "Waiting"
                   /\ control[t] = <<"Paired", "Started", "GameEnded">>
              BY <2>0, <2>2, <5>1, CourseArrows DEF Ending
        <5>2. CASE sess[t] = "Agreeing" /\ control[t] = <<"Started", "GameEnded">>
              BY <2>0, <2>2, <5>2, CourseArrows DEF Ending
        <5>3. CASE sess[t] = "Waiting" /\ control[t] = <<"Paired", "PairingDiscarded">>
              BY <2>0, <2>2, <5>3, CourseArrows DEF Ending
        <5>4. QED BY <3>1, <3>3, <5>1, <5>2, <5>3 DEF Ending, LastEdges
      <4>2. QED BY <1>0, <1>2, <2>1, <3>1, <4>1 DEF OnCourse, InOffer, InGame
    <3>4. QED BY <3>2, <3>3
  <2>4. CASE ~Has(control[t], LastEdges)
    <3>1. /\ Head(control[t]) \notin LastEdges /\ ~Has(control'[t], LastEdges)
          /\ requests' = requests
      <4>1. Head(control[t]) \notin LastEdges /\ ~Has(Tail(control[t]), LastEdges)
            BY <1>0, <2>4, TakenQueue
      <4>2. QED BY <2>0, <4>1 DEF TakeControl, LastEdges
    <3>2. (InOffer /\ alive[t]) => Offered(sess'[t], control'[t])
      <4>1. SUFFICES ASSUME InOffer, alive[t]
                     PROVE  Offered(sess'[t], control'[t])
            OBVIOUS
      <4>2. sess[t] = "Waiting" /\ control[t] = <<"Paired">>
            BY <1>0, <2>0, <4>1 DEF OnCourse, Offered
      <4>3. QED BY <2>0, <2>2, <4>2, CourseArrows DEF Offered
    <3>3. (InGame /\ alive[t]) => Begun(sess'[t], control'[t])
      <4>1. SUFFICES ASSUME InGame, alive[t]
                     PROVE  Begun(sess'[t], control'[t])
            OBVIOUS
      <4>2. \/ sess[t] = "Waiting" /\ control[t] = <<"Paired", "Started">>
            \/ sess[t] = "Agreeing" /\ control[t] = <<"Started">>
            BY <1>0, <2>0, <4>1 DEF OnCourse, Begun
      <4>3. CASE sess[t] = "Waiting" /\ control[t] = <<"Paired", "Started">>
            BY <2>0, <2>2, <4>3, CourseArrows DEF Begun
      <4>4. CASE sess[t] = "Agreeing" /\ control[t] = <<"Started">>
            BY <2>0, <2>2, <4>4, CourseArrows DEF Begun
      <4>5. QED BY <4>2, <4>3, <4>4
    <3>4. QED BY <1>0, <1>2, <2>1, <3>1, <3>2, <3>3 DEF OnCourse, InOffer, InGame
  <2>5. QED BY <2>3, <2>4
<1>3. QED BY <1>1, <1>2

\* The other steps of clients, writers and sessions.
LEMMA SessionCourse ==
    ASSUME TypeOK, AllOnCourse, [Next]_vars, NEW t \in Side,
           \/ ClientSend(t) \/ ClientClose(t) \/ ClientRead(t) \/ WriterEnds(t)
           \/ TakeLine(t) \/ SessionSend(t) \/ EndOfStream(t) \/ CloseSocket(t)
           \/ Disconnect(t) \/ SessionPanics(t)
    PROVE  AllOnCourse'
<1>0. /\ UNCHANGED <<registered, pool, phase, alive, sess>>
      /\ registered \subseteq Side
      BY DEF ClientSend, ClientClose, ClientRead, WriterEnds, TakeLine, SessionSend,
         EndOfStream, CloseSocket, Disconnect, SessionPanics, TypeOK, CoordinatorOK
<1> SUFFICES ASSUME NEW s \in registered PROVE OnCourse(s)'
    BY <1>0 DEF AllOnCourse
<1>1. OnCourse(s) /\ (pc'[s] = "loop" => pc[s] = "loop")
      BY <1>0, LeftForGood DEF AllOnCourse
<1>2. Has(requests'[s], {"Ready"}) => Has(requests[s], {"Ready"})
  <2>1. CASE requests'[s] = requests[s]
        BY <2>1
  <2>2. CASE requests'[s] = Append(requests[s], "Gone")
        BY <1>0, <2>2, AppendedQueue DEF TypeOK, RequestsOK
  <2>3. \/ requests' = requests
        \/ requests' = [requests EXCEPT ![t] = Append(@, "Gone")]
        BY DEF ClientSend, ClientClose, ClientRead, WriterEnds, TakeLine, SessionSend,
           EndOfStream, CloseSocket, Disconnect, SessionPanics
  <2>4. QED BY <1>0, <2>1, <2>2, <2>3 DEF TypeOK, RequestsOK
<1>3. CASE control'[s] = control[s]
      BY <1>0, <1>1, <1>2, <1>3, CourseFrame DEF InOffer, InGame
<1>4. CASE control'[s] # control[s]
  <2>1. s = t /\ pc'[s] # "loop"
        BY <1>0, <1>4 DEF ClientSend, ClientClose, ClientRead, WriterEnds, TakeLine,
           SessionSend, EndOfStream, CloseSocket, Disconnect, SessionPanics,
           TypeOK, ControlOK, SessionsOK
  <2>2. QED BY <1>0, <1>1, <1>2, <2>1 DEF OnCourse
<1>5. QED BY <1>3, <1>4

\* The game task's steps that tell no session anything.
LEMMA QuietTaskCourse ==
    ASSUME AllOnCourse, UNCHANGED <<sessionVars, control, requests, coordVars>>,
           phase' # "dead",
           \A s \in registered : (InOffer' /\ alive'[s]) => (InOffer /\ alive[s]),
           \A s \in registered : (InGame' /\ alive'[s]) => (InGame /\ alive[s])
    PROVE  AllOnCourse'
<1> SUFFICES ASSUME NEW s \in registered PROVE OnCourse(s)'
    BY DEF AllOnCourse
<1>1. QED BY CourseFrame DEF AllOnCourse

\* The task that ends an offer, or a game, tells whoever it still knows.
LEMMA EndedCourse ==
    ASSUME CourseAssumption, TypeOK, OneClaim, AllOnCourse,
           NEW living, \A s \in Side : living[s] => alive[s],
           NEW edge, Notify(living, edge),
           \/ edge = "PairingDiscarded" /\ InOffer
           \/ edge = "GameEnded" /\ InGame,
           phase' = "over", UNCHANGED <<sessionVars, requests, coordVars>>
    PROVE  AllOnCourse'
<1>0. registered \subseteq Side /\ ~InOffer' /\ ~InGame'
      BY DEF TypeOK, CoordinatorOK, InOffer, InGame
<1> SUFFICES ASSUME NEW s \in registered PROVE OnCourse(s)'
    BY DEF AllOnCourse
<1>1. /\ OnCourse(s) /\ Claim(s) /\ TaskRuns /\ s \in Side
      BY <1>0 DEF AllOnCourse, OneClaim, TaskRuns, InOffer, InGame
<1>2. ~Has(control[s], LastEdges)
      BY <1>1 DEF Claim
<1>3. CASE living[s] /\ pc[s] = "loop"
  <2>1. alive[s]
        BY <1>1, <1>3
  <2>2. CASE edge = "PairingDiscarded" /\ InOffer
    <3>1. Offered(sess[s], control[s])
          BY <1>1, <1>3, <2>1, <2>2 DEF OnCourse
    <3>2. control'[s] = Append(control[s], edge)
          BY <1>1, <1>3, <3>1, CourseGrows, EdgeIsQueued
    <3>3. Ending(sess[s], control'[s])
          BY <2>2, <3>1, <3>2, CourseGrows
    <3>4. QED BY <1>0, <1>1, <3>3 DEF OnCourse
  <2>3. CASE edge = "GameEnded" /\ InGame
    <3>1. Begun(sess[s], control[s])
          BY <1>1, <1>3, <2>1, <2>3 DEF OnCourse
    <3>2. control'[s] = Append(control[s], edge)
          BY <1>1, <1>3, <3>1, CourseGrows, EdgeIsQueued
    <3>3. Ending(sess[s], control'[s])
          BY <2>3, <3>1, <3>2, CourseGrows
    <3>4. QED BY <1>0, <1>1, <3>3 DEF OnCourse
  <2>4. QED BY <2>2, <2>3
<1>4. CASE ~living[s] /\ pc[s] = "loop"
  <2>1. control'[s] = control[s]
        BY <1>1, <1>4 DEF Notify
  <2>2. QED BY <1>0, <1>1, <2>1, CourseFrame
<1>5. CASE pc[s] # "loop"
      BY <1>1, <1>5 DEF OnCourse
<1>6. QED BY <1>3, <1>4, <1>5

\* What the game task does keeps every session on course.
LEMMA TaskCourse ==
    ASSUME CourseAssumption, TypeOK, OneClaim, AllOnCourse,
           \/ Receive \/ TaskSend \/ AgreementExpires \/ Refused \/ NobodyLeft
           \/ Deadline \/ File \/ Finish \/ TaskPanics \/ Watch
    PROVE  AllOnCourse'
<1>0. registered \subseteq Side /\ alive \in [Side -> BOOLEAN]
      BY DEF TypeOK, CoordinatorOK, TaskOK
<1>1. ASSUME NEW m, Agree(m)
      PROVE  AllOnCourse'
  <2>1. UNCHANGED <<sessionVars, requests, coordVars, alive>> /\ InOffer
        BY <1>1 DEF Agree, Received, Awaits, InOffer
  <2>2. CASE UNCHANGED <<phase, control>>
        BY <2>1, <2>2, QuietTaskCourse DEF InOffer, InGame, AllOnCourse
  <2>3. CASE Notify(alive, "Started") /\ phase' = "playing"
    <3> SUFFICES ASSUME NEW s \in registered PROVE OnCourse(s)'
        BY <2>1, <2>3 DEF AllOnCourse
    <3>1. OnCourse(s) /\ Claim(s) /\ s \in Side /\ TaskRuns /\ ~InOffer' /\ InGame'
          BY <1>0, <2>1, <2>3 DEF AllOnCourse, OneClaim, TaskRuns, InOffer, InGame
    <3>2. ~Has(control[s], LastEdges)
          BY <3>1 DEF Claim
    <3>3. CASE alive[s] /\ pc[s] = "loop"
      <4>1. Offered(sess[s], control[s])
            BY <2>1, <3>1, <3>3 DEF OnCourse
      <4>2. control'[s] = Append(control[s], "Started")
            BY <2>3, <3>1, <3>3, <4>1, CourseGrows, EdgeIsQueued
      <4>3. Begun(sess[s], control'[s])
            BY <4>1, <4>2, CourseGrows
      <4>4. ~Has(control'[s], LastEdges)
        <5>1. "Started" \in Controls /\ "Started" \notin LastEdges
              BY DEF Controls, LastEdges
        <5>2. control[s] \in Seq(Controls)
              BY <3>1 DEF TypeOK, ControlOK
        <5>3. QED BY <3>2, <4>2, <5>1, <5>2, AppendedQueue
      <4>5. QED BY <2>1, <3>1, <4>3, <4>4 DEF OnCourse
    <3>4. CASE ~alive[s]
      <4>1. control'[s] = control[s]
            BY <2>3, <3>1, <3>4 DEF Notify
      <4>2. QED BY <2>1, <3>1, <3>4, <4>1, CourseFrame
    <3>5. CASE pc[s] # "loop"
          BY <2>1, <3>1, <3>5 DEF OnCourse
    <3>6. QED BY <3>3, <3>4, <3>5
  <2>4. QED BY <1>1, <2>2, <2>3 DEF Agree
<1>2. ASSUME NEW m, DisconnectedBeforeStart(m)
      PROVE  AllOnCourse'
  <2> DEFINE living == [alive EXCEPT ![m.side] = FALSE]
  <2>1. /\ InOffer /\ phase' = "over" /\ Notify(living, "PairingDiscarded")
        /\ UNCHANGED <<sessionVars, requests, coordVars>>
        BY <1>2 DEF DisconnectedBeforeStart, Discard, Return, Awaits, InOffer
  <2>2. \A s \in Side : living[s] => alive[s]
        BY <1>0
  <2>3. QED BY <2>1, <2>2, EndedCourse
<1>3. CASE Refused
  <2>1. /\ InOffer /\ phase' = "over" /\ Notify(alive, "PairingDiscarded")
        /\ UNCHANGED <<sessionVars, requests, coordVars>>
        BY <1>3 DEF Refused, Discard, Return, Awaits, InOffer
  <2>2. QED BY <2>1, EndedCourse
<1>4. CASE Finish
  <2>1. /\ InGame /\ phase' = "over" /\ Notify(alive, "GameEnded")
        /\ UNCHANGED <<sessionVars, requests, coordVars>>
        BY <1>4 DEF Finish, Return, Awaits, InGame
  <2>2. QED BY <2>1, EndedCourse
<1>5. CASE TaskPanics \/ Watch
      BY <1>5 DEF TaskPanics, Watch, CourseAssumption, AllOnCourse
<1>6. ASSUME NEW m, Reject(m) \/ IgnoredBeforeStart(m)
      PROVE  AllOnCourse'
  <2>1. /\ InOffer /\ InOffer' /\ UNCHANGED alive
        /\ UNCHANGED <<sessionVars, control, requests, coordVars>>
        BY <1>6 DEF Reject, Refuse, IgnoredBeforeStart, Received, Awaits, InOffer
  <2>2. QED BY <2>1, QuietTaskCourse DEF InOffer, InGame
<1>7. ASSUME NEW m,
             \/ Move(m) \/ Resign(m) \/ Declare(m) \/ KeepAlive(m) \/ Abort(m)
             \/ IgnoredInGame(m)
      PROVE  AllOnCourse'
  <2>1. /\ InGame /\ InGame' /\ UNCHANGED alive
        /\ UNCHANGED <<sessionVars, control, requests, coordVars>>
        BY <1>7 DEF Move, Relayed, NotRelayed, Resign, Declare, KeepAlive, Abort,
           IgnoredInGame, Terminate, Received, Awaits, InGame
  <2>2. QED BY <2>1, QuietTaskCourse DEF InOffer, InGame
<1>8. ASSUME NEW m, Disconnected(m)
      PROVE  AllOnCourse'
  <2>1. /\ InGame /\ InGame' /\ alive' = [alive EXCEPT ![m.side] = FALSE]
        /\ UNCHANGED <<sessionVars, control, requests, coordVars>>
        BY <1>8 DEF Disconnected, Terminate, Received, Awaits, InGame
  <2>2. \A s \in Side : alive'[s] => alive[s]
        BY <1>0, <2>1
  <2>3. QED BY <1>0, <2>1, <2>2, QuietTaskCourse DEF InOffer, InGame
<1>9. CASE TaskSend
  <2>1. /\ UNCHANGED <<sessionVars, control, requests, coordVars, phase>>
        /\ \E s : alive' = [alive EXCEPT ![s] = alive[s] /\ writer[s]]
        BY <1>9 DEF TaskSend
  <2>2. \A s \in Side : alive'[s] => alive[s]
        BY <1>0, <2>1
  <2>3. QED BY <1>0, <2>1, <2>2, QuietTaskCourse DEF InOffer, InGame, AllOnCourse
<1>10. CASE AgreementExpires
  <2>1. /\ InOffer /\ InOffer' /\ UNCHANGED alive
        /\ UNCHANGED <<sessionVars, control, requests, coordVars>>
        BY <1>10 DEF AgreementExpires, Refuse, Awaits, InOffer
  <2>2. QED BY <2>1, QuietTaskCourse DEF InOffer, InGame
<1>11. CASE Deadline \/ File
  <2>1. /\ InGame /\ InGame' /\ UNCHANGED alive
        /\ UNCHANGED <<sessionVars, control, requests, coordVars>>
        BY <1>11 DEF Deadline, File, Terminate, Awaits, InGame
  <2>2. QED BY <2>1, QuietTaskCourse DEF InOffer, InGame
<1>12. CASE NobodyLeft
  <2>1. /\ phase' = "over" /\ UNCHANGED <<sessionVars, control, requests, coordVars>>
        BY <1>12 DEF NobodyLeft, Return
  <2>2. QED BY <2>1, QuietTaskCourse DEF InOffer, InGame
<1>13. QED BY <1>1, <1>2, <1>3, <1>4, <1>5, <1>6, <1>7, <1>8, <1>9, <1>10, <1>11,
              <1>12 DEF Receive

\* What the coordinator does keeps every session on course.
LEMMA CoordinatorCourse ==
    ASSUME CourseAssumption, TypeOK, OneClaim, AllOnCourse, NEW t \in Side,
           HandleReady(t) \/ HandleGone(t) \/ Replace(t) \/ Offer \/ AskAbort
    PROVE  AllOnCourse'
<1>0. /\ registered \subseteq Side /\ control \in [Side -> Seq(Controls)]
      /\ requests \in [Side -> Seq({"Ready", "Gone"})]
      BY DEF TypeOK, CoordinatorOK, ControlOK, RequestsOK
<1>1. CASE HandleReady(t) \/ HandleGone(t)
  <2>1. /\ requests[t] # <<>> /\ requests' = [requests EXCEPT ![t] = Tail(@)]
        /\ UNCHANGED <<sess, pc, control, phase, alive>>
        /\ registered' \subseteq registered
        BY <1>1 DEF HandleReady, HandleGone
  <2> SUFFICES ASSUME NEW s \in registered' PROVE OnCourse(s)'
      BY <2>1 DEF AllOnCourse
  <2>2. s \in registered /\ s \in Side /\ OnCourse(s)
        BY <1>0, <2>1 DEF AllOnCourse
  <2>3. Has(requests'[s], {"Ready"}) => Has(requests[s], {"Ready"})
    <3>1. CASE s = t
      <4>1. requests'[s] = Tail(requests[s]) /\ requests[s] # <<>>
            BY <1>0, <2>1, <3>1
      <4>2. QED BY <1>0, <2>2, <4>1, TakenQueue
    <3>2. CASE s # t
          BY <1>0, <2>1, <2>2, <3>2
    <3>3. QED BY <3>1, <3>2
  <2>4. s \in pool' => s \in pool \/ Has(requests[s], {"Ready"})
    <3>1. CASE HandleReady(t)
      <4>1. Has(requests[t], {"Ready"})
        <5>1. Head(requests[t]) = "Ready" /\ requests[t] \in Seq({"Ready", "Gone"})
              BY <1>0, <3>1 DEF HandleReady
        <5>2. QED BY <2>1, <5>1, TakenQueue
      <4>2. QED BY <3>1, <4>1 DEF HandleReady
    <3>2. CASE HandleGone(t)
          BY <3>2 DEF HandleGone
    <3>3. QED BY <1>1, <3>1, <3>2
  <2>5. QED BY <2>1, <2>2, <2>3, <2>4, CourseFrame DEF InOffer, InGame
<1>2. CASE Replace(t)
  <2>1. /\ UNCHANGED <<sess, pc, requests, phase, alive>>
        /\ registered' = registered \ {t} /\ pool' \subseteq pool
        /\ \A s \in Side \ {t} : control'[s] = control[s]
        BY <1>0, <1>2 DEF Replace
  <2> SUFFICES ASSUME NEW s \in registered' PROVE OnCourse(s)'
      BY <2>1 DEF AllOnCourse
  <2>2. OnCourse(s) /\ control'[s] = control[s]
        BY <1>0, <2>1 DEF AllOnCourse
  <2>3. QED BY <2>1, <2>2, CourseFrame DEF InOffer, InGame
<1>3. CASE Offer
  <2>1. /\ pool = Side /\ pool' = {} /\ phase' = "proposing"
        /\ Notify([q \in Side |-> TRUE], "Paired")
        /\ UNCHANGED <<sessionVars, requests, registered>>
        BY <1>3 DEF Offer
  <2> SUFFICES ASSUME NEW s \in registered PROVE OnCourse(s)'
      BY <2>1 DEF AllOnCourse
  <2>2. /\ s \in Side /\ OnCourse(s) /\ Claim(s) /\ s \in pool
        /\ InOffer' /\ ~InGame'
        BY <1>0, <2>1 DEF AllOnCourse, OneClaim, InOffer, InGame
  <2>3. sess[s] = "Waiting" /\ control[s] = <<>> /\ ~Has(requests[s], {"Ready"})
        BY <2>2 DEF OnCourse, Claim
  <2>4. CASE pc[s] = "loop"
    <3>1. Len(control[s]) \in {0, 1, 2}
          BY <2>3
    <3>2. control'[s] = Append(control[s], "Paired")
      <4>1. [q \in Side |-> TRUE][s]
            BY <2>2
      <4>2. QED BY <2>1, <2>2, <2>4, <3>1, <4>1, EdgeIsQueued
    <3>3. control'[s] = <<"Paired">>
          BY <2>3, <3>2
    <3>4. ~Has(<<"Paired">>, LastEdges)
          BY DEF Has, LastEdges
    <3>5. Offered(sess'[s], control'[s]) /\ ~Has(control'[s], LastEdges)
          BY <2>1, <2>3, <3>3, <3>4 DEF Offered
    <3>6. QED BY <2>1, <2>2, <2>3, <3>5 DEF OnCourse
  <2>5. CASE pc[s] # "loop"
        BY <2>1, <2>3, <2>5 DEF OnCourse
  <2>6. QED BY <2>4, <2>5
<1>4. CASE AskAbort
      BY <1>4, QuietTaskCourse DEF AskAbort, InOffer, InGame, AllOnCourse
<1>5. QED BY <1>1, <1>2, <1>3, <1>4

\* Every step keeps every session on course.
LEMMA NextCourse ==
    ASSUME CourseAssumption
    PROVE  TypeOK /\ OneClaim /\ AllOnCourse /\ [Next]_vars => AllOnCourse'
<1> SUFFICES ASSUME TypeOK, OneClaim, AllOnCourse, [Next]_vars
             PROVE  AllOnCourse'
    OBVIOUS
<1>1. CASE UNCHANGED vars
      BY <1>1, QuietTaskCourse DEF InOffer, InGame, AllOnCourse
<1>2. ASSUME NEW s \in Side,
             \/ ClientStep(s) \/ ClientRead(s) \/ WriterEnds(s)
             \/ SessionStep(s) \/ SessionPanics(s)
      PROVE  AllOnCourse'
      BY <1>2, ControlCourse, SessionCourse DEF ClientStep, SessionStep
<1>3. ASSUME NEW s \in Side, HandleReady(s) \/ HandleGone(s) \/ Replace(s)
      PROVE  AllOnCourse'
      BY <1>3, CoordinatorCourse
<1>4. CASE TaskStep \/ AgreementExpires \/ Deadline \/ TaskPanics \/ Watch
      BY <1>4, TaskCourse DEF TaskStep
<1>5. CASE Offer \/ AskAbort
  <2>1. "black" \in Side
        BY DEF Side
  <2>2. QED BY <1>5, <2>1, CoordinatorCourse
<1>6. QED BY <1>1, <1>2, <1>3, <1>4, <1>5 DEF Next

\* A session whose machine has left Waiting, or is about to, is counted.
Counted(s) == (sess[s] # "Waiting" \/ Has(control[s], {"Paired"})) => s \in playing

AllCounted == \A s \in registered : Counted(s)

\* Only Paired leads out of Waiting.
LEMMA WaitingStays ==
    ASSUME NEW edge
    PROVE  edge # "Paired" => Advance("Waiting", edge) = "Waiting"
BY DEF Advance, HasArrow, Arrows

\* A step that advances no session, queues no Paired and uncounts nobody who is
\* still registered keeps every player counted.
LEMMA CountedFrame ==
    ASSUME AllCounted, registered' \subseteq registered, sess' = sess,
           \A s \in registered' :
              /\ Has(control'[s], {"Paired"}) => Has(control[s], {"Paired"})
              /\ s \in playing => s \in playing'
    PROVE  AllCounted'
BY DEF AllCounted, Counted

\* Telling a session any other edge queues no Paired.
LEMMA ToldCounted ==
    ASSUME TypeOK, AllCounted, NEW living, NEW edge \in Controls \ {"Paired"},
           Notify(living, edge), UNCHANGED <<sessionVars, coordVars>>
    PROVE  AllCounted'
<1>1. registered \subseteq Side /\ control \in [Side -> Seq(Controls)]
      BY DEF TypeOK, CoordinatorOK, ControlOK
<1>2. ASSUME NEW s \in registered, Has(control'[s], {"Paired"})
      PROVE  Has(control[s], {"Paired"})
  <2>1. s \in Side /\ control[s] \in Seq(Controls)
        BY <1>1
  <2>2. control'[s] = control[s] \/ control'[s] = Append(control[s], edge)
        BY <2>1, NotifiedQueue
  <2>3. edge \in Controls /\ edge \notin {"Paired"}
        OBVIOUS
  <2>4. CASE control'[s] = Append(control[s], edge)
    <3>1. Has(Append(control[s], edge), {"Paired"})
             <=> (Has(control[s], {"Paired"}) \/ edge \in {"Paired"})
          BY <2>1, <2>3, AppendedQueue
    <3>2. QED BY <1>2, <2>3, <2>4, <3>1
  <2>5. QED BY <1>2, <2>2, <2>4
<1>3. QED BY <1>2, CountedFrame

\* A session that takes a control message leaves Waiting only by its Paired.
LEMMA ControlCounted ==
    ASSUME TypeOK, AllCounted, NEW t \in Side, TakeControl(t)
    PROVE  AllCounted'
<1>0. /\ UNCHANGED <<registered, playing>> /\ registered \subseteq Side
      /\ control' = [control EXCEPT ![t] = Tail(@)]
      /\ control[t] \in Seq(Controls) /\ control[t] # <<>>
      /\ control \in [Side -> Seq(Controls)] /\ sess \in [Side -> States]
      BY DEF TakeControl, TypeOK, ControlOK, SessionsOK, CoordinatorOK
<1> SUFFICES ASSUME NEW s \in registered PROVE Counted(s)'
    BY <1>0 DEF AllCounted
<1>1. Counted(s)
      BY DEF AllCounted
<1>2. CASE s # t
  <2>1. sess'[s] = sess[s] /\ control'[s] = control[s]
        BY <1>0, <1>2 DEF TakeControl
  <2>2. QED BY <1>0, <1>1, <2>1 DEF Counted
<1>3. CASE s = t
  <2>1. /\ control'[t] = Tail(control[t])
        /\ Has(control'[t], {"Paired"}) => Has(control[t], {"Paired"})
        /\ Head(control[t]) = "Paired" => Has(control[t], {"Paired"})
        BY <1>0, TakenQueue
  <2>2. CASE sess[t] = "Waiting" /\ Head(control[t]) # "Paired"
    <3>1. \/ sess' = sess
          \/ \E edge \in {"BothAgreed", "PairingDiscarded"} :
                sess'[t] = Advance("Waiting", edge)
          \/ sess'[t] = Advance(Advance("Waiting", "GameEnded"), "NextGame")
          BY <1>0, <2>2 DEF TakeControl
    <3>2. sess'[t] = "Waiting"
          BY <2>2, <3>1, WaitingStays
    <3>3. QED BY <1>0, <1>1, <1>3, <2>1, <3>2 DEF Counted
  <2>3. CASE sess[t] # "Waiting" \/ Head(control[t]) = "Paired"
        BY <1>0, <1>1, <1>3, <2>1, <2>3 DEF Counted
  <2>4. QED BY <2>2, <2>3
<1>4. QED BY <1>2, <1>3

\* What the tasks of sessions and games do keeps every player counted.
LEMMA TaskCounted ==
    ASSUME TypeOK, AllCounted,
           \/ Receive \/ TaskSend \/ AgreementExpires \/ Refused \/ NobodyLeft
           \/ Deadline \/ File \/ Finish \/ TaskPanics \/ Watch
    PROVE  AllCounted'
<1>1. ASSUME NEW living, NEW edge \in {"Started", "PairingDiscarded", "GameEnded"},
             Notify(living, edge), UNCHANGED <<sessionVars, coordVars>>
      PROVE  AllCounted'
  <2>1. edge \in Controls \ {"Paired"}
        BY DEF Controls
  <2>2. QED BY <1>1, <2>1, ToldCounted
<1>2. UNCHANGED <<sessionVars, control, coordVars>> => AllCounted'
      BY CountedFrame
<1>3. ASSUME NEW m, Agree(m) \/ DisconnectedBeforeStart(m)
      PROVE  AllCounted'
  <2>1. UNCHANGED <<sessionVars, coordVars>>
        BY <1>3 DEF Agree, DisconnectedBeforeStart
  <2>2. \/ UNCHANGED control
        \/ Notify(alive, "Started")
        \/ \E living : Notify(living, "PairingDiscarded")
        BY <1>3 DEF Agree, DisconnectedBeforeStart, Discard
  <2>3. QED BY <1>1, <1>2, <2>1, <2>2
<1>4. CASE Refused
      BY <1>1, <1>4 DEF Refused, Discard
<1>5. CASE Finish
      BY <1>1, <1>5 DEF Finish
<1>6. CASE Watch
      BY <1>1, <1>6 DEF Watch
<1>7. ASSUME NEW m,
             \/ Reject(m) \/ IgnoredBeforeStart(m) \/ Move(m) \/ Resign(m)
             \/ Declare(m) \/ KeepAlive(m) \/ Abort(m) \/ Disconnected(m)
             \/ IgnoredInGame(m)
      PROVE  AllCounted'
  <2>1. UNCHANGED <<sessionVars, control, coordVars>>
        BY <1>7 DEF Reject, Refuse, IgnoredBeforeStart, Move, Relayed, NotRelayed,
           Resign, Declare, KeepAlive, Abort, Disconnected, IgnoredInGame, Terminate
  <2>2. QED BY <1>2, <2>1
<1>8. CASE \/ TaskSend \/ AgreementExpires \/ NobodyLeft \/ Deadline \/ File
           \/ TaskPanics
  <2>1. UNCHANGED <<sessionVars, control, coordVars>>
        BY <1>8 DEF TaskSend, AgreementExpires, Refuse, NobodyLeft, Deadline,
           Terminate, File, TaskPanics
  <2>2. QED BY <1>2, <2>1
<1>9. QED BY <1>3, <1>4, <1>5, <1>6, <1>7, <1>8 DEF Receive

\* The coordinator uncounts a session that is Waiting, or one it forgets.
LEMMA CoordinatorCounted ==
    ASSUME TypeOK, OneClaim, AllOnCourse, AllCounted, NEW t \in Side,
           HandleReady(t) \/ HandleGone(t) \/ Replace(t) \/ Offer \/ AskAbort
    PROVE  AllCounted'
<1>0. /\ registered \subseteq Side /\ control \in [Side -> Seq(Controls)]
      /\ requests \in [Side -> Seq({"Ready", "Gone"})]
      BY DEF TypeOK, CoordinatorOK, ControlOK, RequestsOK
<1>1. CASE HandleReady(t)
  <2>1. /\ UNCHANGED <<sess, control, registered>>
        /\ playing \ {t} \subseteq playing'
        BY <1>1 DEF HandleReady
  <2>2. t \in registered => sess[t] = "Waiting" /\ ~Has(control[t], {"Paired"})
    <3>1. requests[t] # <<>> /\ Head(requests[t]) = "Ready"
          BY <1>1 DEF HandleReady
    <3>2. Has(requests[t], {"Ready"})
          BY <1>0, <3>1, TakenQueue
    <3>3. OnlyClose(control[t])
          BY <3>2 DEF OneClaim, Claim
    <3>4. QED BY <3>2, <3>3 DEF AllOnCourse, OnCourse, OnlyClose, Has
  <2>3. QED BY <2>1, <2>2 DEF AllCounted, Counted
<1>2. CASE HandleGone(t)
  <2>1. /\ UNCHANGED <<sess, control>> /\ registered' = registered \ {t}
        /\ playing' = playing \ {t}
        BY <1>2 DEF HandleGone
  <2>2. QED BY <2>1, CountedFrame
<1>3. CASE Replace(t)
  <2>1. /\ UNCHANGED sess /\ registered' = registered \ {t}
        /\ playing' = playing \ {t}
        /\ \A s \in Side \ {t} : control'[s] = control[s]
        BY <1>0, <1>3 DEF Replace
  <2>2. QED BY <1>0, <2>1, CountedFrame
<1>4. CASE Offer
      BY <1>0, <1>4 DEF Offer, AllCounted, Counted
<1>5. CASE AskAbort
      BY <1>5, CountedFrame DEF AskAbort
<1>6. QED BY <1>1, <1>2, <1>3, <1>4, <1>5

\* Every step keeps every player counted.
LEMMA NextCounted ==
    TypeOK /\ OneClaim /\ AllOnCourse /\ AllCounted /\ [Next]_vars => AllCounted'
<1> SUFFICES ASSUME TypeOK, OneClaim, AllOnCourse, AllCounted, [Next]_vars
             PROVE  AllCounted'
    OBVIOUS
<1>1. CASE UNCHANGED vars
      BY <1>1, CountedFrame
<1>2. ASSUME NEW t \in Side,
             \/ ClientSend(t) \/ ClientClose(t) \/ ClientRead(t) \/ WriterEnds(t)
             \/ TakeLine(t) \/ SessionSend(t) \/ EndOfStream(t) \/ CloseSocket(t)
             \/ Disconnect(t) \/ SessionPanics(t)
      PROVE  AllCounted'
  <2>1. /\ UNCHANGED <<sess, registered, playing>>
        /\ control' = control \/ control' = [control EXCEPT ![t] = <<>>]
        BY <1>2 DEF ClientSend, ClientClose, ClientRead, WriterEnds, TakeLine,
           SessionSend, EndOfStream, CloseSocket, Disconnect, SessionPanics
  <2>2. \A s \in Side : Has(control'[s], {"Paired"}) => Has(control[s], {"Paired"})
        BY <2>1, EmptyQueue DEF TypeOK, ControlOK
  <2>3. QED BY <2>1, <2>2, CountedFrame DEF TypeOK, CoordinatorOK
<1>3. ASSUME NEW t \in Side, TakeControl(t)
      PROVE  AllCounted'
      BY <1>3, ControlCounted
<1>4. ASSUME NEW t \in Side, HandleReady(t) \/ HandleGone(t) \/ Replace(t)
      PROVE  AllCounted'
      BY <1>4, CoordinatorCounted
<1>5. CASE TaskStep \/ AgreementExpires \/ Deadline \/ TaskPanics \/ Watch
      BY <1>5, TaskCounted DEF TaskStep
<1>6. CASE Offer \/ AskAbort
  <2>1. "black" \in Side
        BY DEF Side
  <2>2. QED BY <1>6, <2>1, CoordinatorCounted
<1>7. QED BY <1>1, <1>2, <1>3, <1>4, <1>5, <1>6 DEF Next, ClientStep, SessionStep

\* At the start both sessions are Waiting with nothing queued.
LEMMA InitCourse == Init => AllOnCourse /\ AllCounted
<1> SUFFICES ASSUME Init, NEW s \in registered
             PROVE  phase # "dead" /\ OnCourse(s) /\ Counted(s)
    BY DEF Init, AllOnCourse, AllCounted
<1>1. /\ s \in Side /\ sess[s] = "Waiting" /\ control[s] = <<>>
      /\ ~InOffer /\ ~InGame /\ phase # "dead"
      BY DEF Init, InOffer, InGame
<1>2. QED BY <1>1, EmptyQueue DEF OnCourse, Counted

\* A session in the pool is Waiting, where no game task panics and a control
\* channel holds the edges of one game (WaitingInPool: handler.rs SessionState,
\* pairing.rs notify, connection.rs CONTROL_CAPACITY).
THEOREM PoolWaits ==
    ASSUME CourseAssumption
    PROVE  Spec => []WaitingInPool
<1>1. TypeOK /\ OneClaim /\ AllOnCourse => WaitingInPool
      BY DEF OneClaim, Claim, AllOnCourse, OnCourse, WaitingInPool, TypeOK, CoordinatorOK
<1>2. QED BY <1>1, InitCourse, NextCourse, TypeCorrect, ClaimIsSingle, PTL DEF Spec

\* Under the same assumption a registered session with a pairing or a game is one
\* the coordinator counts as playing (PlayerIsCounted: server.rs log_in, standing).
THEOREM PlayersCounted ==
    ASSUME CourseAssumption
    PROVE  Spec => []PlayerIsCounted
<1>1. AllCounted => PlayerIsCounted
      BY DEF AllCounted, Counted, PlayerIsCounted
<1>2. QED BY <1>1, InitCourse, NextCourse, NextCounted, TypeCorrect, ClaimIsSingle,
             PTL DEF Spec
-----------------------------------------------------------------------------
(* The edges of one game *)

\* The most messages a control channel holds: the edges the game has sent so far,
\* and one Close for a session that is no longer registered.
Sent  == IF InOffer THEN 1 ELSE IF InGame \/ phase = "dead" THEN 2 ELSE 3
Closes(s) == IF s \in registered THEN 0 ELSE 1

ChannelsBounded == \A s \in Side : Len(control[s]) <= Sent + Closes(s)

\* The lengths of a channel and of what it may become are numbers.
LEMMA Lengths ==
    ASSUME TypeOK, TypeOK', NEW s \in Side
    PROVE  /\ Len(control[s]) \in Nat /\ Len(control'[s]) \in Nat
           /\ control'[s] = <<>> => Len(control'[s]) = 0
           /\ (control[s] # <<>> /\ control'[s] = Tail(control[s]))
                => Len(control'[s]) = Len(control[s]) - 1
           /\ \A edge \in Controls :
                control'[s] = Append(control[s], edge)
                  => Len(control'[s]) = Len(control[s]) + 1
           /\ Sent \in 1..3 /\ Sent' \in 1..3
           /\ Closes(s) \in 0..1 /\ Closes(s)' \in 0..1
<1>1. control[s] \in Seq(Controls) /\ control'[s] \in Seq(Controls)
      BY DEF TypeOK, ControlOK
<1>2. Len(control[s]) \in Nat /\ Len(control'[s]) \in Nat
      BY <1>1, LenProperties
<1>3. control'[s] = <<>> => Len(control'[s]) = 0
      BY EmptySeq
<1>4. (control[s] # <<>> /\ control'[s] = Tail(control[s]))
         => Len(control'[s]) = Len(control[s]) - 1
      BY <1>1, HeadTailProperties
<1>5. \A edge \in Controls :
         control'[s] = Append(control[s], edge)
           => Len(control'[s]) = Len(control[s]) + 1
      BY <1>1, AppendProperties
<1>6. /\ Sent \in 1..3 /\ Sent' \in 1..3
      /\ Closes(s) \in 0..1 /\ Closes(s)' \in 0..1
      BY DEF Sent, Closes
<1>7. QED BY <1>2, <1>3, <1>4, <1>5, <1>6

\* A step that queues nothing, and does not shorten the story, keeps the bound.
LEMMA BoundFrame ==
    ASSUME TypeOK, TypeOK', ChannelsBounded, registered' \subseteq registered,
           Sent <= Sent',
           \A s \in Side : \/ control'[s] = control[s]
                           \/ control'[s] = <<>>
                           \/ control[s] # <<>> /\ control'[s] = Tail(control[s])
    PROVE  ChannelsBounded'
<1> SUFFICES ASSUME NEW s \in Side PROVE Len(control'[s]) <= Sent' + Closes(s)'
    BY DEF ChannelsBounded
<1>1. Closes(s) <= Closes(s)'
      BY DEF Closes
<1>2. Len(control[s]) <= Sent + Closes(s)
      BY DEF ChannelsBounded
<1>3. Len(control'[s]) <= Len(control[s])
      BY Lengths
<1>4. QED BY <1>1, <1>2, <1>3, Lengths

\* A step that tells sessions one edge is the next of the story.
LEMMA BoundTold ==
    ASSUME TypeOK, TypeOK', ChannelsBounded, registered' = registered,
           NEW living, NEW edge \in Controls, Notify(living, edge),
           Sent + 1 <= Sent'
    PROVE  ChannelsBounded'
<1> SUFFICES ASSUME NEW s \in Side PROVE Len(control'[s]) <= Sent' + Closes(s)'
    BY DEF ChannelsBounded
<1>1. Closes(s) = Closes(s)'
      BY DEF Closes
<1>2. Len(control[s]) <= Sent + Closes(s)
      BY DEF ChannelsBounded
<1>3. Len(control'[s]) <= Len(control[s]) + 1
      BY NotifiedQueue, Lengths
<1>4. QED BY <1>1, <1>2, <1>3, Lengths

\* What the game task does keeps the bound.
LEMMA TaskBound ==
    ASSUME TypeOK, TypeOK', ChannelsBounded,
           \/ Receive \/ TaskSend \/ AgreementExpires \/ Refused \/ NobodyLeft
           \/ Deadline \/ File \/ Finish \/ TaskPanics \/ Watch
    PROVE  ChannelsBounded'
<1>1. ASSUME UNCHANGED <<control, coordVars>>,
             \/ phase' = phase
             \/ InOffer /\ InOffer'
             \/ (InGame \/ phase = "dead") /\ InGame'
             \/ phase' = "dead" /\ (InOffer \/ InGame)
             \/ phase' = "over"
      PROVE  ChannelsBounded'
  <2>1. Sent <= Sent'
        BY <1>1 DEF Sent, InOffer, InGame
  <2>2. QED BY <1>1, <2>1, BoundFrame
<1>2. ASSUME NEW living, NEW edge \in {"PairingDiscarded", "GameEnded"},
             Notify(living, edge), UNCHANGED coordVars,
             InOffer \/ InGame \/ phase = "dead", phase' = "over"
      PROVE  ChannelsBounded'
  <2>1. Sent + 1 <= Sent' /\ edge \in Controls
        BY <1>2 DEF Sent, InOffer, InGame, Controls
  <2>2. QED BY <1>2, <2>1, BoundTold
<1>3. ASSUME NEW m, Agree(m)
      PROVE  ChannelsBounded'
  <2>1. CASE UNCHANGED <<phase, control>>
        BY <1>1, <1>3, <2>1 DEF Agree
  <2>2. CASE Notify(alive, "Started") /\ phase' = "playing"
    <3>1. InOffer /\ InGame'
          BY <1>3, <2>2 DEF Agree, Received, Awaits, InOffer, InGame
    <3>2. Sent + 1 <= Sent' /\ "Started" \in Controls
          BY <3>1 DEF Sent, InOffer, InGame, Controls
    <3>3. QED BY <1>3, <2>2, <3>2, BoundTold DEF Agree
  <2>3. QED BY <1>3, <2>1, <2>2 DEF Agree
<1>4. ASSUME NEW m, DisconnectedBeforeStart(m)
      PROVE  ChannelsBounded'
  <2>1. InOffer /\ phase' = "over" /\ UNCHANGED coordVars
        BY <1>4 DEF DisconnectedBeforeStart, Discard, Return, Awaits, InOffer
  <2>2. \E living : Notify(living, "PairingDiscarded")
        BY <1>4 DEF DisconnectedBeforeStart, Discard
  <2>3. QED BY <1>2, <2>1, <2>2
<1>5. CASE Refused
      BY <1>2, <1>5 DEF Refused, Discard, Return, Awaits, InOffer
<1>6. CASE Finish
      BY <1>2, <1>6 DEF Finish, Return, Awaits, InGame
<1>7. CASE Watch
      BY <1>2, <1>7 DEF Watch, Return
<1>8. ASSUME NEW m, Reject(m) \/ IgnoredBeforeStart(m)
      PROVE  ChannelsBounded'
      BY <1>1, <1>8
      DEF Reject, Refuse, IgnoredBeforeStart, Received, Awaits, InOffer
<1>9. ASSUME NEW m,
             \/ Move(m) \/ Resign(m) \/ Declare(m) \/ KeepAlive(m) \/ Abort(m)
             \/ Disconnected(m) \/ IgnoredInGame(m)
      PROVE  ChannelsBounded'
  <2>1. InGame /\ InGame' /\ UNCHANGED <<control, coordVars>>
        BY <1>9 DEF Move, Relayed, NotRelayed, Resign, Declare, KeepAlive, Abort,
           Disconnected, IgnoredInGame, Terminate, Received, Awaits, InGame
  <2>2. QED BY <1>1, <2>1
<1>10. CASE TaskSend
      BY <1>1, <1>10 DEF TaskSend
<1>11. CASE AgreementExpires
      BY <1>1, <1>11 DEF AgreementExpires, Refuse, Awaits, InOffer
<1>12. CASE Deadline \/ File
  <2>1. InGame /\ InGame' /\ UNCHANGED <<control, coordVars>>
        BY <1>12 DEF Deadline, File, Terminate, Awaits, InGame
  <2>2. QED BY <1>1, <2>1
<1>13. CASE TaskPanics
      BY <1>1, <1>13 DEF TaskPanics, InOffer, InGame
<1>14. CASE NobodyLeft
      BY <1>1, <1>14 DEF NobodyLeft, Return
<1>15. QED BY <1>3, <1>4, <1>5, <1>6, <1>7, <1>8, <1>9, <1>10, <1>11, <1>12, <1>13,
              <1>14 DEF Receive

\* What the coordinator does keeps the bound: a Close is sent once, to a session
\* that is registered no more, and an offer finds both channels empty.
LEMMA CoordinatorBound ==
    ASSUME TypeOK, TypeOK', OneClaim, ChannelsBounded, NEW t \in Side,
           HandleReady(t) \/ HandleGone(t) \/ Replace(t) \/ Offer \/ AskAbort
    PROVE  ChannelsBounded'
<1>1. CASE HandleReady(t) \/ HandleGone(t) \/ AskAbort
  <2>1. UNCHANGED <<control, phase>> /\ registered' \subseteq registered
        BY <1>1 DEF HandleReady, HandleGone, AskAbort
  <2>2. Sent <= Sent'
        BY <2>1 DEF Sent, InOffer, InGame
  <2>3. QED BY <2>1, <2>2, BoundFrame
<1>2. CASE Replace(t)
  <2> SUFFICES ASSUME NEW s \in Side PROVE Len(control'[s]) <= Sent' + Closes(s)'
      BY DEF ChannelsBounded
  <2>1. Sent' = Sent /\ Len(control[s]) <= Sent + Closes(s)
        BY <1>2 DEF Replace, Sent, InOffer, InGame, ChannelsBounded
  <2>2. CASE s = t
    <3>1. control'[t] = control[t] \/ control'[t] = Append(control[t], "Close")
          BY <1>2 DEF Replace, Tell, TypeOK, ControlOK
    <3>2. Len(control'[s]) <= Len(control[s]) + 1
          BY <2>2, <3>1, Lengths DEF Controls
    <3>3. Closes(s) = 0 /\ Closes(s)' = 1
          BY <1>2, <2>2 DEF Replace, Closes
    <3>4. QED BY <2>1, <3>2, <3>3, Lengths
  <2>3. CASE s # t
    <3>1. control'[s] = control[s] /\ Closes(s)' = Closes(s)
          BY <1>2, <2>3 DEF Replace, Closes, TypeOK, ControlOK
    <3>2. QED BY <2>1, <3>1
  <2>4. QED BY <2>2, <2>3
<1>3. CASE Offer
  <2> SUFFICES ASSUME NEW s \in Side PROVE Len(control'[s]) <= Sent' + Closes(s)'
      BY DEF ChannelsBounded
  <2>1. control[s] = <<>> /\ Notify([q \in Side |-> TRUE], "Paired")
        BY <1>3 DEF Offer, OneClaim, Claim
  <2>2. Len(control[s]) = 0
        BY <2>1, EmptySeq
  <2>3. Len(control'[s]) <= 1
        BY <2>1, <2>2, NotifiedQueue, Lengths DEF Controls
  <2>4. QED BY <2>3, Lengths
<1>4. QED BY <1>1, <1>2, <1>3

\* Every step keeps the bound.
LEMMA NextBound ==
    TypeOK /\ TypeOK' /\ OneClaim /\ ChannelsBounded /\ [Next]_vars => ChannelsBounded'
<1> SUFFICES ASSUME TypeOK, TypeOK', OneClaim, ChannelsBounded, [Next]_vars
             PROVE  ChannelsBounded'
    OBVIOUS
<1>1. ASSUME UNCHANGED <<phase, registered>>,
             \A s \in Side : \/ control'[s] = control[s]
                             \/ control'[s] = <<>>
                             \/ control[s] # <<>> /\ control'[s] = Tail(control[s])
      PROVE  ChannelsBounded'
  <2>1. Sent <= Sent'
        BY <1>1 DEF Sent, InOffer, InGame
  <2>2. QED BY <1>1, <2>1, BoundFrame
<1>2. CASE UNCHANGED vars
      BY <1>1, <1>2
<1>3. ASSUME NEW t \in Side,
             \/ ClientSend(t) \/ ClientClose(t) \/ ClientRead(t) \/ WriterEnds(t)
             \/ TakeLine(t) \/ SessionSend(t) \/ EndOfStream(t) \/ CloseSocket(t)
             \/ Disconnect(t) \/ SessionPanics(t) \/ TakeControl(t)
      PROVE  ChannelsBounded'
  <2>1. /\ UNCHANGED <<phase, registered>>
        /\ \/ control' = control
           \/ control' = [control EXCEPT ![t] = <<>>]
           \/ control[t] # <<>> /\ control' = [control EXCEPT ![t] = Tail(@)]
        BY <1>3 DEF ClientSend, ClientClose, ClientRead, WriterEnds, TakeLine,
           SessionSend, EndOfStream, CloseSocket, Disconnect, SessionPanics,
           TakeControl
  <2>2. QED BY <1>1, <2>1 DEF TypeOK, ControlOK
<1>4. ASSUME NEW t \in Side, HandleReady(t) \/ HandleGone(t) \/ Replace(t)
      PROVE  ChannelsBounded'
      BY <1>4, CoordinatorBound
<1>5. CASE TaskStep \/ AgreementExpires \/ Deadline \/ TaskPanics \/ Watch
      BY <1>5, TaskBound DEF TaskStep
<1>6. CASE Offer \/ AskAbort
  <2>1. "black" \in Side
        BY DEF Side
  <2>2. QED BY <1>6, <2>1, CoordinatorBound
<1>7. QED BY <1>2, <1>3, <1>4, <1>5, <1>6 DEF Next, ClientStep, SessionStep

\* A control channel never holds more than the three edges of one game and a
\* Close, whatever panics and whoever leaves (NoEdgeDropped: pairing.rs notify,
\* connection.rs CONTROL_CAPACITY).
THEOREM NoEdgeIsDropped == Spec => []NoEdgeDropped
<1>1. Init => ChannelsBounded
  <2> SUFFICES ASSUME Init, NEW s \in Side
               PROVE  Len(control[s]) <= Sent + Closes(s)
      BY DEF ChannelsBounded
  <2>1. Len(control[s]) = 0
        BY EmptySeq DEF Init
  <2>2. QED BY <2>1 DEF Sent, Closes
<1>2. TypeOK /\ ChannelsBounded => NoEdgeDropped
  <2> SUFFICES ASSUME TypeOK, ChannelsBounded, NEW s \in Side
               PROVE  Len(control[s]) <= 4
      BY DEF NoEdgeDropped
  <2>1. Sent <= 3 /\ Closes(s) <= 1 /\ Sent \in Nat /\ Closes(s) \in Nat
        BY DEF Sent, Closes
  <2>2. Len(control[s]) \in Nat
        BY LenProperties DEF TypeOK, ControlOK
  <2>3. QED BY <2>1, <2>2 DEF ChannelsBounded
<1>3. QED BY <1>1, <1>2, NextBound, TypeCorrect, ClaimIsSingle, PTL DEF Spec
=============================================================================
