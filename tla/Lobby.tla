------------------------------- MODULE Lobby -------------------------------
(***************************************************************************)
(* The coordinator with everybody it serves: the connections that log in   *)
(* on their tokens, the registry, the waiting pool, the round schedule,    *)
(* the games it starts and the preset engines it runs.                     *)
(*                                                                         *)
(*   client / bridge --Login, Touch, Ready, Gone--> coordinator            *)
(*        ^                 (one FIFO)                |      |             *)
(*        +------------- Close, game ended ----------+      +--> bridges   *)
(*                                                                         *)
(* A game is only that it is being played and by whom: what a connection   *)
(* and a game task say to each other is module Pairing.  A game is named by *)
(* its two sessions, a session by its token and a number, a bridge by its  *)
(* preset and a number; numbers are used again once nothing remembers them,*)
(* which a counter that never repeats cannot be told from.                 *)
(***************************************************************************)
EXTENDS Matchmaker

CONSTANTS
    Externals,     \* the tokens of engines that are not the server's own
    Kinds,         \* the kind of every registered preset, in configured order
    Ratings,       \* what each token is rated: a set of at most one
    Unrated,       \* unrated_estimate
    Interval,      \* interval_seconds, in ticks
    IdleDelay,     \* idle_delay_seconds, in ticks
    CloseRounds,   \* whether rounds may be set closer than a stop takes
    Revocable,     \* the tokens the store may not know, or fail to read
    HandRun,       \* the presets' tokens an operator's client logs in with
    Leavers,       \* the tokens whose client may close its connection
    Crashing,      \* the presets whose bridge may end by itself
    LongGames,     \* whether a player may be silent for more than a day
    RequestCapacity,  \* REQUEST_CAPACITY
    PerToken,         \* bound: connections of one token at a time
    Names             \* bound: the numbers that tell one token's names apart

Presets    == DOMAIN Kinds
Identities == Externals \cup Presets
SessionIds == Identities \X Names
BridgeIds  == Presets \X Names

ASSUME LobbyAssumption ==
    /\ Kinds \in Seq(PresetKinds)
    /\ Ratings \in [Identities -> SUBSET Int]
    /\ Unrated \in Int
    /\ Interval \in Nat \ {0} /\ IdleDelay \in Nat
    /\ RequestCapacity \in Nat \ {0} /\ PerToken \in Nat
    /\ Names \subseteq Nat /\ IsFiniteSet(Names)

VARIABLES
    \* the coordinator
    sessions,     \* by session id: its token, its game, its silence
    byIdentity,   \* by token: the session that holds it
    pool,         \* waiting sessions, in arrival order
    presetGame,   \* the preset-vs-preset game that may be broken off
    due,          \* ticks until the next round
    earlier,      \* of Lingering, what did so when that round was scheduled
    busy,         \* whether a game was in progress at the last look
    requests,     \* the request channel
    \* the preset supervisor
    running,      \* by preset: the bridge it was started as
    restarts,     \* the resident presets waiting out a backoff
    bridges,      \* by name: the bridge tasks that have not ended
    \* the connections and the game tasks
    conns,        \* by session id: the connection of a session
    games         \* by name: the games being offered or played

registryVars == <<sessions, byIdentity, pool>>
scheduleVars == <<due, busy>>
presetVars   == <<running, restarts>>
vars == <<registryVars, presetGame, scheduleVars, earlier, requests, presetVars,
          bridges, conns, games>>

NoGame    == {}
NoBridge  == <<>>
NoSession == <<>>

Empty == <<>>
Without(f, keys) == [k \in DOMAIN f \ keys |-> f[k]]
Also(f, key, value) == [k \in DOMAIN f \cup {key} |-> IF k = key THEN value ELSE f[k]]

\* What of a queue is not gone, in its order.
Retain(queue, gone) ==
    LET kept[k \in 0..Len(queue)] ==
          IF k = 0 THEN <<>>
          ELSE IF queue[k] \in gone THEN kept[k - 1] ELSE Append(kept[k - 1], queue[k])
    IN kept[Len(queue)]

Request(ask, session, identity, bridge) ==
    [ask |-> ask, session |-> session, identity |-> identity, bridge |-> bridge]
Login(identity, bridge) == Request("Login", NoSession, identity, bridge)
From(ask, session) == Request(ask, session, 0, NoBridge)

Queued == {requests[k] : k \in DOMAIN requests}

-----------------------------------------------------------------------------
(* What the coordinator reads off the registry. *)

InGame(s) == sessions[s].playing # NoGame

SessionOf(identity) == {s \in DOMAIN sessions : sessions[s].identity = identity}

\* Faulty: a preset that is not in the book is taken to have no process left.
PresetStateByTheBook(up, p) ==
    IF p \notin up \/ SessionOf(p) = {}
    THEN IF p \in up THEN "Connecting" ELSE "Stopped"
    ELSE LET s == Some(SessionOf(p)) IN
         IF ~InGame(s) THEN "Idle"
         ELSE IF sessions[s].playing = presetGame THEN "PlayingPreset"
         ELSE "PlayingExternal"

\* The state of one preset as a round reads it, by the presets in the book.
PresetState(up, p) ==
    IF SessionOf(p) = {}
    THEN IF p \in up THEN "Connecting" ELSE "Stopped"
    ELSE LET s == Some(SessionOf(p)) IN
         IF ~InGame(s) THEN "Idle"
         ELSE IF sessions[s].playing = presetGame THEN "PlayingPreset"
         ELSE "PlayingExternal"

Estimate(rating) == IF rating = {} THEN Unrated ELSE Some(rating)

StandingsOf(up) ==
    [p \in Presets |-> [state |-> PresetState(up, p), kind |-> Kinds[p],
                        estimate |-> Estimate(Ratings[p])]]

Engine(s) ==
    LET token == sessions[s].identity IN
    [engine |-> s, account |-> s, rate |-> Ratings[token], provisional |-> {},
     previous |-> {}, preset |-> token \in Presets,
     pays |-> token \in Presets /\ PaysOnPairing(Kinds[token])]

WaitingExternals ==
    LET external(s) == sessions[s].identity \notin Presets
        engines == SelectSeq(pool, external)
    IN [k \in DOMAIN engines |-> Estimate(Ratings[sessions[engines[k]].identity])]

-----------------------------------------------------------------------------
(* Names. *)

\* The first of a token's names nothing remembers: at most one.
Fresh(token, used) ==
    LET free == {n \in Names : <<token, n>> \notin used}
    IN {<<token, n>> : n \in {n \in free : \A m \in free : n <= m}}

FreshSession(token) ==
    Fresh(token, DOMAIN sessions \cup DOMAIN conns \cup {r.session : r \in Queued}
                   \cup {bridges[b].session : b \in DOMAIN bridges}
                   \cup UNION DOMAIN games \cup presetGame
                   \cup UNION {sessions[s].playing : s \in DOMAIN sessions})

FreshBridge(p) ==
    Fresh(p, DOMAIN bridges \cup Range(running) \cup {r.bridge : r \in Queued})

-----------------------------------------------------------------------------
(* The supervisor.  A bridge whose task has ended is still running in its  *)
(* book until maintain reads it.                                           *)

NewBridge(p) == [preset |-> p, phase |-> "handshake", session |-> NoSession, asked |-> FALSE]

\* One new bridge for every preset to start, and the book they are kept in.
Started(book, tasks, starting) ==
    LET name(p) == Some(FreshBridge(p)) IN
    [book  |-> [p \in DOMAIN book \cup starting |->
                  IF p \in starting THEN name(p) ELSE book[p]],
     tasks |-> [b \in DOMAIN tasks \cup {name(p) : p \in starting} |->
                  IF b \in DOMAIN tasks THEN tasks[b] ELSE NewBridge(b[1])]]

\* A bridge is asked, and struck from the book at once: it ends in its own time.
Asked(book, tasks, stopping) ==
    [b \in DOMAIN tasks |->
       [tasks[b] EXCEPT !.asked = @ \/ \E p \in stopping \cap DOMAIN book : book[p] = b]]

Reaped == {p \in DOMAIN running : running[p] \notin DOMAIN bridges}

Residents == {p \in Presets : Kinds[p] = "Resident"}

\* The residents maintain starts: down, and not waiting out a backoff.
Restarting == {p \in Residents : /\ p \notin DOMAIN running \/ p \in Reaped
                                 /\ p \notin restarts /\ p \notin Reaped}

\* The presets with something left of a process that has been asked to stop or has
\* ended: its task, a login it sent, or a session whose connection is over.
Lingering ==
    {p \in Presets :
       \/ \E b \in DOMAIN bridges : bridges[b].preset = p /\ bridges[b].asked
       \/ \E r \in Queued : /\ r.ask = "Login" /\ r.identity = p /\ r.bridge # NoBridge
                            /\ r.bridge \notin DOMAIN bridges
       \/ \E s \in SessionOf(p) :
             s \in DOMAIN conns => conns[s].told \/ ~conns[s].open}

\* What lingers is noted when a round is scheduled, and struck off once it is gone.
Noting(rescheduled) ==
    earlier' = IF rescheduled THEN Lingering' ELSE earlier \cap Lingering'

-----------------------------------------------------------------------------
(* Requests. *)

Reject(bridge) ==
    /\ bridges' = Without(bridges, {bridge})
    /\ UNCHANGED <<registryVars, presetVars, conns>>

\* The session that holds the token is closed, and the new one registered.
Accept(identity, bridge, killed) ==
    \E id \in FreshSession(identity) :
      /\ sessions' = Also(Without(sessions, killed), id,
                          [identity |-> identity, playing |-> NoGame, idle |-> FALSE])
      /\ byIdentity' = Also(byIdentity, identity, id)
      /\ pool' = Retain(pool, killed)
      /\ conns' = Also([c \in DOMAIN conns |->
                          [conns[c] EXCEPT !.told = @ \/ c \in killed]], id,
                       [identity |-> identity, owes |-> TRUE, told |-> FALSE,
                        open |-> bridge = NoBridge \/ bridge \in DOMAIN bridges])
      /\ bridges' = [b \in DOMAIN bridges |->
                       IF b = bridge THEN [bridges[b] EXCEPT !.phase = "in", !.session = id]
                                     ELSE bridges[b]]
      /\ UNCHANGED presetVars

\* Faulty: the duplicate rule does not ask whether the session plays.
MayTakeOverAnyone(s) == TRUE

\* A session in a game is protected until it has been silent for a day.
MayTakeOver(s) == InGame(s) => sessions[s].idle

\* Faulty: the session that holds the token is closed before the credential.
LogInKillsFirst(r, known) ==
    LET existing == {byIdentity[i] : i \in DOMAIN byIdentity \cap {r.identity}} IN
    IF known /\ \A s \in existing : MayTakeOver(s)
    THEN Accept(r.identity, r.bridge, existing)
    ELSE /\ sessions' = Without(sessions, existing)
         /\ byIdentity' = Without(byIdentity, {r.identity})
         /\ pool' = Retain(pool, existing)
         /\ bridges' = Without(bridges, {r.bridge})
         /\ UNCHANGED <<presetVars, conns>>

\* The credential first, the duplicate rule second.
LogIn(r, known) ==
    LET existing == {byIdentity[i] : i \in DOMAIN byIdentity \cap {r.identity}} IN
    IF known /\ \A s \in existing : MayTakeOver(s)
    THEN Accept(r.identity, r.bridge, existing)
    ELSE Reject(r.bridge)

Touch(id) ==
    /\ sessions' = [s \in DOMAIN sessions |->
                      IF s = id THEN [sessions[s] EXCEPT !.idle = FALSE] ELSE sessions[s]]
    /\ UNCHANGED <<byIdentity, pool, presetVars, bridges, conns>>

\* A session joins the pool; a preset back from a game is stopped.
Ready(id) ==
    IF id \notin DOMAIN sessions
    THEN UNCHANGED <<registryVars, presetVars, bridges, conns>>
    ELSE LET back == IF InGame(id) THEN {sessions[id].identity} \cap Presets ELSE {} IN
         /\ sessions' = [sessions EXCEPT ![id].playing = NoGame]
         /\ pool' = IF id \in Range(pool) THEN pool ELSE Append(pool, id)
         /\ running' = Without(running, back)
         /\ bridges' = Asked(running, bridges, back)
         /\ UNCHANGED <<byIdentity, restarts, conns>>

\* Faulty: what leaves is whatever holds the token.
GoneByIdentity(id) ==
    /\ pool' = Retain(pool, {id})
    /\ sessions' = Without(sessions, {id})
    /\ byIdentity' = IF id \in DOMAIN conns THEN byIdentity
                     ELSE Without(byIdentity, {i \in DOMAIN byIdentity :
                            id \notin DOMAIN sessions \/ byIdentity[i] = id})
    /\ UNCHANGED <<presetVars, bridges, conns>>

\* Faulty: the session is left in the pool.
GoneStaysInPool(id) ==
    /\ sessions' = Without(sessions, {id})
    /\ byIdentity' = Without(byIdentity, {i \in DOMAIN byIdentity :
                               id \in DOMAIN sessions /\ byIdentity[i] = id})
    /\ UNCHANGED <<pool, presetVars, bridges, conns>>

\* Keyed by session: a session already replaced takes nothing with it.
Gone(id) ==
    /\ pool' = Retain(pool, {id})
    /\ sessions' = Without(sessions, {id})
    /\ byIdentity' = Without(byIdentity, {i \in DOMAIN byIdentity :
                               /\ id \in DOMAIN sessions
                               /\ i = sessions[id].identity
                               /\ byIdentity[i] = id})
    /\ UNCHANGED <<presetVars, bridges, conns>>

\* Faulty: a quiet moment puts the idle delay on top.
QuietPostpones ==
    LET playing == \E s \in DOMAIN sessions' : sessions'[s].playing # NoGame IN
    /\ busy' = playing
    /\ due' = IF busy /\ ~playing THEN due + IdleDelay ELSE due

\* The last game of the server has ended: the next round may move up.
NoteQuiet ==
    LET playing == \E s \in DOMAIN sessions' : sessions'[s].playing # NoGame IN
    /\ busy' = playing
    /\ due' = IF busy /\ ~playing /\ IdleDelay < due THEN IdleDelay ELSE due

NotePresetGame ==
    presetGame' = IF \E s \in DOMAIN sessions' : sessions'[s].playing = presetGame
                  THEN presetGame ELSE NoGame

Handle ==
    /\ due > 0 /\ requests # <<>>
    /\ requests' = Tail(requests)
    /\ LET r == Head(requests) IN
         \/ /\ r.ask = "Login"
            /\ \E known \in (IF r.identity \in Revocable THEN BOOLEAN ELSE {TRUE}) :
                 LogIn(r, known)
         \/ r.ask = "Touch" /\ Touch(r.session)
         \/ r.ask = "Ready" /\ Ready(r.session)
         \/ r.ask = "Gone" /\ Gone(r.session)
    /\ NoteQuiet
    /\ NotePresetGame
    /\ UNCHANGED games
    /\ Noting(due' # due)

-----------------------------------------------------------------------------
(* Rounds. *)

Tokens(game) == {s[1] : s \in game}

Calibrations(started) == {g \in started : Tokens(g) \subseteq Presets}

\* What the pairings become: games, players in them, and the handle kept on the
\* game between two presets.
Offer(pairings, abort) ==
    LET players(pairing) == {pool[i] : i \in pairing}
        started          == {players(pairing) : pairing \in pairings}
        joined(s)        == {game \in started : s \in game}
    IN
    /\ sessions' = [s \in DOMAIN sessions |->
                      IF joined(s) = {} THEN sessions[s]
                      ELSE [sessions[s] EXCEPT !.playing = Some(joined(s))]]
    /\ pool' = Retain(pool, UNION started)
    /\ games' = [g \in DOMAIN games \cup started |->
                   IF g \in started
                   THEN [players |-> g \cap DOMAIN conns, aborted |-> FALSE]
                   ELSE [games[g] EXCEPT !.aborted = @ \/ (abort /\ g = presetGame)]]
    /\ presetGame' \in IF Calibrations(started) = {} THEN {presetGame}
                       ELSE Calibrations(started)

\* Faulty: a preset this round has just paired is stopped all the same.
StopPlanned(planned, pairings) == planned

\* The presets to stop once the pairing is done, none of which it has paired.
StopUnwanted(planned, pairings) ==
    {p \in planned : \A s \in SessionOf(p) :
        s \notin {pool[i] : i \in UNION pairings}}

RoundDue ==
    /\ due = 0
    /\ LET kept     == (DOMAIN running \ Reaped) \cup Restarting
           plan     == Plan(WaitingExternals, StandingsOf(kept))
           starting == Restarting \cup plan.start
           occupied == Held(StandingsOf(kept \cup plan.start))
           spare    == IF occupied < MaxPlaying THEN MaxPlaying - occupied ELSE 0
       IN /\ \A p \in starting : FreshBridge(p) # {}
          /\ \E answer \in PairRound([k \in DOMAIN pool |-> Engine(pool[k])], Unrated, spare) :
               /\ Offer(answer.pairings, plan.abort)
               /\ LET started  == Started(Without(running, Reaped), bridges, starting)
                      stopping == StopUnwanted(plan.stop, answer.pairings) IN
                    /\ running' = Without(started.book, stopping)
                    /\ bridges' = Asked(started.book, started.tasks, stopping)
               /\ busy' = (busy \/ answer.pairings # {})
    /\ restarts' = restarts \cup (Reaped \cap Residents)
    /\ due' = Interval
    /\ UNCHANGED <<byIdentity, requests, conns>>
    /\ Noting(TRUE)

\* The deadline waits for nobody.  Only, GRACE and a message's way are shorter than
\* idle_delay_seconds and interval_seconds, unless an operator sets those so: what
\* lingered when the round was scheduled is gone when it comes.
Tick ==
    /\ due > 0
    /\ due = 1 => CloseRounds \/ earlier = {}
    /\ due' = due - 1
    /\ UNCHANGED <<registryVars, presetGame, busy, requests, presetVars, bridges,
                   conns, games>>
    /\ Noting(FALSE)

-----------------------------------------------------------------------------
(* Everybody else: clients, connections, game tasks and bridges. *)

coordinatorVars == <<registryVars, presetGame, scheduleVars, presetVars>>

\* A sender waits while the channel is full.
Send(request) ==
    /\ Len(requests) < RequestCapacity
    /\ requests' = Append(requests, request)

\* A client of a token connects and logs in, perhaps while another one is there.
Dial(token) ==
    /\ token \in Externals \cup HandRun
    /\ Cardinality({c \in DOMAIN conns : conns[c].identity = token})
         + Cardinality({k \in DOMAIN requests : requests[k].identity = token}) < PerToken
    /\ Send(Login(token, NoBridge))
    /\ UNCHANGED <<coordinatorVars, bridges, conns, games>>
    /\ Noting(FALSE)

\* After LOGIN OK, and after every pairing or game that ends.
SayReady(c) ==
    /\ c \in DOMAIN conns /\ conns[c].owes
    /\ Send(From("Ready", c))
    /\ conns' = [conns EXCEPT ![c].owes = FALSE]
    /\ UNCHANGED <<coordinatorVars, bridges, games>>
    /\ Noting(FALSE)

\* A command from a player who has long been silent.
Speak(c) ==
    /\ c \in DOMAIN conns \cap DOMAIN sessions /\ conns[c].open /\ sessions[c].idle
    /\ From("Touch", c) \notin Queued
    /\ Send(From("Touch", c))
    /\ UNCHANGED <<coordinatorVars, bridges, conns, games>>
    /\ Noting(FALSE)

DayPasses(s) ==
    /\ LongGames
    /\ s \in DOMAIN sessions /\ InGame(s) /\ ~sessions[s].idle
    /\ sessions' = [sessions EXCEPT ![s].idle = TRUE]
    /\ UNCHANGED <<byIdentity, pool, presetGame, scheduleVars, requests, presetVars,
                   bridges, conns, games>>
    /\ Noting(FALSE)

CloseSocket(c) ==
    /\ c \in DOMAIN conns /\ conns[c].open /\ conns[c].identity \in Leavers
    /\ conns' = [conns EXCEPT ![c].open = FALSE]
    /\ UNCHANGED <<coordinatorVars, requests, bridges, games>>
    /\ Noting(FALSE)

\* A connection told to close, or whose client has, ends with its Gone.
Leave(c) ==
    /\ c \in DOMAIN conns /\ (conns[c].told \/ ~conns[c].open)
    /\ Send(From("Gone", c))
    /\ conns' = Without(conns, {c})
    /\ games' = [g \in DOMAIN games |-> [games[g] EXCEPT !.players = @ \ {c}]]
    /\ UNCHANGED <<coordinatorVars, bridges>>
    /\ Noting(FALSE)

\* A game ends in any of its ways, and tells the players that are still there.
GameOver(g) ==
    /\ g \in DOMAIN games
    /\ conns' = [c \in DOMAIN conns |->
                   [conns[c] EXCEPT !.owes = @ \/ c \in games[g].players]]
    /\ games' = Without(games, {g})
    /\ UNCHANGED <<coordinatorVars, requests, bridges>>
    /\ Noting(FALSE)

\* The engine is ready, and the bridge dials the listener.
BridgeLogsIn(b) ==
    /\ b \in DOMAIN bridges /\ bridges[b].phase = "handshake"
    /\ Send(Login(bridges[b].preset, b))
    /\ bridges' = [bridges EXCEPT ![b].phase = "login"]
    /\ UNCHANGED <<coordinatorVars, conns, games>>
    /\ Noting(FALSE)

BridgeEnds(b) ==
    /\ bridges' = Without(bridges, {b})
    /\ conns' = [c \in DOMAIN conns |->
                   [conns[c] EXCEPT !.open = @ /\ c # bridges[b].session]]
    /\ UNCHANGED <<coordinatorVars, requests, games>>
    /\ Noting(FALSE)

\* It was asked to, or aborted when it did not.
BridgeStops(b) ==
    /\ b \in DOMAIN bridges /\ bridges[b].asked
    /\ BridgeEnds(b)

\* Its connection has ended.
BridgeLosesConnection(b) ==
    /\ b \in DOMAIN bridges /\ bridges[b].phase = "in"
    /\ bridges[b].session \notin DOMAIN conns
    /\ BridgeEnds(b)

BridgeDies(b) ==
    /\ b \in DOMAIN bridges /\ bridges[b].preset \in Crashing
    /\ BridgeEnds(b)

\* The wait before a resident is started again is over.
BackoffOver(p) ==
    /\ p \in restarts
    /\ restarts' = restarts \ {p}
    /\ UNCHANGED <<registryVars, presetGame, scheduleVars, running, requests, bridges,
                   conns, games>>
    /\ Noting(FALSE)

-----------------------------------------------------------------------------
\* Residents are started with the server; the first round is an idle delay
\* away, or at first_round_at: any time, here at most Interval ahead.
Init ==
    /\ sessions = Empty /\ byIdentity = Empty /\ pool = Empty
    /\ presetGame = NoGame
    /\ due \in {IdleDelay} \cup 0..Interval /\ busy = FALSE /\ earlier = {}
    /\ requests = <<>>
    /\ LET name(p) == <<p, CHOOSE n \in Names : \A m \in Names : n <= m>>
       IN /\ running = [p \in Residents |-> name(p)]
          /\ bridges = [b \in {name(p) : p \in Residents} |-> NewBridge(b[1])]
    /\ restarts = {}
    /\ conns = Empty /\ games = Empty

BridgeNext(b) ==
    BridgeLogsIn(b) \/ BridgeStops(b) \/ BridgeLosesConnection(b) \/ BridgeDies(b)

ConnNext(c) == SayReady(c) \/ Speak(c) \/ CloseSocket(c) \/ Leave(c) \/ DayPasses(c)

Next ==
    \/ Handle \/ RoundDue \/ Tick
    \/ \E token \in Externals \cup HandRun : Dial(token)
    \/ \E c \in SessionIds : ConnNext(c)
    \/ \E g \in DOMAIN games : GameOver(g)
    \/ \E b \in BridgeIds : BridgeNext(b)
    \/ \E p \in Presets : BackoffOver(p)

Spec == Init /\ [][Next]_vars

\* The runtime polls every task again and again: the coordinator's loop, a connection
\* with something to send, an engine in its handshake, a bridge asked to stop (cut
\* after its grace), a game, which its clocks or the leaving of a player end.  A round
\* takes its turn before a request (the select is biased), but takes one of many: a
\* request is handled in the end.  A game between two presets may last as long as it
\* likes until it is broken off.  That some task of a kind goes on is all that is
\* assumed; the third conjunct is that of RoundDue.
FairSpec ==
    /\ Spec
    /\ SF_vars(Handle)
    /\ WF_due(due = 0 /\ due' = Interval)
    /\ WF_vars(Tick)
    /\ WF_vars(\E c \in DOMAIN conns : SayReady(c) \/ Leave(c))
    /\ WF_vars(\E g \in DOMAIN games :
                  /\ games[g].aborted \/ games[g].players # g \/ Tokens(g) \cap Externals # {}
                  /\ GameOver(g))
    /\ WF_vars(\E b \in DOMAIN bridges :
                  BridgeLogsIn(b) \/ BridgeStops(b) \/ BridgeLosesConnection(b))
    /\ WF_vars(\E p \in restarts : BackoffOver(p))
=============================================================================
