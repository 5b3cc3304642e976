# A verification of tabia-shogi-server

`tabia-shogi-server` is a game server for computer shogi: engines log in over the
CSA protocol, a coordinator pairs them at matchmaking rounds, a task per game
offers, plays, clocks and files the game, and a web front shows what is played and
what was. This directory holds TLA+ modules translated from the Rust source under
`src/src/`, the TLC configurations that check them on small instances, and TLAPS
proofs of what matters most.

## 1. The system

### Components, their state and their operations

| component | source | state it keeps | operations | modules |
|---|---|---|---|---|
| session state machine | `session/handler.rs` | none: pure functions over five states | `route`, `after`, `on_disconnect` | `SessionMachine` |
| connection | `session/connection.rs` | state, held game channel, line and control queues, outbound queue | read, write, `on_line`, `on_control`, `disconnect`, `Drop` | `Pairing`, `Lobby` |
| game task | `session/pairing.rs`, `agreement.rs` | which sides are alive, the agreement, the game, the inbox | `propose`, `play`, `expired`, `terminate`, `notify` | `Pairing`, `GameClock`, `Filing` |
| the game itself | `session/game_task.rs`, `clock.rs` | position, history, remaining time | `apply`, `resign`, `declare`, `flagged`, `expired`, `abort` | `Clock`, `GameClock`, `Play` |
| rules of shogi | `game/*` | none; the repetition detector's counts | `validate`, `is_legal`, `record`, `holds` | `Shogi`, `Repetition`, `Play` |
| coordinator | `session/server.rs`, `login.rs` | sessions, identities, pool, in-flight games, round, schedule | `log_in`, `touch`, `ready`, `gone`, `run_round`, `offer`, `watch` | `Lobby`, `Pairing` |
| matchmaker | `session/matchmaker.rs` | none: pure functions plus a random source | `pair_round`, `pair_pool`, `select_start` | `Matchmaker`, `Round`, `RoundSearch` |
| preset engines | `session/presets.rs` | the supervisor's book of processes and backoffs | `plan`, `maintain`, `start`, `stop`, `reap` | `Presets`, `Lobby` |
| bridge | `session/bridge.rs`, `usi/engine.rs` | the handshake, the game, answers owed to dead games | `from_server`, `from_engine`, `quit` | `Bridge` |
| storage | `storage/*` | record and sidecar files, SQLite tables | `write`, `write_sidecar`, `insert_game`, `reconcile`, `scan` | `Filing` |
| live registry, game pages | `services/snapshot.rs`, `services/games.rs` | the games in progress, one slot each | `register`, `publish`, `get`, drop | `Filing` |
| accounts, tokens, sign-on | `storage/tokens.rs`, `storage/accounts.rs`, `web/sso.rs`, `web/sessions.rs`, `web/dashboard.rs` | session records, account and token rows | `start`, `callback`, `sign_out`, `issue`, `revoke` | `Accounts` |
| startup | `lib.rs`, `main.rs` | the order in which the rest opens | `Startup::new`, `run`, `shutdown` | `Filing` |

`PROJECT.json` lists these and the parts that are not modelled (section 10).

### How they interact

```
 client <=socket=> reader --lines--> session task --inbox--> game task --files, row
    |              writer <--out----     ^   |                  |   |
    |                ^                   |   +--requests--> coordinator --> supervisor
    |                +--------out--------+--------control-------+---+          |
    +-- or a bridge <=stdin, stdout=> USI engine  <---- starts, asks to stop --+
```

Every arrow is a bounded `tokio::sync::mpsc`: 64 line groups to a client, 64
messages to a game, 16 control messages to a session, 256 requests to the
coordinator. A producer awaits a full `out`, `inbox` or `requests`; it drops a
control message on a full `control` (`try_send`), and so does the supervisor its
cut-off line. The session's select is biased, control first; the game task's
move loop is biased, messages before its deadline. A preset engine is, for the
coordinator, one more client: its bridge logs in over the listener like everybody.
The web server shares with all this only the database and the live registry.

### What is hard

* A session's state changes where its control messages are taken, not where they
  are sent: the game task, the coordinator and the session disagree about it for
  as long as a message is queued.
* A connection may close, panic or be replaced by a newer login at each of these
  points, and owes an answer that depends on the state it *believes* it is in.
* The game task awaits clients; the clients' sessions await the game task.
* Timers (agreement, flag, rounds) race with lines already queued.
* Three artifacts per game - record, sidecar, row - are written one after the
  other, and a restart continues from whichever of them exist.
* A round decides over a pool, a book of processes and a cap, each of which another
  task has changed by the time the decision takes effect.
* A USI engine's late answer to a dead game carries nothing that tells it from the
  answer to the next one.
* An issuance is a transaction that counts first and inserts later; a sign-in is a
  link that anybody can follow, in any browser, twice.

`PROJECT.json` lists each hazard at its line with the properties aimed at it.

## 2. The plan, and where it stands

| | modules | what they are about | section |
|---|---|---|---|
| 1 | `SessionMachine`, `Pairing` | two connections and the game task over several games | 3 |
| 2 | `Filing` | what a game leaves on disk across crashes and restarts | 4 |
| 3 | `Clock`, `GameClock` | the arithmetic of the clock, and a game over it | 5 |
| 4 | `Presets`, `Lobby` | the coordinator with everybody it serves | 6 |
| 5 | `Matchmaker`, `Round`, `RoundSearch` | a round's rules, and the computation that implements them | 6 |
| 6 | `Bridge` | a preset's bridge between the server and its engine | 6 |
| 7 | `Accounts` | sign-in, caps and revocation | 7 |
| 8 | `Shogi`, `Repetition`, `Play` | the rules of the game | 8 |

`Lobby` extends `Matchmaker`, which extends `Presets`: the coordinator's round is the
same operator that `RoundSearch` is shown to implement. `Play` extends `Repetition`
and `Shogi`; `GameClock` extends `Clock`; `Pairing` extends `SessionMachine`. For a module
`M`, `MProperties` holds what is promised, `MCM` the instances and `MProofs` the
theorems (`Clock` and `GameClock` share `ClockProofs`; the pairing's are in two modules,
`PairingProofs` and, for what its clients read and write, `PromptProofs`).

Every invariant the runs check has a theorem. What is left of the plan: the refinement of
`Round` by `RoundSearch` as a theorem, an abstract seat that `Pairing` implements, and the selection of starting
positions and ratings, as far as they are not floating point.

Operators whose comment begins with "Faulty" are plausible mistakes, each placed
before the definition it replaces; no specification uses them. They are the
evidence that the properties can fail: put in the place of the definition after
them, those that `PROJECT.json` lists make a run report the property they are listed
with, and the others break properties that are stated and in no run (below).

### All runs

| run | module, configuration | distinct states | checks |
|---|---|---|---|
| `rounds` | `MCPairing`, `Pairing_rounds` | 872,863 | `OneTaskAtATime`, `WaitingInPool`, `PlaysWhatBothAgreedTo`, `PromptsInOrder`, `NoEdgeDropped`, `PromptedLineIsRouted` |
| `leave` | `MCPairing`, `Pairing_leave` | 511,913 | `OneClaim`, `DisconnectIsTrue` |
| `live` | `MCPairing`, `Pairing_live` | 36,966 | `OfferIsResolved`, `SeatIsReturned`, `ClosedSocketLeaves`, `AbortFreesTheSlot` |
| `filing_stops` | `FilingProperties`, `Filing_stops` | 55,050 | `ToldIsOnDisk`, `IdentifierIsUnique`, `RowReturns`, `FiledIsKept`, `GameIsFiled` |
| `filing_disk` | `FilingProperties`, `Filing_disk` | 233,255 | `LinesGoOut` |
| `clock_flags` | `MCGameClock`, `GameClock_flags` | 447,504 | `ClientsAgree`, `StartAllowances`, `DeadlineIsExact`, `NoEarlyFlag`, `SilenceIsFlagged` |
| `lobby_rounds` | `MCLobby`, `Lobby_rounds` | 321,892 | `CapHolds`, `OnDemandIsSingle`, `LeftoverPlays` |
| `lobby_tokens` | `MCLobby`, `Lobby_tokens` | 898,032 | `RegistryAgrees`, `PoolIsWaiting`, `SessionsAreProtected` |
| `round_rules` | `MCRoundSearch`, `RoundSearch_rules` | 95,508 | `FollowsTheRules` |
| `bridge_play` | `BridgeProperties`, `Bridge_play` | 200,982 | `EveryGoIsOwed`, `MovesAreCurrent`, `TurnIsTaken` |
| `accounts_caps` | `MCAccounts`, `Accounts_caps` | 2,348,345 | `CapsHold`, `SignedInAsSitter`, `AttemptIsUsedOnce`, `SessionOutlivesStrayLinks` |
| `play_rules` | `MCPlay`, `Play_rules` | 16,912 | `OnlyMatesAreRefused`, `VerdictIsTheLine`, `OneDeclarer` |

Deadlock checking is off in all of them: clients leave, games end, and the bounds
end every behaviour. Some properties are stated and in no run, because a theorem
covers them (`PoolIsFree`, `PlayerIsCounted`, `ArtifactsAgree`, `Filed`, `NoPlayerIsStopped`,
`GameIsBounded`, `ClockNeverRunsDry`, `MaterialIsKept`, the `TypeOK` of `Pairing`, `GameClock`
and `Accounts`) or because what they say is nearer to the model than to a hazard (the other
`TypeOK`s, `ControlIsAnArrow`, `NoRoundPutOff`, `BoardsAgree`, `StopComesFirst`,
`AnswerIsPassedOn`, `KingsStand`, `EveryEngineOnce`, `RoundDecides`). Adding any of them
to the configuration of its module's run checks it. Those the code does not keep are in
section 9, with configurations of their own.

## 3. The pairing

### The modules

* `SessionMachine` - the pure machine: `Arrows`, `Advance`, `Route`, `OnDisconnect`.
* `Pairing` - the tasks. One action per await-free stretch of code:

| in `Pairing` | in the code |
|---|---|
| `ClientSend`, `ClientClose` | the client program, external: it answers what it last read, and may chat, leave or send junk |
| `ClientRead`, `WriterEnds` | `write_lines` |
| `TakeControl`, `TakeLine`, `SessionSend`, `EndOfStream`, `Disconnect`, `CloseSocket` | the session task: `run`, `on_control`, `on_line` and the sends they await, `read_lines` ending, `disconnect` and `leave`, `serve` |
| `SessionPanics` | `Drop for Session` |
| `TaskSend` | one line group of `Task::send` |
| `Agree`, `Reject`, `AgreementExpires`, `DisconnectedBeforeStart`, `IgnoredBeforeStart`, `Refused` | `propose`, `reject`, `expire`, `discard` |
| `Move`, `Resign`, `Declare`, `KeepAlive`, `Abort`, `Disconnected`, `IgnoredInGame`, `Deadline` | `play`, `apply`, `declare`, `suspend`, `expired` |
| `File`, `Finish` | `terminate`: the files, then the lines, then the row and the release |
| `TaskPanics`, `Watch` | a panic and `watch` |
| `HandleReady`, `HandleGone`, `Replace`, `Offer`, `AskAbort` | the coordinator's `ready`, `gone`, `log_in`+`kill`, `offer`, `abort_preset_game` |

  The game task is `phase` (where it is) and `todo` (line groups the current step
  still has to queue; nothing else of the task happens until it is empty, as each
  is awaited). A session is `pc`, the machine's state `sess`, whether it holds an
  inbox (`game`) and `pend`, the sends its current line still owes. `requests[s]`
  is the part of the request channel that is session `s`'s own: the coordinator
  takes them one at a time and messages of different sessions commute until it
  does. Positions are abstracted to whether a move in turn is legal, final or
  illegal; the clock to whether a turn may be flagged at all (`Timed`); the two
  sides are fixed for a session across games.

* `PairingProperties` - what is promised. `TypeOK` is its type invariant.
* `MCPairing` - the command sets of the instances.
* `PairingProofs`, `PromptProofs` - the theorems.

### The runs

In all runs the wire of a client holds one unread line (`WireBound`), the inbox one
message and each outbound queue one line: the smallest queues make every send wait
somewhere. `ControlCapacity` is the code's 16.

* `rounds`: two timed games; black sends AGREE, REJECT and MOVE and may be replaced by
  a login of its token, white sends AGREE and MOVE; sessions may panic.
* `leave`: one timed game; black sends AGREE and MOVE, white AGREE, KEEPALIVE, LOGOUT,
  extensions (`%%`) and malformed lines; the game task may panic.
* `live`: one timed preset game, fair; black sends AGREE, RESIGN and REJECT, white AGREE,
  DECLARE and SUSPEND, white may close its socket, a round may abort the game.

Two games are enough for what one game may leave behind for the next, which is
what the safety properties are about; the third game of a behaviour starts from a
state the second already started from.

### Fairness

`Fairness` assumes weak fairness of every session's own steps, of each writer on a
closed socket, of the coordinator on each session's requests, of the game task, of
the agreement timer and the deadline, and of the supervisor: the tokio runtime polls
every woken task and fires every timer. It assumes that clients read what is written
to them. It assumes nothing else of a client: not that it answers, nor that it
closes. Reading is needed: the game task awaits each outbound queue and no send has
a timeout, so a client that neither reads nor closes holds up the game and its
peer. `live` leaves MOVE out: the code bounds a game's moves by `Max_Moves` and by
its clocks, which `GameClock` models and `Pairing` does not count.

### The proofs

`PairingProofs` proves, for every capacity, bound and choice of commands, leavers,
replacements and faults:

* `TypeCorrect`: `Spec => []TypeOK`.
* `ClaimIsSingle`: `Spec => []OneClaim`. `OneClaim` is the inductive invariant. A
  session's way to its next game is a token that is in one place at a time - the
  running game task, a `PairingDiscarded` or `GameEnded` queued on its control
  channel, a `Ready` queued for the coordinator, or the pool - and each step hands it
  on. `PoolIsFree` alone is not inductive: it says nothing of a session that is
  still on its way, so nothing would stop the coordinator from taking a second
  `Ready` later.
* `PoolFree`: `Spec => []PoolIsFree`, from `OneClaim`.
* `OneTask`: `Spec => []OneTaskAtATime`, from `OneClaim`.
* `DisconnectTrue`: `Spec => []DisconnectIsTrue`, from `FarewellIsFinal`: a session that
  still reads owes the game task no disconnect answer and has none in its inbox, and
  no step brings a session back to its loop (`LeftForGood`). The property alone does
  not say where the answers on their way come from.
* `NoEdgeIsDropped`: `Spec => []NoEdgeDropped`, from `ChannelsBounded`: a control
  channel holds at most the edges its game has sent so far - one while it is offered,
  two once it has begun, three when it is over - and one `Close` if its session is no
  longer registered. An offer finds the channel empty, by `OneClaim`. So
  `CONTROL_CAPACITY`, 16 in the code, is never reached by a slow session.

and, under `CourseAssumption` - no game task panics, and `ControlCapacity` is at least
the three edges of one game:

* `PoolWaits`: `Spec => []WaitingInPool`, from `AllOnCourse`: the state of a registered
  session and the edges queued for it are together one of the few places of a game's
  story (`Offered`, `Begun`, `Ending`) that fit the phase of the running task.
* `PlayersCounted`: `Spec => []PlayerIsCounted`, from `AllCounted`: a session that has
  left Waiting, or has `Paired` queued, is counted as playing.

The assumption is needed: a game task that panics before START ends the pairing with an
edge the machine has no arrow for, which is the disagreement of section 9.

`PromptProofs` follows a client instead of a session: what it has read, what is queued for
it and what it wrote in answer.

* `StoriesInOrder`: `Spec => []PromptsInOrder`, if no game task panics. `PromptsInOrder` says of a
  queue that each prompt may follow the one before it; whether the next one may be
  appended depends on the task that sends it, so the invariant `Tales` gives the last
  prompt a client has read or will read from the phase of the task and what it has still
  to queue (`Place`), and, once the task is over, from the way the session took back to the
  pool (`Waits`).
* `NobodyPlaysAlone`: `Spec => []PlaysWhatBothAgreedTo`, and `PromptedLinesAreRouted`:
  `Spec => PromptedLineIsRouted`, both under `RoomToClose`, which is `CourseAssumption` and room
  for a `Close` beside a game's three edges. The invariant `Routed` adds three parts to those
  above. `AllAccounted` counts the summaries a client has read, has queued or has still to be
  sent: never more than the games so far, and one less if its connection was gone when the
  last one was offered; a line it wrote is of one of those. `LeaversAreTold`: a session
  that is no longer registered has left its loop or has a `Close` in its control channel.
  `AllAbreast`: a registered session that still reads has taken, or has queued, every edge of
  the game there is. A session takes a line only when its control channel is empty; it is
  then registered, hence abreast, hence where the game is.

They rest on `CapacityAssumption`, `BoundAssumption` and `ChoiceAssumption`, which
say that capacities are positive and the choices are subsets of what there is. The
lemmas about queues (`AppendedQueue`, `TakenQueue`, `NotifiedQueue`) carry the
reasoning about sequences, so the step lemmas cite them by name. Liveness is
model-checked only.

## 4. What a game leaves behind

### The modules

* `Filing` - a game's record, sidecar, row and registry entry, from the round that
  mints its identifier to a page that shows it, over several runs of the process.

| in `Filing` | in the code |
|---|---|
| `Ids`, `Round` | `mint_game_id` (a date, a round, a number in it) and `run_round` |
| `Start`, `Decide`, `Discard` | the game registers itself; its outcome; an offer discarded or a panic |
| `WriteRecord`, `RecordIsDurable` | `Records::write`: the rename over the destination, then the directory's sync |
| `WriteSidecar`, `SidecarIsDurable` | `write_sidecar`, the same |
| `Tell`, `Store`, `StoreFails`, `Deregister` | the rest of `terminate`: the lines, the row, the registry entry |
| `FileFails` | a write that is refused: logged, and the game goes on to its next step |
| `Shutdown`, `Exit` | `Running::shutdown` closes the database under what runs; `main` returns and the runtime is dropped, which waits for the blocking thread's write and nothing after it |
| `Restart`, `Reconcile`, `Serve` | `Startup`: the scan of sidecars, an insert for each that has no row, then `seed_round` and the listeners |
| `Ask`, `ReadTable`, `ReadRegistry`, `Answered` | `services/games.rs` `game` |
| `Crash`, `PowerCut`, `WriteBack`, `NextDay` | external: the process or the machine ends, the kernel writes back, the date changes |

  A game is a number, and a file or row holds the number of the game it is about.
  `synced` is what a power cut leaves: a directory's renames are lost together since
  its last sync, and so are the commits of SQLite's log, which is not synced at each
  commit; `WriteBack` may make either durable at any time. A crash of the process
  loses nothing that was renamed or committed. What is in a temporary file before its
  rename is seen by nobody and is left out.

* `FilingProperties` - its type invariant, promises and inductive invariant.
* `FilingProofs` - the theorems.

### The runs

* `filing_stops`: one table, two rounds a run, two days, two games, two runs of the
  process, fair; crashes, power cuts, shutdowns.
* `filing_disk`: the same on one day, with writes and rows that may be refused instead.

Two runs are what an identifier needs to be minted by one and met by the next, whose
seed has to be above it; the theorems below say the same for any number of runs.

A power cut may take back rows that a page has shown, since SQLite's log is not
synced at each commit: `RowReturns` says that a sidecar brings its row back before the
next run serves. Where writes are refused (`filing_disk`), neither `RowReturns` nor
`IdentifierIsUnique` is claimed: a row the database refuses at the scan leaves its
identifier to be minted again.

`Fairness` assumes that the runtime runs each game task's filing to its end, that
a shutdown exits, and that a process that ended is started again and finishes its
scan. It assumes nothing of rounds, starts or pages. `Tell` is fair as well, though the
code awaits the clients' queues there without a timeout: as in `Pairing`, clients are
assumed to read what they are sent, or to close. One that does neither keeps the game's
task from its row, and `LinesGoOut` and `GameIsFiled` say nothing of it.

### The proofs

`FilingProofs` proves, for any number of tables, rounds, days, games and restarts, and
any of the faults that end the process (`NoRefusals`: no write and no row is
refused): `FilesOutliveTheProcess`, `OneGamePerIdentifier`, `ArtifactsStayTogether`,
`RowsAreReconciled`, `FiledGamesAreKept`, and the inductive invariant itself,
`FilingIsInductive`. They rest on `BoundAssumption`.

The invariant `Filed` has four parts per identifier. `Durable` relates what is seen to
what is synced; `Underway` says what is on disk at each step of a running task;
`Returned` says which sidecars have their row by now; `Named` says that an
identifier in use is of an earlier day or of a round this run has passed. The
argument goes round: a round mints identifiers nothing uses (`Named`), so a task
writes over no sidecar (`Underway`), so the synced files stay (`Durable`), so the
scan gives every sidecar its row (`Returned`), so the seed is above every round of
today that is on disk (`Named` again, `ServeInv`). None of the promises is inductive
without the others. `Kept`, the part about games that clients were told of, is added
in the proof module. The liveness properties and everything under refused writes are
model-checked only.

## 5. The clock

### The modules

* `Clock` - the arithmetic of `clock.rs`. Durations are in ticks (the code's
  nanoseconds) and counts in units; `CountMax` is `u32::MAX`, where counts saturate.
* `GameClock` - a game over it, from the first setup ply to its outcome.

| in `GameClock` | in the code |
|---|---|
| `Init`, `Seed` | `Game::new`: the setup settles ply by ply with `setup_t_values` |
| `Tick` | external: time passes |
| `Stamp`, `Forward` | `read_lines` stamps a line; the session hands it to the game later |
| `Late` | `apply`, `resign`, `declare`, `suspend`: the flag is looked at before anything else |
| `Relay`, `Penalise`, `Resign`, `Declare`, `Ignored` | what those do with a line in time, or out of turn |
| `Unreadable` | `resolved`: a move line that denotes no move of the position |
| `KeepAlive` | `flag_check`, at the moment the message is taken |
| `Deadline` | `wait` and `expired`: over an empty inbox, at `flag_after` of the allowance |

  `elapsed`, a line's `at` and the deadline are measured from the last relay, as the
  code measures them from `relayed`. A relay therefore sets what still waits to 0: the
  code subtracts with saturation, so a stamp older than the relay has used nothing. A
  line stamped between the relay's being queued and `relayed` being taken counts
  nothing either way. `remaining` is the server's clocks; `reckoned` is what a client
  makes of the T-values it reads. Positions are left out: whether a move line has
  the sign of the side to move, denotes a move and is legal, whether it completes a
  repetition and whether a declaration holds are choices. `Abort` and `Disconnected`,
  which look at no clock, are in `Pairing`.

* `GameClockProperties`, `MCGameClock`, `ClockProofs` - promises, instances, theorems.

### The runs

`clock_flags`: sudden death; byoyomi with and without a total; an increment under a
reduction; no clock. Setups of 0, 1 and 4 plies, a limit of three plies; black moves,
resigns and keeps alive, white moves, declares and suspends; fair.

A unit is two ticks, so half a unit tells rounding up from truncating. `ElapsedBound` is
six ticks: the largest allowance of the settings is reached within it, so no turn
is cut short of its flag. `LineBound` is two lines in flight, one that waits and
one that overtakes it from the other side. The limit of three lies below the setup of
four: a limit the setup has passed is reached at the first move.

`Fairness` is weak fairness of `Tick` and of the game task (`TaskStep`): time passes, and
the runtime runs a task that has a message or whose timer fired. Nothing is assumed
of clients or sessions.

### The proofs

`ClockProofs` proves, for every set of time settings, every setup length, limit, stock
of lines and bound:

* `FlagAfterIsExact`: an elapsed time has reached `flag_after` of an allowance exactly if
  its charge reaches the allowance, for either rounding and any floor. This is the
  property `flag_after` is defined by in its documentation. It rests on the division
  lemmas `Truncated` and `RoundedUp`.
* `TypeCorrect`: counts stay below `u32::MAX`, and no waiting stamp is in the future.
* `TimerMeetsCharge` (`DeadlineIsExact`): from the two above.
* `FlagsInTime` (`NoEarlyFlag`): a line that flags by its stamp was stamped past the
  deadline (`FlaggedLate`), and a stamp is never later than now.
* `ClocksAtStart` (`StartAllowances`): by the invariant `StartInv`, which says what each
  clock holds after each ply of the setup; the promise itself speaks of the last
  ply only and is not inductive.
* `WithinTheLimit` (`GameIsBounded`), and `TimeIsLeft` (`ClockNeverRunsDry`): a charge short
  of the allowance leaves time, and the side not to move is not charged unless the game
  ends.
* `OneClock` (`ClientsAgree`), under `NeverCapped`: the total and the increments of the longest
  game together stay below `u32::MAX`. There the server's clock stands still and the clock a
  client reckons goes on; no game the program can hold in memory comes near. The
  invariant `AgreeInv` bounds each clock by the total and the increments so far, which is
  what keeps the server's addition from saturating.

They rest on `CountAssumption`, `ConfigAssumption`, `FitAssumption` (a configuration counts
below `u32::MAX`) and `GameAssumption`. `SilenceIsFlagged` is liveness.

## 6. The coordinator, its rounds and its engines

### The modules

* `Presets` - `presets.rs` `plan` as a pure operator: which presets a round starts and
  stops, and whether it breaks off the game between two of them (`Plan`, `Aborts`,
  `Held`, `Closest`, `CalibrationPair`).
* `Matchmaker` - one round's pairing as the *set* of answers its random draws may give:
  `EstimateRate`, `Cost`, `PairPool`, `ClosestTo`, the withdrawal of pairings over the
  cap (`Kept`), `PairRound`.
* `Round` - what a round promises: one of those answers, once. `RoundSearch` - how the code
  computes it: `MakeEven`, the steps of Heap's algorithm (`Transpose`, `Climb`),
  `Settle`, `Join`, `Withdraw`. A pool above `ExhaustivePool` is sampled by the code, and
  `BestOrderings` then allows any matching.
* `Lobby` - the coordinator with the connections, games and bridges around it:

| in `Lobby` | in the code |
|---|---|
| `Handle` | one message of the request channel: `log_in`, `touch`, `ready`, `gone`, and after each of them `note_quiet` and the drop of a preset game that is over |
| `LogIn`, `Accept`, `Reject` | `login.rs` `decide`: the credential, then the duplicate rule; `kill` of the session that held the token |
| `RoundDue` | `run_round`: the supervisor's `reap` and `maintain`, the plan, the slots left, the pairing, the offers, the abort, `start`, and `stop` of what was not paired |
| `Tick` | time; the deadline of the next round, which waits for nobody |
| `Lingering`, `Noting` | what is left of a process that was asked to stop, for `GRACE` at most, and whether it was there when the next round was scheduled (`after_round`, `went_quiet`) |
| `Dial`, `SayReady`, `Speak`, `DayPasses`, `CloseSocket`, `Leave` | the connections: a login, Ready, Touch, a silence of a day, a socket that closes, Gone |
| `GameOver` | a game task that ends, and tells the sessions that are still there |
| `BridgeLogsIn`, `BridgeStops`, `BridgeLosesConnection`, `BridgeDies`, `BackoffOver` | the life of a bridge task and of a resident's backoff |

  Everything a connection and a game task say to each other is `Pairing`; here a game is only
  the pair of sessions in it. Sessions and bridges are named by a token and a number of
  `Names`, used again once nothing holds it. A round may come due at any moment, also while
  a bridge is being stopped, a connection told to close or a message under way. One thing
  alone is said of time: a process that was asked to stop is gone after `GRACE`, 5 seconds
  (`presets.rs` 729), and that is shorter than `idle_delay_seconds` and `interval_seconds`. So
  what lingered at the moment a round was *scheduled* (`earlier`) is gone when it comes
  due, while what `ready` has stopped since then may well be there. `CloseRounds` drops
  even that, for delays an operator sets closer than the grace. Which starting position a game gets is left out.

* `Bridge` - a preset's task between the listener and the USI engine. The server
  (`AnswersLogin`, `Offers`, `Starts`, `Rejects`, `OpponentMoves`, `EndsGame`, `HearsClient`, `HangsUp`)
  and the engine (`ReadsLine`, `Answers`, `Dies`) are its surroundings; `HearsServer`,
  `HearsEngine`, `Identified`, `LogsIn`, `HandshakeFails`, `AsksToStop`, `Quits` are
  `bridge.rs`. The four pipes are FIFOs of their own, and the engine answers whenever
  it likes. An answer carries the go it answers only so that the properties can say
  which it was; no action of the bridge reads it. `SummaryIsAnswered` keeps a summary from
  being followed by the next before the bridge has answered it, which a round's
  interval does in the server: a bare AGREE names no game, and one that came late would
  count for the next.

### The runs

* `lobby_rounds`: two on-demand presets and one that an operator runs by hand, an engine
  from outside, rounds two ticks apart and an idle delay of one, fair. A round may come due
  between the stop of a preset that is back from its game and the end of its process, and
  pairs it then: the two ticks are what such a stop needs to fall between the scheduling
  of a round and the round. Three presets over a cap of two are what
  makes the cap bind; the hand-run one is a slot that no start pays for.
* `lobby_tokens`: a resident and an engine from outside, two connections of each token at a
  time, tokens that the store does not know or cannot read, clients that leave, a bridge
  that dies, players silent for a day, rounds one tick apart. Two names per token are what the Gone of a replaced
  session needs to meet the login that replaced it.
* `round_rules`: every pool of up to five engines of six kinds (rated, unrated, with a previous
  game won or lost, on-demand and resident presets, two engines of one account), three
  pools of six, with 0, 1 and 2 slots left. Orders of arrival of the same kinds
  differ only in which of equals is drawn. `FollowsTheRules` is `Round!Spec` under the
  mapping that shows an answer once the computation is done: `RoundSearch` implements
  `Round`.
* `bridge_play`: three games of two moves, fair; the engine may die, the server hang up and
  the supervisor ask to stop at any point. Three games let an answer be two games late.

### Fairness

`Lobby`'s `FairSpec` assumes that the coordinator's loop goes on, that time passes, that some
connection with a Ready or a Gone to send sends it, that bridges log in and stop, that
backoffs end, and that a game ends which has an engine from outside, whose clocks see to
it, or a player that has gone. The fairness of `Handle` is strong: the loop's select puts
the timer first, so a round that is due interrupts the requests again and again, but each
of them once only. A
game between two presets may last for ever unless it is aborted: `LeftoverPlays` does
not rest on its end. `RoundSearch` is one call, so `WF_vars(Next)`. `Bridge`'s `FairSpec`
assumes that the runtime polls the bridge and the connection, and that the engine reads
what it is told and answers every go, as USI asks of it.

### The proofs

`LobbyProofs` proves, for any tokens, presets, kinds, intervals and capacities:

* `RegistryAlwaysAgrees`: `Spec => []RegistryAgrees`. The inductive invariant `Registry`
  adds that each entry is a record of its three fields (`Entries`) and that what is queued
  and is no login comes from a session (`FromSessions`). The argument is
  `AcceptedAgrees` - an accepted login removes exactly the session `byIdentity` named - and
  `GoneAgrees` - a Gone removes the token's entry only if it still names that session.
* `SessionsStayProtected`: `Spec => SessionsAreProtected`, from the same case split: only
  `LogIn` and `Gone` shrink the registry, and `LogIn` only for a session the rule lets go.

They need nothing of what a round decides (`RoundAgrees` shows that it only rewrites
entries in place). Two more do, or follow sessions further than the registry does:

* `PoolIsIdle`: `Spec => []PoolIsWaiting`. What leaves the pool leaves it by `Retain`, a recursive
  function: `Retained` says what a retained queue holds, by `Induction` over the set of the
  numbers up to which it is so. A round retains those it did not pair, and puts only
  those into a game; a Ready joins unless it is there (`ReadyPool`).
* `PlayersAreSpared`: `Spec => NoPlayerIsStopped`, with no assumption. Two ways lead to a stop.
  `ready` stops the preset that has just come back, whose session is in no game; a round
  stops presets that neither play nor are among those it pairs (`StoppedByRound`). It
  needs that a bridge's session is its preset's (`BridgeSessions`), and that a queued login
  names a bridge of the preset whose token it shows (`NamesInv`). It speaks of the step
  that asks: that a *later* round may pair what was asked to stop, and has not gone yet, is
  the disagreement of section 9, and no theorem denies it.
* `CapIsKept`: `Spec => []CapHolds`, under `RoundsApart` - the delays are not shorter than a stop
  takes - and `OwnEnginesOnly` - nobody logs in by hand on an on-demand preset's token.
  `CapHolds` counts who plays, and that is not inductive: a preset that is up and idle plays
  from the next round on without a slot being asked for. What is inductive is `SlotsHold`: no
  more than two presets play or have a slot held for them (`Charging`): those that play, the
  on-demand ones in the book, and the on-demand ones that are logged in unless what is left
  of them will be gone by the next round (`earlier`). A round spends slots at two places, and
  each has its lemma for any pool and any plan: what a plan starts occupies, with what is
  occupied already, no more than there are (`StartWithin`); and of the pairings, those kept
  pay for no more than are left (`RoundWithin`, over `Kept`, which drops from the last pairing
  back). `RoundSlots` puts them together, and needs that when a round is due every on-demand
  preset is `InOrder` - who is to log it in is the process in the book, and comes to no
  session. Of a preset of which nothing lingers that holds at any time (`Tidy`, from
  `Booked`, `Bridged`, `LoginsFresh` and the other parts of `BookInv`); it is kept by the
  steps that make it linger (`Orderly`), so it is lost only by what had begun to linger
  before the round was scheduled, of which there is nothing left when it is due (`Clean`).
  A preset that `ready` has stopped in the meantime is logged in still: the round reads it as
  idle, so its slot counts as taken, and if the round pairs it, it plays on that slot. Both
  hypotheses are used: an on-demand preset run by hand pays for no slot (section 9), and a
  round that comes before what an earlier one stopped has gone counts its slot as free.
* `OneProcess`: `Spec => []OnDemandIsSingle`, under these two and `StayingEngines` - nobody but its
  bridge closes an on-demand preset's connection. The book forgets a process that is asked
  to stop, so the book does not keep a round from starting a second one: the session in the
  registry does. `HeldOn` says that a process that is asked to stop, or whose preset is
  logged in, is the one that is logged in, its connection open and not told to close,
  unless it lingered before the round was scheduled; `Single` is the property; `NoGone` and
  `SameToken` say of the connections what these need. A session whose connection is closed
  first could be struck from the registry before its process has ended, which is what the third
  hypothesis excludes.

`BridgeProofs` proves, for any number of games and of moves:

* `NoLateMove`: `Spec => []MovesAreCurrent`, with an engine that may die and may leave a go
  unanswered. A move on its way to the server has to be of the turn the server is in, and
  what decides that is how far behind the bridge is: `Stretch` and `Underway` describe the
  lines to the bridge that belong to the game it is in (a START and at most one move, or
  moves), and `Behind` says that an end comes before any line of a later game. `Offering`
  and `Agreed` say the same of a summary, `NewestIsTheQuestion` of the goes: the last of
  them, wherever it has got to, is the question of the game in progress, so an answer
  taken when nothing is owed to a dead game is its answer (`NoneUnbooked`).
* `BooksBalance`: `Spec => []EveryGoIsOwed`, under `EveryAnswerNames`: every bestmove names a move.
  One that names none is dropped without being struck from either book
  (`NoMoveBreaksOff`, section 9), which is why the books balance only without it;
  `bridge_play` has no such answers either, and `NoLateMove` holds with them.

The refinement of `Round` by `RoundSearch` stays with TLC: it goes through orderings drawn one
exchange at a time.

## 7. Accounts

### The modules

* `Accounts` - `Start`, `Authorize` (external: github.com), `Callback`, `SignsIn`, `ExchangeFails`,
  `SignOut`, `Expires` are sign-in, with the session records behind one lock and the
  browsers' cookies; `IssueBegins`, `IssueCounts`, `IssueInserts` are the transaction of
  `storage/tokens.rs` `issue`, which counts in one statement and inserts in another;
  `Revoke`, `SetVisibility`, `Restart` the rest. A request is a handler, and each await of
  it a step. `links` are the callback URLs github.com has handed out: any of them may be
  opened in any browser, any number of times. A transaction that read before another
  one committed is `stale`, and SQLite in WAL mode refuses its write (`Conflicts`).
* `AccountsProperties`, `MCAccounts`, `AccountsProofs`.

### The run

`accounts_caps`: two people, one of them an administrator, two browsers, two requests at
a time, four session identifiers, three tokens, one active token and two in all per
account. Two requests are what a count needs to be outdated by another's insert; four
identifiers are two attempts and two sessions at once.

### The proofs

For any people, browsers, caps, administrators and number of requests at a time:

* `TypeCorrect`, by `Typed`, which adds to `TypeOK` that identifiers in use have been minted.
* `AttemptUsedOnce`: an attempt is taken out of the records in the step that begins its
  exchange, and its identifier is not minted again.
* `SignedInIsSitter`: by `Followed`, which follows an identifier from the browser it was made
  for, through the link that carries it as its state and the exchange it begins, to the
  session; and `OneHolder`, that no two browsers hold one identifier.
* `CapsAreKept`: by `Counted` - an insert that can still commit (is not `stale`) is of an
  account below both caps, because every commit since its count would have made it stale.
* `SessionsSurvive`: `Spec => SessionOutlivesStrayLinks`.

They rest on `AccountsAssumption`.

## 8. The rules of the game

### The modules

* `Shogi` - `game/`: how pieces reach a square, check, what a move or drop may be, the
  drop-pawn-mate rule, the declaration. Positions are boards as functions and hands as
  counts; a refusal's reason is FALSE.
* `Repetition` - the detector of `repetition.rs`: a count per position and a streak of checks
  per side.
* `Play` - `game_task.rs`'s game without its clock: a start replayed and seeded
  (`Traversal`, `Seeded`), `Play`, `Misplay`, `Declare`, `Resign`.
* `PlayProperties`, `MCPlay`, `PlayProofs`.

### The run

`play_rules`: six games, each with the moves its sides may try: the dummy buoy's king shuttle
begun in the setup; a rook that chases a king along two files, with a way to stand off
(two starts); a cornered king under pawn drops that mate or do not; promotions, captures
of promoted pieces and drops; two entered kings a piece away from the declaration's
thresholds. The written boards stand for positions of a game under way. The ply
ceilings let a repetition occur four times.

### The proofs

`PlayProofs` proves, for any set of games:

* `MatesAreRefused` (`Spec => []OnlyMatesAreRefused`): the code looks for a reply to a dropped pawn
  with the drop-pawn-mate rule suspended, and that changes no verdict. A drop opens no line
  (`DropOpensNothing`), so a pawn dropped with check gives it alone and from the next square
  (`PawnReaches`, `CheckedByThePawn`); no drop answers such a check (`NoDropAnswers`), and the
  suspended rule is about drops only (`RepliesAgree`). The invariant is `PlayedInSafety`: the side
  not to move is not in check.
* `VerdictsFit` (`Spec => []VerdictIsTheLine`): the detector keeps a count per position and, per
  side, a streak that a quiet move of that side clears; the property reads the whole line.
  `Tally` says what they are of a line: the global count of a position is the number of places
  it stands at (`Occ`), and a side's streak holds the places reached since that side began to
  do nothing but check (`Run`). One more move keeps that (`GameInv`), and the setup begins it:
  the seeding of the detector is a recursive function, reasoned about like `Retain`. While the
  game is open no position has four places (`FewTimes`), so a verdict comes at the fourth.
* `MaterialStays` (`Spec => []MaterialIsKept`): no accepted move makes or loses a piece; captures,
  promotions and drops move it between the board, as one of two kinds, and a hand.
* `OneSideDeclares` (`Spec => []OneDeclarer`): a declaration counts the pieces in the declarer's camp
  and in its hand, and no piece is in both camps or both hands. A full set is worth 54
  points and the thresholds of the two sides are 28 and 27, so by `MaterialInv` the two cannot
  both hold.

They rest on `PlayAssumption`: the position a game starts from, before its setup, has its
side not to move out of check and no more pieces of a kind than a set has. Hirate, where
every buoy begins, is such a position. A written board need not be - "not checked
anywhere yet", `start_spec.rs` 38-40 - but no loader makes one. TLC evaluates the
assumption for the starts of `MCPlay`, hirate and written boards.

## 9. Where the code and its documentation disagree

Each has a property of its own and a configuration that makes TLC report it, with a
behaviour that ends in it; they are kept out of the table of runs, whose properties
hold. `tlc -config <configuration> <module>` shows one.

* **A disconnect during the last step of an agreement does not discard the pairing**
  (`DiscardAnswerDiscards`, `Pairing_discard.cfg`, `MCPairing`; `pairing.rs` 737). A client that
  answers AGREE second and closes its socket is seen by its session while that is still
  Agreeing; the answer DiscardPairing reaches a game task that is already playing, which
  writes the side off and plays on. Its clock then loses the game as `TIME_UP` instead of a
  disconnect, and without a time control nothing ends it.
* **A panic before START leaves sessions in the pool that are not Waiting** (`WaitingInPool`,
  `Pairing_cutoff.cfg`, `MCPairing`; `server.rs` 1670). The supervisor sends `GameEnded`, for
  which Agreeing has no arrow.
* **A restart can mint an identifier again** (`MintsNothingOnDisk`, `Filing_mint.cfg`, `FilingProperties`;
  `server.rs` 393). The seed counts rows, and rows are restored from sidecars: a record
  whose sidecar was not written before the process ended is counted by neither, and the
  next game of that round on the same day replaces it. Only games nobody was told the
  end of are lost so (`ToldIsOnDisk`, `IdentifierIsUnique`).
* **A page can miss a game that is ending** (`PageFindsGame`, `Filing_page.cfg`, `FilingProperties`;
  `games.rs` 394). It reads the table before the row is there and the registry after the
  game has left it.
* **A keep-alive can flag a move that was in time** (`QueuedMoveIsInTime`, `GameClock_queue.cfg`,
  `MCGameClock`; `pairing.rs` 705). The game task answers a keep-alive with the deadline's
  check, measured when it takes the message. A move of the side to move that was stamped
  inside its allowance, queued behind the keep-alive, is then not looked at, while the
  deadline's own path drains the inbox first.
* **A resident preset is stopped after each game** (`ResidentStays`, `Lobby_resident.cfg`, `MCLobby`;
  `server.rs` 979-999). `ready` stops any preset that is back from a game; the README
  (line 405) has a resident wait again once its game is over, and `presets.rs` (106-109)
  has only on-demand presets stopped. The next round's `maintain` starts it again.
* **Two processes of one preset** (`OneInstance`, `Lobby_instance.cfg`, `MCLobby`; `presets.rs` 435). A
  preset asked to stop leaves the book at once, and its process has a grace; `maintain`
  starts a resident that is not in the book. So a resident that `ready` has stopped less than
  the grace before a round is started a second time by it, where the README (line 417) has
  one instance. An on-demand preset is not: `plan` takes it for idle while its session
  is registered (`OnDemandIsSingle`).
* **A round pairs a preset whose process was asked to stop** (`StoppedIsIdle`, `Lobby_stopped.cfg`,
  `MCLobby`; `server.rs` 988-998, 796-811). `ready` puts a preset that is back from a game into
  the pool and asks its process to stop in the same step. The round's timer waits for
  nothing and is polled first: if it fires before the process has ended and its Gone has come,
  up to five seconds later with the default configuration, the round pairs the session. Its
  bridge then leaves, and the opponent, which may be the engine from outside the preset was to
  play, has an offer discarded or a game won by a disconnect. `round_due` (`server.rs` 1044-1047) says that a preset a round "has just paired is never
  stopped out from under its own game", and sees to it for the stops of that round
  (`NoPlayerIsStopped`, a theorem), not for those of a `ready` before it. What the code keeps
  in spite of it is what `lobby_rounds` checks: the cap, one process per on-demand preset, and that
  an engine left alone plays in the end with somebody who is not about to leave.
* **An answer without a move is not a break** (`NoMoveBreaksOff`, `Bridge_bare.cfg`,
  `BridgeProperties`). `usi/engine.rs` (187-190) says that a go that produced no move is treated as
  the engine having broken off; the bridge (`bridge.rs` 737) drops such a line and waits. If
  it answered a dead game, the next answer is taken for it.
* **Checks on all moves but one can lose** (`MostIsNotAll`, `Play_most.cfg`, `MCPlay`).
  `repetition.rs` (12-16) says that a side that checks on most of its moves but not all
  reaches an ordinary draw; the escaper's threshold counts from the second occurrence,
  so a side whose first checking move came after the first occurrence still loses. If the
  start itself is the first occurrence, it is a draw.

Three observations that contradict no document: an on-demand preset that an operator runs
by hand pays for no slot when it is paired, nor when it is started; an AGREE names no game
to the game task (`connection.rs` 686), so one that a client sent for an earlier pairing, read
after the next has been offered, counts for that one, as does a move line for an earlier game
that is legal in the next - `PlaysWhatBothAgreedTo` does not compare which game a line was
for; and the bound on an account's provisional rating is read before the transaction that
inserts the token.

## 10. Not modelled

* **Ratings** (`services/rating.rs`): the fit is iterated in floating point, which TLC has
  not. What surrounds it - which games count, the components of the graph, when a result
  is published - is a pure function of the rows and the moment, recomputed from nothing
  each time: no state of its own outlives a step.
* **The choice of a starting position** (`select_start`): logarithms and square roots of visit
  counts. `Lobby` and `Play` let any position be chosen.
* **The sampled search** of pools above seven: any matching is allowed for it.
* **CSA and USI text, records' contents, configuration, collections' syntax**: parsing and
  formatting, with no protocol of states behind them; what a line means is modelled where
  it is handled. A model would restate the text.
* **TLS, sockets, HTTP pages, the backup**: I/O, and views of state that the modelled parts own.
* **Designations and participants**: single statements on rows that nothing races for.
* Small steps that are one action: `Disconnect` awaits two sends, of the game's answer and of the
  Gone, and the second never waits in `Pairing`, whose requests have no bound; `SignsIn` is the
  write of the account and the session's record, and a failure of the first is
  `ExchangeFails`. A session's panic strikes where it takes a line and a game task's while it
  proposes or plays, not at each of their polls. `Pairing` leaves the Touch of a line to
  `Lobby`, and a move line that denotes no move is a malformed one there (`GameClock` tells
  them apart). `Lobby` has the first round at most an interval ahead, and an offer that fails for
  a starting position that cannot be set up (`server.rs` 1355-1386), which the loading of the
  configuration excludes, is left out.
* Within the modelled parts: `Pairing` has no bound on the `requests` channel, so a panicking
  session's `Gone` is never lost to it; encode failures of a summary and `Game::new`'s, which
  load-time validation excludes; a stream of out-of-turn lines faster than the game task
  drains it postpones the deadline in the code, and no liveness is claimed of such a
  stream; the bridge's own clocks and the lengths of backoffs; token names.

Out of the prover's reach, and model-checked only: every liveness property (and `ENABLED`);
what folds with an operator argument, sums and RECURSIVE operators compute, since an
induction theorem takes an operator as its parameter. An induction over the naturals
on a *set* is within it - `NatLessThanWellFounded` and `WFMin` give the least number outside of
the set - so a recursive function is: `Retain`, `Traversal` and the seeding of the detector are
proved about in this way. What `RoundSearch` computes step by step, and hence its refinement of
`Round`, is not.
