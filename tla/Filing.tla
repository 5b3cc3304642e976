------------------------------- MODULE Filing -------------------------------
(***************************************************************************)
(* What a game leaves behind: its record and its sidecar in the records    *)
(* directory, its row in the database, its entry in the registry of live   *)
(* games, and the pages that read the last two - across rounds, days,      *)
(* shutdowns, crashes, power cuts and restarts.                            *)
(*                                                                         *)
(* A game is a number, its identifier is what it is filed under: two games *)
(* filed under one identifier are what a restart must not make.            *)
(***************************************************************************)
EXTENDS Naturals, FiniteSets

CONSTANTS
    Tables,        \* bound: pairings of one round
    RoundBound,    \* bound: the round counter
    DayBound,      \* bound: days that pass
    GameBound,     \* bound: games started, in all runs together
    RestartBound,  \* bound: times the process ends
    Faults         \* what may go wrong: crash, power, files, database

ASSUME BoundAssumption ==
    /\ Tables \in Nat \ {0} /\ RoundBound \in Nat \ {0} /\ GameBound \in Nat
    /\ DayBound \in Nat /\ RestartBound \in Nat

ASSUME FaultAssumption ==
    Faults \subseteq {"crash", "power", "files", "database"}

VARIABLES
    day,        \* the UTC date
    run,        \* what the process is doing
    restarts,   \* runs started after the first
    games,      \* games started so far
    round,      \* the coordinator's round counter
    scan,       \* sidecars the startup scan has still to look at
    task,       \* per identifier, where the game task of this run is
    playing,    \* per identifier, the game that task plays
    live,       \* the registry: identifiers of games in progress
    record,     \* the .csa files, as a process sees them
    sidecar,    \* the .meta files, as a process sees them
    row,        \* the games table, as a query sees it
    synced,     \* the same three, as a power cut would leave them
    told,       \* games whose clients have their last line
    page        \* the page request in progress

processVars == <<run, restarts, scan, round>>
taskVars    == <<task, playing, live>>
diskVars    == <<record, sidecar, row, synced>>
vars == <<day, games, processVars, taskVars, diskVars, told, page>>

-----------------------------------------------------------------------------
\* mint_game_id: the date, the round and the number of the pairing in it.
Ids == [date : 0..DayBound, round : 1..RoundBound, seq : 0..Tables - 1]

\* No game, where a game's number could stand.
None == 0

Steps == {"none", "offered", "playing", "record", "record renamed", "sidecar",
          "sidecar renamed", "lines", "row", "leaving"}

Runs == {"down", "reconciling", "serving", "closing"}

PageSteps == {"idle", "table", "registry", "finished", "live", "not found"}

\* A process is there to take a step of a game task.
Up == run \in {"serving", "closing"}

\* No request is in progress: nothing reads the identifier.
NoPage == [at |-> "idle", id |-> CHOOSE id \in Ids : TRUE, due |-> FALSE]

Init ==
    /\ day = 0 /\ run = "serving" /\ restarts = 0
    /\ games = 0 /\ round = 0
    /\ scan = {}
    /\ task = [id \in Ids |-> "none"]
    /\ playing = [id \in Ids |-> None]
    /\ live = {}
    /\ record = [id \in Ids |-> None]
    /\ sidecar = [id \in Ids |-> None]
    /\ row = [id \in Ids |-> None]
    /\ synced = [record |-> record, sidecar |-> sidecar, row |-> row]
    /\ told = {}
    /\ page = NoPage

NextDay ==
    /\ day < DayBound
    /\ day' = day + 1
    /\ UNCHANGED <<games, processVars, taskVars, diskVars, told, page>>

-----------------------------------------------------------------------------
(* Rounds and game tasks. *)

\* A round offers up to Tables pairings, under identifiers minted from today's
\* date and the next round number.
Round ==
    /\ run = "serving" /\ round < RoundBound
    /\ round' = round + 1
    /\ \E n \in 1..Tables :
         /\ games + n <= GameBound
         /\ games' = games + n
         /\ LET minted == {id \in Ids : /\ id.date = day /\ id.round = round'
                                        /\ id.seq < n}
            IN /\ task' = [id \in Ids |-> IF id \in minted THEN "offered" ELSE task[id]]
               /\ playing' = [id \in Ids |-> IF id \in minted THEN games + id.seq + 1
                                             ELSE playing[id]]
    /\ UNCHANGED <<day, run, restarts, scan, live, diskVars, told, page>>

\* What every step of a game task does: one step on.
TaskStep(id, from, to) ==
    /\ Up /\ task[id] = from
    /\ task' = [task EXCEPT ![id] = to]
    /\ UNCHANGED <<day, games, processVars, playing>>

\* START goes out and the game is registered.
Start(id) ==
    /\ TaskStep(id, "offered", "playing")
    /\ live' = live \cup {id}
    /\ UNCHANGED <<diskVars, told, page>>

\* A pairing that is discarded, or a game whose task panics, leaves nothing.
Discard(id) ==
    /\ \E at \in {"offered", "playing"} : TaskStep(id, at, "none")
    /\ live' = live \ {id}
    /\ UNCHANGED <<diskVars, told, page>>

\* The outcome is decided.
Decide(id) ==
    /\ TaskStep(id, "playing", "record")
    /\ UNCHANGED <<live, diskVars, told, page>>

\* write_durably: the finished temporary file is renamed over its destination,
\* and then the directory is synced.
WriteRecord(id) ==
    /\ TaskStep(id, "record", "record renamed")
    /\ record' = [record EXCEPT ![id] = playing[id]]
    /\ UNCHANGED <<live, sidecar, row, synced, told, page>>

WriteSidecar(id) ==
    /\ TaskStep(id, "sidecar", "sidecar renamed")
    /\ sidecar' = [sidecar EXCEPT ![id] = playing[id]]
    /\ UNCHANGED <<live, record, row, synced, told, page>>

\* The files as a power cut will leave them from now on.
SyncDirectory == synced' = [synced EXCEPT !.record = record, !.sidecar = sidecar]

RecordIsDurable(id) ==
    /\ TaskStep(id, "record renamed", "sidecar")
    /\ SyncDirectory
    /\ UNCHANGED <<live, record, sidecar, row, told, page>>

\* Faulty: the directory is not synced after the rename.
SidecarIsRenamed(id) ==
    /\ TaskStep(id, "sidecar renamed", "lines")
    /\ UNCHANGED <<live, diskVars, told, page>>

SidecarIsDurable(id) ==
    /\ TaskStep(id, "sidecar renamed", "lines")
    /\ SyncDirectory
    /\ UNCHANGED <<live, record, sidecar, row, told, page>>

\* Faulty: a refused write is tried again.
FileFailsAndRetries(id) ==
    /\ "files" \in Faults
    /\ \/ TaskStep(id, "record renamed", "record")
       \/ TaskStep(id, "sidecar renamed", "sidecar")
    /\ UNCHANGED <<live, diskVars, told, page>>

\* The filesystem refuses a step of a write: it is logged, and the game goes on
\* to its next.
FileFails(id) ==
    /\ "files" \in Faults
    /\ \/ \E at \in {"record", "record renamed"} : TaskStep(id, at, "sidecar")
       \/ \E at \in {"sidecar", "sidecar renamed"} : TaskStep(id, at, "lines")
    /\ UNCHANGED <<live, diskVars, told, page>>

\* The termination lines.
Tell(id) ==
    /\ TaskStep(id, "lines", "row")
    /\ told' = told \cup {[id |-> id, game |-> playing[id]]}
    /\ UNCHANGED <<live, diskVars, page>>

\* INSERT OR IGNORE.
Insert(id, game) ==
    row' = [row EXCEPT ![id] = IF @ = None THEN game ELSE @]

Store(id) ==
    /\ TaskStep(id, "row", "leaving")
    /\ run = "serving"
    /\ Insert(id, playing[id])
    /\ UNCHANGED <<live, record, sidecar, synced, told, page>>

\* A closed database, or one that refuses the row: nothing is retried.
StoreFails(id) ==
    /\ TaskStep(id, "row", "leaving")
    /\ run = "closing" \/ "database" \in Faults
    /\ UNCHANGED <<live, diskVars, told, page>>

\* Faulty: the task's entry stays behind.
DeregisterLater(id) ==
    /\ TaskStep(id, "leaving", "left")
    /\ UNCHANGED <<live, diskVars, told, page>>

\* The game stops being one in progress.
Deregister(id) ==
    /\ TaskStep(id, "leaving", "none")
    /\ live' = live \ {id}
    /\ UNCHANGED <<diskVars, told, page>>

-----------------------------------------------------------------------------
(* The process. *)

\* The kernel writes a renamed entry back, or SQLite checkpoints its log.
WriteBack ==
    /\ synced # [record |-> record, sidecar |-> sidecar, row |-> row]
    /\ \/ SyncDirectory
       \/ synced' = [synced EXCEPT !.row = row]
    /\ UNCHANGED <<day, games, processVars, taskVars, record, sidecar, row,
                   told, page>>

\* The process ends, and everything it held in memory with it.
Ends ==
    /\ run' = "down"
    /\ scan' = {} /\ round' = 0
    /\ task' = [id \in Ids |-> "none"]
    /\ playing' = [id \in Ids |-> None]
    /\ live' = {}
    /\ page' = NoPage
    /\ UNCHANGED <<day, games, restarts, told>>

\* shutdown: the listeners stop and the database closes under what still runs.
Shutdown ==
    /\ run = "serving" /\ restarts < RestartBound
    /\ run' = "closing"
    /\ page' = NoPage
    /\ UNCHANGED <<day, games, restarts, scan, round, taskVars, diskVars, told>>

\* The runtime is dropped: a write that a blocking thread has begun runs to its
\* end, and nothing follows it.
Exit ==
    /\ run = "closing"
    /\ Ends
    /\ \E begun \in SUBSET {id \in Ids : task[id] \in {"record", "sidecar"}} :
         /\ record' = [id \in Ids |-> IF id \in begun /\ task[id] = "record"
                                      THEN playing[id] ELSE record[id]]
         /\ sidecar' = [id \in Ids |-> IF id \in begun /\ task[id] = "sidecar"
                                       THEN playing[id] ELSE sidecar[id]]
    /\ synced' = [record |-> record', sidecar |-> sidecar', row |-> row]
    /\ UNCHANGED row

Crash ==
    /\ "crash" \in Faults /\ run # "down" /\ restarts < RestartBound
    /\ Ends
    /\ UNCHANGED diskVars

\* What was not synced is there or is not: the directory's renames together,
\* the log's commits together.
PowerCut ==
    /\ "power" \in Faults /\ run # "down" /\ restarts < RestartBound
    /\ Ends
    /\ \/ UNCHANGED <<record, sidecar>>
       \/ record' = synced.record /\ sidecar' = synced.sidecar
    /\ row' \in {row, synced.row}
    /\ synced' = [record |-> record', sidecar |-> sidecar', row |-> row']

\* Faulty: no scan at startup.
RestartUnscanned ==
    /\ run = "down" /\ restarts < RestartBound
    /\ restarts' = restarts + 1
    /\ run' = "reconciling"
    /\ UNCHANGED <<day, games, round, scan, taskVars, diskVars, told, page>>

\* Startup::new: the directory and the database open, and the scan begins.
Restart ==
    /\ run = "down" /\ restarts < RestartBound
    /\ restarts' = restarts + 1
    /\ run' = "reconciling"
    /\ scan' = {id \in Ids : sidecar[id] # None}
    /\ UNCHANGED <<day, games, round, taskVars, diskVars, told, page>>

\* One sidecar of the scan: a row for it if there is none.  A sidecar that does
\* not parse and an insert that is refused are logged and passed over.
Reconcile(id) ==
    /\ run = "reconciling" /\ id \in scan
    /\ scan' = scan \ {id}
    /\ \/ Insert(id, sidecar[id])
       \/ /\ "database" \in Faults
          /\ UNCHANGED row
    /\ UNCHANGED <<day, games, run, restarts, round, taskVars, record, sidecar,
                   synced, told, page>>

\* Faulty: every run counts its rounds from one.
SeedFromZero(r) == r = 0

\* seed_round: the highest round today's rows name.
SeedRound(r) ==
    LET filed == {id.round : id \in {i \in Ids : i.date = day /\ row[i] # None}}
    IN r \in filed \cup {0} /\ \A f \in filed : f <= r

\* Faulty: the round counter is seeded and served from before the scan is done.
ServeBeforeScan ==
    /\ run = "reconciling"
    /\ run' = "serving"
    /\ scan' = {}
    /\ \E r \in 0..RoundBound : SeedRound(r) /\ round' = r
    /\ UNCHANGED <<day, games, restarts, taskVars, diskVars, told, page>>

\* Reconciliation first, then the seed, then the listeners.
Serve ==
    /\ run = "reconciling" /\ scan = {}
    /\ run' = "serving"
    /\ \E r \in 0..RoundBound : SeedRound(r) /\ round' = r
    /\ UNCHANGED <<day, games, restarts, scan, taskVars, diskVars, told, page>>

-----------------------------------------------------------------------------
(* A game's page: the table first, the registry second. *)

\* due: the game has started, so the page is owed one answer or the other.
Ask(id) ==
    /\ run = "serving" /\ page.at = "idle"
    /\ page' = [at |-> "table", id |-> id, due |-> id \in live \/ row[id] # None]
    /\ UNCHANGED <<day, games, processVars, taskVars, diskVars, told>>

ReadTable ==
    /\ run = "serving" /\ page.at = "table"
    /\ page' = [page EXCEPT !.at = IF row[page.id] # None THEN "finished" ELSE "registry"]
    /\ UNCHANGED <<day, games, processVars, taskVars, diskVars, told>>

ReadRegistry ==
    /\ run = "serving" /\ page.at = "registry"
    /\ page' = [page EXCEPT !.at = IF page.id \in live THEN "live" ELSE "not found"]
    /\ UNCHANGED <<day, games, processVars, taskVars, diskVars, told>>

Answered ==
    /\ page.at \in {"finished", "live", "not found"}
    /\ page' = NoPage
    /\ UNCHANGED <<day, games, processVars, taskVars, diskVars, told>>

-----------------------------------------------------------------------------
\* The steps of the game task that files the game of id.
Files(id) ==
    \/ WriteRecord(id) \/ RecordIsDurable(id)
    \/ WriteSidecar(id) \/ SidecarIsDurable(id) \/ FileFails(id)
    \/ Tell(id) \/ Store(id) \/ StoreFails(id) \/ Deregister(id)

Pages == (\E id \in Ids : Ask(id)) \/ ReadTable \/ ReadRegistry \/ Answered

Next ==
    \/ NextDay \/ Round
    \/ \E id \in Ids :
         Start(id) \/ Discard(id) \/ Decide(id) \/ Files(id) \/ Reconcile(id)
    \/ WriteBack \/ Shutdown \/ Exit \/ Crash \/ PowerCut \/ Restart \/ Serve
    \/ Pages

Spec == Init /\ [][Next]_vars

\* The runtime runs every game task to its end, a process that shuts down exits,
\* and one that has ended is started again and gets to the end of its scan.
Fairness ==
    /\ \A id \in Ids : WF_vars(Files(id)) /\ WF_vars(Reconcile(id))
    /\ WF_vars(Exit) /\ WF_vars(Restart) /\ WF_vars(Serve)

FairSpec == Spec /\ Fairness
=============================================================================
