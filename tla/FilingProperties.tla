-------------------------- MODULE FilingProperties --------------------------
(***************************************************************************)
(* What Filing promises of a finished game.                                *)
(***************************************************************************)
EXTENDS Filing

Games == 0..GameBound
Files3 == [record : [Ids -> Games], sidecar : [Ids -> Games], row : [Ids -> Games]]

\* Every variable holds a value of its kind.
TypeOK ==
    /\ day \in 0..DayBound /\ run \in Runs /\ restarts \in 0..RestartBound
    /\ games \in Games /\ round \in 0..RoundBound /\ scan \subseteq Ids
    /\ task \in [Ids -> Steps] /\ playing \in [Ids -> Games] /\ live \subseteq Ids
    /\ record \in [Ids -> Games] /\ sidecar \in [Ids -> Games] /\ row \in [Ids -> Games]
    /\ synced \in Files3
    /\ told \subseteq [id : Ids, game : Games]
    /\ page \in [at : PageSteps, id : Ids, due : BOOLEAN]

\* "Both are on disk and fsynced before either client is told the game is over"
\* (pairing.rs terminate): a game whose clients have their last line keeps both
\* files through any crash, power cut and restart.
ToldIsOnDisk ==
    \A t \in told : synced.record[t.id] = t.game /\ synced.sidecar[t.id] = t.game

\* No two games that clients have played to an end are filed under one
\* identifier, whichever runs they were played in (server.rs seed_round).
IdentifierIsUnique == \A t, u \in told : t.id = u.id => t = u

\* A sidecar describes the record beside it, and the row and the record are of
\* one game: none of the three is ever about another (pairing.rs row, store).
ArtifactsAgree ==
    \A id \in Ids :
        /\ sidecar[id] # None => record[id] = sidecar[id]
        /\ row[id] # None => record[id] = row[id]

\* While the server serves, a game with a sidecar has its row, unless its own
\* task is still on the way there (sidecar.rs reconcile, run before anything
\* is served).
RowReturns ==
    run = "serving" =>
        \A id \in Ids :
            (sidecar[id] # None /\ task[id] = "none") => row[id] = sidecar[id]

-----------------------------------------------------------------------------
(* Why no identifier is filed twice: the inductive strengthening of the        *)
(* invariants above, for faults that end the process but refuse no write.      *)

Used(id) == task[id] # "none" \/ sidecar[id] # None \/ row[id] # None

\* What is synced is what is seen, and a sidecar or a row has its record under it.
Durable(id) ==
    /\ synced.sidecar[id] # None => sidecar[id] = synced.sidecar[id]
    /\ synced.row[id] # None => row[id] = synced.row[id]
    /\ sidecar[id] # None => /\ record[id] = sidecar[id]
                             /\ synced.record[id] = sidecar[id]
    /\ row[id] # None => /\ record[id] = row[id]
                         /\ synced.record[id] = row[id]

\* How far a game task has got, and what is on disk by then.
Underway(id) ==
    /\ task[id] # "none" => Up /\ playing[id] # None
    /\ task[id] \in {"offered", "playing", "record", "record renamed", "sidecar"}
         => sidecar[id] = None /\ row[id] = None
    /\ task[id] = "record renamed" => record[id] = playing[id]
    /\ task[id] \in {"sidecar", "sidecar renamed", "lines", "row", "leaving"}
         => record[id] = playing[id] /\ synced.record[id] = playing[id]
    /\ task[id] \in {"sidecar renamed", "lines", "row", "leaving"}
         => sidecar[id] = playing[id]
    /\ task[id] \in {"lines", "row", "leaving"}
         => synced.sidecar[id] = playing[id]
    /\ task[id] \in {"sidecar renamed", "lines", "row"} => row[id] = None

\* Which sidecars have their row by now.
Returned(id) ==
    sidecar[id] # None =>
        /\ (run = "serving" /\ task[id] \in {"none", "leaving"})
             => row[id] = sidecar[id]
        /\ (run = "reconciling" /\ id \notin scan) => row[id] = sidecar[id]

\* An identifier in use is one the next round cannot mint.
Named(id) ==
    Used(id) => /\ id.date <= day
                /\ (run = "serving" /\ id.date = day) => id.round <= round

\* The four together, of every identifier (server.rs seed_round, pairing.rs
\* terminate, sidecar.rs reconcile).
Filed == \A id \in Ids : Durable(id) /\ Underway(id) /\ Returned(id) /\ Named(id)

-----------------------------------------------------------------------------
(* Steps and pages *)

\* The files of a game that has been filed are never replaced by another
\* game's (records.rs write: "an existing file at the destination is replaced
\* whole").
FiledIsKept ==
    [][ \A id \in Ids : synced.sidecar[id] # None =>
            /\ record'[id] = synced.record[id]
            /\ sidecar'[id] = synced.sidecar[id] ]_vars

\* "A restart mints no identifier twice" (server.rs seed_round): an identifier a
\* round mints has nothing on disk yet.
MintsNothingOnDisk ==
    [][ \A id \in Ids :
          (task[id] = "none" /\ task'[id] = "offered") =>
              record[id] = None /\ sidecar[id] = None /\ row[id] = None ]_vars

\* "A page requested at any moment finds it in one of the two places"
\* (pairing.rs terminate): a page asked of a game that had started does not
\* answer that there is none while the game's row is in the table.
PageFindsGame ==
    (page.at = "not found" /\ page.due) => row[page.id] = None

\* A game whose clients have their last line gets its row, in this run or by a
\* later one's reconciliation (pairing.rs store, sidecar.rs reconcile).
GameIsFiled ==
    \A id \in Ids : \A g \in 1..GameBound :
        [id |-> id, game |-> g] \in told ~> row[id] = g

\* "A lost record must not leave two clients waiting on a finished game"
\* (records.rs write): whatever the disk refuses, the termination lines of a
\* decided game go out, unless the process ends.
LinesGoOut ==
    \A id \in Ids :
        task[id] = "record" ~> (run = "down" \/ \E t \in told : t.id = id)
=============================================================================
