---------------------------- MODULE FilingProofs ----------------------------
(***************************************************************************)
(* Proofs about Filing, for any number of tables, rounds, days, games and  *)
(* restarts, and for faults that end the process but refuse no write.      *)
(***************************************************************************)
EXTENDS FilingProperties, TLAPS

\* Both files of every game its clients were told of, seen and synced.
Kept == \A t \in told :
    /\ record[t.id] = t.game /\ sidecar[t.id] = t.game
    /\ synced.record[t.id] = t.game /\ synced.sidecar[t.id] = t.game
    /\ t.game # None

Inv == TypeOK /\ Filed /\ Kept

\* The part of Filed about one identifier.
Fine(id) == Durable(id) /\ Underway(id) /\ Returned(id) /\ Named(id)

\* What a step about one identifier may do to the others: their renames may have
\* become durable with its own.
Elsewhere(id) ==
    \A other \in Ids \ {id} :
        /\ task'[other] = task[other] /\ playing'[other] = playing[other]
        /\ record'[other] = record[other] /\ sidecar'[other] = sidecar[other]
        /\ row'[other] = row[other] /\ synced'.row[other] = synced.row[other]
        /\ \/ /\ synced'.record[other] = synced.record[other]
              /\ synced'.sidecar[other] = synced.sidecar[other]
           \/ /\ synced'.record[other] = record[other]
              /\ synced'.sidecar[other] = sidecar[other]
        /\ other \in scan <=> other \in scan'

\* Nothing refuses a write or a row: what may go wrong ends the process.
NoRefusals == "files" \notin Faults /\ "database" \notin Faults

\* An identifier's fields, and a round's numbers, are natural numbers.
LEMMA IdFields ==
  ASSUME NEW id \in Ids
  PROVE  id.date \in Nat /\ id.round \in Nat /\ id.seq \in Nat
BY BoundAssumption DEF Ids

\* There is an identifier to leave in a page that is not being read.
LEMMA IdleType == NoPage \in [at : PageSteps, id : Ids, due : BOOLEAN]
<1>1. [date |-> 0, round |-> 1, seq |-> 0] \in Ids
    BY BoundAssumption DEF Ids
<1>2. (CHOOSE id \in Ids : TRUE) \in Ids
    BY <1>1
<1>3. QED BY <1>2 DEF NoPage, PageSteps

\* At the start nothing is on disk and nobody was told anything.
LEMMA InitInv == Init => Inv
<1> SUFFICES ASSUME Init PROVE Inv
    OBVIOUS
<1>1. TypeOK
    BY BoundAssumption, IdleType
    DEF Init, TypeOK, Games, Files3, Runs, Steps, None
<1>2. Filed
    BY DEF Init, Filed, Durable, Underway, Returned, Named, Used, Up, None
<1>3. Kept
    BY DEF Init, Kept
<1>4. QED BY <1>1, <1>2, <1>3 DEF Inv

\* What a page does changes nothing but the request.
LEMMA PageType ==
  ASSUME TypeOK, Pages
  PROVE  /\ page' \in [at : PageSteps, id : Ids, due : BOOLEAN]
         /\ UNCHANGED <<day, games, processVars, taskVars, diskVars, told>>
<1>1. ASSUME NEW id \in Ids, Ask(id)
      PROVE  /\ page' \in [at : PageSteps, id : Ids, due : BOOLEAN]
        BY <1>1 DEF Ask, TypeOK, PageSteps
<1>2. CASE ReadTable
    BY <1>2 DEF ReadTable, TypeOK, PageSteps
<1>3. CASE ReadRegistry
    BY <1>3 DEF ReadRegistry, TypeOK, PageSteps
<1>4. CASE Answered
    BY <1>4, IdleType DEF Answered, TypeOK
<1>5. UNCHANGED <<day, games, processVars, taskVars, diskVars, told>>
    BY DEF Pages, Ask, ReadTable, ReadRegistry, Answered
<1>6. QED BY <1>1, <1>2, <1>3, <1>4, <1>5 DEF Pages

\* The steps that touch no file and no task: a day passes, a page is read, the
\* listeners stop.
LEMMA QuietInv ==
  ASSUME Inv, NextDay \/ Pages \/ Shutdown \/ UNCHANGED vars
  PROVE  Inv'
<1> DEFINE Still == UNCHANGED <<games, restarts, scan, round, taskVars, diskVars, told>>
<1>1. /\ Still
      /\ run' = run \/ (run = "serving" /\ run' = "closing")
      /\ day' = day \/ (day' = day + 1 /\ day' \in 0..DayBound)
      /\ page' \in [at : PageSteps, id : Ids, due : BOOLEAN]
  <2>1. CASE NextDay
      BY <2>1, BoundAssumption DEF Inv, TypeOK, NextDay, processVars
  <2>2. CASE Pages
      BY <2>2, PageType DEF Inv, processVars
  <2>3. CASE Shutdown
      BY <2>3, IdleType DEF Inv, TypeOK, Shutdown
  <2>4. CASE UNCHANGED vars
      BY <2>4 DEF Inv, TypeOK, vars, processVars
  <2>5. QED BY <2>1, <2>2, <2>3, <2>4
<1>2. TypeOK'
    BY <1>1 DEF Inv, TypeOK, Runs, taskVars, diskVars
<1>3. ASSUME NEW id \in Ids
      PROVE  (Durable(id) /\ Underway(id) /\ Returned(id) /\ Named(id))'
  <2>1. /\ task' = task /\ playing' = playing /\ scan' = scan /\ round' = round
        /\ record' = record /\ sidecar' = sidecar /\ row' = row /\ synced' = synced
      BY <1>1 DEF taskVars, diskVars
  <2>2. Durable(id)'
      BY <2>1 DEF Inv, Filed, Durable
  <2>3. Underway(id)'
      BY <2>1, <1>1 DEF Inv, Filed, Underway, Up
  <2>4. Returned(id)'
      BY <2>1, <1>1 DEF Inv, Filed, Returned
  <2>5. Named(id)'
      BY <2>1, <1>1, IdFields, BoundAssumption DEF Inv, TypeOK, Filed, Named, Used
  <2>6. QED BY <2>2, <2>3, <2>4, <2>5
<1>4. Kept'
    BY <1>1 DEF Inv, Kept, diskVars
<1>5. QED BY <1>2, <1>3, <1>4 DEF Inv, Filed

-----------------------------------------------------------------------------
(* Game tasks *)

\* An identifier nothing happens to, but that its renames or its row may have
\* become durable.
LEMMA Untouched ==
  ASSUME Inv, NEW id \in Ids,
         task'[id] = task[id], playing'[id] = playing[id],
         record'[id] = record[id], sidecar'[id] = sidecar[id], row'[id] = row[id],
         \/ /\ synced'.record[id] = synced.record[id]
            /\ synced'.sidecar[id] = synced.sidecar[id]
         \/ /\ synced'.record[id] = record[id]
            /\ synced'.sidecar[id] = sidecar[id],
         synced'.row[id] \in {synced.row[id], row[id]},
         id \in scan <=> id \in scan',
         run' = run, day' = day, round' \in Nat, round' >= round
  PROVE  Fine(id)'
<1>1. Durable(id)'
    BY DEF Inv, Filed, Durable
<1>2. Underway(id)'
    BY DEF Inv, Filed, Durable, Underway, Up
<1>3. Returned(id)'
    BY DEF Inv, Filed, Returned
<1>4. Named(id)'
  <2>1. round \in Nat
      BY BoundAssumption DEF Inv, TypeOK
  <2>2. QED BY <2>1, IdFields DEF Inv, Filed, Named, Used
<1>5. QED BY <1>1, <1>2, <1>3, <1>4 DEF Fine

\* A step about one identifier keeps the invariant if it keeps that identifier's
\* part of it.
LEMMA OneIdentifier ==
  ASSUME Inv, NEW id \in Ids, Elsewhere(id), TypeOK', Kept', Fine(id)',
         run' = run, day' = day, round' = round
  PROVE  Inv'
<1>1. ASSUME NEW other \in Ids, other # id PROVE Fine(other)'
  <2>1. round' \in Nat /\ round' >= round
      BY BoundAssumption DEF Inv, TypeOK
  <2>2. QED BY <1>1, <2>1, Untouched DEF Elsewhere
<1>2. QED BY <1>1 DEF Inv, Filed, Fine

\* The steps of a game task before its files.
LEMMA EarlyInv ==
  ASSUME Inv, NEW id \in Ids, Start(id) \/ Discard(id) \/ Decide(id)
  PROVE  Inv'
<1>1. /\ Up
      /\ \/ task[id] = "offered" /\ task'[id] \in {"playing", "none"}
         \/ task[id] = "playing" /\ task'[id] \in {"record", "none"}
      /\ task' \in [Ids -> Steps]
      /\ \A other \in Ids \ {id} : task'[other] = task[other]
      /\ live' \subseteq Ids
      /\ UNCHANGED <<day, games, run, restarts, scan, round, playing, record, sidecar,
                     row, synced, told, page>>
  <2>1. CASE Start(id)
      BY <2>1 DEF Inv, TypeOK, Start, TaskStep, Steps, processVars, diskVars
  <2>2. CASE Discard(id)
      BY <2>2 DEF Inv, TypeOK, Discard, TaskStep, Steps, processVars, diskVars
  <2>3. CASE Decide(id)
      BY <2>3 DEF Inv, TypeOK, Decide, TaskStep, Steps, processVars, diskVars
  <2>4. QED BY <2>1, <2>2, <2>3
<1>2. TypeOK'
    BY <1>1 DEF Inv, TypeOK
<1>3. Kept'
    BY <1>1 DEF Inv, Kept
<1>4. Fine(id)'
  <2>1. Durable(id)'
      BY <1>1 DEF Inv, Filed, Durable
  <2>2. Underway(id)'
      BY <1>1 DEF Inv, Filed, Underway, Up
  <2>3. Returned(id)'
      BY <1>1 DEF Inv, Filed, Underway, Returned
  <2>4. Named(id)'
      BY <1>1 DEF Inv, Filed, Named, Used
  <2>5. QED BY <2>1, <2>2, <2>3, <2>4 DEF Fine
<1>5. Elsewhere(id)
    BY <1>1 DEF Elsewhere
<1>6. QED BY <1>1, <1>2, <1>3, <1>4, <1>5, OneIdentifier

\* The record of a game nobody was told of yet is written.
LEMMA WriteRecordInv ==
  ASSUME Inv, NEW id \in Ids, WriteRecord(id)
  PROVE  Inv'
<1>1. TypeOK'
    BY DEF Inv, TypeOK, Files3, Steps, WriteRecord, TaskStep, processVars,
       taskVars, diskVars
<1>2. Kept'
    BY DEF Inv, TypeOK, Files3, Filed, Underway, Kept, WriteRecord, TaskStep,
       diskVars
<1>3. Fine(id)'
  <2>1. Durable(id)'
      BY DEF Inv, TypeOK, Files3, Filed, Durable, Underway, WriteRecord, TaskStep,
         diskVars
  <2>2. Underway(id)'
      BY DEF Inv, TypeOK, Files3, Filed, Durable, Underway, Up, WriteRecord,
         TaskStep, processVars, diskVars
  <2>3. Returned(id)'
      BY DEF Inv, TypeOK, Files3, Filed, Underway, Up, Returned, WriteRecord,
         TaskStep, processVars, diskVars
  <2>4. Named(id)'
      BY DEF Inv, TypeOK, Files3, Filed, Named, Used, WriteRecord, TaskStep,
         processVars, diskVars
  <2>5. QED BY <2>1, <2>2, <2>3, <2>4 DEF Fine
<1>4. Elsewhere(id)
    BY DEF Inv, TypeOK, Files3, Elsewhere, WriteRecord, TaskStep, processVars,
       diskVars
<1>5. UNCHANGED <<run, day, round>>
    BY DEF WriteRecord, TaskStep, processVars
<1>6. QED BY <1>1, <1>2, <1>3, <1>4, <1>5, OneIdentifier

\* The record is durable before the sidecar is begun.
LEMMA RecordIsDurableInv ==
  ASSUME Inv, NEW id \in Ids, RecordIsDurable(id)
  PROVE  Inv'
<1>1. TypeOK'
    BY DEF Inv, TypeOK, Files3, Steps, RecordIsDurable, TaskStep, SyncDirectory,
       processVars, taskVars, diskVars
<1>2. Kept'
    BY DEF Inv, TypeOK, Files3, Filed, Underway, Kept, RecordIsDurable, TaskStep,
       SyncDirectory, diskVars
<1>3. Fine(id)'
  <2>1. Durable(id)'
      BY DEF Inv, TypeOK, Files3, Filed, Durable, Underway, RecordIsDurable,
         TaskStep, SyncDirectory, diskVars
  <2>2. Underway(id)'
      BY DEF Inv, TypeOK, Files3, Filed, Durable, Underway, Up, RecordIsDurable,
         TaskStep, SyncDirectory, processVars, diskVars
  <2>3. Returned(id)'
      BY DEF Inv, TypeOK, Files3, Filed, Underway, Up, Returned, RecordIsDurable,
         TaskStep, SyncDirectory, processVars, diskVars
  <2>4. Named(id)'
      BY DEF Inv, TypeOK, Files3, Filed, Named, Used, RecordIsDurable, TaskStep,
         SyncDirectory, processVars, diskVars
  <2>5. QED BY <2>1, <2>2, <2>3, <2>4 DEF Fine
<1>4. Elsewhere(id)
    BY DEF Inv, TypeOK, Files3, Elsewhere, RecordIsDurable, TaskStep,
       SyncDirectory, processVars, diskVars
<1>5. UNCHANGED <<run, day, round>>
    BY DEF RecordIsDurable, TaskStep, processVars
<1>6. QED BY <1>1, <1>2, <1>3, <1>4, <1>5, OneIdentifier

\* The sidecar is written over nothing.
LEMMA WriteSidecarInv ==
  ASSUME Inv, NEW id \in Ids, WriteSidecar(id)
  PROVE  Inv'
<1>1. TypeOK'
    BY DEF Inv, TypeOK, Files3, Steps, WriteSidecar, TaskStep, processVars,
       taskVars, diskVars
<1>2. Kept'
    BY DEF Inv, TypeOK, Files3, Filed, Underway, Kept, WriteSidecar, TaskStep,
       diskVars
<1>3. Fine(id)'
  <2>1. Durable(id)'
      BY DEF Inv, TypeOK, Files3, Filed, Durable, Underway, WriteSidecar, TaskStep,
         diskVars
  <2>2. Underway(id)'
      BY DEF Inv, TypeOK, Files3, Filed, Durable, Underway, Up, WriteSidecar,
         TaskStep, processVars, diskVars
  <2>3. Returned(id)'
      BY DEF Inv, TypeOK, Files3, Filed, Underway, Up, Returned, WriteSidecar,
         TaskStep, processVars, diskVars
  <2>4. Named(id)'
      BY DEF Inv, TypeOK, Files3, Filed, Named, Used, WriteSidecar, TaskStep,
         processVars, diskVars
  <2>5. QED BY <2>1, <2>2, <2>3, <2>4 DEF Fine
<1>4. Elsewhere(id)
    BY DEF Inv, TypeOK, Files3, Elsewhere, WriteSidecar, TaskStep, processVars,
       diskVars
<1>5. UNCHANGED <<run, day, round>>
    BY DEF WriteSidecar, TaskStep, processVars
<1>6. QED BY <1>1, <1>2, <1>3, <1>4, <1>5, OneIdentifier

\* The sidecar is durable before anybody is told.
LEMMA SidecarIsDurableInv ==
  ASSUME Inv, NEW id \in Ids, SidecarIsDurable(id)
  PROVE  Inv'
<1>1. TypeOK'
    BY DEF Inv, TypeOK, Files3, Steps, SidecarIsDurable, TaskStep, SyncDirectory,
       processVars, taskVars, diskVars
<1>2. Kept'
    BY DEF Inv, TypeOK, Files3, Filed, Underway, Kept, SidecarIsDurable, TaskStep,
       SyncDirectory, diskVars
<1>3. Fine(id)'
  <2>1. Durable(id)'
      BY DEF Inv, TypeOK, Files3, Filed, Durable, Underway, SidecarIsDurable,
         TaskStep, SyncDirectory, diskVars
  <2>2. Underway(id)'
      BY DEF Inv, TypeOK, Files3, Filed, Durable, Underway, Up, SidecarIsDurable,
         TaskStep, SyncDirectory, processVars, diskVars
  <2>3. Returned(id)'
      BY DEF Inv, TypeOK, Files3, Filed, Underway, Up, Returned, SidecarIsDurable,
         TaskStep, SyncDirectory, processVars, diskVars
  <2>4. Named(id)'
      BY DEF Inv, TypeOK, Files3, Filed, Named, Used, SidecarIsDurable, TaskStep,
         SyncDirectory, processVars, diskVars
  <2>5. QED BY <2>1, <2>2, <2>3, <2>4 DEF Fine
<1>4. Elsewhere(id)
    BY DEF Inv, TypeOK, Files3, Elsewhere, SidecarIsDurable, TaskStep,
       SyncDirectory, processVars, diskVars
<1>5. UNCHANGED <<run, day, round>>
    BY DEF SidecarIsDurable, TaskStep, processVars
<1>6. QED BY <1>1, <1>2, <1>3, <1>4, <1>5, OneIdentifier

\* The clients are told of a game that has both its files.
LEMMA TellInv ==
  ASSUME Inv, NEW id \in Ids, Tell(id)
  PROVE  Inv'
<1> DEFINE mine == [id |-> id, game |-> playing[id]]
<1>a. told' = told \cup {mine} /\ playing[id] \in Games
    BY DEF Inv, TypeOK, Tell
<1>b. mine \in [id : Ids, game : Games] /\ mine.id = id /\ mine.game = playing[id]
    BY <1>a
<1> HIDE DEF mine
<1>1. TypeOK'
  <2>1. told' \subseteq [id : Ids, game : Games]
      BY <1>a, <1>b DEF Inv, TypeOK
  <2>2. QED BY <2>1 DEF Inv, TypeOK, Steps, Tell, TaskStep, processVars, taskVars,
             diskVars
<1>2. Kept'
    BY <1>a, <1>b DEF Inv, Filed, Underway, Kept, Tell, TaskStep, diskVars
<1>3. Fine(id)'
  <2>1. Durable(id)'
      BY DEF Inv, TypeOK, Files3, Filed, Durable, Underway, Tell, TaskStep, diskVars
  <2>2. Underway(id)'
      BY DEF Inv, TypeOK, Files3, Filed, Durable, Underway, Up, Tell, TaskStep,
         processVars, diskVars
  <2>3. Returned(id)'
      BY DEF Inv, TypeOK, Files3, Filed, Underway, Up, Returned, Tell, TaskStep,
         processVars, diskVars
  <2>4. Named(id)'
      BY DEF Inv, TypeOK, Files3, Filed, Named, Used, Tell, TaskStep, processVars,
         diskVars
  <2>5. QED BY <2>1, <2>2, <2>3, <2>4 DEF Fine
<1>4. Elsewhere(id)
    BY DEF Inv, TypeOK, Files3, Elsewhere, Tell, TaskStep, processVars, diskVars
<1>5. UNCHANGED <<run, day, round>>
    BY DEF Tell, TaskStep, processVars
<1>6. QED BY <1>1, <1>2, <1>3, <1>4, <1>5, OneIdentifier

\* The row is the first under its identifier.
LEMMA StoreInv ==
  ASSUME Inv, NEW id \in Ids, Store(id)
  PROVE  Inv'
<1>1. TypeOK'
    BY DEF Inv, TypeOK, Files3, Steps, Store, TaskStep, Insert, processVars,
       taskVars, diskVars
<1>2. Kept'
    BY DEF Inv, TypeOK, Files3, Filed, Underway, Kept, Store, TaskStep, Insert,
       diskVars
<1>3. Fine(id)'
  <2>1. Durable(id)'
      BY DEF Inv, TypeOK, Files3, Filed, Durable, Underway, Store, TaskStep,
         Insert, diskVars
  <2>2. Underway(id)'
      BY DEF Inv, TypeOK, Files3, Filed, Durable, Underway, Up, Store, TaskStep,
         Insert, processVars, diskVars
  <2>3. Returned(id)'
      BY DEF Inv, TypeOK, Files3, Filed, Underway, Up, Returned, Store, TaskStep,
         Insert, processVars, diskVars
  <2>4. Named(id)'
      BY DEF Inv, TypeOK, Files3, Filed, Named, Used, Store, TaskStep, Insert,
         processVars, diskVars
  <2>5. QED BY <2>1, <2>2, <2>3, <2>4 DEF Fine
<1>4. Elsewhere(id)
    BY DEF Inv, TypeOK, Files3, Elsewhere, Store, TaskStep, Insert, processVars,
       diskVars
<1>5. UNCHANGED <<run, day, round>>
    BY DEF Store, TaskStep, processVars
<1>6. QED BY <1>1, <1>2, <1>3, <1>4, <1>5, OneIdentifier

\* A row is only missed while the server closes.
LEMMA StoreFailsInv ==
  ASSUME Inv, NEW id \in Ids, StoreFails(id), NoRefusals
  PROVE  Inv'
<1>1. TypeOK'
    BY DEF Inv, TypeOK, Files3, Steps, StoreFails, TaskStep, processVars, taskVars,
       diskVars
<1>2. Kept'
    BY DEF Inv, TypeOK, Files3, Filed, Underway, Kept, StoreFails, TaskStep,
       diskVars
<1>3. Fine(id)'
  <2>1. Durable(id)'
      BY DEF Inv, TypeOK, Files3, Filed, Durable, Underway, StoreFails, TaskStep,
         diskVars
  <2>2. Underway(id)'
      BY DEF Inv, TypeOK, Files3, Filed, Durable, Underway, Up, StoreFails,
         TaskStep, processVars, diskVars
  <2>3. Returned(id)'
      BY DEF Inv, TypeOK, Files3, Filed, Underway, Up, Returned, NoRefusals, StoreFails,
         TaskStep, processVars, diskVars
  <2>4. Named(id)'
      BY DEF Inv, TypeOK, Files3, Filed, Named, Used, StoreFails, TaskStep,
         processVars, diskVars
  <2>5. QED BY <2>1, <2>2, <2>3, <2>4 DEF Fine
<1>4. Elsewhere(id)
    BY DEF Inv, TypeOK, Files3, Elsewhere, StoreFails, TaskStep, processVars,
       diskVars
<1>5. UNCHANGED <<run, day, round>>
    BY DEF StoreFails, TaskStep, processVars
<1>6. QED BY <1>1, <1>2, <1>3, <1>4, <1>5, OneIdentifier

\* The task is gone once the row is there.
LEMMA DeregisterInv ==
  ASSUME Inv, NEW id \in Ids, Deregister(id)
  PROVE  Inv'
<1>1. TypeOK'
    BY DEF Inv, TypeOK, Files3, Steps, Deregister, TaskStep, processVars, taskVars,
       diskVars
<1>2. Kept'
    BY DEF Inv, TypeOK, Files3, Filed, Underway, Kept, Deregister, TaskStep,
       diskVars
<1>3. Fine(id)'
  <2>1. Durable(id)'
      BY DEF Inv, TypeOK, Files3, Filed, Durable, Underway, Deregister, TaskStep,
         diskVars
  <2>2. Underway(id)'
      BY DEF Inv, TypeOK, Files3, Filed, Durable, Underway, Up, Deregister,
         TaskStep, processVars, diskVars
  <2>3. Returned(id)'
      BY DEF Inv, TypeOK, Files3, Filed, Underway, Up, Returned, Deregister,
         TaskStep, processVars, diskVars
  <2>4. Named(id)'
      BY DEF Inv, TypeOK, Files3, Filed, Named, Used, Deregister, TaskStep,
         processVars, diskVars
  <2>5. QED BY <2>1, <2>2, <2>3, <2>4 DEF Fine
<1>4. Elsewhere(id)
    BY DEF Inv, TypeOK, Files3, Elsewhere, Deregister, TaskStep, processVars,
       diskVars
<1>5. UNCHANGED <<run, day, round>>
    BY DEF Deregister, TaskStep, processVars
<1>6. QED BY <1>1, <1>2, <1>3, <1>4, <1>5, OneIdentifier

-----------------------------------------------------------------------------
(* Rounds and the process *)

\* The identifiers a round mints are in no use: every one in use that is of
\* today is of a round this run has passed.
LEMMA RoundInv ==
  ASSUME Inv, Round
  PROVE  Inv'
<1> USE BoundAssumption
<1>1. /\ run = "serving" /\ round \in Nat /\ round' = round + 1 /\ round' \in 0..RoundBound
      /\ UNCHANGED <<day, run, restarts, scan, live, diskVars, told, page>>
    BY DEF Inv, TypeOK, Round
<1>2. PICK n \in 1..Tables :
        /\ games + n <= GameBound
        /\ games' = games + n
        /\ task' = [id \in Ids |-> IF id.date = day /\ id.round = round' /\ id.seq < n
                                   THEN "offered" ELSE task[id]]
        /\ playing' = [id \in Ids |-> IF id.date = day /\ id.round = round' /\ id.seq < n
                                      THEN games + id.seq + 1 ELSE playing[id]]
    BY DEF Round
<1>3. TypeOK'
  <2>1. games \in Nat /\ games' \in Games
      BY <1>2 DEF Inv, TypeOK, Games
  <2>2. task' \in [Ids -> Steps]
      BY <1>2 DEF Inv, TypeOK, Steps
  <2>3. \A id \in Ids : id.seq < n => games + id.seq + 1 \in Games
      BY <1>2, <2>1, IdFields DEF Games
  <2>4. playing' \in [Ids -> Games]
      BY <1>2, <2>3 DEF Inv, TypeOK
  <2>5. QED BY <1>1, <2>1, <2>2, <2>4 DEF Inv, TypeOK, diskVars
<1>4. Kept'
    BY <1>1 DEF Inv, Kept, diskVars
<1>5. ASSUME NEW id \in Ids PROVE Fine(id)'
  <2>1. CASE id.date = day /\ id.round = round' /\ id.seq < n
    <3>1. ~Used(id)
        BY <1>1, <2>1 DEF Inv, Filed, Named
    <3>2. playing'[id] # None
        BY <1>2, <2>1, IdFields DEF Inv, TypeOK, Games, None
    <3>3. task'[id] = "offered"
        BY <1>2, <2>1
    <3>4. Durable(id)'
        BY <1>1 DEF Inv, Filed, Durable, diskVars
    <3>5. Underway(id)'
        BY <1>1, <3>1, <3>2, <3>3 DEF Underway, Up, Used, diskVars
    <3>6. Returned(id)'
        BY <1>1, <3>1 DEF Returned, Used, diskVars
    <3>7. Named(id)'
        BY <1>1, <2>1, IdFields DEF Inv, TypeOK, Named
    <3>8. QED BY <3>4, <3>5, <3>6, <3>7 DEF Fine
  <2>2. CASE ~(id.date = day /\ id.round = round' /\ id.seq < n)
    <3>1. task'[id] = task[id] /\ playing'[id] = playing[id]
        BY <1>2, <2>2
    <3>2. QED BY <1>1, <3>1, Untouched DEF diskVars
  <2>3. QED BY <2>1, <2>2
<1>6. QED BY <1>3, <1>4, <1>5 DEF Inv, Filed, Fine

\* Renames and rows that become durable are the ones that are seen.
LEMMA WriteBackInv ==
  ASSUME Inv, WriteBack
  PROVE  Inv'
<1>1. /\ UNCHANGED <<day, games, processVars, taskVars, record, sidecar, row, told, page>>
      /\ \/ SyncDirectory
         \/ synced' = [synced EXCEPT !.row = row]
    BY DEF WriteBack
<1>2. TypeOK'
    BY <1>1 DEF Inv, TypeOK, Files3, SyncDirectory, processVars, taskVars
<1>3. Kept'
    BY <1>1 DEF Inv, TypeOK, Files3, Kept, SyncDirectory
<1>4. ASSUME NEW id \in Ids PROVE Fine(id)'
  <2>1. round' \in Nat /\ round' >= round
      BY <1>1, BoundAssumption DEF Inv, TypeOK, processVars
  <2>2. /\ \/ /\ synced'.record[id] = synced.record[id]
              /\ synced'.sidecar[id] = synced.sidecar[id]
           \/ /\ synced'.record[id] = record[id]
              /\ synced'.sidecar[id] = sidecar[id]
        /\ synced'.row[id] \in {synced.row[id], row[id]}
      BY <1>1 DEF Inv, TypeOK, Files3, SyncDirectory
  <2>3. QED BY <1>1, <2>1, <2>2, Untouched DEF processVars, taskVars
<1>5. QED BY <1>2, <1>3, <1>4 DEF Inv, Filed, Fine

\* A process that ends leaves an identifier as its files and row are then.
LEMMA EndsInv ==
  ASSUME Inv, Ends,
         record' \in [Ids -> Games], sidecar' \in [Ids -> Games],
         row' \in [Ids -> Games], synced' \in Files3,
         Kept', \A id \in Ids : Durable(id)',
         \A id \in Ids : (sidecar'[id] # None \/ row'[id] # None) => Used(id)
  PROVE  Inv'
<1>1. TypeOK'
  <2>1. run' \in Runs /\ scan' \subseteq Ids /\ live' \subseteq Ids /\ round' \in 0..RoundBound
      BY BoundAssumption DEF Ends, Runs
  <2>2. task' \in [Ids -> Steps]
      BY DEF Ends, Steps
  <2>3. playing' \in [Ids -> Games]
      BY BoundAssumption DEF Ends, Games, None
  <2>4. page' \in [at : PageSteps, id : Ids, due : BOOLEAN]
      BY IdleType DEF Ends
  <2>5. UNCHANGED <<day, games, restarts, told>>
      BY DEF Ends
  <2>6. QED BY <2>1, <2>2, <2>3, <2>4, <2>5 DEF Inv, TypeOK
<1>2. ASSUME NEW id \in Ids PROVE Fine(id)'
    BY DEF Inv, Filed, Ends, Fine, Underway, Returned, Named, Used
<1>3. QED BY <1>1, <1>2 DEF Inv, Filed, Fine

\* A crash loses no file and no row.
LEMMA CrashInv ==
  ASSUME Inv, Crash
  PROVE  Inv'
<1>1. Ends /\ UNCHANGED diskVars /\ told' = told
    BY DEF Crash, Ends
<1>2. Kept' /\ \A id \in Ids : Durable(id)'
    BY <1>1 DEF Inv, Kept, Filed, Durable, diskVars
<1>3. QED BY <1>1, <1>2, EndsInv DEF Inv, TypeOK, Used, diskVars

\* A power cut leaves either what was seen or what was synced, and both of them
\* are in order.
LEMMA PowerCutInv ==
  ASSUME Inv, PowerCut
  PROVE  Inv'
<1>1. /\ Ends /\ told' = told
      /\ \/ record' = record /\ sidecar' = sidecar
         \/ record' = synced.record /\ sidecar' = synced.sidecar
      /\ row' \in {row, synced.row}
      /\ synced' = [record |-> record', sidecar |-> sidecar', row |-> row']
    BY DEF PowerCut, Ends
<1>2. /\ record' \in [Ids -> Games] /\ sidecar' \in [Ids -> Games]
      /\ row' \in [Ids -> Games] /\ synced' \in Files3
    BY <1>1 DEF Inv, TypeOK, Files3
<1>3. Kept'
    BY <1>1 DEF Inv, Kept
<1>4. ASSUME NEW id \in Ids
      PROVE  /\ Durable(id)'
             /\ (sidecar'[id] # None \/ row'[id] # None) => Used(id)
    BY <1>1 DEF Inv, Filed, Durable, Used
<1>5. QED BY <1>1, <1>2, <1>3, <1>4, EndsInv

\* The writes that were begun and run to their end are over nothing.
LEMMA ExitInv ==
  ASSUME Inv, Exit
  PROVE  Inv'
<1>1. Ends /\ told' = told /\ row' = row
    BY DEF Exit, Ends
<1>2. PICK begun \in SUBSET {id \in Ids : task[id] \in {"record", "sidecar"}} :
        /\ record' = [id \in Ids |-> IF id \in begun /\ task[id] = "record"
                                     THEN playing[id] ELSE record[id]]
        /\ sidecar' = [id \in Ids |-> IF id \in begun /\ task[id] = "sidecar"
                                      THEN playing[id] ELSE sidecar[id]]
    BY DEF Exit
<1>3. synced' = [record |-> record', sidecar |-> sidecar', row |-> row]
    BY DEF Exit
<1>4. /\ record' \in [Ids -> Games] /\ sidecar' \in [Ids -> Games]
      /\ row' \in [Ids -> Games] /\ synced' \in Files3
    BY <1>1, <1>2, <1>3 DEF Inv, TypeOK, Files3
<1>5. ASSUME NEW id \in Ids, sidecar[id] # None
      PROVE  record'[id] = record[id] /\ sidecar'[id] = sidecar[id]
    BY <1>2, <1>5 DEF Inv, Filed, Underway
<1>6. Kept'
    BY <1>1, <1>3, <1>5 DEF Inv, TypeOK, Kept
<1>7. ASSUME NEW id \in Ids
      PROVE  /\ Durable(id)'
             /\ (sidecar'[id] # None \/ row'[id] # None) => Used(id)
  <2>1. CASE sidecar[id] # None
      BY <1>1, <1>3, <1>5, <2>1 DEF Inv, Filed, Durable, Used
  <2>2. CASE sidecar[id] = None
      BY <1>1, <1>2, <1>3, <2>2 DEF Inv, Filed, Durable, Underway, Used
  <2>3. QED BY <2>1, <2>2
<1>8. QED BY <1>1, <1>4, <1>6, <1>7, EndsInv

\* A run begins with no row read and every sidecar to look at.
LEMMA RestartInv ==
  ASSUME Inv, Restart
  PROVE  Inv'
<1>1. /\ run = "down" /\ run' = "reconciling" /\ restarts < RestartBound
      /\ restarts' = restarts + 1
      /\ scan' = {id \in Ids : sidecar[id] # None}
      /\ UNCHANGED <<day, games, round, taskVars, diskVars, told, page>>
    BY DEF Restart
<1>2. TypeOK'
    BY <1>1, BoundAssumption DEF Inv, TypeOK, Runs, taskVars, diskVars
<1>3. Kept'
    BY <1>1 DEF Inv, Kept, diskVars
<1>4. ASSUME NEW id \in Ids PROVE Fine(id)'
  <2>1. Durable(id)'
      BY <1>1 DEF Inv, Filed, Durable, diskVars
  <2>2. Underway(id)'
      BY <1>1 DEF Inv, Filed, Underway, Up, taskVars, diskVars
  <2>3. Returned(id)' /\ Named(id)'
      BY <1>1 DEF Inv, Filed, Returned, Named, Used, taskVars, diskVars
  <2>4. QED BY <2>1, <2>2, <2>3 DEF Fine
<1>5. QED BY <1>2, <1>3, <1>4 DEF Inv, Filed, Fine

\* A sidecar the scan has passed has its row.
LEMMA ReconcileInv ==
  ASSUME Inv, NoRefusals, NEW id \in Ids, Reconcile(id)
  PROVE  Inv'
<1>1. /\ run = "reconciling" /\ id \in scan /\ scan' = scan \ {id}
      /\ row' = [row EXCEPT ![id] = IF row[id] = None THEN sidecar[id] ELSE row[id]]
      /\ UNCHANGED <<day, games, run, restarts, round, taskVars, record, sidecar,
                     synced, told, page>>
    BY DEF Reconcile, Insert, NoRefusals
<1>2. TypeOK'
    BY <1>1 DEF Inv, TypeOK, taskVars
<1>3. Kept'
    BY <1>1 DEF Inv, Kept
<1>4. Fine(id)'
  <2>1. row'[id] = IF row[id] = None THEN sidecar[id] ELSE row[id]
      BY <1>1 DEF Inv, TypeOK
  <2>2. Durable(id)'
      BY <1>1, <2>1 DEF Inv, Filed, Durable
  <2>3. Underway(id)'
      BY <1>1, <2>1 DEF Inv, Filed, Underway, Up, taskVars
  <2>4. Returned(id)'
      BY <1>1, <2>1 DEF Inv, Filed, Durable, Returned
  <2>5. Named(id)'
      BY <1>1, <2>1 DEF Inv, Filed, Named, Used, taskVars
  <2>6. QED BY <2>2, <2>3, <2>4, <2>5 DEF Fine
<1>5. Elsewhere(id)
    BY <1>1 DEF Inv, TypeOK, Elsewhere, taskVars
<1>6. QED BY <1>1, <1>2, <1>3, <1>4, <1>5, OneIdentifier

\* The seed is above every round of today that is in use, because every sidecar
\* has its row by then.
LEMMA ServeInv ==
  ASSUME Inv, Serve
  PROVE  Inv'
<1>1. /\ run = "reconciling" /\ scan = {} /\ run' = "serving"
      /\ round' \in 0..RoundBound /\ SeedRound(round')
      /\ UNCHANGED <<day, games, restarts, scan, taskVars, diskVars, told, page>>
    BY DEF Serve
<1>2. TypeOK'
    BY <1>1 DEF Inv, TypeOK, Runs, taskVars, diskVars
<1>3. Kept'
    BY <1>1 DEF Inv, Kept, diskVars
<1>4. ASSUME NEW id \in Ids PROVE Fine(id)'
  <2>1. task[id] = "none"
      BY <1>1 DEF Inv, Filed, Underway, Up
  <2>2. sidecar[id] # None => row[id] = sidecar[id]
      BY <1>1 DEF Inv, Filed, Returned
  <2>3. (row[id] # None /\ id.date = day) => id.round <= round'
      BY <1>1 DEF SeedRound
  <2>4. Durable(id)'
      BY <1>1 DEF Inv, Filed, Durable, diskVars
  <2>5. Underway(id)' /\ Returned(id)'
      BY <1>1, <2>1, <2>2 DEF Underway, Returned, taskVars, diskVars
  <2>6. Named(id)'
      BY <1>1, <2>1, <2>2, <2>3 DEF Inv, Filed, Named, Used, taskVars, diskVars
  <2>7. QED BY <2>4, <2>5, <2>6 DEF Fine
<1>5. QED BY <1>2, <1>3, <1>4 DEF Inv, Filed, Fine

-----------------------------------------------------------------------------
(* The theorems *)

\* Every step keeps the invariant, if none is refused.
LEMMA NextInv ==
  ASSUME Inv, NoRefusals, [Next]_vars
  PROVE  Inv'
<1>1. CASE NextDay \/ Pages \/ Shutdown \/ UNCHANGED vars
    BY <1>1, QuietInv
<1>2. CASE Round
    BY <1>2, RoundInv
<1>3. ASSUME NEW id \in Ids, Start(id) \/ Discard(id) \/ Decide(id)
      PROVE  Inv'
    BY <1>3, EarlyInv
<1>4. ASSUME NEW id \in Ids, Files(id)
      PROVE  Inv'
  <2>1. ~FileFails(id)
      BY DEF FileFails, NoRefusals
  <2>2. QED BY <1>4, <2>1, WriteRecordInv, RecordIsDurableInv, WriteSidecarInv,
            SidecarIsDurableInv, TellInv, StoreInv, StoreFailsInv, DeregisterInv DEF Files
<1>5. ASSUME NEW id \in Ids, Reconcile(id)
      PROVE  Inv'
    BY <1>5, ReconcileInv
<1>6. CASE WriteBack
    BY <1>6, WriteBackInv
<1>7. CASE Exit \/ Crash \/ PowerCut
    BY <1>7, ExitInv, CrashInv, PowerCutInv
<1>8. CASE Restart \/ Serve
    BY <1>8, RestartInv, ServeInv
<1>9. QED BY <1>1, <1>2, <1>3, <1>4, <1>5, <1>6, <1>7, <1>8 DEF Next

\* The invariant holds of every run in which nothing is refused.
LEMMA Invariance ==
  ASSUME NoRefusals
  PROVE  Spec => []Inv
<1>1. Init => Inv
    BY InitInv
<1>2. Inv /\ [Next]_vars => Inv'
    BY NextInv
<1>3. QED BY <1>1, <1>2, PTL DEF Spec

\* Every variable of Filing keeps its type, and the strengthening that the
\* stops run checks (Filed) is inductive.
THEOREM FilingIsInductive ==
  ASSUME NoRefusals
  PROVE  Spec => [](TypeOK /\ Filed)
<1>1. Inv => TypeOK /\ Filed
    BY DEF Inv
<1>2. QED BY <1>1, Invariance, PTL

\* Whatever crashes, power cuts and restarts come, a game whose clients have
\* their last line keeps its record and its sidecar (pairing.rs terminate).
THEOREM FilesOutliveTheProcess ==
  ASSUME NoRefusals
  PROVE  Spec => []ToldIsOnDisk
<1>1. Inv => ToldIsOnDisk
    BY DEF Inv, Kept, ToldIsOnDisk
<1>2. QED BY <1>1, Invariance, PTL

\* No two games played to an end share an identifier, in whichever runs they were
\* played (server.rs seed_round).
THEOREM OneGamePerIdentifier ==
  ASSUME NoRefusals
  PROVE  Spec => []IdentifierIsUnique
<1>1. ASSUME Inv, NEW t \in told, NEW u \in told, t.id = u.id
      PROVE  t = u
  <2>1. t.game = u.game
      BY <1>1 DEF Inv, Kept
  <2>2. t \in [id : Ids, game : Games] /\ u \in [id : Ids, game : Games]
      BY <1>1 DEF Inv, TypeOK
  <2>3. QED BY <1>1, <2>1, <2>2
<1>2. Inv => IdentifierIsUnique
    BY <1>1 DEF IdentifierIsUnique
<1>3. QED BY <1>2, Invariance, PTL

\* While the server serves, a game with a sidecar and no task has its row
\* (sidecar.rs reconcile).
THEOREM RowsAreReconciled ==
  ASSUME NoRefusals
  PROVE  Spec => []RowReturns
<1>1. Inv => RowReturns
    BY DEF Inv, Filed, Returned, RowReturns
<1>2. QED BY <1>1, Invariance, PTL

\* Record, sidecar and row of an identifier are of one game (pairing.rs row, store).
THEOREM ArtifactsStayTogether ==
  ASSUME NoRefusals
  PROVE  Spec => []ArtifactsAgree
<1>1. Inv => ArtifactsAgree
    BY DEF Inv, Filed, Durable, ArtifactsAgree
<1>2. QED BY <1>1, Invariance, PTL

\* The files of a filed game are never another game's afterwards (records.rs write).
THEOREM FiledGamesAreKept ==
  ASSUME NoRefusals
  PROVE  Spec => FiledIsKept
<1> DEFINE Keeps(id) == record'[id] = synced.record[id] /\ sidecar'[id] = synced.sidecar[id]
<1>1. ASSUME Inv, [Next]_vars, NEW id \in Ids, synced.sidecar[id] # None
      PROVE  Keeps(id)
  <2>1. /\ sidecar[id] = synced.sidecar[id] /\ record[id] = synced.record[id]
        /\ sidecar[id] # None
      BY <1>1 DEF Inv, Filed, Durable
  <2>2. CASE record' = record /\ sidecar' = sidecar
      BY <2>1, <2>2
  <2>3. ASSUME NEW other \in Ids, WriteRecord(other) \/ WriteSidecar(other)
        PROVE  Keeps(id)
    <3>1. sidecar[other] = None
        BY <1>1, <2>3 DEF Inv, Filed, Underway, WriteRecord, WriteSidecar, TaskStep
    <3>2. other # id
        BY <2>1, <3>1
    <3>3. record'[id] = record[id] /\ sidecar'[id] = sidecar[id]
        BY <1>1, <2>3, <3>2 DEF Inv, TypeOK, WriteRecord, WriteSidecar
    <3>4. QED BY <2>1, <3>3
  <2>4. CASE Exit
      BY <1>1, <2>1, <2>4 DEF Inv, Filed, Underway, Exit
  <2>5. CASE PowerCut
      BY <2>1, <2>5 DEF PowerCut
  <2>6. ASSUME NEW other \in Ids,
               \/ Start(other) \/ Discard(other) \/ Decide(other)
               \/ RecordIsDurable(other) \/ SidecarIsDurable(other) \/ FileFails(other)
               \/ Tell(other) \/ Store(other) \/ StoreFails(other) \/ Deregister(other)
               \/ Reconcile(other)
        PROVE  Keeps(id)
      BY <2>2, <2>6 DEF Start, Discard, Decide, RecordIsDurable, SidecarIsDurable,
         FileFails, Tell, Store, StoreFails, Deregister, Reconcile, diskVars
  <2>7. CASE NextDay \/ Round \/ WriteBack \/ Shutdown \/ Crash \/ Restart \/ Serve
      BY <2>2, <2>7 DEF NextDay, Round, WriteBack, Shutdown, Crash, Restart, Serve, diskVars
  <2>8. CASE Pages \/ UNCHANGED vars
      BY <2>2, <2>8 DEF Pages, Ask, ReadTable, ReadRegistry, Answered, vars, diskVars
  <2>9. QED BY <1>1, <2>3, <2>4, <2>5, <2>6, <2>7, <2>8 DEF Next, Files
<1>2. Inv /\ [Next]_vars =>
        [\A id \in Ids : synced.sidecar[id] # None =>
            /\ record'[id] = synced.record[id]
            /\ sidecar'[id] = synced.sidecar[id]]_vars
    BY <1>1
<1>3. QED BY <1>2, Invariance, PTL DEF Spec, FiledIsKept

=============================================================================
