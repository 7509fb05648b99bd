--------------------------- MODULE StateDatabase ---------------------------
(* The start of the server on its state database                           *)
(* (packages/dkrypt/src/store/sqlite.ts, prepareStateDatabase, and load in *)
(* store/state.ts): the file, the marker that a fresh installation is      *)
(* under way, the migrations, the first snapshot of the state and its      *)
(* mirror state.json, which older versions kept instead of a database.     *)
(*                                                                         *)
(* All of it is synchronous, and flushed before the next step begins: a    *)
(* loss of power is a crash before or after one.  Another repository that  *)
(* opens the database first does the same up to ClearMarker, so that it    *)
(* and a crash there leave the same.                                       *)
EXTENDS Naturals

CONSTANTS
  previous, candidate,  \* images: the one deployed, and the one to deploy
  PreviousMigrations, CandidateMigrations,  \* how many migrations they have
  NoFile, NoMarker, NoState,
  MaxCommits,         \* bound: states written
  MaxDatabaseCrashes  \* bound

ASSUME MigrationsAssumption ==
  PreviousMigrations \in Nat \ {0} /\ CandidateMigrations \in Nat /\ CandidateMigrations >= PreviousMigrations
ASSUME DatabaseBoundsAssumption == {MaxCommits, MaxDatabaseCrashes} \subseteq Nat

Images == {previous, candidate}

Migrations(i) == IF i = previous THEN PreviousMigrations ELSE CandidateMigrations

VARIABLES
  dbFile,    \* NoFile, or what the database contains
  marker,    \* the file `.initializing': NoMarker, or what it says
  mirror,    \* the state in state.json
  starter,   \* the process: its step, its image, what it found, its state
  numbers,   \* inodes and application ids given so far
  commits,
  latest,    \* history: the state written last
  expected,  \* history: the state a start has to find
  damaged,   \* history: the file has been damaged
  databaseCrashes

databaseVars ==
  <<dbFile, marker, mirror, starter, numbers, commits, latest, expected, damaged, databaseCrashes>>

DefaultState == 0
LegacyState  == 1
States       == 0..(MaxCommits + 1)

StartSteps ==
  {"down", "opening", "binding", "naming", "checking", "migrating", "reading", "clearing",
   "loading", "serving", "refused"}

(* `mark' is the row of `metadata' that says whether a snapshot has ever   *)
(* been written.                                                           *)
EmptyFile(n) == [ino |-> n, app |-> 0, schema |-> 0, snap |-> NoState, mark |-> "none"]

DbFiles ==
  [ino : Nat, app : Nat, schema : Nat, snap : States \cup {NoState},
   mark : {"none", "pending", "initialized"}]

Markers == [phase : {"unbound", "bound"}, app : Nat \ {0}, ino : Nat]

Starters ==
  [step : StartSteps, image : Images, existed : BOOLEAN, resuming : BOOLEAN,
   state : States \cup {NoState}]

ASSUME NothingAssumption == NoFile \notin DbFiles /\ NoMarker \notin Markers /\ NoState \notin Nat

DatabaseTypeOK ==
  /\ dbFile \in DbFiles \cup {NoFile}
  /\ marker \in Markers \cup {NoMarker}
  /\ mirror \in States \cup {NoState}
  /\ starter \in Starters
  /\ numbers \in Nat
  /\ commits \in 0..MaxCommits
  /\ {latest, expected} \subseteq States \cup {NoState}
  /\ damaged \in BOOLEAN
  /\ databaseCrashes \in 0..MaxDatabaseCrashes

NotStarted(i) ==
  [step |-> "down", image |-> i, existed |-> FALSE, resuming |-> FALSE, state |-> NoState]

(* Nothing at all, a state.json of an old version, or a database of a      *)
(* version that set no marks.                                              *)
DatabaseInit ==
  /\ \/ /\ dbFile = NoFile
        /\ mirror \in {NoState, LegacyState} /\ numbers = 0
     \/ /\ dbFile = [EmptyFile(1) EXCEPT !.schema = 1, !.snap = LegacyState]
        /\ mirror = LegacyState /\ numbers = 1
  /\ marker = NoMarker
  /\ starter \in {NotStarted(i) : i \in Images}
  /\ commits = 0
  /\ latest = (IF dbFile = NoFile THEN NoState ELSE dbFile.snap)
  /\ expected = mirror
  /\ damaged = FALSE
  /\ databaseCrashes = 0

Running == starter.step \notin {"down", "refused"}

To(step)        == starter' = [starter EXCEPT !.step = step]
FilesStay       == UNCHANGED <<dbFile, marker, mirror, numbers>>
HistoryStays    == UNCHANGED <<commits, latest, expected, damaged, databaseCrashes>>

----------------------------------------------------------------------------
(* prepareStateDatabase.                                                   *)

(* createInitializationMarker keeps a marker that is there.                *)
BeginStart(i) ==
  /\ ~Running
  /\ starter' = [NotStarted(i) EXCEPT !.step = "opening", !.existed = dbFile # NoFile]
  /\ IF dbFile = NoFile /\ marker = NoMarker
     THEN /\ marker' = [phase |-> "unbound", app |-> numbers + 1, ino |-> 0]
          /\ numbers' = numbers + 1
     ELSE UNCHANGED <<marker, numbers>>
  /\ UNCHANGED <<dbFile, mirror>> /\ HistoryStays

IsBlank(f) == f.app = 0 /\ f.schema = 0

(* A marker that does not fit: of a file that is no longer there, or next  *)
(* to one that has a schema.                                               *)
MarkerMismatch ==
  /\ marker # NoMarker
  /\ \/ marker.phase = "bound" /\ (dbFile.app # marker.app \/ dbFile.ino # marker.ino)
     \/ marker.phase = "unbound" /\ (dbFile.schema > 0 \/ dbFile.app \notin {0, marker.app})

(* verifyInterruptedFreshInitialization                                    *)
IsInterrupted(f) == f.snap = NoState /\ f.mark # "initialized"

Resumes == marker # NoMarker /\ IsInterrupted(dbFile)

UnknownSchema ==
  \/ marker # NoMarker /\ dbFile.schema > Migrations(starter.image)
  \/ starter.existed /\ ~Resumes /\ dbFile.schema = 0

OpenFile ==
  /\ starter.step = "opening"
  /\ ~(starter.existed /\ marker = NoMarker /\ IsBlank(dbFile))
  /\ IF dbFile = NoFile
     THEN dbFile' = EmptyFile(numbers + 1) /\ numbers' = numbers + 1
     ELSE UNCHANGED <<dbFile, numbers>>
  /\ To("binding") /\ UNCHANGED <<marker, mirror>> /\ HistoryStays

(* bindInitializationMarkerToDatabase: the id is written into the file     *)
(* first, the file's number into the marker then.                          *)
BindFile ==
  /\ starter.step = "binding" /\ ~MarkerMismatch
  /\ IF marker # NoMarker /\ marker.phase = "unbound"
     THEN dbFile' = [dbFile EXCEPT !.app = marker.app] /\ To("naming")
     ELSE To("checking") /\ UNCHANGED dbFile
  /\ UNCHANGED <<marker, mirror, numbers>> /\ HistoryStays

BindMarker ==
  /\ starter.step = "naming"
  /\ marker' = [marker EXCEPT !.phase = "bound", !.ino = dbFile.ino]
  /\ To("checking") /\ UNCHANGED <<dbFile, mirror, numbers>> /\ HistoryStays

CheckSchema ==
  /\ starter.step = "checking" /\ ~UnknownSchema
  /\ starter' = [starter EXCEPT !.step = "migrating", !.resuming = Resumes]
  /\ FilesStay /\ HistoryStays

Migrate ==
  /\ starter.step = "migrating" /\ dbFile.schema < Migrations(starter.image)
  /\ dbFile' = [dbFile EXCEPT !.schema = @ + 1]
  /\ UNCHANGED <<marker, mirror, starter, numbers>> /\ HistoryStays

IsFresh == ~starter.existed \/ starter.resuming

EndMigrations ==
  /\ starter.step = "migrating" /\ dbFile.schema >= Migrations(starter.image)
  /\ dbFile' = [dbFile EXCEPT !.mark = IF IsFresh THEN "pending" ELSE @]
  /\ To("reading") /\ UNCHANGED <<marker, mirror, numbers>> /\ HistoryStays

----------------------------------------------------------------------------
(* The constructor of StateDatabase, and load.                             *)

SnapshotIsMissing == dbFile.snap = NoState /\ dbFile.mark = "initialized"

ReadState ==
  /\ starter.step = "reading" /\ ~SnapshotIsMissing
  /\ dbFile' = [dbFile EXCEPT !.mark = IF dbFile.snap # NoState THEN "initialized" ELSE @]
  /\ To("clearing") /\ UNCHANGED <<marker, mirror, numbers>> /\ HistoryStays

ClearMarker ==
  /\ starter.step = "clearing"
  /\ marker' = NoMarker
  /\ To("loading") /\ UNCHANGED <<dbFile, mirror, numbers>> /\ HistoryStays

LoadSnapshot ==
  /\ starter.step = "loading" /\ dbFile.snap # NoState
  /\ starter' = [starter EXCEPT !.step = "serving", !.state = dbFile.snap]
  /\ FilesStay /\ HistoryStays

NothingToLoad == dbFile.snap = NoState /\ dbFile.mark # "pending" /\ mirror = NoState

(* The first snapshot.  When the mirror cannot be written after it, the    *)
(* start fails.                                                            *)
InitializeState ==
  /\ starter.step = "loading" /\ dbFile.snap = NoState /\ ~NothingToLoad
  /\ LET state == IF mirror = NoState THEN DefaultState ELSE mirror
     IN  /\ dbFile' = [dbFile EXCEPT !.snap = state, !.mark = "initialized"]
         /\ latest' = state
         /\ expected' = IF expected = NoState THEN state ELSE expected
         /\ \/ /\ starter' = [starter EXCEPT !.step = "serving", !.state = state]
               /\ mirror' = state
            \/ To("down") /\ UNCHANGED mirror
  /\ UNCHANGED <<marker, numbers, commits, damaged, databaseCrashes>>

Refuses ==
  \/ starter.step = "opening" /\ starter.existed /\ marker = NoMarker /\ IsBlank(dbFile)
  \/ starter.step = "binding" /\ MarkerMismatch
  \/ starter.step = "checking" /\ UnknownSchema
  \/ starter.step = "reading" /\ SnapshotIsMissing
  \/ starter.step = "loading" /\ NothingToLoad

RefuseStart ==
  /\ Refuses
  /\ To("refused") /\ FilesStay /\ HistoryStays

----------------------------------------------------------------------------
(* persistNow: the mirror may fail, or the process end before it.          *)
Commit ==
  /\ starter.step = "serving" /\ commits < MaxCommits
  /\ LET state == commits + 2
     IN  /\ starter' = [starter EXCEPT !.state = state]
         /\ dbFile' = [dbFile EXCEPT !.snap = state, !.mark = "initialized"]
         /\ mirror' \in {mirror, state}
         /\ latest' = state /\ expected' = state
  /\ commits' = commits + 1
  /\ UNCHANGED <<marker, numbers, damaged, databaseCrashes>>

DatabaseCrash ==
  /\ Running
  /\ databaseCrashes < MaxDatabaseCrashes
  /\ databaseCrashes' = databaseCrashes + 1
  /\ starter' = NotStarted(starter.image)
  /\ FilesStay /\ UNCHANGED <<commits, latest, expected, damaged>>

(* The file is emptied from outside, as when a volume is restored badly,   *)
(* or loses the row of the snapshot.                                       *)
Damage ==
  /\ ~Running /\ dbFile # NoFile /\ ~damaged
  /\ dbFile' \in {EmptyFile(dbFile.ino), [dbFile EXCEPT !.snap = NoState]}
  /\ damaged' = TRUE
  /\ UNCHANGED <<marker, mirror, starter, numbers, commits, latest, expected, databaseCrashes>>

DatabaseStep ==
  \/ OpenFile \/ BindFile \/ BindMarker \/ CheckSchema \/ Migrate \/ EndMigrations
  \/ ReadState \/ ClearMarker \/ LoadSnapshot \/ InitializeState \/ RefuseStart
  \/ Commit \/ DatabaseCrash

----------------------------------------------------------------------------
(* A marker that binds a file which is not the one that is there.          *)
MarkerIsStale ==
  marker # NoMarker /\ marker.phase = "bound" /\ (dbFile = NoFile \/ dbFile.ino # marker.ino)

(* A server that runs has the state that was written last, also when its   *)
(* file has been damaged in between or its first start was interrupted at  *)
(* any step, however often (store/sqlite.ts, verifyInterruptedFresh-       *)
(* Initialization, readState); and no start is refused unless somebody has *)
(* taken the file away or damaged it.                                      *)
StartsAreSound ==
  /\ starter.step = "serving" => starter.state = expected
  /\ starter.step = "refused" => damaged \/ MarkerIsStale
=============================================================================
