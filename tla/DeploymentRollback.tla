------------------------ MODULE DeploymentRollback ------------------------
(* A deployment and its undoing (.github/workflows/deploy.yml with         *)
(* packages/dkrypt/src/deploymentDatabase.ts): the server is stopped, its  *)
(* database copied, the candidate image started; when it does not become   *)
(* healthy, the database is put back and the previous image started.       *)
(*                                                                         *)
(* Each command runs in a container of its own while the server is         *)
(* stopped, and may be killed between any two changes of the file system;  *)
(* restore may be given again.  A database and its -wal and -journal are   *)
(* one file here.                                                          *)
EXTENDS StateDatabase

CONSTANTS
  MaxRestoreFailures,   \* bound
  MaxRestoreCrashes     \* bound

VARIABLES
  deployment,  \* what the workflow has come to
  manifest,    \* rollback-<id>.json: "none", "absent" (no database), or "present"
  copied,      \* rollback-<id>.sqlite
  failed,      \* failed-<id>.sqlite
  before,      \* history: what the database contained when it was copied
  restoreFailures,
  restoreCrashes

deploymentVars ==
  <<databaseVars, deployment, manifest, copied, failed, before, restoreFailures, restoreCrashes>>

Deployments ==
  {"none", "stopped", "copied", "prepared", "completing", "completed",
   "restoring", "preserved", "removed", "clearing", "cleared", "restored",
   "interrupted", "failed"}

(* What verifyDatabaseForMigration reports of a file.                      *)
Contents(f) == [schema |-> f.schema, snap |-> f.snap]

Copies == [schema : Nat, snap : States \cup {NoState}]

ASSUME NoCopyAssumption        == NoFile \notin Copies
ASSUME RestoreBoundsAssumption == {MaxRestoreFailures, MaxRestoreCrashes} \subseteq Nat

DeploymentTypeOK ==
  /\ deployment \in Deployments
  /\ manifest \in {"none", "absent", "present"}
  /\ {copied, failed, before} \subseteq Copies \cup {NoFile}
  /\ restoreFailures \in 0..MaxRestoreFailures
  /\ restoreCrashes \in 0..MaxRestoreCrashes

DeploymentInit ==
  /\ DatabaseInit /\ starter.image = previous
  /\ deployment = "none" /\ manifest = "none"
  /\ copied = NoFile /\ failed = NoFile /\ before = NoFile
  /\ restoreFailures = 0 /\ restoreCrashes = 0

IsVerified(f) == f # NoFile /\ f.schema > 0 /\ f.snap # NoState

BoundsStay    == UNCHANGED <<restoreFailures, restoreCrashes>>
CopiesStay    == UNCHANGED <<copied, failed, before>>
DatabaseStays == UNCHANGED databaseVars
OnlyFile      == UNCHANGED <<marker, mirror, starter, commits, latest, damaged, databaseCrashes>>

----------------------------------------------------------------------------
(* The server, under the image the workflow has started.                   *)

Image ==
  IF deployment \in {"prepared", "completing", "completed"} THEN candidate ELSE previous

MayServe == deployment \in {"none", "prepared", "completing", "completed", "restored"}

ServerMoves ==
  /\ MayServe
  /\ BeginStart(Image) \/ DatabaseStep \/ Damage
  /\ BoundsStay /\ CopiesStay /\ UNCHANGED <<deployment, manifest>>

----------------------------------------------------------------------------
(* The steps up to the start of the candidate, and after it was found      *)
(* well.                                                                   *)

(* deploymentPreflight.ts lets pass a database that is not there, or whole.*)
StopForDeployment ==
  /\ deployment = "none"
  /\ dbFile = NoFile \/ IsVerified(dbFile)
  /\ deployment' = "stopped"
  /\ starter' = NotStarted(previous)
  /\ FilesStay /\ HistoryStays /\ BoundsStay /\ CopiesStay /\ UNCHANGED manifest

(* prepareDeploymentRollback                                               *)
CopyDatabase ==
  /\ deployment = "stopped" /\ IsVerified(dbFile)
  /\ copied' = Contents(dbFile) /\ before' = Contents(dbFile)
  /\ deployment' = "copied"
  /\ DatabaseStays /\ BoundsStay /\ UNCHANGED <<manifest, failed>>

WriteManifest ==
  /\ \/ deployment = "copied" /\ manifest' = "present"
     \/ deployment = "stopped" /\ dbFile = NoFile /\ manifest' = "absent"
  /\ deployment' = "prepared"
  /\ DatabaseStays /\ BoundsStay /\ CopiesStay

(* It fails, or is killed: nothing was prepared, and the previous image is *)
(* started again.                                                          *)
GiveUpPreparing ==
  /\ deployment \in {"stopped", "copied"}
  /\ deployment' = "restored"
  /\ DatabaseStays /\ BoundsStay /\ CopiesStay /\ UNCHANGED manifest

(* completeDeploymentRollback                                              *)
Complete ==
  /\ deployment = "prepared" /\ starter.step = "serving"
  /\ manifest' = "none"
  /\ deployment' = "completing"
  /\ DatabaseStays /\ BoundsStay /\ CopiesStay

RemoveCopy ==
  /\ deployment = "completing"
  /\ copied' = NoFile
  /\ deployment' = "completed"
  /\ DatabaseStays /\ BoundsStay /\ UNCHANGED <<manifest, failed, before>>

----------------------------------------------------------------------------
(* restoreDeploymentRollback.                                              *)

BeginRestore ==
  /\ \/ deployment = "prepared"
     \/ deployment \in {"interrupted", "failed"} /\ manifest # "none"
  /\ deployment' = "restoring"
  /\ starter' = NotStarted(previous)
  /\ FilesStay /\ HistoryStays /\ BoundsStay /\ CopiesStay /\ UNCHANGED manifest

(* currentMatchesSnapshot                                                  *)
FileMatches == manifest = "present" /\ IsVerified(dbFile) /\ Contents(dbFile) = copied

NothingToRestore ==
  /\ deployment = "restoring" /\ FileMatches
  /\ deployment' = "clearing"
  /\ DatabaseStays /\ BoundsStay /\ CopiesStay /\ UNCHANGED manifest

(* preserveCandidateDatabase; a copy of an unfinished database is a copy   *)
(* of its files.                                                           *)
Preserve ==
  /\ deployment = "restoring" /\ ~FileMatches /\ failed = NoFile
  /\ failed' = IF dbFile = NoFile THEN NoFile ELSE Contents(dbFile)
  /\ deployment' = "preserved"
  /\ DatabaseStays /\ BoundsStay /\ UNCHANGED <<manifest, copied, before>>

RemoveCandidate ==
  /\ deployment = "preserved"
  /\ dbFile' = NoFile
  /\ deployment' = "removed"
  /\ OnlyFile /\ BoundsStay /\ CopiesStay /\ UNCHANGED <<numbers, expected, manifest>>

Placed(c) ==
  /\ dbFile' = [EmptyFile(numbers + 1) EXCEPT !.schema = c.schema, !.snap = c.snap,
                                              !.mark = IF c.snap = NoState THEN "none" ELSE "initialized"]
  /\ numbers' = numbers + 1

(* copyVerifiedSnapshot, and its verification                              *)
PutBack ==
  /\ deployment = "removed"
  /\ IF manifest = "present"
     THEN Placed(copied) /\ expected' = copied.snap
     ELSE expected' = NoState /\ UNCHANGED <<dbFile, numbers>>
  /\ deployment' = "clearing"
  /\ OnlyFile /\ BoundsStay /\ CopiesStay /\ UNCHANGED manifest

(* restoreCandidateFiles                                                   *)
BringCandidateBack ==
  IF dbFile = NoFile /\ failed # NoFile THEN Placed(failed) ELSE UNCHANGED <<dbFile, numbers>>

(* An earlier restore has already kept the candidate's database.           *)
PreserveRefused ==
  /\ deployment = "restoring" /\ ~FileMatches /\ failed # NoFile
  /\ BringCandidateBack
  /\ deployment' = "failed"
  /\ OnlyFile /\ BoundsStay /\ CopiesStay /\ UNCHANGED <<expected, manifest>>

PutBackFails ==
  /\ deployment = "removed" /\ manifest = "present"
  /\ restoreFailures < MaxRestoreFailures
  /\ restoreFailures' = restoreFailures + 1
  /\ BringCandidateBack
  /\ deployment' = "failed"
  /\ OnlyFile /\ CopiesStay /\ UNCHANGED <<expected, manifest, restoreCrashes>>

(* clearRollbackArtifacts                                                  *)
ClearManifest ==
  /\ deployment = "clearing"
  /\ manifest' = "none"
  /\ deployment' = "cleared"
  /\ DatabaseStays /\ BoundsStay /\ CopiesStay

ClearCopy ==
  /\ deployment = "cleared"
  /\ copied' = NoFile
  /\ deployment' = "restored"
  /\ DatabaseStays /\ BoundsStay /\ UNCHANGED <<manifest, failed, before>>

RestoreCrash ==
  /\ deployment \in {"restoring", "preserved", "removed", "clearing", "cleared"}
  /\ restoreCrashes < MaxRestoreCrashes
  /\ restoreCrashes' = restoreCrashes + 1
  /\ deployment' = "interrupted"
  /\ DatabaseStays /\ CopiesStay /\ UNCHANGED <<manifest, restoreFailures>>

DeploymentNext ==
  \/ ServerMoves
  \/ StopForDeployment \/ CopyDatabase \/ WriteManifest \/ GiveUpPreparing \/ Complete \/ RemoveCopy
  \/ BeginRestore \/ NothingToRestore \/ Preserve \/ RemoveCandidate \/ PutBack
  \/ PreserveRefused \/ PutBackFails \/ ClearManifest \/ ClearCopy \/ RestoreCrash

DeploymentSpec == DeploymentInit /\ [][DeploymentNext]_deploymentVars

----------------------------------------------------------------------------
IsIn(state, f) == f # NoFile /\ f.snap = state

(* Until the deployment is completed the state before it is on disk; the   *)
(* state written last is always in the database or in the file that keeps  *)
(* the candidate's; and a restore that ends well has put back what was     *)
(* there before (deploymentDatabase.ts), whatever is killed or fails.      *)
RollbackIsSound ==
  ~damaged =>
    /\ latest = NoState \/ IsIn(latest, dbFile) \/ IsIn(latest, failed)
    /\ manifest = "present" => copied = before
    /\ deployment \in {"clearing", "cleared"} =>
         IF before = NoFile THEN dbFile = NoFile
         ELSE dbFile # NoFile /\ Contents(dbFile) = before

(* What is written is on disk, and found, through starts, crashes,         *)
(* deployments and their undoing.                                          *)
DatabaseSurvives == StartsAreSound /\ RollbackIsSound

(* A deployment that has been undone leaves a server that starts (the test *)
(* `returns a failed first-start database to the pre-deploy empty state',  *)
(* deploymentDatabase.test.ts).                                            *)
PreviousStarts == ~damaged => starter.step # "refused"

(* A restore that was interrupted can be given again.                      *)
RestoreCanBeRepeated == deployment = "failed" => restoreFailures > 0
=============================================================================
