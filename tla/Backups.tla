------------------------------ MODULE Backups ------------------------------
(* Backup snapshots (createBackupSnapshot and its relatives in             *)
(* packages/dkrypt/src/store/state.ts): a directory per snapshot, and a    *)
(* row of the history, in memory and in the state database, that names it. *)
(*                                                                         *)
(* One operation runs at a time (all of it is synchronous); a write of the *)
(* state may fail, and the process or the power may be lost between any    *)
(* two of its steps.  What was not flushed may or may not survive a loss   *)
(* of power; the database is flushed with every commit.                    *)
EXTENDS Naturals, SequencesExt

CONSTANTS
  Snapshots,          \* ids
  RetentionCounts,    \* backupSchedule.retentionCount
  Torn,               \* a schedule with a field that is undefined
  Patches,            \* schedules that are posted: counts, or Torn
  NoSnapshot,
  MaxBackupFailures,  \* bound: writes that fail
  MaxOutages          \* bound: losses of the process or of power

ASSUME RetentionAssumption == RetentionCounts \subseteq Nat \ {0} /\ Torn \notin RetentionCounts
ASSUME PatchesAssumption   == Patches \subseteq RetentionCounts \cup {Torn}
ASSUME NoSnapshotAssumption == NoSnapshot \notin Snapshots
ASSUME BackupBoundsAssumption == {MaxBackupFailures, MaxOutages} \subseteq Nat

VARIABLES
  folder,     \* folder[s]: the directory of a snapshot, `staging' or published
  platter,    \* platter[s]: what is certain to be found after a loss of power
  sealed,     \* snapshots whose files have been flushed
  strays,     \* directories that were left because an operation failed
  history,    \* state.backupHistory, newest first
  schedule,   \* state.backupSchedule
  rowsKept,   \* both in the state database
  backup,     \* the operation under way
  backupFailures,
  outages

backupVars ==
  <<folder, platter, sealed, strays, history, schedule, rowsKept, backup, backupFailures, outages>>

Folders     == {"none", "staging", "published"}
BackupSteps == {"idle", "writing", "flushed", "moved", "safe", "trimming", "down"}

IdleBackup == [step |-> "idle", id |-> NoSnapshot, removed |-> <<>>]

BackupTypeOK ==
  /\ folder \in [Snapshots -> Folders]
  /\ platter \in [Snapshots -> Folders]
  /\ sealed \subseteq Snapshots /\ strays \subseteq Snapshots
  /\ history \in Seq(Snapshots)
  /\ schedule \in RetentionCounts \cup {Torn}
  /\ rowsKept.history \in Seq(Snapshots) /\ rowsKept.schedule \in RetentionCounts
  /\ backup.step \in BackupSteps /\ backup.id \in Snapshots \cup {NoSnapshot}
  /\ backup.removed \in Seq(Snapshots)
  /\ backupFailures \in 0..MaxBackupFailures
  /\ outages \in 0..MaxOutages

BackupInit ==
  /\ folder = [s \in Snapshots |-> "none"]
  /\ platter = folder
  /\ sealed = {}
  /\ strays = {}
  /\ history = <<>>
  /\ schedule \in RetentionCounts
  /\ rowsKept = [history |-> <<>>, schedule |-> schedule]
  /\ backup = IdleBackup
  /\ backupFailures = 0
  /\ outages = 0

Steady == UNCHANGED <<outages, strays>>

----------------------------------------------------------------------------
(* persistNow writes all of the state.  It throws when the transaction     *)
(* fails, and before it begins when the schedule is not whole.             *)
Persists(rows, plan) ==
  /\ plan # Torn
  /\ rowsKept' = [history |-> rows, schedule |-> plan]
  /\ UNCHANGED backupFailures

FailsToPersist(plan) ==
  /\ \/ plan = Torn /\ UNCHANGED backupFailures
     \/ backupFailures < MaxBackupFailures /\ backupFailures' = backupFailures + 1
  /\ UNCHANGED rowsKept

----------------------------------------------------------------------------
(* createBackupSnapshot.                                                   *)

(* The id is new.                                                          *)
BeginSnapshot(s) ==
  /\ backup = IdleBackup
  /\ folder[s] = "none" /\ platter[s] = "none" /\ ~Contains(history, s)
  /\ Persists(history, schedule)
  /\ folder' = [folder EXCEPT ![s] = "staging"]
  /\ backup' = [backup EXCEPT !.step = "writing", !.id = s]
  /\ Steady /\ UNCHANGED <<platter, sealed, history, schedule>>

(* JSON, database and manifest are flushed and verified.                   *)
WriteFiles ==
  /\ backup.step = "writing"
  /\ sealed' = sealed \cup {backup.id}
  /\ backup' = [backup EXCEPT !.step = "flushed"]
  /\ Steady /\ UNCHANGED <<folder, platter, history, schedule, rowsKept, backupFailures>>

PublishSnapshot ==
  /\ backup.step = "flushed"
  /\ folder' = [folder EXCEPT ![backup.id] = "published"]
  /\ backup' = [backup EXCEPT !.step = "moved"]
  /\ Steady /\ UNCHANGED <<platter, sealed, history, schedule, rowsKept, backupFailures>>

(* The directory of all snapshots is flushed.                              *)
FlushFolders ==
  /\ backup.step = "moved"
  /\ platter' = folder
  /\ backup' = [backup EXCEPT !.step = "safe"]
  /\ Steady /\ UNCHANGED <<folder, sealed, history, schedule, rowsKept, backupFailures>>

Discard(s) ==
  /\ folder' = [folder EXCEPT ![s] = "none"]
  /\ sealed' = sealed \ {s}

SnapshotFails ==
  /\ backup.step \in {"writing", "flushed", "moved"}
  /\ backupFailures < MaxBackupFailures
  /\ backupFailures' = backupFailures + 1
  /\ Discard(backup.id)
  /\ backup' = IdleBackup
  /\ Steady /\ UNCHANGED <<platter, history, schedule, rowsKept>>

(* The size is read outside of what would discard the snapshot.            *)
SizeReadFails ==
  /\ backup.step = "safe"
  /\ backupFailures < MaxBackupFailures
  /\ backupFailures' = backupFailures + 1
  /\ strays' = strays \cup {backup.id}
  /\ backup' = IdleBackup
  /\ UNCHANGED <<folder, platter, sealed, history, schedule, rowsKept, outages>>

(* Mutant: the row of the snapshot that goes is forgotten, its files stay. *)
KeepsFiles(rows, retention) == SubSeq(rows, retention + 1, Len(rows))

RemovedEntries(rows, retention) == SubSeq(rows, retention, Len(rows))

Newest(rows, retention) == SubSeq(rows, 1, IF Len(rows) < retention THEN Len(rows) ELSE retention)

ListSnapshot ==
  /\ backup.step = "safe"
  /\ LET rows == Newest(<<backup.id>> \o history, schedule)
     IN  \/ /\ Persists(rows, schedule)
            /\ history' = rows
            /\ backup' = [backup EXCEPT !.step = "trimming",
                                        !.removed = RemovedEntries(history, schedule)]
            /\ UNCHANGED <<folder, sealed>>
         \/ /\ FailsToPersist(schedule)
            /\ Discard(backup.id)
            /\ backup' = IdleBackup
            /\ UNCHANGED history
  /\ Steady /\ UNCHANGED <<platter, schedule>>

(* removeBackupSnapshotFiles                                               *)
RemoveFiles ==
  /\ backup.step = "trimming" /\ backup.removed # <<>>
  /\ Discard(Head(backup.removed))
  /\ backup' = [backup EXCEPT !.removed = Tail(@)]
  /\ Steady /\ UNCHANGED <<platter, history, schedule, rowsKept, backupFailures>>

(* The request fails, with the rest of what it was to remove.              *)
RemovalFails ==
  /\ backup.step = "trimming" /\ backup.removed # <<>>
  /\ backupFailures < MaxBackupFailures
  /\ backupFailures' = backupFailures + 1
  /\ sealed' = sealed \ {Head(backup.removed)}
  /\ strays' = strays \cup ToSet(backup.removed)
  /\ backup' = IdleBackup
  /\ UNCHANGED <<folder, platter, history, schedule, rowsKept, outages>>

(* The audit entry and, for a new snapshot, its restore drill write the    *)
(* state once more; if they cannot, the request fails after all.           *)
EndOperation ==
  /\ backup.step = "trimming" /\ backup.removed = <<>>
  /\ Persists(history, schedule) \/ FailsToPersist(schedule)
  /\ backup' = IdleBackup
  /\ Steady /\ UNCHANGED <<folder, platter, sealed, history, schedule>>

----------------------------------------------------------------------------
(* Other operations.                                                       *)

Without(rows, s) ==
  LET left[n \in 0..Len(rows)] ==
        IF n = 0 THEN <<>>
        ELSE IF rows[n] = s THEN left[n - 1] ELSE Append(left[n - 1], rows[n])
  IN  left[Len(rows)]

DeleteSnapshot(s) ==
  /\ backup = IdleBackup
  /\ Contains(history, s)
  /\ LET rows == Without(history, s)
     IN  \/ /\ Persists(rows, schedule)
            /\ history' = rows
            /\ backup' = [backup EXCEPT !.step = "trimming", !.removed = <<s>>]
         \/ /\ FailsToPersist(schedule)
            /\ UNCHANGED <<history, backup>>
  /\ Steady /\ UNCHANGED <<folder, platter, sealed, schedule>>

(* Memory is not restored when the write fails.                            *)
SetSchedule(r) ==
  /\ backup = IdleBackup
  /\ schedule' = r
  /\ Persists(history, r) \/ FailsToPersist(r)
  /\ Steady /\ UNCHANGED <<folder, platter, sealed, history, backup>>

(* drillBackupSnapshot, and every other operation that writes the state.   *)
WriteAllState ==
  /\ backup = IdleBackup
  /\ Persists(history, schedule)
  /\ Steady /\ UNCHANGED <<folder, platter, sealed, history, schedule, backup>>

----------------------------------------------------------------------------
(* Outages.                                                                *)

Halts ==
  /\ outages < MaxOutages
  /\ outages' = outages + 1
  /\ backup' = [IdleBackup EXCEPT !.step = "down"]
  /\ UNCHANGED <<sealed, strays, history, schedule, rowsKept, backupFailures>>

ProcessIsLost == backup.step # "down" /\ Halts /\ UNCHANGED <<folder, platter>>

PowerIsLost ==
  /\ Halts
  /\ folder' \in [Snapshots -> Folders]
  /\ \A s \in Snapshots : folder'[s] \in {folder[s], platter[s]}
  /\ platter' = folder'

(* Directories nothing refers to are removed at the start.                 *)
Referenced(rows) == {s \in Snapshots : folder[s] = "published" /\ Contains(rows, s)}

StartAgain ==
  /\ backup.step = "down"
  /\ history' = rowsKept.history
  /\ schedule' = rowsKept.schedule
  /\ LET stay == Referenced(rowsKept.history)
     IN  /\ folder' = [s \in Snapshots |-> IF s \in stay THEN folder[s] ELSE "none"]
         /\ sealed' = sealed \cap stay
  /\ strays' = {}
  /\ backup' = IdleBackup
  /\ UNCHANGED <<platter, rowsKept, backupFailures, outages>>

----------------------------------------------------------------------------
BackupNext ==
  \/ \E s \in Snapshots : BeginSnapshot(s) \/ DeleteSnapshot(s)
  \/ WriteFiles \/ PublishSnapshot \/ FlushFolders \/ SnapshotFails
  \/ SizeReadFails \/ ListSnapshot \/ RemoveFiles \/ RemovalFails \/ EndOperation
  \/ \E r \in Patches : SetSchedule(r)
  \/ WriteAllState
  \/ ProcessIsLost \/ PowerIsLost \/ StartAgain

BackupSpec == BackupInit /\ [][BackupNext]_backupVars

----------------------------------------------------------------------------
(* A row of the history on disk names a snapshot that is whole, and that   *)
(* a loss of power at this moment would leave whole; while no operation    *)
(* runs, the snapshots, their rows in memory and their rows on disk are    *)
(* the same (store/state.ts: a row is written after its directory and goes *)
(* before it), but for the directories without a row that a failed removal *)
(* or size read has left, which go at the next start.                      *)
BackupsAreSound ==
  /\ \A s \in ToSet(rowsKept.history) :
        folder[s] = "published" /\ platter[s] = "published" /\ s \in sealed
  /\ backup = IdleBackup =>
        /\ history = rowsKept.history
        /\ ToSet(history) = {s \in Snapshots : folder[s] # "none"} \ strays
=============================================================================
