------------------------------ MODULE JobStore ------------------------------
(***************************************************************************)
(* The job store (packages/dkrypt/src/jobs/store.ts): one process holds    *)
(* the jobs, the queue and the deadline timers in memory, starts queued    *)
(* jobs on devices and on server-side App Store workers, and mirrors what  *)
(* must survive it in three places that are written one after the other:   *)
(* the job rows, the decrypt quota ledger and the job history.             *)
(*                                                                         *)
(* `mem' is the process's memory and is lost in a crash; `disk' survives.  *)
(* Handlers of the event loop are atomic: code between two awaits is one   *)
(* action.  A handler that ends by calling pumpWorkers() is one action     *)
(* with the pump's effect included (operator PumpWorkers).                 *)
(*                                                                         *)
(* Time: `due' holds the active jobs whose deadlineAt has passed.          *)
(***************************************************************************)
EXTENDS Naturals, FiniteSets, SequencesExt

CONSTANTS
  Jobs,            \* job ids: one per request that may create a job
  Devices,         \* device ids
  Builds,          \* (project, bundle, version or TestFlight build) identities
  Build,           \* Build[j]: the build job j decrypts
  Owners, Owner,   \* Owner[j]: who queued job j
  Priority,        \* Priority[j]
  SchedulerJobs,   \* jobs with source 'scheduler'
  AppStoreJobs,    \* jobs without a TestFlight source
  BilledJobs,      \* jobs admitted to the decrypt quota ledger
  PinOf,           \* PinOf[j]: preferredDeviceId or NoDevice
  Fits,            \* Fits[j]: devices whose iOS and TestFlight access suit job j
  OfflineEnabled,  \* offlineAppStoreProcessor.readiness(job).enabled
  OfflineWorkers,  \* config.appStoreOfflineMaxWorkers
  UserCap,         \* config.userConcurrencyCap, 0 for none
  MaxRetries,      \* config.jobMaxRetries
  MaxRestarts,     \* bound on crashes and shutdowns
  MaxChanges       \* bound on device and readiness changes from outside

NoDevice == "no device"
Offline  == "appstore_offline"
Workers  == Devices \cup {Offline}
NoWorker == "no worker"

ASSUME IdsAssumption ==
  /\ IsFiniteSet(Jobs)
  /\ IsFiniteSet(Devices)
  /\ Devices \cap {NoDevice, Offline, NoWorker} = {}
ASSUME AttributesAssumption ==
  /\ Build \in [Jobs -> Builds]
  /\ Owner \in [Jobs -> Owners]
  /\ Priority \in [Jobs -> Nat]
  /\ SchedulerJobs \subseteq Jobs
  /\ AppStoreJobs \subseteq Jobs
  /\ BilledJobs \subseteq Jobs
  /\ PinOf \in [Jobs -> Devices \cup {NoDevice}]
  /\ Fits \in [Jobs -> SUBSET Devices]
ASSUME LimitsAssumption ==
  /\ OfflineEnabled \in BOOLEAN
  /\ {OfflineWorkers, UserCap, MaxRetries, MaxRestarts, MaxChanges} \subseteq Nat

VARIABLES
  mem,          \* the process: see Memory
  disk,         \* what survives it: see Disk
  due,          \* active jobs whose deadline has passed
  healthy,      \* devices the health cache does not block
  offlineReady, \* offlineAppStoreProcessor.readiness(job).ready
  expiredTwins, \* history: jobs whose detached copy was expired by its timer
  restarts,     \* crashes and shutdowns so far
  changes       \* outside changes so far

vars == <<mem, disk, due, healthy, offlineReady, expiredTwins, restarts, changes>>

(* 'absent': not created yet.  'cached': created 'done' from the artifact  *)
(* cache.  'gone': removed by the retention sweep, or dropped at startup.  *)
Active   == {"queued", "running"}
Settled  == {"done", "cached", "failed"}
Statuses == Active \cup Settled \cup {"absent", "gone"}

JobRecord ==
  [status: Statuses,
   cancelled: BOOLEAN,   \* cancelledBy is set
   late: BOOLEAN,        \* deadlineExceeded
   scheduled: BOOLEAN,   \* schedulerDeadlineAt is set
   tried: BOOLEAN,       \* offlineAttemptedAt is set
   recovery: BOOLEAN,    \* shutdownRecoveryPending
   retries: 0..MaxRetries,
   pin: Devices \cup {NoDevice}]

Stages == {"none", "work", "publish", "cleanup", "backoff"}

Memory ==
  [phase: {"up", "draining", "aborting", "down"},
   job: [Jobs -> JobRecord],
   queue: Seq(Jobs),
   timer: [Jobs -> {"off", "live", "copy"}],        \* queuedDeadlineTimers
   run: [Jobs -> [stage: Stages, worker: Workers \cup {NoWorker}]],
   unwinding: SUBSET (Jobs \X Workers),             \* returned, finally pending
   tracked: SUBSET Jobs,                            \* keys of runningJobs
   awaited: SUBSET Jobs]                            \* runs shutdownJobs waits for

Disk ==
  [job: [Jobs -> JobRecord],
   ledger: [Jobs -> {"none", "reserved", "consumed"}],
   history: [Jobs -> {"none", "done", "failed"}],
   artifacts: SUBSET Builds,
   device: [Devices -> {"ready", "draining", "disabled"}]]

TypeOK ==
  /\ mem \in Memory
  /\ disk \in Disk
  /\ due \subseteq Jobs
  /\ healthy \subseteq Devices
  /\ offlineReady \in BOOLEAN
  /\ expiredTwins \subseteq Jobs
  /\ restarts \in 0..MaxRestarts
  /\ changes \in 0..MaxChanges

Absent ==
  [status |-> "absent", cancelled |-> FALSE, late |-> FALSE, scheduled |-> FALSE,
   tried |-> FALSE, recovery |-> FALSE, retries |-> 0, pin |-> NoDevice]
Gone == [Absent EXCEPT !.status = "gone"]
NoRun == [stage |-> "none", worker |-> NoWorker]

(* The memory of a process that does not run. *)
Stopped ==
  [phase |-> "down", job |-> [j \in Jobs |-> Absent], queue |-> <<>>,
   timer |-> [j \in Jobs |-> "off"], run |-> [j \in Jobs |-> NoRun],
   unwinding |-> {}, tracked |-> {}, awaited |-> {}]

Init ==
  /\ mem = [Stopped EXCEPT !.phase = "up"]
  /\ disk = [job |-> [j \in Jobs |-> Absent], ledger |-> [j \in Jobs |-> "none"],
             history |-> [j \in Jobs |-> "none"], artifacts |-> {},
             device |-> [d \in Devices |-> "ready"]]
  /\ due = {}
  /\ healthy = Devices
  /\ offlineReady \in {FALSE, OfflineEnabled}
  /\ expiredTwins = {}
  /\ restarts = 0
  /\ changes = 0

----------------------------------------------------------------------------
(* Durable writes.  Each is one transaction.                               *)

(* persistActiveJobs, persistDoneJobs: every row is replaced by memory's.  *)
PersistJobs(s, m) == [s EXCEPT !.job = m.job]

RecordJobHistory(s, X, outcome) ==
  [s EXCEPT !.history = [j \in Jobs |-> IF j \in X THEN outcome ELSE @[j]]]

SettleDecryptQuota(s, X, success) ==
  [s EXCEPT !.ledger = [j \in Jobs |->
     IF j \in X /\ @[j] = "reserved" THEN IF success THEN "consumed" ELSE "none"
     ELSE @[j]]]

(* The three writes that settle the jobs X, or those of them in `made'.    *)
WriteSettlement(s, m, X, success, made) ==
  LET s1 == IF "jobs" \in made THEN PersistJobs(s, m) ELSE s
      s2 == IF "ledger" \in made THEN SettleDecryptQuota(s1, X, success) ELSE s1
  IN IF "history" \in made
     THEN RecordJobHistory(s2, X, IF success THEN "done" ELSE "failed") ELSE s2

AllWrites == {"jobs", "ledger", "history"}

(* What has been written when the process dies between two of the writes.  *)
TornPrefixes(order) == {Range(SubSeq(order, 1, n)) : n \in 1..2}
ExpiryOrder == <<"history", "jobs", "ledger">>
CancelOrder == <<"jobs", "history", "ledger">>
FinishOrder == <<"jobs", "ledger", "history">>

----------------------------------------------------------------------------
(* Memory operations.                                                      *)

Patch(m, X, F(_)) ==
  [m EXCEPT !.job = [j \in Jobs |-> IF j \in X THEN F(@[j]) ELSE @[j]]]

SetTimer(m, X, value) ==
  [m EXCEPT !.timer = [j \in Jobs |-> IF j \in X THEN value ELSE @[j]]]

(* The jobs of q that are not in X, in their order.                        *)
Without(q, X) ==
  LET left[n \in 0..Len(q)] ==
        IF n = 0 THEN <<>> ELSE IF q[n] \in X THEN left[n-1] ELSE Append(left[n-1], q[n])
  IN left[Len(q)]

Dequeue(m, X) == [m EXCEPT !.queue = Without(@, X)]

InsertByPriority(m, j) ==
  LET lower == {i \in DOMAIN m.queue : Priority[m.queue[i]] < Priority[j]}
      at    == IF lower = {} THEN Len(m.queue) + 1 ELSE Min(lower)
  IN [m EXCEPT !.queue = InsertAt(@, at, j)]

(* Scheduled jobs go to the front, the others behind their priority.       *)
Requeue(m, j) ==
  IF j \in SchedulerJobs THEN [m EXCEPT !.queue = <<j>> \o @] ELSE InsertByPriority(m, j)

WithStatus(m, j, status) == [m EXCEPT !.job[j].status = status]

StatusOf(m, j) == m.job[j].status

RunningFor(m, o) == {j \in Jobs : StatusOf(m, j) = "running" /\ Owner[j] = o}

(* A worker is busy from startJobWorker to the end of run.finally.         *)
BusyWorkers(m) ==
  {<<j, m.run[j].worker>> : j \in {k \in Jobs : m.run[k].stage # "none"}} \cup m.unwinding
BusyDevices(m) == {p[2] : p \in BusyWorkers(m)} \ {Offline}
BusyOffline(m) == {p[1] : p \in {q \in BusyWorkers(m) : q[2] = Offline}}

(* failExpiredQueuedJob for every job of X: out of the queue, failed.      *)
Expired(m, X) ==
  Patch(SetTimer(Dequeue(m, X), X, "off"), X,
        LAMBDA r : [r EXCEPT !.status = "failed", !.late = TRUE])

(* startJobWorker and the first, synchronous part of runOneJob for every   *)
(* job of DOMAIN a, on worker a[j].                                        *)
Begun(m, a) ==
  LET m1 == Patch(SetTimer(Dequeue(m, DOMAIN a), DOMAIN a, "off"), DOMAIN a,
                  LAMBDA r : [r EXCEPT !.status = "running"])
  IN [m1 EXCEPT
        !.job = [j \in Jobs |-> IF j \in DOMAIN a /\ a[j] = Offline
                                THEN [@[j] EXCEPT !.tried = TRUE] ELSE @[j]],
        !.run = [j \in Jobs |-> IF j \in DOMAIN a
                                THEN [stage |-> "work", worker |-> a[j]] ELSE @[j]],
        !.tracked = @ \cup DOMAIN a]

(* runOneJob returned: the promise is settled, run.finally is pending.     *)
Returned(m, j) ==
  [m EXCEPT !.run[j] = NoRun, !.unwinding = @ \cup {<<j, m.run[j].worker>>}]

----------------------------------------------------------------------------
(* Dispatch.                                                               *)

(* getJobConcurrencyBlocker is absent, `others' having just been started.  *)
UnderCap(m, j, others) ==
  \/ UserCap = 0
  \/ Cardinality(RunningFor(m, Owner[j]) \cup {k \in others : Owner[k] = Owner[j]}) < UserCap

RequiresServerSideAttempt(m, j) ==
  j \in AppStoreJobs /\ ~m.job[j].tried /\ offlineReady'

(* isJobDispatchable and the filters of pumpWorkers on the device itself.  *)
Dispatchable(m, j, d) ==
  /\ ~RequiresServerSideAttempt(m, j)
  /\ m.job[j].pin \in {NoDevice, d}
  /\ d \in Fits[j]
  /\ d \in healthy'

(* Mutant: a device is free before its last run has unwound.              *)
FreeOnReturn(m, s) ==
  {d \in Devices : s.device[d] = "ready"}
    \ {m.run[j].worker : j \in {k \in Jobs : m.run[k].stage # "none"}}

FreeDevices(m, s) == {d \in Devices : s.device[d] = "ready"} \ BusyDevices(m)

(* takeNextOfflineJobId until the slots or the jobs run out: a job is      *)
(* taken unless a slot or its owner's cap was used up by jobs ahead of it. *)
TakesOffline(m, a) ==
  \A i \in DOMAIN m.queue :
    LET ahead == {m.queue[k] : k \in 1..(i-1)} \cap {j \in DOMAIN a : a[j] = Offline}
    IN (m.queue[i] \in DOMAIN a /\ a[m.queue[i]] = Offline)
         <=> /\ RequiresServerSideAttempt(m, m.queue[i])
             /\ Cardinality(BusyOffline(m)) + Cardinality(ahead) < OfflineWorkers
             /\ UnderCap(m, m.queue[i], ahead)

(* The devices in the order of deviceScore, each given the first job it    *)
(* can run among those that are left (takeNextDispatchableJobId).          *)
TakesDevices(m, s, a, rank) ==
  \A d \in Devices :
    LET taken == {j \in DOMAIN a : a[j] = Offline \/ rank[a[j]] < rank[d]}
        able  == {i \in DOMAIN m.queue : /\ m.queue[i] \notin taken
                                         /\ Dispatchable(m, m.queue[i], d)
                                         /\ UnderCap(m, m.queue[i], taken)}
    IN {j \in DOMAIN a : a[j] = d} =
         IF d \in FreeDevices(m, s) /\ able # {} THEN {m.queue[Min(able)]} ELSE {}

(* Scores depend on battery, storage and temperature: any order is possible. *)
Rankings == {r \in [Devices -> 1..Cardinality(Devices)] : IsInjective(r)}

Assignments(m) ==
  UNION {[X -> Workers] : X \in SUBSET Range(m.queue)}

(* pumpWorkers() at the end of a handler that has reached memory m and     *)
(* disk s, `overdue' being the jobs past their deadline: idle draining     *)
(* devices are disabled, overdue queued jobs failed and, while jobs are    *)
(* accepted, queued jobs are started.  Every start is persisted; when      *)
(* nothing happens the rows are still written if some queue reason changed *)
(* (captureQueuedBlockers).                                                *)
PumpWorkers(m, s, overdue) ==
  LET X  == {j \in Range(m.queue) : j \in overdue /\ StatusOf(m, j) = "queued"}
      m1 == Expired(m, X)
      s1 == [s EXCEPT !.device = [d \in Devices |->
               IF @[d] = "draining" /\ d \notin BusyDevices(m) THEN "disabled" ELSE @[d]]]
      s2 == IF X = {} THEN s1 ELSE WriteSettlement(s1, m1, X, FALSE, AllWrites)
  IN /\ due' = overdue \ X
     /\ \E a \in Assignments(m1), rank \in Rankings :
          /\ IF m.phase = "up"
             THEN TakesOffline(m1, a) /\ TakesDevices(m1, s1, a, rank)
             ELSE DOMAIN a = {}
          /\ mem' = Begun(m1, a)
          /\ \E written \in BOOLEAN :
               /\ DOMAIN a # {} => written
               /\ disk' = IF written THEN PersistJobs(s2, mem') ELSE s2

----------------------------------------------------------------------------
(* Requests.                                                               *)

Up == mem.phase = "up"
Running == mem.phase # "down"

SameBuild(j, k) == Build[j] = Build[k]

(* findActiveJobForBundle *)
ActiveFor(m, j) == {k \in Jobs : SameBuild(j, k) /\ StatusOf(m, k) \in Active}

NewJob(j) ==
  [Absent EXCEPT !.status = "queued", !.scheduled = (j \in SchedulerJobs), !.pin = PinOf[j]]

(* enqueueDecryptJob without an active job or an artifact for the build.   *)
Enqueue(j) ==
  LET m1 == Requeue([mem EXCEPT !.job[j] = NewJob(j)], j)
      m2 == SetTimer(m1, {j}, "live")
      s1 == [disk EXCEPT !.ledger[j] = IF j \in BilledJobs THEN "reserved" ELSE @]
  IN /\ Up
     /\ StatusOf(mem, j) = "absent"
     /\ ActiveFor(mem, j) = {}
     /\ Build[j] \notin disk.artifacts
     /\ UNCHANGED <<healthy, offlineReady, expiredTwins, restarts, changes>>
     /\ PumpWorkers(m2, PersistJobs(s1, m2), due)

(* extendJobDeadlineForScheduler, at most once per job and never when the  *)
(* deadline has already stopped the run.                                   *)
Extends(m, k) == ~m.job[k].late /\ ~m.job[k].scheduled

(* Mutant: the old timer is cleared and none is armed. *)
WithClearedDeadline(m, k) == SetTimer([m EXCEPT !.job[k].scheduled = TRUE], {k}, "off")

WithExtendedDeadline(m, k) ==
  LET m1 == [m EXCEPT !.job[k].scheduled = TRUE]
  IN IF StatusOf(m, k) = "queued" THEN SetTimer(m1, {k}, "live") ELSE m1

(* enqueueDecryptJob finds the active job k of the same build.             *)
EnqueueDuplicate(j, k) ==
  LET extended == j \in SchedulerJobs /\ Extends(mem, k)
      m1 == IF extended THEN WithExtendedDeadline(mem, k) ELSE mem
      s1 == IF extended THEN PersistJobs(disk, m1) ELSE disk
      overdue == IF extended THEN due \ {k} ELSE due
  IN /\ Up
     /\ StatusOf(mem, j) = "absent"
     /\ k \in ActiveFor(mem, j)
     /\ UNCHANGED <<healthy, offlineReady, expiredTwins, restarts, changes>>
     /\ IF StatusOf(mem, k) = "queued" THEN PumpWorkers(m1, s1, overdue)
        ELSE mem' = m1 /\ disk' = s1 /\ due' = overdue

(* createCachedJob *)
EnqueueCached(j) ==
  LET m1 == [mem EXCEPT !.job[j] = [Absent EXCEPT !.status = "cached"]] IN
  /\ Up
  /\ StatusOf(mem, j) = "absent"
  /\ ActiveFor(mem, j) = {}
  /\ Build[j] \in disk.artifacts
  /\ mem' = m1
  /\ disk' = RecordJobHistory(PersistJobs(disk, m1), {j}, "done")
  /\ UNCHANGED <<due, healthy, offlineReady, expiredTwins, restarts, changes>>

(* Mutant: the job id stays in the queue. *)
CancelledInPlace(m, j) == WithStatus(SetTimer(m, {j}, "off"), j, "failed")

(* cancelQueuedJob *)
CancelledInQueue(m, j) == WithStatus(SetTimer(Dequeue(m, {j}), {j}, "off"), j, "failed")

CancelQueued(j) ==
  LET m1 == CancelledInQueue(mem, j) IN
  /\ Running
  /\ StatusOf(mem, j) = "queued"
  /\ mem' = m1
  /\ disk' = WriteSettlement(disk, m1, {j}, FALSE, AllWrites)
  /\ due' = due \ {j}
  /\ UNCHANGED <<healthy, offlineReady, expiredTwins, restarts, changes>>

(* cancelRunningJob: the flag is set and the run aborted, nothing settles. *)
CancelRunning(j) ==
  LET m1 == [mem EXCEPT !.job[j].cancelled = TRUE] IN
  /\ Running
  /\ StatusOf(mem, j) = "running"
  /\ ~mem.job[j].cancelled
  /\ mem' = m1
  /\ disk' = PersistJobs(disk, m1)
  /\ UNCHANGED <<due, healthy, offlineReady, expiredTwins, restarts, changes>>

(* reorderQueue; prioritizeQueuedJob is the case of a single job in front. *)
ReorderQueue(front) ==
  /\ Up
  /\ IsInjective(front)
  /\ mem' = [mem EXCEPT !.queue = front \o Without(@, Range(front))]
  /\ UNCHANGED <<disk, due, healthy, offlineReady, expiredTwins, restarts, changes>>

(* releasePinnedJobsForDevice: the released pins are not persisted here.   *)
ReleasePinned(d) ==
  LET X == {j \in Range(mem.queue) : mem.job[j].pin = d /\ j \in AppStoreJobs} IN
  /\ Running
  /\ X # {}
  /\ UNCHANGED <<healthy, offlineReady, expiredTwins, restarts, changes>>
  /\ PumpWorkers(Patch(mem, X, LAMBDA r : [r EXCEPT !.pin = NoDevice]), disk, due)

----------------------------------------------------------------------------
(* What goes on outside: devices, their health, server-side readiness.     *)

OutsideChange ==
  /\ Running
  /\ changes < MaxChanges
  /\ changes' = changes + 1
  /\ UNCHANGED <<expiredTwins, restarts>>

(* The routes on devices: only the drain route pumps.                      *)
DeviceSet(d, value) ==
  /\ OutsideChange
  /\ disk.device[d] # value
  /\ value = "draining" => disk.device[d] = "ready"
  /\ UNCHANGED <<healthy, offlineReady>>
  /\ LET s1 == [disk EXCEPT !.device[d] = value]
     IN IF value = "draining" THEN PumpWorkers(mem, s1, due)
        ELSE mem' = mem /\ disk' = s1 /\ due' = due

(* A health refresh replaces the cached value and notifies the store.      *)
HealthChanges(d) ==
  /\ OutsideChange
  /\ healthy' = IF d \in healthy THEN healthy \ {d} ELSE healthy \cup {d}
  /\ UNCHANGED offlineReady
  /\ PumpWorkers(mem, disk, due)

OfflineReadinessChanges ==
  /\ OutsideChange
  /\ OfflineEnabled
  /\ offlineReady' = ~offlineReady
  /\ UNCHANGED healthy
  /\ PumpWorkers(mem, disk, due)

(* startJobSweeper and every health poll: notifyDeviceDispatchStateChanged. *)
Notify ==
  /\ Running
  /\ UNCHANGED <<healthy, offlineReady, expiredTwins, restarts, changes>>
  /\ PumpWorkers(mem, disk, due)

----------------------------------------------------------------------------
(* Deadlines.                                                              *)

ActiveNow == {j \in Jobs : disk.job[j].status \in Active}

DeadlinePasses(j) ==
  /\ j \in ActiveNow \ due
  /\ due' = due \cup {j}
  /\ UNCHANGED <<mem, disk, healthy, offlineReady, expiredTwins, restarts, changes>>

(* The timer of a queued job fires.                                        *)
QueuedDeadlineFires(j) ==
  LET m1 == Expired(mem, {j}) IN
  /\ Running
  /\ mem.timer[j] = "live"
  /\ j \in due
  /\ mem' = m1
  /\ disk' = WriteSettlement(disk, m1, {j}, FALSE, AllWrites)
  /\ due' = due \ {j}
  /\ UNCHANGED <<healthy, offlineReady, expiredTwins, restarts, changes>>

(* The same after a restart: loadDatabaseJobs armed the timer with the     *)
(* object it had just copied into `jobs', so the copy that nobody reads is *)
(* failed while the job itself leaves the queue and stays 'queued'.        *)
TwinDeadlineFires(j) ==
  LET m1 == SetTimer(Dequeue(mem, {j}), {j}, "off") IN
  /\ Running
  /\ mem.timer[j] = "copy"
  /\ j \in due
  /\ mem' = m1
  /\ disk' = WriteSettlement(disk, m1, {j}, FALSE, AllWrites)
  /\ expiredTwins' = expiredTwins \cup {j}
  /\ UNCHANGED <<due, healthy, offlineReady, restarts, changes>>

(* The timer of a run fires: abort and mark (onDeadline).  What follows -  *)
(* the grace period, the force-kill and, if neither helps, waiting without *)
(* limit for the work to return - keeps the job running and its worker     *)
(* busy: RunThrows is the return, and nothing says that it comes.          *)
RunDeadlineFires(j) ==
  /\ Running
  /\ mem.run[j].stage \in {"work", "publish"}
  /\ j \in due
  /\ ~mem.job[j].late
  /\ mem' = [mem EXCEPT !.job[j].late = TRUE]
  /\ UNCHANGED <<disk, due, healthy, offlineReady, expiredTwins, restarts, changes>>

----------------------------------------------------------------------------
(* Runs.                                                                   *)

(* ensureNotCancelled passes for the last time, before promoteArtifact.    *)
LastCheck(j) ==
  /\ Running
  /\ mem.run[j].stage = "work"
  /\ ~mem.job[j].cancelled /\ ~mem.job[j].recovery
  /\ ~mem.job[j].late /\ j \notin due
  /\ mem' = [mem EXCEPT !.run[j].stage = "publish"]
  /\ UNCHANGED <<disk, due, healthy, offlineReady, expiredTwins, restarts, changes>>

(* runOneJob after runWithJobDeadline resolved.                            *)
Succeeded(m, j) ==
  [WithStatus(Returned(m, j), j, "done") EXCEPT !.job[j].recovery = FALSE]

Promoted(s, j) == [s EXCEPT !.artifacts = @ \cup {Build[j]}]

RunSucceeds(j) ==
  LET m1 == Succeeded(mem, j) IN
  /\ Running
  /\ mem.run[j].stage = "publish"
  /\ ~mem.job[j].late
  /\ mem' = m1
  /\ disk' = WriteSettlement(Promoted(disk, j), m1, {j}, TRUE, AllWrites)
  /\ due' = due \ {j}
  /\ UNCHANGED <<healthy, offlineReady, expiredTwins, restarts, changes>>

(* The run throws: its own error, an abort, a passed deadline it noticed   *)
(* itself, or `job deadline exceeded' once the late work has returned with *)
(* any outcome.  The staging file is removed before the error is looked at. *)
RunThrows(j) ==
  /\ Running
  /\ mem.run[j].stage \in {"work", "publish"}
  /\ \E noticed \in BOOLEAN :
       mem' = [mem EXCEPT !.run[j].stage = "cleanup",
                          !.job[j].late = @ \/ (noticed /\ j \in due)]
  /\ \E promoted \in {FALSE, mem.run[j].stage = "publish"} :
       disk' = IF promoted THEN Promoted(disk, j) ELSE disk
  /\ UNCHANGED <<due, healthy, offlineReady, expiredTwins, restarts, changes>>

Failed(m, j) == WithStatus(Returned(m, j), j, "failed")

(* requeueAfterGracefulShutdown: a new deadline, no timer.                 *)
Recovered(r) == [r EXCEPT !.status = "queued", !.late = FALSE, !.recovery = FALSE]

(* persistShutdownRecovery *)
RunRecovers(j) ==
  LET m1 == InsertByPriority([Returned(mem, j) EXCEPT !.job[j] = Recovered(@)], j) IN
  /\ mem.job[j].recovery
  /\ mem' = m1
  /\ disk' = PersistJobs(disk, m1)
  /\ due' = due \ {j}

(* A failed server-side attempt goes back to the queue for a device.       *)
FallsBack(j) ==
  LET m1 == SetTimer(Requeue(WithStatus(Returned(mem, j), j, "queued"), j), {j}, "live") IN
  /\ mem' = m1
  /\ disk' = PersistJobs(disk, m1)
  /\ due' = due

RunFails(j) ==
  LET m1 == Failed(mem, j) IN
  /\ mem' = m1
  /\ disk' = WriteSettlement(disk, m1, {j}, FALSE, AllWrites)
  /\ due' = due \ {j}

(* May the job go on?  Neither cancelled nor out of time.                  *)
Viable(j) == ~mem.job[j].cancelled /\ ~mem.job[j].late /\ j \notin due

MayRetry(j) == Viable(j) /\ mem.job[j].retries < MaxRetries

(* The catch block of runOneJob once the staging file is removed.          *)
ErrorHandled(j) ==
  /\ Running
  /\ mem.run[j].stage = "cleanup"
  /\ \/ RunRecovers(j)
     \/ /\ ~mem.job[j].recovery
        /\ IF mem.run[j].worker = Offline /\ Viable(j) THEN FallsBack(j)
           ELSE \/ RunFails(j)
                \/ /\ MayRetry(j)
                   /\ mem' = [mem EXCEPT !.run[j].stage = "backoff"]
                   /\ disk' = PersistJobs(disk, mem)
                   /\ due' = due
  /\ UNCHANGED <<healthy, offlineReady, expiredTwins, restarts, changes>>

(* The retry backoff ends, by itself or aborted by a cancel or a shutdown. *)
BackoffEnds(j) ==
  /\ Running
  /\ mem.run[j].stage = "backoff"
  /\ IF mem.job[j].cancelled THEN RunFails(j)
     ELSE IF mem.job[j].recovery THEN RunRecovers(j)
     ELSE IF j \in due
     THEN LET m1 == [Failed(mem, j) EXCEPT !.job[j].late = TRUE] IN
          /\ mem' = m1
          /\ disk' = WriteSettlement(disk, m1, {j}, FALSE, AllWrites)
          /\ due' = due \ {j}
     ELSE LET m1 == [mem EXCEPT !.job[j].retries = @ + 1, !.run[j].stage = "work"] IN
          /\ mem' = m1
          /\ disk' = PersistJobs(disk, m1)
          /\ due' = due
  /\ UNCHANGED <<healthy, offlineReady, expiredTwins, restarts, changes>>

(* run.finally: the worker is released and the pump runs.  runningJobs is  *)
(* keyed by job, so this forgets a newer run of the same job as well.      *)
RunUnwinds(j, w) ==
  /\ Running
  /\ <<j, w>> \in mem.unwinding
  /\ UNCHANGED <<healthy, offlineReady, expiredTwins, restarts, changes>>
  /\ PumpWorkers([mem EXCEPT !.unwinding = @ \ {<<j, w>>}, !.tracked = @ \ {j}], disk, due)

----------------------------------------------------------------------------
(* The retention sweep: a settled job leaves memory and the rows.          *)

CleanupJob(j) ==
  LET m1 == [mem EXCEPT !.job[j] = Gone] IN
  /\ Up
  /\ StatusOf(mem, j) \in Settled
  /\ mem' = m1
  /\ disk' = PersistJobs(disk, m1)
  /\ UNCHANGED <<due, healthy, offlineReady, expiredTwins, restarts, changes>>

----------------------------------------------------------------------------
(* The process.                                                            *)

(* shutdownJobs, up to the wait for the runs.                              *)
BeginShutdown ==
  LET m1 == [mem EXCEPT !.phase = "draining", !.queue = <<>>,
                        !.timer = [j \in Jobs |-> "off"], !.awaited = mem.tracked] IN
  /\ Up
  /\ restarts < MaxRestarts
  /\ restarts' = restarts + 1
  /\ mem' = m1
  /\ disk' = PersistJobs(disk, m1)
  /\ UNCHANGED <<due, healthy, offlineReady, expiredTwins, changes>>

AwaitedRunsReturned ==
  \A j \in mem.awaited : mem.run[j].stage = "none" /\ \A w \in Workers : <<j, w>> \notin mem.unwinding

(* Mutant: only runs that are at work are marked. *)
MarkedAtWork(m) ==
  Patch(m, {j \in Jobs : m.run[j].stage = "work"}, LAMBDA r : [r EXCEPT !.recovery = TRUE])

(* The drain timeout: what still runs is marked for recovery and aborted.  *)
MarkedForRecovery(m) ==
  Patch(m, {j \in Jobs : StatusOf(m, j) = "running"}, LAMBDA r : [r EXCEPT !.recovery = TRUE])

DrainTimesOut ==
  LET m1 == [MarkedForRecovery(mem) EXCEPT !.phase = "aborting"] IN
  /\ mem.phase = "draining"
  /\ ~AwaitedRunsReturned
  /\ mem' = m1
  /\ disk' = PersistJobs(disk, m1)
  /\ UNCHANGED <<due, healthy, offlineReady, expiredTwins, restarts, changes>>

ProcessEnds(s) ==
  /\ mem' = Stopped
  /\ disk' = s
  /\ due' = {j \in due : s.job[j].status \in Active}
  /\ healthy' = Devices
  /\ UNCHANGED <<offlineReady, expiredTwins, changes>>

(* The stores are closed: every awaited run returned, or the waits after   *)
(* the abort are over.                                                     *)
Exit ==
  /\ mem.phase = "aborting" \/ (mem.phase = "draining" /\ AwaitedRunsReturned)
  /\ ProcessEnds(disk)
  /\ UNCHANGED restarts

Crash ==
  /\ Running
  /\ restarts < MaxRestarts
  /\ restarts' = restarts + 1
  /\ ProcessEnds(disk)

(* The process dies while it settles job j, after a prefix of the writes.  *)
CrashWhileSettling(j) ==
  /\ Running
  /\ restarts < MaxRestarts
  /\ restarts' = restarts + 1
  /\ \/ /\ StatusOf(mem, j) = "queued" /\ j \in due
        /\ mem.timer[j] = "live" \/ j \in Range(mem.queue)
        /\ \E made \in TornPrefixes(ExpiryOrder) :
             ProcessEnds(WriteSettlement(disk, Expired(mem, {j}), {j}, FALSE, made))
     \/ /\ StatusOf(mem, j) = "queued"
        /\ \E made \in TornPrefixes(CancelOrder) :
             ProcessEnds(WriteSettlement(disk, CancelledInQueue(mem, j), {j}, FALSE, made))
     \/ /\ mem.run[j].stage = "publish" /\ ~mem.job[j].late
        /\ \E made \in TornPrefixes(FinishOrder) :
             ProcessEnds(WriteSettlement(Promoted(disk, j), Succeeded(mem, j), {j}, TRUE, made))
     \/ /\ mem.run[j].stage = "cleanup" /\ ~mem.job[j].recovery
        /\ mem.run[j].worker = Offline => ~Viable(j)
        /\ \E made \in TornPrefixes(FinishOrder) :
             ProcessEnds(WriteSettlement(disk, Failed(mem, j), {j}, FALSE, made))
     \/ /\ mem.run[j].stage = "backoff" /\ mem.job[j].cancelled
        /\ \E made \in TornPrefixes(CancelOrder) :
             ProcessEnds(WriteSettlement(disk, Failed(mem, j), {j}, FALSE, made))

(* Mutant: queued rows count as interrupted too. *)
InterruptedIfActive == {j \in Jobs : disk.job[j].status \in Active /\ ~disk.job[j].recovery}

(* recoverPersistedActiveJobs: queued rows stay, a running row stays only  *)
(* if a shutdown marked it, every other running row has been interrupted.  *)
Interrupted == {j \in Jobs : disk.job[j].status = "running" /\ ~disk.job[j].recovery}
Resumed     == {j \in Jobs : disk.job[j].status = "running" /\ disk.job[j].recovery}

RecoveredRows ==
  [j \in Jobs |-> IF j \in Interrupted THEN Gone
                  ELSE IF j \in Resumed THEN Recovered(disk.job[j]) ELSE disk.job[j]]

(* Mutant: reservations are left as the crash left them. *)
KeepReservations(s) == s

(* reconcileDecryptQuota *)
ReconcileDecryptQuota(s) ==
  [s EXCEPT !.ledger = [j \in Jobs |->
     IF @[j] # "reserved" THEN @[j]
     ELSE IF s.job[j].status \in {"done", "cached"} THEN "consumed"
     ELSE IF s.job[j].status \in Active THEN "reserved" ELSE "none"]]

(* The rows come in any order; insertByPriority sorts them.                *)
ByPriority(q) == \A i, k \in DOMAIN q : i < k => Priority[q[i]] >= Priority[q[k]]

Restart ==
  LET queued == {j \in Jobs : RecoveredRows[j].status = "queued"}
      s1 == RecordJobHistory(disk, Interrupted, "failed")
      s2 == [s1 EXCEPT !.job = RecoveredRows] IN
  /\ mem.phase = "down"
  /\ \E q \in SetToSeqs(queued) :
       /\ ByPriority(q)
       /\ mem' = [Stopped EXCEPT !.phase = "up", !.job = RecoveredRows, !.queue = q,
                     !.timer = [j \in Jobs |-> IF j \in queued THEN "copy" ELSE "off"]]
  /\ disk' = ReconcileDecryptQuota(s2)
  /\ due' = due \ (Interrupted \cup Resumed)
  /\ UNCHANGED <<healthy, offlineReady, expiredTwins, restarts, changes>>

(* The process dies while it starts, after the history or also the rows.   *)
CrashWhileStarting ==
  /\ mem.phase = "down"
  /\ restarts < MaxRestarts
  /\ restarts' = restarts + 1
  /\ LET s1 == RecordJobHistory(disk, Interrupted, "failed")
     IN \/ disk' = s1 /\ due' = due
        \/ disk' = [s1 EXCEPT !.job = RecoveredRows] /\ due' = due \ (Interrupted \cup Resumed)
  /\ UNCHANGED <<mem, healthy, offlineReady, expiredTwins, changes>>

----------------------------------------------------------------------------
JobAction(j) ==
  \/ Enqueue(j)
  \/ \E k \in Jobs : EnqueueDuplicate(j, k)
  \/ EnqueueCached(j)
  \/ CancelQueued(j)
  \/ CancelRunning(j)
  \/ DeadlinePasses(j)
  \/ QueuedDeadlineFires(j)
  \/ TwinDeadlineFires(j)
  \/ RunDeadlineFires(j)
  \/ LastCheck(j)
  \/ RunSucceeds(j)
  \/ RunThrows(j)
  \/ ErrorHandled(j)
  \/ BackoffEnds(j)
  \/ \E w \in Workers : RunUnwinds(j, w)
  \/ CleanupJob(j)
  \/ CrashWhileSettling(j)

Next ==
  \/ \E j \in Jobs : JobAction(j)
  \/ \E front \in SetToAllKPermutations(Range(mem.queue)) : ReorderQueue(front)
  \/ \E d \in Devices :
       \/ ReleasePinned(d)
       \/ \E value \in {"ready", "draining", "disabled"} : DeviceSet(d, value)
       \/ HealthChanges(d)
  \/ OfflineReadinessChanges
  \/ Notify
  \/ BeginShutdown
  \/ DrainTimesOut
  \/ Exit
  \/ Crash
  \/ Restart
  \/ CrashWhileStarting

Spec == Init /\ [][Next]_vars

(* Time passes, timers fire, and the code between two awaits of runOneJob  *)
(* and of its retry goes on.  Nothing is assumed of the work itself.       *)
JobFairness(j) ==
  /\ WF_vars(DeadlinePasses(j))
  /\ WF_vars(QueuedDeadlineFires(j))
  /\ WF_vars(RunDeadlineFires(j))
  /\ WF_vars(ErrorHandled(j))
  /\ WF_vars(BackoffEnds(j))
  /\ \A w \in Workers : WF_vars(RunUnwinds(j, w))

FairSpec == Spec /\ \A j \in Jobs : JobFairness(j)

----------------------------------------------------------------------------
(* Properties.                                                             *)

(* While jobs are accepted, the queue holds every queued job exactly once  *)
(* and nothing else, and each of them has a deadline timer; the only jobs  *)
(* excepted are those whose copy was expired in their place.               *)
QueueIsExact ==
  Up => /\ IsInjective(mem.queue)
        /\ \A j \in Range(mem.queue) : StatusOf(mem, j) = "queued"
        /\ \A j \in Jobs : StatusOf(mem, j) = "queued" /\ j \notin expiredTwins
             => j \in Range(mem.queue) /\ mem.timer[j] # "off"

(* When the expiry of a queued job is recorded, that job has failed        *)
(* (jobs/store.test.ts, "fails a queued job when its end-to-end deadline   *)
(* expires before dispatch").                                              *)
ExpiryFailsTheJob ==
  [][\A j \in Jobs :
       /\ Up /\ mem'.phase = "up" /\ StatusOf(mem, j) = "queued"
       /\ disk.history[j] # "failed" /\ disk'.history[j] = "failed"
       => StatusOf(mem', j) = "failed"]_vars

(* A device or server-side worker is never shared, not even by a run that  *)
(* starts before the previous one has unwound, and slots are not exceeded. *)
WorkersAreExclusive ==
  /\ \A p, q \in BusyWorkers(mem) : p # q => p[2] # q[2] \/ p[2] = Offline
  /\ Cardinality(BusyOffline(mem)) <= OfflineWorkers
  /\ \A j \in Jobs : StatusOf(mem, j) = "running" <=> mem.run[j].stage # "none"

(* However requests, duplicates, retries and restarts interleave, a build  *)
(* is never being worked on for two jobs at once.                          *)
OneActiveJobPerBuild ==
  \A j, k \in Jobs : j # k /\ SameBuild(j, k)
    => ~(disk.job[j].status \in Active /\ disk.job[k].status \in Active)

(* Queue and rows have each job, and each build, once, in whatever order   *)
(* requests, expiry, cancellation, fallback, retry and reordering come.    *)
QueueIsSound == QueueIsExact /\ OneActiveJobPerBuild

(* The pump starts several jobs at once and still respects the user cap.   *)
CapRespected == UserCap > 0 => \A o \in Owners : Cardinality(RunningFor(mem, o)) <= UserCap

(* Workers and caps hold together in whatever order pumps, ends of runs    *)
(* and new jobs come (pumpWorkers).                                        *)
DispatchIsSound == WorkersAreExclusive /\ CapRespected

(* While a process runs, a billed job holds its reservation for as long as *)
(* it is active, is charged exactly if it is done, and a failed or dropped *)
(* job holds nothing, whatever crash came between the durable writes.      *)
LedgerMatchesJobs ==
  Running => \A j \in Jobs :
    /\ disk.ledger[j] = "reserved" => StatusOf(mem, j) \in Active
    /\ disk.ledger[j] = "consumed" => StatusOf(mem, j) \in {"done", "gone"}
    /\ j \in BilledJobs \ expiredTwins =>
         /\ StatusOf(mem, j) \in Active => disk.ledger[j] = "reserved"
         /\ StatusOf(mem, j) = "done" => disk.ledger[j] = "consumed"

(* The history never announces a success the rows do not have.             *)
HistoryNeverAhead ==
  \A j \in Jobs : disk.history[j] = "done" => disk.job[j].status \in {"done", "cached", "gone"}

(* Jobs, ledger and history tell the same story (persistActiveJobs,        *)
(* settleQuota, recordJobHistory and the start-up that reconciles them).   *)
BooksAgree == LedgerMatchesJobs /\ HistoryNeverAhead

(* A job is started only before its deadline, on a worker that suits it    *)
(* and, for a device, one that accepts jobs at that moment.                *)
StartsAreLegal ==
  [][\A j \in Jobs :
       StatusOf(mem, j) \in {"queued", "absent"} /\ StatusOf(mem', j) = "running" =>
         LET w == mem'.run[j].worker IN
         /\ j \notin due'
         /\ IF w = Offline THEN j \in AppStoreJobs /\ ~mem.job[j].tried /\ offlineReady'
            ELSE /\ disk'.device[w] = "ready" /\ w \in healthy' /\ w \in Fits[j]
                 /\ w \notin BusyDevices(mem) \/ \E k \in Jobs : <<k, w>> \in mem.unwinding]_vars

(* The rows go through the lifecycle of JobLifecycle, crashes included.    *)
Lifecycle == INSTANCE JobLifecycle WITH life <- [j \in Jobs |-> disk.job[j].status]
RowsFollowLifecycle == Lifecycle!Spec

(* Whatever other jobs hang, an active job is settled or is marked late by *)
(* its deadline and only waits for its own work to return; a job whose     *)
(* work does return each time is settled (deadline.ts; deadline.test.ts,   *)
(* "keeps supervising device work after force-kill until it actually       *)
(* exits").                                                                *)
IsActive(j)  == StatusOf(mem, j) \in Active
Working(j)   == mem.run[j].stage \in {"work", "publish"}
ActiveJobsSettle ==
  \A j \in Jobs :
    /\ IsActive(j) ~> (~IsActive(j) \/ (Working(j) /\ mem.job[j].late))
    /\ []<>~Working(j) => (IsActive(j) ~> ~IsActive(j))

(* An orderly exit leaves no row 'running' that the next start would call  *)
(* interrupted (server-shutdown-timeout.integration.test.ts, "a decrypt    *)
(* that misses the shutdown drain deadline is queued for recovery").       *)
ShutdownKeepsRunningJobs ==
  [][mem.phase # "down" /\ mem'.phase = "down" /\ restarts' = restarts
       => \A j \in Jobs : disk'.job[j].status = "running" => disk'.job[j].recovery]_vars
=============================================================================
