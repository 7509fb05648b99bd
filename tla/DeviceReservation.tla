------------------------- MODULE DeviceReservation -------------------------
(***************************************************************************)
(* How three parties share one flag.  A device record carries `enabled',   *)
(* `draining' and a revision `updatedAt'.                                   *)
(*                                                                         *)
(*  - The job dispatcher (jobs/store.ts pumpWorkers) gives work to enabled *)
(*    devices that are not draining and disables a draining device as soon *)
(*    as it is idle.                                                       *)
(*  - The FairPlay credential retriever (offlineAppStoreCredential.ts)     *)
(*    reserves an idle iPad by marking it draining, and undoes the mark    *)
(*    only if the revision is still the one it wrote.                      *)
(*  - Administrators drain, enable, disable and edit devices.              *)
(*                                                                         *)
(* Device records, the retrieval status and the stored credential are      *)
(* durable; everything else dies with the process.                         *)
(***************************************************************************)
EXTENDS Naturals, FiniteSets

CONSTANTS
  Devices,      \* device ids
  Ipads,        \* the devices isUsbIpad accepts by transport and product type
  MaxRevision,  \* bound on the revisions an administrator or a retrieval writes
  MaxCrashes    \* bound on the crashes of the server process

ASSUME IpadsAssumption == Ipads \subseteq Devices
ASSUME BoundsAssumption == MaxRevision \in Nat /\ MaxCrashes \in Nat

VARIABLES
  alive,        \* the server process runs
  device,       \* device records: enabled, draining, updatedAt
  busy,         \* busyDeviceIds: devices with a worker that has not unwound
  running,      \* devices whose job still has status 'running'
  op,           \* `current', the retrieval status in memory
  savedOp,      \* the retrieval status row
  credential,   \* a FairPlay credential is stored in the vault
  (* history *)
  stopped,      \* devices whose last administrator decision is drain or disable
  touched,      \* an administrator wrote the reserved device since start()
  crashes       \* crashes so far

durable == <<device, savedOp, credential, stopped>>
vars == <<alive, device, busy, running, op, savedOp, credential, stopped, touched,
          crashes>>

OpStates == {"idle", "running", "succeeded", "failed", "interrupted"}
NoDevice == "no device"
DeviceRecord == [enabled: BOOLEAN, draining: BOOLEAN, updatedAt: Nat]
OpRecord == [state: OpStates, deviceId: Devices \cup {NoDevice}, reservedAt: Nat]

TypeOK ==
  /\ alive \in BOOLEAN
  /\ device \in [Devices -> DeviceRecord]
  /\ busy \subseteq Devices
  /\ running \subseteq Devices
  /\ op \in OpRecord
  /\ savedOp \in OpRecord
  /\ credential \in BOOLEAN
  /\ stopped \subseteq Devices
  /\ touched \in BOOLEAN
  /\ crashes \in 0..MaxCrashes

IdleOp == [state |-> "idle", deviceId |-> NoDevice, reservedAt |-> 0]

Init ==
  /\ alive = TRUE
  /\ device = [d \in Devices |-> [enabled |-> TRUE, draining |-> FALSE, updatedAt |-> 1]]
  /\ busy = {}
  /\ running = {}
  /\ op = IdleOp
  /\ savedOp = IdleOp
  /\ credential = FALSE
  /\ stopped = {}
  /\ touched = FALSE
  /\ crashes = 0

Accepting(r) == r.enabled /\ ~r.draining

----------------------------------------------------------------------------
(* updateDevice: a patch that sets `enabled' also clears `draining', and   *)
(* every write moves the revision forward.                                 *)

SetEnabled(r, value) ==
  [enabled |-> value, draining |-> FALSE, updatedAt |-> r.updatedAt + 1]

SetDraining(r, value) ==
  [enabled |-> r.enabled, draining |-> value, updatedAt |-> r.updatedAt + 1]

Rename(r) ==
  [enabled |-> r.enabled, draining |-> r.draining, updatedAt |-> r.updatedAt + 1]

(* Mutant: a draining device is disabled only by an administrator. *)
NeverDrained(table, held) == table

(* pumpWorkers over the device table `table' with the workers `held': idle *)
(* draining devices are disabled, then free accepting devices may be given *)
(* a queued job (which ones depends on the queue, see JobStore).           *)
Drained(table, held) ==
  [d \in Devices |-> IF table[d].draining /\ d \notin held
                     THEN SetEnabled(table[d], FALSE) ELSE table[d]]

PumpWorkers(table, held, atWork) ==
  /\ device' = Drained(table, held)
  /\ \E started \in SUBSET {d \in Devices \ held : Accepting(Drained(table, held)[d])} :
        /\ busy' = held \cup started
        /\ running' = atWork \cup started

----------------------------------------------------------------------------
(* The dispatcher.                                                         *)

(* enqueue, a health poll, the sweeper: anything that calls pumpWorkers.   *)
Dispatch ==
  /\ alive
  /\ PumpWorkers(device, busy, running)
  /\ UNCHANGED <<alive, op, savedOp, credential, stopped, touched, crashes>>

(* runOneJob writes a final status; its worker is still reserved.          *)
JobFinishes(d) ==
  /\ alive
  /\ d \in running
  /\ running' = running \ {d}
  /\ UNCHANGED <<alive, device, busy, op, savedOp, credential, stopped, touched, crashes>>

(* run.finally in startJobWorker: the device is freed and the pump runs.   *)
RunUnwinds(d) ==
  /\ alive
  /\ d \in busy \ running
  /\ PumpWorkers(device, busy \ {d}, running)
  /\ UNCHANGED <<alive, op, savedOp, credential, stopped, touched, crashes>>

----------------------------------------------------------------------------
(* The credential retriever.                                               *)

(* Mutant: the job that runs on the device is not looked at. *)
CanReserveBusy(d) ==
  d \in Ipads /\ Accepting(device[d]) /\ ~credential /\ op.state # "running"

CanReserve(d) ==
  /\ d \in Ipads
  /\ Accepting(device[d])
  /\ ~credential
  /\ op.state # "running"
  /\ d \notin running

(* Mutant: the status does not name the device. *)
StartedUnnamed(d) == [state |-> "running", reservedAt |-> SetDraining(device[d], TRUE).updatedAt]

Started(d) ==
  [state |-> "running", deviceId |-> d, reservedAt |-> SetDraining(device[d], TRUE).updatedAt]

(* start(): the iPad is reserved, the status row written, the helper spawned. *)
StartRetrieval(d) ==
  /\ alive
  /\ CanReserve(d)
  /\ device[d].updatedAt < MaxRevision
  /\ device' = [device EXCEPT ![d] = SetDraining(@, TRUE)]
  /\ op' = Started(d)
  /\ savedOp' = Started(d)
  /\ touched' = FALSE
  /\ UNCHANGED <<alive, busy, running, credential, stopped, crashes>>

(* Mutant: the revision is ignored. *)
RestoreAlways(table, d, reservedAt) == [table EXCEPT ![d] = SetDraining(@, FALSE)]

(* restoreDevice: nothing unless the revision is the one start() wrote.    *)
RestoreDevice(table, d, reservedAt) ==
  IF table[d].updatedAt # reservedAt THEN table
  ELSE [table EXCEPT ![d] = SetDraining(@, FALSE)]

(* start() when the status row cannot be written: the reservation is undone. *)
StartRetrievalUnsaved(d) ==
  /\ alive
  /\ CanReserve(d)
  /\ device[d].updatedAt < MaxRevision
  /\ device' = RestoreDevice([device EXCEPT ![d] = SetDraining(@, TRUE)], d,
                             Started(d).reservedAt)
  /\ UNCHANGED <<alive, busy, running, op, savedOp, credential, stopped, touched, crashes>>

(* The helper returns a credential or fails.  The final status is written  *)
(* on a best-effort basis (`saved'), then the iPad is released.            *)
RetrievalEnds(outcome, saved) ==
  LET ended == [op EXCEPT !.state = outcome] IN
  /\ alive
  /\ op.state = "running"
  /\ credential' = (credential \/ outcome = "succeeded")
  /\ op' = ended
  /\ savedOp' = IF saved THEN ended ELSE savedOp
  /\ device' = RestoreDevice(device, op.deviceId, op.reservedAt)
  /\ UNCHANGED <<alive, busy, running, stopped, touched, crashes>>

----------------------------------------------------------------------------
(* Administrators.                                                         *)

AdminWrites(d) ==
  /\ alive
  /\ device[d].updatedAt < MaxRevision
  /\ touched' = (touched \/ (op.state = "running" /\ op.deviceId = d))
  /\ UNCHANGED <<alive, op, savedOp, credential, crashes>>

(* POST /devices/:id/drain: drains an enabled device and pumps.            *)
AdminDrain(d) ==
  /\ AdminWrites(d)
  /\ device[d].enabled
  /\ stopped' = stopped \cup {d}
  /\ PumpWorkers([device EXCEPT ![d] = SetDraining(@, TRUE)], busy, running)

(* PATCH /devices/:id with `enabled'; the route does not pump.             *)
AdminSetEnabled(d, value) ==
  /\ AdminWrites(d)
  /\ stopped' = IF value THEN stopped \ {d} ELSE stopped \cup {d}
  /\ device' = [device EXCEPT ![d] = SetEnabled(@, value)]
  /\ UNCHANGED <<busy, running>>

(* PATCH /devices/:id with any other field.                                *)
AdminRename(d) ==
  /\ AdminWrites(d)
  /\ device' = [device EXCEPT ![d] = Rename(@)]
  /\ UNCHANGED <<busy, running, stopped>>

(* The administrator removes the stored credential.                        *)
ForgetCredential ==
  /\ alive
  /\ credential
  /\ credential' = FALSE
  /\ UNCHANGED <<alive, device, busy, running, op, savedOp, stopped, touched, crashes>>

----------------------------------------------------------------------------
(* The process.                                                            *)

Crash ==
  /\ alive
  /\ crashes < MaxCrashes
  /\ crashes' = crashes + 1
  /\ alive' = FALSE
  /\ busy' = {}
  /\ running' = {}
  /\ op' = IdleOp
  /\ touched' = FALSE
  /\ UNCHANGED durable

(* createFairPlayCredentialRetriever at startup: a row left 'running' is   *)
(* rewritten as 'interrupted'.                                             *)
Restart ==
  LET loaded == IF savedOp.state = "running"
                THEN [savedOp EXCEPT !.state = "interrupted"] ELSE savedOp IN
  /\ ~alive
  /\ alive' = TRUE
  /\ op' = loaded
  /\ savedOp' = loaded
  /\ UNCHANGED <<device, busy, running, credential, stopped, touched, crashes>>

Next ==
  \/ Dispatch
  \/ \E d \in Devices :
       \/ JobFinishes(d)
       \/ RunUnwinds(d)
       \/ StartRetrieval(d)
       \/ StartRetrievalUnsaved(d)
       \/ AdminDrain(d)
       \/ \E value \in BOOLEAN : AdminSetEnabled(d, value)
       \/ AdminRename(d)
  \/ \E outcome \in {"succeeded", "failed"}, saved \in BOOLEAN : RetrievalEnds(outcome, saved)
  \/ ForgetCredential
  \/ Crash
  \/ Restart

Spec == Init /\ [][Next]_vars

(* The pump is called by the health poll for as long as the process runs,  *)
(* a finished run unwinds in the same microtask queue, and the process is  *)
(* restarted.  That a run finishes is not assumed: work that does not stop *)
(* when it is force-killed keeps its device (jobs/deadline.ts).            *)
Fairness ==
  /\ WF_vars(Dispatch)
  /\ WF_vars(Restart)
  /\ \A d \in Devices : WF_vars(RunUnwinds(d))

FairSpec == Spec /\ Fairness

----------------------------------------------------------------------------
(* Properties.                                                             *)

(* An administrator's drain or disable is final: neither the end of a      *)
(* credential retrieval (restoreDevice) nor the dispatcher (pumpWorkers)   *)
(* makes the device accept jobs again before an administrator enables it.  *)
StopIsRespected == \A d \in stopped : ~Accepting(device[d])

(* While a retrieval holds its reservation, no job runs on the iPad, unless *)
(* an administrator wrote that device record in the meantime.              *)
ReservationIsExclusive ==
  op.state = "running" /\ ~touched => op.deviceId \notin running

(* Draining ends: a draining device on which no run hangs for good is      *)
(* disabled (or released, or enabled by an administrator), whatever        *)
(* happens on the others, to the process and to a retrieval that holds it. *)
DrainCompletes ==
  \A d \in Devices :
    []<>(d \notin running) => (device[d].draining ~> ~device[d].draining)

(* A retrieval that ends gives the iPad back: if no administrator touched  *)
(* it meanwhile, it accepts jobs again (offlineAppStoreCredential.test.ts, *)
(* "releases the iPad").                                                   *)
RetrievalReleasesDevice ==
  [][(op.state = "running" /\ op'.state \in {"succeeded", "failed"} /\ ~touched)
       => Accepting(device'[op.deviceId])]_vars
=============================================================================
