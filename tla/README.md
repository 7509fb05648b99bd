# Formal model of dkrypt

dkrypt is a server that turns requests for an iOS application into decrypted IPA
files.  It drives a pool of devices over USB and Wi-Fi, can try App Store builds on
server-side workers first, keeps the results in an artifact library, bills its users
through Stripe and NOWPayments, and runs for months in one process.  This directory
holds TLA+ modules for the parts of it whose correctness depends on interleavings,
crashes and order: what they promise, what TLC checks on small instances and what
TLAPS proves for all instances.

Paths are relative to `packages/dkrypt/src` unless they start with `packages/`.
`PROJECT.json` is the machine-readable index: components, runs, mutants, the map from
definitions to source lines, findings, hazards and theorems.

Contents: 1 the system, 2 modules and code, 3 runs and bounds, 4 fairness, 5 proofs,
6 findings and observations, 7 what is not modelled, 8 plan, 9 how to run.

## 1. The system

The server is one Bun process.  A handler runs to completion between two `await`s;
everything that is "concurrent" is an interleaving at those points, at timers, or with
the world outside (devices, payment providers, administrators, crashes).  Durable
state is SQLite, written synchronously, and files.  This gives all modules the same
shape: one action per stretch of code between two awaits, a crash between any two
durable writes, memory lost and rows kept.

| Component | State | Operations | Interacts with | What makes it hard | What makes it correct |
| --- | --- | --- | --- | --- | --- |
| Job store (`jobs/store.ts`) | jobs, queue, deadline timers, runs and busy workers in memory; job rows | enqueue, reuse, cancel, reorder, pump, run, retry, fall back, expire, clean up, shut down, restore | devices (state, health), runner, artifacts, quota ledger, history | deadlines against results, shutdown against retries, three durable writes per settled job | no shared worker, exact queue, one job per build, no job waits for another's work, books agree after any crash |
| Job rows and quota (`jobs/repository.ts`) | `jobs`, `decrypt_quota_ledger` | replace, admit, settle, reconcile | job store | the ledger is written apart from the rows | a reservation exactly while a billed job is active |
| Runner (`jobs/runner.ts`, `jobs/deadline.ts`, `jobs/process.ts`) | child process, abort signal | decrypt, finalise, abort, force-stop | job store, artifacts | a deadline that races the result | one outcome per run |
| Devices (`store/deviceRepository.ts`, `routes/dashboardDeviceRoutes.ts`) | `enabled`, `draining`, revision | edit, drain, enable, disable | dispatcher, retriever, administrators | three writers of one flag | a stop stays a stop |
| FairPlay retrieval (`offlineAppStoreCredential.ts`) | status row, reservation | start, end, restart | devices, vault | the reservation is undone by revision | exclusive use, iPad given back |
| Artifact store (`artifacts.ts`, `artifacts/repository.ts`) | index in memory, rows, files | promote, link, pin, evict, reconcile | runner, job store, projects | checks before awaits, links outside the mutation chain, files and rows written apart | rows name files that exist, quota, no orphan, pins hold |
| Keyed serial sections (`util/keyedSerial.ts`) | one promise chain per key | run | billing | clean-up of the map while others wait | exclusion, order, progress |
| Webhook inbox (`webhookInbox.ts`, `routes/billing.ts`) | records; claims in memory | receive, claim, process, fail, quarantine, replay | providers, billing | redelivery, crash between claim and mark | one handler per event, no lost and no second effect |
| Stripe subscriptions (`routes/billing.ts`, `billing.ts`) | one row per subscription | events, lookups, refunds, cancel and change routes | Stripe, inbox, keyed sections | out-of-order events dated to the second, lookups that overlap | the row converges to Stripe's state; a refund is final |
| NOWPayments billing (`cryptoBilling.ts`, `billing.ts`) | checkout, subscription, charge | events, lookups, poll, dunning, cancel | provider, inbox, keyed sections | equal times, a poller beside the events, three writes per completion | access follows payment; what has ended stays ended |
| Apple Account (`offlineAppStoreAuthOperation.ts`, `appleAccountVault.ts`, `offlineAppStore.ts`) | operation status, vault row, chain of workspaces | start, time out, reset, download, save session | Apple, vault | a timeout that races the provider, an account that changes under a session | one session at a time, a status that is true, a result that is current |
| Device health (`deviceHealth.ts`) | cached health, shared probes, refresh queue, alerts | refresh, poll, alert | devices, job store | coalesced refreshes, a cache that forgives failures, restarts | a USB event is answered by a later poll; jobs are released after real silence |
| Device supervisor and client (`packages/device-bridge/src/main.rs`, `idevice.ts`) | tunnels, tokens, mux process; sockets | request, cancel, tunnel, recover, stop | mux, devices | threads, cancellation against an answer, recovery under use | no tunnel is answered and closed, a signal ends everything |
| Device events (`main.rs`, `idevice.ts`, `deviceBridgeEvents.ts`) | mux ids, listener, stream, what was refreshed | list, listen, follow, reconnect | mux, device health | four links in a row, each may break or hold | no plug is lost |
| Connections (`idevice.ts`) | two pools, a lock, idle timers | use, reuse, abort, close | every use of a device | idle timer against next use, breaks and aborts at any await | a connection has one user and is closed in the end |
| Background work, shutdown (`backgroundWork.ts`, `server.ts`) | set of promises | track, drain, close | everything | work started while draining, work that hangs | stores close after the last user, and do close |
| Sessions (`store/state.ts`, `session.ts`) | table, memory, snapshot | create, touch, revoke, sweep | accounts | two transactions per operation | a revocation is final |
| State database (`store/sqlite.ts`, `store/state.ts`) | database file, marker, migrations, snapshot, mirror | open, bind, migrate, initialise, commit | every store | a first start cut anywhere, again and again | what was written is found; only damage refuses |
| Deployment (`deploymentDatabase.ts`, `.github/workflows/deploy.yml`) | copy, manifest, kept candidate | prepare, complete, restore | state database | kills between steps of an undo | no state is lost |
| Requests counted once (`idempotency.ts`, `routes/decrypt.ts`, `routes/signedTriggerRoutes.ts`, `routes/billing.ts`) | keys, event rows, attempts, locks | ask, repeat, expire | job store, Stripe, NOWPayments | crash between effect and record, lost answers | one key, one effect |
| Installs (`testflight.ts`, `appStoreInstall.ts`, `Tweak.x`) | request, response and transaction files | ask, resume, retry | bridge inside two Apple apps | an answer that is older than the question | an attempt waits for its own operation |
| TestFlight subscriptions (`testflightSubscriptions.ts`) | table, memory, devices | submit, decide, synchronise, remove | bridge, managers | background work against decisions, failed writes | one subscription per invite; only approved ones join |
| Backups (`store/state.ts`) | directories, rows, schedule | create, keep newest, delete, clean up | file system | loss of power between rename and row | a row names a whole snapshot |
| Account merge (`account.ts`) | five stores | link, merge, confirm again | billing, jobs, integrations, identity | five transactions, any of which fails | everything follows the sign-in |
| Decrypt allowance (`jobs/repository.ts`) | ledger | admit, refuse, settle, reconcile | job store, plans | crash before settling, a smaller plan | no window is over the allowance, and the promised time is right |

Everything else is listed in `PROJECT.json` with the reason it is left out: the
downloader (protocols and cryptography), the dashboard, generated clients and contracts,
authentication, notifications, telemetry.

The hazards these parts are exposed to, each at its source line with the properties
that would catch it, are in `PROJECT.json`.  The properties below are aimed at them.

## 2. Modules and code

### JobStore (`jobs/store.ts`, `jobs/repository.ts`, `jobs/runner.ts`, `jobs/deadline.ts`)

`mem` is the memory of the process and `disk` what survives it: rows, quota ledger,
history, device records and the builds that have an artifact.  Each handler is one
action from its first statement to its next `await`, *including the pump it ends in*:
`PumpWorkers` disables idle draining devices, expires overdue jobs, fills server-side
slots and then devices in the order of their score (any order, as scores depend on
battery and temperature), and persists.  A run is a sequence of stages because
`runOneJob` awaits there: `work`, `publish` (after the last check, while the artifact
is promoted), `cleanup` (the staging file is being removed), `backoff`.  A run that has
returned is `unwinding` until its `finally` releases the worker.  `CrashWhileSettling`
stops between the durable writes of a settlement in the order in which the code makes
them; `Restart` is `recoverPersistedActiveJobs` with `reconcileDecryptQuota`.

Abstractions.  Time: `due` is the set of active jobs whose deadline has passed; it
survives a crash, as deadlines are rows, and an extension or a graceful requeue takes a
job out.  What a run does on a device is `work` that ends well, badly, or by abort.
The status `cached` is `done` with `cacheHit`.  Health and server-side readiness are
inputs that change at any time.  Left out: the API-key cap, project quotas at
admission, the scoping of the queue by project, `mergeActiveJobOwner`, SLO monitoring,
the legacy JSON mirrors.  `expiredTwins` is a history variable that confines two
invariants to what finding 2 does not break.

`JobLifecycle` is the abstract specification of the rows: which status may follow which
and that a build has one unsettled job.  `JobStore` implements it (`RowsFollowLifecycle`).

### DeviceReservation (`offlineAppStoreCredential.ts`, `jobs/store.ts`, `store/deviceRepository.ts`)

Three parties write `enabled`, `draining` and `updatedAt` of a device record: the
dispatcher, the credential retriever and administrators.  `reservedAt` is the revision
the retriever wrote; `RestoreDevice` undoes the reservation only at that revision.
`stopped` and `touched` are history: what administrators last decided.

### ArtifactStore (`artifacts.ts`)

A promotion is a sequence of stages between the awaits of `promoteArtifact`: it waits
for the mutation chain, looks for an artifact of its key, is measured, hashed, plans its
evictions, renames, commits.  `EnqueueCached` links outside the chain, as
`enqueueDecryptJob` does.  `index` is memory, `rows` the table, `files` and `staging`
the disk.  `Start` is `initializeArtifactStore` with the registration of finished jobs.
The order of least recent use is abstracted: an eviction plan is any set that a suitable
order would produce.  Left out: failing file removals, recency, archive and undo.

### KeyedSerial and SerialOrder (`util/keyedSerial.ts`)

The promise chains, complete: `previous[o]` is the promise call `o` waits for,
`keyQueues[k]` the tail.  A tail is resolved when its operation has ended, because that
operation itself ran after the tail before it.  `SerialOrder` is the promise to callers;
`KeyedSerial` implements it, checked and proved.

### WebhookInbox (`webhookInbox.ts`, `routes/billing.ts`)

Handlers are deliveries and replays that have claimed a record and await the processing
of its event.  The provider may give up waiting (`Answered`).  `applied` is what had its
effect, also when a crash or a failure hid it.  Crash is death and restart in one step.
Left out: pruning, integrity checks, the log of attempts.

### StripeSubscription (`routes/billing.ts`, `billing.ts`)

One subscription at Stripe, the events it emits, their processing under the key of the
subscription and the row.  Times are half seconds: the server's are exact, those of
events are cut to the second, which is what makes two changes of one second
indistinguishable.  `version` stands for the contents of a snapshot.  `forgotten` are the
refunds of which a duplicate was answered 200 during an attempt that then failed.  The key is
abstracted to exclusion (`holder`), as `KeyedSerial` shows what it is.  The routes that
cancel or change the plan do not take the key and are modelled as they are.  "invoice"
stands for every event that only asks for a lookup.  One clock is assumed.

### CryptoPayment (`cryptoBilling.ts`, `billing.ts`)

A payment, its checkout, its subscription and its charge.  Events wait for the key of
their payment (`waiting`), `latest` is `pendingPaymentEvents`, a contradiction of two
statuses with one time awaits the provider.  Several reconciliations (`Pollers`) may be
under way, as the interval does not wait for the last one.  Each asks the provider for a
payment (`PollAsks`), may be overtaken before it has the answer, processes it as an event
(`PollHears`), and then marks subscriptions of a list it read once, with an await after
each (`PollSubscriptions`).  `TornFinish` and `TornRefund` die between any two writes of a
completion or a refund; `torn` remembers what was cut off.

### AppleAccount (`offlineAppStoreAuthOperation.ts`, `appleAccountVault.ts`, `offlineAppStore.ts`)

`operation` is the status row and the promise behind it, `vault` the row of the account,
its session and its mark.  Sign-ins and downloads take turns on the chain of
`withSessionWorkspace`; each takes the session out and puts it back.  The provider may
answer anything its session allows.  Left out: encryption, the six-digit code.

### DeviceHealth (`deviceHealth.ts`)

One device.  Time is counted in units of which `Interval` make a poll interval, so that
jitter, confirmations, the look-back window and the span of the alert can meet in every
order.  A probe is shared by whoever asks while it runs; `refresh` is the queue of USB
events with its `rerun` flag; `cache` forgives failures; `outage` is the alert that
releases pinned jobs.

### DeviceBridge (`packages/device-bridge/src/main.rs`, `idevice.ts`)

Requests on sockets of their own, with the client's timeout, abort and cancel, the
server's tokens, tunnels and operation gate, the recovery of the mux process and the
shutdown by a signal.  A step is what lies between two awaits of the Rust tasks, which run
on several threads: the recovery's last look at the tunnels (`ProbeIsOver`) and the kill
(`KillMux`) are two steps, and `late` are the tunnels that entered the map after that
look.  The task of a tunnel may end on a failed accept, which leaves its entry in the map
(`dead`).

### DeviceEvents (`main.rs`, `idevice.ts`, `deviceBridgeEvents.ts`)

The way of a plug or an unplug: `plugged` (what is the case) and `plugs` (how often it
was), `muxState`, `listener` (listens, lists, then follows) with its `queue` and its map
`devices`, `wire` (frames under way), and the monitor: `client`, `attempt`, `snapshotSeen`,
`current`.  `unseen` is history: what has changed since its last refresh.  A device that
is plugged in again has a new mux id.

### DeviceSession (`idevice.ts`)

The lock, the two pools, opening with its failures, breaks at any moment, aborts while a
use waits, opens or works, and the idle timer.

### ServerShutdown (`server.ts`, `backgroundWork.ts`)

The steps of `shutdown` with their timeouts, over tracked work that begins and ends at
any moment, requests, and job runs.  A timeout may fire at any moment.  The handler of a
request goes on when its client has left (`left`) or its connection was closed (`cut`);
`orphans` are those `server.close()` did not wait for.

### SessionStore (`store/state.ts`, `store/sessionRepository.ts`, `store/sqlite.ts`)

A session is kept in a table, in memory and in the snapshot.  An operation is one
transaction on the table and one on everything (`PersistNow`), the second of which may
fail and before which the process may end; the flusher and other operations write memory
over the table.  `RefusedOnlyIfTorn` says that the comparison at start-up refuses
nothing but such a cut.

### StateDatabase (`store/sqlite.ts`, `store/state.ts`)

The start of the server, step by step as far as steps leave something on disk: `dbFile`
(number of the file, application id, migrations applied, snapshot, its mark in
`metadata`), `marker` (`.initializing`), `mirror` (`state.json`).  Start-up begins with
nothing, an old `state.json`, or a database from before the marks.  `Damage` empties the file or
removes the snapshot from outside.  Left out: the copy that is made before migrations.

### DeploymentRollback (`deploymentDatabase.ts`, `.github/workflows/deploy.yml`)

Extends `StateDatabase`: the workflow stops the server, prepares, starts the candidate,
completes or restores, and the server moves whenever the workflow lets it run, under the
image of the moment.  A restore may be killed between any two changes of the file system
and be given again.  A database and its sidecars are one file.

### Idempotency, SignedTrigger, Checkout

Three ways to ask twice.  `Idempotency` (`idempotency.ts`, `routes/decrypt.ts`): a chain of promises per key,
look-up, job, record, expiry, and fingerprints of an older version.  `SignedTrigger`
(`routes/signedTriggerRoutes.ts`, `store/integrationRepository.ts`): a row reserves the
event before the job is queued and is marked afterwards.  `Checkout`
(`routes/billing.ts`, `cryptoBilling.ts`): the account's lock, the attempt, Stripe's own
memory of keys, and what becomes of the page when account or plan change.

### AppInstall (`testflight.ts`, `appStoreInstall.ts`, `idevice.ts`, `Tweak.x`)

Server, files and bridge: request and response by request id, a transaction per operation.
An attempt may time out after its request was taken; the bridge may die; the sweep removes
old files.  An operation is the id the code builds for it, so that what two attempts share
is what they share in the code.

### BetaSubscription (`testflightSubscriptions.ts`, `store/state.ts`, `routes/dashboardTestFlightRoutes.ts`)

Table and memory of the submissions of one invite, two background works at a time, what
the bridge has stored and what is the case on the devices.

### Backups (`store/state.ts`, `store/backupRepository.ts`)

A snapshot is a directory (staging, published, flushed), its files, and a row in memory and
on disk.  `PowerIsLost` keeps any of what was not flushed; the entry of the backups
directory itself is assumed durable.  A removal may fail (`RemovalFails`), and so may the
look at the size of a published snapshot (`SizeReadFails`); `strays` are the directories
such a failure leaves without a row.

### AccountMerge (`account.ts`, `identity.ts`, `billing.ts`, `jobs/store.ts`)

Of each of five stores only who owns something in it is kept, in memory and on disk where
the code has both.  The billing store stands for subscriptions, checkouts, charges and
customers; `entitlementHistory` is left out (section 6).

### DecryptQuota (`jobs/repository.ts`)

Jobs, their ledger entries, a clock of ticks and the window.  `told` is the last refusal.

### Instances

`MCJobStore`, `MCCryptoPayment`, `MCDeviceReservation` and `MCWebhookInbox` hold instances
of one module.  `MCDeviceServices`, `MCProcess` and `MCServer` each put several components
that share no state side by side: `part` is chosen at the start and never changes, a
behaviour is one of one component, and the fairness of a component is assumed of its own
behaviours.  TLC then explores the sum, not the product, of their states.  An invariant
that is evaluated only where its component moves says so (`part = "..." => ...`); elsewhere
the component stays in an initial state.  Nothing in the code ties these components more
closely than the hand-overs named in section 1; where it does (dispatcher and retriever,
server and deployment, inbox and record, files and bridge), they are in one module.

## 3. Runs and bounds

| Run | Question | Instance | Distinct states |
| --- | --- | --- | --- |
| `device_services` | Is a stop respected, a reservation exclusive, does draining end? Is a USB event answered, a silence real, do cache and alert settle? Do operations of a key run alone and in order? | an iPad and a phone, 4 revisions, one crash; one device, two USB events, a restart, alert after 2 checks; five operations of two keys | 239 thousand |
| `job_recovery` | Do rows, ledger and history agree through crashes and shutdowns? | a pinned manual and a scheduled request for one build, a retry, two crashes or shutdowns, torn writes | 134 thousand |
| `job_dispatch` | Is a worker ever shared, the cap exceeded? | three jobs, two owners, two devices, a server-side slot, cap 1 | 636 thousand |
| `job_progress` | Is the queue exact, does every job settle that can? | two requests for one build, server-side attempts, fallback, one outside change | 146 thousand |
| `process` | Does the library agree with its files, do stores close last, are devices reached safely, is no plug lost? | three requests, two keys, two projects, two failing writes, two crashes; three works, a request, a run; a tunnel and a request, a mux fault; two plugs, two breaks, a lost stream; three uses, two devices, three connections | 238 thousand |
| `stripe_subscription` | Does the row converge, is a refund honoured and final? | one route, two changes, one invoice, refund, failure and crash | 829 thousand |
| `crypto_payment` | Does access follow payment, does dunning end, does the poller find lost payments? | one user, two ticks, in one of four scopes: one payment with every status; one with a failing lookup or a crash; one paid late, with two pollers; two payments | 266 thousand |
| `server` | Does what is repeated, late or torn count once, and do the stores agree? | see the comment of `MCServer`: two or three actors of each kind, a failing write and a crash each, two for backups, merge and starts | 2.3 million |
| `device_release`, `job_twin`, `crypto_dunning`, `apple_account` | The findings of section 6 | | |

Why the bounds are enough to be interesting.  Every action of every module fires in a
run.  Two requests for a build are what it takes to share one; three jobs and two
devices what it takes for the cap, a pin and a server-side slot to compete within one
pump; two crashes reach a crash during the recovery from a crash.  Three requests with
two keys give an eviction, a reuse and a promotion that overlap.  Four operations of a
key give a chain in which the tail has two behind it.  One Stripe route and two changes
reach a lookup that is overtaken and an answer that is late; the half-second clock with
two ticks gives two events with one date and one later.  Two plugs and two breaks of the
mux reach a device that comes back, with a new id, while the listener lists.  Three sessions
with room for two evict one.  Three deliveries of one event give a repetition during and
one after the first.  Two crashes during starts cut a first start and its resumption; one
failing and one killed restore meet both ends of every undo.  Three jobs with an
allowance of one or two fill a window, overrun a reduced one and leave it.  Bounds
(`Max...`, `Merge...`) only stop counters; they are guards of the action that counts.

`CHECK_DEADLOCK FALSE` is said where a system may stop: all requests made, all events
processed, all bounds used up.  The job module never stops.

For every property of a passing run `PROJECT.json` names a mutant: a definition of the
model and the form a plausible bug would give it, with which TLC finds the property
violated.  Mutants are the operators whose comment starts with "Mutant" or "As a bug would
have it".

### What the properties say

* `device_services`: `StopIsRespected`, `ReservationIsExclusive`, `DrainCompletes` (three
  writers of a record); `UsbEventsAreAnswered`, `PinsFollowSilence` (jobs are taken from a
  device only after it was silent for the whole span), `HealthSettles`; `RunsInOrder`
  (refinement of `SerialOrder`), `WaitingEnds`.
* `job_*`: `BooksAgree` (`LedgerMatchesJobs`, `HistoryNeverAhead`: three books after any
  crash), `RowsFollowLifecycle` (refinement), `ShutdownKeepsRunningJobs` (an orderly exit
  leaves nothing to be called interrupted; without server-side workers),
  `DispatchIsSound`, `QueueIsSound`, `ActiveJobsSettle`.
* `process`: `LibraryIsSound` (`RowsHaveFiles`, `NothingIsOrphaned`, `MemoryMatchesRows`,
  `LibraryFits`, `OneArtifactPerKey`), `PinnedSurvive`, `PromotionsEnd`;
  `NothingOutlivesStores`, `EveryShutdownEnds` (server and bridge); `BridgeIsSound`,
  `PoolIsSound`; `EventsAreExact`, `MonitorCatchesUp`.
* `stripe_subscription`: `LocalFollowsStripe`, `RefundEndsBilling`, `RefundIsFinal`,
  `RefundsEnd`.  `crypto_payment`: `AccessFollowsPayment`, `EndedIsFinal`, `PollerKeepsUp`.
* `server`: `RecordsTellTheTruth` (inbox: one handler per event, a processed record was
  processed, once, unless an invoice is replayed); `RequestsCountOnce` (`IdempotencyHolds`,
  `TriggersAreExact`, `CheckoutIsSound`); `StoresAgree` (`SessionsAgree`,
  `BackupsAreSound`, `AllowanceIsExact`, and `DatabaseSurvives` = `StartsAreSound` /\
  `RollbackIsSound`); `AccountsAreSound` (`AppleSessionIsSound`, `MergeIsComplete`);
  `ResultsAreCurrent`; `InstallsAreSound`; `SubscriptionsAreSound`.

A property that joins others has one mutant in `PROJECT.json`, in one of its parts.

## 4. Fairness

* Job store: deadlines pass, timers fire, a returned run unwinds, back-off ends.  Nothing is
  assumed of devices, for which a job may wait until its deadline, nor of the work of a
  run: after its deadline it is aborted and force-killed, and if that does not help
  `runWithJobDeadline` waits without limit and the worker stays reserved.
  `ActiveJobsSettle` says what holds all the same: a job is settled, or marked late and
  waiting for its own work only; and it is settled if its own work does return.
* Devices: the pump runs at every health poll, a finished run unwinds, the process is
  restarted.  That a run ends is a hypothesis of `DrainCompletes`, for the draining device
  only.  Nothing is assumed of administrators and of the retriever.
* Device health: a probe ends (its calls have timeouts), notification ends, time passes;
  nothing of the device or of USB events.
* Shutdown: the shutdown's own steps and timers, nothing of what it waits for.  Bridge:
  the steps of its shutdown (`BridgeProgress`).
* Device events: the bridge's listener and the monitor take their next step, a mux process
  that has ended is started again.  A stalled one need neither answer nor be killed:
  `supervise_netmuxd` kills a live process only at the request of a call that timed out,
  when no tunnel is listed and a minute has passed since the last time.  `MonitorCatchesUp`
  therefore says what holds if the process is not stalled for good, and allows a stream
  that is held after its first event (section 6).
* Artifacts: file system calls return and the chain takes its next mutation (weak
  fairness of each promotion step); the process is started again.
* Serial sections: a resolved promise continues, operations end.  Weak fairness suffices
  because nobody else can take the turn of an operation.
* Stripe: it repeats the delivery of a refund until it has a 2xx answer, and answers what
  it is asked.  The inbox also answers 200 to a duplicate while the first attempt is under
  way; when that attempt then fails, no delivery is assumed and `RefundsEnd` promises
  nothing.  Nothing is assumed of other events and of managers.  Taking the key is strongly
  fair: a refund competes with other events for it, and `WaitingEnds` of `KeyedSerial` is
  the reason why it gets it.
* NOWPayments: the poller's timer, the calls of each poller, what is under the key of each
  payment; nothing of deliveries, which may all be lost.  That the provider answers in the
  end, if only with a failure, is the timeout of the calls.

The modules of `server` state safety only: their actors may stop at any point.

## 5. Proofs

All proofs are checked by `tlapm` without omissions, for every value of the constants.
What they assume of constants are the named `ASSUME`s, which TLC evaluates in every run:
bounds are numbers, "no job", "no file", "no marker" and the like are none of the values
they are told apart from, devices and jobs of one library or quota are finitely many.
Each theorem rests on an inductive invariant `IInv`, on `Init => IInv`, on a lemma per
action, and on `IInv => property`.  TLC has checked every strengthening on the bounds of
its run before it was proved.

**Devices and serial execution**

* `DeviceReservationProofs`.  `TypeCorrectness`, `StopRespected`, `ReservationExclusive`.
  `StopIsRespected` is not
  inductive: a reservation that is still undoable could belong to a device an
  administrator has stopped since.  The strengthening says that while the revision is
  the reserved one, nobody has stopped the device; it needs that revisions only grow.
  `RetrievalReleasesUnlessDrained`: a retrieval gives the iPad back in every behaviour in
  which nobody but an administrator writes the reserved record (`RecordIsLeftAlone`); with
  the pump that drains it, finding 1.
* `DeviceServicesProofs`, about `MCDeviceServices`.
  * Promise chains: `SerialTypeCorrectness`, `NoLostChain`, `MutualExclusion`,
    `ImplementsSerialOrder`.  The inductive invariant describes the chain: previous calls
    have lower rank, the tail of a key is its newest pending call, and of two pending
    calls of a key the later waits, possibly through others, for the earlier.
    `ChainsNeverStall`: while a call waits, one of its key runs or may begin, because the
    waiting call of lowest rank waits for nobody that is pending.
  * Health: `UsbEventsAlwaysAnswered`, `PollsNeverStall` (a poll has a probe to wait for
    or people to tell, a pending refresh has such a poll), and `PinsAlwaysFollowSilence`.
    The last needs `SilenceIsKept`, which relates what the service remembers to the ghost
    history of answers: since a check after which nothing was reachable, the silence is as
    old as that check or has filled the span.
  * `ServicesAreIndependent`: a behaviour of `MCDeviceServices` is one of each of its
    three parts.  It carries the theorems of this section to the composition;
    `ServicesWellTyped` (`WellTyped`) is one of them.

**Job store** (`JobStoreProofs`)

* `BooksAlwaysAgree`, `QueueAlwaysSound`, from `JobIInv`, which speaks of one job at a time:
  where it waits, that it has a run while it is `running`, what row, ledger entry and
  history may say with a process and after its death.  An action is proved for the job it
  handles, and as a frame for the others.
* `StoreFollowsLifecycle`: `JobStore` implements `JobLifecycle`.  Initial states map to
  initial states and each step to a step or a stutter, the restart included.
* `DispatchAlwaysSound`, `JobsAlwaysStartLegally`.  One step of the pump starts several
  jobs.  The order in which it takes them is kept in the proof, so that the last job of an
  owner to be taken has counted the others, and a device is free for one of them only.
* `ExpiryFailsUnlessCopied`: in every behaviour in which no timer of a copied job fires in
  place of the job's own (`NoTwinExpires`), a recorded expiry of a queued job means that the
  job has failed, whether its timer, the pump or a cancellation ended it, and with crashes
  and restarts before.  It is a step property on purpose: as a property of states it does
  not hold, for a crash between history and rows leaves a job that runs again after a
  restart with a failure in its history.
* `ShutdownAlwaysKeepsRunningJobs`, under `OfflineEnabled = FALSE`: with server-side workers
  a run that falls back to the queue may be forgotten while its job runs again, and the
  property does not hold in general.

**Billing**

* `StripeSubscriptionProofs`.  `TypeCorrectness`; `RefundCorrectness` (a processed
  refund leaves the subscription revoked here and cancelled there), `RefundFinality`,
  and `WebhooksConverge` (`LocalFollowsStripe`).  The last needs the longest invariant:
  events carry the snapshots in order of version and date, the row is never newer than
  Stripe, and an event that could still correct an old row is still to be processed.
* `CryptoPaymentProofs`, for any number of payments, users and pollers that overlap, with
  crashes between any two writes.  `AccessAlwaysFollowsPayment` from an invariant about one
  payment: what the provider has reported, what is being handled, what the rows say, and
  that a finished or refunded payment is recorded as such unless its event is still under
  way or a crash cut it off.  `EndedIsFinalButForOldLists` (`EndedIsFinal`): only a poller
  that goes on with an old list brings an ended subscription back, and as past due, since
  what may still be completed is newer than what has ended.  `RefundEndsAccessButForGrace`:
  access that is left after a refund is the grace of a renewal, which is finding 3, or is
  due to a crash that cut the checkout off (section 6).

**One process** (`ProcessProofs`, about `MCProcess`)

* `ShutdownIsClean`: no request is cut before the server was closed, and no work can begin
  once the last drain has resolved in a process without requests and runs.  Handlers whose
  client had gone before are excepted, with the work they begin (`orphans`, section 6).
* `ConnectionsAreSound`: who holds the lock of a device is the user of its connection.
  `BridgeSound`: a tunnel that was answered is in the map until its client gives it up, so
  recovery spares it, unless it entered the map after the last look (`late`).
* `LibraryAlwaysSound`, `PinnedAlwaysSurvive`: one holder of the mutation chain at a time;
  each file belongs to a row or to the step of the holder; an eviction plan stays valid
  while its holder awaits, because whatever else changes pins takes the same chain.
* `EventsAlwaysExact`: for each device the last word that is on its way, in the mux, on the
  wire or in the client, is what is the case; the queue of refreshes misses no device.
* `ProcessWellTyped`: here the mux recoveries wanted are counted against the requests.

**The server** (`ServerProofs`, `ServerStoreProofs`, about `MCServer`)

* `EventsCountOnce`, `KeysCountOnce`, `CheckoutSound`, together `RequestsOnce`.  A reserved
  row has the request that inserted it; the requests of a key stand in a line of promises, of
  which the first alone looks the key up; a page that is answered was asked for.
* `OperationsStartOnce`, `InstallsAlwaysSound`.  The id of an operation is fresh until an
  attempt asks with it, and has one start after.  A graceful shutdown makes ids return
  (section 6): `cutOff` remembers them, and the attempt that repeats them is excepted, in the
  invariant and in the property; whatever is asked later has ids of its own again.
* `SubscriptionsAlwaysSound`: memory is ahead of the table, one open subscription of the
  invite is saved beside those whose creation could not be written, what is asked of a
  device was granted by a manager, and "active" was read from the bridge.
* `AccountsAlwaysSound`, `ResultsAlwaysCurrent`.  The tasks of the Apple Account stand in a
  line and the first has the workspace; only the sign-in that is `running` may report.  For
  the merge: a store that has passed belongs to the target, in memory and on disk, and what is
  announced and has not passed is still held by the source.
* `StoresAlwaysAgree` has four parts.  Sessions: the snapshot never differs from the table in
  the order of what both have, so that equally many same sessions are the same sequence, and
  the start-up comparison refuses nothing else.  Backups: rows in memory are rows on disk, and
  directories besides belong to the operation under way or were left by a failure
  (`strays`).  Allowance: an entry follows the row of its
  job; the moment a refused account is told exists in the sorted list of its entries and is the
  right one.  Database: while there is a marker there is no snapshot, and a file without a
  marker and snapshot is `pending`; while a restore replaces files this is only known of a
  *usable* file, and no server starts on another.  A restore that begins anew is recognised by the
  candidate's file, which is never equal to the copy, so it cannot be taken for the result.
* `Exclusion`, `ProcessedRecords`, `QuarantineRespected` (inbox), from "claims are exactly
  the records of working handlers, one each"; `RecordsAlwaysTellTheTruth` for the server.
* `ServerIsItsParts`: a behaviour of `MCServer` is one of each of its twelve modules.
* `ServerAlwaysTyped`.

Induction over data is reached where it is needed (queues, rows, the sorted list of
entries) as induction over sets of numbers: `SetInduction` and the lemmas before it, from
`WellFoundedInduction`.

Only model-checked: liveness (the prover has no rules for fairness and ENABLED).  Every
safety property of a run that passes is a theorem, under a condition where one is named
above; `ChainsNeverStall` and `PollsNeverStall` are the safety half of `WaitingEnds` and
`HealthSettles`.  Of the four properties of the runs that fail, three are theorems under
the condition their finding violates; for `VerifiedSessionIsOwn` (finding 4) there is no
such condition on the constants.

## 6. Findings and observations

Findings (each a run that must fail, with the text of the repository it contradicts in
`PROJECT.json`):

1. `device_release`: a credential retrieval reserves the iPad by draining it; the next
   pump disables an idle draining device and thereby changes its revision; the retriever
   then finds another revision and leaves the iPad disabled.
2. `job_twin`: after a restart the deadline timer of a queued job holds the object
   `loadDatabaseJobs` has just copied, so its expiry fails an object nobody reads and
   leaves the job queued without queue entry and timer.
3. `crypto_dunning`: a payment that is refunded after its renewal fell due keeps access
   until the end of the grace period, because the refund's time is older than the row
   the dunning has written.

4. `apple_account`: a download, or a sign-in that has timed out, may still hold a
   workspace when the account is replaced; when it ends it saves its session into the row
   of the new account and marks that account as verified.

Observations: behaviours the models contain that no document contradicts plainly enough,
or for which the project has no run of its own.  Those with a configuration, or a change to
one, are reproduced by it (with `SPECIFICATION Spec` and only the named property); TLC then
reports that property as violated.

* `AcknowledgedIsHandled` in `MCWebhookInbox` (events, invoices and handlers of that module, no
  failing write and no crash): a duplicate
  delivery is acknowledged while the first is being processed; when the first then fails,
  the record is `failed`, the provider does not retry, and only a manager's replay is left
  (`routes/billing.ts:366`).
* `StripeSubscription.cfg` with `MaxVersion = 3`, `MaxTime = 3` and no invoice, refund, failure
  or crash (`AnswersDoNotOverwrite`): the cancel
  and change routes store a delayed answer with the time of storing and so overwrite the row
  of a newer event; lookups dated before are dropped (`routes/billing.ts:628`, `791`, `279`).
* `CryptoPayment.cfg` with `MCSpec`, `Pollers = {}`, `Scopes = {"faults"}`
  (`RefundEndsAccess`, in `MCCryptoPayment`): a crash between the writes of subscription and
  checkout; the redelivery finds the payment known, and a refund then only cancels the
  checkout and leaves access (`cryptoBilling.ts:312`, `331`).  After a crash between checkout and charge (`332`) the
  charge is never recorded, for the same reason.  `AccessFollowsPayment` excepts both (`torn`).
* The poller writes the row it read before an await over one that was cancelled or revoked
  meanwhile, which is then past due with a grace (`cryptoBilling.ts:235`).  This takes two
  payments that are due, or two reconciliations that overlap (`252`).  `EndedIsFinal` excepts
  this step, and this one alone (`MarksOldRow`).
* Shutdown: `server.close()` waits for connections, so a handler whose client has gone, or
  whose connection was closed at the timeout, goes on while the stores are closed
  (`server.ts:452`-`475`).  In the first case the shutdown takes itself for complete; in the
  second it warns and exits.
* `DeploymentRollbackStarts.cfg` (`DeploymentRollback`).  `PreviousStarts`: when the
  candidate was the first to start on an empty volume and was stopped while it initialised, the undo removes
  the database but not `dkrypt.sqlite.initializing`; the marker binds a file that is gone, and
  every later start is refused ("SQLite initialization marker does not match the database").
  In the test "returns a failed first-start database to the pre-deploy empty state"
  (`deploymentDatabase.test.ts`) the candidate has finished its initialisation.  `state.json` stays as
  well, so a start after an undone first deployment initialises itself from the candidate's
  state.  `RestoreCanBeRepeated`: a restore that was killed after it had kept the candidate's
  database finds it when it is given again, refuses ("failed deployment recovery database
  already exists") and puts the candidate's database back.
* `AppInstallReissue.cfg` (`AppInstall`, `ReissueAsksAgain`): the repeated TestFlight request
  has the operation id of the first, so the bridge resumes the first
  (`testflight.test.ts:104` expects the install to be reissued).  A graceful shutdown queues
  a job again with the retry count it had, so its next run asks with the id of an operation
  of the last and is resumed: it may wait for an install that was asked for before the
  shutdown.  `InstallsAreSound` excepts this attempt, and this one alone (`cutOff`).
* `BetaSubscriptionOverlap.cfg` (`BetaSubscription`, `WithdrawnIsLeft`): a synchronisation that overlaps
  a removal leaves the device subscribed.  Also: a creation whose write fails stays in
  memory; an accepted removal is forgotten by a crash; a status the bridge has stored
  answers for up to half an hour.
* `DeviceBridgeTunnels.cfg` (`DeviceBridge`, `TunnelsAreOwned`): a tunnel whose client gave up
  while it was opened is owned by nobody, and recovery of the mux is refused as long as it
  is counted.  So it is by a tunnel whose accept has failed: its task is over and its entry
  stays (`main.rs:807`).  A tunnel that enters the map between the recovery's last look and
  the kill loses its mux (`main.rs:1281`, `1286`).
* `AccountMergeLeft.cfg` (`AccountMerge`, `NothingIsLeft`): what a merge leaves with the
  source.  `mergeUserAccounts` returns early when the source is not among the allowed
  users, though the review announces projects as merged; a failed write of billing or jobs
  and a crash leave its rows behind; a checkout or poll writes the account it read before an
  await; requests of the source under way create jobs for it; passkeys do not move, nor does
  `entitlementHistory`, which the export of the target's data then lacks
  (`billing.ts:479`, `privacy.ts:59`).
* Project quota: a link made outside the mutation chain uses up a project's storage quota
  between the check of a promotion (`artifacts.ts:524`) and its commit.  `Process.cfg` with
  `MaxBytes = 3`, `MaxFailures = 0`, `MaxLibraryCrashes = 0` violates `ProjectQuotaHolds`.
* Held streams: a request the mux holds after the first event is watched by nobody.
  `EventsSpec` of `DeviceEvents` with one device, one plug, two breaks and no loss violates
  `EventsAreWatched`.  A device that is gone may miss the refresh that would say so.  A
  mux process that stalls stays so as long as no call times out or a tunnel is listed.
* Backup schedule: a schedule posted with some of its fields puts `undefined` into the
  state, and every later `persistNow` throws until a complete one is posted or the server
  restarts (`routes/dashboardBackupRoutes.ts:133`; `Persists` in `Backups`, with the patch
  `Torn`).
* Backup directories: when the size of a published snapshot cannot be read (`state.ts:4165`,
  outside the `try`), or a directory cannot be removed (`4187`, `4369`), a directory without
  a row stays until the next start (`strays`).

## 7. What is not modelled

The map covers about a tenth of the repository's lines.  Most of the rest is the dashboard,
contracts and generated clients, route handlers that validate and format around operations
that are modelled, protocol code, and the collections of `store/state.ts` that are one list
with one writer each; modelling those would restate assignments.

Of what has behaviour, these are left out:

* Authentication (MFA, passkeys, OAuth), permissions, API keys, project roles.
* Notifications: digests are in memory only, lost at a shutdown outside their hour, keep
  twenty entries and are not flushed when a user changes to instant delivery.  Job webhooks.
* The dashboard's cache of server state and its live updates.
* Untracked `void` operations at shutdown; the number of USB events is bounded.
* Windows of one microtask: `deviceHealth.ts:480` (the queue has looked at `rerun` for the last
  time), `jobs/store.ts:1122` (a job queued again before the `finally` of its run), the retry of
  a transient SSH failure in `idevice.ts`.
* Two clocks (`billing.ts:356`): all times of a module come from one.
* Two checkouts with different keys, both paid; a look-up that throws between the lock and
  the `try` of a checkout (`routes/billing.ts:515`).
* Pruning of the inbox to 5000 records (`store/webhookInboxRepository.ts:46`).
* Another install that lands between the verification of a build and its decryption
  (`jobs/runner.ts:126`).
* The bridge's secret (`idevice.ts:1303`), its states `authorizing` and
  `requires_user_action`; several devices behind one lock in `DeviceHealth`.
* Two server processes that start on one new database at once.
* Failures of single writes in the job store; the copy before migrations; pre-deployment
  trials; the decision of the health probe.
* A forced poll that joins a probe begun before it.

## 8. Plan

Modelled, in this order: devices, job store, artifacts, serial sections, inbox, Stripe,
NOWPayments, Apple Account, health, shutdown, sessions, requests, checkouts, installs,
bridge, events, TestFlight subscriptions, connections, backups, merge, allowance, start and deployment.  Next:

1. Proofs: the invariants of the observations in section 6 under the conditions in which
   they do hold.
2. The remaining collections of `store/state.ts` whose operations await (project storage,
   API-key caps at admission).
3. Digests and job webhooks, if delivery is to be promised.

New behaviours join the runs whose question they extend.

## 9. How to run

    tlc -workers 2 -config JobStoreRecovery.cfg MCJobStore
    tlc -workers 2 -config StripeSubscription.cfg StripeSubscription
    tlc -workers 2 -config DeploymentRollbackStarts.cfg DeploymentRollback
    tlapm StripeSubscriptionProofs.tla
    tlapm ServerStoreProofs.tla

The configuration of each run, its module and its expected outcome are in
`PROJECT.json`.  `server` takes about three minutes with two workers; the proofs of
`ServerProofs` and `ServerStoreProofs` about ten minutes each.
