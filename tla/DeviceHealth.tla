---------------------------- MODULE DeviceHealth ----------------------------
(***************************************************************************)
(* The health of one device (packages/dkrypt/src/deviceHealth.ts): probes  *)
(* that callers share, polls on a timer and after USB events, the cache    *)
(* that forgives failures, the history in the state store, and the alert   *)
(* that releases the jobs pinned to the device.                            *)
(*                                                                         *)
(* Time is counted in units of which Interval make a poll interval; a      *)
(* probe ends within ProbeTime of them by its own timeouts.  A probe sees  *)
(* the device as it is when the probe begins or when it ends.              *)
(***************************************************************************)
EXTENDS Integers, Sequences

CONSTANTS
  Conditions,    \* what a probe may find: see AllConditions
  Interval,      \* HEALTH_POLL_INTERVAL_MS
  Confirmations, \* HEALTH_FAILURE_CONFIRMATIONS
  Checks,        \* DEVICE_OFFLINE_CONFIRMATION_CHECKS
  Span,          \* DEVICE_OFFLINE_CONFIRMATION_SPAN_MS
  Window,        \* DEVICE_OFFLINE_CONFIRMATION_WINDOW_MS
  AlertAfter,    \* settings.deviceOfflineAlertMinutes
  ProbeTime,
  MaxUsbEvents,  \* bound on the USB events of the device
  MaxRestarts    \* bound on the restarts of the server

(* `unverified' is a reachable device whose jailbreak is not confirmed,    *)
(* `blocked' one with any other blocker.                                   *)
AllConditions == {"ready", "blocked", "unverified", "off"}

ASSUME ConditionsAssumption == Conditions \subseteq AllConditions
ASSUME HealthTimesAssumption ==
  /\ {Interval, Confirmations, Checks} \subseteq Nat \ {0}
  /\ {Span, AlertAfter, ProbeTime, MaxUsbEvents, MaxRestarts} \subseteq Nat
  /\ Window \in Nat /\ Span <= Window

VARIABLES
  condition,  \* the device itself
  probe,      \* pendingDeviceHealth: the probe that callers without signal share
  jobProbe,   \* the probe of a job, which nobody shares
  poll,       \* pendingDeviceHealthPolls
  refresh,    \* the entry of DeviceHealthRefreshQueue
  cached,     \* the cached health
  knownGood,  \* lastKnownGoodDeviceHealth has an entry
  failures,   \* deviceHealthFailures
  checks,     \* deviceHealthHistory, oldest first, as far as it is looked at
  outage,     \* age of unreachableSince
  alerted,    \* offlineAlertSentAt is set
  phase,      \* units since the poll timer fired
  (* history *)
  owed,       \* a USB event came after the last poll began
  quiet,      \* units since a poll last got an answer from the device
  usbEvents, restarts

healthVars == <<condition, probe, jobProbe, poll, refresh, cached, knownGood,
                failures, checks, outage, alerted, phase, owed, quiet, usbEvents, restarts>>

Nothing == "nothing"
NoOutage == -1
Reachable == -1   \* a check that found the device; the others are their age
NoProbe == [saw |-> Nothing, age |-> 0]
OldAge == Window + 1

HealthTypeOK ==
  /\ condition \in Conditions
  /\ probe \in {NoProbe} \cup [saw: Conditions, age: 0..ProbeTime]
  /\ jobProbe \in Conditions \cup {Nothing}
  /\ poll \in {"none", "probing", "telling"}
  /\ refresh \in {"none", "waiting", "running", "rerun"}
  /\ cached \in Conditions \cup {Nothing}
  /\ knownGood \in BOOLEAN
  /\ failures \in 0..Confirmations
  /\ checks \in Seq({Reachable} \cup 0..OldAge) /\ Len(checks) <= Checks
  /\ outage \in NoOutage..AlertAfter
  /\ alerted \in BOOLEAN
  /\ phase \in 0..(Interval - 1)
  /\ owed \in BOOLEAN
  /\ quiet \in 0..Span
  /\ usbEvents \in 0..MaxUsbEvents
  /\ restarts \in 0..MaxRestarts

Older(age, most) == IF age \in {-1, most} THEN age ELSE age + 1
NewProbe == [saw |-> condition, age |-> 0]

(* startDeviceHealthPoller begins with a poll.                             *)
HealthInit ==
  /\ condition \in Conditions
  /\ probe = NewProbe
  /\ jobProbe = Nothing
  /\ poll = "probing"
  /\ refresh = "none"
  /\ cached = Nothing
  /\ knownGood = FALSE
  /\ failures = 0
  /\ checks = <<>>
  /\ outage = NoOutage
  /\ alerted = FALSE
  /\ phase = 0
  /\ owed = FALSE
  /\ quiet = 0
  /\ usbEvents = 0
  /\ restarts = 0

----------------------------------------------------------------------------
(* The cache.                                                              *)

(* stabilizeDeviceHealth: the last good health hides the first failures.   *)
Stabilized(result, count) ==
  IF result = "unverified" \/ ~knownGood \/ count >= Confirmations THEN result ELSE "ready"

(* Mutant: a failure is not added to those before.                         *)
FailuresOnce(result) == IF result = "ready" THEN 0 ELSE 1

FailuresWith(result) == IF result = "ready" THEN 0 ELSE Older(failures, Confirmations)
CachedWith(result) ==
  IF result = "ready" THEN result ELSE Stabilized(result, FailuresWith(result))

(* cacheDeviceHealth.                                                      *)
CacheHealth(result) ==
  /\ failures' = FailuresWith(result)
  /\ cached' = CachedWith(result)
  /\ knownGood' = (knownGood \/ result = "ready")

----------------------------------------------------------------------------
(* Polls.                                                                  *)

(* A forced read without signal joins the shared probe or begins one.      *)
BeginPoll(pending) ==
  /\ poll' = "probing"
  /\ probe' = IF pending = NoProbe THEN NewProbe ELSE pending
  /\ owed' = FALSE

(* The poll is over: a refresh that waits, or is asked to run again,       *)
(* begins its own.                                                         *)
PollEnds(pending) ==
  IF refresh \in {"waiting", "rerun"}
  THEN refresh' = "running" /\ BeginPoll(pending)
  ELSE refresh' = "none" /\ poll' = "none" /\ probe' = pending /\ UNCHANGED owed

(* Mutant: a short outage will do.                                         *)
SustainedBriefly(history) ==
  Len(history) = Checks /\ \A i \in DOMAIN history : history[i] # Reachable

(* hasSustainedDeviceHealthFailures, of a history that ends now.           *)
Sustained(history) ==
  /\ Len(history) = Checks
  /\ \A i \in DOMAIN history : history[i] # Reachable
  /\ history[1] <= Window
  /\ history[1] - history[Checks] >= Span

(* recordDeviceHealthCheck *)
Recorded(reachable) ==
  LET all == Append(checks, IF reachable THEN Reachable ELSE 0) IN
  IF Len(all) > Checks THEN Tail(all) ELSE all

(* checkOfflineAlert: the jobs pinned to the device are released when the  *)
(* outage is noticed, people are told when it lasts.                       *)
OfflineAlert(reachable) ==
  CASE reachable ->
         outage' = NoOutage /\ alerted' = FALSE
    [] ~reachable /\ ~Sustained(Recorded(reachable)) ->
         UNCHANGED <<outage, alerted>>
    [] OTHER ->
         /\ outage' = IF outage = NoOutage THEN 0 ELSE outage
         /\ alerted' = (alerted \/ outage' >= AlertAfter)

(* The shared probe ends.  A poll that waits for it records the cached     *)
(* health; it stays pending while people are told (notify).                *)
ProbeEnds ==
  /\ probe # NoProbe
  /\ \E result \in {probe.saw, condition} :
       /\ CacheHealth(result)
       /\ IF poll = "probing"
          THEN LET reachable == CachedWith(result) # "off" IN
               /\ checks' = Recorded(reachable)
               /\ OfflineAlert(reachable)
               /\ quiet' = IF result = "off" THEN quiet ELSE 0
               /\ IF ~alerted /\ alerted'
                  THEN poll' = "telling" /\ probe' = NoProbe /\ UNCHANGED <<refresh, owed>>
                  ELSE PollEnds(NoProbe)
          ELSE probe' = NoProbe
               /\ UNCHANGED <<poll, refresh, checks, outage, alerted, owed, quiet>>
  /\ UNCHANGED <<condition, jobProbe, phase, usbEvents, restarts>>

NotifyEnds ==
  /\ poll = "telling"
  /\ PollEnds(probe)
  /\ UNCHANGED <<condition, jobProbe, cached, knownGood, failures, checks, outage,
                 alerted, phase, quiet, usbEvents, restarts>>

(* A dashboard request begins a probe that a later poll may join.          *)
DashboardProbe ==
  /\ probe = NoProbe
  /\ probe' = NewProbe
  /\ UNCHANGED <<condition, jobProbe, poll, refresh, cached, knownGood, failures,
                 checks, outage, alerted, phase, owed, quiet, usbEvents, restarts>>

(* A job probes with its signal; its result is dropped when it is aborted. *)
JobProbe ==
  /\ jobProbe = Nothing
  /\ jobProbe' = condition
  /\ UNCHANGED <<condition, probe, poll, refresh, cached, knownGood, failures, checks,
                 outage, alerted, phase, owed, quiet, usbEvents, restarts>>
JobProbeEnds ==
  /\ jobProbe # Nothing
  /\ jobProbe' = Nothing
  /\ \/ \E result \in {jobProbe, condition} : CacheHealth(result)
     \/ UNCHANGED <<cached, knownGood, failures>>
  /\ UNCHANGED <<condition, probe, poll, refresh, checks, outage, alerted, phase, owed,
                 quiet, usbEvents, restarts>>

----------------------------------------------------------------------------
(* Mutant: a refresh that runs is not asked to run again.                  *)
RequestIfIdle ==
  CASE refresh = "none" /\ poll = "none" -> refresh' = "running" /\ BeginPoll(probe)
    [] refresh = "none" /\ poll # "none" -> refresh' = "waiting" /\ owed' = TRUE /\ UNCHANGED <<poll, probe>>
    [] OTHER -> owed' = TRUE /\ UNCHANGED <<refresh, poll, probe>>

(* DeviceHealthRefreshQueue.request, which waits for the pending poll.     *)
RequestRefresh ==
  CASE refresh = "none" /\ poll = "none" -> refresh' = "running" /\ BeginPoll(probe)
    [] refresh = "none" /\ poll # "none" -> refresh' = "waiting" /\ owed' = TRUE /\ UNCHANGED <<poll, probe>>
    [] refresh \in {"running", "rerun"} -> refresh' = "rerun" /\ owed' = TRUE /\ UNCHANGED <<poll, probe>>
    [] OTHER -> owed' = TRUE /\ UNCHANGED <<refresh, poll, probe>>

(* refreshUsbDeviceHealth: the device is plugged in or pulled out.         *)
UsbEvent ==
  /\ usbEvents < MaxUsbEvents
  /\ usbEvents' = usbEvents + 1
  /\ RequestRefresh
  /\ UNCHANGED <<condition, jobProbe, cached, knownGood, failures, checks, outage,
                 alerted, phase, quiet, restarts>>

ConditionChanges ==
  /\ \E c \in Conditions \ {condition} : condition' = c
  /\ UNCHANGED <<probe, jobProbe, poll, refresh, cached, knownGood, failures, checks,
                 outage, alerted, phase, owed, quiet, usbEvents, restarts>>

(* Time passes; when the timer fires, the poll in progress is joined.      *)
Tick ==
  /\ probe # NoProbe => probe.age < ProbeTime
  /\ phase' = (phase + 1) % Interval
  /\ checks' = [i \in DOMAIN checks |-> Older(checks[i], OldAge)]
  /\ outage' = Older(outage, AlertAfter)
  /\ quiet' = Older(quiet, Span)
  /\ LET older == IF probe = NoProbe THEN probe ELSE [probe EXCEPT !.age = @ + 1] IN
     IF phase' = 0 /\ poll = "none" THEN BeginPoll(older)
     ELSE probe' = older /\ UNCHANGED <<poll, owed>>
  /\ UNCHANGED <<condition, jobProbe, refresh, cached, knownGood, failures, alerted,
                 usbEvents, restarts>>

(* Only the history survives.                                              *)
Restarted ==
  /\ restarts < MaxRestarts
  /\ restarts' = restarts + 1
  /\ probe' = NewProbe
  /\ jobProbe' = Nothing
  /\ poll' = "probing"
  /\ refresh' = "none"
  /\ cached' = Nothing
  /\ knownGood' = FALSE
  /\ failures' = 0
  /\ outage' = NoOutage
  /\ alerted' = FALSE
  /\ phase' = 0
  /\ owed' = FALSE
  /\ UNCHANGED <<condition, checks, quiet, usbEvents>>

HealthProgress == ProbeEnds \/ NotifyEnds \/ Tick

HealthNext ==
  \/ HealthProgress
  \/ DashboardProbe
  \/ JobProbe
  \/ JobProbeEnds
  \/ UsbEvent
  \/ ConditionChanges
  \/ Restarted

HealthSpec == HealthInit /\ [][HealthNext]_healthVars

(* Probes and deliveries end by their timeouts, and time passes.           *)
HealthFairness ==
  WF_healthVars(ProbeEnds) /\ WF_healthVars(NotifyEnds) /\ WF_healthVars(Tick)

----------------------------------------------------------------------------
(* Properties.                                                             *)

(* A USB event that came after the last poll began has a refresh that will *)
(* begin another (deviceHealth.test.ts: "runs again when another USB event *)
(* arrives during a health refresh").                                      *)
UsbEventsAreAnswered == owed => refresh \in {"waiting", "rerun"}

(* Jobs are taken from a device only after it has been silent for the      *)
(* whole span, however often it is polled and whatever other probes and    *)
(* restarts do to the cache (checkOfflineAlert).                           *)
PinsFollowSilence == [][outage = NoOutage /\ outage' # NoOutage => quiet >= Span]_healthVars

(* While time passes, a device that stays away is shown as offline and     *)
(* reported, one that stays ready is shown as ready and not reported: no   *)
(* failure is forgiven for ever and no jitter of the polls hides an outage. *)
HealthSettles ==
  []<><<Tick>>_healthVars =>
    /\ <>[](condition = "off") => <>[](cached = "off" /\ alerted)
    /\ <>[](condition = "ready") => <>[](cached = "ready" /\ ~alerted)
=============================================================================
