---------------------------- MODULE AppInstall ----------------------------
(* Installing the app of a job on a device: installBuild (testflight.ts)    *)
(* and installFromAppStore (appStoreInstall.ts) on the server, request and  *)
(* response files between them (sendBridgeRequestRawTo in idevice.ts), and  *)
(* the bridge inside TestFlight and the App Store (Tweak.x), which keeps a  *)
(* transaction file for every operation.                                    *)
(*                                                                          *)
(* The server installs one app at a time: an attempt runs inside withSSH,   *)
(* whose lock is global. A job may be retried MaxRetries times. An          *)
(* operation identifies what is asked for: all attempts of a TestFlight job *)
(* share one, each App Store attempt and its download retry has its own.    *)
(* Request and response files are named by a request id. For TestFlight it  *)
(* is the operation id; for the App Store it is new for every request, and  *)
(* an operation is asked for once in a run of the server. Times are left    *)
(* out: a deadline may pass at any moment, and a file of an operation is    *)
(* swept (after 30 minutes) only while no attempt (4 to 5 minutes) is using *)
(* it.                                                                      *)
EXTENDS Naturals

CONSTANTS
  InstallJobs,   \* jobs that are attempt on the device
  StoreJobs,     \* those of them whose app comes from the App Store
  MaxRetries,    \* bound: attempts of a job after the first
  MaxDeaths,     \* bound: the app with the bridge in it is killed
  MaxSweeps,     \* bound: old files are removed
  MaxShutdowns,  \* bound: the server is shut down and started again
  NoJob, NoOperation

ASSUME InstallAssumption ==
  /\ StoreJobs \subseteq InstallJobs
  /\ NoJob \notin InstallJobs /\ MaxRetries \in Nat
  /\ MaxDeaths \in Nat /\ MaxSweeps \in Nat /\ MaxShutdowns \in Nat

(* Mutant: every retry of an App Store job has the id of its first attempt. *)
OperationOfJob(j, retry, again) ==
  [job |-> j, retry |-> 0, again |-> j \in StoreJobs /\ again]

(* buildAppStoreOperationId and the ids installBuild gets.                  *)
OperationId(j, retry, again) ==
  IF j \in StoreJobs THEN [job |-> j, retry |-> retry, again |-> again]
                     ELSE [job |-> j, retry |-> 0, again |-> FALSE]

Operations ==
  {OperationId(j, n, again) : j \in InstallJobs, n \in 0 .. MaxRetries, again \in BOOLEAN}

NoRequest == [op |-> NoOperation, run |-> 0]
RequestIds ==
  {[op |-> o, run |-> n] : o \in Operations, n \in 0 .. MaxShutdowns}

ASSUME NoOperationAssumption == NoOperation \notin Operations

Channels == {"testflight", "appstore"}
ChannelOf(o) == IF o.job \in StoreJobs THEN "appstore" ELSE "testflight"

VARIABLES
  run,    \* the attempt under way: its job, operation, phase, what it has seen,
              \* and (history) `starts' when its latest request was sent
  retries,    \* retryCount of a job
  outcome,    \* what has become of a job
  requests,   \* request files
  hand,       \* by channel: the request the bridge is handling and how far it is
  answers,    \* response files
  transaction,\* transaction files
  status,     \* the status file of the App Store's bridge: the latest operation
  wanted,     \* installs the system has been asked for and has not finished
  onDevice,   \* whose build of the app is installed
  starts,      \* history: requests to the system per operation, while its transaction is kept
  cutOff,      \* history: operations of attempts that a shutdown has cut off
  deaths, sweeps, shutdowns
faults == <<cutOff, deaths, sweeps, shutdowns>>
installVars == <<run, retries, outcome, requests, hand, answers, transaction,
                 status, wanted, onDevice, starts, faults>>

serverSide == <<run, retries, outcome>>
bridge == <<hand, transaction, status, starts, faults>>
os     == <<wanted, onDevice>>

NoRun == [job |-> NoJob, op |-> NoOperation, phase |-> "none", again |-> FALSE, seen |-> "none", base |-> 0]
Idle      == [id |-> NoRequest, step |-> "none"]

InstallTypeOK ==
  /\ run \in [job : InstallJobs \cup {NoJob}, op : Operations \cup {NoOperation},
                  phase : {"none", "ready", "asking", "waiting"}, again : BOOLEAN,
                  seen : {"none", "requested", "completed"}, base : Nat]
  /\ retries \in [InstallJobs -> 0 .. MaxRetries]
  /\ outcome \in [InstallJobs -> {"open", "installed", "ended"}]
  /\ requests \subseteq RequestIds
  /\ hand \in [Channels -> [id : RequestIds \cup {NoRequest}, step : {"none", "taken", "recorded"}]]
  /\ answers \in [RequestIds -> {"none", "accepted", "refused"}]
  /\ transaction \in [Operations -> {"none", "requested", "completed", "failed"}]
  /\ status \in [op : Operations \cup {NoOperation}, state : {"none", "requested", "completed", "failed"}]
  /\ wanted \subseteq Operations
  /\ onDevice \in InstallJobs \cup {NoJob}
  /\ starts \in [Operations -> Nat]
  /\ cutOff \subseteq Operations
  /\ deaths \in 0 .. MaxDeaths /\ sweeps \in 0 .. MaxSweeps
  /\ shutdowns \in 0 .. MaxShutdowns

InstallInit ==
  /\ run = NoRun
  /\ retries = [j \in InstallJobs |-> 0]
  /\ outcome = [j \in InstallJobs |-> "open"]
  /\ requests = {}
  /\ hand = [c \in Channels |-> Idle]
  /\ answers = [q \in RequestIds |-> "none"]
  /\ transaction = [o \in Operations |-> "none"]
  /\ status = [op |-> NoOperation, state |-> "none"]
  /\ wanted = {} /\ onDevice = NoJob
  /\ starts = [o \in Operations |-> 0]
  /\ cutOff = {}
  /\ deaths = 0 /\ sweeps = 0 /\ shutdowns = 0
-----------------------------------------------------------------------------
(* The server.                                                              *)

(* The attempt ends without the app.  Its job fails, is cancelled, or is    *)
(* tried again.                                                             *)
Ends(j) ==
  /\ run' = NoRun
  /\ \/ outcome' = [outcome EXCEPT ![j] = "ended"] /\ UNCHANGED retries
     \/ /\ retries[j] < MaxRetries
        /\ retries' = [retries EXCEPT ![j] = @ + 1]
        /\ UNCHANGED outcome

(* restartAppStore: whatever its bridge had in hand is lost.                *)
Restarts(j) ==
  hand' = IF j \in StoreJobs THEN [hand EXCEPT !["appstore"] = Idle] ELSE hand

(* An App Store job removes the installed app and restarts the App Store.   *)
StartAttempt(j) ==
  /\ run = NoRun /\ outcome[j] = "open"
  /\ run' = [job |-> j, op |-> OperationId(j, retries[j], FALSE), phase |-> "ready",
                 again |-> FALSE, seen |-> "none", base |-> 0]
  /\ Restarts(j)
  /\ onDevice' = IF j \in StoreJobs THEN NoJob ELSE onDevice
  /\ UNCHANGED <<retries, outcome, requests, answers, transaction, status, wanted, starts, faults>>

(* The id of a request for an operation.                                    *)
RequestId(o) == [op |-> o, run |-> IF o.job \in StoreJobs THEN shutdowns ELSE 0]

(* sendBridgeRequestRawTo writes the request.                               *)
Ask ==
  /\ run.phase = "ready"
  /\ run' = [run EXCEPT !.phase = "asking", !.base = starts[run.op]]
  /\ requests' = requests \cup {RequestId(run.op)}
  /\ UNCHANGED <<retries, outcome, answers, bridge, os>>

(* A response of that name is there: it is removed.  Only a refusal also    *)
(* removes the request.                                                     *)
TakeAnswer ==
  /\ run.phase = "asking" /\ answers[RequestId(run.op)] # "none"
  /\ answers' = [answers EXCEPT ![RequestId(run.op)] = "none"]
  /\ IF answers[RequestId(run.op)] = "accepted"
       THEN /\ run' = [run EXCEPT !.phase = "waiting"]
            /\ UNCHANGED <<retries, outcome, requests>>
       ELSE /\ Ends(run.job)
            /\ requests' = requests \ {RequestId(run.op)}
  /\ UNCHANGED <<bridge, os>>

(* The request times out, or the job is aborted while it waits: the files   *)
(* are removed, unless that fails too.                                      *)
GiveUpAsking ==
  /\ run.phase = "asking"
  /\ \/ /\ requests' = requests \ {RequestId(run.op)}
        /\ answers' = [answers EXCEPT ![RequestId(run.op)] = "none"]
     \/ UNCHANGED <<requests, answers>>
  /\ Ends(run.job)
  /\ UNCHANGED <<bridge, os>>

(* The App Store's status is read.  It counts only if it is about this      *)
(* operation.                                                               *)
ReadStatus ==
  /\ run.phase = "waiting" /\ run.job \in StoreJobs
  /\ run.seen # "completed" /\ status.op = run.op
  /\ IF status.state = "failed"
       THEN Ends(run.job)
       ELSE run' = [run EXCEPT !.seen = status.state] /\ UNCHANGED <<retries, outcome>>
  /\ UNCHANGED <<requests, answers, bridge, os>>

(* The version on the device is the one the job is for.                     *)
Verify ==
  /\ run.phase = "waiting" /\ onDevice = run.job
  /\ run' = NoRun
  /\ outcome' = [outcome EXCEPT ![run.job] = "installed"]
  /\ UNCHANGED <<retries, requests, answers, bridge, os>>

(* Nothing has arrived: TestFlight is asked once more after two minutes,    *)
(* the App Store (restarted) when it has confirmed the purchase.            *)
AskAgain ==
  /\ run.phase = "waiting" /\ ~run.again /\ onDevice # run.job
  /\ run.job \in StoreJobs => run.seen = "completed"
  /\ LET o == OperationId(run.job, run.op.retry, TRUE) IN
       /\ run' = [run EXCEPT !.op = o, !.phase = "asking", !.again = TRUE,
                                     !.seen = "none", !.base = starts[o]]
       /\ requests' = requests \cup {RequestId(o)}
  /\ Restarts(run.job)
  /\ UNCHANGED <<retries, outcome, answers, transaction, status, starts, faults, os>>

(* The wait times out, or the job is aborted.                               *)
GiveUpWaiting ==
  /\ run.phase \in {"ready", "waiting"}
  /\ Ends(run.job)
  /\ UNCHANGED <<requests, answers, bridge, os>>

(* A graceful shutdown that does not wait for the run: the job is queued    *)
(* again with the retryCount it has, so its next attempt has the same ids.  *)
ShutDown ==
  /\ run # NoRun /\ shutdowns < MaxShutdowns
  /\ shutdowns' = shutdowns + 1
  /\ run' = NoRun
  /\ cutOff' = cutOff \cup {o \in Operations : o.job = run.job /\ o.retry = run.op.retry}
  /\ \/ /\ requests' = requests \ {RequestId(run.op)}
        /\ answers' = [answers EXCEPT ![RequestId(run.op)] = "none"]
     \/ UNCHANGED <<requests, answers>>
  /\ UNCHANGED <<retries, outcome, hand, transaction, status, starts, deaths, sweeps, os>>
-----------------------------------------------------------------------------
(* The bridge on the device.                                                *)

(* processSecureBridgeRequests removes a request and hands it over.         *)
TakeRequest(c) ==
  /\ hand[c] = Idle
  /\ \E q \in {q \in requests : ChannelOf(q.op) = c} :
       /\ requests' = requests \ {q}
       /\ hand' = [hand EXCEPT ![c] = [id |-> q, step |-> "taken"]]
  /\ UNCHANGED <<serverSide, answers, transaction, status, starts, faults, os>>

(* The operation has a transaction: it is resumed, whatever its state is.   *)
Resume(c) ==
  /\ hand[c].step = "taken" /\ transaction[hand[c].id.op] # "none"
  /\ answers' = [answers EXCEPT ![hand[c].id] = "accepted"]
  /\ hand' = [hand EXCEPT ![c] = Idle]
  /\ UNCHANGED <<serverSide, requests, transaction, status, starts, faults, os>>

(* A condition is missing, the envelope is older than two minutes, or the   *)
(* system throws.                                                           *)
RefuseRequest(c) ==
  /\ hand[c] # Idle
  /\ \/ hand[c].step = "taken" /\ (transaction[hand[c].id.op] = "none" \/ run.op # hand[c].id.op)
     \/ hand[c].step = "recorded"
  /\ answers' = [answers EXCEPT ![hand[c].id] = "refused"]
  /\ hand' = [hand EXCEPT ![c] = Idle]
  /\ UNCHANGED <<serverSide, requests, transaction, status, starts, faults, os>>

(* writeBridgeTransaction, and for the App Store its status file.           *)
Records(o, state) ==
  /\ transaction' = [transaction EXCEPT ![o] = state]
  /\ status' = IF o.job \in StoreJobs THEN [op |-> o, state |-> state] ELSE status

RecordRequest(c) ==
  /\ hand[c].step = "taken" /\ transaction[hand[c].id.op] = "none"
  /\ Records(hand[c].id.op, "requested")
  /\ hand' = [hand EXCEPT ![c].step = "recorded"]
  /\ UNCHANGED <<serverSide, requests, answers, starts, faults, os>>

(* requestInstall or _performPurchases, and the answer.                     *)
RequestInstall(c) ==
  /\ hand[c].step = "recorded"
  /\ wanted' = wanted \cup {hand[c].id.op}
  /\ starts' = [starts EXCEPT ![hand[c].id.op] = @ + 1]
  /\ answers' = [answers EXCEPT ![hand[c].id] = "accepted"]
  /\ hand' = [hand EXCEPT ![c] = Idle]
  /\ UNCHANGED <<serverSide, requests, transaction, status, onDevice, faults>>

BridgeDies(c) ==
  /\ deaths < MaxDeaths
  /\ deaths' = deaths + 1
  /\ hand' = [hand EXCEPT ![c] = Idle]
  /\ UNCHANGED <<serverSide, requests, answers, transaction, status, starts, cutOff, sweeps, shutdowns, os>>

(* sweepBridgeArtifacts, and the same by the server.                        *)
SweepFiles(o) ==
  /\ sweeps < MaxSweeps /\ sweeps' = sweeps + 1
  /\ run.op # o /\ \A c \in Channels : hand[c].id.op # o
  /\ \/ transaction[o] # "none"
     \/ \E q \in RequestIds : q.op = o /\ (answers[q] # "none" \/ q \in requests)
  /\ requests' = {q \in requests : q.op # o}
  /\ answers' = [q \in RequestIds |-> IF q.op = o THEN "none" ELSE answers[q]]
  /\ transaction' = [transaction EXCEPT ![o] = "none"]
  /\ starts' = [starts EXCEPT ![o] = 0]
  /\ UNCHANGED <<serverSide, hand, status, cutOff, deaths, shutdowns, os>>
-----------------------------------------------------------------------------
(* The system carries out what it was asked for: it tells the bridge that   *)
(* the request is completed or has failed, and the app arrives, in any      *)
(* order, or never.                                                         *)
Completes(o) ==
  /\ o \in wanted /\ transaction[o] # "completed"
  /\ Records(o, "completed")
  /\ UNCHANGED <<serverSide, requests, answers, hand, starts, faults, os>>

PurchaseFails(o) ==
  /\ o \in wanted /\ o.job \in StoreJobs
  /\ Records(o, "failed")
  /\ wanted' = wanted \ {o}
  /\ UNCHANGED <<serverSide, requests, answers, hand, starts, faults, onDevice>>

Arrives(o) ==
  /\ o \in wanted
  /\ onDevice' = o.job
  /\ wanted' = wanted \ {o}
  /\ UNCHANGED <<serverSide, requests, answers, bridge>>

Stalls(o) ==
  /\ o \in wanted
  /\ wanted' = wanted \ {o}
  /\ UNCHANGED <<serverSide, requests, answers, bridge, onDevice>>

InstallNext ==
  \/ \E j \in InstallJobs : StartAttempt(j)
  \/ Ask \/ TakeAnswer \/ GiveUpAsking
  \/ ReadStatus \/ Verify \/ AskAgain \/ GiveUpWaiting \/ ShutDown
  \/ \E c \in Channels :
       TakeRequest(c) \/ Resume(c) \/ RefuseRequest(c) \/ RecordRequest(c) \/ RequestInstall(c) \/ BridgeDies(c)
  \/ \E o \in Operations :
       SweepFiles(o) \/ Completes(o) \/ PurchaseFails(o) \/ Arrives(o) \/ Stalls(o)

InstallSpec == InstallInit /\ [][InstallNext]_installVars
-----------------------------------------------------------------------------
(* A request that is sent again, found late, or resumed after the bridge    *)
(* was killed does not make the device start the same operation twice.      *)
StartedOnce == \A o \in Operations : starts[o] <= 1

(* An accepted request stands for a start of its own: the system has been   *)
(* asked since the request was sent.                                        *)
AcceptedIsStarted == run.phase = "waiting" => starts[run.op] > run.base

(* An App Store attempt that waits for its app, be it a retry of the job or *)
(* of the download, never waits on the strength of what was asked before.   *)
(* Excepted is the attempt that repeats one which a graceful shutdown has   *)
(* cut off: it asks with the same ids and is resumed.  Attempts after it    *)
(* are not excepted.                                                        *)
WaitsForItsOwn == run.job \in StoreJobs /\ run.op \notin cutOff => AcceptedIsStarted

InstallsAreSound == StartedOnce /\ WaitsForItsOwn

(* testflight.test.ts:104 "reissues a stalled install request before timing *)
(* out": when the repeated request is accepted, TestFlight has been asked   *)
(* again.                                                                   *)
ReissueAsksAgain ==
  run.again /\ run.job \notin StoreJobs => AcceptedIsStarted
=============================================================================
