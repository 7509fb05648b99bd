---------------------------- MODULE DeviceBridge ----------------------------
(***************************************************************************)
(* The device bridge (packages/device-bridge/src/main.rs) and its client   *)
(* (packages/dkrypt/src/idevice.ts): requests on sockets of their own,     *)
(* cancellation, tunnels, the recovery of the mux process, and the end.    *)
(*                                                                         *)
(* A tunnel has the name of the request that opened it. Handlers run on    *)
(* several threads; a step is what happens between two awaits.             *)
(***************************************************************************)
EXTENDS Naturals, FiniteSets

CONSTANTS
  Openers,      \* open_tunnel requests, of withDeviceTunnel
  Askers,       \* agent requests
  MaxMuxFaults  \* bound: exits and stalls of the mux process

ASSUME BridgeAssumption ==
  IsFiniteSet(Askers) /\ Openers \cap Askers = {} /\ MaxMuxFaults \in Nat

VARIABLES
  call,       \* call[r]: what the client knows of its request
  op,         \* op[r]: how far its handler is
  outcome,    \* outcome[r]: what the handler answers
  cancels,    \* `cancel' requests on their way
  cancelled,  \* cancellation tokens that are set
  tunnel,     \* tunnel[r]
  closing,    \* closing[r]: the close_tunnel request of the tunnel
  phase,      \* of serve_rpc
  mux,        \* the mux process
  wanted,     \* recovery requests in the channel
  recovery,   \* the supervisor: probing asks a device for a sign of life,
              \* killing has looked for tunnels for the last time
  recent,     \* the last recovery was less than a minute ago
  late,       \* history: tunnels entered in the map since the last look for them
  broken,     \* history: tunnels in use, not late, when their mux was taken away
  muxFaults

bridgeVars == <<call, op, outcome, cancels, cancelled, tunnel, closing, phase,
                mux, wanted, recovery, recent, late, broken, muxFaults>>

BridgeCalls == Openers \cup Askers

(* Handlers that hold the operation gate and have a token in the map.      *)
InGate(r) == op[r] \in {"running", "opened", "done"}

BridgeTypeOK ==
  /\ call \in [BridgeCalls -> {"new", "sent", "ok", "left", "over"}]
  /\ op \in [BridgeCalls -> {"none", "queued", "running", "opened", "done", "answered", "refused"}]
  /\ outcome \in [BridgeCalls -> {"none", "ok", "failed", "cancelled", "deadline"}]
  /\ cancels \subseteq BridgeCalls /\ cancelled \subseteq BridgeCalls
  /\ tunnel \in [Openers -> {"none", "loose", "listed", "dead", "unlisted", "ended"}]
  /\ closing \in [Openers -> {"none", "sent", "ending", "over"}]
  /\ phase \in {"serving", "draining", "clients", "tunnels", "over"}
  /\ mux \in {"starting", "up", "stalled", "waiting", "stopped"}
  /\ wanted \in 0 .. Cardinality(Askers)
  /\ recovery \in {"none", "probing", "killing"} /\ recent \in BOOLEAN
  /\ late \subseteq Openers /\ broken \subseteq Openers
  /\ muxFaults \in 0 .. MaxMuxFaults

BridgeInit ==
  /\ call = [r \in BridgeCalls |-> "new"]
  /\ op = [r \in BridgeCalls |-> "none"]
  /\ outcome = [r \in BridgeCalls |-> "none"]
  /\ cancels = {} /\ cancelled = {}
  /\ tunnel = [r \in Openers |-> "none"]
  /\ closing = [r \in Openers |-> "none"]
  /\ phase = "serving"
  /\ mux = "starting" /\ wanted = 0 /\ recovery = "none" /\ recent = FALSE
  /\ late = {} /\ broken = {} /\ muxFaults = 0
-----------------------------------------------------------------------------
supervisor == <<mux, wanted, recovery, recent, late, broken, muxFaults>>
tunnels    == <<tunnel, closing>>

(* close_tunnel keeps the lock of the map while it waits for the task.     *)
TunnelsLocked == \E r \in Openers : closing[r] = "ending"

(* The map of the tunnels; the task of a dead one is over.                 *)
Listed == {r \in Openers : tunnel[r] \in {"listed", "dead"}}

(* The client.                                                             *)

SendCall(r) ==
  /\ call[r] = "new" /\ phase = "serving"
  /\ call' = [call EXCEPT ![r] = "sent"]
  /\ op' = [op EXCEPT ![r] = "queued"]
  /\ UNCHANGED <<outcome, cancels, cancelled, tunnels, phase, supervisor>>

(* The answer is read, or the connection ends without one.                 *)
Hear(r) ==
  /\ call[r] = "sent" /\ op[r] \in {"answered", "refused"}
  /\ call' = [call EXCEPT ![r] = IF outcome[r] = "ok" THEN "ok" ELSE "over"]
  /\ UNCHANGED <<op, outcome, cancels, cancelled, tunnels, phase, supervisor>>

(* A timeout, or the job is aborted: the socket is destroyed and the       *)
(* request is cancelled by another one.                                    *)
GiveUp(r) ==
  /\ call[r] = "sent"
  /\ call' = [call EXCEPT ![r] = "left"]
  /\ cancels' = cancels \cup {r}
  /\ UNCHANGED <<op, outcome, cancelled, tunnels, phase, supervisor>>

(* withDeviceTunnel, finally.                                              *)
CloseTunnel(r) ==
  /\ call[r] = "ok" /\ r \in Openers
  /\ call' = [call EXCEPT ![r] = "over"]
  /\ closing' = [closing EXCEPT ![r] = "sent"]
  /\ UNCHANGED <<op, outcome, cancels, cancelled, tunnel, phase, supervisor>>
-----------------------------------------------------------------------------
(* The handlers.                                                           *)

(* A waiting writer keeps readers out, and behind the gate the shutdown is *)
(* looked at again.                                                        *)
MayBegin == phase = "serving"

Admit(r) ==
  /\ op[r] = "queued" /\ MayBegin
  /\ op' = [op EXCEPT ![r] = "running"]
  /\ UNCHANGED <<call, outcome, cancels, cancelled, tunnels, phase, supervisor>>

Concludes(r, result) ==
  /\ op' = [op EXCEPT ![r] = "done"]
  /\ outcome' = [outcome EXCEPT ![r] = result]

(* open_tunnel: the listener's task is spawned, then entered in the map.   *)
SpawnTunnel(r) ==
  /\ op[r] = "running" /\ r \in Openers
  /\ op' = [op EXCEPT ![r] = "opened"]
  /\ tunnel' = [tunnel EXCEPT ![r] = "loose"]
  /\ UNCHANGED <<call, outcome, cancels, cancelled, closing, phase, supervisor>>

ListTunnel(r) ==
  /\ op[r] = "opened" /\ ~TunnelsLocked
  /\ tunnel' = [tunnel EXCEPT ![r] = IF @ = "loose" THEN "listed" ELSE "dead"]
  /\ late' = late \cup {r}
  /\ Concludes(r, "ok")
  /\ UNCHANGED <<call, cancels, cancelled, closing, phase, mux, wanted, recovery, recent, broken, muxFaults>>

(* The listener's accept fails: the task ends, the map does not change.    *)
AcceptFails(r) ==
  /\ tunnel[r] \in {"loose", "listed"}
  /\ tunnel' = [tunnel EXCEPT ![r] = IF @ = "loose" THEN "ended" ELSE "dead"]
  /\ UNCHANGED <<call, op, outcome, cancels, cancelled, closing, phase, supervisor>>

(* The device answers, or the mux or the device is not there.              *)
Executes(r) ==
  /\ op[r] = "running"
  /\ \/ r \in Askers /\ mux = "up" /\ Concludes(r, "ok")
     \/ mux # "stalled" /\ Concludes(r, "failed")
  /\ UNCHANGED <<call, cancels, cancelled, tunnels, phase, supervisor>>

(* The operation is dropped where it is; a spawned task goes on.           *)
Dropped(r) ==
  /\ op[r] \in {"running", "opened"}
  /\ \E result \in {"cancelled", "deadline"} :
       /\ result = "cancelled" => r \in cancelled
       /\ Concludes(r, result)
  /\ UNCHANGED <<call, cancels, cancelled, tunnels, phase, supervisor>>

(* The token is removed, the gate left, a recovery asked for, the answer   *)
(* written.                                                                *)
Reply(r) ==
  /\ op[r] = "done"
  /\ op' = [op EXCEPT ![r] = "answered"]
  /\ wanted' = IF outcome[r] = "deadline" /\ r \in Askers THEN wanted + 1 ELSE wanted
  /\ UNCHANGED <<call, outcome, cancels, cancelled, tunnels, phase, mux, recovery, recent, late, broken, muxFaults>>

(* cancel_request: the token of a request that is still under way.         *)
CancelArrives(r) ==
  /\ r \in cancels
  /\ cancels' = cancels \ {r}
  /\ \/ phase = "serving" /\ cancelled' = cancelled \cup {q \in {r} : InGate(q)}
     \/ phase # "serving" /\ UNCHANGED cancelled
  /\ UNCHANGED <<call, op, outcome, tunnels, phase, supervisor>>

(* close_tunnel: off the map, then cancelled, then waited for.             *)
CloseBegins(r) ==
  /\ closing[r] = "sent" /\ phase = "serving" /\ ~TunnelsLocked
  /\ IF r \in Listed
       THEN /\ tunnel' = [tunnel EXCEPT ![r] = "unlisted"]
            /\ closing' = [closing EXCEPT ![r] = "ending"]
       ELSE closing' = [closing EXCEPT ![r] = "over"] /\ UNCHANGED tunnel
  /\ UNCHANGED <<call, op, outcome, cancels, cancelled, phase, supervisor>>

(* The bridge cannot be reached, refuses, or the deadline passes.          *)
CloseIsLost(r) ==
  /\ closing[r] \in {"sent", "ending"}
  /\ closing' = [closing EXCEPT ![r] = "over"]
  /\ UNCHANGED <<call, op, outcome, cancels, cancelled, tunnel, phase, supervisor>>

(* A cancelled task ends when its connections have ended.                  *)
TunnelEnds(r) ==
  /\ tunnel[r] = "unlisted"
  /\ tunnel' = [tunnel EXCEPT ![r] = "ended"]
  /\ closing' = [closing EXCEPT ![r] = "over"]
  /\ UNCHANGED <<call, op, outcome, cancels, cancelled, phase, supervisor>>
-----------------------------------------------------------------------------
(* serve_rpc, after a signal.                                              *)

Terminate ==
  /\ phase = "serving"
  /\ phase' = "draining"
  /\ UNCHANGED <<call, op, outcome, cancels, cancelled, tunnels, supervisor>>

GateFree ==
  /\ \A r \in BridgeCalls : ~InGate(r)
  /\ ~TunnelsLocked

(* The gate is had for writing, and given back at once. (No operation      *)
(* outlives its deadline of 120 seconds, the wait is for 125.)             *)
GateIsDrained ==
  /\ phase = "draining" /\ GateFree
  /\ phase' = "clients"
  /\ UNCHANGED <<call, op, outcome, cancels, cancelled, tunnels, supervisor>>

(* A handler that waited at the gate returns.                              *)
Turned(r) ==
  /\ op[r] = "queued" /\ phase \notin {"serving", "draining"}
  /\ op' = [op EXCEPT ![r] = "refused"]
  /\ UNCHANGED <<call, outcome, cancels, cancelled, tunnels, phase, supervisor>>

(* All have returned, or are aborted after five seconds.                   *)
ClientsAreGone ==
  /\ phase = "clients"
  /\ phase' = "tunnels"
  /\ op' = [r \in BridgeCalls |-> IF op[r] \in {"queued", "running", "opened", "done"} THEN "refused" ELSE op[r]]
  /\ UNCHANGED <<call, outcome, cancels, cancelled, tunnels, supervisor>>

(* close_all_tunnels.                                                      *)
CloseAll ==
  /\ phase = "tunnels"
  /\ phase' = "over"
  /\ tunnel' = [r \in Openers |-> IF r \in Listed THEN "ended" ELSE tunnel[r]]
  /\ UNCHANGED <<call, op, outcome, cancels, cancelled, closing, supervisor>>
-----------------------------------------------------------------------------
(* supervise_netmuxd.                                                      *)
rpc == <<call, op, outcome, cancels, cancelled, tunnels, phase>>

MuxComesUp ==
  /\ mux = "starting" /\ phase = "serving"
  /\ mux' = "up"
  /\ UNCHANGED <<rpc, wanted, recovery, recent, late, broken, muxFaults>>

(* It exits, perhaps before its socket is there, or answers nobody.        *)
MuxFails ==
  /\ muxFaults < MaxMuxFaults
  /\ muxFaults' = muxFaults + 1
  /\ recovery = "none"
  /\ \/ mux \in {"starting", "up", "stalled"} /\ mux' = "waiting"
     \/ mux = "up" /\ mux' = "stalled"
  /\ UNCHANGED <<rpc, wanted, recovery, recent, late, broken>>

(* After the back-off.                                                     *)
MuxIsRestarted ==
  /\ mux = "waiting" /\ phase = "serving"
  /\ mux' = "starting"
  /\ UNCHANGED <<rpc, wanted, recovery, recent, late, broken, muxFaults>>

NobodyTunnels == Listed = {}

TakeRecovery ==
  /\ mux \in {"up", "stalled"} /\ recovery = "none" /\ ~TunnelsLocked
  /\ wanted > 0 /\ wanted' = wanted - 1
  /\ recovery' = IF ~recent /\ NobodyTunnels THEN "probing" ELSE "none"
  /\ UNCHANGED <<rpc, mux, recent, late, broken, muxFaults>>

(* Mutant: tunnels are looked for before the probe only.                   *)
LookedOnce ==
  /\ recovery = "probing"
  /\ \/ mux = "up" /\ recovery' = "none" /\ UNCHANGED <<recent, late>>
     \/ recovery' = "killing" /\ recent' = TRUE /\ late' = {}
  /\ UNCHANGED <<rpc, mux, wanted, broken, muxFaults>>

(* The probe has found the device; or it has not, though the device may    *)
(* only be unplugged, and tunnels are looked for once more.                *)
ProbeIsOver ==
  /\ recovery = "probing" /\ ~TunnelsLocked
  /\ \/ mux = "up" /\ recovery' = "none" /\ UNCHANGED <<recent, late>>
     \/ ~NobodyTunnels /\ recovery' = "none" /\ UNCHANGED <<recent, late>>
     \/ NobodyTunnels /\ recovery' = "killing" /\ recent' = TRUE /\ late' = {}
  /\ UNCHANGED <<rpc, mux, wanted, broken, muxFaults>>

(* stop_netmuxd.  The lock of the map was given back after the look.       *)
KillMux ==
  /\ recovery = "killing" /\ recovery' = "none"
  /\ mux' = "waiting"
  /\ broken' = {r \in Openers : call[r] = "ok" /\ phase # "over"} \ late
  /\ UNCHANGED <<rpc, wanted, recent, late, muxFaults>>

AMinutePasses ==
  /\ recent /\ recent' = FALSE
  /\ UNCHANGED <<rpc, mux, wanted, recovery, late, broken, muxFaults>>

MuxIsStopped ==
  /\ phase # "serving" /\ recovery = "none" /\ mux # "stopped"
  /\ mux' = "stopped"
  /\ UNCHANGED <<rpc, wanted, recovery, recent, late, broken, muxFaults>>
-----------------------------------------------------------------------------
(* What goes on by itself, or ends by a deadline.                          *)
BridgeProgress ==
  \/ \E r \in BridgeCalls : Dropped(r) \/ Reply(r) \/ Turned(r)
  \/ \E r \in Openers : ListTunnel(r) \/ TunnelEnds(r)
  \/ GateIsDrained \/ ClientsAreGone \/ CloseAll
  \/ ProbeIsOver \/ KillMux \/ MuxIsStopped

BridgeNext ==
  \/ BridgeProgress
  \/ \E r \in BridgeCalls :
       SendCall(r) \/ Hear(r) \/ GiveUp(r) \/ Admit(r) \/ Executes(r) \/ CancelArrives(r)
  \/ \E r \in Openers : CloseTunnel(r) \/ SpawnTunnel(r) \/ AcceptFails(r) \/ CloseBegins(r) \/ CloseIsLost(r)
  \/ Terminate
  \/ MuxComesUp \/ MuxFails \/ MuxIsRestarted \/ TakeRecovery \/ AMinutePasses

BridgeSpec == BridgeInit /\ [][BridgeNext]_bridgeVars /\ WF_bridgeVars(BridgeProgress)
-----------------------------------------------------------------------------
(* Only the request whose client has gone is cancelled (cancel_request).   *)
CancelsItsOwn == \A r \in BridgeCalls : outcome[r] = "cancelled" => call[r] = "left"

(* A tunnel its client has been told of stays in the map, where recovery   *)
(* and shutdown find it, and is cancelled by nobody until that client      *)
(* closes it or the bridge ends (open_tunnel, close_tunnel).               *)
AnsweredTunnelsAreListed ==
  \A r \in Openers : call[r] = "ok" /\ phase # "over" => r \in Listed

(* The recovery of a stalled mux takes no tunnel from a client that uses   *)
(* it, however long the probe took; excepted are tunnels that came after   *)
(* the last look at the map (supervise_netmuxd).                           *)
RecoverySparesTunnels == broken = {}

(* Once the gate is drained no operation runs, and in the end no tunnel is *)
(* left in the map (serve_rpc).                                            *)
DrainIsFinal ==
  /\ phase \in {"clients", "tunnels", "over"} => \A r \in BridgeCalls : ~InGate(r)
  /\ phase = "over" => Listed = {}

BridgeIsSound == CancelsItsOwn /\ AnsweredTunnelsAreListed /\ RecoverySparesTunnels /\ DrainIsFinal

(* A signal ends the bridge and the mux process (serve_rpc, main), whoever *)
(* is connected and whatever hangs.                                        *)
BridgeStops == phase # "serving" ~> phase = "over" /\ mux = "stopped"

(* Every open tunnel has a client that will close it. This does not hold:  *)
(* the client may go while the answer is on its way, and its `cancel'      *)
(* comes too late; or a close is lost. No recovery happens from then on.   *)
TunnelsAreOwned ==
  \A r \in Listed : phase = "serving" => call[r] \in {"sent", "ok"} \/ closing[r] \in {"sent", "ending"}
=============================================================================
