---------------------------- MODULE DeviceEvents ----------------------------
(***************************************************************************)
(* Which devices are on the cable, as the server learns it: from the mux   *)
(* process, through the device bridge's listener (packages/device-bridge/  *)
(* src/main.rs) and its event stream (idevice.ts), to the monitor that     *)
(* asks for health refreshes (deviceBridgeEvents.ts).                      *)
(*                                                                         *)
(* A device that is plugged in again is the same udid with a new mux id:   *)
(* the n-th id of u is <<u, n>>.                                           *)
(***************************************************************************)
EXTENDS Naturals, FiniteSets, Sequences, SequencesExt

CONSTANTS
  Udids,
  MaxPlugs,      \* bound: how often a device is plugged in
  MaxMuxBreaks,  \* bound: exits and stalls of the mux process
  MaxLosses,     \* bound: streams that are lost or cannot be opened
  MaxWire        \* capacity of the channel and the socket

ASSUME EventsAssumption ==
  /\ IsFiniteSet(Udids)
  /\ MaxPlugs \in Nat \ {0} /\ MaxMuxBreaks \in Nat /\ MaxLosses \in Nat /\ MaxWire \in Nat \ {0}

VARIABLES
  plugged,      \* plugged[u]: the number of its mux id, or 0
  plugs,        \* plugs[u]: how often it has been plugged in
  muxState,
  listener,     \* stage of stream_native_device_events
  queue,        \* events of the mux the listener has not read
  devices,      \* the listener's map: mux ids
  wire,         \* events on their way to the monitor
  client,       \* the monitor's stream
  attempt,      \* streamAttempt: 0, 1, or 2 for any more
  snapshotSeen, \* hasSeenSnapshot
  current,      \* currentUsbDeviceUdids
  unseen,       \* history: udids that changed since their last refresh
  muxBreaks, losses

eventsVars == <<plugged, plugs, muxState, listener, queue, devices, wire, client, attempt,
                snapshotSeen, current, unseen, muxBreaks, losses>>

MuxIds == Udids \X (1 .. MaxPlugs)
MuxEvents == [type : {"in", "out"}, id : MuxIds] \cup {[type |-> "end"]}
StreamEvents == [type : {"snapshot", "connected", "disconnected", "reconnecting"}, udids : SUBSET Udids]

UdidsOf(ids) == {id[1] : id \in ids}
PluggedIds == {id \in MuxIds : plugged[id[1]] = id[2]}

EventsTypeOK ==
  /\ plugged \in [Udids -> 0 .. MaxPlugs] /\ plugs \in [Udids -> 0 .. MaxPlugs]
  /\ muxState \in {"up", "down", "stalled"}
  /\ listener \in {"none", "connect", "list", "held", "follow", "retry"}
  /\ \A i \in DOMAIN queue : queue[i] \in MuxEvents
  /\ devices \subseteq MuxIds
  /\ Len(wire) <= MaxWire /\ \A i \in DOMAIN wire : wire[i] \in StreamEvents
  /\ client \in {"apart", "opening", "following", "over"}
  /\ attempt \in 0 .. 2 /\ snapshotSeen \in BOOLEAN
  /\ current \subseteq Udids /\ unseen \subseteq Udids
  /\ muxBreaks \in 0 .. MaxMuxBreaks /\ losses \in 0 .. MaxLosses

EventsInit ==
  /\ plugged = [u \in Udids |-> 0] /\ plugs = [u \in Udids |-> 0]
  /\ muxState = "up" /\ listener = "none" /\ queue = <<>> /\ devices = {} /\ wire = <<>>
  /\ client = "apart" /\ attempt = 0 /\ snapshotSeen = FALSE
  /\ current = {} /\ unseen = {}
  /\ muxBreaks = 0 /\ losses = 0
-----------------------------------------------------------------------------
cables  == <<plugged, plugs>>
monitor == <<client, attempt, snapshotSeen, current>>

(* The world and the mux process.                                          *)

Listening == listener \in {"list", "follow"} /\ muxState # "down"

Notify(type, id) ==
  queue' = IF Listening THEN Append(queue, [type |-> type, id |-> id]) ELSE queue

Plug(u) ==
  /\ plugged[u] = 0 /\ plugs[u] < MaxPlugs
  /\ plugs' = [plugs EXCEPT ![u] = @ + 1]
  /\ plugged' = [plugged EXCEPT ![u] = plugs[u] + 1]
  /\ Notify("in", <<u, plugs[u] + 1>>)
  /\ unseen' = unseen \cup {u}
  /\ UNCHANGED <<muxState, listener, devices, wire, monitor, muxBreaks, losses>>

Unplug(u) ==
  /\ plugged[u] # 0
  /\ plugged' = [plugged EXCEPT ![u] = 0]
  /\ Notify("out", <<u, plugged[u]>>)
  /\ unseen' = unseen \cup {u}
  /\ UNCHANGED <<plugs, muxState, listener, devices, wire, monitor, muxBreaks, losses>>

(* What it has not written is lost.                                        *)
MuxEnds ==
  /\ muxState' = "down"
  /\ \E n \in 0 .. Len(queue) :
       queue' = IF listener \in {"list", "held", "follow"}
                  THEN Append(SubSeq(queue, 1, n), [type |-> "end"]) ELSE queue
  /\ UNCHANGED <<cables, listener, devices, wire, monitor, unseen, losses>>

MuxExits ==
  /\ muxState # "down" /\ muxBreaks < MaxMuxBreaks
  /\ muxBreaks' = muxBreaks + 1
  /\ MuxEnds

(* It takes requests and does not answer them.                             *)
MuxHangs ==
  /\ muxState = "up" /\ muxBreaks < MaxMuxBreaks
  /\ muxState' = "stalled"
  /\ muxBreaks' = muxBreaks + 1
  /\ UNCHANGED <<cables, listener, queue, devices, wire, monitor, unseen, losses>>

(* It answers again, though not the requests it holds.                     *)
MuxAnswers ==
  /\ muxState = "stalled"
  /\ muxState' = "up"
  /\ UNCHANGED <<cables, listener, queue, devices, wire, monitor, unseen, muxBreaks, losses>>

(* supervise_netmuxd: a live process is killed at the request of a call    *)
(* that found it stalled, if no tunnel is listed (DeviceBridge).           *)
MuxIsKilled ==
  /\ muxState = "stalled"
  /\ MuxEnds
  /\ UNCHANGED muxBreaks

(* supervise_netmuxd: a dead one is started again.                         *)
MuxReturns ==
  /\ muxState = "down"
  /\ muxState' = "up"
  /\ UNCHANGED <<cables, listener, queue, devices, wire, monitor, unseen, muxBreaks, losses>>
-----------------------------------------------------------------------------
(* The listener of the bridge (stream_native_device_events).               *)
listenerOnly == <<cables, muxState, monitor, unseen, muxBreaks, losses>>

Sends(type, ids) ==
  /\ Len(wire) < MaxWire
  /\ wire' = Append(wire, [type |-> type, udids |-> UdidsOf(ids)])

(* The mux may announce the devices that are there already.                *)
Listens ==
  /\ listener = "connect" /\ muxState = "up"
  /\ listener' = "list"
  /\ \/ queue' = <<>>
     \/ queue' = SetToSeq({[type |-> "in", id |-> id] : id \in PluggedIds})
  /\ UNCHANGED <<listenerOnly, devices, wire>>

Lists ==
  /\ listener = "list" /\ muxState = "up"
  /\ listener' = "follow"
  /\ devices' = PluggedIds
  /\ Sends("snapshot", PluggedIds)
  /\ UNCHANGED <<listenerOnly, queue>>

(* There is no deadline on these two requests.                             *)
IsHeld ==
  /\ listener \in {"connect", "list"} /\ muxState = "stalled"
  /\ listener' = "held"
  /\ queue' = <<>>
  /\ UNCHANGED <<listenerOnly, devices, wire>>

Follows ==
  /\ listener = "follow" /\ queue # <<>>
  /\ queue' = Tail(queue)
  /\ \/ /\ Head(queue).type = "in"
        /\ devices' = devices \cup {Head(queue).id}
        /\ Sends("connected", devices')
     \/ /\ Head(queue).type = "out"
        /\ devices' = devices \ {Head(queue).id}
        /\ Sends("disconnected", devices')
  /\ UNCHANGED <<listenerOnly, listener>>

(* wait_for_device_event_retry: the mux refuses, or its stream has ended.  *)
TellsRetry ==
  /\ \/ listener \in {"connect", "list"} /\ muxState = "down"
     \/ listener \in {"held", "follow"} /\ queue # <<>> /\ Head(queue).type = "end"
  /\ listener' = "retry"
  /\ queue' = <<>>
  /\ Sends("reconnecting", devices)
  /\ UNCHANGED <<listenerOnly, devices>>

Retries ==
  /\ listener = "retry"
  /\ listener' = "connect"
  /\ UNCHANGED <<listenerOnly, queue, devices, wire>>
-----------------------------------------------------------------------------
(* The monitor (monitorRustDeviceEvents).                                  *)

Opens ==
  /\ client = "apart"
  /\ client' = "opening"
  /\ attempt' = IF attempt = 0 THEN 1 ELSE 2
  /\ snapshotSeen' = FALSE
  /\ listener' = "connect" /\ queue' = <<>> /\ devices' = {} /\ wire' = <<>>
  /\ UNCHANGED <<cables, muxState, current, unseen, muxBreaks, losses>>

(* Mutant: only what differs from before is refreshed.                     *)
RefreshChanges(event) ==
  IF event.type = "snapshot" /\ attempt = 1 /\ ~snapshotSeen
    THEN {}
    ELSE (event.udids \ current) \cup (current \ event.udids)

(* usbDeviceUdidsToRefresh.                                                *)
UdidsToRefresh(event) ==
  CASE event.type = "snapshot"     -> IF attempt > 1 \/ snapshotSeen THEN current \cup event.udids ELSE {}
    [] event.type = "connected"    -> event.udids \ current
    [] event.type = "disconnected" -> current \ event.udids

(* A refresh finds the device as it is now. What the first snapshot shows  *)
(* is left to the health poller, which starts with the server. Any frame,  *)
(* even `reconnecting', ends the wait for the first snapshot.              *)
Receives ==
  /\ client \in {"opening", "following"} /\ wire # <<>>
  /\ client' = "following"
  /\ wire' = Tail(wire)
  /\ LET event == Head(wire)
     IN IF event.type = "reconnecting"
          THEN UNCHANGED <<snapshotSeen, current, unseen>>
          ELSE /\ current' = event.udids
               /\ snapshotSeen' = (snapshotSeen \/ event.type = "snapshot")
               /\ unseen' = unseen \ (UdidsToRefresh(event)
                                        \cup IF attempt = 1 /\ ~snapshotSeen THEN event.udids ELSE {})
  /\ UNCHANGED <<cables, muxState, listener, queue, devices, attempt, muxBreaks, losses>>

HangUp(next) ==
  /\ client' = next
  /\ listener' = "none" /\ queue' = <<>> /\ devices' = {} /\ wire' = <<>>

(* The socket or the bridge is lost, or cannot be had.                     *)
StreamIsLost ==
  /\ client \in {"opening", "following"} /\ losses < MaxLosses
  /\ losses' = losses + 1
  /\ HangUp("apart")
  /\ UNCHANGED <<cables, muxState, attempt, snapshotSeen, current, unseen, muxBreaks>>

(* Mutant: nobody watches a stream that has not begun.                     *)
NoDeadline == FALSE

(* subscribeWithInitialSnapshotDeadline.                                   *)
FirstEventIsLate == client = "opening" /\ listener = "held" /\ wire = <<>>

DeadlinePasses ==
  /\ FirstEventIsLate
  /\ HangUp("apart")
  /\ UNCHANGED <<cables, muxState, attempt, snapshotSeen, current, unseen, muxBreaks, losses>>

(* The server shuts down.                                                  *)
StopsMonitoring ==
  /\ client # "over"
  /\ HangUp("over")
  /\ UNCHANGED <<cables, muxState, attempt, snapshotSeen, current, unseen, muxBreaks, losses>>
-----------------------------------------------------------------------------
ListenerStep == Listens \/ Lists \/ IsHeld \/ Follows \/ TellsRetry \/ Retries
MonitorStep  == Opens \/ Receives \/ DeadlinePasses

EventsNext ==
  \/ \E u \in Udids : Plug(u) \/ Unplug(u)
  \/ MuxExits \/ MuxHangs \/ MuxAnswers \/ MuxIsKilled \/ MuxReturns
  \/ ListenerStep \/ MonitorStep
  \/ StreamIsLost \/ StopsMonitoring

(* A process that has ended is started again; nothing makes a stalled one  *)
(* answer, and nobody is sure to have it killed.                           *)
EventsFairness ==
  WF_eventsVars(ListenerStep) /\ WF_eventsVars(MonitorStep) /\ WF_eventsVars(MuxReturns)

EventsSpec == EventsInit /\ [][EventsNext]_eventsVars /\ EventsFairness
-----------------------------------------------------------------------------
(* Nothing is on its way.                                                  *)
CaughtUp ==
  /\ client = "following" /\ listener = "follow" /\ muxState = "up"
  /\ queue = <<>> /\ wire = <<>>

(* Once nothing is on its way the monitor knows the devices on the cable,  *)
(* and each of them has been refreshed since it was last plugged in: no    *)
(* change is lost between the listing and the listening, while the mux is  *)
(* away, or with a stream (stream_native_device_events,                    *)
(* usbDeviceUdidsToRefresh). A device that is gone may miss its refresh.   *)
EventsAreExact ==
  CaughtUp => current = UdidsOf(PluggedIds) /\ unseen \cap current = {}

(* The monitor catches up, unless the mux holds a request of a stream that *)
(* has already shown an event, which nobody watches (EventsAreWatched).    *)
HasConverged == CaughtUp \/ client = "over" \/ (client = "following" /\ listener = "held")

(* Whatever is lost, it does so again and again, unless the mux process    *)
(* is stalled for good (monitorRustDeviceEvents).                          *)
EventsConverge == []<>(muxState # "stalled") => []<>HasConverged

(* This does not hold: the deadlines end with the first event, and the     *)
(* bridge waits for the mux without one.                                   *)
EventsAreWatched == []<>(muxState # "stalled") => []<>(CaughtUp \/ client = "over")
=============================================================================
