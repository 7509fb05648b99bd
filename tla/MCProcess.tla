----------------------------- MODULE MCProcess -----------------------------
(* The artifact library, the graceful shutdown, the device bridge, its      *)
(* stream of events, and the connections to devices.  They share no state: *)
(* a behaviour is one of one of them.                                       *)
(*                                                                          *)
(* The library gets two requests for one build from different projects, and *)
(* one for another build that is twice as large.  There is room for either  *)
(* build, but not for both.  The bridge gets a tunnel and a request; a      *)
(* device is plugged in twice.  A device is used twice, another one once.   *)
EXTENDS ArtifactStore, ServerShutdown, DeviceBridge, DeviceEvents, DeviceSession, TLC

CONSTANTS r1, r2, r3, app, beta, red, blue, use1, use2, use3, ipad, phone

MCRequests    == {r1, r2, r3}
MCArtifactKey == r1 :> app @@ r2 :> app @@ r3 :> beta
MCSizeOf      == r1 :> 1 @@ r2 :> 1 @@ r3 :> 2
MCProjects    == {red, blue}
MCProjectOf   == r1 :> red @@ r2 :> blue @@ r3 :> blue
MCEndpointOf  == use1 :> ipad @@ use2 :> ipad @@ use3 :> phone
BlueQuota     == red :> 0 @@ blue :> 2

VARIABLE part  \* the component whose behaviour this is

MCInit ==
  /\ part \in {"library", "shutdown", "bridge", "events", "pool"}
  /\ LibraryInit /\ ShutdownInit /\ BridgeInit /\ EventsInit /\ PoolInit
  /\ part # "shutdown" => Running = {} /\ runs = {}

LibraryMoves  == part = "library" /\ LibraryNext /\ UNCHANGED <<part, shutdownVars, bridgeVars, eventsVars, poolVars>>
ShutdownMoves == part = "shutdown" /\ ShutdownNext /\ UNCHANGED <<part, libraryVars, bridgeVars, eventsVars, poolVars>>
BridgeMoves   == part = "bridge" /\ BridgeNext /\ UNCHANGED <<part, libraryVars, shutdownVars, eventsVars, poolVars>>
EventsMove    == part = "events" /\ EventsNext /\ UNCHANGED <<part, libraryVars, shutdownVars, bridgeVars, poolVars>>
PoolMoves     == part = "pool" /\ PoolNext /\ UNCHANGED <<part, libraryVars, shutdownVars, bridgeVars, eventsVars>>

MCNext == LibraryMoves \/ ShutdownMoves \/ BridgeMoves \/ EventsMove \/ PoolMoves

(* The fairness of each component, in its own behaviours.                   *)
MCSpec ==
  /\ MCInit /\ [][MCNext]_<<part, libraryVars, shutdownVars, bridgeVars, eventsVars, poolVars>>
  /\ WF_libraryVars(part = "library" /\ Start)
  /\ \A r \in Requests : WF_libraryVars(part = "library" /\ PromotionStep(r))
  /\ WF_shutdownVars(part = "shutdown" /\ ShutdownProgress)
  /\ WF_bridgeVars(part = "bridge" /\ BridgeProgress)
  /\ WF_eventsVars(part = "events" /\ ListenerStep)
  /\ WF_eventsVars(part = "events" /\ MonitorStep)
  /\ WF_eventsVars(part = "events" /\ MuxReturns)

(* The state of each of them has its type.                                  *)
WellTyped == LibraryTypeOK /\ ShutdownTypeOK /\ BridgeTypeOK /\ EventsTypeOK /\ PoolTypeOK

(* A shutdown of the server and a signal to the bridge end, whatever hangs  *)
(* (server.ts, shutdown; main.rs, serve_rpc).                               *)
EveryShutdownEnds == ShutdownEnds /\ BridgeStops

(* The monitor of the device events catches up again and again, unless the  *)
(* mux process is stalled for good: nothing is sure to end that             *)
(* (deviceBridgeEvents.ts, monitorRustDeviceEvents; main.rs,                *)
(* supervise_netmuxd).                                                      *)
MonitorCatchesUp == []<>(muxState # "stalled") => []<>(part # "events" \/ HasConverged)
=============================================================================
