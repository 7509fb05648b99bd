-------------------------- MODULE MCDeviceServices --------------------------
(* The records of two devices, one of which is a USB iPad; the health of   *)
(* one device; and the chains of runKeyedSerial that writes to devices go  *)
(* through, with four operations of one key and one of another.  The three *)
(* share no state: a behaviour is one of one of them.                      *)
EXTENDS DeviceReservation, KeyedSerial, DeviceHealth, TLC

CONSTANTS ipad, phone, o1, o2, o3, o4, p1, left, right

MCDevices == {ipad, phone}
MCIpads   == {ipad}

MCOps   == {o1, o2, o3, o4, p1}
MCKeys  == {left, right}
MCKeyOf == o1 :> left @@ o2 :> left @@ o3 :> left @@ o4 :> left @@ p1 :> right

VARIABLE part  \* the component whose behaviour this is

Parts == {"reservation", "health", "serial"}

MCInit ==
  /\ part \in Parts
  /\ Init /\ SerialInit /\ HealthInit
  /\ part # "health" => condition = "ready"

ReservationMoves == part = "reservation" /\ Next /\ UNCHANGED <<part, healthVars, serialVars>>
HealthMoves      == part = "health" /\ HealthNext /\ UNCHANGED <<part, vars, serialVars>>
SerialMoves      == part = "serial" /\ SerialNext /\ UNCHANGED <<part, vars, healthVars>>

MCNext == ReservationMoves \/ HealthMoves \/ SerialMoves

(* The fairness of each component, in its own behaviours.                  *)
MCSpec ==
  /\ MCInit /\ [][MCNext]_<<part, vars, healthVars, serialVars>>
  /\ WF_vars(part = "reservation" /\ Dispatch)
  /\ WF_vars(part = "reservation" /\ Restart)
  /\ \A d \in Devices : WF_vars(part = "reservation" /\ RunUnwinds(d))
  /\ WF_healthVars(part = "health" /\ ProbeEnds)
  /\ WF_healthVars(part = "health" /\ NotifyEnds)
  /\ WF_healthVars(part = "health" /\ Tick)
  /\ WF_serialVars(part = "serial" /\ SerialProgress)

(* The state of every component has its type.                              *)
WellTyped == TypeOK /\ SerialTypeOK /\ HealthTypeOK
=============================================================================
