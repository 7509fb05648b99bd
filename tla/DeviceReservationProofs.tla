----------------------- MODULE DeviceReservationProofs -----------------------
(***************************************************************************)
(* DeviceReservation for any devices and any bounds: the state is well     *)
(* typed, an administrator's stop is respected and a reservation is        *)
(* exclusive; and a retrieval gives its device back where the dispatcher   *)
(* leaves the reserved record alone.                                       *)
(*                                                                         *)
(* StopIsRespected is not inductive: the end of a retrieval clears         *)
(* `draining' when it finds the revision it wrote.  What makes that safe   *)
(* is StaleIfStopped: whoever stops a device moves its revision past the   *)
(* one a running retrieval remembers.                                      *)
(***************************************************************************)
EXTENDS DeviceReservation, TLAPS

(* A running retrieval remembers a revision its device has or had.         *)
ReservationKnown ==
  op.state = "running" =>
    /\ op.deviceId \in Devices
    /\ op.reservedAt <= device[op.deviceId].updatedAt

(* A device stopped since the retrieval began no longer has that revision. *)
StaleIfStopped ==
  op.state = "running" /\ op.deviceId \in stopped
    => device[op.deviceId].updatedAt # op.reservedAt

IInv == TypeOK /\ StopIsRespected /\ ReservationKnown /\ StaleIfStopped

(* The three ways updateDevice writes a record.                            *)
LEMMA WriteLemma ==
  ASSUME NEW r \in DeviceRecord, NEW value \in BOOLEAN
  PROVE  /\ SetDraining(r, value) \in DeviceRecord
         /\ SetDraining(r, value).updatedAt = r.updatedAt + 1
         /\ ~Accepting(SetDraining(r, TRUE))
         /\ SetEnabled(r, value) \in DeviceRecord
         /\ SetEnabled(r, value).updatedAt = r.updatedAt + 1
         /\ Accepting(SetEnabled(r, value)) => value
         /\ Rename(r) \in DeviceRecord
         /\ Rename(r).updatedAt = r.updatedAt + 1
         /\ Accepting(Rename(r)) => Accepting(r)
         /\ r.updatedAt \in Nat
  BY DEF SetDraining, SetEnabled, Rename, Accepting, DeviceRecord

(* A dispatch only disables devices and never turns a revision back.       *)
LEMMA DrainedLemma ==
  ASSUME NEW table \in [Devices -> DeviceRecord], NEW held
  PROVE  /\ Drained(table, held) \in [Devices -> DeviceRecord]
         /\ \A d \in Devices :
              /\ table[d].updatedAt <= Drained(table, held)[d].updatedAt
              /\ Drained(table, held)[d].updatedAt = table[d].updatedAt
                   => Drained(table, held)[d] = table[d]
              /\ Accepting(Drained(table, held)[d]) => Accepting(table[d])
  BY DEF Drained, SetEnabled, Accepting, DeviceRecord

(* pumpWorkers keeps the table typed, monotone and as stopped as it was.   *)
LEMMA PumpLemma ==
  ASSUME NEW table \in [Devices -> DeviceRecord], NEW held \in SUBSET Devices,
         NEW atWork \in SUBSET Devices, PumpWorkers(table, held, atWork)
  PROVE  /\ device' \in [Devices -> DeviceRecord]
         /\ busy' \subseteq Devices
         /\ running' \subseteq Devices
         /\ \A d \in Devices :
              /\ table[d].updatedAt <= device'[d].updatedAt
              /\ Accepting(device'[d]) => Accepting(table[d])
  <1>1. device' = Drained(table, held)
    BY DEF PumpWorkers
  <1>2. PICK started \in SUBSET {d \in Devices \ held : Accepting(Drained(table, held)[d])} :
          busy' = held \cup started /\ running' = atWork \cup started
    BY DEF PumpWorkers
  <1> QED
    BY <1>1, <1>2, DrainedLemma

(* The initial state satisfies the strengthened invariant.                 *)
LEMMA InitIInv == Init => IInv
  <1> SUFFICES ASSUME Init PROVE IInv
    OBVIOUS
  <1>1. device \in [Devices -> DeviceRecord]
    BY DEF Init, DeviceRecord
  <1>2. op \in OpRecord /\ savedOp \in OpRecord /\ op.state = "idle"
    BY DEF Init, IdleOp, OpRecord, OpStates
  <1>3. crashes \in 0..MaxCrashes
    BY BoundsAssumption DEF Init
  <1>4. TypeOK
    BY <1>1, <1>2, <1>3 DEF Init, TypeOK
  <1> QED
    BY <1>2, <1>4 DEF Init, IInv, StopIsRespected, ReservationKnown, StaleIfStopped

(* A step that leaves the retrieval and the administrators' decisions alone *)
(* and makes no device accept jobs keeps the three safety parts.           *)
LEMMA QuietStep ==
  ASSUME IInv, TypeOK', UNCHANGED <<op, stopped>>,
         \A d \in Devices : /\ device[d].updatedAt <= device'[d].updatedAt
                            /\ Accepting(device'[d]) => Accepting(device[d])
  PROVE  IInv'
  <1>1. device \in [Devices -> DeviceRecord] /\ device' \in [Devices -> DeviceRecord]
        /\ op \in OpRecord /\ stopped \subseteq Devices
    BY DEF IInv, TypeOK
  <1>2. StopIsRespected'
    BY <1>1 DEF IInv, StopIsRespected
  <1>3. ReservationKnown'
    BY <1>1 DEF IInv, ReservationKnown, DeviceRecord, OpRecord
  <1>4. StaleIfStopped'
    <2> SUFFICES ASSUME op.state = "running", op.deviceId \in stopped,
                        device'[op.deviceId].updatedAt = op.reservedAt
                 PROVE  FALSE
      BY DEF StaleIfStopped
    <2>1. /\ op.deviceId \in Devices
          /\ op.reservedAt <= device[op.deviceId].updatedAt
          /\ device[op.deviceId].updatedAt # op.reservedAt
      BY DEF IInv, ReservationKnown, StaleIfStopped
    <2>2. /\ op.reservedAt \in Nat
          /\ device[op.deviceId].updatedAt \in Nat /\ device'[op.deviceId].updatedAt \in Nat
          /\ device[op.deviceId].updatedAt <= device'[op.deviceId].updatedAt
      BY <1>1, <2>1 DEF DeviceRecord, OpRecord
    <2> QED
      BY <2>1, <2>2
  <1> QED
    BY <1>2, <1>3, <1>4 DEF IInv

(* Undoing a reservation keeps the table typed and can make only the       *)
(* reserved device accept jobs, and only at the revision written for it.   *)
LEMMA RestoreLemma ==
  ASSUME NEW table \in [Devices -> DeviceRecord], NEW d \in Devices, NEW r \in Nat
  PROVE  /\ RestoreDevice(table, d, r) \in [Devices -> DeviceRecord]
         /\ \A e \in Devices :
              /\ table[e].updatedAt <= RestoreDevice(table, d, r)[e].updatedAt
              /\ e # d \/ table[d].updatedAt # r => RestoreDevice(table, d, r)[e] = table[e]
  <1>1. \A e \in Devices : table[e] \in DeviceRecord /\ table[e].updatedAt \in Nat
    BY DEF DeviceRecord
  <1>2. CASE table[d].updatedAt # r
    BY <1>1, <1>2 DEF RestoreDevice
  <1>3. CASE table[d].updatedAt = r
    <2> DEFINE s == SetDraining(table[d], FALSE)
    <2>1. RestoreDevice(table, d, r) = [table EXCEPT ![d] = s]
      BY <1>3 DEF RestoreDevice
    <2>2. s \in DeviceRecord /\ s.updatedAt = table[d].updatedAt + 1
      BY <1>1, WriteLemma
    <2> HIDE DEF s
    <2> QED
      BY <1>1, <1>3, <2>1, <2>2
  <1> QED
    BY <1>2, <1>3

(* Every step preserves it.                                                *)
LEMMA NextIInv == IInv /\ [Next]_vars => IInv'
  <1> SUFFICES ASSUME IInv, [Next]_vars PROVE IInv'
    OBVIOUS
  <1>0. /\ device \in [Devices -> DeviceRecord] /\ busy \in SUBSET Devices
        /\ running \in SUBSET Devices /\ stopped \in SUBSET Devices
        /\ op \in OpRecord /\ savedOp \in OpRecord /\ TypeOK
    BY DEF IInv, TypeOK
  <1>1. CASE Dispatch
    <2>1. PumpWorkers(device, busy, running)
      BY <1>1 DEF Dispatch
    <2>2. TypeOK'
      BY <1>0, <1>1, <2>1, PumpLemma DEF Dispatch, TypeOK
    <2>3. \A e \in Devices : /\ device[e].updatedAt <= device'[e].updatedAt
                             /\ Accepting(device'[e]) => Accepting(device[e])
      BY <1>0, <2>1, PumpLemma
    <2>4. UNCHANGED <<op, stopped>>
      BY <1>1 DEF Dispatch
    <2> QED
      BY <2>2, <2>3, <2>4, QuietStep
  <1>2. ASSUME NEW d \in Devices, JobFinishes(d) PROVE IInv'
    <2>1. TypeOK'
      BY <1>0, <1>2 DEF JobFinishes, TypeOK
    <2> QED
      BY <1>0, <1>2, <2>1, QuietStep DEF JobFinishes, DeviceRecord
  <1>3. ASSUME NEW d \in Devices, RunUnwinds(d) PROVE IInv'
    <2>1. PumpWorkers(device, busy \ {d}, running) /\ busy \ {d} \in SUBSET Devices
      BY <1>0, <1>3 DEF RunUnwinds
    <2>2. TypeOK'
      BY <1>0, <1>3, <2>1, PumpLemma DEF RunUnwinds, TypeOK
    <2>3. \A e \in Devices : /\ device[e].updatedAt <= device'[e].updatedAt
                             /\ Accepting(device'[e]) => Accepting(device[e])
      BY <1>0, <2>1, PumpLemma
    <2>4. UNCHANGED <<op, stopped>>
      BY <1>3 DEF RunUnwinds
    <2> QED
      BY <2>2, <2>3, <2>4, QuietStep
  <1>4. ASSUME NEW d \in Devices, StartRetrieval(d) PROVE IInv'
    <2>1. /\ device' = [device EXCEPT ![d] = SetDraining(@, TRUE)]
          /\ op' = Started(d) /\ savedOp' = Started(d) /\ Accepting(device[d])
      BY <1>4 DEF StartRetrieval, CanReserve
    <2>2. device' \in [Devices -> DeviceRecord]
          /\ device'[d].updatedAt = device[d].updatedAt + 1
          /\ ~Accepting(device'[d])
          /\ \A e \in Devices \ {d} : device'[e] = device[e]
      BY <1>0, <2>1, WriteLemma
    <2>3. op' \in OpRecord /\ op'.deviceId = d /\ op'.reservedAt = device[d].updatedAt + 1
      BY <1>0, <2>1 DEF Started, SetDraining, OpRecord, OpStates, DeviceRecord
    <2>4. TypeOK'
      <3>1. /\ savedOp' \in OpRecord /\ touched' = FALSE
            /\ UNCHANGED <<alive, busy, running, credential, stopped, crashes>>
        BY <1>4, <2>1, <2>3 DEF StartRetrieval
      <3> QED
        BY <1>0, <2>2, <2>3, <3>1 DEF TypeOK
    <2>5. d \notin stopped /\ stopped' = stopped
      BY <1>4, <2>1 DEF IInv, StopIsRespected, StartRetrieval
    <2>6. StopIsRespected'
      BY <1>0, <2>2, <2>5 DEF IInv, StopIsRespected
    <2>7. ReservationKnown' /\ StaleIfStopped'
      BY <1>0, <2>2, <2>3, <2>5 DEF ReservationKnown, StaleIfStopped, DeviceRecord
    <2> QED
      BY <2>4, <2>6, <2>7 DEF IInv
  <1>5. ASSUME NEW d \in Devices, StartRetrievalUnsaved(d) PROVE IInv'
    <2> DEFINE reserved == [device EXCEPT ![d] = SetDraining(@, TRUE)]
    <2>1. /\ device' = RestoreDevice(reserved, d, Started(d).reservedAt)
          /\ Accepting(device[d]) /\ op.state # "running"
          /\ UNCHANGED <<alive, busy, running, op, savedOp, credential, stopped, touched, crashes>>
      BY <1>5 DEF StartRetrievalUnsaved, CanReserve
    <2>2. /\ reserved \in [Devices -> DeviceRecord]
          /\ reserved[d].updatedAt = device[d].updatedAt + 1
          /\ \A e \in Devices \ {d} : reserved[e] = device[e]
          /\ Started(d).reservedAt \in Nat
      BY <1>0, WriteLemma DEF Started
    <2>3. /\ device' \in [Devices -> DeviceRecord]
          /\ \A e \in Devices : /\ device[e].updatedAt <= device'[e].updatedAt
                                /\ e # d => device'[e] = device[e]
      <3>1. \A e \in Devices : device[e].updatedAt \in Nat
        BY <1>0 DEF DeviceRecord
      <3> HIDE DEF reserved
      <3>2. device[d].updatedAt <= reserved[d].updatedAt
        BY <2>2, <3>1
      <3>3. /\ device' \in [Devices -> DeviceRecord]
            /\ \A e \in Devices : /\ reserved[e].updatedAt <= device'[e].updatedAt
                                  /\ e # d => device'[e] = reserved[e]
        BY <2>1, <2>2, RestoreLemma
      <3>4. device'[d].updatedAt \in Nat /\ reserved[d].updatedAt \in Nat
        BY <2>2, <3>3 DEF DeviceRecord
      <3>5. device[d].updatedAt <= device'[d].updatedAt
        BY <3>1, <3>2, <3>3, <3>4
      <3> QED
        BY <2>2, <3>1, <3>3, <3>5
    <2>4. TypeOK'
      BY <1>0, <2>1, <2>3 DEF TypeOK
    <2> QED
      BY <1>0, <2>1, <2>3, <2>4, QuietStep
  <1>6. ASSUME NEW d \in Devices, AdminDrain(d) PROVE IInv'
    <2> DEFINE table == [device EXCEPT ![d] = SetDraining(@, TRUE)]
    <2>1. /\ PumpWorkers(table, busy, running)
          /\ stopped' = stopped \cup {d}
          /\ touched' = (touched \/ (op.state = "running" /\ op.deviceId = d))
          /\ UNCHANGED <<alive, op, savedOp, credential, crashes>>
      BY <1>6 DEF AdminDrain, AdminWrites
    <2>2. /\ table \in [Devices -> DeviceRecord]
          /\ table[d].updatedAt = device[d].updatedAt + 1 /\ ~Accepting(table[d])
          /\ \A e \in Devices \ {d} : table[e] = device[e]
      BY <1>0, WriteLemma
    <2>3. /\ device' \in [Devices -> DeviceRecord] /\ busy' \subseteq Devices /\ running' \subseteq Devices
          /\ \A e \in Devices : /\ table[e].updatedAt <= device'[e].updatedAt
                                /\ Accepting(device'[e]) => Accepting(table[e])
      BY <1>0, <2>1, <2>2, PumpLemma
    <2>4. touched' \in BOOLEAN
      BY <1>0, <2>1 DEF TypeOK
    <2>5. TypeOK'
      BY <1>0, <2>1, <2>3, <2>4 DEF TypeOK
    <2>6. StopIsRespected'
      BY <1>0, <2>1, <2>2, <2>3 DEF IInv, StopIsRespected
    <2>7. ReservationKnown' /\ StaleIfStopped'
      <3> HIDE DEF table
      <3>1. /\ op.reservedAt \in Nat
            /\ \A e \in Devices : /\ device[e].updatedAt \in Nat
                                  /\ table[e].updatedAt \in Nat
                                  /\ device'[e].updatedAt \in Nat
        BY <1>0, <2>2, <2>3 DEF DeviceRecord, OpRecord
      <3>2. \A e \in Devices : device[e].updatedAt <= table[e].updatedAt
        BY <2>2, <3>1
      <3>3. \A e \in Devices : device[e].updatedAt <= device'[e].updatedAt
        BY <2>3, <3>1, <3>2
      <3>4. device[d].updatedAt < device'[d].updatedAt
        BY <2>2, <2>3, <3>1
      <3>5. ReservationKnown'
        BY <2>1, <3>1, <3>3 DEF IInv, ReservationKnown
      <3>6. StaleIfStopped'
        BY <2>1, <3>1, <3>3, <3>4 DEF IInv, ReservationKnown, StaleIfStopped
      <3> QED
        BY <3>5, <3>6
    <2> QED
      BY <2>5, <2>6, <2>7 DEF IInv
  <1>7. ASSUME NEW d \in Devices, NEW value \in BOOLEAN, AdminSetEnabled(d, value) PROVE IInv'
    <2>1. /\ device' = [device EXCEPT ![d] = SetEnabled(@, value)]
          /\ stopped' = IF value THEN stopped \ {d} ELSE stopped \cup {d}
          /\ touched' = (touched \/ (op.state = "running" /\ op.deviceId = d))
          /\ UNCHANGED <<alive, busy, running, op, savedOp, credential, crashes>>
      BY <1>7 DEF AdminSetEnabled, AdminWrites
    <2>2. /\ device' \in [Devices -> DeviceRecord]
          /\ device'[d].updatedAt = device[d].updatedAt + 1
          /\ Accepting(device'[d]) => value
          /\ \A e \in Devices \ {d} : device'[e] = device[e]
      BY <1>0, <2>1, WriteLemma
    <2>3. touched' \in BOOLEAN
      BY <1>0, <2>1 DEF TypeOK
    <2>4. TypeOK'
      BY <1>0, <2>1, <2>2, <2>3 DEF TypeOK
    <2>5. StopIsRespected'
      BY <1>0, <2>1, <2>2 DEF IInv, StopIsRespected
    <2>6. ReservationKnown' /\ StaleIfStopped'
      BY <1>0, <2>1, <2>2 DEF IInv, ReservationKnown, StaleIfStopped, DeviceRecord, OpRecord
    <2> QED
      BY <2>4, <2>5, <2>6 DEF IInv
  <1>8. ASSUME NEW d \in Devices, AdminRename(d) PROVE IInv'
    <2>1. /\ device' = [device EXCEPT ![d] = Rename(@)]
          /\ touched' = (touched \/ (op.state = "running" /\ op.deviceId = d))
          /\ UNCHANGED <<alive, busy, running, op, savedOp, credential, stopped, crashes>>
      BY <1>8 DEF AdminRename, AdminWrites
    <2> DEFINE renamed == Rename(device[d])
    <2>5. /\ renamed \in DeviceRecord
          /\ renamed.updatedAt = device[d].updatedAt + 1
          /\ Accepting(renamed) => Accepting(device[d])
      <3>1. device[d] \in DeviceRecord
        BY <1>0
      <3> QED
        BY <3>1, WriteLemma
    <2>6. device' = [device EXCEPT ![d] = renamed]
      BY <2>1
    <2> HIDE DEF renamed
    <2>2. /\ device' \in [Devices -> DeviceRecord]
          /\ \A e \in Devices : /\ device[e].updatedAt <= device'[e].updatedAt
                                /\ Accepting(device'[e]) => Accepting(device[e])
      BY <1>0, <2>5, <2>6 DEF DeviceRecord
    <2>3. touched' \in BOOLEAN
      BY <1>0, <2>1 DEF TypeOK
    <2>4. TypeOK'
      BY <1>0, <2>1, <2>2, <2>3 DEF TypeOK
    <2> QED
      BY <2>1, <2>2, <2>4, QuietStep
  <1>9. ASSUME NEW outcome \in {"succeeded", "failed"}, NEW saved \in BOOLEAN,
               RetrievalEnds(outcome, saved)
        PROVE IInv'
    <2>1. /\ device' = RestoreDevice(device, op.deviceId, op.reservedAt)
          /\ op.state = "running" /\ op' = [op EXCEPT !.state = outcome]
          /\ credential' = (credential \/ outcome = "succeeded")
          /\ savedOp' = IF saved THEN op' ELSE savedOp
          /\ UNCHANGED <<alive, busy, running, stopped, touched, crashes>>
      BY <1>9 DEF RetrievalEnds
    <2>2. op.deviceId \in Devices /\ op.reservedAt \in Nat
      BY <1>0, <2>1 DEF IInv, ReservationKnown, OpRecord
    <2>3. /\ device' \in [Devices -> DeviceRecord]
          /\ \A e \in Devices : e # op.deviceId \/ device[op.deviceId].updatedAt # op.reservedAt
                                  => device'[e] = device[e]
      BY <1>0, <2>1, <2>2, RestoreLemma
    <2>4. op' \in OpRecord /\ op'.state # "running"
      BY <1>0, <2>1 DEF OpRecord, OpStates
    <2>5. credential' \in BOOLEAN
      BY <1>0, <2>1 DEF TypeOK
    <2>6. savedOp' \in OpRecord
      BY <1>0, <2>1, <2>4
    <2>7. TypeOK'
      BY <1>0, <2>1, <2>3, <2>4, <2>5, <2>6 DEF TypeOK
    <2>8. \A e \in stopped : device'[e] = device[e]
      BY <1>0, <2>1, <2>2, <2>3 DEF IInv, StaleIfStopped
    <2>9. StopIsRespected'
      BY <2>1, <2>8 DEF IInv, StopIsRespected
    <2> QED
      BY <2>4, <2>7, <2>9 DEF IInv, ReservationKnown, StaleIfStopped
  <1>10. CASE ForgetCredential
    <2>1. TypeOK'
      BY <1>0, <1>10 DEF ForgetCredential, TypeOK
    <2> QED
      BY <1>0, <1>10, <2>1, QuietStep DEF ForgetCredential, DeviceRecord
  <1>11. CASE Crash
    <2>1. op' \in OpRecord /\ op'.state = "idle" /\ UNCHANGED <<device, savedOp, credential, stopped>>
      BY <1>11 DEF Crash, IdleOp, OpRecord, OpStates, durable
    <2>2. crashes' \in 0..MaxCrashes
      BY <1>0, <1>11, BoundsAssumption DEF Crash, TypeOK
    <2>3. TypeOK'
      BY <1>0, <1>11, <2>1, <2>2 DEF Crash, TypeOK
    <2> QED
      BY <2>1, <2>3 DEF IInv, StopIsRespected, ReservationKnown, StaleIfStopped
  <1>12. CASE Restart
    <2>1. op' \in OpRecord /\ savedOp' \in OpRecord /\ op'.state # "running"
      BY <1>0, <1>12 DEF Restart, OpRecord, OpStates
    <2>2. UNCHANGED <<device, busy, running, credential, stopped, touched, crashes>> /\ alive' = TRUE
      BY <1>12 DEF Restart
    <2>3. TypeOK'
      BY <1>0, <2>1, <2>2 DEF TypeOK
    <2> QED
      BY <2>1, <2>2, <2>3 DEF IInv, StopIsRespected, ReservationKnown, StaleIfStopped
  <1>13. CASE UNCHANGED vars
    <2>1. TypeOK'
      BY <1>0, <1>13 DEF vars, TypeOK
    <2> QED
      BY <1>0, <1>13, <2>1, QuietStep DEF vars, DeviceRecord
  <1> QED
    BY <1>1, <1>2, <1>3, <1>4, <1>5, <1>6, <1>7, <1>8, <1>9, <1>10, <1>11, <1>12, <1>13 DEF Next

(* The strengthened invariant holds in every reachable state.              *)
THEOREM Invariance == Spec => []IInv
  BY InitIInv, NextIInv, PTL DEF Spec

(* Every variable keeps its type, for any devices and any bounds.          *)
THEOREM TypeCorrectness == Spec => []TypeOK
  BY Invariance, PTL DEF IInv

(* A device that an administrator drained or disabled accepts no job until *)
(* an administrator enables it: no interleaving of credential retrievals,  *)
(* dispatches, renames and crashes of the process reopens it.              *)
THEOREM StopRespected == Spec => []StopIsRespected
  BY Invariance, PTL DEF IInv
----------------------------------------------------------------------------
(* The reservation is exclusive.  Nothing in start() keeps the dispatcher  *)
(* from the iPad later; what does is that the reserved device accepts no   *)
(* job until an administrator writes its record.                           *)

Reserved ==
  op.state = "running" /\ ~touched =>
    ~Accepting(device[op.deviceId]) /\ op.deviceId \notin running

(* The dispatcher starts jobs only on devices that accepted them before.   *)
LEMMA PumpStartsLemma ==
  ASSUME NEW table \in [Devices -> DeviceRecord], NEW held, NEW atWork,
         PumpWorkers(table, held, atWork)
  PROVE  \A d \in Devices : d \in running' => d \in atWork \/ Accepting(table[d])
  <1>1. PICK started \in SUBSET {d \in Devices \ held : Accepting(Drained(table, held)[d])} :
          running' = atWork \cup started
    BY DEF PumpWorkers
  <1> QED
    BY <1>1, DrainedLemma

(* A step in which the retrieval goes on untouched, no device starts to    *)
(* accept jobs and jobs start only on devices that did accept them, keeps  *)
(* the reservation.                                                        *)
LEMMA ReservedStep ==
  ASSUME IInv, Reserved, op' = op, touched' = touched,
         \A d \in Devices : /\ Accepting(device'[d]) => Accepting(device[d])
                            /\ d \in running' => d \in running \/ Accepting(device[d])
  PROVE  Reserved'
  BY DEF IInv, ReservationKnown, Reserved

(* A step in which an administrator writes one record and jobs start only  *)
(* on devices that accepted them, or on that one, keeps it too.            *)
LEMMA WrittenStep ==
  ASSUME NEW e \in Devices, IInv, Reserved, op' = op,
         touched' = (touched \/ (op.state = "running" /\ op.deviceId = e)),
         \A d \in Devices \ {e} :
           /\ Accepting(device'[d]) => Accepting(device[d])
           /\ d \in running' => d \in running \/ Accepting(device[d])
  PROVE  Reserved'
  BY DEF IInv, ReservationKnown, Reserved

(* Every step preserves it.                                                *)
LEMMA NextReserved == IInv /\ Reserved /\ [Next]_vars => Reserved'
  <1> SUFFICES ASSUME IInv, Reserved, [Next]_vars PROVE Reserved'
    OBVIOUS
  <1>0. device \in [Devices -> DeviceRecord] /\ op \in OpRecord /\ busy \in SUBSET Devices
    BY DEF IInv, TypeOK
  <1>1. CASE Dispatch
    <2>1. PumpWorkers(device, busy, running)
      BY <1>1 DEF Dispatch
    <2>2. \A d \in Devices : Accepting(device'[d]) => Accepting(device[d])
      BY <1>0, <2>1, DrainedLemma DEF PumpWorkers
    <2> QED
      BY <1>0, <1>1, <2>1, <2>2, PumpStartsLemma, ReservedStep DEF Dispatch
  <1>2. ASSUME NEW d \in Devices, JobFinishes(d) PROVE Reserved'
    BY <1>2, ReservedStep DEF JobFinishes
  <1>3. ASSUME NEW d \in Devices, RunUnwinds(d) PROVE Reserved'
    <2>1. PumpWorkers(device, busy \ {d}, running)
      BY <1>3 DEF RunUnwinds
    <2>2. \A e \in Devices : Accepting(device'[e]) => Accepting(device[e])
      BY <1>0, <2>1, DrainedLemma DEF PumpWorkers
    <2> QED
      BY <1>0, <1>3, <2>1, <2>2, PumpStartsLemma, ReservedStep DEF RunUnwinds
  <1>4. ASSUME NEW d \in Devices, StartRetrieval(d) PROVE Reserved'
    <2>1. /\ device' = [device EXCEPT ![d] = SetDraining(@, TRUE)]
          /\ op' = Started(d) /\ d \notin running /\ running' = running
      BY <1>4 DEF StartRetrieval, CanReserve
    <2>2. ~Accepting(device'[d]) /\ op'.deviceId = d
      BY <1>0, <2>1, WriteLemma DEF Started
    <2> QED
      BY <2>1, <2>2 DEF Reserved
  <1>5. ASSUME NEW d \in Devices, StartRetrievalUnsaved(d) PROVE Reserved'
    BY <1>5 DEF StartRetrievalUnsaved, CanReserve, Reserved
  <1>6. ASSUME NEW d \in Devices, AdminDrain(d) PROVE Reserved'
    <2> DEFINE table == [device EXCEPT ![d] = SetDraining(@, TRUE)]
    <2>1. PumpWorkers(table, busy, running) /\ op' = op
          /\ touched' = (touched \/ (op.state = "running" /\ op.deviceId = d))
      BY <1>6 DEF AdminDrain, AdminWrites
    <2>2. table \in [Devices -> DeviceRecord] /\ \A e \in Devices \ {d} : table[e] = device[e]
      BY <1>0, WriteLemma
    <2> HIDE DEF table
    <2>3. \A e \in Devices : /\ Accepting(device'[e]) => Accepting(table[e])
                             /\ e \in running' => e \in running \/ Accepting(table[e])
      BY <2>1, <2>2, DrainedLemma, PumpStartsLemma DEF PumpWorkers
    <2> QED
      BY <2>1, <2>2, <2>3, WrittenStep
  <1>7. ASSUME NEW d \in Devices, NEW value \in BOOLEAN, AdminSetEnabled(d, value) PROVE Reserved'
    BY <1>0, <1>7, WrittenStep DEF AdminSetEnabled, AdminWrites
  <1>8. ASSUME NEW d \in Devices, AdminRename(d) PROVE Reserved'
    BY <1>0, <1>8, WrittenStep DEF AdminRename, AdminWrites
  <1>9. ASSUME NEW outcome \in {"succeeded", "failed"}, NEW saved \in BOOLEAN,
               RetrievalEnds(outcome, saved)
        PROVE Reserved'
    <2>1. op' = [op EXCEPT !.state = outcome]
      BY <1>9 DEF RetrievalEnds
    <2>2. op'.state # "running"
      BY <1>0, <2>1 DEF OpRecord
    <2> QED
      BY <2>2 DEF Reserved
  <1>10. CASE ForgetCredential
    BY <1>10, ReservedStep DEF ForgetCredential
  <1>11. CASE Crash
    BY <1>11 DEF Crash, IdleOp, Reserved
  <1>12. CASE Restart
    <2>1. savedOp \in OpRecord
      BY DEF IInv, TypeOK
    <2>2. op'.state # "running"
      BY <1>12, <2>1 DEF Restart, OpRecord
    <2> QED
      BY <2>2 DEF Reserved
  <1>13. CASE UNCHANGED vars
    BY <1>13, ReservedStep DEF vars
  <1> QED
    BY <1>1, <1>2, <1>3, <1>4, <1>5, <1>6, <1>7, <1>8, <1>9, <1>10, <1>11, <1>12, <1>13 DEF Next

(* While a credential retrieval holds its iPad, the dispatcher starts no   *)
(* job on it, unless an administrator wrote that record in the meantime.   *)
THEOREM ReservationExclusive == Spec => []ReservationIsExclusive
  <1>1. Init => Reserved
    BY DEF Init, IdleOp, Reserved
  <1>2. Reserved => ReservationIsExclusive
    BY DEF Reserved, ReservationIsExclusive
  <1> QED
    BY <1>1, <1>2, Invariance, NextReserved, PTL DEF Spec

----------------------------------------------------------------------------
(* A retrieval that ends gives the iPad back, if nobody has written its    *)
(* record meanwhile.  The dispatcher may have (run device_release): the    *)
(* theorem says that nothing else keeps the iPad.                          *)

(* While the record has the revision start() wrote, it says what start()   *)
(* wrote.                                                                  *)
AsReserved ==
  op.state = "running" /\ device[op.deviceId].updatedAt = op.reservedAt
    => device[op.deviceId].enabled /\ device[op.deviceId].draining

(* Whoever writes a record moves its revision.                             *)
Revised(table) ==
  \A d \in Devices :
    /\ device[d].updatedAt <= table[d].updatedAt
    /\ table[d].updatedAt = device[d].updatedAt => table[d] = device[d]

LEMMA RevisedStep ==
  ASSUME IInv, AsReserved, op' = op, device' \in [Devices -> DeviceRecord], Revised(device')
  PROVE  AsReserved'
  <1> SUFFICES ASSUME op.state = "running", device'[op.deviceId].updatedAt = op.reservedAt
               PROVE  device'[op.deviceId].enabled /\ device'[op.deviceId].draining
    BY DEF AsReserved
  <1>1. /\ op.deviceId \in Devices /\ op.reservedAt <= device[op.deviceId].updatedAt
        /\ op.reservedAt \in Nat /\ device[op.deviceId].updatedAt \in Nat
    BY DEF IInv, ReservationKnown, TypeOK, OpRecord, DeviceRecord
  <1>2. device'[op.deviceId] = device[op.deviceId]
    BY <1>1 DEF Revised
  <1> QED
    BY <1>2 DEF AsReserved

(* A write of one record, and a dispatch after it.                         *)
LEMMA WriteRevises ==
  ASSUME IInv, NEW d \in Devices, NEW r \in DeviceRecord, r.updatedAt = device[d].updatedAt + 1,
         NEW table, table = [device EXCEPT ![d] = r]
  PROVE  table \in [Devices -> DeviceRecord] /\ Revised(table)
  <1>1. device \in [Devices -> DeviceRecord] /\ \A e \in Devices : device[e].updatedAt \in Nat
    BY DEF IInv, TypeOK, DeviceRecord
  <1> QED
    BY <1>1 DEF Revised

LEMMA DrainRevises ==
  ASSUME IInv, NEW table \in [Devices -> DeviceRecord], NEW held, Revised(table)
  PROVE  Drained(table, held) \in [Devices -> DeviceRecord] /\ Revised(Drained(table, held))
  <1> PICK drained : drained = Drained(table, held)
    OBVIOUS
  <1>1. /\ drained \in [Devices -> DeviceRecord]
        /\ \A d \in Devices : /\ table[d].updatedAt <= drained[d].updatedAt
                              /\ drained[d].updatedAt = table[d].updatedAt => drained[d] = table[d]
    BY DrainedLemma
  <1>2. \A d \in Devices : /\ device[d].updatedAt \in Nat /\ table[d].updatedAt \in Nat
                          /\ drained[d].updatedAt \in Nat
    BY <1>1 DEF IInv, TypeOK, DeviceRecord
  <1>3. ASSUME NEW d \in Devices
        PROVE  /\ device[d].updatedAt <= drained[d].updatedAt
               /\ drained[d].updatedAt = device[d].updatedAt => drained[d] = device[d]
    <2>1. /\ device[d].updatedAt <= table[d].updatedAt
          /\ table[d].updatedAt = device[d].updatedAt => table[d] = device[d]
      BY DEF Revised
    <2>2. /\ table[d].updatedAt <= drained[d].updatedAt
          /\ drained[d].updatedAt = table[d].updatedAt => drained[d] = table[d]
          /\ device[d].updatedAt \in Nat /\ table[d].updatedAt \in Nat /\ drained[d].updatedAt \in Nat
      BY <1>1, <1>2
    <2> QED
      BY <2>1, <2>2
  <1> QED
    BY <1>1, <1>3 DEF Revised

LEMMA NextAsReserved == IInv /\ AsReserved /\ [Next]_vars => AsReserved'
  <1> SUFFICES ASSUME IInv, AsReserved, [Next]_vars PROVE AsReserved'
    OBVIOUS
  <1>0. /\ device \in [Devices -> DeviceRecord] /\ op \in OpRecord /\ savedOp \in OpRecord
        /\ \A d \in Devices : device[d] \in DeviceRecord /\ device[d].updatedAt \in Nat
    BY DEF IInv, TypeOK, DeviceRecord
  <1>1. Revised(device)
    BY <1>0 DEF Revised
  <1>2. CASE UNCHANGED <<op, device>>
    BY <1>2 DEF AsReserved
  <1>3. ASSUME NEW held, op' = op, device' = Drained(device, held) PROVE AsReserved'
    <2>1. device' \in [Devices -> DeviceRecord] /\ Revised(device')
      BY <1>0, <1>1, <1>3, DrainRevises
    <2> QED
      BY <1>3, <2>1, RevisedStep
  <1>4. ASSUME NEW d \in Devices, NEW r \in DeviceRecord, r.updatedAt = device[d].updatedAt + 1,
               op' = op, device' = [device EXCEPT ![d] = r]
        PROVE  AsReserved'
    <2>1. device' \in [Devices -> DeviceRecord] /\ Revised(device')
      BY <1>4, WriteRevises
    <2> QED
      BY <1>4, <2>1, RevisedStep
  <1>5. CASE op'.state # "running"
    BY <1>5 DEF AsReserved
  <1>6. ASSUME NEW d \in Devices, StartRetrieval(d) PROVE AsReserved'
    <2>1. /\ device' = [device EXCEPT ![d] = SetDraining(@, TRUE)] /\ op' = Started(d)
          /\ device[d].enabled
      BY <1>6 DEF StartRetrieval, CanReserve, Accepting
    <2>2. op'.deviceId = d /\ device'[d] = SetDraining(device[d], TRUE)
      BY <1>0, <2>1 DEF Started
    <2> QED
      BY <2>1, <2>2 DEF AsReserved, SetDraining
  <1>7. ASSUME NEW d \in Devices, StartRetrievalUnsaved(d) PROVE AsReserved'
    BY <1>7 DEF StartRetrievalUnsaved, CanReserve, AsReserved
  <1>8. ASSUME NEW d \in Devices, AdminDrain(d) PROVE AsReserved'
    <2> PICK r : r = SetDraining(device[d], TRUE)
      OBVIOUS
    <2> PICK table : table = [device EXCEPT ![d] = r]
      OBVIOUS
    <2>1. op' = op /\ device' = Drained(table, busy)
      BY <1>8 DEF AdminDrain, AdminWrites, PumpWorkers
    <2>2. r \in DeviceRecord /\ r.updatedAt = device[d].updatedAt + 1
      BY <1>0, WriteLemma
    <2>3. table \in [Devices -> DeviceRecord] /\ Revised(table)
      BY <2>2, WriteRevises
    <2>4. device' \in [Devices -> DeviceRecord] /\ Revised(device')
      BY <2>1, <2>3, DrainRevises
    <2> QED
      BY <2>1, <2>4, RevisedStep
  <1>9. ASSUME NEW d \in Devices, NEW value \in BOOLEAN, AdminSetEnabled(d, value) PROVE AsReserved'
    <2>1. op' = op /\ device' = [device EXCEPT ![d] = SetEnabled(device[d], value)]
      BY <1>9 DEF AdminSetEnabled, AdminWrites
    <2> PICK r : r = SetEnabled(device[d], value)
      OBVIOUS
    <2>2. r \in DeviceRecord /\ r.updatedAt = device[d].updatedAt + 1
      BY <1>0, WriteLemma
    <2> QED
      BY <1>4, <2>1, <2>2
  <1>10. ASSUME NEW d \in Devices, AdminRename(d) PROVE AsReserved'
    <2>1. op' = op /\ device' = [device EXCEPT ![d] = Rename(device[d])]
      BY <1>10 DEF AdminRename, AdminWrites
    <2> PICK r : r = Rename(device[d])
      OBVIOUS
    <2>2. r \in DeviceRecord /\ r.updatedAt = device[d].updatedAt + 1
      <3>1. device[d] \in DeviceRecord
        BY <1>0
      <3> QED
        BY <3>1, WriteLemma
    <2> QED
      BY <1>4, <2>1, <2>2
  <1>11. ASSUME NEW outcome \in {"succeeded", "failed"}, NEW saved \in BOOLEAN,
                RetrievalEnds(outcome, saved)
         PROVE AsReserved'
    <2>1. op' = [op EXCEPT !.state = outcome]
      BY <1>11 DEF RetrievalEnds
    <2> QED
      BY <1>0, <1>5, <2>1 DEF OpRecord
  <1>12. CASE Restart
    <2>1. op'.state # "running"
      BY <1>0, <1>12 DEF Restart, OpRecord
    <2> QED
      BY <1>5, <2>1
  <1>13. CASE Crash
    BY <1>5, <1>13 DEF Crash, IdleOp
  <1>14. CASE Dispatch
    BY <1>3, <1>14 DEF Dispatch, PumpWorkers
  <1>15. ASSUME NEW d \in Devices, JobFinishes(d) \/ RunUnwinds(d) PROVE AsReserved'
    BY <1>2, <1>3, <1>15 DEF JobFinishes, RunUnwinds, PumpWorkers
  <1>16. CASE ForgetCredential \/ UNCHANGED vars
    BY <1>2, <1>16 DEF ForgetCredential, vars
  <1> QED
    BY <1>6, <1>7, <1>8, <1>9, <1>10, <1>11, <1>12, <1>13, <1>14, <1>15, <1>16 DEF Next

(* A retrieval is under way in a process only.                             *)
RunsAlive == op.state = "running" => alive

LEMMA NextRunsAlive == IInv /\ RunsAlive /\ [Next]_vars => RunsAlive'
  <1> SUFFICES ASSUME IInv, RunsAlive, [Next]_vars PROVE RunsAlive'
    OBVIOUS
  <1>1. CASE Crash
    BY <1>1 DEF Crash, IdleOp, RunsAlive
  <1>2. CASE Restart
    BY <1>2 DEF Restart, RunsAlive
  <1>3. CASE UNCHANGED <<alive, op>>
    BY <1>3 DEF RunsAlive
  <1>4. CASE alive /\ alive' = alive
    BY <1>4 DEF RunsAlive
  <1> QED
    BY <1>1, <1>2, <1>3, <1>4
    DEF Next, Dispatch, JobFinishes, RunUnwinds, StartRetrieval, StartRetrievalUnsaved, AdminDrain,
        AdminSetEnabled, AdminRename, AdminWrites, RetrievalEnds, ForgetCredential, vars

(* Nobody but an administrator writes the record of a reserved iPad.       *)
RecordIsLeftAlone ==
  op.state = "running" /\ ~touched => device[op.deviceId].updatedAt = op.reservedAt

(* restoreDevice: a retrieval that ends gives the iPad back, in every      *)
(* behaviour in which the dispatcher leaves the record of the reserved     *)
(* iPad alone; crashes, failed writes and administrators do not keep it.   *)
THEOREM RetrievalReleasesUnlessDrained ==
  Spec /\ []RecordIsLeftAlone => RetrievalReleasesDevice
  <1>1. Init => AsReserved
    BY DEF Init, IdleOp, AsReserved
  <1>2. Init => RunsAlive
    BY DEF Init, RunsAlive
  <1>3. IInv /\ AsReserved /\ RunsAlive /\ RecordIsLeftAlone /\ [Next]_vars
          => [(op.state = "running" /\ op'.state \in {"succeeded", "failed"} /\ ~touched)
               => Accepting(device'[op.deviceId])]_vars
    <2> SUFFICES ASSUME IInv, AsReserved, RunsAlive, RecordIsLeftAlone, Next, op.state = "running",
                        op'.state \in {"succeeded", "failed"}, ~touched
                 PROVE  Accepting(device'[op.deviceId])
      OBVIOUS
    <2>1. op' # op
      OBVIOUS
    <2>2. /\ op.deviceId \in Devices /\ device \in [Devices -> DeviceRecord]
          /\ device[op.deviceId].updatedAt = op.reservedAt
          /\ device[op.deviceId].enabled
      BY DEF IInv, ReservationKnown, TypeOK, RecordIsLeftAlone, AsReserved
    <2>3. device' = RestoreDevice(device, op.deviceId, op.reservedAt)
      <3>1. ~(\E d \in Devices : StartRetrieval(d))
        BY DEF StartRetrieval, CanReserve
      <3>2. ~Crash /\ ~Restart
        <4>1. CASE Crash
          BY <4>1 DEF Crash, IdleOp
        <4>2. CASE Restart
          BY <4>2 DEF Restart, RunsAlive
        <4> QED
          BY <4>1, <4>2
      <3> QED
        BY <2>1, <3>1, <3>2
        DEF Next, Dispatch, JobFinishes, RunUnwinds, StartRetrievalUnsaved, AdminDrain, AdminSetEnabled,
            AdminRename, AdminWrites, RetrievalEnds, ForgetCredential
    <2>4. device'[op.deviceId] = SetDraining(device[op.deviceId], FALSE)
      BY <2>2, <2>3 DEF RestoreDevice
    <2> QED
      BY <2>2, <2>4 DEF SetDraining, Accepting
  <1> QED
    BY <1>1, <1>2, <1>3, NextAsReserved, NextRunsAlive, Invariance, PTL DEF Spec, RetrievalReleasesDevice
=============================================================================
