------------------------ MODULE DeviceServicesProofs ------------------------
(***************************************************************************)
(* The services around a device, for any parameters: the promise chains    *)
(* that writes to a device go through implement SerialOrder, USB events    *)
(* are answered, jobs leave a device only after a span of silence, and     *)
(* side by side with the records of the devices, whose invariant is that   *)
(* of DeviceReservationProofs, all of it is well typed.                    *)
(***************************************************************************)
EXTENDS MCDeviceServices, DeviceReservationProofs, WellFoundedInduction

(***************************************************************************)
(* KeyedSerial.  A call sees only the tail it joins.  The invariant says   *)
(* what that tail stands for: TailIsLast, it belongs to the latest         *)
(* unfinished call of its key, and PreviousIsNext, everything unfinished   *)
(* that was called before a waiting operation was called no later than the *)
(* operation it waits for.  With NobodyBefore the end of that one is the   *)
(* end of all of them.                                                     *)
(***************************************************************************)

Called(o) == state[o] # "idle"
NoneEarlier(o) == \A q \in Pending : KeyOf[q] = KeyOf[o] => rank[o] <= rank[q]

(* Ranks are those of the calls and tell them apart.                       *)
Ranked ==
  /\ \A o \in Ops : Called(o) => rank[o] < calls
  /\ \A o, p \in Ops : Called(o) /\ Called(p) /\ rank[o] = rank[p] => o = p

TailIsLast ==
  /\ \A o \in Pending : keyQueues[KeyOf[o]] # None /\ rank[o] <= rank[keyQueues[KeyOf[o]]]
  /\ \A k \in Keys : keyQueues[k] # None => keyQueues[k] \in Pending

PreviousIsNext ==
  \A o \in Ops : state[o] = "waiting" =>
    /\ previous[o] # None => Called(previous[o])
    /\ \A q \in Pending :
         KeyOf[q] = KeyOf[o] /\ rank[q] < rank[o]
           => previous[o] # None /\ rank[q] <= rank[previous[o]]

NobodyBefore == \A o \in Ops : state[o] \in {"running", "done"} => NoneEarlier(o)

SerialInv == SerialTypeOK /\ Ranked /\ TailIsLast /\ PreviousIsNext /\ NobodyBefore

LEMMA InitSerialInv == SerialInit => SerialInv
  BY KeyAssumption, NoneAssumption
  DEF SerialInit, SerialInv, SerialTypeOK, Ranked, TailIsLast, PreviousIsNext, NobodyBefore, Called, Pending,
      States, NoneEarlier

LEMMA CallSerialInv ==
  ASSUME NEW o \in Ops, SerialInv, Call(o)
  PROVE  SerialInv'
<1> USE KeyAssumption, NoneAssumption DEF Pending
<1>0. SerialTypeOK /\ Ranked /\ TailIsLast /\ PreviousIsNext /\ NobodyBefore
  BY DEF SerialInv
<1>1. /\ state[o] = "idle"
      /\ state' = [state EXCEPT ![o] = "waiting"]
      /\ previous' = [previous EXCEPT ![o] = keyQueues[KeyOf[o]]]
      /\ keyQueues' = [keyQueues EXCEPT ![KeyOf[o]] = o]
      /\ calls' = calls + 1
      /\ rank' = [rank EXCEPT ![o] = calls]
  BY DEF Call, ChainTail
<1>2. SerialTypeOK'
  BY <1>0, <1>1 DEF SerialTypeOK, States
<1>3. Ranked'
  BY <1>0, <1>1 DEF Ranked, SerialTypeOK, Called
<1>4. TailIsLast'
  BY <1>0, <1>1 DEF TailIsLast, Ranked, SerialTypeOK, Called
<1>5. PreviousIsNext'
  <2> SUFFICES ASSUME NEW p \in Ops, state'[p] = "waiting"
               PROVE  /\ previous'[p] # None => Called(previous[p])'
                      /\ \A q \in Pending' :
                           KeyOf[q] = KeyOf[p] /\ rank'[q] < rank'[p]
                             => previous'[p] # None /\ rank'[q] <= rank'[previous'[p]]
    BY DEF PreviousIsNext
  <2>1. CASE p = o
    BY <1>0, <1>1, <2>1 DEF TailIsLast, Ranked, SerialTypeOK, Called
  <2>2. CASE p # o
    BY <1>0, <1>1, <2>2 DEF PreviousIsNext, Ranked, SerialTypeOK, Called
  <2> QED BY <2>1, <2>2
<1>6. NobodyBefore'
  BY <1>0, <1>1 DEF NobodyBefore, NoneEarlier, Ranked, SerialTypeOK, Called
<1> QED BY <1>2, <1>3, <1>4, <1>5, <1>6 DEF SerialInv

(* Who may start has nobody before: the one it waits for has ended, and so *)
(* have all those called earlier.                                          *)
LEMMA ResolvedIsFirst ==
  ASSUME NEW o \in Ops, SerialInv, state[o] = "waiting", Resolved(o)
  PROVE  NoneEarlier(o)
<1> SUFFICES ASSUME NEW q \in Pending, KeyOf[q] = KeyOf[o], rank[q] < rank[o]
             PROVE  FALSE
  BY DEF NoneEarlier, SerialInv, SerialTypeOK, Pending
<1>1. previous[o] \in Ops /\ previous[o] # None /\ rank[q] <= rank[previous[o]]
  BY DEF SerialInv, PreviousIsNext, SerialTypeOK
<1>2. state[previous[o]] = "done" /\ KeyOf[previous[o]] = KeyOf[o]
  BY <1>1 DEF Resolved, SerialInv, SerialTypeOK
<1>3. rank[previous[o]] <= rank[q]
  BY <1>1, <1>2 DEF SerialInv, NobodyBefore, NoneEarlier
<1>4. previous[o] = q
  BY <1>1, <1>2, <1>3 DEF SerialInv, Ranked, Called, SerialTypeOK, Pending
<1> QED BY <1>2, <1>4 DEF Pending

LEMMA BeginSerialInv ==
  ASSUME NEW o \in Ops, SerialInv, Begin(o)
  PROVE  SerialInv'
<1> USE KeyAssumption, NoneAssumption
<1>1. NoneEarlier(o)
  BY ResolvedIsFirst DEF Begin
<1>2. Pending' = Pending /\ UNCHANGED <<previous, keyQueues, calls, rank>>
  BY DEF Begin, Pending, SerialInv, SerialTypeOK
<1>3. SerialTypeOK'
  BY DEF Begin, SerialInv, SerialTypeOK, States
<1>4. \A p \in Ops : Called(p)' = Called(p)
  BY DEF Begin, Called, SerialInv, SerialTypeOK
<1>5. Ranked' /\ TailIsLast'
  BY <1>2, <1>4 DEF SerialInv, Ranked, TailIsLast
<1>6. PreviousIsNext'
  BY <1>2, <1>4 DEF SerialInv, PreviousIsNext, Begin, SerialTypeOK
<1>7. NobodyBefore'
  BY <1>1, <1>2 DEF SerialInv, NobodyBefore, NoneEarlier, Begin, SerialTypeOK
<1> QED BY <1>3, <1>5, <1>6, <1>7 DEF SerialInv

LEMMA EndSerialInv ==
  ASSUME NEW o \in Ops, SerialInv, End(o)
  PROVE  SerialInv'
<1> USE KeyAssumption, NoneAssumption
<1>1. /\ state[o] = "running"
      /\ state' = [state EXCEPT ![o] = "done"]
      /\ keyQueues' = WithoutTail(o)
      /\ UNCHANGED <<previous, calls, rank>>
  BY DEF End
<1>2. Pending' = Pending \ {o}
  BY <1>1 DEF Pending, SerialInv, SerialTypeOK
<1>3. SerialTypeOK'
  BY <1>1 DEF SerialInv, SerialTypeOK, States, WithoutTail
<1>4. \A p \in Ops : Called(p)' = Called(p)
  BY <1>1 DEF Called, SerialInv, SerialTypeOK
<1>5. Ranked'
  BY <1>1, <1>4 DEF SerialInv, Ranked
<1>6. NoneEarlier(o)
  BY <1>1 DEF SerialInv, NobodyBefore
<1>7. keyQueues[KeyOf[o]] = o => \A p \in Pending : KeyOf[p] = KeyOf[o] => p = o
  BY <1>1, <1>6 DEF SerialInv, TailIsLast, NoneEarlier, Ranked, Called, SerialTypeOK, Pending
<1>8. TailIsLast'
  BY <1>1, <1>2, <1>7 DEF SerialInv, TailIsLast, WithoutTail, SerialTypeOK, Pending
<1>9. PreviousIsNext'
  BY <1>1, <1>2, <1>4 DEF SerialInv, PreviousIsNext, SerialTypeOK
<1>10. NobodyBefore'
  BY <1>1, <1>2, <1>6 DEF SerialInv, NobodyBefore, NoneEarlier, SerialTypeOK
<1> QED BY <1>3, <1>5, <1>8, <1>9, <1>10 DEF SerialInv

LEMMA NextSerialInv == SerialInv /\ [SerialNext]_serialVars => SerialInv'
<1> SUFFICES ASSUME SerialInv, [SerialNext]_serialVars PROVE SerialInv'
  OBVIOUS
<1>1. CASE \E o \in Ops : Call(o) \/ Begin(o) \/ End(o)
  BY <1>1, CallSerialInv, BeginSerialInv, EndSerialInv
<1>2. CASE UNCHANGED serialVars
  BY <1>2 DEF serialVars, SerialInv, SerialTypeOK, Ranked, TailIsLast, PreviousIsNext, NobodyBefore, NoneEarlier,
              Called, Pending
<1> QED BY <1>1, <1>2 DEF SerialNext

(* runKeyedSerial: the invariant of the chains.                            *)
THEOREM SerialInvariance == SerialSpec => []SerialInv
<1> QED BY InitSerialInv, NextSerialInv, PTL DEF SerialSpec

(* Every state of the chains is well typed and chains do not cross keys.   *)
THEOREM SerialTypeCorrectness == SerialSpec => []SerialTypeOK
<1>1. SerialInv => SerialTypeOK
  BY DEF SerialInv
<1> QED BY <1>1, SerialInvariance, PTL

(* Two operations of one key never run at the same time.                   *)
THEOREM MutualExclusion == SerialSpec => []Exclusive
<1>1. SerialInv => Exclusive
  BY DEF SerialInv, SerialTypeOK, NobodyBefore, NoneEarlier, Ranked, Called, Exclusive, Pending
<1> QED BY <1>1, SerialInvariance, PTL

(* The map has an entry exactly for the keys in use.                       *)
THEOREM NoLostChain == SerialSpec => []EntriesAreInUse
<1>1. SerialInv => EntriesAreInUse
  BY KeyAssumption DEF SerialInv, SerialTypeOK, TailIsLast, EntriesAreInUse, Pending
<1> QED BY <1>1, SerialInvariance, PTL

(* Nobody waits for ever because everybody waits: whoever waits for its    *)
(* turn has an operation of its key that runs or may begin.                *)
ChainsMove ==
  \A o \in Ops : state[o] = "waiting" =>
    \E p \in Ops : /\ KeyOf[p] = KeyOf[o]
                   /\ state[p] = "running" \/ (state[p] = "waiting" /\ Resolved(p))

(* Operations wait for earlier ones only, so that chains have a beginning. *)
WaitsForEarlier ==
  \A o \in Ops : Called(o) /\ previous[o] # None =>
    Called(previous[o]) /\ rank[previous[o]] < rank[o]

LEMMA NextWaits == SerialInv /\ WaitsForEarlier /\ [SerialNext]_serialVars => WaitsForEarlier'
<1> SUFFICES ASSUME SerialInv, WaitsForEarlier, [SerialNext]_serialVars PROVE WaitsForEarlier'
  OBVIOUS
<1> USE KeyAssumption, NoneAssumption
<1>0. /\ SerialTypeOK
      /\ \A k \in Keys : keyQueues[k] # None => keyQueues[k] \in Pending
      /\ \A p \in Ops : Called(p) => rank[p] < calls
  BY DEF SerialInv, TailIsLast, Ranked
<1>1. ASSUME NEW o \in Ops, Call(o) PROVE WaitsForEarlier'
  <2>1. /\ state[o] = "idle" /\ state' = [state EXCEPT ![o] = "waiting"]
        /\ previous' = [previous EXCEPT ![o] = keyQueues[KeyOf[o]]]
        /\ rank' = [rank EXCEPT ![o] = calls]
    BY <1>1 DEF Call, ChainTail
  <2> QED BY <1>0, <2>1 DEF WaitsForEarlier, SerialTypeOK, Called, Pending
<1>2. ASSUME NEW o \in Ops, Begin(o) \/ End(o) PROVE WaitsForEarlier'
  <2>1. \A p \in Ops : Called(p)' = Called(p)
    BY <1>0, <1>2 DEF Begin, End, Called, SerialTypeOK
  <2>2. UNCHANGED <<previous, rank>>
    BY <1>2 DEF Begin, End
  <2> QED BY <1>0, <2>1, <2>2 DEF WaitsForEarlier, SerialTypeOK
<1>3. CASE UNCHANGED serialVars
  BY <1>3 DEF serialVars, WaitsForEarlier, Called
<1> QED BY <1>1, <1>2, <1>3 DEF SerialNext

(* A set of numbers that is not empty has a least one.                     *)
LEMMA LeastNumber ==
  ASSUME NEW S \in SUBSET Nat, S # {}
  PROVE  \E x \in S : \A y \in S : x <= y
<1> DEFINE R == {p \in Nat \X Nat : p[1] < p[2]}
<1>1. IsWellFoundedOn(R, Nat)
  <2>1. R = OpToRel(<, Nat)
    BY DEF OpToRel
  <2> QED BY <2>1, NatLessThanWellFounded
<1>2. PICK x \in S : \A y \in S : ~(<<y, x>> \in R)
  <2> HIDE DEF R
  <2> QED BY <1>1, WFMin
<1>3. ASSUME NEW y \in S PROVE x <= y
  <2>1. <<y, x>> \in Nat \X Nat /\ <<y, x>> \notin R
    BY <1>2
  <2>2. ~(y < x)
    BY <2>1
  <2> QED BY <2>2
<1> QED BY <1>3

(* runKeyedSerial has no deadlock: among the unfinished operations of a    *)
(* key the one called first runs, or nothing keeps it from beginning.      *)
THEOREM ChainsNeverStall == SerialSpec => []ChainsMove
<1>1. SerialInit => WaitsForEarlier
  BY DEF SerialInit, WaitsForEarlier, Called
<1>2. SerialInv /\ WaitsForEarlier => ChainsMove
  <2> SUFFICES ASSUME SerialInv, WaitsForEarlier, NEW o \in Ops, state[o] = "waiting"
               PROVE  \E p \in Ops : /\ KeyOf[p] = KeyOf[o]
                                     /\ \/ state[p] = "running"
                                        \/ state[p] = "waiting" /\ Resolved(p)
    BY DEF ChainsMove
  <2> DEFINE Mine == {p \in Pending : KeyOf[p] = KeyOf[o]}
  <2>1. o \in Mine /\ \A p \in Mine : p \in Ops /\ rank[p] \in Nat
    BY DEF Pending, SerialInv, SerialTypeOK
  <2>2. PICK p \in Mine : \A q \in Mine : rank[p] <= rank[q]
    <3>1. {rank[q] : q \in Mine} \in SUBSET Nat /\ {rank[q] : q \in Mine} # {}
      BY <2>1
    <3>2. PICK x \in {rank[q] : q \in Mine} : \A y \in {rank[q] : q \in Mine} : x <= y
      BY <3>1, LeastNumber
    <3> QED BY <3>2
  <2>3. p \in Ops /\ KeyOf[p] = KeyOf[o] /\ state[p] \in {"waiting", "running"}
    BY DEF Pending
  <2>4. ASSUME state[p] = "waiting" PROVE Resolved(p)
    <3> SUFFICES ASSUME previous[p] # None PROVE state[previous[p]] = "done"
      BY DEF Resolved
    <3>1. /\ previous[p] \in Ops /\ KeyOf[previous[p]] = KeyOf[p]
          /\ state[previous[p]] # "idle" /\ rank[previous[p]] < rank[p]
      BY <2>3, <2>4 DEF SerialInv, SerialTypeOK, WaitsForEarlier, Called
    <3>2. previous[p] \notin Mine
      <4>1. rank[previous[p]] \in Nat /\ rank[p] \in Nat
        BY <2>3, <3>1 DEF SerialInv, SerialTypeOK
      <4> QED BY <2>2, <3>1, <4>1
    <3>3. state[previous[p]] \in States
      BY <3>1 DEF SerialInv, SerialTypeOK
    <3> QED BY <2>3, <3>1, <3>2, <3>3 DEF Pending, States
  <2> QED BY <2>3, <2>4
<1> QED BY <1>1, <1>2, NextWaits, SerialInvariance, PTL DEF SerialSpec

(* The refinement.                                                         *)

LEMMA InitOrder == SerialInit => Order!Init
  BY DEF SerialInit, Order!Init, Earlier

LEMMA CallOrder ==
  ASSUME NEW o \in Ops, SerialInv, Call(o)
  PROVE  Order!Call(o)
<1>1. /\ state[o] = "idle"
      /\ state' = [state EXCEPT ![o] = "waiting"]
      /\ rank' = [rank EXCEPT ![o] = calls]
  BY DEF Call
<1>2. Pending' = Pending \cup {o} /\ o \notin Pending
  BY <1>1 DEF Pending, SerialInv, SerialTypeOK
<1>3. \A p \in Pending : rank'[p] = rank[p] /\ rank[p] < calls
  BY <1>1, <1>2 DEF SerialInv, Ranked, Called, SerialTypeOK, Pending
<1>4. Earlier(o)' = Order!Unfinished(KeyOf[o])
  BY <1>1, <1>2, <1>3 DEF Earlier, Order!Unfinished, Pending, SerialInv, SerialTypeOK
<1>5. ASSUME NEW p \in Ops, p # o
      PROVE  Earlier(p)' = Earlier(p)
  <2>1. CASE state[p] = "waiting"
    <3>1. rank[p] < calls /\ rank'[p] = rank[p] /\ rank'[o] = calls /\ state'[p] = "waiting"
      BY <1>1, <1>5, <2>1 DEF SerialInv, Ranked, Called, SerialTypeOK
    <3>2. calls \in Nat /\ rank[p] \in Nat
      BY DEF SerialInv, SerialTypeOK
    <3> QED BY <1>2, <1>3, <2>1, <3>1, <3>2 DEF Earlier
  <2>2. CASE state[p] # "waiting"
    BY <1>1, <1>5, <2>2 DEF Earlier, SerialInv, SerialTypeOK
  <2> QED BY <2>1, <2>2
<1>6. [p \in Ops |-> Earlier(p)]' = [[p \in Ops |-> Earlier(p)] EXCEPT ![o] = Order!Unfinished(KeyOf[o])]
  BY <1>4, <1>5
<1> QED BY <1>1, <1>6 DEF Order!Call

LEMMA BeginOrder ==
  ASSUME NEW o \in Ops, SerialInv, Begin(o)
  PROVE  Order!Begin(o)
<1>1. /\ state[o] = "waiting"
      /\ state' = [state EXCEPT ![o] = "running"]
      /\ rank' = rank
  BY DEF Begin
<1>2. NoneEarlier(o)
  BY ResolvedIsFirst DEF Begin
<1>3. Earlier(o) = {}
  BY <1>2 DEF NoneEarlier, Earlier, Pending, SerialInv, SerialTypeOK
<1>4. Pending' = Pending
  BY <1>1 DEF Pending, SerialInv, SerialTypeOK
<1>5. ASSUME NEW p \in Ops PROVE Earlier(p)' = Earlier(p)
  BY <1>1, <1>3, <1>4 DEF Earlier, SerialInv, SerialTypeOK
<1>6. [p \in Ops |-> Earlier(p)]' = [p \in Ops |-> Earlier(p)]
  BY <1>5
<1> QED BY <1>1, <1>3, <1>6 DEF Order!Begin

LEMMA EndOrder ==
  ASSUME NEW o \in Ops, SerialInv, End(o)
  PROVE  Order!End(o)
<1>1. /\ state[o] = "running"
      /\ state' = [state EXCEPT ![o] = "done"]
      /\ rank' = rank
  BY DEF End
<1>2. Pending' = Pending \ {o}
  BY <1>1 DEF Pending, SerialInv, SerialTypeOK
<1>3. ASSUME NEW p \in Ops PROVE Earlier(p)' = Earlier(p) \ {o}
  BY <1>1, <1>2 DEF Earlier, SerialInv, SerialTypeOK
<1>4. [p \in Ops |-> Earlier(p)]' = [p \in Ops |-> [q \in Ops |-> Earlier(q)][p] \ {o}]
  BY <1>3
<1> QED BY <1>1, <1>4 DEF Order!End

(* The chains of promises keep what SerialOrder promises.                  *)
THEOREM ImplementsSerialOrder == SerialSpec => RunsInOrder
<1>1. SerialInv /\ [SerialNext]_serialVars => [Order!Next]_(Order!vars)
  <2> SUFFICES ASSUME SerialInv, [SerialNext]_serialVars PROVE [Order!Next]_(Order!vars)
    OBVIOUS
  <2>1. CASE \E o \in Ops : Call(o) \/ Begin(o) \/ End(o)
    BY <2>1, CallOrder, BeginOrder, EndOrder DEF Order!Next
  <2>2. CASE UNCHANGED serialVars
    BY <2>2 DEF serialVars, Order!vars, Earlier, Pending
  <2> QED BY <2>1, <2>2 DEF SerialNext
<1> QED BY <1>1, InitOrder, SerialInvariance, PTL DEF SerialSpec, RunsInOrder, Order!Spec
----------------------------------------------------------------------------
(***************************************************************************)
(* DeviceHealth for any times and bounds.  A device loses its jobs when    *)
(* the history of its checks shows a sustained outage; the history knows   *)
(* nothing of the answers polls got, the clock `quiet' nothing of the      *)
(* checks.  SilenceIsKept ties the two: as long as the device has been     *)
(* found away at every check since one, no poll has had an answer since,   *)
(* so that `quiet' is as old as that check, or has reached the span.       *)
(***************************************************************************)

Probes == {NoProbe} \cup [saw: Conditions, age: 0..ProbeTime]
Ages   == {Reachable} \cup 0..OldAge

AwaySince(history, i) == \A j \in i..Len(history) : history[j] # Reachable

SilenceIsKept ==
  \A i \in 1..Len(checks) : AwaySince(checks, i) => checks[i] <= quiet \/ quiet = Span

(* The health that hides a failure has been seen.                          *)
GoodWasSeen == knownGood => "ready" \in Conditions

HealthInv == HealthTypeOK /\ UsbEventsAreAnswered /\ SilenceIsKept /\ GoodWasSeen

LEMMA TimesLemma ==
  /\ Interval \in Nat /\ Interval > 0 /\ Confirmations \in Nat /\ Confirmations > 0
  /\ Checks \in Nat /\ Checks > 0
  /\ Span \in Nat /\ AlertAfter \in Nat /\ ProbeTime \in Nat
  /\ MaxUsbEvents \in Nat /\ MaxRestarts \in Nat /\ Window \in Nat /\ Span <= Window
  /\ OldAge \in Nat /\ Span < OldAge
<1>1. /\ Interval \in Nat /\ Interval > 0 /\ Confirmations \in Nat /\ Confirmations > 0
      /\ Checks \in Nat /\ Checks > 0
      /\ Span \in Nat /\ AlertAfter \in Nat /\ ProbeTime \in Nat
      /\ MaxUsbEvents \in Nat /\ MaxRestarts \in Nat /\ Window \in Nat /\ Span <= Window
  BY HealthTimesAssumption
<1> QED BY <1>1 DEF OldAge

(* Ages grow by one up to their bound; what has no age gets none.          *)
LEMMA OlderLemma ==
  ASSUME NEW most \in Nat, NEW age \in -1..most
  PROVE  /\ Older(age, most) \in -1..most
         /\ age = -1 <=> Older(age, most) = -1
         /\ age \in 0..most => Older(age, most) \in 0..most
         /\ age >= 0 => Older(age, most) <= age + 1
         /\ age = most => Older(age, most) = most
         /\ age \in 0..most /\ age # most => Older(age, most) = age + 1
  BY DEF Older

LEMMA CacheLemma ==
  ASSUME HealthTypeOK, GoodWasSeen, NEW result \in Conditions, CacheHealth(result)
  PROVE  /\ failures' \in 0..Confirmations
         /\ cached' \in Conditions \cup {Nothing}
         /\ knownGood' \in BOOLEAN
         /\ GoodWasSeen'
         /\ CachedWith(result) = "off" => result = "off"
<1>1. failures \in 0..Confirmations /\ knownGood \in BOOLEAN
  BY DEF HealthTypeOK
<1>2. FailuresWith(result) \in 0..Confirmations
  BY <1>1, TimesLemma DEF FailuresWith, Older
<1>3. CachedWith(result) = result \/ (knownGood /\ CachedWith(result) = "ready")
  BY <1>1 DEF CachedWith, Stabilized
<1> QED BY <1>1, <1>2, <1>3 DEF CacheHealth, GoodWasSeen

LEMMA NewProbeLemma == HealthTypeOK => NewProbe \in Probes
  BY TimesLemma DEF HealthTypeOK, NewProbe, Probes

LEMMA BeginPollLemma ==
  ASSUME HealthTypeOK, NEW pending \in Probes, BeginPoll(pending)
  PROVE  poll' = "probing" /\ probe' \in Probes /\ owed' = FALSE
  BY NewProbeLemma DEF BeginPoll

(* When a poll ends, no USB event is left to answer.                       *)
LEMMA PollEndsLemma ==
  ASSUME HealthTypeOK, UsbEventsAreAnswered, NEW pending \in Probes, PollEnds(pending)
  PROVE  /\ poll' \in {"none", "probing", "telling"}
         /\ refresh' \in {"none", "waiting", "running", "rerun"}
         /\ probe' \in Probes
         /\ owed' = FALSE
  BY BeginPollLemma DEF PollEnds, HealthTypeOK, UsbEventsAreAnswered

(* A history that ends with a new check and has the last checks before it. *)
Extends(history) ==
  /\ history \in Seq(Ages) /\ Len(history) \in 1..Checks
  /\ \A i \in 1..(Len(history) - 1) :
       LET first == Len(checks) + 1 - Len(history) IN
       first + i \in 1..Len(checks) /\ history[i] = checks[first + i]

(* recordDeviceHealthCheck keeps the last checks.                          *)
LEMMA RecordedLemma ==
  ASSUME HealthTypeOK, NEW reachable \in BOOLEAN
  PROVE  /\ Extends(Recorded(reachable))
         /\ Recorded(reachable)[Len(Recorded(reachable))] = IF reachable THEN Reachable ELSE 0
<1> DEFINE new == IF reachable THEN Reachable ELSE 0
<1> DEFINE all == Append(checks, new)
<1>1. checks \in Seq(Ages) /\ Len(checks) \in Nat /\ Len(checks) <= Checks /\ new \in Ages
  BY TimesLemma DEF HealthTypeOK, Ages
<1>2. /\ all \in Seq(Ages) /\ Len(all) = Len(checks) + 1
      /\ all[Len(checks) + 1] = new /\ \A i \in 1..Len(checks) : all[i] = checks[i]
  BY <1>1
<1>3. Recorded(reachable) = IF Len(all) > Checks THEN Tail(all) ELSE all
  BY DEF Recorded
<1> HIDE DEF all
<1>4. CASE Len(all) > Checks
  <2>1. /\ Tail(all) \in Seq(Ages) /\ Len(Tail(all)) = Len(checks)
        /\ \A i \in 1..Len(checks) : Tail(all)[i] = all[i + 1]
    BY <1>1, <1>2
  <2>2. Len(checks) = Checks /\ Recorded(reachable) = Tail(all)
    BY <1>1, <1>2, <1>3, <1>4, TimesLemma
  <2> QED BY <1>1, <1>2, <2>1, <2>2, TimesLemma DEF Extends
<1>5. CASE ~(Len(all) > Checks)
  <2>1. Recorded(reachable) = all /\ Len(all) <= Checks
    BY <1>1, <1>2, <1>3, <1>5, TimesLemma
  <2> QED BY <1>1, <1>2, <2>1, TimesLemma DEF Extends
<1> QED BY <1>4, <1>5

(* What such a history says of the device since one of its checks, the     *)
(* checks before it said already.                                          *)
LEMMA ExtendedLemma ==
  ASSUME HealthTypeOK, SilenceIsKept, NEW new, Extends(new),
         NEW i \in 1..(Len(new) - 1), AwaySince(new, i)
  PROVE  new[i] <= quiet \/ quiet = Span
<1> DEFINE first == Len(checks) + 1 - Len(new)
<1>1. Len(new) \in Nat /\ Len(new) >= 1 /\ Len(checks) \in Nat
  BY TimesLemma DEF Extends, HealthTypeOK
<1>2. \A j \in 1..(Len(new) - 1) : first + j \in 1..Len(checks) /\ new[j] = checks[first + j]
  BY DEF Extends
<1>3. AwaySince(checks, first + i)
  <2> SUFFICES ASSUME NEW j \in (first + i)..Len(checks) PROVE checks[j] # Reachable
    BY DEF AwaySince
  <2>1. j - first \in 1..(Len(new) - 1) /\ j - first \in i..Len(new) /\ first + (j - first) = j
    BY <1>1
  <2> QED BY <1>2, <2>1 DEF AwaySince
<1> QED BY <1>2, <1>3 DEF SilenceIsKept

(* A check that finds the device proves nothing about the past; one that   *)
(* does not adds no answer.                                                *)
LEMMA RecordedSilence ==
  ASSUME HealthTypeOK, SilenceIsKept, NEW reachable \in BOOLEAN,
         Extends(checks'), checks'[Len(checks')] = IF reachable THEN Reachable ELSE 0,
         ~reachable => quiet' = quiet, quiet' \in 0..Span
  PROVE  SilenceIsKept'
<1> PICK new : new = checks'
  OBVIOUS
<1>1. Extends(new) /\ new[Len(new)] = IF reachable THEN Reachable ELSE 0
  OBVIOUS
<1>2. Len(new) \in Nat /\ Len(new) >= 1
  BY <1>1, TimesLemma DEF Extends
<1> SUFFICES ASSUME NEW i \in 1..Len(new), AwaySince(new, i)
             PROVE  new[i] <= quiet' \/ quiet' = Span
  BY DEF SilenceIsKept, AwaySince
<1>3. ~reachable /\ quiet' = quiet
  BY <1>1, <1>2 DEF AwaySince
<1>4. CASE i = Len(new)
  BY <1>1, <1>3, <1>4
<1>5. CASE i # Len(new)
  <2>1. i \in 1..(Len(new) - 1)
    BY <1>2, <1>5
  <2> QED BY <1>1, <1>3, <2>1, ExtendedLemma
<1> QED BY <1>4, <1>5

(* An outage is noticed only after a whole span of silence.                *)
LEMMA SustainedSilence ==
  ASSUME HealthTypeOK, SilenceIsKept, NEW new, Extends(new), new[Len(new)] = 0, Sustained(new)
  PROVE  quiet >= Span
<1>1. Checks \in Nat /\ Checks > 0 /\ Span \in Nat /\ quiet \in Nat
  BY TimesLemma DEF HealthTypeOK
<1>2. /\ Len(new) = Checks /\ DOMAIN new = 1..Checks
      /\ \A i \in 1..Checks : new[i] \in Ages
  BY DEF Sustained, Extends
<1>3. /\ new[Checks] = 0 /\ new[1] - new[Checks] >= Span
      /\ \A i \in 1..Checks : new[i] # Reachable
  BY <1>2 DEF Sustained
<1>4. new[1] \in Int /\ new[1] >= Span
  <2>1. new[1] \in Ages
    BY <1>1, <1>2
  <2>2. new[1] \in Int
    BY <2>1, TimesLemma DEF Ages, Reachable
  <2> QED BY <1>1, <1>3, <2>2
<1>5. CASE Checks = 1
  <2>1. new[1] = 0
    BY <1>3, <1>5
  <2> QED BY <1>1, <1>4, <2>1
<1>6. CASE Checks # 1
  <2>1. 1 \in 1..(Len(new) - 1)
    BY <1>1, <1>2, <1>6
  <2>2. AwaySince(new, 1)
    BY <1>2, <1>3 DEF AwaySince
  <2>3. new[1] <= quiet \/ quiet = Span
    BY <2>1, <2>2, ExtendedLemma
  <2> QED BY <1>1, <1>4, <2>3
<1> QED BY <1>5, <1>6
----------------------------------------------------------------------------
(* The steps.                                                              *)

(* A step that leaves the record of the checks alone.                      *)
LEMMA FrameSilence ==
  ASSUME SilenceIsKept, UNCHANGED <<checks, quiet>>
  PROVE  SilenceIsKept'
  BY DEF SilenceIsKept, AwaySince

LEMMA HealthInitInv == HealthInit => HealthInv
<1> SUFFICES ASSUME HealthInit PROVE HealthInv
  OBVIOUS
<1>1. NewProbe \in Probes
  BY TimesLemma DEF HealthInit, NewProbe, Probes
<1>2. /\ 0 \in 0..Confirmations /\ 0 \in 0..Span /\ 0 \in 0..MaxUsbEvents /\ 0 \in 0..MaxRestarts
      /\ 0 \in 0..(Interval - 1) /\ NoOutage \in NoOutage..AlertAfter
      /\ Len(<<>>) <= Checks /\ <<>> \in Seq({Reachable} \cup 0..OldAge)
  BY TimesLemma DEF NoOutage
<1>3. HealthTypeOK
  BY <1>1, <1>2 DEF HealthInit, HealthTypeOK, Probes
<1>4. SilenceIsKept
  BY DEF HealthInit, SilenceIsKept
<1> QED
  BY <1>3, <1>4 DEF HealthInit, HealthInv, UsbEventsAreAnswered, GoodWasSeen

(* checkOfflineAlert.                                                      *)
LEMMA OfflineAlertLemma ==
  ASSUME HealthTypeOK, NEW reachable \in BOOLEAN, OfflineAlert(reachable)
  PROVE  /\ outage' \in NoOutage..AlertAfter /\ alerted' \in BOOLEAN
         /\ outage = NoOutage /\ outage' # NoOutage
              => ~reachable /\ Sustained(Recorded(reachable))
<1>1. outage \in NoOutage..AlertAfter /\ alerted \in BOOLEAN
  BY DEF HealthTypeOK
<1>2. CASE reachable
  <2>1. outage' = NoOutage /\ alerted' = FALSE
    BY <1>2 DEF OfflineAlert
  <2>2. NoOutage \in NoOutage..AlertAfter
    BY TimesLemma DEF NoOutage
  <2> QED BY <2>1, <2>2
<1>3. CASE ~reachable /\ ~Sustained(Recorded(reachable))
  <2>1. UNCHANGED <<outage, alerted>>
    BY <1>3 DEF OfflineAlert
  <2> QED BY <1>1, <2>1
<1>4. CASE ~reachable /\ Sustained(Recorded(reachable))
  <2>1. /\ outage' = IF outage = NoOutage THEN 0 ELSE outage
        /\ alerted' = (alerted \/ outage' >= AlertAfter)
    BY <1>4 DEF OfflineAlert
  <2>2. outage' \in NoOutage..AlertAfter
    BY <1>1, <2>1, TimesLemma DEF NoOutage
  <2>3. alerted' \in BOOLEAN
    BY <1>1, <2>1
  <2> QED BY <1>4, <2>2, <2>3
<1> QED BY <1>2, <1>3, <1>4

(* The end of the shared probe, as the poll that waits for it sees it.     *)
LEMMA PolledLemma ==
  ASSUME HealthInv, NEW result \in Conditions, CacheHealth(result),
         checks' = Recorded(CachedWith(result) # "off"),
         OfflineAlert(CachedWith(result) # "off"),
         quiet' = IF result = "off" THEN quiet ELSE 0
  PROVE  /\ checks' \in Seq({Reachable} \cup 0..OldAge) /\ Len(checks') <= Checks
         /\ quiet' \in 0..Span
         /\ outage' \in NoOutage..AlertAfter /\ alerted' \in BOOLEAN
         /\ SilenceIsKept'
         /\ outage = NoOutage /\ outage' # NoOutage => quiet >= Span
<1> PICK reachable \in BOOLEAN : reachable = (CachedWith(result) # "off")
  OBVIOUS
<1>1. checks' = Recorded(reachable) /\ OfflineAlert(reachable)
  OBVIOUS
<1>2. HealthTypeOK /\ SilenceIsKept /\ GoodWasSeen
  BY DEF HealthInv
<1>3. quiet' \in 0..Span /\ (~reachable => quiet' = quiet)
  <2>1. CachedWith(result) = "off" => result = "off"
    BY <1>2, CacheLemma
  <2>2. quiet \in 0..Span /\ 0 \in 0..Span
    BY <1>2, TimesLemma DEF HealthTypeOK
  <2> QED BY <2>1, <2>2
<1>4. Extends(checks') /\ checks'[Len(checks')] = IF reachable THEN Reachable ELSE 0
  BY <1>1, <1>2, RecordedLemma
<1>5. checks' \in Seq({Reachable} \cup 0..OldAge) /\ Len(checks') <= Checks
  BY <1>4, TimesLemma DEF Ages, Extends
<1>6. SilenceIsKept'
  BY <1>2, <1>3, <1>4, RecordedSilence
<1>7. /\ outage' \in NoOutage..AlertAfter /\ alerted' \in BOOLEAN
      /\ outage = NoOutage /\ outage' # NoOutage => ~reachable /\ Sustained(checks')
  BY <1>1, <1>2, OfflineAlertLemma
<1>8. outage = NoOutage /\ outage' # NoOutage => quiet >= Span
  BY <1>2, <1>4, <1>7, SustainedSilence
<1> QED BY <1>3, <1>5, <1>6, <1>7, <1>8

(* What a step must keep.                                                  *)
Kept == HealthInv' /\ (outage = NoOutage /\ outage' # NoOutage => quiet >= Span)

LEMMA ProbeEndsKept == HealthInv /\ ProbeEnds => Kept
<1> SUFFICES ASSUME HealthInv, ProbeEnds PROVE Kept
  OBVIOUS
<1>0. HealthTypeOK /\ UsbEventsAreAnswered /\ SilenceIsKept /\ GoodWasSeen
  BY DEF HealthInv
<1>1. probe \in Probes /\ probe # NoProbe /\ NoProbe \in Probes
  BY <1>0 DEF ProbeEnds, HealthTypeOK, Probes
<1>2. probe.saw \in Conditions /\ condition \in Conditions
  BY <1>0, <1>1 DEF Probes, HealthTypeOK
<1>3. PICK result \in {probe.saw, condition} :
        /\ CacheHealth(result)
        /\ IF poll = "probing"
           THEN /\ checks' = Recorded(CachedWith(result) # "off")
                /\ OfflineAlert(CachedWith(result) # "off")
                /\ quiet' = IF result = "off" THEN quiet ELSE 0
                /\ \/ poll' = "telling" /\ probe' = NoProbe /\ UNCHANGED <<refresh, owed>>
                   \/ PollEnds(NoProbe)
           ELSE /\ probe' = NoProbe
                /\ UNCHANGED <<poll, refresh, checks, outage, alerted, owed, quiet>>
  BY DEF ProbeEnds
<1>4. result \in Conditions
  BY <1>2
<1>5. UNCHANGED <<condition, jobProbe, phase, usbEvents, restarts>>
  BY DEF ProbeEnds
<1>6. /\ failures' \in 0..Confirmations /\ cached' \in Conditions \cup {Nothing}
      /\ knownGood' \in BOOLEAN /\ GoodWasSeen'
  BY <1>0, <1>3, <1>4, CacheLemma
<1>7. /\ poll' \in {"none", "probing", "telling"} /\ probe' \in Probes
      /\ refresh' \in {"none", "waiting", "running", "rerun"} /\ owed' \in BOOLEAN
      /\ UsbEventsAreAnswered'
  <2>1. CASE PollEnds(NoProbe)
    BY <1>0, <1>1, <2>1, PollEndsLemma DEF UsbEventsAreAnswered
  <2>2. CASE poll' = "telling" /\ probe' = NoProbe /\ UNCHANGED <<refresh, owed>>
    BY <1>0, <1>1, <2>2 DEF UsbEventsAreAnswered, HealthTypeOK
  <2>3. CASE poll # "probing"
    BY <1>0, <1>1, <1>3, <2>3 DEF UsbEventsAreAnswered, HealthTypeOK
  <2> QED BY <1>3, <2>1, <2>2, <2>3
<1>8. /\ checks' \in Seq({Reachable} \cup 0..OldAge) /\ Len(checks') <= Checks
      /\ quiet' \in 0..Span
      /\ outage' \in NoOutage..AlertAfter /\ alerted' \in BOOLEAN
      /\ SilenceIsKept'
      /\ outage = NoOutage /\ outage' # NoOutage => quiet >= Span
  <2>1. CASE poll = "probing"
    BY <1>3, <1>4, <2>1, PolledLemma
  <2>2. CASE poll # "probing"
    BY <1>0, <1>3, <2>2, FrameSilence DEF HealthTypeOK
  <2> QED BY <2>1, <2>2
<1>9. HealthTypeOK'
  BY <1>0, <1>5, <1>6, <1>7, <1>8 DEF HealthTypeOK, Probes
<1> QED BY <1>6, <1>7, <1>8, <1>9 DEF Kept, HealthInv

LEMMA NotifyEndsKept == HealthInv /\ NotifyEnds => Kept
<1> SUFFICES ASSUME HealthInv, NotifyEnds PROVE Kept
  OBVIOUS
<1>0. HealthTypeOK /\ UsbEventsAreAnswered /\ SilenceIsKept /\ GoodWasSeen
  BY DEF HealthInv
<1>1. probe \in Probes /\ PollEnds(probe)
  BY <1>0 DEF NotifyEnds, HealthTypeOK, Probes
<1>2. /\ poll' \in {"none", "probing", "telling"} /\ probe' \in Probes
      /\ refresh' \in {"none", "waiting", "running", "rerun"} /\ owed' = FALSE
  BY <1>0, <1>1, PollEndsLemma
<1>3. UNCHANGED <<condition, jobProbe, cached, knownGood, failures, checks, outage,
                  alerted, phase, quiet, usbEvents, restarts>>
  BY DEF NotifyEnds
<1>4. HealthTypeOK'
  BY <1>0, <1>2, <1>3 DEF HealthTypeOK, Probes
<1>5. SilenceIsKept'
  BY <1>0, <1>3, FrameSilence
<1> QED BY <1>0, <1>2, <1>3, <1>4, <1>5 DEF Kept, HealthInv, UsbEventsAreAnswered, GoodWasSeen

LEMMA DashboardProbeKept == HealthInv /\ DashboardProbe => Kept
<1> SUFFICES ASSUME HealthInv, DashboardProbe PROVE Kept
  OBVIOUS
<1>0. HealthTypeOK /\ UsbEventsAreAnswered /\ SilenceIsKept /\ GoodWasSeen
  BY DEF HealthInv
<1>1. probe' \in Probes
  BY <1>0, NewProbeLemma DEF DashboardProbe
<1>2. HealthTypeOK'
  BY <1>0, <1>1 DEF DashboardProbe, HealthTypeOK, Probes
<1>3. SilenceIsKept'
  BY <1>0, FrameSilence DEF DashboardProbe
<1> QED BY <1>0, <1>2, <1>3 DEF DashboardProbe, Kept, HealthInv, UsbEventsAreAnswered, GoodWasSeen

LEMMA JobProbeKept == HealthInv /\ JobProbe => Kept
<1> SUFFICES ASSUME HealthInv, JobProbe PROVE Kept
  OBVIOUS
<1>0. HealthTypeOK /\ UsbEventsAreAnswered /\ SilenceIsKept /\ GoodWasSeen
  BY DEF HealthInv
<1>1. HealthTypeOK'
  BY <1>0 DEF JobProbe, HealthTypeOK
<1>2. SilenceIsKept'
  BY <1>0, FrameSilence DEF JobProbe
<1> QED BY <1>0, <1>1, <1>2 DEF JobProbe, Kept, HealthInv, UsbEventsAreAnswered, GoodWasSeen

LEMMA JobProbeEndsKept == HealthInv /\ JobProbeEnds => Kept
<1> SUFFICES ASSUME HealthInv, JobProbeEnds PROVE Kept
  OBVIOUS
<1>0. HealthTypeOK /\ UsbEventsAreAnswered /\ SilenceIsKept /\ GoodWasSeen
  BY DEF HealthInv
<1>1. /\ jobProbe \in Conditions /\ condition \in Conditions /\ jobProbe' = Nothing
      /\ UNCHANGED <<condition, probe, poll, refresh, checks, outage, alerted, phase, owed,
                     quiet, usbEvents, restarts>>
      /\ \/ \E result \in {jobProbe, condition} : CacheHealth(result)
         \/ UNCHANGED <<cached, knownGood, failures>>
  BY <1>0 DEF JobProbeEnds, HealthTypeOK
<1>2. /\ failures' \in 0..Confirmations /\ cached' \in Conditions \cup {Nothing}
      /\ knownGood' \in BOOLEAN /\ GoodWasSeen'
  <2>1. CASE UNCHANGED <<cached, knownGood, failures>>
    BY <1>0, <2>1 DEF HealthTypeOK, GoodWasSeen
  <2>2. ASSUME NEW result \in {jobProbe, condition}, CacheHealth(result)
        PROVE  /\ failures' \in 0..Confirmations /\ cached' \in Conditions \cup {Nothing}
               /\ knownGood' \in BOOLEAN /\ GoodWasSeen'
    <3>1. result \in Conditions
      BY <1>1
    <3> QED BY <1>0, <2>2, <3>1, CacheLemma
  <2> QED BY <1>1, <2>1, <2>2
<1>3. HealthTypeOK'
  BY <1>0, <1>1, <1>2 DEF HealthTypeOK
<1>4. SilenceIsKept'
  BY <1>0, <1>1, FrameSilence
<1> QED BY <1>0, <1>1, <1>2, <1>3, <1>4 DEF Kept, HealthInv, UsbEventsAreAnswered

(* A USB event is answered by the refresh it asks for.                     *)
LEMMA UsbEventKept == HealthInv /\ UsbEvent => Kept
<1> SUFFICES ASSUME HealthInv, UsbEvent PROVE Kept
  OBVIOUS
<1>0. HealthTypeOK /\ UsbEventsAreAnswered /\ SilenceIsKept /\ GoodWasSeen
  BY DEF HealthInv
<1>1. /\ RequestRefresh /\ usbEvents' = usbEvents + 1 /\ usbEvents < MaxUsbEvents
      /\ UNCHANGED <<condition, jobProbe, cached, knownGood, failures, checks, outage,
                     alerted, phase, quiet, restarts>>
  BY DEF UsbEvent
<1>2. usbEvents' \in 0..MaxUsbEvents
  BY <1>0, <1>1, TimesLemma DEF HealthTypeOK
<1>3. /\ probe \in Probes /\ poll \in {"none", "probing", "telling"}
      /\ refresh \in {"none", "waiting", "running", "rerun"}
  BY <1>0 DEF HealthTypeOK, Probes
<1>4. /\ poll' \in {"none", "probing", "telling"} /\ probe' \in Probes
      /\ refresh' \in {"none", "waiting", "running", "rerun"} /\ owed' \in BOOLEAN
      /\ UsbEventsAreAnswered'
  <2>1. CASE refresh = "none" /\ poll = "none"
    <3>1. refresh' = "running" /\ BeginPoll(probe)
      BY <1>1, <2>1 DEF RequestRefresh
    <3> QED BY <1>0, <1>3, <3>1, BeginPollLemma DEF UsbEventsAreAnswered
  <2>2. CASE refresh = "none" /\ poll # "none"
    <3>1. refresh' = "waiting" /\ owed' = TRUE /\ UNCHANGED <<poll, probe>>
      BY <1>1, <2>2 DEF RequestRefresh
    <3> QED BY <1>3, <3>1 DEF UsbEventsAreAnswered
  <2>3. CASE refresh \in {"running", "rerun"}
    <3>1. refresh' = "rerun" /\ owed' = TRUE /\ UNCHANGED <<poll, probe>>
      BY <1>1, <2>3 DEF RequestRefresh
    <3> QED BY <1>3, <3>1 DEF UsbEventsAreAnswered
  <2>4. CASE refresh = "waiting"
    <3>1. owed' = TRUE /\ UNCHANGED <<refresh, poll, probe>>
      BY <1>1, <2>4 DEF RequestRefresh
    <3> QED BY <1>3, <2>4, <3>1 DEF UsbEventsAreAnswered
  <2> QED BY <1>3, <2>1, <2>2, <2>3, <2>4
<1>5. HealthTypeOK'
  BY <1>0, <1>1, <1>2, <1>4 DEF HealthTypeOK, Probes
<1>6. SilenceIsKept'
  BY <1>0, <1>1, FrameSilence
<1> QED BY <1>0, <1>1, <1>4, <1>5, <1>6 DEF Kept, HealthInv, GoodWasSeen

LEMMA ConditionChangesKept == HealthInv /\ ConditionChanges => Kept
<1> SUFFICES ASSUME HealthInv, ConditionChanges PROVE Kept
  OBVIOUS
<1>0. HealthTypeOK /\ UsbEventsAreAnswered /\ SilenceIsKept /\ GoodWasSeen
  BY DEF HealthInv
<1>1. HealthTypeOK'
  BY <1>0 DEF ConditionChanges, HealthTypeOK
<1>2. SilenceIsKept'
  BY <1>0, FrameSilence DEF ConditionChanges
<1> QED BY <1>0, <1>1, <1>2 DEF ConditionChanges, Kept, HealthInv, UsbEventsAreAnswered, GoodWasSeen

(* Checks and silence grow older together.                                 *)
LEMMA TickSilence ==
  ASSUME HealthTypeOK, SilenceIsKept,
         checks' = [i \in DOMAIN checks |-> Older(checks[i], OldAge)], quiet' = Older(quiet, Span)
  PROVE  /\ checks' \in Seq(Ages) /\ Len(checks') <= Checks
         /\ quiet' \in 0..Span
         /\ SilenceIsKept'
<1>1. /\ checks \in Seq(Ages) /\ Len(checks) \in Nat /\ Len(checks) <= Checks
      /\ quiet \in 0..Span /\ DOMAIN checks = 1..Len(checks)
  BY DEF HealthTypeOK, Ages
<1>2. \A i \in 1..Len(checks) : checks[i] \in -1..OldAge /\ checks[i] \in Ages
  BY <1>1, TimesLemma DEF Ages, Reachable
<1>3. \A i \in 1..Len(checks) :
        /\ Older(checks[i], OldAge) \in -1..OldAge
        /\ checks[i] = -1 <=> Older(checks[i], OldAge) = -1
        /\ checks[i] >= 0 => Older(checks[i], OldAge) <= checks[i] + 1
  BY <1>2, TimesLemma, OlderLemma
<1>4. \A i \in 1..Len(checks) : Older(checks[i], OldAge) \in Ages
  BY <1>3, TimesLemma DEF Ages, Reachable
<1>5. checks' \in Seq(Ages) /\ Len(checks') = Len(checks)
  BY <1>1, <1>4
<1>6. \A i \in 1..Len(checks) : checks'[i] = Older(checks[i], OldAge)
  BY <1>1
<1>7. /\ quiet' \in 0..Span
      /\ quiet = Span => quiet' = Span
      /\ quiet # Span => quiet' = quiet + 1
  <2>1. quiet \in -1..Span
    BY <1>1, TimesLemma
  <2> QED BY <1>1, <2>1, TimesLemma, OlderLemma
<1>8. SilenceIsKept'
  <2> SUFFICES ASSUME NEW i \in 1..Len(checks'), AwaySince(checks', i)
               PROVE  checks'[i] <= quiet' \/ quiet' = Span
    BY DEF SilenceIsKept, AwaySince
  <2>1. AwaySince(checks, i)
    <3> SUFFICES ASSUME NEW j \in i..Len(checks) PROVE checks[j] # -1
      BY DEF AwaySince, Reachable
    <3>1. j \in i..Len(checks') /\ j \in 1..Len(checks)
      BY <1>1, <1>5
    <3>2. checks'[j] # -1
      BY <3>1 DEF AwaySince, Reachable
    <3> QED BY <1>3, <1>6, <3>1, <3>2
  <2>2. checks[i] <= quiet \/ quiet = Span
    BY <1>5, <2>1 DEF SilenceIsKept
  <2>3. checks[i] # -1 /\ checks[i] \in -1..OldAge
    BY <1>1, <1>2, <1>5, <2>1 DEF AwaySince, Reachable
  <2>4. checks'[i] <= checks[i] + 1 /\ checks'[i] \in -1..OldAge
    BY <1>3, <1>5, <1>6, <2>3, TimesLemma
  <2> QED BY <1>1, <1>7, <2>2, <2>3, <2>4, TimesLemma
<1> QED BY <1>1, <1>5, <1>7, <1>8

LEMMA TickKept == HealthInv /\ Tick => Kept
<1> SUFFICES ASSUME HealthInv, Tick PROVE Kept
  OBVIOUS
<1>0. HealthTypeOK /\ UsbEventsAreAnswered /\ SilenceIsKept /\ GoodWasSeen
  BY DEF HealthInv
<1>1. /\ checks' \in Seq({Reachable} \cup 0..OldAge) /\ Len(checks') <= Checks
      /\ quiet' \in 0..Span /\ SilenceIsKept'
  BY <1>0, TickSilence DEF Tick, Ages
<1>2. phase' \in 0..(Interval - 1)
  <2>1. phase \in Nat /\ phase' = (phase + 1) % Interval
    BY <1>0, TimesLemma DEF Tick, HealthTypeOK
  <2>2. Interval \in Nat /\ Interval > 0
    BY TimesLemma
  <2> QED
    BY <2>1, <2>2
<1>3. /\ outage' \in NoOutage..AlertAfter
      /\ outage = NoOutage => outage' = NoOutage
  BY <1>0, TimesLemma, OlderLemma DEF Tick, HealthTypeOK, NoOutage
<1>4. PICK older : older = IF probe = NoProbe THEN probe ELSE [probe EXCEPT !.age = @ + 1]
  OBVIOUS
<1>5. /\ probe # NoProbe => probe.age < ProbeTime
      /\ IF phase' = 0 /\ poll = "none" THEN BeginPoll(older)
         ELSE probe' = older /\ UNCHANGED <<poll, owed>>
      /\ UNCHANGED <<condition, jobProbe, refresh, cached, knownGood, failures, alerted,
                     usbEvents, restarts>>
  BY <1>4 DEF Tick
<1>6. older \in Probes
  <2>1. probe \in Probes
    BY <1>0 DEF HealthTypeOK, Probes
  <2>2. CASE probe = NoProbe
    BY <1>4, <2>1, <2>2
  <2>3. CASE probe # NoProbe
    <3>1. probe \in [saw: Conditions, age: 0..ProbeTime] /\ probe.age < ProbeTime
      BY <1>5, <2>1, <2>3 DEF Probes
    <3>2. older = [probe EXCEPT !.age = @ + 1]
      BY <1>4, <2>3
    <3>3. probe.age + 1 \in 0..ProbeTime
      BY <3>1, TimesLemma
    <3> QED BY <3>1, <3>2, <3>3 DEF Probes
  <2> QED BY <2>2, <2>3
<1>7. /\ poll' \in {"none", "probing", "telling"} /\ probe' \in Probes /\ owed' \in BOOLEAN
      /\ owed' => owed
  <2>1. CASE BeginPoll(older)
    BY <1>0, <1>6, <2>1, BeginPollLemma
  <2>2. CASE probe' = older /\ UNCHANGED <<poll, owed>>
    BY <1>0, <1>6, <2>2 DEF HealthTypeOK
  <2> QED BY <1>5, <2>1, <2>2
<1>8. HealthTypeOK'
  BY <1>0, <1>1, <1>2, <1>3, <1>5, <1>7 DEF HealthTypeOK, Probes
<1> QED BY <1>0, <1>1, <1>3, <1>5, <1>7, <1>8 DEF Kept, HealthInv, UsbEventsAreAnswered, GoodWasSeen

LEMMA RestartedKept == HealthInv /\ Restarted => Kept
<1> SUFFICES ASSUME HealthInv, Restarted PROVE Kept
  OBVIOUS
<1>0. HealthTypeOK /\ UsbEventsAreAnswered /\ SilenceIsKept /\ GoodWasSeen
  BY DEF HealthInv
<1>1. /\ probe' = NewProbe /\ jobProbe' = Nothing /\ poll' = "probing" /\ refresh' = "none"
      /\ cached' = Nothing /\ knownGood' = FALSE /\ failures' = 0 /\ outage' = NoOutage
      /\ alerted' = FALSE /\ phase' = 0 /\ owed' = FALSE
      /\ UNCHANGED <<condition, checks, quiet, usbEvents>>
  BY DEF Restarted
<1>2. restarts' \in 0..MaxRestarts
  BY <1>0, TimesLemma DEF Restarted, HealthTypeOK
<1>3. probe' \in Probes
  BY <1>0, <1>1, NewProbeLemma
<1>4. 0 \in 0..Confirmations /\ 0 \in 0..(Interval - 1) /\ NoOutage \in NoOutage..AlertAfter
  BY TimesLemma DEF NoOutage
<1>5. HealthTypeOK'
  BY <1>0, <1>1, <1>2, <1>3, <1>4 DEF HealthTypeOK, Probes
<1>6. SilenceIsKept'
  BY <1>0, <1>1, FrameSilence
<1> QED BY <1>1, <1>5, <1>6 DEF Kept, HealthInv, UsbEventsAreAnswered, GoodWasSeen

LEMMA HealthNextKept == HealthInv /\ [HealthNext]_healthVars => Kept
<1> SUFFICES ASSUME HealthInv, [HealthNext]_healthVars PROVE Kept
  OBVIOUS
<1>1. CASE UNCHANGED healthVars
  <2>1. HealthTypeOK'
    BY <1>1 DEF healthVars, HealthInv, HealthTypeOK
  <2>2. SilenceIsKept'
    BY <1>1, FrameSilence DEF healthVars, HealthInv
  <2> QED BY <1>1, <2>1, <2>2 DEF healthVars, Kept, HealthInv, UsbEventsAreAnswered, GoodWasSeen
<1>2. CASE HealthNext
  BY <1>2, ProbeEndsKept, NotifyEndsKept, TickKept, DashboardProbeKept, JobProbeKept, JobProbeEndsKept,
     UsbEventKept, ConditionChangesKept, RestartedKept DEF HealthNext, HealthProgress
<1> QED BY <1>1, <1>2

(* deviceHealth.ts: the invariant of polls, cache and history.             *)
THEOREM HealthInvariance == HealthSpec => []HealthInv
<1>1. HealthInv /\ [HealthNext]_healthVars => HealthInv'
  BY HealthNextKept DEF Kept
<1> QED BY <1>1, HealthInitInv, PTL DEF HealthSpec

(* DeviceHealthRefreshQueue: a USB event that came after the last poll     *)
(* began has a refresh that will begin another, whatever polls, deliveries *)
(* and other requests are under way.                                       *)
THEOREM UsbEventsAlwaysAnswered == HealthSpec => []UsbEventsAreAnswered
<1>1. HealthInv => UsbEventsAreAnswered
  BY DEF HealthInv
<1> QED BY <1>1, HealthInvariance, PTL

(* A poll that is pending has a probe to wait for or people to tell, and a *)
(* refresh that is pending a poll.                                         *)
PollsMove ==
  /\ poll = "probing" => probe # NoProbe
  /\ refresh # "none" => poll # "none"

LEMMA BeginPollMoves ==
  ASSUME HealthTypeOK, NEW pending, BeginPoll(pending)
  PROVE  poll' = "probing" /\ probe' # NoProbe
<1>1. NewProbe # NoProbe
  BY ConditionsAssumption DEF HealthTypeOK, NewProbe, NoProbe, Nothing, AllConditions
<1> QED BY <1>1 DEF BeginPoll

LEMMA PollEndsMoves ==
  ASSUME HealthTypeOK, NEW pending, PollEnds(pending)
  PROVE  PollsMove'
<1>1. CASE refresh \in {"waiting", "rerun"}
  BY <1>1, BeginPollMoves DEF PollEnds, PollsMove
<1>2. CASE refresh \notin {"waiting", "rerun"}
  BY <1>2 DEF PollEnds, PollsMove
<1> QED BY <1>1, <1>2

LEMMA NextPollsMove == HealthInv /\ PollsMove /\ [HealthNext]_healthVars => PollsMove'
<1> SUFFICES ASSUME HealthInv, PollsMove, [HealthNext]_healthVars PROVE PollsMove'
  OBVIOUS
<1>0. HealthTypeOK
  BY DEF HealthInv
<1>1. CASE ProbeEnds
  <2>1. CASE PollEnds(NoProbe)
    BY <1>0, <2>1, PollEndsMoves
  <2>2. CASE ~PollEnds(NoProbe)
    <3>1. probe' = NoProbe /\ refresh' = refresh
          /\ (poll' = "telling" \/ (poll # "probing" /\ poll' = poll))
      BY <1>1, <2>2 DEF ProbeEnds
    <3> QED BY <3>1 DEF PollsMove
  <2> QED BY <2>1, <2>2
<1>2. CASE NotifyEnds
  BY <1>0, <1>2, PollEndsMoves DEF NotifyEnds
<1>3. CASE Tick
  <2>1. PICK older : /\ older = IF probe = NoProbe THEN probe ELSE [probe EXCEPT !.age = @ + 1]
                     /\ \/ BeginPoll(older)
                        \/ probe' = older /\ UNCHANGED <<poll, owed>>
    BY <1>3 DEF Tick
  <2>2. refresh' = refresh
    BY <1>3 DEF Tick
  <2>3. probe # NoProbe => older # NoProbe
    <3> SUFFICES ASSUME probe # NoProbe PROVE older # NoProbe
      OBVIOUS
    <3>1. probe \in [saw: Conditions, age: 0..ProbeTime]
      BY <1>0 DEF HealthTypeOK
    <3>2. older.saw \in Conditions
      BY <2>1, <3>1
    <3> QED BY <3>2, ConditionsAssumption DEF NoProbe, Nothing, AllConditions
  <2>4. CASE BeginPoll(older)
    BY <1>0, <2>4, BeginPollMoves DEF PollsMove
  <2>5. CASE probe' = older /\ UNCHANGED <<poll, owed>>
    BY <2>2, <2>3, <2>5 DEF PollsMove
  <2> QED BY <2>1, <2>4, <2>5
<1>4. CASE DashboardProbe
  <2>1. NewProbe # NoProbe
    BY <1>0, ConditionsAssumption DEF HealthTypeOK, NewProbe, NoProbe, Nothing, AllConditions
  <2> QED BY <1>4, <2>1 DEF DashboardProbe, PollsMove
<1>5. CASE JobProbe \/ JobProbeEnds \/ ConditionChanges \/ UNCHANGED healthVars
  BY <1>5 DEF JobProbe, JobProbeEnds, ConditionChanges, healthVars, PollsMove
<1>6. CASE UsbEvent
  <2>1. \/ refresh' = "running" /\ BeginPoll(probe)
        \/ refresh = "none" /\ poll # "none" /\ UNCHANGED <<poll, probe>>
        \/ refresh # "none" /\ UNCHANGED <<poll, probe>>
    BY <1>6 DEF UsbEvent, RequestRefresh
  <2>2. CASE BeginPoll(probe)
    BY <1>0, <2>2, BeginPollMoves DEF PollsMove
  <2> QED BY <2>1, <2>2 DEF PollsMove
<1>7. CASE Restarted
  <2>1. NewProbe # NoProbe
    BY <1>0, ConditionsAssumption DEF HealthTypeOK, NewProbe, NoProbe, Nothing, AllConditions
  <2> QED BY <1>7, <2>1 DEF Restarted, PollsMove
<1> QED BY <1>1, <1>2, <1>3, <1>4, <1>5, <1>6, <1>7 DEF HealthNext, HealthProgress

(* pollDeviceHealth and the refresh queue: whoever joins a pending poll,   *)
(* and whoever waits for it to end, waits for something that is under way. *)
THEOREM PollsNeverStall == HealthSpec => []PollsMove
<1>1. HealthInit => PollsMove
  BY ConditionsAssumption
  DEF HealthInit, PollsMove, NewProbe, NoProbe, Nothing, AllConditions
<1> QED BY <1>1, NextPollsMove, HealthInvariance, PTL DEF HealthSpec

(* checkOfflineAlert: the jobs pinned to a device are released only after  *)
(* it has been silent for the whole span, for any times, confirmations and *)
(* conditions.                                                             *)
THEOREM PinsAlwaysFollowSilence == HealthSpec => PinsFollowSilence
<1>1. HealthInv /\ [HealthNext]_healthVars
        => [outage = NoOutage /\ outage' # NoOutage => quiet >= Span]_healthVars
  BY HealthNextKept DEF Kept
<1> QED BY <1>1, HealthInvariance, PTL DEF HealthSpec, PinsFollowSilence

----------------------------------------------------------------------------
(* The three side by side.  They share no state: a behaviour of the whole  *)
(* is a behaviour of each.                                                 *)
THEOREM ServicesAreIndependent == MCSpec => Spec /\ SerialSpec /\ HealthSpec
<1>1. MCInit => Init /\ SerialInit /\ HealthInit
  BY DEF MCInit
<1>2. [MCNext]_<<part, vars, healthVars, serialVars>>
        => [Next]_vars /\ [SerialNext]_serialVars /\ [HealthNext]_healthVars
  BY DEF MCNext, ReservationMoves, HealthMoves, SerialMoves
<1> QED BY <1>1, <1>2, PTL DEF MCSpec, Spec, SerialSpec, HealthSpec

(* Devices, chains and health keep their types, for any devices, keys,     *)
(* operations, times and bounds.                                           *)
THEOREM ServicesWellTyped == MCSpec => []WellTyped
<1>1. HealthInv => HealthTypeOK
  BY DEF HealthInv
<1> QED
  BY <1>1, ServicesAreIndependent, TypeCorrectness, SerialTypeCorrectness, HealthInvariance, PTL
  DEF WellTyped
=============================================================================
