---------------------- MODULE StripeSubscriptionProofs ----------------------
(***************************************************************************)
(* What is proved of StripeSubscription for any bounds and any requests:   *)
(* types, and that a refund ends access and billing for good.  For a       *)
(* server without the cancel and plan requests: the row follows Stripe.    *)
(***************************************************************************)
EXTENDS StripeSubscription, SequenceTheorems, TLAPS

(***************************************************************************)
(* Types.                                                                  *)
(***************************************************************************)

LEMMA SnapshotTypes ==
  ASSUME NEW s \in Snapshots
  PROVE  s.version \in 1..MaxVersion + 1 /\ s.status \in {"active", "canceled"}
  BY DEF Snapshots

LEMMA UpsertedType ==
  ASSUME NEW old \in Rows \cup {None}, NEW new \in Rows
  PROVE  Upserted(old, new) \in Rows
  BY DEF Upserted, Newer

(* What persistStripeSubscription leaves in the row.                       *)
LEMMA PersistedType ==
  ASSUME TypeOK, NEW s \in Snapshots, NEW at \in 0..clock
  PROVE  /\ Persisted(s, at) \in Rows
         /\ Persisted(s, at).occurredAt <= clock
         /\ Revoked => Persisted(s, at).status = "revoked"
  <1> DEFINE new == [version |-> s.version, occurredAt |-> at,
                     status |-> IF Revoked THEN "revoked" ELSE s.status]
  <1>1. new \in Rows
    BY BoundsAssumption DEF TypeOK, Rows, Snapshots
  <1>2. Persisted(s, at) = Upserted(local, new)
    BY DEF Persisted
  <1>3. Upserted(local, new) \in Rows
    BY <1>1, UpsertedType DEF TypeOK
  <1>4. Upserted(local, new).occurredAt <= clock
    BY <1>1, BoundsAssumption DEF TypeOK, Upserted, Newer
  <1>5. Revoked => Upserted(local, new).status = "revoked"
    BY DEF Upserted, Newer, Revoked
  <1> QED BY <1>2, <1>3, <1>4, <1>5

(* A revocation is never ignored: the row is not dated in the future.      *)
LEMMA RevokedRowType ==
  ASSUME TypeOK, NEW row \in Rows, row.occurredAt <= clock
  PROVE  /\ RevokedRow(row) \in Rows
         /\ RevokedRow(row).status = "revoked"
         /\ RevokedRow(row).occurredAt <= clock
  <1>1. clock \in 0..MaxTime /\ row.occurredAt \in 0..MaxTime
    BY DEF TypeOK, Rows
  <1> DEFINE new == [row EXCEPT !.status = "revoked", !.occurredAt = clock]
  <1>2. new \in Rows /\ new.status = "revoked" /\ new.occurredAt = clock
    BY <1>1 DEF Rows
  <1>3. ~Newer(row, clock)
    BY <1>1, BoundsAssumption DEF Newer
  <1>4. RevokedRow(row) = IF row.status = "revoked" THEN row ELSE new
    BY <1>2, <1>3 DEF RevokedRow, Upserted
  <1>5. clock <= clock
    BY <1>1, BoundsAssumption
  <1> QED BY <1>2, <1>4, <1>5

LEMMA SecondType ==
  ASSUME NEW c \in Nat
  PROVE  c - (c % 2) \in 0..c
  OBVIOUS

LEMMA EmitsType ==
  ASSUME TypeOK, NEW kind \in Kinds, NEW s \in Snapshots, Emits(kind, s)
  PROVE  /\ events' \in Seq(Events)
         /\ Len(events') = Len(events) + 1
         /\ \A i \in 1..Len(events) : events'[i] = events[i]
         /\ events'[Len(events) + 1] = EventOf(kind, s)
         /\ \A i \in 1..Len(events') : events'[i].created <= clock
         /\ todo' = todo \cup {Len(events) + 1}
         /\ todo' \subseteq 1..Len(events')
         /\ forgotten' \subseteq 1..Len(events')
         /\ todo \subseteq todo'
  <1>1. Second \in 0..clock /\ clock \in 0..MaxTime
    BY SecondType, BoundsAssumption DEF TypeOK, Second
  <1>2. EventOf(kind, s) \in Events /\ EventOf(kind, s).created <= clock
    BY <1>1, BoundsAssumption DEF EventOf, Events
  <1>3. /\ events' \in Seq(Events)
        /\ Len(events') = Len(events) + 1
        /\ \A i \in 1..Len(events) : events'[i] = events[i]
        /\ events'[Len(events) + 1] = EventOf(kind, s)
    BY <1>2, AppendProperties DEF TypeOK, Emits
  <1>4. Len(events) \in Nat
    BY DEF TypeOK
  <1>5. \A i \in 1..Len(events') : i \in 1..Len(events) \/ i = Len(events) + 1
    BY <1>3, <1>4
  <1>6. \A i \in 1..Len(events') : events'[i].created <= clock
    BY <1>2, <1>3, <1>5 DEF TypeOK
  <1>7. todo' = todo \cup {Len(events) + 1}
    BY DEF Emits
  <1>8. todo' \subseteq 1..Len(events') /\ forgotten' \subseteq 1..Len(events')
    <2>1. todo \subseteq 1..Len(events) /\ forgotten' \subseteq 1..Len(events)
      BY DEF TypeOK, Emits
    <2>2. 1..Len(events') = 1..(Len(events) + 1)
      BY <1>3
    <2>3. ASSUME NEW n \in Nat PROVE 1..n \subseteq 1..(n + 1) /\ n + 1 \in 1..(n + 1)
      OBVIOUS
    <2> QED BY <1>4, <1>7, <2>1, <2>2, <2>3
  <1> QED BY <1>3, <1>6, <1>7, <1>8

LEMMA ChangedType ==
  ASSUME TypeOK, remote.status = "active", NEW status \in {"active", "canceled"}
  PROVE  Changed(status) \in Snapshots
  BY BoundsAssumption DEF TypeOK, Changed, Snapshots

-----------------------------------------------------------------------------
LEMMA InitType == Init => TypeOK
  <1> SUFFICES ASSUME Init PROVE TypeOK
    OBVIOUS
  <1>1. remote \in Snapshots /\ (remote.status = "active" => remote.version <= MaxVersion)
    BY BoundsAssumption DEF Init, Snapshots
  <1>2. Second = 0
    BY DEF Init, Second
  <1>3. EventOf("subscription", remote) \in Events /\ EventOf("subscription", remote).created = 0
    BY <1>1, <1>2, BoundsAssumption DEF EventOf, Events, Kinds
  <1>4. /\ events \in Seq(Events) /\ Len(events) = 1
        /\ \A i \in 1..Len(events) : events[i].created <= clock
    BY <1>3 DEF Init
  <1> QED BY <1>1, <1>4, BoundsAssumption, NoneAssumption DEF Init, TypeOK, Running

(* What Stripe need not send again are events.                             *)
LEMMA Forgotten ==
  ASSUME TypeOK, NEW S, AttemptsEnd(S)
  PROVE  forgotten' \subseteq 1..Len(events)
  BY DEF TypeOK, AttemptsEnd, Sent

(* Each kind of step keeps the types of what it writes.                    *)
LEMMA TypeStep == TypeOK /\ [Next]_vars => TypeOK'
  <1> SUFFICES ASSUME TypeOK, [Next]_vars PROVE TypeOK'
    OBVIOUS
  <1> USE DEF atStripe, handling, requests, bounds
  <1>1. CASE UNCHANGED vars
    BY <1>1 DEF TypeOK, vars, Running
  <1>2. CASE Tick
    <2>1. clock' \in 0..MaxTime /\ clock <= clock'
      BY <1>2, BoundsAssumption DEF Tick, TypeOK
    <2>2. local # None => local.occurredAt \in 0..MaxTime
      BY DEF TypeOK, Rows
    <2>3. local # None => local.occurredAt <= clock'
      BY <2>1, <2>2, BoundsAssumption DEF TypeOK
    <2>4. ASSUME NEW i \in 1..Len(events)
          PROVE  events[i].created \in Nat /\ events[i].created <= clock
      <3>1. events[i] \in Events /\ events[i].created <= clock
        BY DEF TypeOK
      <3> QED BY <3>1, BoundsAssumption DEF Events
    <2>5. \A i \in 1..Len(events) : events[i].created <= clock'
      BY <2>1, <2>4, BoundsAssumption DEF TypeOK
    <2> QED BY <1>2, <2>1, <2>3, <2>5 DEF Tick, TypeOK, Running
  <1>3. ASSUME NEW status \in {"active", "canceled"}, RemoteChange(status),
               status = "active" => remote.version < MaxVersion
        PROVE  /\ remote' \in Snapshots
               /\ remote'.status = "active" => remote'.version <= MaxVersion
               /\ events' \in Seq(Events)
               /\ \A i \in 1..Len(events') : events'[i].created <= clock
               /\ todo' \subseteq 1..Len(events')
               /\ forgotten' \subseteq 1..Len(events')
               /\ todo \subseteq todo'
    <2>1. Changed(status) \in Snapshots
      BY <1>3, ChangedType DEF RemoteChange
    <2>2. "subscription" \in Kinds
      BY DEF Kinds
    <2>3. Changed(status).status = "active" => Changed(status).version <= MaxVersion
      BY <1>3, BoundsAssumption DEF Changed, TypeOK, Snapshots
    <2> QED BY <1>3, <2>1, <2>2, <2>3, EmitsType DEF RemoteChange
  <1>4. CASE StripeChanges
    <2>1. PICK status \in {"active", "canceled"} : RemoteChange(status)
      BY <1>4 DEF StripeChanges
    <2> QED BY <1>3, <1>4, <2>1 DEF StripeChanges, TypeOK, Running
  <1>5. CASE StripeReports
    <2>1. PICK kind \in Kinds : Emits(kind, remote)
      BY <1>5 DEF StripeReports, Kinds
    <2> QED BY <1>5, <2>1, EmitsType DEF StripeReports, TypeOK, Running
  <1>6. ASSUME NEW i \in todo, Begin(i) PROVE TypeOK'
    <2>1. /\ events[i].snapshot \in Snapshots
          /\ events[i].created \in 0..clock
      <3>1. events[i] \in Events /\ events[i].created <= clock
        BY DEF TypeOK
      <3> QED BY <3>1, BoundsAssumption DEF Events, TypeOK
    <2>2. CASE BeginSubscription(i) /\ UNCHANGED local
      BY <2>2, NoneAssumption
         DEF BeginSubscription, Await, Processed, LeaveKey, TypeOK, Running, Lookups
    <2>3. CASE BeginSubscription(i) /\ ~UNCHANGED local
      <3>1. local' = Persisted(events[i].snapshot, events[i].created) /\ Processed(i)
        BY <2>3 DEF BeginSubscription
      <3>2. local' \in Rows /\ local'.occurredAt <= clock
        BY <2>1, <3>1, PersistedType
      <3> QED BY <2>3, <3>1, <3>2 DEF BeginSubscription, Processed, LeaveKey, TypeOK, Running
    <2>4. CASE BeginRefund(i)
      <3>1. local # None => RevokedRow(local) \in Rows /\ RevokedRow(local).occurredAt <= clock
        BY RevokedRowType DEF TypeOK
      <3>2. i # None
        BY NoneAssumption DEF TypeOK
      <3>3. local' \in Rows \cup {None} /\ (local' # None => local'.occurredAt <= clock)
        BY <2>4, <3>1 DEF BeginRefund, TypeOK
      <3>4. /\ holder' = i /\ answer' = None /\ phase' \in {"create", "check"}
            /\ UNCHANGED <<clock, atStripe, todo, requests, bounds>>
        BY <2>4 DEF BeginRefund, Await
      <3> QED BY <3>2, <3>3, <3>4 DEF TypeOK, Running, Lookups
    <2> QED BY <1>6, <2>2, <2>3, <2>4 DEF Begin
  <1>7. CASE Retrieve
    BY <1>7 DEF Retrieve, TypeOK, Running
  <1>8. CASE CancelAtStripe
    <2>1. Changed("canceled") \in Snapshots
      BY <1>8, ChangedType DEF CancelAtStripe, RemoteChange
    <2> QED BY <1>3, <1>8, <2>1 DEF CancelAtStripe, TypeOK, Running
  <1>9. CASE CancelRefused \/ ProcessingFails
    <2>3. forgotten' \subseteq 1..Len(events)
      BY <1>9, Forgotten DEF CancelRefused, ProcessingFails
    <2>1. CASE CancelRefused
      BY SMTT(30), <2>1, <2>3, BoundsAssumption DEF CancelRefused, LeaveKey, TypeOK, Running
    <2>2. CASE ProcessingFails
      BY SMTT(30), <2>2, <2>3, BoundsAssumption DEF ProcessingFails, LeaveKey, TypeOK, Running
    <2> QED BY <1>9, <2>1, <2>2
  <1>10. ASSUME Running PROVE holder \in 1..Len(events) /\ Current.created \in 0..clock
    <2>1. holder \in 1..Len(events)
      BY <1>10 DEF TypeOK, Running
    <2>2. Current \in Events /\ Current.created <= clock
      BY <2>1 DEF TypeOK, Current
    <2> QED BY <2>1, <2>2, BoundsAssumption DEF Events, TypeOK
  <1>11. CASE Reconcile
    <2>1. answer \in Snapshots /\ Running
      BY <1>11 DEF Reconcile, TypeOK
    <2>2. local' = local \/ local' = Persisted(answer, Current.created)
      BY <1>11 DEF Reconcile, Reconciled
    <2>3. local' \in Rows \cup {None} /\ (local' # None => local'.occurredAt <= clock)
      BY <2>1, <2>2, <1>10, PersistedType DEF TypeOK
    <2> QED BY <1>11, <2>3 DEF Reconcile, Processed, LeaveKey, TypeOK, Running
  <1>12. CASE CreateAndRevoke
    <2>1. answer \in Snapshots /\ clock \in 0..clock
      BY <1>12, BoundsAssumption DEF CreateAndRevoke, TypeOK
    <2>2. local' \in Rows /\ local'.occurredAt <= clock
      BY <1>12, <2>1, PersistedType, RevokedRowType DEF CreateAndRevoke
    <2> QED BY <1>12, <2>2 DEF CreateAndRevoke, Await, TypeOK, Running, Lookups
  <1>13. CASE EndRefund
    <2>1. answer \in Snapshots /\ clock \in 0..clock
      BY <1>13, BoundsAssumption DEF EndRefund, TypeOK
    <2>2. Persisted(answer, clock) \in Rows /\ Persisted(answer, clock).occurredAt <= clock
      BY <2>1, PersistedType
    <2> QED BY <1>13, <2>2 DEF EndRefund, Await, Processed, LeaveKey, TypeOK, Running
  <1>14. ASSUME NEW r \in Routes, RouteSteps(r) PROVE TypeOK'
    <2>1. CASE AskStripe(r) \/ UpdateRefused(r)
      BY <2>1 DEF AskStripe, UpdateRefused, TypeOK, Running
    <2>2. CASE UpdateAtStripe(r)
      <3>1. Changed("active") \in Snapshots
        BY <2>2, ChangedType DEF UpdateAtStripe, RemoteChange
      <3>2. RemoteChange("active") /\ remote.version < MaxVersion
        BY <2>2 DEF UpdateAtStripe
      <3>3. /\ remote' \in Snapshots
            /\ remote'.status = "active" => remote'.version <= MaxVersion
            /\ events' \in Seq(Events)
            /\ \A i \in 1..Len(events') : events'[i].created <= clock
            /\ todo' \subseteq 1..Len(events')
            /\ forgotten' \subseteq 1..Len(events')
            /\ todo \subseteq todo'
        BY <1>3, <3>2
      <3>4. reply' \in [Routes -> Snapshots \cup {None}] /\ reply'[r] # None
        BY <2>2, <3>1, NoneAssumption DEF UpdateAtStripe, TypeOK
      <3>5. \A q \in Routes : route'[q] = "answered" => reply'[q] # None
        BY <2>2, <3>4 DEF UpdateAtStripe, TypeOK
      <3> QED BY <2>2, <3>3, <3>4, <3>5 DEF UpdateAtStripe, TypeOK, Running
    <2>3. CASE PersistReply(r)
      <3>1. clock \in 0..clock /\ reply[r] \in Snapshots
        BY <2>3, BoundsAssumption DEF PersistReply, TypeOK
      <3>2. local' \in Rows /\ local'.occurredAt <= clock
        BY <2>3, <3>1, PersistedType DEF PersistReply
      <3> QED BY <2>3, <3>2 DEF PersistReply, TypeOK, Running
    <2> QED BY <1>14, <2>1, <2>2, <2>3 DEF RouteSteps
  <1>15. CASE Crash
    <2>1. forgotten' \subseteq 1..Len(events)
      BY <1>15, Forgotten DEF Crash
    <2> QED BY <1>15, <2>1, BoundsAssumption DEF Crash, LeaveKey, TypeOK, Running
  <1> QED
    BY <1>1, <1>2, <1>4, <1>5, <1>6, <1>7, <1>8, <1>9, <1>11, <1>12, <1>13, <1>14, <1>15
    DEF Next, Processing

(* The copy of the subscription is well typed and never dated in the       *)
(* future, so no revocation is ignored (upsertBillingSubscription).        *)
THEOREM TypeCorrectness == Spec => []TypeOK
  <1> QED BY InitType, TypeStep, PTL DEF Spec

-----------------------------------------------------------------------------
(***************************************************************************)
(* Refunds.                                                                *)
(***************************************************************************)

LEMMA NewRowIsRevoked ==
  ASSUME TypeOK, NEW row \in Rows, row.status = "revoked", local' = row
  PROVE  Revoked'
  BY NoneAssumption DEF Revoked

(* No step gives a revoked subscription another status.                    *)
LEMMA RevokedStays == TypeOK /\ [Next]_vars /\ Revoked => Revoked'
  <1> SUFFICES ASSUME TypeOK, [Next]_vars, Revoked PROVE Revoked'
    OBVIOUS
  <1> USE DEF atStripe, handling, requests, bounds
  <1>1. CASE UNCHANGED local
    BY <1>1 DEF Revoked
  <1>2. ASSUME NEW s \in Snapshots, NEW at \in 0..clock, local' = Persisted(s, at)
        PROVE  Revoked'
    BY <1>2, PersistedType, NewRowIsRevoked
  <1>3. clock \in 0..clock
    BY BoundsAssumption DEF TypeOK
  <1>4. ASSUME NEW i \in todo, Begin(i) PROVE Revoked'
    <2>1. events[i] \in Events /\ events[i].created \in 0..clock
      <3>1. events[i] \in Events /\ events[i].created <= clock
        BY DEF TypeOK
      <3> QED BY <3>1, BoundsAssumption DEF Events, TypeOK
    <2>2. CASE BeginSubscription(i)
      BY <1>1, <1>2, <2>1, <2>2 DEF BeginSubscription, Events
    <2>3. CASE BeginRefund(i)
      <3>1. local \in Rows /\ local.occurredAt <= clock /\ local # None
        BY DEF TypeOK, Revoked
      <3>2. local' = RevokedRow(local)
        BY <2>3, <3>1 DEF BeginRefund
      <3> QED BY <3>1, <3>2, RevokedRowType, NewRowIsRevoked
    <2> QED BY <1>4, <2>2, <2>3 DEF Begin
  <1>5. CASE Reconcile
    <2>1. answer \in Snapshots /\ Current.created \in 0..clock
      <3>1. holder \in 1..Len(events)
        BY <1>5 DEF Reconcile, TypeOK, Running
      <3>2. Current \in Events /\ Current.created <= clock
        BY <3>1 DEF TypeOK, Current
      <3> QED BY <1>5, <3>2, BoundsAssumption DEF Events, TypeOK, Reconcile
    <2> QED BY <1>1, <1>2, <1>5, <2>1 DEF Reconcile, Reconciled
  <1>6. CASE CreateAndRevoke
    <2>1. answer \in Snapshots
      BY <1>6 DEF CreateAndRevoke, TypeOK
    <2>2. local' = RevokedRow(Persisted(answer, clock))
      BY <1>6 DEF CreateAndRevoke
    <2>3. RevokedRow(Persisted(answer, clock)) \in Rows
      BY <2>1, <1>3, PersistedType, RevokedRowType
    <2>4. RevokedRow(Persisted(answer, clock)).status = "revoked"
      BY <2>1, <1>3, PersistedType, RevokedRowType
    <2> QED BY <2>2, <2>3, <2>4, NewRowIsRevoked
  <1>7. CASE EndRefund
    BY <1>1, <1>2, <1>3, <1>7 DEF EndRefund, TypeOK
  <1>8. ASSUME NEW r \in Routes, PersistReply(r) PROVE Revoked'
    <2>1. reply[r] \in Snapshots
      BY <1>8 DEF PersistReply, TypeOK
    <2> QED BY <1>2, <1>3, <1>8, <2>1 DEF PersistReply
  <1>9. ASSUME NEW r \in Routes, RouteSteps(r) PROVE Revoked'
    BY <1>1, <1>8, <1>9 DEF RouteSteps, AskStripe, UpdateAtStripe, UpdateRefused
  <1>10. CASE \/ UNCHANGED vars \/ Tick \/ StripeChanges \/ StripeReports
              \/ Retrieve \/ CancelAtStripe \/ CancelRefused \/ ProcessingFails \/ Crash
    BY <1>1, <1>10 DEF vars, Tick, StripeChanges, StripeReports, Retrieve, CancelAtStripe,
                       CancelRefused, ProcessingFails, Crash
  <1> QED BY <1>4, <1>5, <1>6, <1>7, <1>9, <1>10 DEF Next, Processing

(* No event, lookup or request brings a refunded subscription back         *)
(* (persistStripeSubscription keeps what processStripeRefund wrote).       *)
THEOREM RefundFinality == Spec => RefundIsFinal
  <1>1. TypeOK /\ [Next]_vars => [Revoked => Revoked']_vars
    BY RevokedStays
  <1> QED BY <1>1, TypeCorrectness, PTL DEF Spec, RefundIsFinal

(* What holds while a refund is processed: access is revoked before Stripe *)
(* is asked to cancel, and an answer that says `canceled' stays true.      *)
RefundInProgress ==
  /\ phase \in {"check", "cancel"} => Revoked
  /\ phase = "reconcile" => Current.kind # "refund"
  /\ answer # None /\ answer.status = "canceled" => remote.status = "canceled"

RefundInv == RefundInProgress /\ RefundEndsBilling

(* Stripe's steps: events are only added, and what is canceled stays so.   *)
LEMMA StripeSteps ==
  ASSUME TypeOK, [Next]_vars
  PROVE  /\ remote.status = "canceled" => remote' = remote
         /\ Len(events') >= Len(events)
         /\ \A i \in 1..Len(events) : events'[i] = events[i]
         /\ \A i \in 1..Len(events') : i \in 1..Len(events) \/ i \in todo'
  <1> USE DEF atStripe, handling, requests, bounds
  <1>1. Len(events) \in Nat
    BY DEF TypeOK
  <1>2. CASE UNCHANGED <<remote, events>>
    BY <1>1, <1>2
  <1>3. ASSUME NEW kind \in Kinds, NEW s \in Snapshots, Emits(kind, s)
        PROVE  /\ Len(events') >= Len(events)
               /\ \A i \in 1..Len(events) : events'[i] = events[i]
               /\ \A i \in 1..Len(events') : i \in 1..Len(events) \/ i \in todo'
    <2>1. /\ Len(events') = Len(events) + 1
          /\ \A i \in 1..Len(events) : events'[i] = events[i]
          /\ todo' = todo \cup {Len(events) + 1}
      BY <1>3, EmitsType
    <2>2. \A i \in 1..Len(events') : i \in 1..Len(events) \/ i = Len(events) + 1
      BY <1>1, <2>1
    <2>3. Len(events') >= Len(events)
      BY <1>1, <2>1
    <2> QED BY <2>1, <2>2, <2>3
  <1>4. ASSUME NEW status \in {"active", "canceled"}, RemoteChange(status)
        PROVE  /\ remote.status # "canceled"
               /\ \E s \in Snapshots : Emits("subscription", s)
    <2>1. Changed(status) \in Snapshots
      BY <1>4, ChangedType DEF RemoteChange
    <2> QED BY <1>4, <2>1 DEF RemoteChange
  <1>5. "subscription" \in Kinds
    BY DEF Kinds
  <1>6. CASE StripeChanges \/ CancelAtStripe
    <2>1. PICK status \in {"active", "canceled"} : RemoteChange(status)
      BY <1>6 DEF StripeChanges, CancelAtStripe
    <2> QED BY <1>3, <1>4, <1>5, <2>1
  <1>7. CASE StripeReports
    <2>1. PICK kind \in Kinds : Emits(kind, remote)
      BY <1>7 DEF StripeReports, Kinds
    <2>2. remote' = remote /\ remote \in Snapshots
      BY <1>7 DEF StripeReports, TypeOK
    <2> QED BY <1>3, <2>1, <2>2
  <1>8. ASSUME NEW r \in Routes, RouteSteps(r), ~UNCHANGED <<remote, events>>
        PROVE  RemoteChange("active")
    BY <1>8 DEF RouteSteps, AskStripe, UpdateAtStripe, UpdateRefused, PersistReply
  <1>9. ASSUME NEW r \in Routes, RouteSteps(r), ~UNCHANGED <<remote, events>>
        PROVE  /\ remote.status # "canceled"
               /\ Len(events') >= Len(events)
               /\ \A i \in 1..Len(events) : events'[i] = events[i]
               /\ \A i \in 1..Len(events') : i \in 1..Len(events) \/ i \in todo'
    BY <1>3, <1>4, <1>5, <1>8, <1>9
  <1>10. ASSUME NEW i \in todo, Begin(i) PROVE UNCHANGED <<remote, events>>
    BY <1>10 DEF Begin, BeginSubscription, BeginRefund
  <1>11. CASE \/ UNCHANGED vars \/ Tick \/ Retrieve \/ CancelRefused \/ Reconcile
              \/ CreateAndRevoke \/ EndRefund \/ ProcessingFails \/ Crash
    <2>1. UNCHANGED <<remote, events>>
      BY <1>11 DEF vars, Tick, Retrieve, CancelRefused, Reconcile, CreateAndRevoke,
                   EndRefund, ProcessingFails, Crash
    <2> QED BY <1>2, <2>1
  <1> QED BY <1>2, <1>6, <1>7, <1>9, <1>10, <1>11 DEF Next, Processing

(* A step that settles events settles the one at work; the event of a      *)
(* refund is settled only by EndRefund.                                    *)
LEMMA RefundStep == TypeOK /\ RefundInv /\ [Next]_vars => RefundInv'
  <1> SUFFICES ASSUME TypeOK, RefundInv, [Next]_vars PROVE RefundInv'
    OBVIOUS
  <1> USE DEF atStripe, handling, requests, bounds
  <1>1. /\ remote.status = "canceled" => remote' = remote
        /\ \A i \in 1..Len(events) : events'[i] = events[i]
        /\ \A i \in 1..Len(events') : i \in 1..Len(events) \/ i \in todo'
    BY StripeSteps
  <1>2. Revoked => Revoked'
    BY RevokedStays
  <1>3. ASSUME \A i \in todo \ todo' : events[i].kind = "refund" =>
                  Revoked' /\ remote.status = "canceled"
        PROVE  RefundEndsBilling'
    <2> SUFFICES ASSUME NEW i \in 1..Len(events'), events'[i].kind = "refund", i \notin todo'
                 PROVE  Revoked' /\ remote'.status = "canceled"
      BY DEF RefundEndsBilling, Sent
    <2>1. i \in 1..Len(events) /\ events[i].kind = "refund"
      BY <1>1
    <2>2. Revoked' /\ remote.status = "canceled"
      BY <1>2, <1>3, <2>1 DEF RefundInv, RefundEndsBilling, Sent
    <2> QED BY <1>1, <2>2
  <1>4. Running => holder \in 1..Len(events)
    BY DEF TypeOK, Running
  <1>5. CASE UNCHANGED <<holder, phase, answer>> /\ todo \subseteq todo'
    <2>1. RefundEndsBilling'
      BY <1>3, <1>5
    <2>2. phase = "reconcile" => Current' = Current
      BY <1>1, <1>4, <1>5 DEF Current, TypeOK
    <2> QED BY <1>1, <1>2, <1>5, <2>1, <2>2 DEF RefundInv, RefundInProgress
  <1>6. CASE LeaveKey /\ todo \subseteq todo'
    BY <1>3, <1>6 DEF LeaveKey, RefundInv, RefundInProgress
  <1>7. ASSUME NEW i \in todo, Begin(i) PROVE RefundInv'
    <2>1. i \in 1..Len(events) /\ events' = events
      BY <1>7 DEF TypeOK, Begin, BeginSubscription, BeginRefund
    <2>2. CASE BeginSubscription(i) /\ Processed(i)
      <3>1. RefundEndsBilling'
        BY <1>3, <2>2 DEF BeginSubscription, Processed
      <3> QED BY <2>2, <3>1 DEF Processed, LeaveKey, RefundInv, RefundInProgress
    <2>3. CASE BeginSubscription(i) /\ ~Processed(i)
      <3>1. phase' = "reconcile" /\ answer' = None /\ todo' = todo /\ holder' = i
        BY <2>3 DEF BeginSubscription, Await
      <3>2. Current'.kind # "refund"
        BY <2>1, <2>3, <3>1 DEF BeginSubscription, Current
      <3>3. RefundEndsBilling'
        BY <1>3, <3>1
      <3> QED BY <3>1, <3>2, <3>3 DEF RefundInv, RefundInProgress
    <2>4. CASE BeginRefund(i)
      <3>1. RefundEndsBilling'
        BY <1>3, <2>4 DEF BeginRefund, Await
      <3>2. local # None => Revoked'
        <4> SUFFICES ASSUME local # None PROVE Revoked'
          OBVIOUS
        <4>1. local \in Rows /\ local.occurredAt <= clock
          BY DEF TypeOK
        <4>2. local' = RevokedRow(local)
          BY <2>4 DEF BeginRefund
        <4> QED BY <4>1, <4>2, RevokedRowType, NewRowIsRevoked
      <3>3. answer' = None /\ phase' = (IF local = None THEN "create" ELSE "check")
        BY <2>4 DEF BeginRefund, Await
      <3> QED BY <3>1, <3>2, <3>3 DEF RefundInv, RefundInProgress
    <2> QED BY <1>7, <2>2, <2>3, <2>4 DEF Begin
  <1>8. CASE Retrieve
    <2>1. UNCHANGED <<remote, events, todo, holder, phase>> /\ answer' = remote
      BY <1>8 DEF Retrieve
    <2>2. RefundEndsBilling'
      BY <1>3, <2>1
    <2> QED BY <1>2, <2>1, <2>2 DEF RefundInv, RefundInProgress, Current
  <1>9. CASE CancelAtStripe
    <2>1. todo \subseteq todo' /\ phase = "cancel" /\ phase' = "cancel"
      BY <1>9 DEF CancelAtStripe, RemoteChange, Emits
    <2>2. remote'.status = "canceled"
      BY <1>9 DEF CancelAtStripe, RemoteChange, Changed
    <2>3. RefundEndsBilling'
      BY <1>3, <2>1
    <2> QED BY <1>2, <2>1, <2>2, <2>3 DEF RefundInv, RefundInProgress
  <1>10. CASE Reconcile
    <2>1. Current.kind # "refund" /\ todo' = todo \ {holder} /\ LeaveKey
      BY <1>10 DEF Reconcile, Processed, RefundInv, RefundInProgress
    <2>2. RefundEndsBilling'
      BY <1>3, <2>1 DEF Current
    <2> QED BY <2>1, <2>2 DEF LeaveKey, RefundInv, RefundInProgress
  <1>11. CASE CreateAndRevoke
    <2>1. answer \in Snapshots /\ clock \in 0..clock
      BY <1>11, BoundsAssumption DEF CreateAndRevoke, TypeOK
    <2>2. local' = RevokedRow(Persisted(answer, clock))
      BY <1>11 DEF CreateAndRevoke
    <2>3. Revoked'
      BY <2>1, <2>2, PersistedType, RevokedRowType, NewRowIsRevoked
    <2>4. todo' = todo /\ answer' = None /\ phase' = "check"
      BY <1>11 DEF CreateAndRevoke, Await
    <2>5. RefundEndsBilling'
      BY <1>3, <2>4
    <2> QED BY <2>3, <2>4, <2>5 DEF RefundInv, RefundInProgress
  <1>12. CASE EndRefund
    <2>1. Revoked' /\ (answer.status = "canceled" => remote.status = "canceled")
      BY <1>2, <1>12 DEF EndRefund, RefundInv, RefundInProgress
    <2>2. CASE answer.status = "canceled"
      <3>1. todo' = todo \ {holder} /\ LeaveKey
        BY <1>12, <2>2 DEF EndRefund, Processed
      <3>2. RefundEndsBilling'
        BY <1>3, <2>1, <2>2, <3>1
      <3> QED BY <3>1, <3>2 DEF LeaveKey, RefundInv, RefundInProgress
    <2>3. CASE answer.status # "canceled"
      <3>1. todo' = todo /\ answer' = None /\ phase' = "cancel"
        BY <1>12, <2>3 DEF EndRefund, Await
      <3>2. RefundEndsBilling'
        BY <1>3, <3>1
      <3> QED BY <2>1, <3>1, <3>2 DEF RefundInv, RefundInProgress
    <2> QED BY <2>2, <2>3
  <1>13. CASE \/ UNCHANGED vars \/ Tick \/ StripeChanges \/ StripeReports
              \/ \E r \in Routes : RouteSteps(r)
    BY <1>5, <1>13 DEF vars, Tick, StripeChanges, StripeReports, RemoteChange, Emits,
       RouteSteps, AskStripe, UpdateAtStripe, UpdateRefused, PersistReply
  <1>14. CASE CancelRefused \/ ProcessingFails \/ Crash
    BY <1>6, <1>14 DEF CancelRefused, ProcessingFails, Crash
  <1> QED BY <1>7, <1>8, <1>9, <1>10, <1>11, <1>12, <1>13, <1>14 DEF Next, Processing

LEMMA InitRefund == Init => RefundInv
  <1> SUFFICES ASSUME Init PROVE RefundInv
    OBVIOUS
  <1>1. Len(events) = 1 /\ todo = {1}
    BY DEF Init
  <1> QED BY <1>1 DEF Init, RefundInv, RefundInProgress, RefundEndsBilling, Sent

(* When the event of a refund is settled, access is revoked and Stripe     *)
(* will not bill again (processStripeRefund), for any bounds and requests. *)
THEOREM RefundCorrectness == Spec => []RefundEndsBilling
  <1>1. RefundInv => RefundEndsBilling
    BY DEF RefundInv
  <1> QED BY <1>1, InitRefund, RefundStep, TypeCorrectness, PTL DEF Spec

-----------------------------------------------------------------------------
(***************************************************************************)
(* Until a request has stored an answer the row follows Stripe.  An event  *)
(* that is settled is not newer than the row (in time and in version), and *)
(* an event strictly older than the row says nothing the row lacks: that   *)
(* is why a lookup may be dropped when the row is newer, and why an event  *)
(* of the same second may not.                                             *)
(***************************************************************************)

(* A copy s of the subscription is one Stripe has had.                     *)
Known(s) ==
  /\ s.version <= remote.version
  /\ s.version = remote.version => s.status = remote.status

EventsInOrder ==
  /\ \A i \in 1..Len(events) : events[i].created <= Second /\ Known(events[i].snapshot)
  /\ \A i, j \in 1..Len(events) : i < j =>
       /\ events[i].created <= events[j].created
       /\ events[i].snapshot.version <= events[j].snapshot.version
  /\ \E i \in 1..Len(events) : events[i].snapshot = remote
  /\ answer # None => Known(answer)

RowIsKnown == local # None => Known(local) /\ local.occurredAt <= Second

SettledIsContained ==
  \A i \in 1..Len(events) \ todo :
    /\ local # None
    /\ events[i].created <= local.occurredAt
    /\ events[i].snapshot.version <= local.version

OlderIsContained ==
  \A i \in 1..Len(events) :
    local # None /\ events[i].created < local.occurredAt =>
      events[i].snapshot.version <= local.version

LookupIsNewer ==
  phase = "reconcile" /\ answer # None =>
    /\ Current.snapshot.version <= answer.version
    /\ local # None => local.version <= answer.version

RowFollows == RowIsKnown /\ SettledIsContained /\ OlderIsContained /\ LookupIsNewer

FollowInv == EventsInOrder /\ (Revoked \/ RowFollows)

LEMMA FollowInvSuffices ==
  ASSUME TypeOK, FollowInv PROVE LocalFollowsStripe
  <1> SUFFICES ASSUME todo = {}, ~Revoked PROVE SameAsStripe
    BY DEF LocalFollowsStripe, Quiet
  <1>1. PICK i \in 1..Len(events) : events[i].snapshot = remote
    BY DEF FollowInv, EventsInOrder
  <1>2. local # None /\ remote.version <= local.version /\ Known(local)
    BY <1>1 DEF FollowInv, RowFollows, RowIsKnown, SettledIsContained
  <1>3. local \in Rows /\ remote \in Snapshots
    BY <1>2 DEF TypeOK
  <1>4. local.version \in Nat /\ remote.version \in Nat
    BY <1>3, BoundsAssumption DEF Rows, Snapshots
  <1> QED BY <1>2, <1>4 DEF SameAsStripe, Known

(* What the clock and the events have to do with numbers.                  *)
LEMMA Numbers ==
  ASSUME TypeOK
  PROVE  /\ clock \in Nat /\ Second \in Nat /\ Len(events) \in Nat
         /\ remote.version \in Nat
         /\ \A i \in 1..Len(events) : events[i].created \in Nat /\ events[i].snapshot.version \in Nat
         /\ \A i \in 1..Len(events) : events[i].snapshot \in Snapshots
         /\ local # None => local.version \in Nat /\ local.occurredAt \in Nat
         /\ answer # None => answer.version \in Nat
  <1>1. clock \in Nat /\ Len(events) \in Nat
    BY BoundsAssumption DEF TypeOK
  <1>2. Second \in Nat
    BY <1>1, SecondType DEF Second
  <1>3. remote.version \in Nat /\ (answer # None => answer.version \in Nat)
    BY BoundsAssumption DEF TypeOK, Snapshots
  <1>4. local # None => local.version \in Nat /\ local.occurredAt \in Nat
    BY BoundsAssumption DEF TypeOK, Rows
  <1>5. ASSUME NEW i \in 1..Len(events)
        PROVE  /\ events[i].created \in Nat /\ events[i].snapshot.version \in Nat
               /\ events[i].snapshot \in Snapshots
    <2>1. events[i] \in Events
      BY DEF TypeOK
    <2> QED BY <2>1, BoundsAssumption DEF Events, Snapshots
  <1> QED BY <1>1, <1>2, <1>3, <1>4, <1>5

(* Stripe sends the events of its changes in the order of the changes.     *)
LEMMA EmitsInOrder ==
  ASSUME TypeOK, EventsInOrder, NEW kind \in Kinds, NEW s \in Snapshots, Emits(kind, s),
         remote' = s, UNCHANGED clock,
         \/ s = remote
         \/ s.version = remote.version + 1,
         answer' # None => answer' \in {answer, s}
  PROVE  EventsInOrder'
  <1> DEFINE n == Len(events)
  <1>1. /\ Len(events') = n + 1
        /\ \A i \in 1..n : events'[i] = events[i]
        /\ events'[n + 1] = EventOf(kind, s)
    BY EmitsType
  <1>2. Second' = Second
    BY DEF Second
  <1>3. n \in Nat /\ n + 1 \in 1..(n + 1)
    BY Numbers
  <1>4. s.version \in Nat /\ remote.version \in Nat /\ remote.version <= s.version
    BY Numbers, BoundsAssumption DEF Snapshots
  <1>5. ASSUME NEW c, c.version \in Nat, Known(c) PROVE Known(c)' /\ c.version <= s.version
    <2>1. remote'.version = s.version
      OBVIOUS
    <2>2. CASE s = remote
      BY <1>5, <2>2 DEF Known
    <2>3. CASE s.version = remote.version + 1
      BY <1>4, <1>5, <2>1, <2>3 DEF Known
    <2> QED BY <2>2, <2>3
  <1>6. /\ events'[n + 1].created = Second
        /\ events'[n + 1].snapshot = s
    BY <1>1 DEF EventOf
  <1>7. Known(s)'
    BY <1>4 DEF Known
  <1>8. \A i \in 1..Len(events') : i \in 1..n \/ i = n + 1
    BY <1>1, <1>3
  <1>9. ASSUME NEW i \in 1..n
        PROVE  /\ events'[i] = events[i]
               /\ events[i].created <= Second
               /\ Known(events[i].snapshot)'
               /\ events[i].snapshot.version <= s.version
    BY <1>1, <1>5, Numbers DEF EventsInOrder
  <1>10. \A i \in 1..Len(events') : events'[i].created <= Second' /\ Known(events[i].snapshot)'
    <2> SUFFICES ASSUME NEW i \in 1..Len(events')
                 PROVE  events'[i].created <= Second' /\ Known(events[i].snapshot)'
      OBVIOUS
    <2>1. CASE i \in 1..n
      BY <1>2, <1>9, <2>1
    <2>2. CASE i = n + 1
      BY <1>2, <1>6, <1>7, <2>2, Numbers
    <2> QED BY <1>8, <2>1, <2>2
  <1>11. ASSUME NEW i \in 1..Len(events'), NEW j \in 1..Len(events'), i < j
         PROVE  /\ events'[i].created <= events'[j].created
                /\ events'[i].snapshot.version <= events'[j].snapshot.version
    <2>1. i \in 1..n
      BY <1>1, <1>3, <1>11
    <2>2. CASE j \in 1..n
      BY <1>9, <1>11, <2>1, <2>2 DEF EventsInOrder
    <2>3. CASE j = n + 1
      BY <1>6, <1>9, <2>1, <2>3
    <2> QED BY <1>8, <2>2, <2>3
  <1>12. \E i \in 1..Len(events') : events'[i].snapshot = remote'
    BY <1>1, <1>3, <1>6
  <1>13. answer' # None => Known(answer)'
    <2>1. CASE answer' = s
      BY <1>7, <2>1 DEF Known
    <2>2. CASE answer' = answer
      BY <1>5, <2>2, Numbers DEF EventsInOrder, Known
    <2> QED BY <2>1, <2>2
  <1> QED BY <1>10, <1>11, <1>12, <1>13 DEF EventsInOrder

LEMMA InitFollows == Init => FollowInv
  <1> SUFFICES ASSUME Init PROVE FollowInv
    OBVIOUS
  <1>1. /\ Len(events) = 1 /\ 1..Len(events) = {1} /\ todo = {1}
        /\ events[1] = EventOf("subscription", remote)
        /\ local = None /\ answer = None
    BY DEF Init
  <1>2. events[1].snapshot = remote /\ events[1].created = Second
    BY <1>1 DEF EventOf
  <1>3. remote.version = 1 /\ Second = 0
    BY DEF Init, Second
  <1>4. EventsInOrder
    BY <1>1, <1>2, <1>3 DEF EventsInOrder, Known
  <1> QED
    BY <1>1, <1>4 DEF FollowInv, RowFollows, RowIsKnown, SettledIsContained, OlderIsContained,
                      LookupIsNewer

(* Seconds do not go back.                                                 *)
LEMMA SecondsPass ==
  ASSUME TypeOK, Tick PROVE Second <= Second'
  <1>1. clock \in Nat /\ clock' = clock + 1
    BY Numbers DEF Tick
  <1>2. \A c \in Nat : c - (c % 2) <= (c + 1) - ((c + 1) % 2)
    OBVIOUS
  <1> QED BY <1>1, <1>2 DEF Second

(* New events leave the row behind: they are still to be processed.        *)
LEMMA EmittedFollows ==
  ASSUME TypeOK, EventsInOrder, RowFollows, NEW kind \in Kinds, NEW s \in Snapshots,
         Emits(kind, s), EventsInOrder', UNCHANGED <<clock, holder, phase, answer, local>>,
         remote.version <= s.version, remote' = s,
         s.version = remote.version => s = remote
  PROVE  RowFollows'
  <1> DEFINE n == Len(events)
  <1>1. /\ Len(events') = n + 1
        /\ \A i \in 1..n : events'[i] = events[i]
        /\ events'[n + 1] = EventOf(kind, s)
        /\ todo' = todo \cup {n + 1}
    BY EmitsType
  <1>2. Second' = Second /\ events'[n + 1].created = Second
    BY <1>1 DEF Second, EventOf
  <1>3. \A i \in 1..Len(events') : i \in 1..n \/ i = n + 1
    BY <1>1, Numbers
  <1>4. s.version \in Nat
    BY BoundsAssumption DEF Snapshots
  <1>5. RowIsKnown'
    BY <1>2, <1>4, Numbers DEF RowFollows, RowIsKnown, Known
  <1>6. SettledIsContained'
    BY <1>1, <1>3 DEF RowFollows, SettledIsContained
  <1>7. OlderIsContained'
    <2> SUFFICES ASSUME NEW i \in 1..Len(events'), local # None,
                        events'[i].created < local.occurredAt
                 PROVE  events'[i].snapshot.version <= local.version
      BY DEF OlderIsContained
    <2>1. i # n + 1
      BY <1>2, Numbers DEF RowFollows, RowIsKnown
    <2> QED BY <1>1, <1>3, <2>1 DEF RowFollows, OlderIsContained
  <1>8. LookupIsNewer'
    <2>1. phase = "reconcile" => Current' = Current
      <3>1. phase = "reconcile" => holder \in 1..n
        BY DEF TypeOK, Running
      <3> QED BY <1>1, <3>1 DEF Current
    <2> QED BY <2>1 DEF RowFollows, LookupIsNewer
  <1> QED BY <1>5, <1>6, <1>7, <1>8 DEF RowFollows

(* The row after event i has been settled with the copy s of the           *)
(* subscription: its own snapshot or a later lookup.                       *)
LEMMA SettledFollows ==
  ASSUME TypeOK, EventsInOrder, RowFollows, NEW i \in todo, NEW s \in Snapshots,
         ~Revoked, Known(s), events[i].snapshot.version <= s.version,
         local # None => local.occurredAt <= events[i].created,
         \A k \in 1..Len(events) \ todo : events[k].snapshot.version <= s.version,
         local' = Persisted(s, events[i].created), Processed(i),
         UNCHANGED <<clock, remote, events>>
  PROVE  RowFollows'
  <1> DEFINE at == events[i].created
  <1>1. i \in 1..Len(events) /\ at \in Nat
    BY Numbers DEF TypeOK
  <1>2. local' = [version |-> s.version, occurredAt |-> at, status |-> s.status]
    BY <1>1, Numbers DEF Persisted, Upserted, Newer
  <1>3. local' # None
    <2>1. local' \in Rows
      <3>1. events[i] \in Events /\ at <= clock
        BY <1>1 DEF TypeOK
      <3> QED BY <1>1, <3>1, PersistedType, Numbers
    <2> QED BY <2>1, NoneAssumption
  <1>4. local'.version = s.version /\ local'.occurredAt = at /\ local'.status = s.status
    BY <1>2
  <1>5. RowIsKnown'
    BY <1>1, <1>4 DEF EventsInOrder, RowIsKnown, Known, Second
  <1>6. SettledIsContained'
    <2> SUFFICES ASSUME NEW k \in 1..Len(events), k \notin todo \/ k = i
                 PROVE  events[k].created <= at /\ events[k].snapshot.version <= s.version
      BY <1>3, <1>4 DEF SettledIsContained, Processed
    <2>1. CASE k = i
      BY <1>1, <2>1
    <2>2. CASE k \notin todo
      <3>1. events[k].created <= local.occurredAt /\ local # None
        BY <2>2 DEF RowFollows, SettledIsContained
      <3>2. events[k].created <= at
        BY <1>1, <3>1, Numbers
      <3> QED BY <2>2, <3>2
    <2> QED BY <2>1, <2>2
  <1>7. OlderIsContained'
    <2> SUFFICES ASSUME NEW k \in 1..Len(events), events[k].created < at
                 PROVE  events[k].snapshot.version <= s.version
      BY <1>4 DEF OlderIsContained
    <2>1. k < i
      <3>1. \A a, b \in Nat : ~(a < b /\ b <= a)
        OBVIOUS
      <3>2. ~(i < k)
        BY <1>1, <3>1, Numbers DEF EventsInOrder
      <3>3. i # k
        BY <1>1
      <3> QED BY <1>1, <3>2, <3>3
    <2>2. events[k].snapshot.version <= events[i].snapshot.version
      BY <1>1, <2>1 DEF EventsInOrder
    <2> QED BY SMTT(30), <1>1, <2>2, Numbers, BoundsAssumption DEF Snapshots
  <1>8. LookupIsNewer'
    BY DEF LookupIsNewer, Processed, LeaveKey
  <1> QED BY <1>5, <1>6, <1>7, <1>8 DEF RowFollows

LEMMA FollowStep ==
  ASSUME ~Stored', TypeOK, RefundInv, FollowInv, [Next]_vars
  PROVE  FollowInv'
  <1> USE DEF atStripe, handling, requests, bounds
  <1>1. EventsInOrder /\ (Revoked => Revoked')
    BY RevokedStays DEF FollowInv
  <1>2. ASSUME NEW kind \in Kinds, NEW s \in Snapshots, Emits(kind, s), remote' = s,
               s = remote \/ s.version = remote.version + 1,
               answer' # None => answer' \in {answer, s},
               UNCHANGED <<clock, holder, phase, local>>,
               Revoked \/ UNCHANGED answer
        PROVE  FollowInv'
    <2>1. EventsInOrder'
      BY <1>1, <1>2, EmitsInOrder
    <2>2. CASE Revoked
      BY <1>1, <2>1, <2>2 DEF FollowInv
    <2>3. CASE ~Revoked
      <3>1. remote.version <= s.version /\ (s.version = remote.version => s = remote)
        BY <1>2, Numbers
      <3>2. RowFollows'
        BY <1>1, <1>2, <2>1, <2>3, <3>1, EmittedFollows DEF FollowInv
      <3> QED BY <2>1, <3>2 DEF FollowInv
    <2> QED BY <2>2, <2>3
  <1>3. ASSUME NEW status \in {"active", "canceled"}, RemoteChange(status)
        PROVE  /\ Changed(status) \in Snapshots /\ "subscription" \in Kinds
               /\ Emits("subscription", Changed(status))
               /\ remote' = Changed(status)
               /\ Changed(status).version = remote.version + 1
    BY <1>3, ChangedType DEF RemoteChange, Changed, Kinds
  <1>4. CASE StripeChanges
    <2>1. PICK status \in {"active", "canceled"} : RemoteChange(status)
      BY <1>4 DEF StripeChanges
    <2>2. UNCHANGED <<clock, holder, phase, answer, local>>
      BY <1>4 DEF StripeChanges
    <2> QED BY <1>2, <1>3, <2>1, <2>2
  <1>5. CASE StripeReports
    <2>1. PICK kind \in Kinds : Emits(kind, remote)
      BY <1>5 DEF StripeReports, Kinds
    <2>2. UNCHANGED <<clock, remote, holder, phase, answer, local>>
      BY <1>5 DEF StripeReports
    <2>3. remote \in Snapshots
      BY DEF TypeOK
    <2> QED BY <1>2, <2>1, <2>2, <2>3
  <1>6. CASE CancelAtStripe
    <2>1. Revoked
      BY <1>6 DEF CancelAtStripe, RefundInv, RefundInProgress
    <2>2. /\ UNCHANGED <<clock, holder, phase, local>> /\ answer' = Changed("canceled")
          /\ RemoteChange("canceled")
      BY <1>6 DEF CancelAtStripe
    <2> QED BY <1>2, <1>3, <2>1, <2>2
  <1>7. ASSUME UNCHANGED <<remote, events>>, Second <= Second', Second' \in Nat,
               answer' # None => (Known(answer) /\ answer' = answer) \/ answer' = remote
        PROVE  EventsInOrder'
    <2>1. \A i \in 1..Len(events) : events[i].created <= Second'
      BY <1>1, <1>7, Numbers DEF EventsInOrder
    <2>2. Known(remote)
      BY Numbers DEF Known
    <2>3. answer' # None => Known(answer)'
      BY <1>7, <2>2 DEF Known
    <2> QED BY <1>1, <1>7, <2>1, <2>3 DEF EventsInOrder, Known
  <1>8. UNCHANGED clock => Second <= Second' /\ Second' \in Nat
    BY Numbers DEF Second
  <1>9. ASSUME UNCHANGED <<clock, remote, events>>,
               answer' # None => answer' = answer \/ answer' = remote
        PROVE  EventsInOrder'
    BY <1>1, <1>7, <1>8, <1>9 DEF EventsInOrder
  <1>10. CASE Tick
    <2>1. Second <= Second' /\ Second' \in Nat
      <3>1. clock' \in Nat
        BY <1>10, Numbers DEF Tick
      <3>2. clock' - (clock' % 2) \in 0..clock'
        BY <3>1, SecondType
      <3>3. Second' = clock' - (clock' % 2)
        BY DEF Second
      <3>4. Second' \in 0..clock'
        BY <3>2, <3>3, Zenon
      <3>5. Second' \in Nat
        BY <3>1, <3>4
      <3> QED BY <1>10, <3>5, SecondsPass
    <2>2. UNCHANGED <<atStripe, handling, local>>
      BY <1>10 DEF Tick
    <2>3. EventsInOrder'
      BY <1>1, <1>7, <2>1, <2>2 DEF EventsInOrder
    <2>4. RowIsKnown => RowIsKnown'
      BY <2>1, <2>2, Numbers DEF RowIsKnown, Known
    <2>5. RowFollows => RowFollows'
      BY <2>2, <2>4 DEF RowFollows, SettledIsContained, OlderIsContained, LookupIsNewer, Current
    <2> QED BY <1>1, <2>3, <2>5 DEF FollowInv
  <1>11. ASSUME UNCHANGED <<clock, remote, events, todo, local>>,
                answer' = None \/ (phase' = "start" /\ UNCHANGED answer) \/ UNCHANGED <<holder, phase, answer>>
         PROVE  FollowInv'
    <2>1. EventsInOrder'
      BY <1>9, <1>11
    <2>2. RowFollows => RowFollows'
      BY <1>11 DEF RowFollows, RowIsKnown, Known, Second, SettledIsContained, OlderIsContained,
                   LookupIsNewer, Current
    <2> QED BY <1>1, <2>1, <2>2 DEF FollowInv
  <1>12. CASE UNCHANGED vars \/ CancelRefused \/ ProcessingFails \/ Crash
    BY <1>11, <1>12 DEF vars, CancelRefused, ProcessingFails, Crash, LeaveKey
  <1>13. ASSUME UNCHANGED <<clock, atStripe>>, answer' = None, Revoked' PROVE FollowInv'
    BY <1>9, <1>13 DEF FollowInv
  <1>14. CASE Retrieve
    <2>1. UNCHANGED <<clock, atStripe, todo, holder, phase, local>> /\ answer' = remote
      BY <1>14 DEF Retrieve
    <2>2. EventsInOrder'
      BY <1>9, <2>1
    <2>3. RowFollows => LookupIsNewer'
      <3> SUFFICES ASSUME RowFollows, phase = "reconcile"
                   PROVE  /\ Current.snapshot.version <= remote.version
                          /\ local # None => local.version <= remote.version
        BY <2>1 DEF LookupIsNewer, Current
      <3>1. holder \in 1..Len(events)
        BY <1>14 DEF Retrieve, TypeOK, Running
      <3> QED BY <1>1, <3>1 DEF EventsInOrder, Known, Current, RowFollows, RowIsKnown
    <2>4. RowFollows => RowIsKnown' /\ SettledIsContained' /\ OlderIsContained'
      BY <2>1 DEF RowFollows, RowIsKnown, Known, Second, SettledIsContained, OlderIsContained
    <2> QED BY <1>1, <2>2, <2>3, <2>4 DEF FollowInv, RowFollows
  <1>15. ASSUME NEW i \in todo, Begin(i) PROVE FollowInv'
    <2>1. UNCHANGED <<clock, atStripe>> /\ answer' = None
      BY <1>15 DEF Begin, BeginSubscription, BeginRefund, Await, Processed, LeaveKey
    <2>2. CASE Revoked
      BY <1>1, <1>13, <2>1, <2>2
    <2>3. CASE ~Revoked /\ UNCHANGED <<local, todo>>
      BY <1>11, <2>1, <2>3
    <2>4. CASE ~Revoked /\ ~UNCHANGED <<local, todo>> /\ BeginSubscription(i)
      <3>1. ~NeedsLookup(events[i]) /\ Processed(i) /\ events[i].kind # "refund"
            /\ local' = Persisted(events[i].snapshot, events[i].created)
        BY <2>4 DEF BeginSubscription, Await
      <3>2. i \in 1..Len(events)
        BY DEF TypeOK
      <3>3. events[i].kind = "subscription"
        <4>1. events[i] \in Events
          BY <3>2 DEF TypeOK
        <4> QED BY <3>1, <4>1 DEF NeedsLookup, Events, Kinds
      <3>4. local # None => local.occurredAt < events[i].created
        BY <3>1, <3>2, <3>3, Numbers DEF NeedsLookup
      <3>5. ASSUME NEW k \in 1..Len(events) \ todo
            PROVE  events[k].snapshot.version <= events[i].snapshot.version
        <4>1. local # None /\ events[k].created <= local.occurredAt
          BY <2>4 DEF FollowInv, RowFollows, SettledIsContained
        <4>2. events[k].created < events[i].created
          BY <3>2, <3>4, <4>1, Numbers
        <4>3. ~(i < k)
          BY <3>2, <4>2, Numbers, <1>1 DEF EventsInOrder
        <4> QED BY <1>1, <3>2, <4>3 DEF EventsInOrder
      <3>6. local # None => local.occurredAt <= events[i].created
        BY <3>2, <3>4, Numbers
      <3>7. RowFollows'
        <4>1. events[i].snapshot \in Snapshots /\ Known(events[i].snapshot)
          BY <1>1, <3>2, Numbers DEF EventsInOrder
        <4>2. events[i].snapshot.version <= events[i].snapshot.version
          BY <3>2, Numbers
        <4> QED BY <1>1, <2>1, <2>4, <3>1, <3>5, <3>6, <4>1, <4>2, SettledFollows DEF FollowInv
      <3> QED BY <1>9, <2>1, <3>7 DEF FollowInv
    <2>5. CASE ~Revoked /\ ~UNCHANGED <<local, todo>> /\ BeginRefund(i)
      <3>1. local \in Rows /\ local.occurredAt <= clock /\ local' = RevokedRow(local)
        BY <2>5 DEF BeginRefund, Await, TypeOK
      <3>2. Revoked'
        BY <3>1, RevokedRowType, NewRowIsRevoked
      <3> QED BY <1>13, <2>1, <3>2
    <2> QED BY <1>15, <2>2, <2>3, <2>4, <2>5 DEF Begin
  <1>16. CASE Reconcile
    <2>1. /\ UNCHANGED <<clock, atStripe>> /\ answer' = None /\ answer \in Snapshots
          /\ holder \in todo /\ holder \in 1..Len(events)
          /\ phase = "reconcile" /\ answer # None /\ Processed(holder)
      BY <1>16 DEF Reconcile, Processed, LeaveKey, TypeOK, Running
    <2>2. CASE Revoked
      BY <1>1, <1>13, <2>1, <2>2
    <2>3. CASE ~Revoked /\ Newer(local, Current.created)
      <3>1. local' = local /\ todo' = todo \ {holder}
        BY <1>16, <2>1, <2>3 DEF Reconcile, Reconciled, Processed
      <3>2. RowFollows
        BY <2>3 DEF FollowInv
      <3>3. /\ local # None /\ events[holder].created < local.occurredAt
            /\ events[holder].created <= local.occurredAt
        BY <2>1, <2>3, Numbers DEF Newer, Current
      <3>4. events[holder].snapshot.version <= local.version
        BY <2>1, <3>2, <3>3 DEF RowFollows, OlderIsContained
      <3>5. SettledIsContained'
        BY <2>1, <3>1, <3>2, <3>3, <3>4 DEF RowFollows, SettledIsContained
      <3>6. RowIsKnown' /\ OlderIsContained' /\ LookupIsNewer'
        BY <2>1, <3>1, <3>2 DEF RowFollows, RowIsKnown, Known, Second, OlderIsContained, LookupIsNewer
      <3> QED BY <1>9, <2>1, <3>5, <3>6 DEF FollowInv, RowFollows
    <2>4. CASE ~Revoked /\ ~Newer(local, Current.created)
      <3>1. local' = Persisted(answer, events[holder].created)
        BY <1>16, <2>4 DEF Reconcile, Reconciled, Current
      <3>2. RowFollows
        BY <2>4 DEF FollowInv
      <3>3. local # None => local.occurredAt <= events[holder].created
        BY <2>1, <2>4, Numbers DEF Newer, Current
      <3>4. /\ Known(answer) /\ events[holder].snapshot.version <= answer.version
            /\ local # None => local.version <= answer.version
        BY <1>1, <2>1, <3>2 DEF EventsInOrder, RowFollows, LookupIsNewer, Current
      <3>5. ASSUME NEW k \in 1..Len(events) \ todo
            PROVE  events[k].snapshot.version <= answer.version
        <4>1. local # None /\ events[k].snapshot.version <= local.version
          BY <3>2 DEF RowFollows, SettledIsContained
        <4> QED BY <2>1, <3>4, <4>1, Numbers
      <3>6. RowFollows'
        BY <1>1, <2>1, <2>4, <3>1, <3>2, <3>3, <3>4, <3>5, SettledFollows
      <3> QED BY <1>9, <2>1, <3>6 DEF FollowInv
    <2> QED BY <2>2, <2>3, <2>4
  <1>17. CASE CreateAndRevoke
    <2>1. answer \in Snapshots /\ clock \in 0..clock
      BY <1>17, Numbers DEF CreateAndRevoke, TypeOK
    <2>2. local' = RevokedRow(Persisted(answer, clock))
      BY <1>17 DEF CreateAndRevoke
    <2>3. Revoked'
      BY <2>1, <2>2, PersistedType, RevokedRowType, NewRowIsRevoked
    <2> QED BY <1>13, <1>17, <2>3 DEF CreateAndRevoke, Await
  <1>18. CASE EndRefund
    <2>1. Revoked
      BY <1>18 DEF EndRefund, RefundInv, RefundInProgress
    <2> QED BY <1>1, <1>13, <1>18, <2>1 DEF EndRefund, Await, Processed, LeaveKey
  <1>19. ASSUME NEW r \in Routes, RouteSteps(r) PROVE FollowInv'
    <2>1. CASE AskStripe(r) \/ UpdateRefused(r)
      <3>1. UNCHANGED <<clock, atStripe, handling, local>>
        BY <2>1 DEF AskStripe, UpdateRefused
      <3> QED BY <1>11, <3>1
    <2>2. CASE UpdateAtStripe(r)
      <3>1. UNCHANGED <<clock, holder, phase, answer, local>> /\ RemoteChange("active")
        BY <2>2 DEF UpdateAtStripe
      <3> QED BY <1>2, <1>3, <3>1
    <2>3. CASE PersistReply(r)
      <3>1. route'[r] = "stored"
        BY <2>3 DEF PersistReply, TypeOK
      <3> QED BY <3>1 DEF Stored
    <2> QED BY <1>19, <2>1, <2>2, <2>3 DEF RouteSteps
  <1> QED
    BY <1>4, <1>5, <1>6, <1>10, <1>12, <1>14, <1>15, <1>16, <1>17, <1>18, <1>19
    DEF Next, Processing

(* A request that has stored its answer stays so.                          *)
LEMMA StoredStays == TypeOK /\ [Next]_vars /\ Stored => Stored'
  <1> SUFFICES ASSUME TypeOK, [Next]_vars, NEW r \in Routes, route[r] = "stored"
               PROVE  route'[r] = "stored"
    BY DEF Stored
  <1>1. \A q \in Routes : RouteSteps(q) => route'[r] = "stored"
    BY DEF RouteSteps, AskStripe, UpdateAtStripe, UpdateRefused, PersistReply, TypeOK
  <1>2. Crash => route'[r] = "stored"
    BY DEF Crash
  <1>3. CASE UNCHANGED requests
    BY <1>3 DEF requests
  <1>4. Tick \/ StripeChanges \/ StripeReports \/ ProcessingFails \/ UNCHANGED vars
          => UNCHANGED requests
    BY DEF Tick, StripeChanges, StripeReports, ProcessingFails, vars
  <1>5. (\E i \in todo : Begin(i)) => UNCHANGED requests
    BY DEF Begin, BeginSubscription, BeginRefund
  <1>6. Processing => UNCHANGED requests
    BY DEF Processing, Retrieve, CancelAtStripe, CancelRefused, Reconcile, CreateAndRevoke, EndRefund
  <1> QED BY <1>1, <1>2, <1>3, <1>4, <1>5, <1>6 DEF Next

(* Events that arrive in any order, share a second or overtake a lookup    *)
(* leave the row as Stripe has the subscription (processSubscription and   *)
(* reconcileStripeSubscription), for any bounds, as long as no request has *)
(* stored an answer beside them.                                           *)
THEOREM WebhooksConverge == Spec => []LocalFollowsStripe
  <1>1. TypeOK /\ RefundInv /\ FollowInv /\ [Next]_vars /\ ~Stored' => FollowInv'
    BY FollowStep
  <1>2. TypeOK /\ FollowInv => LocalFollowsStripe
    BY FollowInvSuffices
  <1>3. Stored => LocalFollowsStripe
    BY DEF LocalFollowsStripe
  <1>4. Spec => []RefundInv
    BY InitRefund, RefundStep, TypeCorrectness, PTL DEF Spec
  <1>5. TypeOK /\ RefundInv /\ (Stored \/ FollowInv) /\ [Next]_vars => (Stored \/ FollowInv)'
    BY <1>1, StoredStays
  <1> QED BY <1>2, <1>3, <1>4, <1>5, InitFollows, TypeCorrectness, PTL DEF Spec
=============================================================================
