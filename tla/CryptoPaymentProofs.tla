------------------------ MODULE CryptoPaymentProofs ------------------------
(***************************************************************************)
(* What is proved of CryptoPayment for any payments, owners and faults:    *)
(* access follows the payment in whatever order its events are handled;    *)
(* what has ended stays so, unless a poller works on an old list; and a    *)
(* refund leaves no access but that of the grace or of a torn checkout.    *)
(***************************************************************************)
EXTENDS CryptoPayment, TLAPS

(***************************************************************************)
(* The inductive invariant.  Most of it is about one payment.              *)
(***************************************************************************)

(* The statuses of a payment in the order they follow each other.          *)
Rank == [pending |-> 0, failed |-> 1, finished |-> 2, refunded |-> 3]

PollRecords ==
  [step : {"idle", "payments", "subscriptions"}, left : SUBSET Payments, heard : Events \cup {None},
   on : Events \cup {None}, now : Times, seen : [Payments -> Subs \cup {None}] \cup {None}]

(* What a poller hears was sent; it has a list while it goes through the   *)
(* subscriptions.                                                          *)
PollerOK(i) ==
  /\ poll[i].heard \in sent \cup {None}
  /\ poll[i].step = "subscriptions" =>
       /\ poll[i].seen \in [Payments -> Subs \cup {None}]
       /\ \A p \in Payments : poll[i].seen[p] # None => sub[p] # None

PollOK == poll \in [Pollers -> PollRecords] /\ \A i \in Pollers : PollerOK(i)

(* The provider has made an event for the status of p, and for nothing     *)
(* that would come later.                                                  *)
History(p) ==
  /\ provider[p].at <= clock
  /\ EventOf(p, provider[p]) \in sent
  /\ \A e \in sent : e.of = p =>
       \/ e = EventOf(p, provider[p])
       \/ e.at <= provider[p].at /\ Rank[e.status] < Rank[provider[p].status]

(* What was observed has happened; the provider's answer to an event is at *)
(* least as far as the event.                                              *)
Handling(p) ==
  /\ latest[p] # None => latest[p] <= provider[p].at
  /\ answer[p] # None => /\ running[p] # None
                         /\ EventOf(p, answer[p]) \in sent
                         /\ Rank[running[p].status] <= Rank[answer[p].status]

(* The rows say no more than the provider.                                 *)
Rows(p) ==
  /\ checkout[p].at # None =>
       EventOf(p, [status |-> checkout[p].provider, at |-> checkout[p].at]) \in sent
  /\ sub[p] # None \/ checkout[p].status = "completed" => Rank[provider[p].status] >= 2
  /\ charge[p] = "refunded" => provider[p].status = "refunded"
  /\ Is(p, "active") => sub[p].at <= provider[p].at
  /\ checkout[p].status = "completed" /\ provider[p].status = "finished" =>
       sub[p] # None /\ (torn[p] = "charge" \/ charge[p] = "succeeded")
  /\ sub[p] # None => checkout[p].status = "completed" \/ torn[p] = "checkout"

(* A payment whose event was processed is recorded, torn or not.           *)
FinishedIsRecorded(p) ==
  provider[p].status = "finished" /\ EventOf(p, provider[p]) \in processed =>
    checkout[p].status = "completed" \/ sub[p] # None

(* So is a refund, and nothing that is still under way precedes it.        *)
RefundIsRecorded(p) ==
  provider[p].status = "refunded" /\ EventOf(p, provider[p]) \in processed =>
    /\ checkout[p].at = provider[p].at /\ checkout[p].provider = "refunded"
    /\ answer[p] # None => answer[p].status = "refunded"
    /\ Is(p, "active") => checkout[p].status # "completed"

(* An event the provider does not repeat any more was processed.           *)
Settled == sent \subseteq todo \cup processed

PaymentIInv(p) ==
  History(p) /\ Handling(p) /\ Rows(p) /\ FinishedIsRecorded(p) /\ RefundIsRecorded(p)

(***************************************************************************)
(* Rows.                                                                   *)
(***************************************************************************)

(* A step may leave a row as it is, or write a row that is not active.     *)
Weaker(old, new) ==
  \/ new = old
  \/ /\ old \in Subs /\ new \in Subs /\ old.at <= new.at
     /\ new.status # "active"
     /\ new.status = "revoked" => new.due = None /\ new.grace = None

(* The faults are numbers, and a time can be extended by them.             *)
LEMMA BoundTypes ==
  /\ Times \subseteq Nat /\ Deadlines \subseteq Nat /\ Times \subseteq Deadlines
  /\ \A t \in Times : t + Period \in Deadlines /\ t + Grace \in Deadlines
  /\ Period \in Nat /\ Grace \in Nat /\ MaxTime \in Nat /\ MaxFailures \in Nat /\ MaxCrashes \in Nat
  BY BoundsAssumption DEF Times, Deadlines

(* None is no row, no event, no answer and no time.                        *)
LEMMA NoneIsNothing ==
  /\ None \notin Times /\ None \notin Reports /\ None \notin Events /\ None \notin Subs
  BY NoneAssumption

(* A row is not None, and has a time.                                      *)
LEMMA RowTimes ==
  ASSUME NEW row \in Subs
  PROVE  row # None /\ row.at \in Times /\ row.at \in Nat
  BY BoundTypes, NoneIsNothing DEF Subs

(* What is upserted is one of the two rows, and not older than either.     *)
LEMMA UpsertedRow ==
  ASSUME NEW old \in Subs \cup {None}, NEW new \in Subs
  PROVE  /\ Upserted(old, new) \in Subs
         /\ Upserted(old, new) \in {old, new}
         /\ new.at <= Upserted(old, new).at
         /\ old # None => old.at <= Upserted(old, new).at
  <1>1. new.at \in Nat /\ (old # None => old.at \in Nat)
    BY RowTimes
  <1>2. CASE old # None /\ old.at > new.at
    BY <1>1, <1>2 DEF Upserted
  <1>3. CASE ~(old # None /\ old.at > new.at)
    BY <1>1, <1>3 DEF Upserted
  <1> QED
    BY <1>2, <1>3

(* A row that is not active may be upserted by any step.                   *)
LEMMA UpsertedIsWeaker ==
  ASSUME NEW old \in Subs, NEW new \in Subs, new.status # "active",
         new.status = "revoked" => new.due = None /\ new.grace = None
  PROVE  Weaker(old, Upserted(old, new))
  <1>1. /\ Upserted(old, new) \in Subs /\ Upserted(old, new) \in {old, new}
        /\ old.at <= Upserted(old, new).at
    BY UpsertedRow, RowTimes
  <1> QED
    BY <1>1 DEF Weaker

(* The rows that are written when a subscription ends or falls due.        *)
LEMMA RevokedIsWeaker ==
  ASSUME NEW row \in Subs, NEW at \in Times
  PROVE  Weaker(row, RevokedSub(row, at)) /\ RevokedSub(row, at) \in Subs
  <1> DEFINE new == [row EXCEPT !.status = "revoked", !.due = None, !.grace = None, !.at = at]
  <1>1. new \in Subs /\ new.status = "revoked" /\ new.due = None /\ new.grace = None
    BY DEF Subs
  <1> QED
    BY <1>1, UpsertedIsWeaker, UpsertedRow DEF RevokedSub

(* So may one that is cancelled.                                           *)
LEMMA CancelledIsWeaker ==
  ASSUME NEW row \in Subs, NEW at \in Times
  PROVE  LET new == Upserted(row, [row EXCEPT !.status = "cancelled", !.due = None, !.at = at])
         IN  Weaker(row, new) /\ new \in Subs
  <1> DEFINE new == [row EXCEPT !.status = "cancelled", !.due = None, !.at = at]
  <1>1. new \in Subs /\ new.status = "cancelled"
    BY DEF Subs
  <1> QED
    BY <1>1, UpsertedIsWeaker, UpsertedRow

(* And one the poller marks, whichever row it has read.                    *)
LEMMA MarkedRow ==
  ASSUME NEW row \in Subs, NEW seen \in Subs, clock \in Times, NEW now \in Times
  PROVE  /\ Marked(seen, now) \in Subs /\ Marked(seen, now).status \in {"cancelled", "past_due"}
         /\ Weaker(row, Upserted(row, Marked(seen, now)))
         /\ Upserted(row, Marked(seen, now)) \in Subs
  <1>1. NewGrace(seen) \in Deadlines
    BY BoundTypes, NoneIsNothing DEF NewGrace, Subs
  <1>2. Marked(seen, now) \in Subs /\ Marked(seen, now).status \in {"cancelled", "past_due"}
    BY <1>1 DEF Marked, Subs
  <1> QED
    BY <1>2, UpsertedIsWeaker, UpsertedRow

(* What a weaker row means for the invariant.                              *)
LEMMA WeakerRow ==
  ASSUME NEW old \in Subs \cup {None}, NEW new, Weaker(old, new)
  PROVE  /\ new \in Subs \cup {None}
         /\ new = None <=> old = None
         /\ new # None /\ new.status = "active" => new = old
         /\ new # None => old # None /\ old.at <= new.at
  <1>1. (old # None => old.at \in Nat) /\ None \notin Subs
    BY RowTimes
  <1> QED
    BY <1>1 DEF Weaker

(***************************************************************************)
(* What an event does, by its report: to its payment p, and to the others. *)
(***************************************************************************)

(* The payment p stays as it is, because the report says nothing new.      *)
Stays(p, report) ==
  /\ checkout'[p] = checkout[p] /\ sub'[p] = sub[p] /\ charge'[p] = charge[p]
  /\ \/ Outdated(p, report)
     \/ report.status = "finished" /\ Known(p, report.at)
     \/ report.status \in {"pending", "failed"}

Completes(p, report) ==
  /\ ~Outdated(p, report)
  /\ report.status = "finished" /\ ~Known(p, report.at)
  /\ sub'[p] \in Subs /\ sub'[p].status = "active" /\ sub'[p].at = report.at
  /\ checkout'[p] = [status |-> "completed", at |-> report.at, provider |-> "finished"]
  /\ charge'[p] = IF charge[p] = "refunded" THEN charge[p] ELSE "succeeded"

Revokes(p, report) ==
  /\ ~Outdated(p, report)
  /\ report.status = "refunded" /\ checkout[p].status = "completed"
  /\ sub'[p] = IF sub[p] = None THEN sub[p] ELSE RevokedSub(sub[p], report.at)
  /\ checkout'[p] = [status |-> "completed", at |-> report.at, provider |-> "refunded"]
  /\ charge'[p] \in {charge[p], "refunded"}

Closes(p, report) ==
  /\ ~Outdated(p, report)
  /\ report.status # "finished" /\ checkout[p].status # "completed"
  /\ sub'[p] = sub[p] /\ charge'[p] = charge[p]
  /\ \E status \in {"pending", "cancelled"} :
       checkout'[p] = [status |-> status, at |-> report.at, provider |-> report.status]

Effect(p, report) ==
  Stays(p, report) \/ Completes(p, report) \/ Revokes(p, report) \/ Closes(p, report)

(* Another payment can only lose its subscription.                         *)
Aside(q) ==
  checkout'[q] = checkout[q] /\ charge'[q] = charge[q] /\ Weaker(sub[q], sub'[q])

RowTypes ==
  /\ checkout \in [Payments -> Checkouts] /\ sub \in [Payments -> Subs \cup {None}]
  /\ charge \in [Payments -> {"none", "succeeded", "refunded"}]

(* The rows of others give way to a payment that is completed.             *)
LEMMA ActivatedRows ==
  ASSUME RowTypes, NEW p \in Payments, NEW at \in Times, sub' = Activated(p, at),
         ~(sub[p] # None /\ sub[p].at >= at)
  PROVE  /\ sub' \in [Payments -> Subs \cup {None}]
         /\ sub'[p] \in Subs /\ sub'[p].status = "active" /\ sub'[p].at = at
         /\ \A q \in Payments \ {p} : Weaker(sub[q], sub'[q])
  <1>1. sub[p] \in Subs \cup {None} /\ \A q \in Payments : sub[q] \in Subs \cup {None}
    BY DEF RowTypes
  <1> DEFINE new == [status |-> "active", at |-> at, due |-> at + Period, grace |-> None]
  <1>2. new \in Subs /\ new.status = "active" /\ new.at = at
    BY BoundTypes DEF Subs
  <1>3. Upserted(sub[p], new) = new
    BY <1>1, <1>2, RowTimes, BoundTypes DEF Upserted
  <1>4. sub'[p] = new /\ (\A q \in Payments \ {p} : sub'[q] = Deactivated(Others(p), at)[q])
        /\ sub' = [q \in Payments |-> sub'[q]]
    BY <1>3 DEF Activated, Deactivated
  <1>5. ASSUME NEW q \in Payments \ {p}
        PROVE  Weaker(sub[q], sub'[q])
    <2>1. CASE q \in Others(p)
      <3>1. sub[q] \in Subs
        BY <1>1, <2>1 DEF Others
      <3>2. sub'[q] = Upserted(sub[q], [sub[q] EXCEPT !.status = "cancelled", !.due = None, !.at = at])
        BY <1>4, <2>1 DEF Deactivated
      <3> QED
        BY <3>1, <3>2, CancelledIsWeaker
    <2>2. CASE q \notin Others(p)
      BY <1>4, <2>2 DEF Deactivated, Weaker
    <2> QED
      BY <2>1, <2>2
  <1>6. \A q \in Payments : sub'[q] \in Subs \cup {None}
    BY <1>1, <1>2, <1>4, <1>5, WeakerRow
  <1>7. sub' \in [Payments -> Subs \cup {None}]
    BY <1>4, <1>6
  <1> QED
    BY <1>2, <1>4, <1>5, <1>7

(* A checkout that is not outdated is written.                             *)
LEMMA SavedCheckout ==
  ASSUME RowTypes, NEW p \in Payments, NEW report \in Reports, ~Outdated(p, report),
         NEW status \in {"pending", "completed", "cancelled"},
         checkout[p].status = "completed" => status = "completed",
         SaveCheckout(p, status, report)
  PROVE  /\ checkout' \in [Payments -> Checkouts]
         /\ checkout'[p] = [status |-> status, at |-> report.at, provider |-> report.status]
         /\ \A q \in Payments \ {p} : checkout'[q] = checkout[q]
  <1>1. report.at \in Times /\ report.status \in Statuses /\ checkout[p].at \in Times \cup {None}
    BY DEF Reports, RowTypes, Checkouts
  <1> DEFINE new == [status |-> status, at |-> report.at, provider |-> report.status]
  <1>2. checkout' = [checkout EXCEPT ![p] = new]
    BY <1>1, BoundTypes DEF SaveCheckout, Outdated
  <1>3. new \in Checkouts
    BY <1>1 DEF Checkouts
  <1> QED
    BY <1>2, <1>3 DEF RowTypes

(* What is written for a report that is not outdated.                      *)
LEMMA WritesEffect ==
  ASSUME RowTypes, NEW p \in Payments, NEW report \in Reports, ~Outdated(p, report), Writes(p, report)
  PROVE  RowTypes' /\ Effect(p, report) /\ \A q \in Payments \ {p} : Aside(q)
  <1>1. /\ report.status = "finished" => Finished(p, report)
        /\ report.status \in {"failed", "refunded"} => Failed(p, report)
        /\ report.status = "pending" => Pending(p, report)
    BY DEF Writes, Reports, Statuses
  <1>2. report.at \in Times /\ report.status \in Statuses
    BY DEF Reports
  <1>3. ASSUME UNCHANGED <<checkout, sub, charge>>
        PROVE  RowTypes' /\ \A q \in Payments \ {p} : Aside(q)
    BY <1>3 DEF RowTypes, Aside, Weaker
  <1>4. CASE report.status = "finished" /\ Known(p, report.at)
    <2>1. UNCHANGED <<checkout, sub, charge>>
      BY <1>1, <1>4 DEF Finished
    <2> QED
      BY <1>1, <1>3, <1>4, <2>1 DEF Effect, Stays
  <1>5. CASE report.status = "finished" /\ ~Known(p, report.at)
    <2>1. /\ sub' = Activated(p, report.at)
          /\ SaveCheckout(p, "completed", report)
          /\ charge' = [charge EXCEPT ![p] = IF @ = "refunded" THEN @ ELSE "succeeded"]
      BY <1>1, <1>5 DEF Finished
    <2>2. ~(sub[p] # None /\ sub[p].at >= report.at)
      BY <1>5 DEF Known
    <2>3. /\ sub' \in [Payments -> Subs \cup {None}]
          /\ sub'[p] \in Subs /\ sub'[p].status = "active" /\ sub'[p].at = report.at
          /\ \A q \in Payments \ {p} : Weaker(sub[q], sub'[q])
      BY <1>2, <2>1, <2>2, ActivatedRows
    <2>4. /\ checkout' \in [Payments -> Checkouts]
          /\ checkout'[p] = [status |-> "completed", at |-> report.at, provider |-> report.status]
          /\ \A q \in Payments \ {p} : checkout'[q] = checkout[q]
      BY <2>1, SavedCheckout
    <2>5. /\ charge' \in [Payments -> {"none", "succeeded", "refunded"}]
          /\ charge'[p] = IF charge[p] = "refunded" THEN charge[p] ELSE "succeeded"
          /\ \A q \in Payments \ {p} : charge'[q] = charge[q]
      BY <2>1 DEF RowTypes
    <2> QED
      BY <1>1, <1>5, <2>3, <2>4, <2>5 DEF Effect, Completes, Aside, RowTypes
  <1>6. CASE report.status = "refunded" /\ checkout[p].status = "completed"
    <2>1. Refunded(p, report)
      BY <1>1, <1>6 DEF Failed
    <2>2. /\ checkout' \in [Payments -> Checkouts]
          /\ checkout'[p] = [status |-> "completed", at |-> report.at, provider |-> report.status]
          /\ \A q \in Payments \ {p} : checkout'[q] = checkout[q]
      BY <2>1, SavedCheckout DEF Refunded
    <2>3. /\ charge' \in [Payments -> {"none", "succeeded", "refunded"}]
          /\ charge'[p] \in {charge[p], "refunded"}
          /\ \A q \in Payments \ {p} : charge'[q] = charge[q]
      BY <2>1 DEF RowTypes, Refunded
    <2>4. /\ sub'[p] = IF sub[p] = None THEN sub[p] ELSE RevokedSub(sub[p], report.at)
          /\ \A q \in Payments \ {p} : sub'[q] = sub[q]
          /\ DOMAIN sub' = Payments /\ sub' = [q \in Payments |-> sub'[q]]
      BY <2>1 DEF RowTypes, Refunded
    <2>5. sub'[p] \in Subs \cup {None} /\ \A q \in Payments : sub[q] \in Subs \cup {None}
      BY <1>2, <2>4, RevokedIsWeaker DEF RowTypes
    <2>6. sub' \in [Payments -> Subs \cup {None}]
      BY <2>4, <2>5
    <2>7. RowTypes' /\ \A q \in Payments \ {p} : Aside(q)
      BY <2>2, <2>3, <2>4, <2>6 DEF RowTypes, Aside, Weaker
    <2>8. Revokes(p, report)
      BY <1>6, <2>2, <2>3, <2>4 DEF Revokes
    <2> QED
      BY <1>1, <2>7, <2>8 DEF Effect
  <1>7. CASE report.status # "finished" /\ checkout[p].status # "completed"
    <2>1. PICK status \in {"pending", "cancelled"} :
            SaveCheckout(p, status, report) /\ UNCHANGED <<sub, charge>>
      BY <1>1, <1>2, <1>7 DEF Failed, Pending, Statuses
    <2>2. /\ checkout' \in [Payments -> Checkouts]
          /\ checkout'[p] = [status |-> status, at |-> report.at, provider |-> report.status]
          /\ \A q \in Payments \ {p} : checkout'[q] = checkout[q]
      <3>1. /\ status \in {"pending", "completed", "cancelled"}
            /\ checkout[p].status = "completed" => status = "completed"
        BY <1>7, <2>1
      <3> QED
        BY <2>1, <3>1, SavedCheckout, ZenonT(30)
    <2>3. RowTypes' /\ \A q \in Payments \ {p} : Aside(q)
      BY <2>1, <2>2 DEF RowTypes, Aside, Weaker
    <2>4. Closes(p, report)
      BY <1>7, <2>1, <2>2 DEF Closes
    <2> QED
      BY <1>1, <2>3, <2>4 DEF Effect
  <1>8. CASE report.status \in {"pending", "failed"} /\ checkout[p].status = "completed"
    <2>1. UNCHANGED <<checkout, sub, charge>>
      BY <1>1, <1>8 DEF Failed, Pending
    <2> QED
      BY <1>1, <1>3, <1>8, <2>1 DEF Effect, Stays
  <1> QED
    BY <1>2, <1>4, <1>5, <1>6, <1>7, <1>8 DEF Statuses

(* What is done for an event under the key of its payment.                 *)
LEMMA ApplyEffect ==
  ASSUME RowTypes, NEW e, NEW p \in Payments, e.of = p, NEW report \in Reports, Apply(e, report)
  PROVE  /\ Settle(e) /\ RowTypes'
         /\ Effect(p, report)
         /\ \A q \in Payments \ {p} : Aside(q)
  <1>1. CASE Outdated(p, report)
    <2>1. Ignore(e)
      BY <1>1 DEF Apply
    <2> QED
      BY <1>1, <2>1 DEF Ignore, RowTypes, Effect, Stays, Aside, Weaker
  <1>2. CASE ~Outdated(p, report)
    BY <1>2, WritesEffect DEF Apply
  <1> QED
    BY <1>1, <1>2

(***************************************************************************)
(* Types, by the groups of variables that change together.                 *)
(***************************************************************************)

QueueTypes ==
  /\ clock \in Times /\ provider \in [Payments -> Reports]
  /\ sent \subseteq Events
  /\ todo \subseteq sent /\ waiting \subseteq sent /\ processed \subseteq sent

HandlingTypes ==
  /\ latest \in [Payments -> Times \cup {None}]
  /\ \A p \in Payments : latest[p] = None <=> ~\E e \in waiting : e.of = p
  /\ running \in [Payments -> Events \cup {None}]
  /\ \A p \in Payments : running[p] # None => running[p] \in waiting /\ running[p].of = p
  /\ answer \in [Payments -> Reports \cup {None}]

CounterTypes ==
  /\ failures \in 0..MaxFailures /\ crashes \in 0..MaxCrashes
  /\ torn \in [Payments -> {"no", "checkout", "charge"}]

Types == QueueTypes /\ HandlingTypes /\ RowTypes /\ PollOK /\ CounterTypes

(* That running is a function is not said by TypeOK.                       *)
LEMMA TypesAreTypeOK == Types => TypeOK
  <1> SUFFICES ASSUME Types PROVE TypeOK
    OBVIOUS
  <1>1. \A p \in Payments : running[p] \in {e \in waiting : e.of = p} \cup {None}
    BY DEF Types, HandlingTypes
  <1>2. \A i \in Pollers : poll[i].step \in {"idle", "payments", "subscriptions"}
                         /\ poll[i].left \subseteq Payments
    BY DEF Types, PollOK, PollerOK, PollRecords
  <1> QED
    BY <1>1, <1>2 DEF Types, QueueTypes, HandlingTypes, RowTypes, CounterTypes, TypeOK

(* The parts of an event.                                                  *)
LEMMA EventTypes ==
  ASSUME NEW e \in Events
  PROVE  e.of \in Payments /\ e.status \in Statuses /\ e.at \in Times /\ e # None
  BY NoneIsNothing DEF Events

(* The event of a report, and its parts.                                   *)
LEMMA ReportEvent ==
  ASSUME NEW p \in Payments, NEW r \in Reports
  PROVE  /\ EventOf(p, r) \in Events
         /\ EventOf(p, r).of = p /\ EventOf(p, r).status = r.status /\ EventOf(p, r).at = r.at
         /\ r.status \in Statuses /\ r.at \in Times
  BY DEF Events, Reports, EventOf

(* The observation of an event.                                            *)
LEMMA ObserveTypes ==
  ASSUME QueueTypes, HandlingTypes, NEW e \in sent, Observe(e)
  PROVE  /\ HandlingTypes' /\ waiting' \subseteq sent
         /\ \A q \in Payments : latest'[q] = latest[q] \/ (e.of = q /\ latest'[q] = e.at)
         /\ running' = running /\ answer' = answer
  <1>1. /\ waiting' = waiting \cup {e}
        /\ latest' = [latest EXCEPT ![e.of] = Later(@, e.at)]
        /\ running' = running /\ answer' = answer
    BY DEF Observe
  <1>2. e.of \in Payments /\ e.at \in Times /\ e \in Events
    BY EventTypes DEF QueueTypes
  <1>3. Later(latest[e.of], e.at) \in Times /\ Later(latest[e.of], e.at) \in {latest[e.of], e.at}
    BY <1>2 DEF Later, HandlingTypes
  <1>4. /\ latest' \in [Payments -> Times \cup {None}]
        /\ latest'[e.of] \in Times /\ \A q \in Payments \ {e.of} : latest'[q] = latest[q]
        /\ latest'[e.of] \in {latest[e.of], e.at}
    BY <1>1, <1>2, <1>3 DEF HandlingTypes
  <1>5. \A p \in Payments : latest'[p] = None <=> ~\E f \in waiting' : f.of = p
    BY <1>1, <1>2, <1>4, NoneIsNothing DEF HandlingTypes
  <1>6. waiting' \subseteq sent
    BY <1>1 DEF QueueTypes
  <1>7. \A p \in Payments : running'[p] # None => running'[p] \in waiting' /\ running'[p].of = p
    BY <1>1 DEF HandlingTypes
  <1> QED
    BY <1>1, <1>4, <1>5, <1>6, <1>7 DEF HandlingTypes

(* And its release.                                                        *)
LEMMA ReleaseTypes ==
  ASSUME QueueTypes, HandlingTypes, NEW e \in waiting, ReleaseObservation(e)
  PROVE  /\ HandlingTypes' /\ waiting' \subseteq sent
         /\ \A q \in Payments : latest'[q] \in {latest[q], None}
         /\ running'[e.of] = None /\ answer'[e.of] = None
         /\ \A q \in Payments \ {e.of} : running'[q] = running[q] /\ answer'[q] = answer[q]
  <1>1. /\ waiting' = waiting \ {e}
        /\ latest' = [latest EXCEPT ![e.of] = IF \E f \in waiting \ {e} : f.of = e.of THEN @ ELSE None]
        /\ running' = [running EXCEPT ![e.of] = None]
        /\ answer' = [answer EXCEPT ![e.of] = None]
    BY DEF ReleaseObservation
  <1>2. e.of \in Payments
    BY EventTypes DEF QueueTypes
  <1>3. /\ running' \in [Payments -> Events \cup {None}] /\ answer' \in [Payments -> Reports \cup {None}]
        /\ running'[e.of] = None /\ answer'[e.of] = None
        /\ \A q \in Payments \ {e.of} : running'[q] = running[q] /\ answer'[q] = answer[q]
    BY <1>1, <1>2 DEF HandlingTypes
  <1>4. /\ latest' \in [Payments -> Times \cup {None}]
        /\ latest'[e.of] = IF \E f \in waiting' : f.of = e.of THEN latest[e.of] ELSE None
        /\ \A q \in Payments \ {e.of} : latest'[q] = latest[q]
    BY <1>1, <1>2 DEF HandlingTypes
  <1>5. \A p \in Payments : latest'[p] = None <=> ~\E f \in waiting' : f.of = p
    <2> TAKE p \in Payments
    <2>1. CASE p = e.of
      BY <1>1, <1>4, <2>1 DEF HandlingTypes
    <2>2. CASE p # e.of
      BY <1>1, <1>4, <2>2 DEF HandlingTypes
    <2> QED
      BY <2>1, <2>2
  <1>6. \A p \in Payments : running'[p] # None => running'[p] \in waiting' /\ running'[p].of = p
    BY <1>1, <1>3 DEF HandlingTypes
  <1>7. \A q \in Payments : latest'[q] \in {latest[q], None}
    BY <1>4
  <1> QED
    BY <1>1, <1>3, <1>4, <1>5, <1>6, <1>7 DEF HandlingTypes, QueueTypes

(***************************************************************************)
(* The invariant of one payment, when the provider does not change it.     *)
(***************************************************************************)

Observed(p, at) == \E e \in sent : e.of = p /\ e.at = at

(* What is observed of p may grow by an event that was sent, or be         *)
(* forgotten; the answer it waits for stays or is forgotten.               *)
HandlingKept(p) ==
  /\ latest'[p] # None => latest'[p] = latest[p] \/ Observed(p, latest'[p])
  /\ answer'[p] # None => answer'[p] = answer[p] /\ running'[p] = running[p]

ProcessedKept(p) == EventOf(p, provider[p]) \in processed' => EventOf(p, provider[p]) \in processed

SameHistory == provider' = provider /\ sent' = sent /\ clock <= clock'

(* The rank of each status.                                                *)
LEMMA RankTypes ==
  /\ \A status \in Statuses : Rank[status] \in Nat
  /\ Rank["pending"] = 0 /\ Rank["failed"] = 1 /\ Rank["finished"] = 2 /\ Rank["refunded"] = 3
  BY DEF Rank, Statuses

(* No event of a payment is newer than its status.                         *)
LEMMA SentIsPast ==
  ASSUME QueueTypes, NEW p \in Payments, History(p), NEW e \in sent, e.of = p
  PROVE  /\ e.at <= provider[p].at /\ e.at \in Nat /\ provider[p].at \in Nat
         /\ Rank[e.status] <= Rank[provider[p].status]
         /\ e.status = provider[p].status => e = EventOf(p, provider[p])
  <1>1. /\ provider[p] \in Reports /\ provider[p].at \in Nat /\ e.at \in Nat
        /\ Rank[e.status] \in Nat /\ Rank[provider[p].status] \in Nat
        /\ EventOf(p, provider[p]).at = provider[p].at
        /\ EventOf(p, provider[p]).status = provider[p].status
    <2>1. provider[p] \in Reports /\ e \in Events
      BY DEF QueueTypes
    <2>2. e.status \in Statuses /\ e.at \in Times
      BY <2>1, EventTypes
    <2>3. /\ provider[p].status \in Statuses /\ provider[p].at \in Times
          /\ EventOf(p, provider[p]).at = provider[p].at
          /\ EventOf(p, provider[p]).status = provider[p].status
      BY <2>1, ReportEvent
    <2> QED
      BY <2>1, <2>2, <2>3, RankTypes, BoundTypes
  <1>2. \/ e = EventOf(p, provider[p])
        \/ e.at <= provider[p].at /\ Rank[e.status] < Rank[provider[p].status]
    BY DEF History
  <1> QED
    BY <1>1, <1>2

(* The clock does not change what was sent.                                *)
LEMMA ClockKept ==
  ASSUME QueueTypes, QueueTypes', NEW p \in Payments, History(p), SameHistory
  PROVE  History(p)'
  <1>1. provider[p] \in Reports /\ clock \in Nat /\ clock' \in Nat
    BY BoundTypes DEF QueueTypes
  <1>2. provider[p].at \in Nat
    BY <1>1, ReportEvent, BoundTypes
  <1>3. provider[p].at <= clock'
    BY <1>1, <1>2 DEF History, SameHistory
  <1>4. provider' = provider /\ sent' = sent
    BY DEF SameHistory
  <1> QED
    BY <1>3, <1>4 DEF History

(* What is observed and answered stays true when it is kept.               *)
LEMMA HandlingKeptLemma ==
  ASSUME QueueTypes, NEW p \in Payments, History(p), Handling(p), SameHistory, HandlingKept(p)
  PROVE  Handling(p)'
  <1>1. provider'[p] = provider[p] /\ sent' = sent
    BY DEF SameHistory
  <1>2. latest'[p] # None => latest'[p] <= provider[p].at
    BY SentIsPast DEF HandlingKept, Observed, Handling
  <1>3. answer'[p] # None => /\ running'[p] # None
                             /\ EventOf(p, answer'[p]) \in sent
                             /\ Rank[running'[p].status] <= Rank[answer'[p].status]
    BY DEF HandlingKept, Handling
  <1> QED
    BY <1>1, <1>2, <1>3 DEF Handling

(* A step that leaves a payment aside keeps its invariant.                 *)
LEMMA KeptPayment ==
  ASSUME QueueTypes, QueueTypes', RowTypes, NEW p \in Payments, PaymentIInv(p), SameHistory,
         Aside(p), torn'[p] = torn[p], HandlingKept(p), ProcessedKept(p)
  PROVE  PaymentIInv(p)'
  <1>0. History(p) /\ Handling(p) /\ Rows(p) /\ FinishedIsRecorded(p) /\ RefundIsRecorded(p)
    BY DEF PaymentIInv
  <1>1. provider'[p] = provider[p] /\ sent' = sent
    BY DEF SameHistory
  <1>2. /\ checkout'[p] = checkout[p] /\ charge'[p] = charge[p]
        /\ sub'[p] = None <=> sub[p] = None
        /\ Is(p, "active")' => sub'[p] = sub[p] /\ Is(p, "active")
    BY WeakerRow DEF Aside, Is, RowTypes
  <1>3. History(p)' /\ Handling(p)'
    BY <1>0, ClockKept, HandlingKeptLemma
  <1>4. Rows(p)'
    BY <1>0, <1>1, <1>2 DEF Rows
  <1>5. FinishedIsRecorded(p)'
    BY <1>0, <1>1, <1>2 DEF FinishedIsRecorded, ProcessedKept
  <1>6. RefundIsRecorded(p)'
    BY <1>0, <1>1, <1>2 DEF RefundIsRecorded, ProcessedKept, HandlingKept
  <1> QED
    BY <1>3, <1>4, <1>5, <1>6 DEF PaymentIInv

(* A report is used that was sent, is at least as far as its event, and    *)
(* does not contradict the checkout unless the provider was asked.         *)
ReportOf(e, report) ==
  /\ EventOf(e.of, report) \in sent
  /\ Rank[e.status] <= Rank[report.status]
  /\ (report.at = e.at /\ report.status = e.status /\ ~Contradicts(e)) \/ answer[e.of] = report

(* The event has been handled, recorded or not, and its key released.      *)
Released(e) ==
  /\ latest'[e.of] \in {latest[e.of], None} /\ answer'[e.of] = None
  /\ processed' \subseteq processed \cup {e}

(* A report is outdated only if the payment was observed to be further.    *)
LEMMA CurrentReport ==
  ASSUME QueueTypes, HandlingTypes, RowTypes, NEW p \in Payments, PaymentIInv(p), NEW report \in Reports,
         report.at = provider[p].at
  PROVE  ~Outdated(p, report)
  <1>1. provider[p].at \in Nat /\ (checkout[p].at # None => checkout[p].at \in Nat)
    BY BoundTypes DEF QueueTypes, RowTypes, Reports, Checkouts
  <1>2. checkout[p].at # None => checkout[p].at <= provider[p].at
    <2> SUFFICES ASSUME checkout[p].at # None PROVE checkout[p].at <= provider[p].at
      OBVIOUS
    <2> DEFINE e == EventOf(p, [status |-> checkout[p].provider, at |-> checkout[p].at])
    <2>1. e \in sent /\ e.of = p /\ e.at = checkout[p].at
      BY DEF PaymentIInv, Rows, EventOf
    <2> QED
      BY <2>1, SentIsPast DEF PaymentIInv
  <1>3. latest[p] # None => latest[p] <= provider[p].at
    BY DEF PaymentIInv, Handling
  <1>4. report.at \in Nat
    BY <1>1
  <1> SUFFICES ASSUME Outdated(p, report) PROVE FALSE
    OBVIOUS
  <1>5. latest[p] \in Nat \cup {None}
    BY BoundTypes DEF HandlingTypes
  <1> QED
    BY <1>1, <1>2, <1>3, <1>5 DEF Outdated

(* What the status of a report says of a payment in which nothing is       *)
(* newer.                                                                  *)
LEMMA ReportStatus ==
  ASSUME QueueTypes, NEW p \in Payments, PaymentIInv(p), NEW report \in Reports,
         EventOf(p, report) \in sent
  PROVE  /\ report.at <= provider[p].at
         /\ report.status = provider[p].status => report.at = provider[p].at
         /\ report.status \in {"finished", "refunded"} => provider[p].status \in {"finished", "refunded"}
         /\ report.status = "refunded" => provider[p].status = "refunded"
         /\ Rank[report.status] <= Rank[provider[p].status]
  <1> DEFINE f == EventOf(p, report)
  <1>1. f.of = p /\ f.status = report.status /\ f.at = report.at /\ report.status \in Statuses
    BY ReportEvent
  <1>2. /\ f.at <= provider[p].at /\ Rank[f.status] <= Rank[provider[p].status]
        /\ f.status = provider[p].status => f = EventOf(p, provider[p])
    BY <1>1, SentIsPast DEF PaymentIInv
  <1>3. provider[p] \in Reports
    BY DEF QueueTypes
  <1>4. /\ provider[p].status \in {"pending", "failed", "finished", "refunded"}
        /\ EventOf(p, provider[p]).at = provider[p].at
    BY <1>3, ReportEvent DEF Statuses
  <1>5. /\ report.at <= provider[p].at /\ Rank[report.status] <= Rank[provider[p].status]
        /\ report.status = provider[p].status => report.at = provider[p].at
    BY <1>1, <1>2, <1>4
  <1>6. /\ report.status \in {"finished", "refunded"} => provider[p].status \in {"finished", "refunded"}
        /\ report.status = "refunded" => provider[p].status = "refunded"
    BY <1>4, <1>5, RankTypes
  <1> QED
    BY <1>5, <1>6

(* Once a refund is processed, only reports of refunds are not outdated.   *)
LEMMA RefundIsLast ==
  ASSUME QueueTypes, RowTypes, NEW e \in sent, NEW p \in Payments, e.of = p, PaymentIInv(p),
         NEW report \in Reports, ReportOf(e, report), ~Outdated(p, report),
         provider[p].status = "refunded", EventOf(p, provider[p]) \in processed
  PROVE  report.status = "refunded"
  <1>1. /\ checkout[p].at = provider[p].at /\ checkout[p].provider = "refunded"
        /\ answer[p] # None => answer[p].status = "refunded"
    BY DEF PaymentIInv, RefundIsRecorded
  <1>2. report.at <= provider[p].at /\ report.at \in Nat /\ provider[p].at \in Nat
    BY ReportStatus, ReportEvent, BoundTypes DEF ReportOf, QueueTypes
  <1>3. report.at = provider[p].at
    <2>1. ~(checkout[p].at # None /\ report.at < checkout[p].at)
      BY DEF Outdated
    <2>2. provider[p].at # None
      BY NoneIsNothing, ReportEvent DEF QueueTypes
    <2> QED
      BY <1>1, <1>2, <2>1, <2>2
  <1>4. CASE report.at = e.at /\ report.status = e.status /\ ~Contradicts(e)
    BY <1>1, <1>3, <1>4 DEF Contradicts
  <1>5. CASE answer[p] = report
    BY <1>1, <1>5, NoneIsNothing
  <1> QED
    BY <1>4, <1>5 DEF ReportOf

(* A finished payment that is still that is recorded by its event.         *)
LEMMA FinishedRecorded ==
  ASSUME QueueTypes, HandlingTypes, RowTypes, NEW e \in sent, NEW p \in Payments, e.of = p,
         PaymentIInv(p), NEW report \in Reports, ReportOf(e, report), Effect(p, report),
         provider[p].status = "finished", e = EventOf(p, provider[p])
  PROVE  checkout'[p].status = "completed" \/ sub'[p] # None
  <1>1. e.status = "finished"
    BY ReportEvent DEF QueueTypes
  <1>2. /\ report.at <= provider[p].at /\ Rank[report.status] <= 2 /\ 2 <= Rank[report.status]
        /\ report.status = provider[p].status => report.at = provider[p].at
    BY <1>1, ReportStatus, RankTypes DEF ReportOf
  <1>3. report.status = "finished"
    BY <1>2, RankTypes, ReportEvent DEF Statuses
  <1>4. ~Outdated(p, report)
    BY <1>2, <1>3, CurrentReport
  <1>5. CASE Stays(p, report)
    BY <1>3, <1>4, <1>5 DEF Stays, Known
  <1>6. CASE Completes(p, report)
    BY <1>6 DEF Completes
  <1> QED
    BY <1>3, <1>5, <1>6 DEF Effect, Revokes, Closes

(* A refund ends the access of a row that is not newer.                    *)
LEMMA RevokedRow ==
  ASSUME NEW row \in Subs, NEW at \in Times, row.status = "active" => row.at <= at
  PROVE  RevokedSub(row, at).status # "active"
  <1> DEFINE new == [row EXCEPT !.status = "revoked", !.due = None, !.grace = None, !.at = at]
  <1>1. new.status = "revoked" /\ new.at = at
    BY DEF Subs
  <1>2. row.at \in Nat /\ at \in Nat /\ row # None
    BY RowTimes, BoundTypes
  <1> QED
    BY <1>1, <1>2 DEF RevokedSub, Upserted

(* The rows of a payment after one of its reports was applied.             *)
LEMMA AppliedRows ==
  ASSUME QueueTypes, RowTypes, NEW e \in sent, NEW p \in Payments, e.of = p,
         PaymentIInv(p), NEW report \in Reports, ReportOf(e, report), Effect(p, report),
         SameHistory, torn' = torn
  PROVE  Rows(p)'
  <1>0. Rows(p) /\ EventOf(p, report) \in sent /\ sub[p] \in Subs \cup {None}
    BY DEF PaymentIInv, ReportOf, RowTypes
  <1>1. provider'[p] = provider[p] /\ sent' = sent
    BY DEF SameHistory
  <1>2. /\ report.at <= provider[p].at
        /\ report.status \in {"finished", "refunded"} => Rank[provider[p].status] >= 2
        /\ report.status = "refunded" => provider[p].status = "refunded"
    BY <1>0, ReportStatus, RankTypes
  <1>3. EventOf(p, [status |-> report.status, at |-> report.at]) = EventOf(p, report)
    BY DEF EventOf
  <1>4. CASE Stays(p, report)
    BY <1>0, <1>1, <1>4 DEF Stays, Rows, Is
  <1>5. CASE Completes(p, report)
    <2>1. sub'[p] # None
      BY <1>5, NoneIsNothing DEF Completes
    <2>2. Is(p, "active")' => sub'[p].at <= provider[p].at
      BY <1>2, <1>5 DEF Completes
    <2>3. charge'[p] = "refunded" => provider[p].status = "refunded"
      BY <1>0, <1>5 DEF Completes, Rows
    <2>4. provider[p].status = "finished" => charge'[p] = "succeeded"
      BY <1>0, <1>5 DEF Completes, Rows
    <2>5. checkout'[p] = [status |-> "completed", at |-> report.at, provider |-> report.status]
          /\ Rank[provider[p].status] >= 2
      BY <1>2, <1>5 DEF Completes
    <2> QED
      BY <1>0, <1>1, <1>3, <2>1, <2>2, <2>3, <2>4, <2>5 DEF Rows
  <1>6. CASE Revokes(p, report)
    <2>1. sub'[p] = None <=> sub[p] = None
      BY <1>0, <1>6, RevokedIsWeaker, NoneIsNothing, ReportEvent DEF Revokes
    <2>2. Is(p, "active")' => sub'[p] = sub[p] /\ Is(p, "active")
      BY <1>0, <1>6, RevokedIsWeaker, WeakerRow, ReportEvent DEF Revokes, Is
    <2>3. checkout'[p] = [status |-> "completed", at |-> report.at, provider |-> report.status]
          /\ provider[p].status = "refunded" /\ checkout[p].status = "completed"
      BY <1>2, <1>6 DEF Revokes
    <2> QED
      BY <1>0, <1>1, <1>3, <2>1, <2>2, <2>3 DEF Rows
  <1>7. CASE Closes(p, report)
    <2>1. PICK status \in {"pending", "cancelled"} :
            checkout'[p] = [status |-> status, at |-> report.at, provider |-> report.status]
      BY <1>7 DEF Closes
    <2>2. sub'[p] = sub[p] /\ charge'[p] = charge[p] /\ checkout[p].status # "completed"
      BY <1>7 DEF Closes
    <2>3. checkout'[p].status # "completed" /\ (sub[p] # None => torn'[p] = "checkout")
      BY <1>0, <2>1, <2>2 DEF Rows
    <2> QED
      BY <1>0, <1>1, <1>3, <2>1, <2>2, <2>3 DEF Rows, Is
  <1> QED
    BY <1>4, <1>5, <1>6, <1>7 DEF Effect

(* Every report but one that stays as it is leaves a refund recorded.      *)
LEMMA RefundRecorded ==
  ASSUME QueueTypes, RowTypes, NEW p \in Payments, PaymentIInv(p), NEW report \in Reports,
         EventOf(p, report) \in sent, report.status = "refunded", Effect(p, report), ~Outdated(p, report)
  PROVE  /\ checkout'[p].at = provider[p].at /\ checkout'[p].provider = "refunded"
         /\ Is(p, "active")' => checkout'[p].status # "completed"
  <1>1. report.at = provider[p].at /\ report.at \in Times
    BY ReportStatus, ReportEvent
  <1>2. CASE Revokes(p, report)
    <2>1. sub[p] \in Subs \cup {None} /\ (Is(p, "active") => sub[p].at <= report.at)
      BY <1>1 DEF RowTypes, PaymentIInv, Rows
    <2>2. ~Is(p, "active")'
      BY <1>1, <1>2, <2>1, RevokedRow, NoneIsNothing DEF Revokes, Is
    <2> QED
      BY <1>1, <1>2, <2>2 DEF Revokes
  <1>3. CASE Closes(p, report)
    BY <1>1, <1>3 DEF Closes
  <1> QED
    BY <1>2, <1>3 DEF Effect, Stays, Completes

(* A payment keeps its invariant when one of its events is handled.        *)
LEMMA AppliedPayment ==
  ASSUME QueueTypes, QueueTypes', HandlingTypes, RowTypes, NEW e \in sent, NEW p \in Payments, e.of = p,
         PaymentIInv(p), NEW report \in Reports, ReportOf(e, report), Effect(p, report),
         Released(e), SameHistory, torn' = torn
  PROVE  PaymentIInv(p)'
  <1>0. History(p) /\ Handling(p) /\ FinishedIsRecorded(p) /\ RefundIsRecorded(p)
    BY DEF PaymentIInv
  <1>1. /\ provider'[p] = provider[p] /\ sent' = sent /\ processed' \subseteq processed \cup {e}
        /\ answer'[p] = None /\ EventOf(p, report) \in sent
    BY DEF SameHistory, Released, ReportOf
  <1>2. HandlingKept(p)
    BY DEF Released, HandlingKept
  <1>3. History(p)' /\ Handling(p)' /\ Rows(p)'
    BY <1>0, <1>2, ClockKept, HandlingKeptLemma, AppliedRows
  <1>4. FinishedIsRecorded(p)'
    <2> SUFFICES ASSUME provider[p].status = "finished", EventOf(p, provider[p]) \in processed'
                 PROVE  checkout'[p].status = "completed" \/ sub'[p] # None
      BY <1>1 DEF FinishedIsRecorded
    <2>1. CASE e = EventOf(p, provider[p])
      BY <2>1, FinishedRecorded
    <2>2. CASE e # EventOf(p, provider[p])
      <3>1. checkout[p].status = "completed" \/ sub[p] # None
        BY <1>0, <1>1, <2>2 DEF FinishedIsRecorded
      <3>2. CASE Completes(p, report) \/ Revokes(p, report)
        BY <3>2 DEF Completes, Revokes
      <3>3. CASE Stays(p, report) \/ Closes(p, report)
        BY <3>1, <3>3 DEF Stays, Closes
      <3> QED
        BY <3>2, <3>3 DEF Effect
    <2> QED
      BY <2>1, <2>2
  <1>5. RefundIsRecorded(p)'
    <2> SUFFICES ASSUME provider[p].status = "refunded", EventOf(p, provider[p]) \in processed'
                 PROVE  /\ checkout'[p].at = provider[p].at /\ checkout'[p].provider = "refunded"
                        /\ Is(p, "active")' => checkout'[p].status # "completed"
      BY <1>1 DEF RefundIsRecorded
    <2>1. CASE e = EventOf(p, provider[p])
      <3>1. e.status = "refunded"
        BY <2>1, ReportEvent DEF QueueTypes
      <3>2. Rank[report.status] = 3
        BY <3>1, ReportStatus, ReportEvent, RankTypes DEF ReportOf
      <3>3. report.status = "refunded" /\ report.at = provider[p].at
        BY <1>1, <3>2, ReportStatus, ReportEvent, RankTypes DEF Statuses
      <3>4. ~Outdated(p, report)
        BY <3>3, CurrentReport
      <3> QED
        BY <1>1, <3>3, <3>4, RefundRecorded
    <2>2. CASE EventOf(p, provider[p]) \in processed /\ ~Outdated(p, report)
      BY <1>1, <2>2, RefundIsLast, RefundRecorded
    <2>3. CASE EventOf(p, provider[p]) \in processed /\ Outdated(p, report)
      <3>1. checkout'[p] = checkout[p] /\ sub'[p] = sub[p]
        BY <2>3 DEF Effect, Stays, Completes, Revokes, Closes
      <3> QED
        BY <1>0, <2>3, <3>1 DEF RefundIsRecorded, Is
    <2> QED
      BY <1>1, <2>1, <2>2, <2>3
  <1> QED
    BY <1>3, <1>4, <1>5 DEF PaymentIInv

(***************************************************************************)
(* Every step keeps the invariant.                                         *)
(***************************************************************************)

IInv == Types /\ Settled /\ \A p \in Payments : PaymentIInv(p)

NoRowIsLost == \A p \in Payments : sub[p] # None => sub'[p] # None

(* The poller is not affected when no row is lost.                         *)
LEMMA PollKept ==
  ASSUME PollOK, NoRowIsLost, poll' = poll, sent \subseteq sent'
  PROVE  PollOK'
  BY DEF PollOK, PollerOK, NoRowIsLost

(* Nor when one poller goes on.                                            *)
LEMMA OnePoller ==
  ASSUME PollOK, NoRowIsLost, sent \subseteq sent', NEW i \in Pollers, NEW r \in PollRecords,
         \A j \in Pollers : poll'[j] = IF j = i THEN r ELSE poll[j],
         poll' = [j \in Pollers |-> poll'[j]],
         r.heard \in sent' \cup {None},
         r.step = "subscriptions" =>
           /\ r.seen \in [Payments -> Subs \cup {None}]
           /\ \A p \in Payments : r.seen[p] # None => sub'[p] # None
  PROVE  PollOK'
  <1>1. poll' \in [Pollers -> PollRecords]
    BY DEF PollOK
  <1>2. ASSUME NEW j \in Pollers PROVE PollerOK(j)'
    BY DEF PollOK, PollerOK, NoRowIsLost
  <1> QED
    BY <1>1, <1>2 DEF PollOK

(* A payment that is left aside loses no row.                              *)
LEMMA AsideKeepsRows ==
  ASSUME RowTypes, \A p \in Payments : Aside(p)
  PROVE  NoRowIsLost
  BY WeakerRow DEF RowTypes, Aside, NoRowIsLost

(* A step that leaves all payments aside.                                  *)
LEMMA KeptAll ==
  ASSUME IInv, Types', SameHistory, sent \subseteq todo' \cup processed',
         \A p \in Payments : Aside(p) /\ HandlingKept(p) /\ ProcessedKept(p), torn' = torn
  PROVE  IInv'
  <1>1. Settled'
    BY DEF Settled, SameHistory
  <1>2. ASSUME NEW p \in Payments PROVE PaymentIInv(p)'
    <2>1. QueueTypes /\ QueueTypes' /\ RowTypes /\ PaymentIInv(p)
      BY DEF IInv, Types
    <2> QED
      BY <2>1, KeptPayment
  <1> QED
    BY <1>1, <1>2 DEF IInv

(* A step that handles an event.                                           *)
LEMMA AppliedAll ==
  ASSUME IInv, NEW e \in waiting, NEW report \in Reports, Apply(e, report), ReportOf(e, report),
         UNCHANGED <<clock, provider, sent, poll, failures, crashes, torn>>
  PROVE  IInv'
  <1>0. QueueTypes /\ HandlingTypes /\ RowTypes /\ PollOK /\ CounterTypes /\ Settled
    BY DEF IInv, Types
  <1>1. e \in sent /\ e \in Events /\ e.of \in Payments
    BY <1>0, EventTypes DEF QueueTypes
  <1>2. /\ Settle(e) /\ RowTypes' /\ Effect(e.of, report)
        /\ \A q \in Payments \ {e.of} : Aside(q)
    BY <1>0, <1>1, ApplyEffect
  <1>3. /\ todo' = todo \ {e} /\ processed' = processed \cup {e} /\ ReleaseObservation(e)
    BY <1>2 DEF Settle
  <1>4. /\ HandlingTypes' /\ waiting' \subseteq sent
        /\ \A q \in Payments : latest'[q] \in {latest[q], None}
        /\ running'[e.of] = None /\ answer'[e.of] = None
        /\ \A q \in Payments \ {e.of} : running'[q] = running[q] /\ answer'[q] = answer[q]
    BY <1>0, <1>3, ReleaseTypes
  <1>5. QueueTypes' /\ CounterTypes' /\ SameHistory
    BY <1>0, <1>1, <1>3, <1>4, BoundTypes DEF QueueTypes, CounterTypes, SameHistory
  <1>6. Released(e)
    BY <1>1, <1>3, <1>4 DEF Released
  <1>7. ASSUME NEW q \in Payments PROVE PaymentIInv(q)'
    <2>1. PaymentIInv(q)
      BY DEF IInv
    <2>2. CASE q = e.of
      BY <1>0, <1>1, <1>2, <1>5, <1>6, <2>1, <2>2, AppliedPayment
    <2>3. CASE q # e.of
      <3>1. Aside(q)
        BY <1>2, <2>3
      <3>2. HandlingKept(q)
        BY <1>4, <2>3 DEF HandlingKept
      <3>3. EventOf(q, provider[q]) # e
        BY <2>3 DEF EventOf
      <3>4. ProcessedKept(q)
        BY <1>3, <3>3 DEF ProcessedKept
      <3> QED
        BY <1>0, <1>5, <2>1, <3>1, <3>2, <3>4, KeptPayment
    <2> QED
      BY <2>2, <2>3
  <1>8. Settled'
    BY <1>0, <1>3 DEF Settled
  <1>9. NoRowIsLost
    <2> SUFFICES ASSUME NEW q \in Payments, sub[q] # None PROVE sub'[q] # None
      BY DEF NoRowIsLost
    <2>1. CASE q # e.of
      BY <1>0, <1>2, <2>1, WeakerRow DEF Aside, RowTypes
    <2>2. CASE q = e.of
      <3>1. sub[q] \in Subs /\ report.at \in Times
        BY <1>0, ReportEvent DEF RowTypes
      <3>2. RevokedSub(sub[q], report.at) # None
        BY <3>1, RevokedIsWeaker, NoneIsNothing
      <3> QED
        BY <1>2, <2>2, <3>2, NoneIsNothing DEF Effect, Stays, Completes, Revokes, Closes
    <2> QED
      BY <2>1, <2>2
  <1>10. PollOK'
    BY <1>0, <1>9, PollKept
  <1> QED
    BY <1>2, <1>4, <1>5, <1>7, <1>8, <1>10 DEF IInv, Types

(* The initial state satisfies the invariant.                              *)
LEMMA InitIInv == Init => IInv
  <1> SUFFICES ASSUME Init PROVE IInv
    OBVIOUS
  <1> DEFINE first == [status |-> "pending", at |-> 0]
  <1>1. first \in Reports /\ 0 \in Times
    BY BoundsAssumption DEF Reports, Statuses, Times
  <1>2. provider = [p \in Payments |-> first] /\ sent = {EventOf(p, provider[p]) : p \in Payments}
    BY DEF Init
  <1>3. /\ \A p \in Payments : EventOf(p, provider[p]) \in sent
        /\ \A e \in sent : e \in Events /\ e.of \in Payments /\ e = EventOf(e.of, provider[e.of])
    BY <1>1, <1>2, ReportEvent
  <1>4. QueueTypes
    BY <1>1, <1>2, <1>3 DEF Init, QueueTypes
  <1>5. HandlingTypes
    BY DEF Init, HandlingTypes
  <1>6. RowTypes
    BY DEF Init, RowTypes, Checkouts
  <1>7. PollOK
    BY <1>1 DEF Init, PollOK, PollerOK, PollRecords, IdlePoll
  <1>8. CounterTypes /\ Settled
    BY BoundsAssumption DEF Init, CounterTypes, Settled
  <1>9. ASSUME NEW p \in Payments PROVE PaymentIInv(p)
    <2>1. provider[p].at = 0 /\ provider[p].status = "pending" /\ clock = 0
      BY <1>2 DEF Init
    <2>2. History(p)
      BY <1>3, <2>1 DEF History
    <2>3. Handling(p)
      BY DEF Init, Handling
    <2>4. Rows(p)
      BY DEF Init, Rows, Is
    <2>5. FinishedIsRecorded(p) /\ RefundIsRecorded(p)
      BY DEF Init, FinishedIsRecorded, RefundIsRecorded
    <2> QED
      BY <2>2, <2>3, <2>4, <2>5 DEF PaymentIInv
  <1> QED
    BY <1>4, <1>5, <1>6, <1>7, <1>8, <1>9 DEF IInv, Types

(* Nothing a payment is judged by changes.                                 *)
LEMMA UnchangedIsAside ==
  ASSUME NEW p \in Payments, UNCHANGED <<checkout, sub, charge>>
  PROVE  Aside(p)
  BY DEF Aside, Weaker

(* The clock.                                                              *)
LEMMA TickIInv == IInv /\ Tick => IInv'
  <1> SUFFICES ASSUME IInv, Tick PROVE IInv'
    OBVIOUS
  <1>1. /\ clock < MaxTime /\ clock' = clock + 1
        /\ UNCHANGED <<provider, sent, todo, waiting, latest, running, answer>>
        /\ UNCHANGED <<processed, checkout, sub, charge, poll, failures, crashes, torn>>
    BY DEF Tick, atProvider, handling, rows, faults
  <1>2. clock \in Nat /\ clock' \in Times /\ clock <= clock'
    BY <1>1, BoundTypes DEF IInv, Types, QueueTypes, Times
  <1>3. QueueTypes' /\ SameHistory
    BY <1>1, <1>2 DEF IInv, Types, QueueTypes, SameHistory
  <1>4. HandlingTypes' /\ RowTypes' /\ PollOK' /\ CounterTypes'
    BY <1>1 DEF IInv, Types, HandlingTypes, RowTypes, PollOK, PollerOK, CounterTypes
  <1>5. \A p \in Payments : Aside(p) /\ HandlingKept(p) /\ ProcessedKept(p)
    BY <1>1, UnchangedIsAside DEF HandlingKept, ProcessedKept
  <1>6. sent \subseteq todo' \cup processed'
    BY <1>1 DEF IInv, Settled
  <1> QED
    BY <1>1, <1>3, <1>4, <1>5, <1>6, KeptAll DEF Types

(* The status that follows is further.                                     *)
LEMMA FollowsRank ==
  ASSUME NEW old \in Statuses, NEW status \in Follows[old]
  PROVE  /\ status \in Statuses /\ Rank[old] < Rank[status]
         /\ Rank[old] >= 2 => status = "refunded"
         /\ status = "refunded" => old = "finished"
  BY RankTypes DEF Follows, Statuses

(* The provider changes a payment: its new event is the newest.            *)
LEMMA ProviderChangesIInv ==
  ASSUME IInv, NEW p \in Payments, ProviderChanges(p)
  PROVE  IInv'
  <1>0. QueueTypes /\ HandlingTypes /\ RowTypes /\ PollOK /\ CounterTypes /\ Settled
    BY DEF IInv, Types
  <1>1. PICK status \in Follows[provider[p].status] :
          LET report == [status |-> status, at |-> clock] IN
          /\ provider' = [provider EXCEPT ![p] = report]
          /\ sent' = sent \cup {EventOf(p, report)}
          /\ todo' = todo \cup {EventOf(p, report)}
          /\ UNCHANGED <<clock, waiting, latest, running, answer>>
          /\ UNCHANGED <<processed, checkout, sub, charge, poll, failures, crashes, torn>>
    BY DEF ProviderChanges, handling, rows, faults
  <1> DEFINE report == [status |-> status, at |-> clock]
             new == EventOf(p, report)
  <1>2. provider[p] \in Reports /\ provider[p].status \in Statuses /\ provider[p].at \in Nat /\ clock \in Nat
    BY <1>0, ReportEvent, BoundTypes DEF QueueTypes
  <1>3. /\ status \in Statuses /\ Rank[provider[p].status] < Rank[status]
        /\ Rank[provider[p].status] >= 2 => status = "refunded"
        /\ status = "refunded" => provider[p].status = "finished"
    BY <1>2, FollowsRank
  <1>4. report \in Reports /\ report.status = status /\ report.at = clock
    BY <1>0, <1>3 DEF Reports, QueueTypes
  <1>5. new \in Events /\ new.of = p /\ new.status = status /\ new.at = clock
    BY <1>4, ReportEvent
  <1>6. /\ provider' = [provider EXCEPT ![p] = report]
        /\ sent' = sent \cup {new} /\ todo' = todo \cup {new}
        /\ UNCHANGED <<clock, waiting, latest, running, answer>>
        /\ UNCHANGED <<processed, checkout, sub, charge, poll, failures, crashes, torn>>
    BY <1>1
  <1> HIDE DEF report, new
  <1>7. provider'[p] = report /\ (\A q \in Payments \ {p} : provider'[q] = provider[q])
    BY <1>0, <1>6 DEF QueueTypes
  <1>8. QueueTypes'
    BY <1>0, <1>4, <1>5, <1>6 DEF QueueTypes
  <1>9. HandlingTypes' /\ RowTypes' /\ PollOK' /\ CounterTypes' /\ Settled'
    BY <1>0, <1>6 DEF HandlingTypes, RowTypes, PollOK, PollerOK, CounterTypes, Settled
  <1>10. ASSUME NEW q \in Payments, q # p PROVE PaymentIInv(q)'
    <2>1. PaymentIInv(q) /\ provider'[q] = provider[q]
      BY <1>7, <1>10 DEF IInv
    <2>2. History(q)'
      BY <1>5, <1>6, <1>10, <2>1 DEF PaymentIInv, History
    <2>3. Handling(q)' /\ Rows(q)'
      BY <1>6, <2>1 DEF PaymentIInv, Handling, Rows, Is
    <2>4. FinishedIsRecorded(q)' /\ RefundIsRecorded(q)'
      BY <1>6, <2>1 DEF PaymentIInv, FinishedIsRecorded, RefundIsRecorded, Is
    <2> QED
      BY <2>2, <2>3, <2>4 DEF PaymentIInv
  <1>11. PaymentIInv(p)'
    <2>0. PaymentIInv(p) /\ History(p) /\ Handling(p) /\ Rows(p)
      BY DEF IInv, PaymentIInv
    <2>1. EventOf(p, provider[p]) \in sent /\ provider[p].at <= clock
      BY <2>0 DEF History
    <2>2. ASSUME NEW e \in sent, e.of = p
          PROVE  e.at <= clock /\ Rank[e.status] < Rank[status]
      <3>1. /\ e.at <= provider[p].at /\ e.at \in Nat
            /\ Rank[e.status] <= Rank[provider[p].status]
        BY <1>0, <2>0, <2>2, SentIsPast
      <3>2. Rank[e.status] \in Nat /\ Rank[provider[p].status] \in Nat /\ Rank[status] \in Nat
        BY <1>0, <1>2, <1>3, EventTypes, RankTypes DEF QueueTypes
      <3> QED
        BY <1>2, <1>3, <2>1, <3>1, <3>2
    <2>3. History(p)'
      <3>1. provider'[p].at = clock /\ provider'[p].status = status /\ EventOf(p, provider'[p]) = new
        BY <1>4, <1>7 DEF new
      <3>2. \A e \in sent' : e.of = p => e = new \/ (e.at <= clock /\ Rank[e.status] < Rank[status])
        BY <1>6, <2>2
      <3> QED
        BY <1>2, <1>6, <3>1, <3>2 DEF History
    <2>4. Handling(p)'
      <3>1. latest[p] # None => latest[p] <= clock
        <4>1. latest[p] # None => latest[p] \in Nat /\ latest[p] <= provider[p].at
          <5>1. latest[p] \in Times \cup {None}
            BY <1>0 DEF HandlingTypes
          <5> QED
            BY <2>0, <5>1, BoundTypes DEF Handling
        <4> QED
          BY <1>2, <2>1, <4>1
      <3> QED
        BY <1>4, <1>6, <1>7, <2>0, <3>1 DEF Handling
    <2>5. Rank[provider[p].status] \in Nat /\ Rank[status] \in Nat
      BY <1>2, <1>3, RankTypes
    <2>6. Rows(p)'
      <3>1. sub[p] # None \/ checkout[p].status = "completed" => Rank[status] >= 2 /\ status = "refunded"
        BY <1>3, <2>0, <2>5 DEF Rows
      <3>2. charge[p] = "refunded" => status = "refunded"
        BY <1>3, <2>0, RankTypes DEF Rows
      <3>3. Is(p, "active") => sub[p].at <= clock
        <4>1. sub[p] # None => sub[p].at \in Nat
          BY <1>0, RowTimes DEF RowTypes
        <4>2. Is(p, "active") => sub[p] # None /\ sub[p].at <= provider[p].at
          BY <2>0 DEF Rows, Is
        <4> QED
          BY <1>2, <2>1, <4>1, <4>2
      <3>4. provider'[p].at = clock /\ provider'[p].status = status
        BY <1>4, <1>7
      <3>5. checkout[p].at # None =>
              EventOf(p, [status |-> checkout[p].provider, at |-> checkout[p].at]) \in sent'
        BY <1>6, <2>0 DEF Rows
      <3>6. sub[p] # None => checkout[p].status = "completed" \/ torn[p] = "checkout"
        BY <2>0 DEF Rows
      <3> QED
        BY <1>6, <3>1, <3>2, <3>3, <3>4, <3>5, <3>6 DEF Rows, Is
    <2>7. new \notin processed'
      BY <1>0, <1>5, <1>6, <2>2, <2>5 DEF QueueTypes
    <2>8. EventOf(p, provider'[p]) = new
      BY <1>7 DEF new
    <2>9. FinishedIsRecorded(p)' /\ RefundIsRecorded(p)'
      BY <2>7, <2>8 DEF FinishedIsRecorded, RefundIsRecorded
    <2> QED
      BY <2>3, <2>4, <2>6, <2>9 DEF PaymentIInv
  <1> QED
    BY <1>8, <1>9, <1>10, <1>11 DEF IInv, Types

(* The provider answers with the status it has.                            *)
LEMMA GetPaymentStatusIInv ==
  ASSUME IInv, NEW p \in Payments, GetPaymentStatus(p)
  PROVE  IInv'
  <1>0. QueueTypes /\ HandlingTypes /\ RowTypes /\ PollOK /\ CounterTypes /\ Settled
    BY DEF IInv, Types
  <1>1. /\ running[p] # None /\ answer[p] = None
        /\ answer' = [answer EXCEPT ![p] = provider[p]]
        /\ UNCHANGED <<clock, provider, sent, todo, waiting, latest, running>>
        /\ UNCHANGED <<processed, checkout, sub, charge, poll, failures, crashes, torn>>
    BY DEF GetPaymentStatus, atProvider, rows, faults
  <1>2. provider[p] \in Reports
    BY <1>0 DEF QueueTypes
  <1>3. /\ answer'[p] = provider[p] /\ (\A q \in Payments \ {p} : answer'[q] = answer[q])
        /\ answer' \in [Payments -> Reports \cup {None}]
    BY <1>0, <1>1, <1>2 DEF HandlingTypes
  <1>4. HandlingTypes'
    BY <1>0, <1>1, <1>3 DEF HandlingTypes
  <1>5. QueueTypes' /\ RowTypes' /\ PollOK' /\ CounterTypes' /\ Settled'
    BY <1>0, <1>1 DEF QueueTypes, RowTypes, PollOK, PollerOK, CounterTypes, Settled
  <1>6. ASSUME NEW q \in Payments PROVE PaymentIInv(q)'
    <2>0. PaymentIInv(q)
      BY DEF IInv
    <2>1. History(q)' /\ Rows(q)' /\ FinishedIsRecorded(q)'
      BY <1>1, <2>0 DEF PaymentIInv, History, Rows, FinishedIsRecorded, Is
    <2>2. CASE q # p
      <3>1. Handling(q)' /\ RefundIsRecorded(q)'
        BY <1>1, <1>3, <2>0, <2>2 DEF PaymentIInv, Handling, RefundIsRecorded, Is
      <3> QED
        BY <2>1, <3>1 DEF PaymentIInv
    <2>3. CASE q = p
      <3>1. running[p] \in sent /\ running[p].of = p
        BY <1>0, <1>1 DEF HandlingTypes, QueueTypes
      <3>2. Rank[running[p].status] <= Rank[provider[p].status] /\ EventOf(p, provider[p]) \in sent
        BY <1>0, <2>0, <2>3, <3>1, SentIsPast DEF PaymentIInv, History
      <3>3. Handling(p)'
        BY <1>1, <1>3, <2>0, <2>3, <3>2 DEF PaymentIInv, Handling
      <3>4. RefundIsRecorded(p)'
        BY <1>1, <1>3, <2>0, <2>3 DEF PaymentIInv, RefundIsRecorded, Is
      <3> QED
        BY <2>1, <2>3, <3>3, <3>4 DEF PaymentIInv
    <2> QED
      BY <2>2, <2>3
  <1> QED
    BY <1>4, <1>5, <1>6 DEF IInv, Types

(* An event that waited for an answer is handled by it.                    *)
LEMMA ResumeIInv ==
  ASSUME IInv, NEW p \in Payments, Resume(p)
  PROVE  IInv'
  <1>1. /\ running[p] # None /\ answer[p] # None /\ Apply(running[p], answer[p])
        /\ UNCHANGED <<clock, provider, sent, poll, failures, crashes, torn>>
    BY DEF Resume, atProvider, faults
  <1>2. running[p] \in waiting /\ running[p].of = p /\ answer[p] \in Reports
    BY <1>1 DEF IInv, Types, HandlingTypes
  <1>3. ReportOf(running[p], answer[p])
    BY <1>1, <1>2 DEF IInv, PaymentIInv, Handling, ReportOf
  <1> QED
    BY <1>1, <1>2, <1>3, AppliedAll

(* An event is released, whatever was done for it.                         *)
LEMMA ReleasedKept ==
  ASSUME IInv, NEW e \in waiting, ReleaseObservation(e)
  PROVE  /\ HandlingTypes' /\ waiting' \subseteq sent
         /\ \A q \in Payments : HandlingKept(q)
  <1>0. QueueTypes /\ HandlingTypes
    BY DEF IInv, Types
  <1>1. /\ HandlingTypes' /\ waiting' \subseteq sent
        /\ \A q \in Payments : latest'[q] \in {latest[q], None}
        /\ running'[e.of] = None /\ answer'[e.of] = None
        /\ \A q \in Payments \ {e.of} : running'[q] = running[q] /\ answer'[q] = answer[q]
    BY <1>0, ReleaseTypes
  <1> QED
    BY <1>1 DEF HandlingKept

(* Before its answer, the event is given up: nothing else changes.         *)
LEMMA LookupFailsIInv ==
  ASSUME IInv, NEW p \in Payments, LookupFails(p)
  PROVE  IInv'
  <1>1. /\ running[p] # None /\ failures < MaxFailures /\ failures' = failures + 1
        /\ ReleaseObservation(running[p])
        /\ UNCHANGED <<clock, provider, sent, todo, processed, checkout, sub, charge, poll, crashes, torn>>
    BY DEF LookupFails, atProvider, rows
  <1>2. running[p] \in waiting
    BY <1>1 DEF IInv, Types, HandlingTypes
  <1>3. HandlingTypes' /\ waiting' \subseteq sent /\ \A q \in Payments : HandlingKept(q)
    BY <1>1, <1>2, ReleasedKept
  <1>4. QueueTypes' /\ RowTypes' /\ PollOK'
    BY <1>1, <1>3 DEF IInv, Types, QueueTypes, RowTypes, PollOK, PollerOK
  <1>5. CounterTypes'
    BY <1>1, BoundTypes DEF IInv, Types, CounterTypes
  <1>6. SameHistory /\ sent \subseteq todo' \cup processed'
    BY <1>1, BoundTypes DEF IInv, Types, QueueTypes, SameHistory, Settled
  <1>7. \A q \in Payments : Aside(q) /\ ProcessedKept(q)
    BY <1>1, UnchangedIsAside DEF ProcessedKept
  <1> QED
    BY <1>1, <1>3, <1>4, <1>5, <1>6, <1>7, KeptAll DEF Types

(* An event is handled directly, unless it contradicts the checkout.       *)
LEMMA BeginIInv ==
  ASSUME IInv, NEW e \in waiting, Begin(e)
  PROVE  IInv'
  <1>0. QueueTypes /\ HandlingTypes /\ RowTypes /\ PollOK /\ CounterTypes /\ Settled
    BY DEF IInv, Types
  <1>1. running[e.of] = None /\ UNCHANGED <<clock, provider, sent, poll, failures, crashes, torn>>
    BY DEF Begin, atProvider, faults
  <1>2. e \in sent /\ e \in Events /\ e.of \in Payments /\ e # None
    BY <1>0, EventTypes DEF QueueTypes
  <1>3. SameHistory
    BY <1>0, <1>1, BoundTypes DEF QueueTypes, SameHistory
  <1>4. CASE e \in processed /\ Ignore(e)
    <2>1. /\ todo' = todo \ {e} /\ processed' = processed \cup {e} /\ ReleaseObservation(e)
          /\ UNCHANGED <<checkout, sub, charge>>
      BY <1>4 DEF Ignore, Settle
    <2>2. HandlingTypes' /\ waiting' \subseteq sent /\ \A q \in Payments : HandlingKept(q)
      BY <2>1, ReleasedKept
    <2>3. processed' = processed
      BY <1>4, <2>1
    <2>4. QueueTypes' /\ RowTypes' /\ PollOK' /\ CounterTypes' /\ sent \subseteq todo' \cup processed'
      BY <1>0, <1>1, <1>4, <2>1, <2>2 DEF QueueTypes, RowTypes, PollOK, PollerOK, CounterTypes, Settled
    <2>5. \A q \in Payments : Aside(q) /\ ProcessedKept(q)
      BY <2>1, <2>3, UnchangedIsAside DEF ProcessedKept
    <2> QED
      BY <1>1, <1>3, <2>2, <2>4, <2>5, KeptAll DEF Types
  <1>5. CASE ~Contradicts(e) /\ Apply(e, e)
    <2> DEFINE report == [status |-> e.status, at |-> e.at]
    <2>1. report \in Reports /\ report.status = e.status /\ report.at = e.at
      BY <1>2, EventTypes DEF Reports
    <2>2. EventOf(e.of, report) = e
      BY <1>2 DEF EventOf, Events
    <2>3. Apply(e, report)
      BY <1>5, <2>1 DEF Apply, Writes, Outdated, Finished, Known, Failed, Refunded, Pending, SaveCheckout
    <2>4. Rank[e.status] \in Nat
      BY <1>2, EventTypes, RankTypes
    <2>5. ReportOf(e, report)
      BY <1>2, <1>5, <2>1, <2>2, <2>4 DEF ReportOf
    <2> QED
      BY <1>1, <2>1, <2>3, <2>5, AppliedAll
  <1>6. CASE /\ running' = [running EXCEPT ![e.of] = e]
             /\ UNCHANGED <<todo, waiting, latest, answer, rows>>
    <2>1. UNCHANGED <<todo, waiting, latest, answer, processed, checkout, sub, charge>>
      BY <1>6 DEF rows
    <2>2. /\ running' \in [Payments -> Events \cup {None}]
          /\ running'[e.of] = e /\ \A q \in Payments \ {e.of} : running'[q] = running[q]
      BY <1>0, <1>2, <1>6 DEF HandlingTypes
    <2>3. HandlingTypes'
      BY <1>0, <2>1, <2>2 DEF HandlingTypes
    <2>4. QueueTypes' /\ RowTypes' /\ PollOK' /\ CounterTypes' /\ sent \subseteq todo' \cup processed'
      BY <1>0, <1>1, <2>1 DEF QueueTypes, RowTypes, PollOK, PollerOK, CounterTypes, Settled
    <2>5. answer[e.of] = None
      BY <1>1, <1>2 DEF IInv, PaymentIInv, Handling
    <2>6. \A q \in Payments : Aside(q) /\ HandlingKept(q) /\ ProcessedKept(q)
      BY <1>1, <2>1, <2>2, <2>5, UnchangedIsAside DEF HandlingKept, ProcessedKept
    <2> QED
      BY <1>1, <1>3, <2>3, <2>4, <2>6, KeptAll DEF Types
  <1> QED
    BY <1>4, <1>5, <1>6 DEF Begin

(* An event is observed: delivered, or made of a status that was polled.   *)
LEMMA ObservedKept ==
  ASSUME IInv, NEW e \in sent, Observe(e)
  PROVE  /\ HandlingTypes' /\ waiting' \subseteq sent
         /\ \A q \in Payments : HandlingKept(q)
  <1>0. QueueTypes /\ HandlingTypes
    BY DEF IInv, Types
  <1>1. /\ HandlingTypes' /\ waiting' \subseteq sent
        /\ \A q \in Payments : latest'[q] = latest[q] \/ (e.of = q /\ latest'[q] = e.at)
        /\ running' = running /\ answer' = answer
    BY <1>0, ObserveTypes
  <1> QED
    BY <1>1 DEF HandlingKept, Observed

(* A step that only observes and polls.                                    *)
LEMMA OnlyObserves ==
  ASSUME IInv, HandlingTypes', waiting' \subseteq sent, \A q \in Payments : HandlingKept(q), PollOK',
         UNCHANGED <<clock, provider, sent, todo, processed, checkout, sub, charge, failures, crashes, torn>>
  PROVE  IInv'
  <1>1. QueueTypes' /\ RowTypes' /\ CounterTypes'
    BY DEF IInv, Types, QueueTypes, RowTypes, CounterTypes
  <1>2. SameHistory /\ sent \subseteq todo' \cup processed'
    BY BoundTypes DEF IInv, Types, QueueTypes, SameHistory, Settled
  <1>3. \A q \in Payments : Aside(q) /\ ProcessedKept(q)
    BY UnchangedIsAside DEF ProcessedKept
  <1> QED
    BY <1>1, <1>2, <1>3, KeptAll DEF Types

(* An event is delivered.                                                  *)
LEMMA DeliverIInv ==
  ASSUME IInv, NEW e \in todo, Deliver(e)
  PROVE  IInv'
  <1>1. /\ Observe(e)
        /\ UNCHANGED <<clock, provider, sent, todo, processed, checkout, sub, charge, failures, crashes, torn>>
        /\ poll' = poll
    BY DEF Deliver, atProvider, rows, faults
  <1>2. e \in sent /\ PollOK
    BY DEF IInv, Types, QueueTypes
  <1>3. PollOK'
    BY <1>1, <1>2 DEF PollOK, PollerOK
  <1>4. HandlingTypes' /\ waiting' \subseteq sent /\ \A q \in Payments : HandlingKept(q)
    BY <1>1, <1>2, ObservedKept
  <1> QED
    BY <1>1, <1>3, <1>4, OnlyObserves

(* What is handled stays as it is.                                         *)
LEMMA HandlingSame ==
  ASSUME IInv, UNCHANGED <<waiting, latest, running, answer>>
  PROVE  /\ HandlingTypes' /\ waiting' \subseteq sent
         /\ \A q \in Payments : HandlingKept(q)
  BY DEF IInv, Types, QueueTypes, HandlingTypes, HandlingKept

(* A step of one poller in which no row changes.                           *)
LEMMA PollerGoesOn ==
  ASSUME IInv, NEW i \in Pollers, NEW r \in PollRecords, poll' = [poll EXCEPT ![i] = r],
         sub' = sub, sent' = sent, r.heard \in sent \cup {None}, r.step # "subscriptions"
  PROVE  PollOK'
  <1>1. PollOK /\ NoRowIsLost
    BY DEF IInv, Types, NoRowIsLost
  <1>2. /\ \A j \in Pollers : poll'[j] = IF j = i THEN r ELSE poll[j]
        /\ poll' = [j \in Pollers |-> poll'[j]]
    BY <1>1 DEF PollOK
  <1> QED
    BY <1>1, <1>2, OnePoller

(* A poller asks the provider for a payment.                               *)
LEMMA PollAsksIInv ==
  ASSUME IInv, NEW i \in Pollers, NEW p \in Payments, PollAsks(i, p)
  PROVE  IInv'
  <1> DEFINE e == EventOf(p, provider[p])
             r == [poll[i] EXCEPT !.left = @ \ {p}, !.heard = e]
  <1>1. /\ poll[i].step = "payments"
        /\ poll' = [poll EXCEPT ![i].left = @ \ {p}, ![i].heard = e]
        /\ UNCHANGED <<waiting, latest, running, answer>>
        /\ UNCHANGED <<clock, provider, sent, todo, processed, checkout, sub, charge, failures, crashes, torn>>
    BY DEF PollAsks, atProvider, handling, rows, faults
  <1>2. e \in sent /\ e \in Events /\ poll \in [Pollers -> PollRecords]
    BY DEF IInv, PaymentIInv, History, Types, QueueTypes, PollOK
  <1>3. r \in PollRecords /\ r.step = "payments" /\ r.heard = e
    BY <1>1, <1>2 DEF PollRecords
  <1>4. poll' = [poll EXCEPT ![i] = r]
    BY <1>1, <1>2
  <1> HIDE DEF r
  <1>5. PollOK'
    BY <1>1, <1>2, <1>3, <1>4, PollerGoesOn
  <1> QED
    BY <1>1, <1>5, HandlingSame, OnlyObserves

(* It gets no answer.                                                      *)
LEMMA PollLookupFailsIInv ==
  ASSUME IInv, NEW i \in Pollers, NEW p \in Payments, PollLookupFails(i, p)
  PROVE  IInv'
  <1> DEFINE r == [poll[i] EXCEPT !.left = @ \ {p}]
  <1>1. /\ poll[i].step = "payments" /\ failures < MaxFailures /\ failures' = failures + 1
        /\ poll' = [poll EXCEPT ![i].left = @ \ {p}]
        /\ UNCHANGED <<waiting, latest, running, answer>>
        /\ UNCHANGED <<clock, provider, sent, todo, processed, checkout, sub, charge, crashes, torn>>
    BY DEF PollLookupFails, atProvider, handling, rows
  <1>2. poll \in [Pollers -> PollRecords] /\ poll[i].heard \in sent \cup {None}
    BY DEF IInv, Types, PollOK, PollerOK
  <1>3. r \in PollRecords /\ r.step = "payments" /\ r.heard \in sent \cup {None}
    BY <1>1, <1>2 DEF PollRecords
  <1>4. poll' = [poll EXCEPT ![i] = r]
    BY <1>1, <1>2
  <1> HIDE DEF r
  <1>5. PollOK'
    BY <1>1, <1>3, <1>4, PollerGoesOn
  <1>6. QueueTypes' /\ RowTypes' /\ CounterTypes'
    BY <1>1, BoundTypes DEF IInv, Types, QueueTypes, RowTypes, CounterTypes
  <1>7. SameHistory /\ sent \subseteq todo' \cup processed'
    BY <1>1, BoundTypes DEF IInv, Types, QueueTypes, SameHistory, Settled
  <1>8. \A q \in Payments : Aside(q) /\ ProcessedKept(q)
    BY <1>1, UnchangedIsAside DEF ProcessedKept
  <1> QED
    BY <1>1, <1>5, <1>6, <1>7, <1>8, HandlingSame, KeptAll DEF Types

(* It observes what it has heard.                                          *)
LEMMA PollHearsIInv ==
  ASSUME IInv, NEW i \in Pollers, PollHears(i)
  PROVE  IInv'
  <1> DEFINE e == poll[i].heard
  <1>1. /\ e # None
        /\ UNCHANGED <<clock, provider, sent, todo, processed, checkout, sub, charge, failures, crashes, torn>>
        /\ UNCHANGED <<waiting, latest, running, answer>> \/ Observe(e)
    BY DEF PollHears, atProvider, handling, rows, faults
  <1>2. PICK r \in {[poll[i] EXCEPT !.heard = None, !.on = e], [poll[i] EXCEPT !.heard = None]} :
          poll' = [poll EXCEPT ![i] = r]
    <2>1. \/ poll' = [poll EXCEPT ![i].heard = None, ![i].on = e]
          \/ poll' = [poll EXCEPT ![i].heard = None]
      BY DEF PollHears
    <2>2. poll \in [Pollers -> PollRecords]
      BY DEF IInv, Types, PollOK
    <2> QED
      BY <2>1, <2>2
  <1>3. /\ e \in sent /\ e \in Events /\ PollOK /\ poll \in [Pollers -> PollRecords]
    BY <1>1 DEF IInv, Types, QueueTypes, PollOK, PollerOK
  <1>4. r \in PollRecords /\ r.heard = None /\ r.step = poll[i].step /\ r.seen = poll[i].seen
    BY <1>2, <1>3 DEF PollRecords
  <1>5. PollOK'
    <2>1. /\ \A j \in Pollers : poll'[j] = IF j = i THEN r ELSE poll[j]
          /\ poll' = [j \in Pollers |-> poll'[j]]
      BY <1>2, <1>3
    <2>2. r.step = "subscriptions" =>
            /\ r.seen \in [Payments -> Subs \cup {None}]
            /\ \A p \in Payments : r.seen[p] # None => sub'[p] # None
      BY <1>1, <1>3, <1>4 DEF PollOK, PollerOK
    <2>3. NoRowIsLost /\ sent' = sent
      BY <1>1 DEF NoRowIsLost
    <2> QED
      BY <1>3, <1>4, <2>1, <2>2, <2>3, OnePoller
  <1>6. HandlingTypes' /\ waiting' \subseteq sent /\ \A q \in Payments : HandlingKept(q)
    BY <1>1, <1>3, ObservedKept, HandlingSame
  <1> QED
    BY <1>1, <1>5, <1>6, OnlyObserves

(* A poller starts.                                                        *)
LEMMA PollStartIInv ==
  ASSUME IInv, NEW i \in Pollers, PollStart(i)
  PROVE  IInv'
  <1> DEFINE left == {p \in Payments : checkout[p].status = "pending" /\ checkout[p].at # None}
             r == [IdlePoll EXCEPT !.step = "payments", !.now = clock, !.left = left]
  <1>1. /\ poll' = [poll EXCEPT ![i] = r]
        /\ UNCHANGED <<waiting, latest, running, answer>>
        /\ UNCHANGED <<clock, provider, sent, todo, processed, checkout, sub, charge, failures, crashes, torn>>
    BY DEF PollStart, atProvider, handling, rows, faults
  <1>2. clock \in Times
    BY DEF IInv, Types, QueueTypes
  <1>3. r \in PollRecords /\ r.step = "payments" /\ r.heard = None
    BY <1>2 DEF PollRecords, IdlePoll
  <1> HIDE DEF r
  <1>4. PollOK'
    BY <1>1, <1>3, PollerGoesOn
  <1> QED
    BY <1>1, <1>4, HandlingSame, OnlyObserves

(* A step that writes one row, or none, that is not active.                *)
LEMMA OnlyWeakens ==
  ASSUME IInv, sub' \in [Payments -> Subs \cup {None}], \A q \in Payments : Weaker(sub[q], sub'[q]),
         PollOK', UNCHANGED <<waiting, latest, running, answer>>,
         UNCHANGED <<clock, provider, sent, todo, processed, checkout, charge, failures, crashes, torn>>
  PROVE  IInv'
  <1>1. QueueTypes' /\ RowTypes' /\ CounterTypes'
    BY DEF IInv, Types, QueueTypes, RowTypes, CounterTypes
  <1>2. SameHistory /\ sent \subseteq todo' \cup processed'
    BY BoundTypes DEF IInv, Types, QueueTypes, SameHistory, Settled
  <1>3. \A q \in Payments : Aside(q) /\ ProcessedKept(q)
    BY DEF Aside, ProcessedKept
  <1>4. HandlingTypes' /\ \A q \in Payments : HandlingKept(q)
    BY HandlingSame
  <1> QED
    BY <1>1, <1>2, <1>3, <1>4, KeptAll DEF Types

(* The customer cancels.                                                   *)
LEMMA CustomerCancelsIInv ==
  ASSUME IInv, NEW p \in Payments, CustomerCancels(p)
  PROVE  IInv'
  <1>1. /\ Access(p) /\ sub' = [sub EXCEPT ![p] = CancelledSub(@)] /\ poll' = poll
        /\ UNCHANGED <<waiting, latest, running, answer>>
        /\ UNCHANGED <<clock, provider, sent, todo, processed, checkout, charge, failures, crashes, torn>>
    BY DEF CustomerCancels, atProvider, handling, faults
  <1>2. sub \in [Payments -> Subs \cup {None}] /\ sub[p] \in Subs /\ clock \in Times /\ RowTypes /\ PollOK
    BY <1>1 DEF IInv, Types, RowTypes, QueueTypes, Access
  <1>3. Weaker(sub[p], CancelledSub(sub[p])) /\ CancelledSub(sub[p]) \in Subs
    BY <1>2, CancelledIsWeaker DEF CancelledSub
  <1>4. sub' \in [Payments -> Subs \cup {None}] /\ \A q \in Payments : Weaker(sub[q], sub'[q])
    BY <1>1, <1>2, <1>3 DEF Weaker
  <1>5. NoRowIsLost
    BY <1>2, <1>4, WeakerRow DEF NoRowIsLost
  <1>6. PollOK'
    BY <1>1, <1>2, <1>5, PollKept
  <1> QED
    BY <1>1, <1>4, <1>6, OnlyWeakens

(* A poller marks a row as it has read it, whatever became of it.          *)
LEMMA MarkKept ==
  ASSUME IInv, NEW i \in Pollers, NEW seen \in [Payments -> Subs \cup {None}], NEW left \in SUBSET Payments,
         \A q \in Payments : seen[q] # None => sub[q] # None, Mark(i, seen, left), sent' = sent
  PROVE  /\ sub' \in [Payments -> Subs \cup {None}]
         /\ \A q \in Payments : Weaker(sub[q], sub'[q])
         /\ PollOK'
  <1>0. /\ sub \in [Payments -> Subs \cup {None}] /\ clock \in Times
        /\ PollOK /\ poll \in [Pollers -> PollRecords] /\ poll[i].heard \in sent \cup {None}
    BY DEF IInv, Types, RowTypes, QueueTypes, PollOK, PollerOK
  <1>1. CASE poll' = [poll EXCEPT ![i] = IdlePoll] /\ sub' = sub
    <2>1. IdlePoll \in PollRecords /\ IdlePoll.step = "idle" /\ IdlePoll.heard = None
      BY BoundsAssumption DEF IdlePoll, PollRecords, Times
    <2>2. PollOK'
      BY <1>1, <2>1, PollerGoesOn
    <2> QED
      BY <1>0, <1>1, <2>2 DEF Weaker
  <1>2. ASSUME NEW p \in left, MustMark(seen[p], poll[i].now),
               sub' = [sub EXCEPT ![p] = Upserted(@, Marked(seen[p], poll[i].now))],
               poll' = [poll EXCEPT ![i].step = "subscriptions", ![i].left = left \ {p}, ![i].seen = seen]
        PROVE  /\ sub' \in [Payments -> Subs \cup {None}]
               /\ \A q \in Payments : Weaker(sub[q], sub'[q])
               /\ PollOK'
    <2>1. p \in Payments /\ seen[p] \in Subs /\ sub[p] \in Subs /\ poll[i].now \in Times
      BY <1>0, <1>2 DEF MustMark, PollRecords
    <2>2. /\ Weaker(sub[p], Upserted(sub[p], Marked(seen[p], poll[i].now)))
          /\ Upserted(sub[p], Marked(seen[p], poll[i].now)) \in Subs
      BY <1>0, <2>1, MarkedRow
    <2>3. sub' \in [Payments -> Subs \cup {None}] /\ \A q \in Payments : Weaker(sub[q], sub'[q])
      BY <1>0, <1>2, <2>1, <2>2 DEF Weaker
    <2>4. NoRowIsLost /\ \A q \in Payments : seen[q] # None => sub'[q] # None
      BY <1>0, <2>3, WeakerRow DEF NoRowIsLost
    <2> DEFINE r == [poll[i] EXCEPT !.step = "subscriptions", !.left = left \ {p}, !.seen = seen]
    <2>5. r \in PollRecords /\ r.seen = seen /\ r.heard = poll[i].heard
      BY <1>0 DEF PollRecords
    <2>6. /\ \A j \in Pollers : poll'[j] = IF j = i THEN r ELSE poll[j]
          /\ poll' = [j \in Pollers |-> poll'[j]]
      BY <1>0, <1>2
    <2> HIDE DEF r
    <2>7. PollOK'
      BY <1>0, <2>4, <2>5, <2>6, OnePoller
    <2> QED
      BY <2>3, <2>7
  <1> QED
    BY <1>1, <1>2 DEF Mark

(* A poller goes through the subscriptions.                                *)
LEMMA PollSubscriptionsIInv ==
  ASSUME IInv, NEW i \in Pollers, PollSubscriptions(i)
  PROVE  IInv'
  <1>1. /\ \/ Mark(i, sub, Payments)
           \/ poll[i].step = "subscriptions" /\ Mark(i, poll[i].seen, poll[i].left)
        /\ UNCHANGED <<waiting, latest, running, answer>>
        /\ UNCHANGED <<clock, provider, sent, todo, processed, checkout, charge, failures, crashes, torn>>
    BY DEF PollSubscriptions, atProvider, handling, faults
  <1>2. /\ sub' \in [Payments -> Subs \cup {None}]
        /\ \A q \in Payments : Weaker(sub[q], sub'[q])
        /\ PollOK'
    <2>1. CASE Mark(i, sub, Payments)
      <3>1. sub \in [Payments -> Subs \cup {None}]
        BY DEF IInv, Types, RowTypes
      <3> QED
        BY <1>1, <2>1, <3>1, MarkKept
    <2>2. CASE poll[i].step = "subscriptions" /\ Mark(i, poll[i].seen, poll[i].left)
      <3>1. /\ poll[i].seen \in [Payments -> Subs \cup {None}] /\ poll[i].left \in SUBSET Payments
            /\ \A q \in Payments : poll[i].seen[q] # None => sub[q] # None
        BY <2>2 DEF IInv, Types, PollOK, PollerOK, PollRecords
      <3> QED
        BY <1>1, <2>2, <3>1, MarkKept
    <2> QED
      BY <1>1, <2>1, <2>2
  <1> QED
    BY <1>1, <1>2, OnlyWeakens

TornTypes == torn \in [Payments -> {"no", "checkout", "charge"}]

(* A crash forgets what is under way.                                      *)
LEMMA LostProgress ==
  ASSUME IInv, LoseProgress, TornTypes'
  PROVE  /\ QueueTypes' /\ HandlingTypes' /\ PollOK' /\ CounterTypes' /\ SameHistory
         /\ sent \subseteq todo' \cup processed' /\ processed' = processed
         /\ \A q \in Payments : /\ HandlingKept(q) /\ ProcessedKept(q)
                               /\ answer'[q] = None /\ latest'[q] = None
  <1>1. /\ crashes < MaxCrashes /\ crashes' = crashes + 1
        /\ waiting' = {} /\ poll' = [i \in Pollers |-> IdlePoll]
        /\ latest' = [p \in Payments |-> None] /\ running' = [p \in Payments |-> None]
        /\ answer' = [p \in Payments |-> None]
        /\ UNCHANGED <<clock, provider, sent, todo, processed, failures>>
    BY DEF LoseProgress, atProvider
  <1>2. QueueTypes' /\ HandlingTypes'
    BY <1>1 DEF IInv, Types, QueueTypes, HandlingTypes
  <1>3. IdlePoll \in PollRecords /\ IdlePoll.step = "idle" /\ IdlePoll.heard = None
    BY BoundsAssumption DEF IdlePoll, PollRecords, Times
  <1>4. PollOK'
    BY <1>1, <1>3 DEF PollOK, PollerOK
  <1>5. CounterTypes'
    BY <1>1, BoundTypes DEF IInv, Types, CounterTypes, TornTypes
  <1>6. SameHistory /\ sent \subseteq todo' \cup processed'
    BY <1>1, BoundTypes DEF IInv, Types, QueueTypes, SameHistory, Settled
  <1>7. \A q \in Payments : /\ HandlingKept(q) /\ ProcessedKept(q)
                          /\ answer'[q] = None /\ latest'[q] = None
    BY <1>1 DEF HandlingKept, ProcessedKept
  <1> QED
    BY <1>1, <1>2, <1>4, <1>5, <1>6, <1>7

(* A crash between two steps.                                              *)
LEMMA CrashIInv == IInv /\ Crash => IInv'
  <1> SUFFICES ASSUME IInv, Crash PROVE IInv'
    OBVIOUS
  <1>1. LoseProgress /\ UNCHANGED <<checkout, sub, charge, torn>>
    BY DEF Crash
  <1>2. RowTypes' /\ TornTypes' /\ \A q \in Payments : Aside(q)
    BY <1>1, UnchangedIsAside DEF IInv, Types, RowTypes, CounterTypes, TornTypes
  <1> QED
    BY <1>1, <1>2, LostProgress, KeptAll DEF Types

(* What is left of the writes of a completion or of a refund.              *)
CutCheckout(p, report) ==
  /\ report.status = "finished" /\ ~Known(p, report.at)
  /\ sub'[p] \in Subs /\ sub'[p].status = "active" /\ sub'[p].at = report.at
  /\ checkout'[p] = checkout[p] /\ charge'[p] = charge[p] /\ torn'[p] = "checkout"

CutCharge(p, report) ==
  /\ report.status = "finished" /\ ~Known(p, report.at)
  /\ sub'[p] \in Subs /\ sub'[p].status = "active" /\ sub'[p].at = report.at
  /\ checkout'[p] = [status |-> "completed", at |-> report.at, provider |-> "finished"]
  /\ charge'[p] = charge[p] /\ torn'[p] = "charge"

CutRefund(p, report) ==
  /\ report.status = "refunded" /\ checkout[p].status = "completed"
  /\ sub'[p] = sub[p] /\ torn'[p] = torn[p]
  /\ checkout'[p] = [status |-> "completed", at |-> report.at, provider |-> "refunded"]
  /\ charge'[p] \in {charge[p], "refunded"}

(* A payment keeps its invariant when its writes are cut off.              *)
LEMMA CutPayment ==
  ASSUME QueueTypes, QueueTypes', RowTypes, NEW e \in sent, NEW p \in Payments, e.of = p, PaymentIInv(p),
         NEW report \in Reports, ReportOf(e, report), ~Outdated(p, report), SameHistory,
         HandlingKept(p), answer'[p] = None, processed' = processed,
         CutCheckout(p, report) \/ CutCharge(p, report) \/ CutRefund(p, report)
  PROVE  PaymentIInv(p)'
  <1>0. History(p) /\ Handling(p) /\ Rows(p) /\ FinishedIsRecorded(p) /\ RefundIsRecorded(p)
    BY DEF PaymentIInv
  <1>1. provider' = provider /\ sent' = sent /\ EventOf(p, report) \in sent
    BY DEF SameHistory, ReportOf
  <1>2. /\ report.at <= provider[p].at
        /\ report.status \in {"finished", "refunded"} => Rank[provider[p].status] >= 2
        /\ report.status = "refunded" => provider[p].status = "refunded" /\ report.at = provider[p].at
    BY <1>1, ReportStatus, RankTypes
  <1>3. EventOf(p, [status |-> report.status, at |-> report.at]) = EventOf(p, report)
    BY DEF EventOf
  <1>4. History(p)' /\ Handling(p)'
    BY <1>0, ClockKept, HandlingKeptLemma
  <1>5. CASE CutCheckout(p, report) \/ CutCharge(p, report)
    <2>1. /\ report.status = "finished" /\ checkout[p].status # "completed"
          /\ sub'[p] # None /\ sub'[p].at <= provider[p].at /\ charge'[p] = charge[p]
          /\ \/ checkout'[p] = checkout[p] /\ torn'[p] = "checkout"
             \/ /\ checkout'[p] = [status |-> "completed", at |-> report.at, provider |-> report.status]
                /\ torn'[p] = "charge"
      BY <1>2, <1>5, NoneIsNothing DEF CutCheckout, CutCharge, Known
    <2>2. Rows(p)'
      BY <1>0, <1>1, <1>2, <1>3, <2>1 DEF Rows
    <2>3. ~(provider[p].status = "refunded" /\ EventOf(p, provider[p]) \in processed)
      BY <2>1, RefundIsLast
    <2>4. FinishedIsRecorded(p)' /\ RefundIsRecorded(p)'
      BY <1>1, <2>1, <2>3 DEF FinishedIsRecorded, RefundIsRecorded
    <2> QED
      BY <1>4, <2>2, <2>4 DEF PaymentIInv
  <1>6. CASE CutRefund(p, report)
    <2>1. /\ provider[p].status = "refunded" /\ report.at = provider[p].at
          /\ checkout[p].status = "completed" /\ sub'[p] = sub[p] /\ torn'[p] = torn[p]
          /\ checkout'[p] = [status |-> "completed", at |-> report.at, provider |-> report.status]
          /\ report.status = "refunded" /\ charge'[p] \in {charge[p], "refunded"}
      BY <1>2, <1>6 DEF CutRefund
    <2>2. Rows(p)'
      BY <1>0, <1>1, <1>2, <1>3, <2>1 DEF Rows, Is
    <2>3. FinishedIsRecorded(p)' /\ RefundIsRecorded(p)'
      BY <1>0, <1>1, <2>1 DEF FinishedIsRecorded, RefundIsRecorded, Is
    <2> QED
      BY <1>4, <2>2, <2>3 DEF PaymentIInv
  <1> QED
    BY <1>5, <1>6

(* The rows of others that were cancelled before a crash.                  *)
LEMMA DeactivatedRows ==
  ASSUME RowTypes, NEW p \in Payments, NEW others \in SUBSET Others(p), NEW at \in Times,
         sub' = Deactivated(others, at)
  PROVE  /\ sub' \in [Payments -> Subs \cup {None}]
         /\ \A q \in Payments : Weaker(sub[q], sub'[q])
         /\ sub'[p] = sub[p]
  <1>1. \A q \in Payments : sub[q] \in Subs \cup {None}
    BY DEF RowTypes
  <1>2. ASSUME NEW q \in Payments PROVE Weaker(sub[q], sub'[q])
    <2>1. CASE q \in others
      <3>1. sub[q] \in Subs
        BY <1>1, <2>1 DEF Others
      <3>2. sub'[q] = Upserted(sub[q], [sub[q] EXCEPT !.status = "cancelled", !.due = None, !.at = at])
        BY <2>1 DEF Deactivated
      <3> QED
        BY <3>1, <3>2, CancelledIsWeaker
    <2>2. CASE q \notin others
      BY <2>2 DEF Deactivated, Weaker
    <2> QED
      BY <2>1, <2>2
  <1>3. \A q \in Payments : sub'[q] \in Subs \cup {None}
    BY <1>1, <1>2, WeakerRow
  <1>4. sub' = [q \in Payments |-> sub'[q]]
    BY DEF Deactivated
  <1>5. sub'[p] = sub[p]
    BY DEF Deactivated, Others
  <1> QED
    BY <1>2, <1>3, <1>4, <1>5

(* What a crash leaves of the writes for a report.                         *)
LEMMA TornEffect ==
  ASSUME RowTypes, TornTypes, NEW p \in Payments, NEW report \in Reports, TornBy(p, report)
  PROVE  /\ RowTypes' /\ TornTypes' /\ LoseProgress /\ ~Outdated(p, report)
         /\ \A q \in Payments \ {p} : Aside(q) /\ torn'[q] = torn[q]
         /\ \/ Aside(p) /\ torn'[p] = torn[p]
            \/ Effect(p, report) /\ torn' = torn
            \/ CutCheckout(p, report) \/ CutCharge(p, report) \/ CutRefund(p, report)
  <1>1. /\ ~Outdated(p, report) /\ LoseProgress
        /\ TornFinish(p, report) \/ TornRefund(p, report) \/ (Writes(p, report) /\ UNCHANGED torn)
    BY DEF TornBy
  <1>2. report.at \in Times
    BY DEF Reports
  <1>3. CASE Writes(p, report) /\ UNCHANGED torn
    BY <1>1, <1>3, WritesEffect DEF TornTypes
  <1>4. CASE TornRefund(p, report)
    <2>1. /\ report.status = "refunded" /\ checkout[p].status = "completed"
          /\ SaveCheckout(p, "completed", report) /\ sub' = sub /\ torn' = torn
          /\ charge' = charge \/ charge' = [charge EXCEPT ![p] = "refunded"]
      BY <1>4 DEF TornRefund
    <2>2. /\ checkout' \in [Payments -> Checkouts]
          /\ checkout'[p] = [status |-> "completed", at |-> report.at, provider |-> report.status]
          /\ \A q \in Payments \ {p} : checkout'[q] = checkout[q]
      BY <1>1, <2>1, SavedCheckout
    <2>3. /\ charge' \in [Payments -> {"none", "succeeded", "refunded"}]
          /\ charge'[p] \in {charge[p], "refunded"} /\ \A q \in Payments \ {p} : charge'[q] = charge[q]
      BY <2>1 DEF RowTypes
    <2> QED
      BY <1>1, <2>1, <2>2, <2>3 DEF RowTypes, TornTypes, CutRefund, Aside, Weaker
  <1>5. CASE TornFinish(p, report)
    <2>1. report.status = "finished" /\ ~Known(p, report.at) /\ charge' = charge
      BY <1>5 DEF TornFinish
    <2>2. ASSUME NEW others \in SUBSET Others(p), sub' = Deactivated(others, report.at),
                 UNCHANGED <<checkout, torn>>
          PROVE  /\ RowTypes' /\ TornTypes' /\ torn' = torn /\ \A q \in Payments : Aside(q)
      <3>1. /\ sub' \in [Payments -> Subs \cup {None}]
            /\ \A q \in Payments : Weaker(sub[q], sub'[q])
        BY <1>2, <2>2, DeactivatedRows
      <3> QED
        BY <2>1, <2>2, <3>1 DEF RowTypes, TornTypes, Aside
    <2>3. ASSUME sub' = Activated(p, report.at)
          PROVE  /\ sub' \in [Payments -> Subs \cup {None}]
                 /\ sub'[p] \in Subs /\ sub'[p].status = "active" /\ sub'[p].at = report.at
                 /\ \A q \in Payments \ {p} : Weaker(sub[q], sub'[q])
      BY <1>2, <2>1, <2>3, ActivatedRows DEF Known
    <2>4. CASE /\ sub' = Activated(p, report.at) /\ UNCHANGED checkout
               /\ torn' = [torn EXCEPT ![p] = "checkout"]
      <3>1. torn'[p] = "checkout" /\ TornTypes' /\ \A q \in Payments \ {p} : torn'[q] = torn[q]
        BY <2>4 DEF TornTypes
      <3> QED
        BY <1>1, <2>1, <2>3, <2>4, <3>1 DEF RowTypes, CutCheckout, Aside
    <2>5. CASE /\ sub' = Activated(p, report.at) /\ SaveCheckout(p, "completed", report)
               /\ torn' = [torn EXCEPT ![p] = "charge"]
      <3>1. torn'[p] = "charge" /\ TornTypes' /\ \A q \in Payments \ {p} : torn'[q] = torn[q]
        BY <2>5 DEF TornTypes
      <3>2. /\ checkout' \in [Payments -> Checkouts]
            /\ checkout'[p] = [status |-> "completed", at |-> report.at, provider |-> report.status]
            /\ \A q \in Payments \ {p} : checkout'[q] = checkout[q]
        BY <1>1, <2>5, SavedCheckout
      <3> QED
        BY <1>1, <2>1, <2>3, <2>5, <3>1, <3>2 DEF RowTypes, CutCharge, Aside
    <2>6. \/ \E others \in SUBSET Others(p) : sub' = Deactivated(others, report.at) /\ UNCHANGED <<checkout, torn>>
          \/ sub' = Activated(p, report.at) /\ UNCHANGED checkout /\ torn' = [torn EXCEPT ![p] = "checkout"]
          \/ /\ sub' = Activated(p, report.at) /\ SaveCheckout(p, "completed", report)
             /\ torn' = [torn EXCEPT ![p] = "charge"]
      BY <1>5 DEF TornFinish
    <2> QED
      BY <1>1, <2>2, <2>4, <2>5, <2>6
  <1> QED
    BY <1>1, <1>3, <1>4, <1>5

(* A report that was in hand when the process crashed.                     *)
InHand(e, report) == ReportOf(e, report) /\ TornBy(e.of, report)

LEMMA CrashTearsInHand ==
  ASSUME IInv, NEW e \in waiting, CrashTears(e)
  PROVE  \E report \in Reports : InHand(e, report)
  <1>1. e \in sent /\ e \in Events /\ e.of \in Payments /\ e # None
    BY EventTypes DEF IInv, Types, QueueTypes
  <1>2. CASE ~Contradicts(e) /\ TornBy(e.of, e)
    <2> DEFINE report == [status |-> e.status, at |-> e.at]
    <2>1. report \in Reports /\ report.status = e.status /\ report.at = e.at
      BY <1>1, EventTypes DEF Reports
    <2>2. EventOf(e.of, report) = e
      BY <1>1 DEF EventOf, Events
    <2>3. TornBy(e.of, report)
      BY <1>2, <2>1 DEF TornBy, TornFinish, TornRefund, Writes, Outdated, Finished, Known, Failed,
                        Refunded, Pending, SaveCheckout
    <2>4. Rank[e.status] \in Nat
      BY <1>1, EventTypes, RankTypes
    <2>5. ReportOf(e, report)
      BY <1>1, <1>2, <2>1, <2>2, <2>4 DEF ReportOf
    <2> QED
      BY <2>1, <2>3, <2>5 DEF InHand
  <1>3. CASE running[e.of] = e /\ answer[e.of] # None /\ TornBy(e.of, answer[e.of])
    <2>1. answer[e.of] \in Reports
      BY <1>1, <1>3 DEF IInv, Types, HandlingTypes
    <2>2. ReportOf(e, answer[e.of])
      BY <1>1, <1>3 DEF IInv, PaymentIInv, Handling, ReportOf
    <2> QED
      BY <1>3, <2>1, <2>2 DEF InHand
  <1> QED
    BY <1>2, <1>3 DEF CrashTears

(* A crash between the writes for an event.                                *)
LEMMA CrashTearsIInv ==
  ASSUME IInv, NEW e \in waiting, CrashTears(e)
  PROVE  IInv'
  <1>0. QueueTypes /\ HandlingTypes /\ RowTypes /\ TornTypes
    BY DEF IInv, Types, CounterTypes, TornTypes
  <1>1. PICK report \in Reports : ReportOf(e, report) /\ TornBy(e.of, report)
    BY CrashTearsInHand DEF InHand
  <1>2. PICK p \in Payments : p = e.of
    BY <1>0, EventTypes DEF QueueTypes
  <1>3. e \in sent /\ e.of = p /\ TornBy(p, report)
    BY <1>0, <1>1, <1>2 DEF QueueTypes
  <1>4. /\ RowTypes' /\ TornTypes' /\ LoseProgress /\ ~Outdated(p, report)
        /\ \A q \in Payments \ {p} : Aside(q) /\ torn'[q] = torn[q]
        /\ \/ Aside(p) /\ torn'[p] = torn[p]
           \/ Effect(p, report) /\ torn' = torn
           \/ CutCheckout(p, report) \/ CutCharge(p, report) \/ CutRefund(p, report)
    BY <1>0, <1>3, TornEffect
  <1>5. /\ QueueTypes' /\ HandlingTypes' /\ PollOK' /\ CounterTypes' /\ SameHistory
        /\ sent \subseteq todo' \cup processed' /\ processed' = processed
        /\ \A q \in Payments : /\ HandlingKept(q) /\ ProcessedKept(q)
                              /\ answer'[q] = None /\ latest'[q] = None
    BY <1>4, LostProgress
  <1>6. ASSUME NEW q \in Payments, Aside(q), torn'[q] = torn[q] PROVE PaymentIInv(q)'
    <2>1. PaymentIInv(q)
      BY DEF IInv
    <2> QED
      BY <1>0, <1>5, <1>6, <2>1, KeptPayment
  <1>7. PaymentIInv(p) /\ Released(e)
    BY <1>2, <1>5 DEF IInv, Released
  <1>8. ASSUME Effect(p, report), torn' = torn PROVE PaymentIInv(p)'
    BY <1>0, <1>1, <1>3, <1>5, <1>7, <1>8, AppliedPayment
  <1>9. ASSUME CutCheckout(p, report) \/ CutCharge(p, report) \/ CutRefund(p, report)
        PROVE  PaymentIInv(p)'
    BY <1>0, <1>1, <1>3, <1>4, <1>5, <1>7, <1>9, CutPayment
  <1>10. PaymentIInv(p)'
    BY <1>4, <1>6, <1>8, <1>9
  <1>11. ASSUME NEW q \in Payments PROVE PaymentIInv(q)'
    BY <1>4, <1>6, <1>10
  <1>12. Settled'
    BY <1>5 DEF Settled, SameHistory
  <1> QED
    BY <1>4, <1>5, <1>11, <1>12 DEF IInv, Types

(* A step that changes nothing.                                            *)
LEMMA UnchangedIInv == IInv /\ UNCHANGED vars => IInv'
  <1> SUFFICES ASSUME IInv, UNCHANGED vars PROVE IInv'
    OBVIOUS
  <1>1. /\ UNCHANGED <<waiting, latest, running, answer>> /\ poll' = poll
        /\ UNCHANGED <<clock, provider, sent, todo, processed, checkout, sub, charge, failures, crashes, torn>>
    BY DEF vars, atProvider, handling, rows, faults
  <1>2. PollOK'
    BY <1>1 DEF IInv, Types, PollOK, PollerOK
  <1> QED
    BY <1>1, <1>2, HandlingSame, OnlyObserves

(* Every step keeps the invariant.                                         *)
LEMMA NextIInv == IInv /\ [Next]_vars => IInv'
  <1> SUFFICES ASSUME IInv, [Next]_vars PROVE IInv'
    OBVIOUS
  <1>1. CASE Tick
    BY <1>1, TickIInv
  <1>2. ASSUME NEW p \in Payments,
               \/ ProviderChanges(p) \/ GetPaymentStatus(p) \/ Resume(p) \/ LookupFails(p)
               \/ CustomerCancels(p)
        PROVE  IInv'
    BY <1>2, ProviderChangesIInv, GetPaymentStatusIInv, ResumeIInv, LookupFailsIInv,
       CustomerCancelsIInv
  <1>3. ASSUME NEW e \in todo, Deliver(e) PROVE IInv'
    BY <1>3, DeliverIInv
  <1>4. ASSUME NEW e \in waiting, Begin(e) \/ CrashTears(e) PROVE IInv'
    BY <1>4, BeginIInv, CrashTearsIInv
  <1>5. ASSUME NEW i \in Pollers,
               \/ PollStart(i) \/ PollHears(i) \/ PollSubscriptions(i)
               \/ \E p \in Payments : PollAsks(i, p) \/ PollLookupFails(i, p)
        PROVE  IInv'
    BY <1>5, PollStartIInv, PollHearsIInv, PollSubscriptionsIInv, PollAsksIInv, PollLookupFailsIInv
  <1>6. CASE Crash
    BY <1>6, CrashIInv
  <1>7. CASE UNCHANGED vars
    BY <1>7, UnchangedIInv
  <1> QED
    BY <1>1, <1>2, <1>3, <1>4, <1>5, <1>6, <1>7 DEF Next

(* So it always holds.                                                     *)
LEMMA InvariantHolds == Spec => []IInv
  BY InitIInv, NextIInv, PTL DEF Spec

(* Each variable has its type, and what is observed is remembered.         *)
THEOREM TypeCorrectness == Spec => []TypeOK
  <1>1. IInv => TypeOK
    BY TypesAreTypeOK DEF IInv
  <1> QED
    BY <1>1, InvariantHolds, PTL

(* When the events of a payment are processed, in whatever order they came *)
(* and whatever time they share, its rows say what the provider says:      *)
(* reconcilePaymentEvent and the operations it calls, with any number of   *)
(* payments and users, pollers that overlap, customers who cancel, lookups *)
(* that fail and crashes between any two writes, which cost no more than   *)
(* what they cut off.                                                      *)
THEOREM AccessAlwaysFollowsPayment == Spec => []AccessFollowsPayment
  <1>1. IInv => AccessFollowsPayment
    <2> SUFFICES ASSUME IInv, NEW p \in Payments, Quiet(p), torn[p] # "checkout"
                 PROVE  IF provider[p].status = "finished"
                          THEN /\ checkout[p].status = "completed" /\ sub[p] # None
                               /\ torn[p] = "charge" \/ charge[p] = "succeeded"
                          ELSE ~Is(p, "active")
      BY DEF AccessFollowsPayment
    <2> DEFINE e == EventOf(p, provider[p])
    <2>0. PaymentIInv(p) /\ provider[p] \in Reports
      BY DEF IInv, Types, QueueTypes
    <2>1. e \in sent /\ e.of = p
      BY <2>0, ReportEvent DEF PaymentIInv, History
    <2>2. e \in processed
      BY <2>1 DEF IInv, Settled, Quiet
    <2>3. CASE provider[p].status = "finished"
      <3>1. checkout[p].status = "completed" \/ sub[p] # None
        BY <2>0, <2>2, <2>3 DEF PaymentIInv, FinishedIsRecorded
      <3>2. checkout[p].status = "completed"
        BY <2>0, <3>1 DEF PaymentIInv, Rows
      <3> QED
        BY <2>0, <2>3, <3>2 DEF PaymentIInv, Rows
    <2>4. CASE provider[p].status = "refunded"
      BY <2>0, <2>2, <2>4 DEF PaymentIInv, RefundIsRecorded, Rows, Is
    <2>5. CASE provider[p].status \in {"pending", "failed"}
      <3>1. ~(Rank[provider[p].status] >= 2)
        BY <2>5, RankTypes
      <3> QED
        BY <2>0, <2>5, <3>1 DEF PaymentIInv, Rows, Is
    <2> QED
      BY <2>0, <2>3, <2>4, <2>5, ReportEvent DEF Statuses
  <1> QED
    BY <1>1, InvariantHolds, PTL

(***************************************************************************)
(* What has ended stays so.                                                *)
(***************************************************************************)

FinishedOf(p) == {e \in sent : e.of = p /\ e.status = "finished"}

(* A subscription is as new as its payment, which finishes once: it is not *)
(* completed twice.  One that was revoked is not due.                      *)
Dated(p) ==
  /\ \A e, f \in FinishedOf(p) : e = f
  /\ sub[p] # None => \A e \in FinishedOf(p) : e.at <= sub[p].at
  /\ Is(p, "revoked") => sub[p].due = None /\ sub[p].grace = None

EndIInv == IInv /\ \A p \in Payments : Dated(p)

EndedRow(row) == row # None /\ row.status \in {"cancelled", "revoked"}

(* The row of p is not revived.                                            *)
StaysEnded(p) == EndedRow(sub[p]) => EndedRow(sub'[p])

(* Of two rows that have ended either may be kept.                         *)
LEMMA UpsertedEnds ==
  ASSUME NEW old \in Subs, NEW new \in Subs, EndedRow(old), EndedRow(new)
  PROVE  EndedRow(Upserted(old, new))
  BY UpsertedRow DEF EndedRow

(* What has ended may be cancelled or revoked.                             *)
LEMMA CancelledEnds ==
  ASSUME NEW row \in Subs, EndedRow(row), NEW at \in Times
  PROVE  /\ EndedRow(Upserted(row, [row EXCEPT !.status = "cancelled", !.due = None, !.at = at]))
         /\ EndedRow(RevokedSub(row, at))
  <1> DEFINE new == [row EXCEPT !.status = "cancelled", !.due = None, !.at = at]
             revoked == [row EXCEPT !.status = "revoked", !.due = None, !.grace = None, !.at = at]
  <1>1. new \in Subs /\ revoked \in Subs /\ new.status = "cancelled" /\ revoked.status = "revoked"
    BY DEF Subs
  <1>2. EndedRow(new) /\ EndedRow(revoked)
    BY <1>1, NoneIsNothing DEF EndedRow
  <1> QED
    BY <1>1, <1>2, UpsertedEnds DEF RevokedSub

(* A row that is kept or made weaker stays as new as its payment.          *)
LEMMA KeptDated ==
  ASSUME RowTypes, NEW p \in Payments, Dated(p), sent' = sent, Weaker(sub[p], sub'[p]), sent \subseteq Events
  PROVE  Dated(p)'
  <1>1. FinishedOf(p)' = FinishedOf(p) /\ \A e \in FinishedOf(p) : e.at \in Nat
    BY EventTypes, BoundTypes DEF FinishedOf
  <1>2. sub[p] \in Subs \cup {None}
    BY DEF RowTypes
  <1>3. sub'[p] # None => /\ sub[p] # None /\ sub[p].at <= sub'[p].at
                          /\ sub[p].at \in Nat /\ sub'[p].at \in Nat
    BY <1>2, WeakerRow, RowTimes
  <1>4. \A e \in FinishedOf(p) : sub'[p] # None => e.at <= sub'[p].at
    BY <1>1, <1>3 DEF Dated
  <1>5. Is(p, "revoked")' => sub'[p].due = None /\ sub'[p].grace = None
    BY DEF Weaker, Is, Dated
  <1> QED
    BY <1>1, <1>4, <1>5 DEF Dated

(* A payment that is completed was not before.                             *)
LEMMA CompletedDated ==
  ASSUME RowTypes, NEW p \in Payments, Dated(p), sent' = sent, sent \subseteq Events,
         NEW e \in FinishedOf(p), ~(sub[p] # None /\ sub[p].at >= e.at),
         sub'[p].status = "active", sub'[p].at = e.at
  PROVE  Dated(p)' /\ StaysEnded(p)
  <1>1. FinishedOf(p)' = FinishedOf(p) /\ \A f \in FinishedOf(p) : f.at \in Nat
    BY EventTypes, BoundTypes DEF FinishedOf
  <1>2. sub[p] \in Subs \cup {None}
    BY DEF RowTypes
  <1>3. sub[p] = None
    BY <1>1, <1>2, RowTimes DEF Dated
  <1>4. \A f \in FinishedOf(p) : f.at <= sub'[p].at
    BY <1>1 DEF Dated
  <1>5. ~Is(p, "revoked")'
    BY DEF Is
  <1>6. Dated(p)'
    BY <1>1, <1>4, <1>5 DEF Dated
  <1> QED
    BY <1>3, <1>6 DEF StaysEnded, EndedRow

EndsKept(p) == Dated(p)' /\ StaysEnded(p)

(* Nothing ends or begins when no row changes.                             *)
LEMMA UnchangedEnds ==
  ASSUME IInv, NEW p \in Payments, Dated(p), sent' = sent, sub' = sub
  PROVE  EndsKept(p)
  <1>1. RowTypes /\ sent \subseteq Events /\ Weaker(sub[p], sub'[p])
    BY DEF IInv, Types, QueueTypes, Weaker
  <1> QED
    BY <1>1, KeptDated DEF EndsKept, StaysEnded

(* The completion of a payment ends those it replaces.                     *)
LEMMA ActivatedEnds ==
  ASSUME IInv, \A q \in Payments : Dated(q), sent' = sent, NEW p \in Payments, NEW e \in FinishedOf(p),
         sub' = Activated(p, e.at), ~(sub[p] # None /\ sub[p].at >= e.at)
  PROVE  \A q \in Payments : EndsKept(q)
  <1>0. RowTypes /\ sent \subseteq Events /\ e.at \in Times
    BY EventTypes DEF IInv, Types, QueueTypes, FinishedOf
  <1>1. /\ sub'[p] \in Subs /\ sub'[p].status = "active" /\ sub'[p].at = e.at
        /\ \A q \in Payments \ {p} : Weaker(sub[q], sub'[q])
    BY <1>0, ActivatedRows
  <1>2. EndsKept(p)
    BY <1>0, <1>1, CompletedDated DEF EndsKept
  <1>3. ASSUME NEW q \in Payments, q # p PROVE EndsKept(q)
    <2>1. Dated(q)'
      BY <1>0, <1>1, <1>3, KeptDated
    <2>2. CASE q \in Others(p)
      <3>1. sub'[q] = Upserted(sub[q], [sub[q] EXCEPT !.status = "cancelled", !.due = None, !.at = e.at])
        BY <1>3, <2>2 DEF Activated, Deactivated
      <3>2. sub[q] \in Subs
        BY <1>0, <2>2 DEF Others, RowTypes
      <3> QED
        BY <1>0, <2>1, <3>1, <3>2, CancelledEnds DEF EndsKept, StaysEnded
    <2>3. CASE q \notin Others(p)
      <3>1. sub'[q] = sub[q]
        BY <1>3, <2>3 DEF Activated, Deactivated
      <3> QED
        BY <2>1, <3>1 DEF EndsKept, StaysEnded
    <2> QED
      BY <2>2, <2>3
  <1> QED
    BY <1>2, <1>3

(* Nothing that is written for a report revives a subscription.            *)
LEMMA WritesEnds ==
  ASSUME IInv, \A q \in Payments : Dated(q), sent' = sent, NEW p \in Payments, NEW report \in Reports,
         EventOf(p, report) \in sent, Writes(p, report)
  PROVE  \A q \in Payments : EndsKept(q)
  <1>0. RowTypes /\ sent \subseteq Events /\ report.at \in Times /\ report.status \in Statuses
    BY ReportEvent DEF IInv, Types, QueueTypes
  <1>1. CASE sub' = sub
    BY <1>1, UnchangedEnds
  <1>2. CASE report.status = "finished" /\ ~Known(p, report.at) /\ sub' = Activated(p, report.at)
    <2> DEFINE f == EventOf(p, report)
    <2>1. f \in FinishedOf(p) /\ f.at = report.at
      BY <1>0, <1>2, ReportEvent DEF FinishedOf
    <2>2. ~(sub[p] # None /\ sub[p].at >= f.at)
      BY <1>2, <2>1 DEF Known
    <2> HIDE DEF f
    <2> QED
      BY <1>0, <1>2, <2>1, <2>2, ActivatedEnds
  <1>3. CASE sub' = [sub EXCEPT ![p] = IF @ = None THEN @ ELSE RevokedSub(@, report.at)]
    <2>1. \A q \in Payments \ {p} : sub'[q] = sub[q]
      BY <1>0, <1>3 DEF RowTypes
    <2>2. sub'[p] = IF sub[p] = None THEN sub[p] ELSE RevokedSub(sub[p], report.at)
      BY <1>0, <1>3 DEF RowTypes
    <2>3. sub[p] \in Subs \cup {None}
      BY <1>0 DEF RowTypes
    <2>4. Weaker(sub[p], sub'[p]) /\ StaysEnded(p)
      <3>1. CASE sub[p] = None
        BY <2>2, <3>1 DEF Weaker, StaysEnded
      <3>2. CASE sub[p] \in Subs
        BY <1>0, <2>2, <3>2, NoneIsNothing, RevokedIsWeaker, CancelledEnds DEF StaysEnded
      <3> QED
        BY <2>3, <3>1, <3>2
    <2>5. ASSUME NEW q \in Payments PROVE EndsKept(q)
      <3>1. Weaker(sub[q], sub'[q]) /\ StaysEnded(q)
        BY <2>1, <2>4 DEF Weaker, StaysEnded
      <3> QED
        BY <1>0, <3>1, KeptDated DEF EndsKept
    <2> QED
      BY <2>5
  <1>4. \/ sub' = sub
        \/ report.status = "finished" /\ ~Known(p, report.at) /\ sub' = Activated(p, report.at)
        \/ sub' = [sub EXCEPT ![p] = IF @ = None THEN @ ELSE RevokedSub(@, report.at)]
    <2>1. CASE report.status = "finished"
      BY <2>1 DEF Writes, Finished
    <2>2. CASE report.status \in {"failed", "refunded"}
      <3>1. Failed(p, report)
        BY <2>2 DEF Writes
      <3> QED
        BY <3>1 DEF Failed, Refunded
    <2>3. CASE report.status = "pending"
      <3>1. Pending(p, report)
        BY <2>3 DEF Writes
      <3> QED
        BY <3>1 DEF Pending
    <2> QED
      BY <1>0, <2>1, <2>2, <2>3 DEF Statuses
  <1> QED
    BY <1>1, <1>2, <1>3, <1>4

(* Nor a report that is applied.                                           *)
LEMMA ApplyEnds ==
  ASSUME IInv, \A q \in Payments : Dated(q), sent' = sent, NEW e \in sent, NEW report \in Reports,
         EventOf(e.of, report) \in sent, Apply(e, report)
  PROVE  \A q \in Payments : EndsKept(q)
  <1>1. e.of \in Payments
    BY EventTypes DEF IInv, Types, QueueTypes
  <1>2. CASE Outdated(e.of, report)
    <2>1. sub' = sub
      BY <1>2 DEF Apply, Ignore
    <2> QED
      BY <2>1, UnchangedEnds
  <1>3. CASE ~Outdated(e.of, report)
    <2>1. Writes(e.of, report)
      BY <1>3 DEF Apply
    <2> QED
      BY <1>1, <2>1, WritesEnds
  <1> QED
    BY <1>2, <1>3

(* Nor the rows of others that give way to a payment.                      *)
LEMMA DeactivatedEnds ==
  ASSUME IInv, \A q \in Payments : Dated(q), sent' = sent, NEW p \in Payments, NEW at \in Times,
         NEW others \in SUBSET Others(p), sub' = Deactivated(others, at)
  PROVE  \A q \in Payments : EndsKept(q)
  <1>0. RowTypes /\ sent \subseteq Events
    BY DEF IInv, Types, QueueTypes
  <1>1. \A q \in Payments : Weaker(sub[q], sub'[q])
    BY <1>0, DeactivatedRows
  <1>2. ASSUME NEW q \in Payments PROVE EndsKept(q)
    <2>1. Dated(q)'
      BY <1>0, <1>1, KeptDated
    <2>2. CASE q \in others
      <3>1. sub'[q] = Upserted(sub[q], [sub[q] EXCEPT !.status = "cancelled", !.due = None, !.at = at])
        BY <2>2 DEF Deactivated
      <3>2. sub[q] \in Subs
        BY <1>0, <2>2 DEF Others, RowTypes
      <3> QED
        BY <2>1, <3>1, <3>2, CancelledEnds DEF EndsKept, StaysEnded
    <2>3. CASE q \notin others
      <3>1. sub'[q] = sub[q]
        BY <2>3 DEF Deactivated
      <3> QED
        BY <2>1, <3>1 DEF EndsKept, StaysEnded
    <2> QED
      BY <2>2, <2>3
  <1> QED
    BY <1>2

(* The provider finishes a payment once, and before anybody subscribes.    *)
LEMMA ProviderChangesEnds ==
  ASSUME IInv, \A q \in Payments : Dated(q), NEW p \in Payments, ProviderChanges(p)
  PROVE  \A q \in Payments : EndsKept(q)
  <1>0. QueueTypes
    BY DEF IInv, Types
  <1>1. PICK status \in Follows[provider[p].status] :
          /\ sent' = sent \cup {EventOf(p, [status |-> status, at |-> clock])}
          /\ sub' = sub
    BY DEF ProviderChanges, rows
  <1> DEFINE new == EventOf(p, [status |-> status, at |-> clock])
  <1>2. new.of = p /\ new.status = status
    BY DEF EventOf
  <1>3. sent' = sent \cup {new} /\ sub' = sub
    BY <1>1
  <1> HIDE DEF new
  <1>4. ASSUME NEW q \in Payments, ~(q = p /\ status = "finished") PROVE EndsKept(q)
    <2>1. FinishedOf(q)' = FinishedOf(q) /\ Dated(q)
      BY <1>2, <1>3, <1>4 DEF FinishedOf
    <2> QED
      BY <1>3, <2>1 DEF EndsKept, StaysEnded, Dated, Is
  <1>5. ASSUME status = "finished" PROVE EndsKept(p)
    <2>1. provider[p].status \in Statuses
      BY <1>0, ReportEvent DEF QueueTypes
    <2>2. /\ Rank[provider[p].status] \in Nat /\ Rank[provider[p].status] < 2
      BY <1>5, <2>1, FollowsRank, RankTypes
    <2>3. PaymentIInv(p) /\ sub[p] = None
      BY <2>2 DEF IInv, PaymentIInv, Rows
    <2>4. FinishedOf(p) = {}
      <3> SUFFICES ASSUME NEW e \in sent, e.of = p, e.status = "finished" PROVE FALSE
        BY DEF FinishedOf
      <3>1. Rank[e.status] <= Rank[provider[p].status]
        BY <1>0, <2>3, SentIsPast DEF PaymentIInv
      <3> QED
        BY <2>2, <3>1, RankTypes
    <2>5. FinishedOf(p)' \subseteq {new}
      BY <1>3, <2>4 DEF FinishedOf
    <2> QED
      BY <1>3, <2>3, <2>5 DEF EndsKept, StaysEnded, EndedRow, Dated, Is
  <1> QED
    BY <1>4, <1>5

(* A poller marks a row that has not ended, or one of its old list.        *)
Brought(p) == MarksOldRow(p) /\ Is(p, "past_due")'

LEMMA PollSubscriptionsEnds ==
  ASSUME EndIInv, NEW i \in Pollers, PollSubscriptions(i)
  PROVE  \A q \in Payments : Dated(q)' /\ (StaysEnded(q) \/ Brought(q))
  <1>0. /\ IInv /\ RowTypes /\ sent \subseteq Events /\ clock \in Times /\ \A q \in Payments : Dated(q)
        /\ poll \in [Pollers -> PollRecords] /\ PollerOK(i)
    BY DEF EndIInv, IInv, Types, QueueTypes, PollOK
  <1>1. sent' = sent
    BY DEF PollSubscriptions, atProvider
  <1>2. CASE sub' = sub
    BY <1>0, <1>1, <1>2, UnchangedEnds DEF EndsKept
  <1>3. ASSUME NEW seen \in [Payments -> Subs \cup {None}], NEW p \in Payments,
               seen[p] # None => sub[p] # None, MustMark(seen[p], poll[i].now),
               sub' = [sub EXCEPT ![p] = Upserted(@, Marked(seen[p], poll[i].now))],
               seen = sub \/ MarksOldRow(p)
        PROVE  \A q \in Payments : Dated(q)' /\ (StaysEnded(q) \/ Brought(q))
    <2>1. sub[p] \in Subs /\ seen[p] \in Subs /\ poll[i].now \in Times
      BY <1>0, <1>3 DEF MustMark, RowTypes, PollRecords
    <2> DEFINE new == Marked(seen[p], poll[i].now)
    <2>2. /\ new \in Subs /\ new.status \in {"cancelled", "past_due"}
          /\ Weaker(sub[p], Upserted(sub[p], new))
      BY <1>0, <2>1, MarkedRow
    <2>3. sub'[p] = Upserted(sub[p], new) /\ \A q \in Payments \ {p} : sub'[q] = sub[q]
      BY <1>0, <1>3 DEF RowTypes
    <2> HIDE DEF new
    <2>4. \A q \in Payments : Weaker(sub[q], sub'[q])
      BY <2>2, <2>3 DEF Weaker
    <2>5. \A q \in Payments : Dated(q)'
      BY <1>0, <1>1, <2>4, KeptDated
    <2>6. \A q \in Payments \ {p} : StaysEnded(q)
      BY <2>3 DEF StaysEnded
    <2>7. CASE seen = sub
      <3>1. ~EndedRow(sub[p])
        BY <1>0, <1>3, <2>7 DEF MustMark, EndedRow, Overdue, Renewable, Dated, Is
      <3> QED
        BY <2>5, <2>6, <3>1 DEF StaysEnded
    <2>8. CASE MarksOldRow(p)
      <3>1. sub'[p] = sub[p] \/ sub'[p] = new
        BY <2>1, <2>2, <2>3, UpsertedRow
      <3>2. new # None
        BY <2>2, NoneIsNothing
      <3>3. StaysEnded(p) \/ Brought(p)
        BY <2>2, <2>8, <3>1, <3>2 DEF StaysEnded, EndedRow, Brought, Is
      <3> QED
        BY <2>5, <2>6, <3>3
    <2> QED
      BY <1>3, <2>7, <2>8
  <1>4. CASE poll[i].step = "payments" /\ Mark(i, sub, Payments)
    <2>1. sub \in [Payments -> Subs \cup {None}]
      BY <1>0 DEF RowTypes
    <2> QED
      BY <1>2, <1>3, <1>4, <2>1 DEF Mark
  <1>5. CASE poll[i].step = "subscriptions" /\ Mark(i, poll[i].seen, poll[i].left)
    <2>1. /\ poll[i].seen \in [Payments -> Subs \cup {None}] /\ poll[i].left \subseteq Payments
          /\ \A q \in Payments : poll[i].seen[q] # None => sub[q] # None
      BY <1>0, <1>5 DEF PollerOK, PollRecords
    <2>2. CASE sub' # sub
      <3>1. PICK p \in poll[i].left :
              /\ MustMark(poll[i].seen[p], poll[i].now)
              /\ sub' = [sub EXCEPT ![p] = Upserted(@, Marked(poll[i].seen[p], poll[i].now))]
              /\ poll' = [poll EXCEPT ![i].step = "subscriptions", ![i].left = poll[i].left \ {p},
                                     ![i].seen = poll[i].seen]
        BY <1>5, <2>2 DEF Mark
      <3>2. poll'[i].left = poll[i].left \ {p}
        BY <1>0, <3>1 DEF PollRecords
      <3>3. MarksOldRow(p)
        BY <1>5, <3>1, <3>2 DEF MarksOldRow
      <3> QED
        BY <1>3, <2>1, <3>1, <3>3
    <2> QED
      BY <1>2, <2>2
  <1> QED
    BY <1>4, <1>5 DEF PollSubscriptions

(* Nor does a customer who cancels.                                        *)
LEMMA CustomerCancelsEnds ==
  ASSUME IInv, \A q \in Payments : Dated(q), NEW p \in Payments, CustomerCancels(p)
  PROVE  \A q \in Payments : EndsKept(q)
  <1>0. RowTypes /\ sent \subseteq Events /\ clock \in Times
    BY DEF IInv, Types, QueueTypes
  <1>1. Access(p) /\ sub' = [sub EXCEPT ![p] = CancelledSub(@)] /\ sent' = sent
    BY DEF CustomerCancels, atProvider
  <1>2. sub[p] \in Subs
    BY <1>0, <1>1 DEF RowTypes, Access
  <1>3. Weaker(sub[p], CancelledSub(sub[p]))
    BY <1>0, <1>2, CancelledIsWeaker DEF CancelledSub
  <1>4. EndedRow(sub[p]) => EndedRow(CancelledSub(sub[p]))
    BY <1>0, <1>2, CancelledEnds DEF CancelledSub
  <1>5. ASSUME NEW q \in Payments PROVE EndsKept(q)
    <2>1. Weaker(sub[q], sub'[q]) /\ StaysEnded(q)
      BY <1>0, <1>1, <1>3, <1>4 DEF RowTypes, Weaker, StaysEnded
    <2> QED
      BY <1>0, <1>1, <2>1, KeptDated DEF EndsKept
  <1> QED
    BY <1>5

(* Nor an event that is handled, torn or not.                              *)
LEMMA HandledEnds ==
  ASSUME IInv, \A q \in Payments : Dated(q), NEW e \in waiting, Begin(e) \/ CrashTears(e)
  PROVE  \A q \in Payments : EndsKept(q)
  <1>0. e \in sent /\ e \in Events /\ e.of \in Payments /\ e.at \in Times /\ e.status \in Statuses
    BY EventTypes DEF IInv, Types, QueueTypes
  <1>1. sent' = sent
    BY DEF Begin, CrashTears, TornBy, LoseProgress, atProvider
  <1>2. CASE sub' = sub
    BY <1>1, <1>2, UnchangedEnds
  <1>3. CASE Apply(e, e)
    <2> DEFINE report == [status |-> e.status, at |-> e.at]
    <2>1. report \in Reports /\ report.status = e.status /\ report.at = e.at
      BY <1>0 DEF Reports
    <2>2. EventOf(e.of, report) = e
      BY <1>0 DEF EventOf, Events
    <2>3. Apply(e, report)
      BY <1>3, <2>1 DEF Apply, Writes, Outdated, Finished, Known, Failed, Refunded, Pending, SaveCheckout
    <2> QED
      BY <1>0, <1>1, <2>1, <2>2, <2>3, ApplyEnds
  <1>4. CASE CrashTears(e)
    <2>1. PICK report \in Reports : ReportOf(e, report) /\ TornBy(e.of, report)
      BY <1>4, CrashTearsInHand DEF InHand
    <2>2. EventOf(e.of, report) \in sent /\ report.at \in Times
      BY <2>1 DEF ReportOf, Reports
    <2>3. CASE sub' = Activated(e.of, report.at) /\ report.status = "finished" /\ ~Known(e.of, report.at)
      <3> DEFINE p == e.of
                 f == EventOf(p, report)
      <3>1. f \in FinishedOf(p) /\ f.at = report.at /\ p \in Payments
        BY <1>0, <2>2, <2>3, ReportEvent DEF FinishedOf
      <3>2. sub' = Activated(p, f.at) /\ ~(sub[p] # None /\ sub[p].at >= f.at)
        BY <2>3, <3>1 DEF Known
      <3> HIDE DEF f, p
      <3> QED
        BY <1>1, <3>1, <3>2, ActivatedEnds
    <2>4. \/ sub' = sub
          \/ sub' = Activated(e.of, report.at) /\ report.status = "finished" /\ ~Known(e.of, report.at)
          \/ \E others \in SUBSET Others(e.of) : sub' = Deactivated(others, report.at)
          \/ Writes(e.of, report)
      BY <2>1 DEF TornBy, TornFinish, TornRefund
    <2> QED
      BY <1>0, <1>1, <1>2, <2>2, <2>3, <2>4, WritesEnds, DeactivatedEnds
  <1>5. sub' = sub \/ Apply(e, e) \/ CrashTears(e)
    BY DEF Begin, Ignore, rows
  <1> QED
    BY <1>2, <1>3, <1>4, <1>5

(* Nor one that waited for an answer.                                      *)
LEMMA ResumeEnds ==
  ASSUME IInv, \A q \in Payments : Dated(q), NEW p \in Payments, Resume(p)
  PROVE  \A q \in Payments : EndsKept(q)
  <1>1. /\ running[p] # None /\ answer[p] # None /\ Apply(running[p], answer[p])
        /\ sent' = sent
    BY DEF Resume, atProvider
  <1>2. running[p] \in sent /\ running[p].of = p /\ answer[p] \in Reports
    BY <1>1 DEF IInv, Types, HandlingTypes, QueueTypes
  <1>3. EventOf(running[p].of, answer[p]) \in sent
    BY <1>1, <1>2 DEF IInv, PaymentIInv, Handling
  <1> QED
    BY <1>1, <1>2, <1>3, ApplyEnds

(* Every step keeps what has ended, but a poller's with an old list.       *)
LEMMA NextEnds ==
  ASSUME EndIInv, [Next]_vars
  PROVE  \A q \in Payments : Dated(q)' /\ (StaysEnded(q) \/ Brought(q))
  <1>0. IInv /\ \A q \in Payments : Dated(q)
    BY DEF EndIInv
  <1>1. CASE sent' = sent /\ sub' = sub
    BY <1>0, <1>1, UnchangedEnds DEF EndsKept
  <1>2. ASSUME NEW i \in Pollers, PollSubscriptions(i)
        PROVE  \A q \in Payments : Dated(q)' /\ (StaysEnded(q) \/ Brought(q))
    BY <1>2, PollSubscriptionsEnds
  <1>3. ASSUME NEW p \in Payments, ProviderChanges(p) PROVE \A q \in Payments : EndsKept(q)
    BY <1>0, <1>3, ProviderChangesEnds
  <1>4. ASSUME NEW p \in Payments, CustomerCancels(p) PROVE \A q \in Payments : EndsKept(q)
    BY <1>0, <1>4, CustomerCancelsEnds
  <1>5. ASSUME NEW p \in Payments, Resume(p) PROVE \A q \in Payments : EndsKept(q)
    BY <1>0, <1>5, ResumeEnds
  <1>6. ASSUME NEW e \in waiting, Begin(e) \/ CrashTears(e) PROVE \A q \in Payments : EndsKept(q)
    BY <1>0, <1>6, HandledEnds
  <1>7. \/ sent' = sent /\ sub' = sub
        \/ \E i \in Pollers : PollSubscriptions(i)
        \/ \E p \in Payments : ProviderChanges(p) \/ CustomerCancels(p) \/ Resume(p)
        \/ \E e \in waiting : Begin(e) \/ CrashTears(e)
    BY DEF Next, vars, Tick, GetPaymentStatus, LookupFails, PollAsks, PollLookupFails, PollHears, Deliver,
           PollStart, Crash, LoseProgress, atProvider, rows
  <1> QED
    BY <1>1, <1>2, <1>3, <1>4, <1>5, <1>6, <1>7 DEF EndsKept

(* Every step keeps the longer invariant.                                  *)
LEMMA EndNextIInv == EndIInv /\ [Next]_vars => EndIInv'
  <1> SUFFICES ASSUME EndIInv, [Next]_vars PROVE EndIInv'
    OBVIOUS
  <1>1. IInv'
    BY NextIInv DEF EndIInv
  <1>2. \A q \in Payments : Dated(q)'
    BY NextEnds
  <1> QED
    BY <1>1, <1>2 DEF EndIInv

(* The initial state satisfies it: nothing is paid.                        *)
LEMMA EndInitIInv == Init => EndIInv
  <1> SUFFICES ASSUME Init PROVE EndIInv
    OBVIOUS
  <1>1. IInv
    BY InitIInv
  <1>2. ASSUME NEW p \in Payments PROVE Dated(p)
    <2>1. FinishedOf(p) = {}
      BY DEF Init, FinishedOf, EventOf
    <2>2. sub[p] = None
      BY DEF Init
    <2> QED
      BY <2>1, <2>2 DEF Dated, Is
  <1> QED
    BY <1>1, <1>2 DEF EndIInv

(* What was cancelled or revoked stays so, for any number of payments and  *)
(* of pollers that overlap, through crashes between any two writes.  The   *)
(* one step that brings it back is a poller's, which goes on after an      *)
(* await with the list it read before (reconcileCryptoBilling); then the   *)
(* subscription is past due and never active.                              *)
THEOREM EndedIsFinalButForOldLists == Spec => EndedIsFinal
  <1>1. EndIInv /\ [Next]_vars =>
          [\A p \in Payments : Ended(p) => Ended(p)' \/ (MarksOldRow(p) /\ Is(p, "past_due")')]_vars
    <2> SUFFICES ASSUME EndIInv, [Next]_vars, NEW p \in Payments, Ended(p)
                 PROVE  Ended(p)' \/ (MarksOldRow(p) /\ Is(p, "past_due")')
      OBVIOUS
    <2>1. StaysEnded(p) \/ Brought(p)
      BY NextEnds
    <2> QED
      BY <2>1 DEF StaysEnded, Brought, EndedRow, Ended, Is
  <1> QED
    BY <1>1, EndInitIInv, EndNextIInv, PTL DEF Spec, EndedIsFinal

-----------------------------------------------------------------------------
(* processPaymentFailed: what access is left when a refund is processed is *)
(* due to the grace of a renewal, which the run crypto_dunning shows, or   *)
(* to a crash that cut the checkout off its subscription; in any order of  *)
(* the events, with the poller, overlapping runs of it and crashes.        *)
THEOREM RefundEndsAccessButForGrace ==
  Spec => [](\A p \in Payments :
               Quiet(p) /\ provider[p].status = "refunded" /\ Access(p) =>
                 Is(p, "past_due") \/ torn[p] = "checkout")
  <1>1. AccessFollowsPayment =>
          \A p \in Payments :
            Quiet(p) /\ provider[p].status = "refunded" /\ Access(p) =>
              Is(p, "past_due") \/ torn[p] = "checkout"
    BY DEF AccessFollowsPayment, Access, Is
  <1> QED
    BY <1>1, AccessAlwaysFollowsPayment, PTL
=============================================================================
