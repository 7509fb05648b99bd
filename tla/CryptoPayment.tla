---------------------------- MODULE CryptoPayment ----------------------------
(***************************************************************************)
(* Payments by NOWPayments and the access they grant                       *)
(* (packages/dkrypt/src/cryptoBilling.ts and billing.ts).                  *)
(*                                                                         *)
(* A payment has one checkout and one subscription.  The provider changes  *)
(* its status and sends an event for each change, which may come at any    *)
(* time, again or never; events of one payment are processed one at a time *)
(* under its key.  Pollers, which may overlap, ask the provider for        *)
(* payments whose event may be lost and end subscriptions that are not     *)
(* renewed.  An event is named by the payment, the status and its time, as *)
(* in its identifier; while it waits, a second delivery of it is one with  *)
(* the first.  Left out: payments without times or of assets that are not  *)
(* supported, rows of earlier releases, messages to the customer that      *)
(* fail, writes that fail while the process goes on; "failed" also stands  *)
(* for "expired".                                                          *)
(***************************************************************************)
EXTENDS Naturals, FiniteSets

CONSTANTS
  Payments,
  Owner,        \* Owner[p]: the user who pays p
  None,         \* no time, no row, no event
  Period,       \* how long a payment lasts (30 days)
  Grace,        \* config.cryptoDunningGraceHours
  Pollers,      \* the reconciliations that may be under way at a time
  Cancels,      \* do customers cancel?
  MaxTime,      \* bound on the clock
  MaxFailures,  \* bound on provider lookups that fail
  MaxCrashes    \* bound on crashes

ASSUME BoundsAssumption ==
  /\ {Period, Grace, MaxTime, MaxFailures, MaxCrashes} \subseteq Nat
  /\ Cancels \in BOOLEAN

VARIABLES
  clock,
  provider,   \* provider[p]: status of p at the provider and since when
  sent,       \* events the provider has made
  todo,       \* those that were not processed: they may be delivered
  waiting,    \* events observed: they wait for or hold the key of their payment
  latest,     \* latest[p]: pendingPaymentEvents, the newest time observed
  running,    \* running[p]: the event that holds the key of p
  answer,     \* answer[p]: what the provider answered it, None while awaited
  processed,  \* processedEvents
  checkout, sub, charge,
  poll,       \* poll[i]: how far the reconciliation i is
  failures, crashes,
  torn        \* torn[p]: the first write of p's completion a crash has cut off

atProvider == <<provider, sent>>
handling   == <<waiting, latest, running, answer>>
rows       == <<processed, checkout, sub, charge>>
faults     == <<failures, crashes, torn>>
vars       == <<clock, atProvider, todo, handling, rows, poll, faults>>

Times     == 0..MaxTime
Deadlines == 0..(MaxTime + Period + Grace)
Statuses  == {"pending", "finished", "failed", "refunded"}
Reports   == [status : Statuses, at : Times]
Events    == [of : Payments, status : Statuses, at : Times]
Checkouts == [status : {"pending", "completed", "cancelled"},
              at : Times \cup {None}, provider : Statuses \cup {None}]
Subs      == [status : {"active", "past_due", "cancelled", "revoked"}, at : Times,
              due : Deadlines \cup {None}, grace : Deadlines \cup {None}]

ASSUME NoneAssumption == None \notin Times \cup Reports \cup Events \cup Subs

EventOf(p, report) == [of |-> p, status |-> report.status, at |-> report.at]

(* What is left to ask or to mark, the provider's answer, the event it is  *)
(* waited for, the time of the start, and the list of subscriptions.       *)
IdlePoll ==
  [step |-> "idle", left |-> {}, heard |-> None, on |-> None, now |-> 0, seen |-> None]

Init ==
  /\ clock = 0
  /\ provider = [p \in Payments |-> [status |-> "pending", at |-> 0]]
  /\ sent = {EventOf(p, provider[p]) : p \in Payments}
  /\ todo = sent
  /\ waiting = {}
  /\ latest = [p \in Payments |-> None]
  /\ running = [p \in Payments |-> None]
  /\ answer = [p \in Payments |-> None]
  /\ processed = {}
  /\ checkout = [p \in Payments |-> [status |-> "pending", at |-> None, provider |-> None]]
  /\ sub = [p \in Payments |-> None]
  /\ charge = [p \in Payments |-> "none"]
  /\ poll = [i \in Pollers |-> IdlePoll]
  /\ failures = 0
  /\ crashes = 0
  /\ torn = [p \in Payments |-> "no"]

Tick ==
  /\ clock < MaxTime
  /\ clock' = clock + 1
  /\ UNCHANGED <<atProvider, todo, handling, rows, poll, faults>>

(* A payment may be late, and may be given back once it is finished.       *)
Follows == [pending |-> {"finished", "failed"}, failed |-> {"finished"},
            finished |-> {"refunded"}, refunded |-> {}]

ProviderChanges(p) ==
  \E status \in Follows[provider[p].status] :
    LET report == [status |-> status, at |-> clock] IN
    /\ provider' = [provider EXCEPT ![p] = report]
    /\ sent' = sent \cup {EventOf(p, report)}
    /\ todo' = todo \cup {EventOf(p, report)}
    /\ UNCHANGED <<clock, handling, rows, poll, faults>>

-----------------------------------------------------------------------------
(* Events under the key of their payment.                                  *)

Later(t, u) == IF t = None \/ u > t THEN u ELSE t

(* observePaymentEvent                                                     *)
Observe(e) ==
  /\ e \notin waiting
  /\ waiting' = waiting \cup {e}
  /\ latest' = [latest EXCEPT ![e.of] = Later(@, e.at)]
  /\ UNCHANGED <<running, answer>>

Deliver(e) ==
  /\ e \in todo
  /\ Observe(e)
  /\ UNCHANGED <<clock, atProvider, todo, rows, poll, faults>>

ReleaseObservation(e) ==
  /\ waiting' = waiting \ {e}
  /\ latest' = [latest EXCEPT ![e.of] = IF \E f \in waiting \ {e} : f.of = e.of THEN @ ELSE None]
  /\ running' = [running EXCEPT ![e.of] = None]
  /\ answer' = [answer EXCEPT ![e.of] = None]

(* The event is answered 200.                                              *)
Settle(e) ==
  /\ todo' = todo \ {e}
  /\ processed' = processed \cup {e}
  /\ ReleaseObservation(e)

Ignore(e) == Settle(e) /\ UNCHANGED <<checkout, sub, charge>>

(* upsertBillingSubscription                                               *)
Upserted(old, new) == IF old # None /\ old.at > new.at THEN old ELSE new

(* savePaymentCheckout and upsertCryptoCheckout                            *)
SaveCheckout(p, status, report) ==
  checkout' = [checkout EXCEPT ![p] =
    IF (@.status = "completed" /\ status # "completed") \/ (@.at # None /\ @.at > report.at)
      THEN @
      ELSE [status |-> status, at |-> report.at, provider |-> report.status]]

Others(p) == {q \in Payments \ {p} : Owner[q] = Owner[p] /\ sub[q] # None /\ sub[q].status # "cancelled"}

(* As a bug would have it: a completion is repeated within its moment.     *)
KnownIfNewer(p, at) == sub[p] # None /\ sub[p].at > at

(* deactivateOtherCryptoSubscriptions, as far as it came                   *)
Deactivated(others, at) ==
  [q \in Payments |->
    IF q \in others
      THEN Upserted(sub[q], [sub[q] EXCEPT !.status = "cancelled", !.due = None, !.at = at])
      ELSE sub[q]]

(* subscriptionFromPayment                                                 *)
Activated(p, at) ==
  [Deactivated(Others(p), at) EXCEPT ![p] =
    Upserted(sub[p], [status |-> "active", at |-> at, due |-> at + Period, grace |-> None])]

Known(p, at) == checkout[p].status = "completed" \/ (sub[p] # None /\ sub[p].at >= at)

Finished(p, report) ==
  IF Known(p, report.at)
    THEN UNCHANGED <<checkout, sub, charge>>
    ELSE /\ sub' = Activated(p, report.at)
         /\ SaveCheckout(p, "completed", report)
         /\ charge' = [charge EXCEPT ![p] = IF @ = "refunded" THEN @ ELSE "succeeded"]

RevokedSub(row, at) ==
  Upserted(row, [row EXCEPT !.status = "revoked", !.due = None, !.grace = None, !.at = at])

Refunded(p, report) ==
  /\ SaveCheckout(p, "completed", report)
  /\ charge' = [charge EXCEPT ![p] = IF sub[p] = None THEN @ ELSE "refunded"]
  /\ sub' = [sub EXCEPT ![p] = IF @ = None THEN @ ELSE RevokedSub(@, report.at)]

Failed(p, report) ==
  IF checkout[p].status # "completed"
    THEN SaveCheckout(p, "cancelled", report) /\ UNCHANGED <<sub, charge>>
    ELSE IF report.status = "refunded"
      THEN Refunded(p, report)
      ELSE UNCHANGED <<checkout, sub, charge>>

Pending(p, report) ==
  /\ UNCHANGED <<sub, charge>>
  /\ IF checkout[p].status = "completed" THEN UNCHANGED checkout
     ELSE SaveCheckout(p, "pending", report)

(* isOlderPaymentEvent, isSupersededByPendingPaymentEvent                  *)
Outdated(p, report) ==
  \/ checkout[p].at # None /\ report.at < checkout[p].at
  \/ latest[p] # None /\ report.at < latest[p]

Writes(p, report) ==
  CASE report.status = "finished" -> Finished(p, report)
    [] report.status \in {"failed", "refunded"} -> Failed(p, report)
    [] OTHER -> Pending(p, report)

Apply(e, report) ==
  IF Outdated(e.of, report) THEN Ignore(e) ELSE Writes(e.of, report) /\ Settle(e)

(* As a bug would have it: of two statuses of one moment the last is taken.*)
ContradictsNever(e) == FALSE

(* reconcilePaymentEvent: two statuses of one moment contradict each other *)
Contradicts(e) ==
  /\ checkout[e.of].at = e.at
  /\ checkout[e.of].provider # e.status

Begin(e) ==
  /\ e \in waiting /\ running[e.of] = None
  /\ \/ e \in processed /\ Ignore(e)
     \/ e \notin processed /\ ~Contradicts(e) /\ Apply(e, e)
     \/ /\ e \notin processed /\ Contradicts(e)
        /\ running' = [running EXCEPT ![e.of] = e]
        /\ UNCHANGED <<todo, waiting, latest, answer, rows>>
  /\ UNCHANGED <<clock, atProvider, poll, faults>>

GetPaymentStatus(p) ==
  /\ running[p] # None /\ answer[p] = None
  /\ answer' = [answer EXCEPT ![p] = provider[p]]
  /\ UNCHANGED <<clock, atProvider, todo, waiting, latest, running, rows, poll, faults>>

Resume(p) ==
  /\ running[p] # None /\ answer[p] # None
  /\ Apply(running[p], answer[p])
  /\ UNCHANGED <<clock, atProvider, poll, faults>>

LookupFails(p) ==
  /\ running[p] # None /\ answer[p] = None
  /\ failures < MaxFailures
  /\ failures' = failures + 1
  /\ ReleaseObservation(running[p])
  /\ UNCHANGED <<clock, atProvider, todo, rows, poll, crashes, torn>>

-----------------------------------------------------------------------------
(* The customer stops the renewal: cancelCryptoSubscription.               *)

Access(p) ==
  /\ sub[p] # None
  /\ \/ sub[p].status = "active"
     \/ sub[p].status = "past_due" /\ sub[p].grace # None /\ sub[p].grace > clock

CancelledSub(row) == Upserted(row, [row EXCEPT !.status = "cancelled", !.due = None, !.at = clock])

CustomerCancels(p) ==
  /\ Cancels
  /\ Access(p)
  /\ sub' = [sub EXCEPT ![p] = CancelledSub(@)]
  /\ UNCHANGED <<clock, atProvider, todo, handling, processed, checkout, charge, poll, faults>>

-----------------------------------------------------------------------------
(* The poller: reconcileCryptoBilling.  The interval starts it again while *)
(* an earlier run still awaits its calls.                                  *)

PollStart(i) ==
  /\ poll[i].step = "idle"
  /\ poll' = [poll EXCEPT ![i] =
       [IdlePoll EXCEPT !.step = "payments", !.now = clock,
          !.left = {p \in Payments : checkout[p].status = "pending" /\ checkout[p].at # None}]]
  /\ UNCHANGED <<clock, atProvider, todo, handling, rows, faults>>

PollIsFree(i) == poll[i].heard = None /\ (poll[i].on = None \/ poll[i].on \notin waiting)

PollAsks(i, p) ==
  /\ poll[i].step = "payments" /\ PollIsFree(i)
  /\ p \in poll[i].left
  /\ poll' = [poll EXCEPT ![i].left = @ \ {p}, ![i].heard = EventOf(p, provider[p])]
  /\ UNCHANGED <<clock, atProvider, todo, handling, rows, faults>>

PollLookupFails(i, p) ==
  /\ poll[i].step = "payments" /\ PollIsFree(i)
  /\ p \in poll[i].left
  /\ failures < MaxFailures
  /\ failures' = failures + 1
  /\ poll' = [poll EXCEPT ![i].left = @ \ {p}]
  /\ UNCHANGED <<clock, atProvider, todo, handling, rows, crashes, torn>>

(* What was heard is processed as an event, and waited for.                *)
PollHears(i) ==
  /\ poll[i].heard # None
  /\ LET e == poll[i].heard IN
     IF e.status \in {"finished", "failed"}
       THEN /\ poll' = [poll EXCEPT ![i].heard = None, ![i].on = e]
            /\ IF e \in waiting THEN UNCHANGED handling ELSE Observe(e)
       ELSE poll' = [poll EXCEPT ![i].heard = None] /\ UNCHANGED handling
  /\ UNCHANGED <<clock, atProvider, todo, rows, faults>>

Overdue(row, now) == row.grace # None /\ row.grace <= now
Renewable(row, now) == row.due # None /\ row.due <= now /\ row.status = "active"

(* As a bug would have it: a subscription in its grace is passed over.     *)
MustMarkActive(row, now) ==
  row # None /\ row.status = "active" /\ (Overdue(row, now) \/ Renewable(row, now))

MustMark(row, now) ==
  row # None /\ row.status # "cancelled" /\ (Overdue(row, now) \/ Renewable(row, now))

NewGrace(row) == IF row.grace # None /\ row.grace > clock THEN row.grace ELSE clock + Grace

(* markSubscriptionCancelled and markSubscriptionPastDue write the row the *)
(* poller has read, with the time of the write.                            *)
Marked(row, now) ==
  IF Overdue(row, now)
    THEN [row EXCEPT !.status = "cancelled", !.due = None, !.at = clock]
    ELSE [row EXCEPT !.status = "past_due", !.grace = NewGrace(row), !.at = clock]

Mark(i, seen, left) ==
  IF \E p \in left : MustMark(seen[p], poll[i].now)
    THEN \E p \in left :
           /\ MustMark(seen[p], poll[i].now)
           /\ sub' = [sub EXCEPT ![p] = Upserted(@, Marked(seen[p], poll[i].now))]
           /\ poll' = [poll EXCEPT ![i].step = "subscriptions", ![i].left = left \ {p}, ![i].seen = seen]
    ELSE poll' = [poll EXCEPT ![i] = IdlePoll] /\ UNCHANGED sub

(* The list is read once; a message about each marked subscription is      *)
(* awaited before the next one.                                            *)
PollSubscriptions(i) ==
  /\ \/ poll[i].step = "payments" /\ poll[i].left = {} /\ PollIsFree(i) /\ Mark(i, sub, Payments)
     \/ poll[i].step = "subscriptions" /\ Mark(i, poll[i].seen, poll[i].left)
  /\ UNCHANGED <<clock, atProvider, todo, handling, processed, checkout, charge, faults>>

-----------------------------------------------------------------------------
LoseProgress ==
  /\ crashes < MaxCrashes
  /\ crashes' = crashes + 1
  /\ waiting' = {}
  /\ latest' = [p \in Payments |-> None]
  /\ running' = [p \in Payments |-> None]
  /\ answer' = [p \in Payments |-> None]
  /\ poll' = [i \in Pollers |-> IdlePoll]
  /\ UNCHANGED <<clock, atProvider, todo, processed, failures>>

Crash == LoseProgress /\ UNCHANGED <<checkout, sub, charge, torn>>

(* The writes of a completion up to some point: subscriptions of others,   *)
(* the payment's own, its checkout.                                        *)
TornFinish(p, report) ==
  /\ report.status = "finished" /\ ~Known(p, report.at)
  /\ UNCHANGED charge
  /\ \/ /\ \E others \in SUBSET Others(p) : sub' = Deactivated(others, report.at)
        /\ UNCHANGED <<checkout, torn>>
     \/ /\ sub' = Activated(p, report.at)
        /\ UNCHANGED checkout
        /\ torn' = [torn EXCEPT ![p] = "checkout"]
     \/ /\ sub' = Activated(p, report.at)
        /\ SaveCheckout(p, "completed", report)
        /\ torn' = [torn EXCEPT ![p] = "charge"]

(* And those of a refund: its checkout, its charge.                        *)
TornRefund(p, report) ==
  /\ report.status = "refunded" /\ checkout[p].status = "completed"
  /\ SaveCheckout(p, "completed", report)
  /\ \/ UNCHANGED charge
     \/ sub[p] # None /\ charge' = [charge EXCEPT ![p] = "refunded"]
  /\ UNCHANGED <<sub, torn>>

(* A crash after some or all writes for an event, which is not recorded.   *)
TornBy(p, report) ==
  /\ ~Outdated(p, report)
  /\ TornFinish(p, report) \/ TornRefund(p, report) \/ (Writes(p, report) /\ UNCHANGED torn)
  /\ LoseProgress

CrashTears(e) ==
  /\ e \notin processed
  /\ \/ running[e.of] = None /\ ~Contradicts(e) /\ TornBy(e.of, e)
     \/ running[e.of] = e /\ answer[e.of] # None /\ TornBy(e.of, answer[e.of])

Next ==
  \/ Tick
  \/ \E p \in Payments :
       \/ ProviderChanges(p) \/ GetPaymentStatus(p) \/ Resume(p) \/ LookupFails(p)
       \/ CustomerCancels(p)
  \/ \E e \in todo : Deliver(e)
  \/ \E e \in waiting : Begin(e) \/ CrashTears(e)
  \/ \E i \in Pollers :
       \/ PollStart(i) \/ PollHears(i) \/ PollSubscriptions(i)
       \/ \E p \in Payments : PollAsks(i, p) \/ PollLookupFails(i, p)
  \/ Crash

Spec == Init /\ [][Next]_vars

(* The poller is started by a timer, its calls return, and what waits      *)
(* under a key goes on; nothing is assumed of the provider's deliveries.   *)
Polling(i) == PollHears(i) \/ PollSubscriptions(i) \/ \E p \in Payments : PollAsks(i, p)

UnderKey(p) ==
  (\E e \in waiting : e.of = p /\ Begin(e)) \/ GetPaymentStatus(p) \/ Resume(p)

Fairness ==
  /\ WF_vars(Tick)
  /\ WF_vars(\E i \in Pollers : PollStart(i))
  /\ \A i \in Pollers : WF_vars(Polling(i))
  /\ \A p \in Payments : WF_vars(UnderKey(p))

FairSpec == Spec /\ Fairness

-----------------------------------------------------------------------------
(* Each variable has its type, and what is observed is remembered.         *)
TypeOK ==
  /\ clock \in Times
  /\ provider \in [Payments -> Reports]
  /\ sent \subseteq Events
  /\ todo \subseteq sent /\ waiting \subseteq sent /\ processed \subseteq sent
  /\ latest \in [Payments -> Times \cup {None}]
  /\ \A p \in Payments : latest[p] = None <=> ~\E e \in waiting : e.of = p
  /\ \A p \in Payments : running[p] \in {e \in waiting : e.of = p} \cup {None}
  /\ answer \in [Payments -> Reports \cup {None}]
  /\ checkout \in [Payments -> Checkouts]
  /\ sub \in [Payments -> Subs \cup {None}]
  /\ charge \in [Payments -> {"none", "succeeded", "refunded"}]
  /\ \A i \in Pollers : poll[i].step \in {"idle", "payments", "subscriptions"}
                         /\ poll[i].left \subseteq Payments
  /\ failures \in 0..MaxFailures /\ crashes \in 0..MaxCrashes
  /\ torn \in [Payments -> {"no", "checkout", "charge"}]

Is(p, status) == sub[p] # None /\ sub[p].status = status

Ended(p) == Is(p, "cancelled") \/ Is(p, "revoked")

Quiet(p) == \A e \in todo \cup waiting : e.of # p

(* When the events of a payment are processed, in whatever order they came *)
(* and whatever time they share: it is paid, its checkout complete and     *)
(* charged, or it was refunded or never paid and is not active.  A crash   *)
(* in the middle of a completion costs no more than what it has cut off:   *)
(* the charge, or else the checkout, which is why the subscription of a    *)
(* torn checkout is excepted (processPaymentFinished returns at once when  *)
(* the event is repeated).                                                 *)
AccessFollowsPayment ==
  \A p \in Payments :
    Quiet(p) /\ torn[p] # "checkout" =>
      IF provider[p].status = "finished"
        THEN /\ checkout[p].status = "completed" /\ sub[p] # None
             /\ torn[p] = "charge" \/ charge[p] = "succeeded"
        ELSE ~Is(p, "active")

(* A refund the provider has confirmed ends the access it paid for         *)
(* (cryptoBilling.test.ts:149, README.md:162).                             *)
RefundEndsAccess ==
  \A p \in Payments : Quiet(p) /\ provider[p].status = "refunded" => ~Access(p)

(* Some poller writes a row of p from the list it has read before an await.*)
MarksOldRow(p) ==
  \E i \in Pollers : poll[i].step = "subscriptions" /\ p \in poll[i].left \ poll'[i].left

(* A subscription that was cancelled or revoked stays so, whatever crashes,*)
(* is repeated or overlaps: a renewal is a subscription of its own.  Only  *)
(* a poller that goes on with an old list brings it back                   *)
(* (reconcileCryptoBilling), and never as active.                          *)
EndedIsFinal ==
  [][\A p \in Payments : Ended(p) => Ended(p)' \/ (MarksOldRow(p) /\ Is(p, "past_due")')]_vars

(* A renewal that is due does not stay unnoticed and its grace is not      *)
(* without end, although the poller works on lists it read before          *)
(* (reconcileCryptoBilling).                                               *)
DueEnds ==
  \A p \in Payments :
    /\ (Is(p, "active") /\ Renewable(sub[p], MaxTime)) ~> ~Is(p, "active")
    /\ (Is(p, "past_due") /\ Overdue(sub[p], MaxTime)) ~> Ended(p)

(* A payment whose event is lost is found by the poller, once an earlier   *)
(* event has named it.                                                     *)
PollerFindsPayments ==
  \A p \in Payments :
    (checkout[p].at # None /\ provider[p].status = "finished") ~>
      (sub[p] # None \/ checkout[p].status = "cancelled" \/ provider[p].status = "refunded")

(* The poller ends and finds what no event does.                           *)
PollerKeepsUp == DueEnds /\ PollerFindsPayments
==============================================================================
