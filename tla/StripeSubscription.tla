------------------------- MODULE StripeSubscription -------------------------
(***************************************************************************)
(* One subscription at Stripe and the copy this server keeps of it         *)
(* (packages/dkrypt/src/routes/billing.ts and billing.ts).                 *)
(*                                                                         *)
(* Stripe changes the subscription and sends an event for each change.     *)
(* Events arrive in any order and are repeated until one of their          *)
(* deliveries is answered 2xx.  They are processed one at a time under the *)
(* key of the subscription: module KeyedSerial shows that the key excludes *)
(* and that who waits for it gets it.  The routes with which a customer    *)
(* cancels or changes the plan do not take that key.                       *)
(*                                                                         *)
(* Time is counted in half seconds: this server's times are exact, the     *)
(* `created' of an event is the second it falls in.                        *)
(***************************************************************************)
EXTENDS Naturals, Sequences, FiniteSets

CONSTANTS
  Routes,       \* requests to cancel or to change the plan
  None,         \* no row, no answer
  MaxVersion,   \* bound on changes at Stripe, the cancelling of a refund aside
  MaxTime,      \* bound on the clock
  MaxInvoices,  \* bound on events that only ask for a lookup
  MaxRefunds,   \* bound on refunds
  MaxFailures,  \* bound on Stripe operations that fail
  MaxCrashes    \* bound on crashes

ASSUME BoundsAssumption ==
  /\ MaxVersion \in Nat \ {0}
  /\ {MaxTime, MaxInvoices, MaxRefunds, MaxFailures, MaxCrashes} \subseteq Nat

VARIABLES
  clock,
  remote,     \* the subscription at Stripe
  events,     \* the events Stripe has made of it
  todo,       \* those that are not processed
  forgotten,  \* the refunds Stripe need not send again, processed or not
  holder,     \* the event that holds the key, or None
  phase,      \* what the holder of the key awaits, if anything
  answer,     \* what Stripe answered it
  local,      \* the row of the subscription, or None
  route,      \* route[r]: how far request r is
  reply,      \* reply[r]: what Stripe answered it
  failures, crashes

atStripe == <<remote, events, forgotten>>
handling == <<todo, holder, phase, answer>>
requests == <<route, reply>>
bounds   == <<failures, crashes>>
vars     == <<clock, atStripe, handling, local, requests, bounds>>

Snapshots == [version : 1..MaxVersion + 1, status : {"active", "canceled"}]
Kinds     == {"subscription", "invoice", "refund"}
Events    == [kind : Kinds, created : 0..MaxTime, snapshot : Snapshots]
Rows      == [version : 1..MaxVersion + 1, occurredAt : 0..MaxTime,
              status : {"active", "canceled", "revoked"}]
Lookups   == {"reconcile", "create", "check"}

ASSUME NoneAssumption == None \notin Nat \cup Snapshots \cup Rows

Revoked == local # None /\ local.status = "revoked"

-----------------------------------------------------------------------------
Second == clock - (clock % 2)

EventOf(kind, snapshot) ==
  [kind |-> kind, created |-> Second, snapshot |-> snapshot]

Emits(kind, snapshot) ==
  /\ events' = Append(events, EventOf(kind, snapshot))
  /\ todo' = todo \cup {Len(events) + 1}
  /\ UNCHANGED forgotten

Init ==
  /\ clock = 0
  /\ remote = [version |-> 1, status |-> "active"]
  /\ events = <<EventOf("subscription", remote)>>
  /\ todo = {1}
  /\ forgotten = {}
  /\ holder = None
  /\ phase = "start"
  /\ answer = None
  /\ local = None
  /\ route = [r \in Routes |-> "idle"]
  /\ reply = [r \in Routes |-> None]
  /\ failures = 0
  /\ crashes = 0

Tick ==
  /\ clock < MaxTime
  /\ clock' = clock + 1
  /\ UNCHANGED <<atStripe, handling, local, requests, bounds>>

-----------------------------------------------------------------------------
(* Stripe.  A subscription that is canceled stays so.                      *)

Changed(status) == [version |-> remote.version + 1, status |-> status]

RemoteChange(status) ==
  /\ remote.status = "active"
  /\ remote' = Changed(status)
  /\ Emits("subscription", Changed(status))

StripeChanges ==
  /\ remote.version < MaxVersion
  /\ \E status \in {"active", "canceled"} : RemoteChange(status)
  /\ UNCHANGED <<clock, holder, phase, answer, local, requests, bounds>>

Sent(kind) == {i \in 1..Len(events) : events[i].kind = kind}

(* An invoice is paid or not paid, a checkout ends, or a charge is         *)
(* refunded: the event says that something happened, and is of a change of *)
(* the subscription at most by implication.                                *)
StripeReports ==
  /\ \/ Cardinality(Sent("invoice")) < MaxInvoices /\ Emits("invoice", remote)
     \/ Cardinality(Sent("refund")) < MaxRefunds /\ Emits("refund", remote)
  /\ UNCHANGED <<clock, remote, holder, phase, answer, local, requests, bounds>>

-----------------------------------------------------------------------------
(* The row.                                                                *)

Newer(row, at) == row # None /\ row.occurredAt > at

Upserted(old, new) == IF Newer(old, new.occurredAt) THEN old ELSE new

(* Mutant: persistStripeSubscription without refundRevoked.                *)
PersistedPlain(snapshot, at) ==
  Upserted(local, [version |-> snapshot.version, occurredAt |-> at, status |-> snapshot.status])

(* persistStripeSubscription: a refund is remembered.                      *)
Persisted(snapshot, at) ==
  Upserted(local, [version    |-> snapshot.version,
                   occurredAt |-> at,
                   status     |-> IF Revoked THEN "revoked" ELSE snapshot.status])

RevokedRow(row) ==
  IF row.status = "revoked" THEN row
  ELSE Upserted(row, [row EXCEPT !.status = "revoked", !.occurredAt = clock])

-----------------------------------------------------------------------------
(* The processing of an event under the key of the subscription.           *)

Running == holder # None
Current == events[holder]

Await(p) ==
  /\ phase' = p
  /\ answer' = None
  /\ UNCHANGED todo

LeaveKey ==
  /\ holder' = None
  /\ phase' = "start"
  /\ answer' = None

Processed(i) == todo' = todo \ {i} /\ LeaveKey

(* Mutant: of two events of one second the later to arrive wins.           *)
NeedsLookupIfOlder(e) ==
  \/ e.kind = "invoice"
  \/ e.kind = "subscription" /\ local # None /\ local.occurredAt > e.created

NeedsLookup(e) ==
  \/ e.kind = "invoice"
  \/ e.kind = "subscription" /\ local # None /\ local.occurredAt >= e.created

BeginSubscription(i) ==
  /\ holder = None
  /\ events[i].kind # "refund"
  /\ \/ /\ NeedsLookup(events[i])
        /\ holder' = i /\ Await("reconcile")
        /\ UNCHANGED local
     \/ /\ ~NeedsLookup(events[i])
        /\ local' = Persisted(events[i].snapshot, events[i].created)
        /\ Processed(i)
  /\ UNCHANGED <<clock, atStripe, requests, bounds>>

BeginRefund(i) ==
  /\ holder = None
  /\ events[i].kind = "refund"
  /\ holder' = i
  /\ IF local = None
       THEN Await("create") /\ UNCHANGED local
       ELSE local' = RevokedRow(local) /\ Await("check")
  /\ UNCHANGED <<clock, atStripe, requests, bounds>>

Begin(i) == BeginSubscription(i) \/ BeginRefund(i)

(* Stripe executes what the holder of the key has asked.                   *)
Retrieve ==
  /\ Running /\ phase \in Lookups /\ answer = None
  /\ answer' = remote
  /\ UNCHANGED <<clock, atStripe, todo, holder, phase, local, requests, bounds>>

CancelAtStripe ==
  /\ Running /\ phase = "cancel" /\ answer = None
  /\ RemoteChange("canceled")
  /\ answer' = Changed("canceled")
  /\ UNCHANGED <<clock, holder, phase, local, requests, bounds>>

(* reconcileStripeSubscription: what was retrieved is dropped when the row *)
(* has become newer than the event meanwhile.                              *)
Reconciled(row, snapshot, at) ==
  IF Newer(row, at) THEN row ELSE Persisted(snapshot, at)

Reconcile ==
  /\ Running /\ phase = "reconcile" /\ answer # None
  /\ local' = Reconciled(local, answer, Current.created)
  /\ Processed(holder)
  /\ UNCHANGED <<clock, atStripe, requests, bounds>>

CreateAndRevoke ==
  /\ Running /\ phase = "create" /\ answer # None
  /\ local' = RevokedRow(Persisted(answer, clock))
  /\ Await("check") /\ UNCHANGED holder
  /\ UNCHANGED <<clock, atStripe, requests, bounds>>

(* Mutant: Stripe goes on billing.                                         *)
EndRefundLocally ==
  /\ Running /\ answer # None
  /\ phase \in {"check", "cancel"}
  /\ local' = Persisted(answer, clock)
  /\ Processed(holder)
  /\ UNCHANGED <<clock, atStripe, requests, bounds>>

EndRefund ==
  /\ Running /\ answer # None
  /\ phase \in {"check", "cancel"}
  /\ IF answer.status = "canceled"
       THEN local' = Persisted(answer, clock) /\ Processed(holder)
       ELSE Await("cancel") /\ UNCHANGED <<holder, local>>
  /\ UNCHANGED <<clock, atStripe, requests, bounds>>

(* A duplicate that is delivered during an attempt at its event, one that  *)
(* waits for the key included, is answered 200, `inProgress'.  When the    *)
(* attempt then fails or dies, Stripe has its answer and need not repeat   *)
(* the event; only a manager's replay, which Begin also is, is left.  Kept *)
(* for refunds: of other events it is not assumed that they come at all.   *)
AttemptsEnd(attempted) ==
  \E duplicated \in SUBSET (attempted \cap Sent("refund")) :
    forgotten' = forgotten \cup duplicated

(* Mutant: a failed delivery is acknowledged.                              *)
ProcessingIsGivenUp ==
  /\ Running
  /\ failures < MaxFailures
  /\ failures' = failures + 1
  /\ Processed(holder)
  /\ UNCHANGED <<clock, atStripe, local, requests, crashes>>

(* An operation throws or its answer is lost: the delivery is answered 500 *)
(* and Stripe repeats it.                                                  *)
ProcessingFails ==
  /\ Running
  /\ failures < MaxFailures
  /\ failures' = failures + 1
  /\ LeaveKey
  /\ AttemptsEnd({holder})
  /\ UNCHANGED <<clock, remote, events, todo, local, requests, crashes>>

CancelRefused ==
  /\ Running /\ phase = "cancel" /\ answer = None
  /\ remote.status = "canceled"
  /\ LeaveKey
  /\ AttemptsEnd({holder})
  /\ UNCHANGED <<clock, remote, events, todo, local, requests, bounds>>

-----------------------------------------------------------------------------
(* The routes /v1/billing/cancel and /v1/billing/subscription, which await *)
(* Stripe without the key.                                                 *)

AskStripe(r) ==
  /\ route[r] = "idle"
  /\ local # None /\ local.status = "active"
  /\ route' = [route EXCEPT ![r] = "asked"]
  /\ UNCHANGED <<clock, atStripe, handling, local, reply, bounds>>

UpdateAtStripe(r) ==
  /\ route[r] = "asked"
  /\ remote.version < MaxVersion
  /\ RemoteChange("active")
  /\ route' = [route EXCEPT ![r] = "answered"]
  /\ reply' = [reply EXCEPT ![r] = Changed("active")]
  /\ UNCHANGED <<clock, holder, phase, answer, local, bounds>>

UpdateRefused(r) ==
  /\ route[r] = "asked"
  /\ route' = [route EXCEPT ![r] = "over"]
  /\ UNCHANGED <<clock, atStripe, handling, local, reply, bounds>>

PersistReply(r) ==
  /\ route[r] = "answered"
  /\ local' = Persisted(reply[r], clock)
  /\ route' = [route EXCEPT ![r] = "stored"]
  /\ UNCHANGED <<clock, atStripe, handling, reply, bounds>>

RouteSteps(r) == AskStripe(r) \/ UpdateAtStripe(r) \/ UpdateRefused(r) \/ PersistReply(r)

(* The row survives, all that was in progress is lost: while an event     *)
(* holds the key the others may be waiting for it.                         *)
Crash ==
  /\ crashes < MaxCrashes
  /\ crashes' = crashes + 1
  /\ LeaveKey
  /\ AttemptsEnd(IF Running THEN todo ELSE {})
  /\ route' = [r \in Routes |-> IF route[r] \in {"asked", "answered"} THEN "over" ELSE route[r]]
  /\ UNCHANGED <<clock, remote, events, todo, local, reply, failures>>

-----------------------------------------------------------------------------
Processing ==
  \/ Retrieve \/ CancelAtStripe \/ CancelRefused
  \/ Reconcile \/ CreateAndRevoke \/ EndRefund

Next ==
  \/ Tick
  \/ StripeChanges
  \/ StripeReports
  \/ \E i \in todo : Begin(i)
  \/ Processing
  \/ ProcessingFails
  \/ \E r \in Routes : RouteSteps(r)
  \/ Crash

Spec == Init /\ [][Next]_vars

(* Stripe repeats the deliveries of a refund that were not answered 2xx    *)
(* and answers what it is asked; who waits for the key gets it in turn.    *)
(* Nothing is assumed of other events and of managers.                     *)
FairSpec ==
  /\ Spec
  /\ WF_vars(Processing)
  /\ SF_vars(\E i \in (Sent("refund") \cap todo) \ forgotten : Begin(i))

-----------------------------------------------------------------------------
(* Each variable has its type; nothing is dated in the future.             *)
TypeOK ==
  /\ clock \in 0..MaxTime
  /\ remote \in Snapshots
  /\ remote.status = "active" => remote.version <= MaxVersion
  /\ events \in Seq(Events)
  /\ \A i \in 1..Len(events) : events[i].created <= clock
  /\ todo \subseteq 1..Len(events)
  /\ forgotten \subseteq 1..Len(events)
  /\ holder \in todo \cup {None}
  /\ phase \in Lookups \cup {"start", "cancel"}
  /\ Running <=> phase # "start"
  /\ answer \in Snapshots \cup {None}
  /\ local \in Rows \cup {None}
  /\ local # None => local.occurredAt <= clock
  /\ route \in [Routes -> {"idle", "asked", "answered", "stored", "over"}]
  /\ reply \in [Routes -> Snapshots \cup {None}]
  /\ \A r \in Routes : route[r] = "answered" => reply[r] # None
  /\ failures \in 0..MaxFailures
  /\ crashes \in 0..MaxCrashes

Quiet  == todo = {} /\ \A r \in Routes : route[r] \notin {"asked", "answered"}
Stored == \E r \in Routes : route[r] = "stored"

SameAsStripe ==
  local # None /\ local.version = remote.version /\ local.status = remote.status

(* Once all events are processed and no request is at work, the row says   *)
(* what Stripe says, unless the subscription was refunded or a request has *)
(* stored its answer: events that arrive in any order, share a second or   *)
(* overtake a lookup do not leave an old state behind (stripe.test.ts:434).*)
LocalFollowsStripe == Quiet /\ ~Stored => SameAsStripe \/ Revoked

(* The same without the exception: the test says of a delayed answer that  *)
(* it does not overwrite a newer event.                                    *)
AnswersDoNotOverwrite == Quiet => SameAsStripe \/ Revoked

(* When the event of a refund has been processed, access is revoked and    *)
(* Stripe will not bill again (processStripeRefund), whatever failed or    *)
(* was lost on the way there.                                              *)
RefundEndsBilling ==
  \A i \in Sent("refund") \ todo : Revoked /\ remote.status = "canceled"

(* No event, lookup or request brings a refunded subscription back.        *)
RefundIsFinal == [][Revoked => Revoked']_vars

(* A refund is honoured in the end, whatever fails, crashes or comes       *)
(* before it, unless of each of its events a duplicate was acknowledged    *)
(* during an attempt that failed or died.                                  *)
RefundsEnd ==
  Sent("refund") \ forgotten # {}
    ~> (Revoked /\ remote.status = "canceled") \/ Sent("refund") \subseteq forgotten
=============================================================================
