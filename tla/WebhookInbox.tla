---------------------------- MODULE WebhookInbox ----------------------------
(***************************************************************************)
(* The inbox of payment webhooks (packages/dkrypt/src/webhookInbox.ts and  *)
(* routes/billing.ts): a provider delivers an event until a delivery is    *)
(* acknowledged, managers quarantine and replay, the process may die.      *)
(*                                                                         *)
(* A handler is a delivery or a replay that has claimed the record and     *)
(* awaits the processing of its event; all it does before and after that   *)
(* is synchronous.  Claims are in memory, rows in the database.            *)
(***************************************************************************)
EXTENDS Naturals

CONSTANTS
  Events,         \* (provider, event id) pairs
  Invoices,       \* those isProcessedStripeInvoiceDelivery accepts
  Handlers,       \* deliveries and replays
  None,           \* no event
  MaxSaveFailures,\* bound on database writes that fail
  MaxCrashes      \* bound on crashes

ASSUME InvoicesAssumption == Invoices \subseteq Events
ASSUME NoneAssumption == None \notin Events
ASSUME BoundsAssumption == MaxSaveFailures \in Nat /\ MaxCrashes \in Nat

VARIABLES
  row,       \* row[e]: the status of the record of e
  doing,     \* doing[h]: what handler h is, or that it is over
  on,        \* on[h]: the event it works on
  claimed,   \* claimedRecords
  applied,   \* events whose processing has succeeded at least once
  acked,     \* events of which the provider knows a delivery was accepted
  crashes,   \* crashes so far
  failures   \* failed writes so far

vars == <<row, doing, on, claimed, applied, acked, crashes, failures>>

Statuses == {"absent", "received", "processed", "failed", "quarantined"}
By == {"delivery", "replay"}

Working(h)   == doing[h] \in By
WorkingOn(e) == {h \in Handlers : Working(h) /\ on[h] = e}

(* Each variable has its type, and the claims are those of the handlers.   *)
TypeOK ==
  /\ row \in [Events -> Statuses]
  /\ doing \in [Handlers -> By \cup {"idle", "over"}]
  /\ on \in [Handlers -> Events \cup {None}]
  /\ \A h \in Handlers : Working(h) => on[h] \in Events
  /\ claimed \subseteq Events
  /\ claimed = {e \in Events : WorkingOn(e) # {}}
  /\ applied \subseteq Events
  /\ acked \subseteq Events
  /\ crashes \in 0..MaxCrashes
  /\ failures \in 0..MaxSaveFailures

Init ==
  /\ row = [e \in Events |-> "absent"]
  /\ doing = [h \in Handlers |-> "idle"]
  /\ on = [h \in Handlers |-> None]
  /\ claimed = {}
  /\ applied = {}
  /\ acked = {}
  /\ crashes = 0
  /\ failures = 0

----------------------------------------------------------------------------
(* receiveWebhook: insertIfAbsent.                                         *)
Received(e) == IF row[e] = "absent" THEN [row EXCEPT ![e] = "received"] ELSE row

(* claimWebhook for a record of the given status.                          *)
MayClaim(status, e, allowQuarantined, allowProcessed) ==
  /\ status # "absent"
  /\ status = "processed" => allowProcessed
  /\ status = "quarantined" => allowQuarantined
  /\ e \notin claimed

(* Statuses of a known record with which a delivery is accepted unread.    *)
Settled == {"processed", "quarantined"}

(* The provider's request is answered, or it has given up waiting.         *)
Answered(e, code) ==
  \/ acked' = IF code = 200 THEN acked \cup {e} ELSE acked
  \/ UNCHANGED acked

(* A delivery that finds a settled record, or one a handler works on.      *)
DeliverDuplicate(h, e) ==
  /\ doing[h] = "idle"
  /\ row[e] \in Settled \/ (row[e] # "absent" /\ ~MayClaim(row[e], e, FALSE, FALSE))
  /\ doing' = [doing EXCEPT ![h] = "over"]
  /\ Answered(e, 200)
  /\ UNCHANGED <<row, on, claimed, applied, crashes, failures>>

(* A delivery that claims the record: processWebhookDelivery up to await.  *)
Deliver(h, e) ==
  /\ doing[h] = "idle"
  /\ row[e] \notin Settled
  /\ MayClaim(Received(e)[e], e, FALSE, FALSE)
  /\ row' = Received(e)
  /\ claimed' = claimed \cup {e}
  /\ doing' = [doing EXCEPT ![h] = "delivery"]
  /\ on' = [on EXCEPT ![h] = e]
  /\ UNCHANGED <<applied, acked, crashes, failures>>

(* The replay route up to await.  Processed records replay only if they    *)
(* are invoices.                                                           *)
Replay(h, e) ==
  /\ doing[h] = "idle"
  /\ row[e] = "processed" => e \in Invoices
  /\ MayClaim(row[e], e, TRUE, row[e] = "processed")
  /\ claimed' = claimed \cup {e}
  /\ doing' = [doing EXCEPT ![h] = "replay"]
  /\ on' = [on EXCEPT ![h] = e]
  /\ UNCHANGED <<row, applied, acked, crashes, failures>>

(* releaseWebhookClaim, in the finally block.                              *)
Released(h) == claimed \ {on[h]}

(* The status code of the answer. *)
Code(marked) == IF marked = "processed" THEN 200 ELSE 500

(* The handler ends with the record marked, or with no mark when the write *)
(* of the mark fails.                                                      *)
EndHandler(h, marked) ==
  /\ \/ row' = [row EXCEPT ![on[h]] = marked] /\ UNCHANGED failures
     \/ /\ marked = "failed" /\ failures < MaxSaveFailures
        /\ failures' = failures + 1
        /\ UNCHANGED row
  /\ claimed' = Released(h)
  /\ doing' = [doing EXCEPT ![h] = "over"]
  /\ IF doing[h] = "delivery" THEN Answered(on[h], Code(marked)) ELSE UNCHANGED acked
  /\ UNCHANGED <<on, crashes>>

(* The event has been processed: markWebhookProcessed.                     *)
Succeed(h) ==
  /\ Working(h)
  /\ EndHandler(h, "processed")
  /\ applied' = applied \cup {on[h]}

(* Mutant: the record is marked processed whether or not processing threw. *)
MarkedInAnyCase(h) ==
  /\ Working(h)
  /\ EndHandler(h, "processed")
  /\ UNCHANGED applied

(* Processing threw, or the record could not be marked after it: in either *)
(* case markWebhookFailed.  It may have had its effects.                   *)
Fail(h) ==
  /\ Working(h)
  /\ EndHandler(h, "failed")
  /\ \/ UNCHANGED applied
     \/ applied' = applied \cup {on[h]}

MayQuarantine(e) == row[e] \notin {"absent", "processed"} /\ e \notin claimed

(* quarantineWebhook.                                                      *)
Quarantine(e) ==
  /\ MayQuarantine(e)
  /\ row' = [row EXCEPT ![e] = "quarantined"]
  /\ UNCHANGED <<doing, on, claimed, applied, acked, crashes, failures>>

(* The process dies and starts again; handlers and claims are gone.  What  *)
(* a handler has processed by then may have had its effects.               *)
Crash ==
  /\ crashes < MaxCrashes
  /\ crashes' = crashes + 1
  /\ doing' = [h \in Handlers |-> IF Working(h) THEN "over" ELSE doing[h]]
  /\ claimed' = {}
  /\ \E E \in SUBSET claimed : applied' = applied \cup E
  /\ UNCHANGED <<row, on, acked, failures>>

Next ==
  \/ \E h \in Handlers :
       \/ \E e \in Events : Deliver(h, e) \/ DeliverDuplicate(h, e) \/ Replay(h, e)
       \/ Succeed(h)
       \/ Fail(h)
  \/ \E e \in Events : Quarantine(e)
  \/ Crash

Spec == Init /\ [][Next]_vars

----------------------------------------------------------------------------
(* Properties.                                                             *)

(* However deliveries and replays overlap, an event is processed by one    *)
(* handler at a time (webhookInbox.test.ts: "claims concurrent deliveries"). *)
OneHandlerPerEvent == \A e \in Events : \A g, h \in WorkingOn(e) : g = h

(* A record marked processed has been processed, also if the process died, *)
(* a manager interfered or another handler ran before.                     *)
ProcessedIsApplied == \A e \in Events : row[e] = "processed" => e \in applied

(* An event marked processed is worked on again only when a manager        *)
(* replays an invoice, so the provider's retries have no second effect.    *)
ProcessedOnce ==
  \A e \in Events, h \in Handlers :
    row[e] = "processed" /\ h \in WorkingOn(e) => e \in Invoices /\ doing[h] = "replay"

(* One handler works on an event, and what the inbox says of it is true    *)
(* now and stays true.                                                     *)
RecordsTellTheTruth == OneHandlerPerEvent /\ ProcessedIsApplied /\ ProcessedOnce

(* No delivery processes what a manager has quarantined: from quarantine a *)
(* record leaves only in the hands of a replay.                            *)
QuarantineHolds ==
  [][\A e \in Events : row[e] = "quarantined" /\ row'[e] # "quarantined"
       => \E h \in WorkingOn(e) : doing[h] = "replay"]_vars

(* An event is acknowledged only if it is processed, set aside by a        *)
(* manager, or about to be (stripe.test.ts: "retryable instead of          *)
(* acknowledging them").                                                   *)
AcknowledgedIsHandled ==
  \A e \in acked : row[e] \in Settled \/ e \in applied \/ WorkingOn(e) # {}
=============================================================================
