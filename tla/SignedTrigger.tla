--------------------------- MODULE SignedTrigger ---------------------------
(***************************************************************************)
(* Decrypts queued by an outside system (packages/dkrypt/src/routes/       *)
(* signedTriggerRoutes.ts, store/integrationRepository.ts): a request      *)
(* carries an event id; a row reserves the event before the release is     *)
(* resolved, and tells repetitions what became of it.                      *)
(*                                                                         *)
(* One policy.  Its signatures and scope are checked in one step with the  *)
(* reservation; queueing the job and marking the row are two writes.  The  *)
(* job enqueueDecryptJob returned to a request has the request's name.     *)
(***************************************************************************)
EXTENDS Naturals

CONSTANTS
  Calls,    \* requests with a valid signature, repetitions included
  EventOf,  \* EventOf[c]: the event id of request c
  NoCall    \* no request

TriggerEvents == {EventOf[c] : c \in Calls}

ASSUME NoCallAssumption == NoCall \notin Calls

VARIABLES
  call,      \* call[c]: how far request c is
  delivery,  \* delivery[e]: the row of event e (integration_deliveries)
  queuedBy,  \* the requests for which a decrypt was queued
  reply,     \* reply[c]: the answer to c and the job it names
  enabled    \* the policy has not been revoked

triggerVars == <<call, delivery, queuedBy, reply, enabled>>

NoDelivery == [status |-> "absent", by |-> NoCall, job |-> NoCall]
Deliveries == [status : {"processing", "accepted", "failed"}, by : Calls, job : Calls \cup {NoCall}]
NoReply    == [code |-> 0, job |-> NoCall]

TriggerInit ==
  /\ call = [c \in Calls |-> "new"]
  /\ delivery = [e \in TriggerEvents |-> NoDelivery]
  /\ queuedBy = {}
  /\ reply = [c \in Calls |-> NoReply]
  /\ enabled = TRUE

----------------------------------------------------------------------------
(* Nothing runs between queueing a job and marking its row.                *)
NoneQueueing == \A c \in Calls : call[c] # "queued"

Replied(c, code, job) ==
  /\ call' = [call EXCEPT ![c] = "over"]
  /\ reply' = [reply EXCEPT ![c] = [code |-> code, job |-> job]]

(* reserveIntegrationDelivery inserts the row: the event is c's.           *)
Reserve(c) ==
  /\ call[c] = "new" /\ NoneQueueing
  /\ enabled
  /\ delivery[EventOf[c]] = NoDelivery
  /\ call' = [call EXCEPT ![c] = "resolving"]
  /\ delivery' = [delivery EXCEPT ![EventOf[c]] = [status |-> "processing", by |-> c, job |-> NoCall]]
  /\ UNCHANGED <<queuedBy, reply, enabled>>

(* There is a row: a repetition is told its status and job.                *)
Repeated(c) ==
  LET row == delivery[EventOf[c]] IN
  /\ call[c] = "new" /\ NoneQueueing
  /\ enabled
  /\ row # NoDelivery
  /\ Replied(c, IF row.status = "accepted" THEN 200 ELSE 409, row.job)
  /\ UNCHANGED <<delivery, queuedBy, enabled>>

(* The policy was revoked, or its project or owner may not decrypt now.    *)
Refused(c) ==
  /\ call[c] = "new" /\ NoneQueueing
  /\ Replied(c, 403, NoCall)
  /\ UNCHANGED <<delivery, queuedBy, enabled>>

(* finishIntegrationDelivery: only the row c has reserved is changed.      *)
FinishDelivery(c, status, job) ==
  delivery' =
    IF delivery[EventOf[c]] = [status |-> "processing", by |-> c, job |-> NoCall]
    THEN [delivery EXCEPT ![EventOf[c]].status = status, ![EventOf[c]].job = job]
    ELSE delivery

(* resolveDecryptTarget, the comparison of sources or enqueueDecryptJob    *)
(* throws.                                                                 *)
TriggerFails(c) ==
  /\ call[c] = "resolving" /\ NoneQueueing
  /\ FinishDelivery(c, "failed", NoCall)
  /\ Replied(c, 502, NoCall)
  /\ UNCHANGED <<queuedBy, enabled>>

(* Mutant: the row is marked as free and stays.                            *)
TriggerReleasedInPlace(c) ==
  /\ call[c] = "resolving" /\ NoneQueueing
  /\ delivery' = [delivery EXCEPT ![EventOf[c]].status = "absent"]
  /\ Replied(c, 429, NoCall)
  /\ UNCHANGED <<queuedBy, enabled>>

(* enqueueDecryptJob has no quota left or no owner who may use it: the row *)
(* is removed, the event may be delivered again.                           *)
TriggerReleased(c) ==
  /\ call[c] = "resolving" /\ NoneQueueing
  /\ delivery' = [delivery EXCEPT ![EventOf[c]] = NoDelivery]
  /\ \E code \in {403, 429} : Replied(c, code, NoCall)
  /\ UNCHANGED <<queuedBy, enabled>>

(* enqueueDecryptJob has queued a job.                                     *)
QueueDecrypt(c) ==
  /\ call[c] = "resolving" /\ NoneQueueing
  /\ call' = [call EXCEPT ![c] = "queued"]
  /\ queuedBy' = queuedBy \cup {c}
  /\ UNCHANGED <<delivery, reply, enabled>>

(* The row is marked, and the job is named in the answer.                  *)
Accepted(c) ==
  /\ call[c] = "queued"
  /\ FinishDelivery(c, "accepted", c)
  /\ Replied(c, 202, c)
  /\ UNCHANGED <<queuedBy, enabled>>

(* The row cannot be marked as accepted: catch marks it as failed, unless  *)
(* that fails too, which is the answer then.                               *)
Unmarked(c) ==
  /\ call[c] = "queued"
  /\ \/ FinishDelivery(c, "failed", NoCall) /\ Replied(c, 502, NoCall)
     \/ UNCHANGED delivery /\ Replied(c, 500, NoCall)
  /\ UNCHANGED <<queuedBy, enabled>>

(* revokeSignedTriggerPolicy.                                              *)
Revoke ==
  /\ enabled /\ NoneQueueing
  /\ enabled' = FALSE
  /\ UNCHANGED <<call, delivery, queuedBy, reply>>

(* The process dies: rows and jobs stay.                                   *)
TriggerCrash ==
  /\ \E c \in Calls : call[c] \in {"resolving", "queued"}
  /\ call' = [c \in Calls |-> IF call[c] \in {"resolving", "queued"} THEN "lost" ELSE call[c]]
  /\ UNCHANGED <<delivery, queuedBy, reply, enabled>>

TriggerStep(c) ==
  \/ Reserve(c) \/ Repeated(c) \/ Refused(c) \/ TriggerFails(c) \/ TriggerReleased(c)
  \/ QueueDecrypt(c) \/ Accepted(c) \/ Unmarked(c)

TriggerNext == (\E c \in Calls : TriggerStep(c)) \/ Revoke \/ TriggerCrash

TriggerSpec == TriggerInit /\ [][TriggerNext]_triggerVars

----------------------------------------------------------------------------
(* Properties.                                                             *)

(* Each variable has its type.                                             *)
TriggerTypeOK ==
  /\ call \in [Calls -> {"new", "resolving", "queued", "over", "lost"}]
  /\ delivery \in [TriggerEvents -> {NoDelivery} \cup Deliveries]
  /\ queuedBy \subseteq Calls
  /\ reply \in [Calls -> [code : {0, 200, 202, 403, 409, 429, 500, 502}, job : Calls \cup {NoCall}]]
  /\ enabled \in BOOLEAN

(* "Duplicate event IDs never queue another decrypt" (README.md:185), not  *)
(* after failures, releases and crashes either.                            *)
EventsQueueOnce ==
  \A c, d \in queuedBy : EventOf[c] = EventOf[d] => c = d

(* An answer that names a job names the one job of the event.              *)
RepliesNameTheJob ==
  \A c \in Calls : reply[c].code \in {200, 202} =>
    reply[c].job \in queuedBy /\ EventOf[reply[c].job] = EventOf[c]

TriggersAreExact == EventsQueueOnce /\ RepliesNameTheJob
=============================================================================
