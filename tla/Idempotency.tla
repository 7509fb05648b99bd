---------------------------- MODULE Idempotency ----------------------------
(***************************************************************************)
(* Decrypt requests with an Idempotency-Key (packages/dkrypt/src/          *)
(* idempotency.ts and resolveIdempotentJob of routes/decrypt.ts).          *)
(*                                                                         *)
(* Requests with one key follow each other in a chain of promises; the     *)
(* request in front looks the key up, and if it is new queues a job and    *)
(* records it.  The job and its record are two writes with an await in     *)
(* between.  A job has the name of the request that queued it.  Requests   *)
(* without a key have no part in this and are left out.                    *)
(***************************************************************************)
EXTENDS Naturals

CONSTANTS
  Asks,           \* requests, repetitions included
  AskKey,         \* AskKey[q]: API key and Idempotency-Key of q
  Fingerprint,    \* Fingerprint[q]: the hash of its route and body
  OldFingerprint, \* OldFingerprint[q]: its hash before keys were sorted
  AskBuild,       \* AskBuild[q]: the build it asks for
  NoAsk,          \* no request
  KeyTtl,         \* IDEMPOTENCY_TTL_MS in steps of the clock
  MaxClock        \* bound on the clock

AskKeys == {AskKey[q] : q \in Asks}

ASSUME NoAskAssumption == NoAsk \notin Asks
ASSUME KeyTtlAssumption == KeyTtl \in Nat \ {0} /\ MaxClock \in Nat

VARIABLES
  stage,     \* stage[q]: how far request q is
  ahead,     \* ahead[q]: the request whose promise it awaits
  lockTail,  \* lockTail[k]: the last of the chain (idempotencyLocks)
  record,    \* record[k]: the row of key k (idempotency_keys)
  madeJob,   \* madeJob[q]: the job createJob returned to q
  retained,  \* the jobs that getJob knows
  answer,    \* answer[q]: what q was told, and until when it is promised
  clock

askVars == <<stage, ahead, lockTail, record, madeJob, retained, answer, clock>>

Stages == {"new", "waiting", "creating", "created", "over", "lost"}

NoRecord  == [fingerprint |-> NoAsk, job |-> NoAsk, expiresAt |-> 0]
NoAnswer  == [kind |-> "none", job |-> NoAsk, until |-> 0]
Rejection(why) == [NoAnswer EXCEPT !.kind = why]
JobAnswer(j, until) == [kind |-> "job", job |-> j, until |-> until]

AskInit ==
  /\ stage = [q \in Asks |-> "new"]
  /\ ahead = [q \in Asks |-> NoAsk]
  /\ lockTail = [k \in AskKeys |-> NoAsk]
  /\ record = [k \in AskKeys |-> NoRecord]
  /\ madeJob = [q \in Asks |-> NoAsk]
  /\ retained = {}
  /\ answer = [q \in Asks |-> NoAnswer]
  /\ clock = 0

----------------------------------------------------------------------------
(* IdempotencyRegistry.lookup finds a row that has not expired.            *)
Live(k) == record[k] # NoRecord /\ clock < record[k].expiresAt

(* The row of q's key was made by the same request (idempotencyJobId).     *)
Matches(q) == record[AskKey[q]].fingerprint \in {Fingerprint[q], OldFingerprint[q]}

(* withIdempotencyLock, up to await previous.                              *)
Arrive(q) ==
  /\ stage[q] = "new"
  /\ stage' = [stage EXCEPT ![q] = "waiting"]
  /\ ahead' = [ahead EXCEPT ![q] = lockTail[AskKey[q]]]
  /\ lockTail' = [lockTail EXCEPT ![AskKey[q]] = q]
  /\ UNCHANGED <<record, madeJob, retained, answer, clock>>

(* Mutant: requests do not wait for each other.                            *)
TurnAtOnce(q) == stage[q] = "waiting"

(* The promise q awaits is resolved.                                       *)
HasTurn(q) == stage[q] = "waiting" /\ (ahead[q] # NoAsk => stage[ahead[q]] = "over")

(* Request q is answered with a: withIdempotencyLock, finally.             *)
Answer(q, a) ==
  LET k == AskKey[q] IN
  /\ answer' = [answer EXCEPT ![q] = a]
  /\ stage' = [stage EXCEPT ![q] = "over"]
  /\ lockTail' = IF lockTail[k] = q THEN [lockTail EXCEPT ![k] = NoAsk] ELSE lockTail
  /\ UNCHANGED <<ahead, madeJob, clock>>

(* The key is known: the request of the row is told its job again, if the  *)
(* job is retained; any other request is a conflict.                       *)
Recall(q) ==
  LET k == AskKey[q] IN
  /\ HasTurn(q) /\ Live(k)
  /\ Answer(q, IF ~Matches(q) THEN Rejection("conflict")
               ELSE IF record[k].job \in retained THEN JobAnswer(record[k].job, record[k].expiresAt)
               ELSE Rejection("gone"))
  /\ UNCHANGED <<record, retained>>

(* The key is new, or its row has expired and is deleted.                  *)
Begin(q) ==
  /\ HasTurn(q) /\ ~Live(AskKey[q])
  /\ stage' = [stage EXCEPT ![q] = "creating"]
  /\ record' = [record EXCEPT ![AskKey[q]] = NoRecord]
  /\ UNCHANGED <<ahead, lockTail, madeJob, retained, answer, clock>>

(* createJob: enqueueDecryptJob queues a job, or answers with one of the   *)
(* same build that is active or can be used again.                         *)
CreateJob(q, j) ==
  /\ stage[q] = "creating"
  /\ j = q \/ (j \in retained /\ AskBuild[j] = AskBuild[q])
  /\ stage' = [stage EXCEPT ![q] = "created"]
  /\ madeJob' = [madeJob EXCEPT ![q] = j]
  /\ retained' = retained \cup {j}
  /\ UNCHANGED <<ahead, lockTail, record, answer, clock>>

(* createJob throws: no target, no quota; or the row cannot be written.    *)
Fails(q) ==
  /\ stage[q] \in {"creating", "created"}
  /\ Answer(q, Rejection("failed"))
  /\ UNCHANGED <<record, retained>>

ExpiresAt == clock + KeyTtl

(* apiIdempotencyRegistry.record, and the answer.                          *)
RecordJob(q) ==
  /\ stage[q] = "created"
  /\ record' = [record EXCEPT ![AskKey[q]] =
       [fingerprint |-> Fingerprint[q], job |-> madeJob[q], expiresAt |-> ExpiresAt]]
  /\ Answer(q, JobAnswer(madeJob[q], ExpiresAt))
  /\ UNCHANGED retained

(* Retention removes a job; its number is never used again.                *)
PruneJob(j) ==
  /\ j \in retained
  /\ \A q \in Asks : stage[q] = "created" => madeJob[q] # j
  /\ retained' = retained \ {j}
  /\ UNCHANGED <<stage, ahead, lockTail, record, madeJob, answer, clock>>

(* The process dies: jobs and rows stay, requests and locks do not.        *)
AskCrash ==
  /\ \E q \in Asks : stage[q] \in {"waiting", "creating", "created"}
  /\ stage' = [q \in Asks |->
       IF stage[q] \in {"waiting", "creating", "created"} THEN "lost" ELSE stage[q]]
  /\ lockTail' = [k \in AskKeys |-> NoAsk]
  /\ UNCHANGED <<ahead, record, madeJob, retained, answer, clock>>

ClockTicks ==
  /\ clock < MaxClock
  /\ clock' = clock + 1
  /\ UNCHANGED <<stage, ahead, lockTail, record, madeJob, retained, answer>>

AskStep(q) ==
  Arrive(q) \/ Recall(q) \/ Begin(q) \/ Fails(q) \/ RecordJob(q) \/ PruneJob(q)

AskNext ==
  \/ \E q \in Asks : AskStep(q) \/ \E j \in Asks : CreateJob(q, j)
  \/ AskCrash
  \/ ClockTicks

AskSpec == AskInit /\ [][AskNext]_askVars

----------------------------------------------------------------------------
(* Properties.                                                             *)

(* Each variable has its type.                                             *)
AskTypeOK ==
  /\ stage \in [Asks -> Stages]
  /\ ahead \in [Asks -> Asks \cup {NoAsk}]
  /\ lockTail \in [AskKeys -> Asks \cup {NoAsk}]
  /\ \A k \in AskKeys : record[k].job \in Asks \cup {NoAsk} /\ record[k].expiresAt \in Nat
  /\ madeJob \in [Asks -> Asks \cup {NoAsk}]
  /\ retained \subseteq Asks
  /\ \A q \in Asks : answer[q].job \in Asks \cup {NoAsk} /\ answer[q].until \in Nat
  /\ clock \in 0..MaxClock

(* Until the promise ends a repetition finds what the first was told.      *)
AnswersAreRecorded ==
  \A q \in Asks : answer[q].kind = "job" /\ clock < answer[q].until =>
    LET known == record[AskKey[q]] IN
    known.job = answer[q].job /\ known.expiresAt = answer[q].until /\ Matches(q)

(* A job is queued only for a key that is new, by one request at a time.   *)
KeysQueueOnce ==
  \A q \in Asks : stage[q] \in {"creating", "created"} =>
    /\ ~Live(AskKey[q])
    /\ \A p \in Asks \ {q} : AskKey[p] = AskKey[q] => stage[p] \notin {"creating", "created"}

(* However requests with one key overlap, fail or are repeated after a     *)
(* crash, a key stands for one request and one job until it expires.       *)
IdempotencyHolds == AnswersAreRecorded /\ KeysQueueOnce
=============================================================================
