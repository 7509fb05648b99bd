---------------------------- MODULE ServerProofs ----------------------------
(***************************************************************************)
(* What TLC checks of the parts of the server (MCServer), for any requests *)
(* and any bounds: what is asked for repeatedly is done once (triggers,    *)
(* idempotency keys, checkouts); an attempt at an installation waits for   *)
(* what it started; TestFlight subscriptions, the session of the Apple     *)
(* Account and the account that two have become are sound.  What the       *)
(* server keeps is in ServerStoreProofs.                                   *)
(***************************************************************************)
EXTENDS MCServer, FiniteSetTheorems, TLAPS

----------------------------------------------------------------------------
(* Triggers.  A row stays reserved by the request that inserted it, for as *)
(* long as it is there; whoever removes it is that request, and has queued *)
(* nothing.                                                                *)

(* The row of an event as its request has inserted it.                     *)
Processing(c) == [status |-> "processing", by |-> c, job |-> NoCall]

(* A request under way has its row, untouched, and one that queued a job   *)
(* had the event to itself for good.                                       *)
RowsAreReserved ==
  /\ \A c \in Calls : call[c] = "resolving" => delivery[EventOf[c]] = Processing(c) /\ c \notin queuedBy
  /\ \A c \in Calls : call[c] = "queued" => delivery[EventOf[c]] = Processing(c) /\ c \in queuedBy
  /\ \A c \in queuedBy : delivery[EventOf[c]].by = c

(* A row names the job of the request that reserved it, if any.            *)
RowsNameTheJob ==
  \A e \in TriggerEvents :
    /\ delivery[e].status = "accepted" => delivery[e].job # NoCall
    /\ delivery[e].job # NoCall => delivery[e].job \in queuedBy /\ EventOf[delivery[e].job] = e

TriggerIInv == TriggerTypeOK /\ RowsAreReserved /\ RowsNameTheJob /\ RepliesNameTheJob

(* The initial state satisfies it.                                         *)
LEMMA TriggerInitIInv == TriggerInit => TriggerIInv
  BY DEF TriggerInit, TriggerIInv, TriggerTypeOK, RowsAreReserved, RowsNameTheJob,
         RepliesNameTheJob, NoDelivery, NoReply

(* The end of a request: only its row can change, and only what it says of *)
(* the job.                                                                *)
LEMMA FinishLemma ==
  ASSUME TriggerIInv, NEW c \in Calls, call[c] \in {"resolving", "queued"},
         NEW mark \in {"failed", "accepted"}, NEW job \in {NoCall, c},
         FinishDelivery(c, mark, job)
  PROVE  /\ delivery' \in [TriggerEvents -> {NoDelivery} \cup Deliveries]
         /\ \A e \in TriggerEvents \ {EventOf[c]} : delivery'[e] = delivery[e]
         /\ LET r == delivery'[EventOf[c]] IN r.status = mark /\ r.by = c /\ r.job = job
  <1>1. delivery[EventOf[c]] = Processing(c) /\ EventOf[c] \in TriggerEvents
    BY DEF TriggerIInv, RowsAreReserved, TriggerEvents
  <1>2. delivery \in [TriggerEvents -> {NoDelivery} \cup Deliveries]
    BY DEF TriggerIInv, TriggerTypeOK
  <1>3. delivery' = [delivery EXCEPT ![EventOf[c]].status = mark, ![EventOf[c]].job = job]
    BY <1>1 DEF FinishDelivery, Processing
  <1> DEFINE r == [[delivery[EventOf[c]] EXCEPT !.status = mark] EXCEPT !.job = job]
  <1>4. delivery' = [delivery EXCEPT ![EventOf[c]] = r]
    BY <1>1, <1>2, <1>3
  <1>5. Processing(c) \in Deliveries /\ Processing(c).by = c
    BY DEF Processing, Deliveries
  <1>6. r \in Deliveries /\ r.status = mark /\ r.by = c /\ r.job = job
    BY <1>1, <1>5 DEF Deliveries
  <1> HIDE DEF r
  <1> QED
    BY <1>1, <1>2, <1>4, <1>6

(* Every step preserves it.                                                *)
LEMMA TriggerNextIInv == TriggerIInv /\ [TriggerNext]_triggerVars => TriggerIInv'
  <1> SUFFICES ASSUME TriggerIInv, [TriggerNext]_triggerVars PROVE TriggerIInv'
    OBVIOUS
  <1>0. /\ call \in [Calls -> {"new", "resolving", "queued", "over", "lost"}]
        /\ delivery \in [TriggerEvents -> {NoDelivery} \cup Deliveries]
        /\ queuedBy \subseteq Calls /\ NoCall \notin Calls
        /\ reply \in [Calls -> [code : {0, 200, 202, 403, 409, 429, 500, 502}, job : Calls \cup {NoCall}]]
        /\ enabled \in BOOLEAN
        /\ RowsAreReserved /\ RowsNameTheJob /\ RepliesNameTheJob
        /\ \A c \in Calls : EventOf[c] \in TriggerEvents
    BY NoCallAssumption DEF TriggerIInv, TriggerTypeOK, TriggerEvents
  <1>1. ASSUME NEW c \in Calls, Reserve(c) PROVE TriggerIInv'
    <2>1. /\ call[c] = "new" /\ call' = [call EXCEPT ![c] = "resolving"]
          /\ delivery[EventOf[c]] = NoDelivery
          /\ delivery' = [delivery EXCEPT ![EventOf[c]] = Processing(c)]
          /\ UNCHANGED <<queuedBy, reply, enabled>>
      BY <1>1 DEF Reserve, Processing
    <2>2. TriggerTypeOK'
      BY <1>0, <2>1 DEF TriggerTypeOK, Processing, Deliveries
    <2>3. \A d \in Calls : call[d] \in {"resolving", "queued"} \/ d \in queuedBy
            => EventOf[d] # EventOf[c]
      <3>1. NoDelivery.by = NoCall /\ NoDelivery.status = "absent"
        BY DEF NoDelivery
      <3>2. \A d \in Calls : Processing(d).status = "processing"
        BY DEF Processing
      <3> QED
        BY <1>0, <2>1, <3>1, <3>2 DEF RowsAreReserved
    <2>4. RowsAreReserved'
      BY <1>0, <2>1, <2>3 DEF RowsAreReserved
    <2>5. RowsNameTheJob' /\ RepliesNameTheJob'
      BY <1>0, <2>1 DEF RowsNameTheJob, RepliesNameTheJob, Processing
    <2> QED
      BY <2>2, <2>4, <2>5 DEF TriggerIInv
  <1>2. ASSUME NEW c \in Calls, Repeated(c) \/ Refused(c) PROVE TriggerIInv'
    <2>1. PICK code \in {200, 403, 409}, job \in Calls \cup {NoCall} :
            /\ Replied(c, code, job)
            /\ code = 200 => delivery[EventOf[c]].status = "accepted" /\ job = delivery[EventOf[c]].job
      BY <1>0, <1>2 DEF Repeated, Refused, NoDelivery, Deliveries
    <2>2. call[c] = "new" /\ UNCHANGED <<delivery, queuedBy, enabled>>
      BY <1>2 DEF Repeated, Refused
    <2>3. TriggerTypeOK'
      BY <1>0, <2>1, <2>2 DEF TriggerTypeOK, Replied
    <2>4. RowsAreReserved' /\ RowsNameTheJob'
      BY <1>0, <2>1, <2>2 DEF RowsAreReserved, RowsNameTheJob, Replied
    <2>5. RepliesNameTheJob'
      BY <1>0, <2>1, <2>2 DEF RepliesNameTheJob, RowsNameTheJob, Replied
    <2> QED
      BY <2>3, <2>4, <2>5 DEF TriggerIInv
  <1>3. ASSUME NEW c \in Calls, NEW mark \in {"failed", "accepted"}, NEW job \in {NoCall, c},
               NEW code \in {202, 502}, call[c] \in {"resolving", "queued"},
               FinishDelivery(c, mark, job), Replied(c, code, job), UNCHANGED <<queuedBy, enabled>>,
               mark = "accepted" \/ code = 202 \/ job # NoCall => call[c] = "queued" /\ job = c
        PROVE  TriggerIInv'
    <2>1. /\ delivery' \in [TriggerEvents -> {NoDelivery} \cup Deliveries]
          /\ \A e \in TriggerEvents \ {EventOf[c]} : delivery'[e] = delivery[e]
          /\ LET r == delivery'[EventOf[c]] IN r.status = mark /\ r.by = c /\ r.job = job
      BY <1>3, FinishLemma
    <2>2. /\ call' = [call EXCEPT ![c] = "over"]
          /\ reply' = [reply EXCEPT ![c] = [code |-> code, job |-> job]]
      BY <1>3 DEF Replied
    <2>3. TriggerTypeOK'
      BY <1>0, <1>3, <2>1, <2>2 DEF TriggerTypeOK, Deliveries
    <2>4. /\ delivery[EventOf[c]] = Processing(c) /\ delivery[EventOf[c]].by = c
          /\ call[c] = "queued" => c \in queuedBy
      BY <1>3 DEF TriggerIInv, RowsAreReserved, Processing
    <2>5. \A d \in Calls \ {c} : call[d] \in {"resolving", "queued"} => EventOf[d] # EventOf[c]
      <3>1. \A d \in Calls : Processing(d).by = d
        BY DEF Processing
      <3> QED
        BY <1>0, <2>4, <3>1 DEF RowsAreReserved
    <2>6. RowsAreReserved'
      BY <1>0, <1>3, <2>1, <2>2, <2>4, <2>5 DEF RowsAreReserved
    <2>7. RowsNameTheJob' /\ RepliesNameTheJob'
      BY <1>0, <1>3, <2>1, <2>2, <2>4 DEF RowsNameTheJob, RepliesNameTheJob
    <2> QED
      BY <2>3, <2>6, <2>7 DEF TriggerIInv
  <1>4. ASSUME NEW c \in Calls, TriggerFails(c) PROVE TriggerIInv'
    BY <1>3, <1>4 DEF TriggerFails
  <1>5. ASSUME NEW c \in Calls, TriggerReleased(c) PROVE TriggerIInv'
    <2>1. PICK code \in {403, 429} : Replied(c, code, NoCall)
      BY <1>5 DEF TriggerReleased
    <2>2. /\ call[c] = "resolving" /\ delivery' = [delivery EXCEPT ![EventOf[c]] = NoDelivery]
          /\ UNCHANGED <<queuedBy, enabled>>
      BY <1>5 DEF TriggerReleased
    <2>3. TriggerTypeOK'
      BY <1>0, <2>1, <2>2 DEF TriggerTypeOK, Replied
    <2>4. delivery[EventOf[c]].by = c /\ c \notin queuedBy
      <3>1. delivery[EventOf[c]] = Processing(c) /\ c \notin queuedBy
        BY <1>0, <2>2 DEF RowsAreReserved
      <3> QED
        BY <3>1 DEF Processing
    <2>5. \A d \in Calls \ {c} : call[d] \in {"resolving", "queued"} \/ d \in queuedBy
            => EventOf[d] # EventOf[c]
      <3>1. \A d \in Calls : Processing(d).by = d
        BY DEF Processing
      <3> QED
        BY <1>0, <2>4, <3>1 DEF RowsAreReserved
    <2>6. RowsAreReserved'
      BY <1>0, <2>1, <2>2, <2>4, <2>5 DEF RowsAreReserved, Replied
    <2>7. RowsNameTheJob' /\ RepliesNameTheJob'
      BY <1>0, <2>1, <2>2 DEF RowsNameTheJob, RepliesNameTheJob, Replied, NoDelivery
    <2> QED
      BY <2>3, <2>6, <2>7 DEF TriggerIInv
  <1>6. ASSUME NEW c \in Calls, QueueDecrypt(c) PROVE TriggerIInv'
    <2>1. /\ call[c] = "resolving" /\ call' = [call EXCEPT ![c] = "queued"]
          /\ queuedBy' = queuedBy \cup {c} /\ UNCHANGED <<delivery, reply, enabled>>
      BY <1>6 DEF QueueDecrypt
    <2>2. delivery[EventOf[c]] = Processing(c) /\ delivery[EventOf[c]].by = c
      BY <1>0, <2>1 DEF RowsAreReserved, Processing
    <2>3. TriggerTypeOK' /\ RowsAreReserved'
      BY <1>0, <2>1, <2>2 DEF TriggerTypeOK, RowsAreReserved
    <2>4. RowsNameTheJob' /\ RepliesNameTheJob'
      BY <1>0, <2>1 DEF RowsNameTheJob, RepliesNameTheJob
    <2> QED
      BY <2>3, <2>4 DEF TriggerIInv
  <1>7. ASSUME NEW c \in Calls, Accepted(c) PROVE TriggerIInv'
    BY <1>3, <1>7 DEF Accepted
  <1>8. ASSUME NEW c \in Calls, Unmarked(c) PROVE TriggerIInv'
    <2>1. CASE FinishDelivery(c, "failed", NoCall) /\ Replied(c, 502, NoCall)
      BY <1>3, <1>8, <2>1 DEF Unmarked
    <2>2. CASE UNCHANGED delivery /\ Replied(c, 500, NoCall)
      <3>1. UNCHANGED <<delivery, queuedBy, enabled>>
        BY <1>8, <2>2 DEF Unmarked
      <3>2. TriggerTypeOK' /\ RowsAreReserved'
        BY <1>0, <2>2, <3>1 DEF TriggerTypeOK, RowsAreReserved, Replied
      <3>3. RowsNameTheJob' /\ RepliesNameTheJob'
        BY <1>0, <2>2, <3>1 DEF RowsNameTheJob, RepliesNameTheJob, Replied
      <3> QED
        BY <3>2, <3>3 DEF TriggerIInv
    <2> QED
      BY <1>8, <2>1, <2>2 DEF Unmarked
  <1>9. CASE Revoke
    BY ZenonT(30), <1>0, <1>9
    DEF Revoke, TriggerIInv, TriggerTypeOK, RowsAreReserved, RowsNameTheJob, RepliesNameTheJob
  <1>10. CASE TriggerCrash
    BY <1>0, <1>10
    DEF TriggerCrash, TriggerIInv, TriggerTypeOK, RowsAreReserved, RowsNameTheJob, RepliesNameTheJob
  <1>11. CASE UNCHANGED triggerVars
    BY <1>0, <1>11
    DEF triggerVars, TriggerIInv, TriggerTypeOK, RowsAreReserved, RowsNameTheJob, RepliesNameTheJob
  <1> QED
    BY <1>1, <1>2, <1>4, <1>5, <1>6, <1>7, <1>8, <1>9, <1>10, <1>11 DEF TriggerNext, TriggerStep

(* Requests that keep their rows cannot queue a second job.                *)
LEMMA TriggerIsExact == TriggerIInv => TriggersAreExact
  BY DEF TriggerIInv, RowsAreReserved, TriggersAreExact, EventsQueueOnce, TriggerTypeOK

(* No repetition of an event queues another decrypt, after failures,       *)
(* releases and crashes either, and whoever is told of a job is told of    *)
(* the one of his event (routes/signedTriggerRoutes.ts).                   *)
THEOREM EventsCountOnce == TriggerSpec => []TriggersAreExact
  BY TriggerIsExact, TriggerInitIInv, TriggerNextIInv, PTL DEF TriggerSpec

----------------------------------------------------------------------------
(* Idempotency keys.  withIdempotencyLock keeps no queue: a request knows  *)
(* only the promise ahead of it, and the map only the last of each key.    *)
(* That one request of a key goes on at a time follows from an order the   *)
(* code does not record: tickets, drawn on arrival, that rise along each   *)
(* chain, of which the map holds the highest and only the lowest goes on.  *)

UnderWay(q) == stage[q] \in {"waiting", "creating", "created"}

(* It is not behind a request that is under way.                           *)
InFront(q) == UnderWay(q) /\ (stage[q] = "waiting" => ahead[q] = NoAsk \/ ~UnderWay(ahead[q]))

Rivals(q) == {p \in Asks \ {q} : UnderWay(p) /\ AskKey[p] = AskKey[q]}

(* The order of the requests, by tickets.                                  *)
TicketsDiffer(ticket) ==
  \A q \in Asks : UnderWay(q) => \A p \in Rivals(q) : ticket[p] # ticket[q]

LastIsHighest(ticket) ==
  \A q \in Asks : UnderWay(q) =>
    /\ lockTail[AskKey[q]] # NoAsk
    /\ ticket[q] <= ticket[lockTail[AskKey[q]]]

NextIsBehind(ticket) ==
  \A q \in Asks : UnderWay(q) /\ ~InFront(q) =>
    /\ AskKey[ahead[q]] = AskKey[q] /\ ticket[ahead[q]] < ticket[q]
    /\ \A p \in Rivals(q) : ticket[p] <= ticket[ahead[q]] \/ ticket[q] < ticket[p]

FrontIsLowest(ticket) ==
  \A q \in Asks : InFront(q) => \A p \in Rivals(q) : ticket[q] < ticket[p]

ChainsInOrder(ticket) ==
  TicketsDiffer(ticket) /\ LastIsHighest(ticket) /\ NextIsBehind(ticket) /\ FrontIsLowest(ticket)

(* The map names nobody but requests under way, and nobody waits for one   *)
(* that has yet to come.                                                   *)
TailsAreUnderWay ==
  /\ \A k \in AskKeys : lockTail[k] # NoAsk => UnderWay(lockTail[k]) /\ AskKey[lockTail[k]] = k
  /\ \A q \in Asks : ahead[q] # NoAsk => stage[ahead[q]] # "new"

AskChains == TailsAreUnderWay /\ \E ticket \in [Asks -> Nat] : ChainsInOrder(ticket)

AskTypes ==
  /\ stage \in [Asks -> Stages]
  /\ ahead \in [Asks -> Asks \cup {NoAsk}]
  /\ lockTail \in [AskKeys -> Asks \cup {NoAsk}]

(* A first request of a key has its key for itself.                        *)
LEMMA FrontIsAlone ==
  ASSUME AskTypes, AskChains, NEW p \in Asks, NEW q \in Asks, InFront(p), InFront(q), AskKey[p] = AskKey[q]
  PROVE  p = q
  <1>1. PICK ticket \in [Asks -> Nat] : ChainsInOrder(ticket)
    BY DEF AskChains
  <1>2. SUFFICES ASSUME p # q PROVE FALSE
    OBVIOUS
  <1>3. p \in Rivals(q) /\ q \in Rivals(p)
    BY <1>2 DEF Rivals, InFront
  <1>4. ticket[p] < ticket[q] /\ ticket[q] < ticket[p] /\ ticket[p] \in Nat /\ ticket[q] \in Nat
    BY <1>1, <1>3 DEF ChainsInOrder, FrontIsLowest
  <1> QED
    BY <1>4

(* A request arrives and draws the next ticket of its key.                 *)
LEMMA ArriveChains ==
  ASSUME AskTypes, AskChains, NEW q \in Asks, Arrive(q)
  PROVE  AskChains'
  <1>1. PICK ticket \in [Asks -> Nat] : ChainsInOrder(ticket)
    BY DEF AskChains
  <1> DEFINE last == lockTail[AskKey[q]]
  <1>2. /\ stage[q] = "new" /\ stage' = [stage EXCEPT ![q] = "waiting"]
        /\ ahead' = [ahead EXCEPT ![q] = last]
        /\ lockTail' = [lockTail EXCEPT ![AskKey[q]] = q]
        /\ AskKey[q] \in AskKeys /\ last \in Asks \cup {NoAsk}
        /\ NoAsk \notin Asks
    BY NoAskAssumption DEF Arrive, AskKeys, AskTypes
  <1>3. /\ \A p \in Asks : UnderWay(p)' <=> (UnderWay(p) \/ p = q)
        /\ ~UnderWay(q)
        /\ last # NoAsk => UnderWay(last) /\ AskKey[last] = AskKey[q] /\ last # q
        /\ last = NoAsk => Rivals(q) = {}
    <2>1. \A p \in Asks : UnderWay(p)' <=> (UnderWay(p) \/ p = q)
      BY <1>2 DEF UnderWay, AskTypes
    <2>2. ~UnderWay(q)
      BY <1>2 DEF UnderWay
    <2>3. last # NoAsk => UnderWay(last) /\ AskKey[last] = AskKey[q] /\ last # q
      BY <1>2, <2>2 DEF AskChains, TailsAreUnderWay
    <2>4. last = NoAsk => Rivals(q) = {}
      BY <1>1, <1>2 DEF ChainsInOrder, LastIsHighest, Rivals
    <2> QED
      BY <2>1, <2>2, <2>3, <2>4
  <1>4. PICK drawn \in [Asks -> Nat] :
          /\ \A p \in Asks \ {q} : drawn[p] = ticket[p]
          /\ last # NoAsk => drawn[q] = ticket[last] + 1
    <2>1. [ticket EXCEPT ![q] = IF last = NoAsk THEN 0 ELSE ticket[last] + 1] \in [Asks -> Nat]
      BY <1>2
    <2> QED
      BY <1>2, <2>1
  <1>5. \A p \in Rivals(q) : /\ last # NoAsk /\ ticket[p] <= ticket[last]
                              /\ drawn[p] < drawn[q]
    BY <1>1, <1>2, <1>3, <1>4 DEF ChainsInOrder, LastIsHighest, Rivals, AskTypes
  <1>6. TailsAreUnderWay'
    <2>1. \A k \in AskKeys : lockTail'[k] # NoAsk => UnderWay(lockTail[k])' /\ AskKey[lockTail'[k]] = k
      <3> SUFFICES ASSUME NEW k \in AskKeys, lockTail'[k] # NoAsk
                   PROVE  UnderWay(lockTail[k])' /\ AskKey[lockTail'[k]] = k
        OBVIOUS
      <3>1. lockTail'[k] \in Asks /\ AskKey[lockTail'[k]] = k
        BY <1>2 DEF AskChains, TailsAreUnderWay, AskTypes
      <3>2. lockTail'[k] # q => lockTail'[k] = lockTail[k]
        BY <1>2 DEF AskTypes
      <3>3. lockTail'[k] # q => UnderWay(lockTail[k])
        BY <3>1, <3>2 DEF AskChains, TailsAreUnderWay
      <3>4. UnderWay(lockTail[k])'
        BY <1>2, <3>1, <3>2, <3>3 DEF UnderWay, AskTypes
      <3> QED
        BY <3>1, <3>4
    <2>2. \A p \in Asks : stage[p] # "new" => stage'[p] # "new"
      BY <1>2 DEF AskTypes
    <2>3. last # NoAsk => stage[last] # "new"
      BY <1>3 DEF UnderWay
    <2>4. \A p \in Asks : ahead'[p] # NoAsk => stage'[ahead'[p]] # "new"
      BY <1>2, <2>2, <2>3 DEF AskChains, TailsAreUnderWay, AskTypes
    <2> QED
      BY <2>1, <2>4 DEF TailsAreUnderWay
  <1>7. \A p \in Asks \ {q} : /\ UnderWay(p) => (InFront(p)' <=> InFront(p))
                               /\ stage'[p] = stage[p] /\ ahead'[p] = ahead[p]
    <2> SUFFICES ASSUME NEW p \in Asks \ {q}
                 PROVE  /\ UnderWay(p) => (InFront(p)' <=> InFront(p))
                        /\ stage'[p] = stage[p] /\ ahead'[p] = ahead[p]
      OBVIOUS
    <2>1. stage'[p] = stage[p] /\ ahead'[p] = ahead[p]
      BY <1>2 DEF AskTypes
    <2>2. ahead[p] # NoAsk => ahead[p] \in Asks /\ ahead[p] # q
      BY <1>2 DEF AskTypes, AskChains, TailsAreUnderWay
    <2> QED
      BY <1>3, <2>1, <2>2 DEF InFront
  <1>8. \A p \in Asks \ {q} : Rivals(p)' = Rivals(p) \cup (IF AskKey[p] = AskKey[q] THEN {q} ELSE {})
    BY <1>3 DEF Rivals
  <1>9. Rivals(q)' = Rivals(q)
    BY <1>3 DEF Rivals
  <1>10. ChainsInOrder(drawn)'
    <2>1. TicketsDiffer(drawn)'
      <3> SUFFICES ASSUME NEW r \in Asks, NEW p \in Rivals(r)', UnderWay(r)' PROVE drawn[p] # drawn[r]
        BY DEF TicketsDiffer
      <3> QED
        BY <1>1, <1>3, <1>4, <1>5, <1>8, <1>9 DEF ChainsInOrder, TicketsDiffer, Rivals
    <2>2. LastIsHighest(drawn)'
      <3> SUFFICES ASSUME NEW r \in Asks, UnderWay(r)'
                   PROVE  lockTail'[AskKey[r]] # NoAsk /\ drawn[r] <= drawn[lockTail'[AskKey[r]]]
        BY DEF LastIsHighest
      <3>1. CASE AskKey[r] = AskKey[q]
        <4>1. lockTail'[AskKey[r]] = q
          BY <1>2, <3>1 DEF AskTypes
        <4>2. r = q \/ r \in Rivals(q)
          BY <1>3, <3>1 DEF Rivals
        <4> QED
          BY <1>2, <1>4, <1>5, <4>1, <4>2
      <3>2. CASE AskKey[r] # AskKey[q]
        <4>1. lockTail'[AskKey[r]] = lockTail[AskKey[r]] /\ AskKey[r] \in AskKeys /\ UnderWay(r) /\ r # q
          BY <1>2, <1>3, <3>2 DEF AskTypes, AskKeys
        <4>2. lockTail[AskKey[r]] \in Asks /\ AskKey[lockTail[AskKey[r]]] = AskKey[r]
          BY <1>1, <4>1 DEF AskTypes, AskChains, TailsAreUnderWay, ChainsInOrder, LastIsHighest
        <4> QED
          BY <1>1, <1>2, <1>4, <3>2, <4>1, <4>2 DEF ChainsInOrder, LastIsHighest
      <3> QED
        BY <3>1, <3>2
    <2>3. NextIsBehind(drawn)'
      <3> SUFFICES ASSUME NEW r \in Asks, UnderWay(r)', ~InFront(r)'
                   PROVE  /\ AskKey[ahead'[r]] = AskKey[r] /\ drawn[ahead'[r]] < drawn[r]
                          /\ \A p \in Rivals(r)' : drawn[p] <= drawn[ahead'[r]] \/ drawn[r] < drawn[p]
        BY DEF NextIsBehind
      <3>1. CASE r = q
        <4>1. ahead'[q] = last /\ last # NoAsk
          BY <1>2, <3>1 DEF AskTypes, InFront
        <4> QED
          BY <1>2, <1>3, <1>4, <1>5, <1>9, <3>1, <4>1 DEF Rivals
      <3>2. CASE r # q
        <4>1. UnderWay(r) /\ ~InFront(r) /\ ahead'[r] = ahead[r]
          BY <1>3, <1>7, <3>2
        <4>2. ahead[r] \in Asks \ {q} /\ UnderWay(ahead[r])
          BY <1>3, <4>1 DEF InFront, AskTypes
        <4>3. /\ AskKey[ahead[r]] = AskKey[r] /\ ticket[ahead[r]] < ticket[r]
              /\ \A p \in Rivals(r) : ticket[p] <= ticket[ahead[r]] \/ ticket[r] < ticket[p]
          BY <1>1, <4>1 DEF ChainsInOrder, NextIsBehind
        <4>4. \A p \in Rivals(r) : p # q
          BY <1>3 DEF Rivals
        <4>5. q \in Rivals(r)' => drawn[r] < drawn[q]
          BY <1>3, <1>5, <3>2, <4>1 DEF Rivals
        <4> QED
          BY <1>4, <1>8, <3>2, <4>1, <4>2, <4>3, <4>4, <4>5 DEF Rivals
      <3> QED
        BY <3>1, <3>2
    <2>4. FrontIsLowest(drawn)'
      <3> SUFFICES ASSUME NEW r \in Asks, InFront(r)', NEW p \in Rivals(r)' PROVE drawn[r] < drawn[p]
        BY DEF FrontIsLowest
      <3>1. CASE r = q
        <4>1. last # NoAsk /\ ahead'[q] = last /\ stage'[q] = "waiting"
          BY <1>2, <1>5, <1>9, <3>1 DEF AskTypes
        <4>2. UnderWay(ahead[q])'
          BY <1>2, <1>3, <4>1 DEF UnderWay, AskTypes
        <4> QED
          BY <1>2, <3>1, <4>1, <4>2 DEF InFront
      <3>2. CASE r # q
        <4>1. InFront(r) /\ UnderWay(r)
          BY <1>3, <1>7, <3>2 DEF InFront
        <4>2. CASE p = q
          BY <1>3, <1>5, <1>8, <3>2, <4>1, <4>2 DEF Rivals
        <4>3. CASE p # q
          BY <1>1, <1>3, <1>4, <1>8, <3>2, <4>1, <4>3 DEF ChainsInOrder, FrontIsLowest, Rivals
        <4> QED
          BY <4>2, <4>3
      <3> QED
        BY <3>1, <3>2
    <2> QED
      BY <2>1, <2>2, <2>3, <2>4 DEF ChainsInOrder
  <1> QED
    BY <1>6, <1>10 DEF AskChains

(* A first request goes on, and is still under way.                        *)
LEMMA GoOnChains ==
  ASSUME AskTypes, AskChains, NEW q \in Asks, InFront(q), NEW next \in {"creating", "created"},
         stage' = [stage EXCEPT ![q] = next], UNCHANGED <<ahead, lockTail>>
  PROVE  AskChains'
  <1>1. PICK ticket \in [Asks -> Nat] : ChainsInOrder(ticket)
    BY DEF AskChains
  <1>2. \A p \in Asks : (UnderWay(p)' <=> UnderWay(p)) /\ (stage'[p] = "new" => stage[p] = "new")
    BY DEF UnderWay, InFront, AskTypes
  <1>3. \A p \in Asks : InFront(p)' <=> InFront(p)
    BY <1>2 DEF InFront, AskTypes
  <1>4. \A p \in Asks : Rivals(p)' = Rivals(p)
    BY <1>2 DEF Rivals
  <1>5. TailsAreUnderWay'
    BY <1>2 DEF AskChains, TailsAreUnderWay, AskTypes
  <1>6. ChainsInOrder(ticket)'
    BY <1>1, <1>2, <1>3, <1>4
    DEF ChainsInOrder, TicketsDiffer, LastIsHighest, NextIsBehind, FrontIsLowest
  <1> QED
    BY <1>5, <1>6 DEF AskChains

(* A first request ends: the one behind it is now first, and the map       *)
(* forgets the key when there is none.                                     *)
LEMMA EndChains ==
  ASSUME AskTypes, AskChains, NEW q \in Asks, InFront(q), NEW a, Answer(q, a)
  PROVE  AskChains'
  <1>1. PICK ticket \in [Asks -> Nat] : ChainsInOrder(ticket)
    BY DEF AskChains
  <1> DEFINE k == AskKey[q]
  <1>2. /\ stage' = [stage EXCEPT ![q] = "over"] /\ ahead' = ahead
        /\ lockTail' = IF lockTail[k] = q THEN [lockTail EXCEPT ![k] = NoAsk] ELSE lockTail
        /\ k \in AskKeys /\ NoAsk \notin Asks
    BY NoAskAssumption DEF Answer, AskKeys
  <1>3. /\ \A p \in Asks : UnderWay(p)' <=> UnderWay(p) /\ p # q
        /\ \A p \in Asks : stage'[p] = "new" => stage[p] = "new"
    BY <1>2 DEF UnderWay, AskTypes
  <1>4. \A p \in Asks : Rivals(p)' = Rivals(p) \ {q}
    BY <1>3 DEF Rivals
  <1>5. /\ UnderWay(q)
        /\ \A p \in Rivals(q) : ticket[q] < ticket[p]
    BY <1>1 DEF ChainsInOrder, FrontIsLowest, InFront
  <1>6. lockTail[k] = q => Rivals(q) = {}
    <2> SUFFICES ASSUME lockTail[k] = q, NEW p \in Rivals(q) PROVE FALSE
      OBVIOUS
    <2>1. ticket[p] <= ticket[q] /\ ticket[p] \in Nat /\ ticket[q] \in Nat
      BY <1>1 DEF ChainsInOrder, LastIsHighest, Rivals
    <2> QED
      BY <1>5, <2>1
  <1>7. TailsAreUnderWay'
    <2>1. ASSUME NEW j \in AskKeys, lockTail'[j] # NoAsk
          PROVE  UnderWay(lockTail[j])' /\ AskKey[lockTail'[j]] = j
      <3>1. lockTail'[j] = lockTail[j] /\ lockTail[j] \in Asks
        BY <1>2, <2>1 DEF AskTypes
      <3>2. UnderWay(lockTail[j]) /\ AskKey[lockTail[j]] = j
        BY <2>1, <3>1 DEF AskChains, TailsAreUnderWay
      <3>3. lockTail[j] # q
        BY <1>2, <2>1, <3>1, <3>2 DEF AskTypes
      <3> QED
        BY <1>2, <3>1, <3>2, <3>3 DEF UnderWay, AskTypes
    <2>2. \A p \in Asks : ahead'[p] # NoAsk => stage'[ahead'[p]] # "new"
      BY <1>2, <1>3 DEF AskChains, TailsAreUnderWay, AskTypes
    <2> QED
      BY <2>1, <2>2 DEF TailsAreUnderWay
  <1>8. \A p \in Asks : UnderWay(p) /\ ~InFront(p) /\ ahead[p] # q => ~InFront(p)'
    BY <1>2, <1>3 DEF InFront, AskTypes, UnderWay
  <1>9. ChainsInOrder(ticket)'
    <2>1. TicketsDiffer(ticket)'
      BY <1>1, <1>3, <1>4 DEF ChainsInOrder, TicketsDiffer
    <2>2. LastIsHighest(ticket)'
      <3> SUFFICES ASSUME NEW r \in Asks, UnderWay(r)'
                   PROVE  lockTail'[AskKey[r]] # NoAsk /\ ticket[r] <= ticket[lockTail'[AskKey[r]]]
        BY DEF LastIsHighest
      <3>1. UnderWay(r) /\ r # q
        BY <1>3
      <3>2. lockTail'[AskKey[r]] = lockTail[AskKey[r]]
        BY <1>2, <1>6, <3>1 DEF Rivals, AskTypes
      <3> QED
        BY <1>1, <3>1, <3>2 DEF ChainsInOrder, LastIsHighest
    <2>3. NextIsBehind(ticket)'
      <3> SUFFICES ASSUME NEW r \in Asks, UnderWay(r)', ~InFront(r)'
                   PROVE  /\ AskKey[ahead[r]] = AskKey[r] /\ ticket[ahead[r]] < ticket[r]
                          /\ \A p \in Rivals(r) : ticket[p] <= ticket[ahead[r]] \/ ticket[r] < ticket[p]
        BY <1>2, <1>4 DEF NextIsBehind
      <3>1. UnderWay(r) /\ ~InFront(r)
        BY <1>2, <1>3 DEF InFront, UnderWay, AskTypes
      <3> QED
        BY <1>1, <3>1 DEF ChainsInOrder, NextIsBehind
    <2>4. FrontIsLowest(ticket)'
      <3> SUFFICES ASSUME NEW r \in Asks, InFront(r)', NEW p \in Rivals(r) \ {q}
                   PROVE  ticket[r] < ticket[p]
        BY <1>4 DEF FrontIsLowest
      <3>1. UnderWay(r) /\ r # q
        BY <1>3 DEF InFront
      <3>2. CASE InFront(r)
        BY <1>1, <3>2 DEF ChainsInOrder, FrontIsLowest
      <3>3. CASE ~InFront(r)
        <4>1. ahead[r] = q
          BY <1>8, <3>1, <3>3
        <4>2. AskKey[r] = AskKey[q] /\ (ticket[p] <= ticket[q] \/ ticket[r] < ticket[p])
          BY <1>1, <3>1, <3>3, <4>1 DEF ChainsInOrder, NextIsBehind
        <4>3. p \in Rivals(q)
          BY <3>1, <4>2 DEF Rivals
        <4>4. ticket[q] < ticket[p] /\ ticket[q] \in Nat /\ ticket[p] \in Nat
          BY <1>1, <1>5, <4>3 DEF Rivals
        <4> QED
          BY <4>2, <4>4
      <3> QED
        BY <3>2, <3>3
    <2> QED
      BY <2>1, <2>2, <2>3, <2>4 DEF ChainsInOrder
  <1> QED
    BY <1>7, <1>9 DEF AskChains

(* The rows and the answers are records.                                   *)
AskRecords ==
  /\ record \in [AskKeys -> [fingerprint : {Fingerprint[q] : q \in Asks} \cup {NoAsk},
                            job : Asks \cup {NoAsk}, expiresAt : Nat]]
  /\ answer \in [Asks -> [kind : {"none", "job", "conflict", "gone", "failed"},
                          job : Asks \cup {NoAsk}, until : Nat]]
  /\ madeJob \in [Asks -> Asks \cup {NoAsk}]
  /\ retained \subseteq Asks
  /\ clock \in 0..MaxClock

(* A job is queued only for a key that is new.                             *)
QueuedKeysAreNew == \A q \in Asks : stage[q] \in {"creating", "created"} => ~Live(AskKey[q])

AskIInv == AskTypes /\ AskRecords /\ AskChains /\ QueuedKeysAreNew /\ AnswersAreRecorded

(* The initial state satisfies it.                                         *)
LEMMA AskInitIInv == AskInit => AskIInv
  <1> SUFFICES ASSUME AskInit PROVE AskIInv
    OBVIOUS
  <1>1. AskTypes /\ AskRecords
    BY KeyTtlAssumption DEF AskInit, AskTypes, AskRecords, Stages, NoRecord, NoAnswer
  <1>2. \A q \in Asks : ~UnderWay(q) /\ ~InFront(q)
    BY DEF AskInit, UnderWay, InFront
  <1>3. [q \in Asks |-> 0] \in [Asks -> Nat] /\ ChainsInOrder([q \in Asks |-> 0])
    BY <1>2 DEF ChainsInOrder, TicketsDiffer, LastIsHighest, NextIsBehind, FrontIsLowest
  <1>4. AskChains
    BY <1>3 DEF AskInit, AskChains, TailsAreUnderWay
  <1>5. QueuedKeysAreNew /\ AnswersAreRecorded
    BY DEF AskInit, QueuedKeysAreNew, AnswersAreRecorded, NoAnswer
  <1> QED
    BY <1>1, <1>4, <1>5 DEF AskIInv

(* Whoever has its turn or queues a job is first.                          *)
LEMMA TurnIsInFront ==
  ASSUME NEW q \in Asks, HasTurn(q) \/ stage[q] \in {"creating", "created"}
  PROVE  InFront(q)
  BY DEF HasTurn, InFront, UnderWay

(* While a key is not alive no answer for it is in force.                  *)
LEMMA DeadKeys ==
  ASSUME AskRecords, AnswersAreRecorded, NEW q \in Asks, ~Live(AskKey[q]),
         answer[q].kind = "job"
  PROVE  ~(clock < answer[q].until)
  <1> SUFFICES ASSUME clock < answer[q].until PROVE FALSE
    OBVIOUS
  <1>1. record[AskKey[q]].expiresAt = answer[q].until
    BY DEF AnswersAreRecorded
  <1>2. clock \in Nat
    BY KeyTtlAssumption DEF AskRecords
  <1>3. record[AskKey[q]] # NoRecord
    BY <1>1, <1>2 DEF NoRecord
  <1> QED
    BY <1>1, <1>3 DEF Live

(* The end of a request, whatever becomes of the rows of other keys.       *)
LEMMA AnswerTypes ==
  ASSUME AskTypes, AskRecords, NEW q \in Asks, NEW a, Answer(q, a),
         a \in [kind : {"none", "job", "conflict", "gone", "failed"}, job : Asks \cup {NoAsk}, until : Nat]
  PROVE  /\ AskTypes'
         /\ answer' = [answer EXCEPT ![q] = a]
         /\ answer' \in [Asks -> [kind : {"none", "job", "conflict", "gone", "failed"},
                                  job : Asks \cup {NoAsk}, until : Nat]]
         /\ \A p \in Asks : stage'[p] \in {"creating", "created"} =>
              stage[p] \in {"creating", "created"} /\ p # q
         /\ UNCHANGED <<madeJob, clock>>
  BY DEF Answer, AskTypes, AskRecords, Stages

(* Every step preserves it.                                                *)
LEMMA AskNextIInv == AskIInv /\ [AskNext]_askVars => AskIInv'
  <1> SUFFICES ASSUME AskIInv, [AskNext]_askVars PROVE AskIInv'
    OBVIOUS
  <1>0. AskTypes /\ AskRecords /\ AskChains /\ QueuedKeysAreNew /\ AnswersAreRecorded
        /\ clock \in Nat /\ \A q \in Asks : AskKey[q] \in AskKeys
    BY KeyTtlAssumption DEF AskIInv, AskRecords, AskKeys
  <1> DEFINE GivenAnswers == [kind : {"none", "job", "conflict", "gone", "failed"},
                              job : Asks \cup {NoAsk}, until : Nat]
  <1>1. ASSUME NEW q \in Asks, Arrive(q) PROVE AskIInv'
    <2>1. AskTypes' /\ AskRecords'
      BY <1>0, <1>1 DEF Arrive, AskTypes, AskRecords, Stages
    <2>2. AskChains'
      BY <1>0, <1>1, ArriveChains
    <2>3. QueuedKeysAreNew' /\ AnswersAreRecorded'
      BY <1>0, <1>1 DEF Arrive, AskTypes, QueuedKeysAreNew, AnswersAreRecorded, Live, Matches
    <2> QED
      BY <2>1, <2>2, <2>3 DEF AskIInv
  <1>2. ASSUME NEW q \in Asks, Recall(q) PROVE AskIInv'
    <2> DEFINE known == record[AskKey[q]]
    <2>1. PICK a : /\ Answer(q, a)
                   /\ a = IF ~Matches(q) THEN Rejection("conflict")
                          ELSE IF known.job \in retained THEN JobAnswer(known.job, known.expiresAt)
                          ELSE Rejection("gone")
      BY <1>2 DEF Recall
    <2>2. UNCHANGED <<record, retained>> /\ InFront(q)
      BY <1>2, TurnIsInFront DEF Recall
    <2>3. known \in [fingerprint : {Fingerprint[p] : p \in Asks} \cup {NoAsk},
                      job : Asks \cup {NoAsk}, expiresAt : Nat]
      BY <1>0 DEF AskRecords
    <2>4. a \in GivenAnswers /\ (a.kind = "job" => Matches(q) /\ a.job = known.job /\ a.until = known.expiresAt)
      BY <2>1, <2>3 DEF Rejection, JobAnswer, NoAnswer
    <2> HIDE DEF GivenAnswers
    <2>5. AskTypes' /\ AskRecords'
      BY <1>0, <2>1, <2>2, <2>4, AnswerTypes DEF AskRecords, GivenAnswers
    <2>6. AskChains'
      BY <1>0, <2>1, <2>2, EndChains
    <2>7. QueuedKeysAreNew'
      BY <1>0, <2>1, <2>2, <2>4, AnswerTypes DEF QueuedKeysAreNew, Live, GivenAnswers
    <2>8. AnswersAreRecorded'
      BY SMTT(30), <1>0, <2>1, <2>2, <2>4, AnswerTypes DEF AnswersAreRecorded, Matches, GivenAnswers, AskRecords
    <2> QED
      BY <2>5, <2>6, <2>7, <2>8 DEF AskIInv
  <1>3. ASSUME NEW q \in Asks, Begin(q) PROVE AskIInv'
    <2>1. /\ ~Live(AskKey[q]) /\ stage' = [stage EXCEPT ![q] = "creating"]
          /\ record' = [record EXCEPT ![AskKey[q]] = NoRecord]
          /\ UNCHANGED <<ahead, lockTail, madeJob, retained, answer, clock>>
          /\ InFront(q)
      BY <1>3, TurnIsInFront DEF Begin
    <2>2. AskTypes'
      BY <1>0, <2>1 DEF AskTypes, Stages
    <2>3. AskRecords'
      BY <1>0, <2>1 DEF AskRecords, NoRecord
    <2>4. AskChains'
      BY <1>0, <2>1, GoOnChains
    <2>5. QueuedKeysAreNew'
      BY <1>0, <2>1 DEF QueuedKeysAreNew, Live, AskTypes, AskRecords
    <2>6. AnswersAreRecorded'
      <3> SUFFICES ASSUME NEW p \in Asks, answer[p].kind = "job", clock < answer[p].until
                   PROVE  record'[AskKey[p]] = record[AskKey[p]]
        BY <1>0, <2>1 DEF AnswersAreRecorded, Matches
      <3>1. AskKey[p] # AskKey[q]
        BY <1>0, <2>1, DeadKeys
      <3> QED
        BY <1>0, <2>1, <3>1 DEF AskRecords
    <2> QED
      BY <2>2, <2>3, <2>4, <2>5, <2>6 DEF AskIInv
  <1>4. ASSUME NEW q \in Asks, Fails(q) PROVE AskIInv'
    <2>1. Answer(q, Rejection("failed")) /\ UNCHANGED <<record, retained>> /\ InFront(q)
      BY <1>4, TurnIsInFront DEF Fails
    <2>2. Rejection("failed") \in GivenAnswers /\ Rejection("failed").kind # "job"
      BY DEF Rejection, NoAnswer
    <2> HIDE DEF GivenAnswers
    <2>3. AskTypes' /\ AskRecords'
      BY <1>0, <2>1, <2>2, AnswerTypes DEF AskRecords, GivenAnswers
    <2>4. AskChains'
      BY <1>0, <2>1, EndChains
    <2>5. QueuedKeysAreNew'
      BY <1>0, <2>1, <2>2, AnswerTypes DEF QueuedKeysAreNew, Live, GivenAnswers
    <2>6. AnswersAreRecorded'
      BY <1>0, <2>1, <2>2, AnswerTypes DEF AnswersAreRecorded, Matches, GivenAnswers, AskRecords
    <2> QED
      BY <2>3, <2>4, <2>5, <2>6 DEF AskIInv
  <1>5. ASSUME NEW q \in Asks, RecordJob(q) PROVE AskIInv'
    <2> DEFINE made == [fingerprint |-> Fingerprint[q], job |-> madeJob[q], expiresAt |-> ExpiresAt]
    <2>1. /\ stage[q] = "created" /\ record' = [record EXCEPT ![AskKey[q]] = made]
          /\ Answer(q, JobAnswer(madeJob[q], ExpiresAt)) /\ UNCHANGED retained
          /\ InFront(q)
      BY <1>5, TurnIsInFront DEF RecordJob
    <2>2. /\ JobAnswer(madeJob[q], ExpiresAt) \in GivenAnswers
          /\ JobAnswer(madeJob[q], ExpiresAt).job = madeJob[q]
          /\ JobAnswer(madeJob[q], ExpiresAt).until = ExpiresAt
          /\ ExpiresAt \in Nat
      BY <1>0, KeyTtlAssumption DEF AskRecords, JobAnswer, ExpiresAt
    <2>3. /\ made \in [fingerprint : {Fingerprint[p] : p \in Asks} \cup {NoAsk},
                        job : Asks \cup {NoAsk}, expiresAt : Nat]
          /\ made.fingerprint = Fingerprint[q] /\ made.job = madeJob[q] /\ made.expiresAt = ExpiresAt
      BY <1>0, <2>2 DEF AskRecords
    <2> HIDE DEF GivenAnswers, made
    <2>4. AskTypes' /\ AskRecords'
      BY <1>0, <2>1, <2>2, <2>3, AnswerTypes DEF AskRecords, GivenAnswers
    <2>5. AskChains'
      BY <1>0, <2>1, EndChains
    <2>6. ~Live(AskKey[q])
      BY <1>0, <2>1 DEF QueuedKeysAreNew
    <2>7. QueuedKeysAreNew'
      <3> SUFFICES ASSUME NEW p \in Asks, stage'[p] \in {"creating", "created"}
                   PROVE  ~Live(AskKey[p])'
        BY DEF QueuedKeysAreNew
      <3>1. stage[p] \in {"creating", "created"} /\ p # q /\ clock' = clock
        BY <1>0, <2>1, <2>2, AnswerTypes DEF GivenAnswers
      <3>2. AskKey[p] # AskKey[q]
        BY <1>0, <2>1, <3>1, FrontIsAlone, TurnIsInFront
      <3> QED
        BY <1>0, <2>1, <3>1, <3>2 DEF QueuedKeysAreNew, Live, AskRecords
    <2>8. AnswersAreRecorded'
      <3> SUFFICES ASSUME NEW p \in Asks, answer'[p].kind = "job", clock' < answer'[p].until
                   PROVE  /\ record'[AskKey[p]].job = answer'[p].job
                          /\ record'[AskKey[p]].expiresAt = answer'[p].until
                          /\ Matches(p)'
        BY DEF AnswersAreRecorded
      <3>1. answer' = [answer EXCEPT ![q] = JobAnswer(madeJob[q], ExpiresAt)] /\ clock' = clock
        BY <1>0, <2>1, <2>2, AnswerTypes DEF GivenAnswers
      <3>2. CASE p = q
        BY <1>0, <2>1, <2>2, <2>3, <3>1, <3>2 DEF AskRecords, Matches
      <3>3. CASE p # q
        <4>1. answer'[p] = answer[p] /\ clock < answer[p].until /\ answer[p].kind = "job"
          BY <1>0, <3>1, <3>3 DEF AskRecords
        <4>2. AskKey[p] # AskKey[q]
          BY <1>0, <2>6, <4>1, DeadKeys
        <4>3. record'[AskKey[p]] = record[AskKey[p]]
          BY <1>0, <2>1, <4>2 DEF AskRecords
        <4> QED
          BY <1>0, <4>1, <4>3 DEF AnswersAreRecorded, Matches
      <3> QED
        BY <3>2, <3>3
    <2> QED
      BY <2>4, <2>5, <2>7, <2>8 DEF AskIInv
  <1>6. ASSUME NEW j \in Asks, PruneJob(j) PROVE AskIInv'
    <2>1. /\ retained' = retained \ {j}
          /\ UNCHANGED <<stage, ahead, lockTail, record, madeJob, answer, clock>>
      BY <1>6 DEF PruneJob
    <2>2. AskTypes' /\ AskRecords' /\ QueuedKeysAreNew' /\ AnswersAreRecorded'
      BY <1>0, <2>1 DEF AskTypes, AskRecords, QueuedKeysAreNew, AnswersAreRecorded, Live, Matches
    <2>3. AskChains'
      BY <1>0, <2>1
      DEF AskChains, TailsAreUnderWay, ChainsInOrder, TicketsDiffer, LastIsHighest, NextIsBehind,
          FrontIsLowest, UnderWay, InFront, Rivals
    <2> QED
      BY <2>2, <2>3 DEF AskIInv
  <1>7. ASSUME NEW q \in Asks, NEW j \in Asks, CreateJob(q, j) PROVE AskIInv'
    <2>1. /\ stage[q] = "creating" /\ stage' = [stage EXCEPT ![q] = "created"]
          /\ madeJob' = [madeJob EXCEPT ![q] = j] /\ retained' = retained \cup {j}
          /\ UNCHANGED <<ahead, lockTail, record, answer, clock>>
          /\ InFront(q)
      BY <1>7, TurnIsInFront DEF CreateJob
    <2>2. AskTypes' /\ AskRecords'
      BY <1>0, <2>1 DEF AskTypes, AskRecords, Stages
    <2>3. AskChains'
      BY <1>0, <2>1, GoOnChains
    <2>4. QueuedKeysAreNew' /\ AnswersAreRecorded'
      BY <1>0, <2>1 DEF QueuedKeysAreNew, AnswersAreRecorded, Live, Matches, AskTypes
    <2> QED
      BY <2>2, <2>3, <2>4 DEF AskIInv
  <1>8. CASE AskCrash
    <2>1. /\ stage' = [q \in Asks |->
               IF stage[q] \in {"waiting", "creating", "created"} THEN "lost" ELSE stage[q]]
          /\ lockTail' = [k \in AskKeys |-> NoAsk]
          /\ UNCHANGED <<ahead, record, madeJob, retained, answer, clock>>
      BY <1>8 DEF AskCrash
    <2>2. AskTypes' /\ AskRecords'
      BY <1>0, <2>1 DEF AskTypes, AskRecords, Stages
    <2>3. \A q \in Asks : ~UnderWay(q)' /\ ~InFront(q)'
      BY <2>1 DEF UnderWay, InFront
    <2>4. TailsAreUnderWay'
      BY <1>0, <2>1 DEF AskChains, TailsAreUnderWay, AskTypes
    <2>5. PICK ticket \in [Asks -> Nat] : ChainsInOrder(ticket)
      BY <1>0 DEF AskChains
    <2>6. ChainsInOrder(ticket)'
      BY <2>3 DEF ChainsInOrder, TicketsDiffer, LastIsHighest, NextIsBehind, FrontIsLowest
    <2>7. QueuedKeysAreNew' /\ AnswersAreRecorded'
      BY <1>0, <2>1 DEF QueuedKeysAreNew, AnswersAreRecorded, Matches
    <2> QED
      BY <2>2, <2>4, <2>5, <2>6, <2>7 DEF AskIInv, AskChains
  <1>9. CASE ClockTicks
    <2>1. /\ clock' = clock + 1 /\ clock' \in 0..MaxClock
          /\ UNCHANGED <<stage, ahead, lockTail, record, madeJob, retained, answer>>
      BY <1>0, <1>9, KeyTtlAssumption DEF ClockTicks
    <2>2. AskTypes' /\ AskRecords'
      BY <1>0, <2>1 DEF AskTypes, AskRecords
    <2>3. AskChains'
      BY <1>0, <2>1
      DEF AskChains, TailsAreUnderWay, ChainsInOrder, TicketsDiffer, LastIsHighest, NextIsBehind,
          FrontIsLowest, UnderWay, InFront, Rivals
    <2>4. QueuedKeysAreNew' /\ AnswersAreRecorded'
      BY <1>0, <2>1 DEF QueuedKeysAreNew, AnswersAreRecorded, Live, Matches, AskRecords
    <2> QED
      BY <2>2, <2>3, <2>4 DEF AskIInv
  <1>10. CASE UNCHANGED askVars
    <2>1. AskTypes' /\ AskRecords' /\ QueuedKeysAreNew' /\ AnswersAreRecorded'
      BY <1>0, <1>10 DEF askVars, AskTypes, AskRecords, QueuedKeysAreNew, AnswersAreRecorded, Live, Matches
    <2>2. AskChains'
      BY <1>0, <1>10
      DEF askVars, AskChains, TailsAreUnderWay, ChainsInOrder, TicketsDiffer, LastIsHighest,
          NextIsBehind, FrontIsLowest, UnderWay, InFront, Rivals
    <2> QED
      BY <2>1, <2>2 DEF AskIInv
  <1> QED
    BY <1>1, <1>2, <1>3, <1>4, <1>5, <1>6, <1>7, <1>8, <1>9, <1>10 DEF AskNext, AskStep

(* The request in front is the only one of its key that goes on.           *)
LEMMA AskHolds == AskIInv => IdempotencyHolds
  <1> SUFFICES ASSUME AskIInv PROVE KeysQueueOnce
    BY DEF AskIInv, IdempotencyHolds
  <1> QED
    BY FrontIsAlone, TurnIsInFront DEF AskIInv, KeysQueueOnce, QueuedKeysAreNew

(* However requests with one key overlap, fail or are repeated after a     *)
(* crash, the key stands for one request and one job until it expires      *)
(* (idempotency.ts, resolveIdempotentJob).                                 *)
THEOREM KeysCountOnce == AskSpec => []IdempotencyHolds
  BY AskHolds, AskInitIInv, AskNextIInv, PTL DEF AskSpec

----------------------------------------------------------------------------
(* Checkouts.  What Stripe remembers of a key is at least as young as any  *)
(* session of the key, so that a key it has forgotten has no session that  *)
(* can still be paid; and a page is never for another key or plan than     *)
(* whatever names it.                                                      *)

(* What is recorded of an attempt, and what Stripe remembers.              *)
AttemptRecords ==
  [plan : {PlanOf[p] : p \in Posts} \cup {NoPage}, details : {0, 1}, at : 0..LastHour,
   session : Posts \cup {NoPage}]

CheckoutTypes ==
  /\ CheckoutTypeOK
  /\ attempt \in [PostKeys -> AttemptRecords] /\ memory \in [PostKeys -> AttemptRecords]
  /\ sent \in [Posts -> {0, 1}] /\ details \in {0, 1}
  /\ response \in [Posts -> [code : {0, 200, 201, 409, 502, 503}, page : Posts \cup {NoPage}]]

(* The page of a checkout of this key and plan.                            *)
IsAskedBy(shown, k, plan) ==
  shown \in Posts /\ PostKey[shown] = k /\ PlanOf[shown] = plan

(* A session is recorded, remembered and handed on for what it is.         *)
AttemptsAreAsked ==
  \A k \in PostKeys : attempt[k].session # NoPage => IsAskedBy(attempt[k].session, k, attempt[k].plan)
MemoryIsAsked ==
  \A k \in PostKeys : memory[k] # NoAttempt => IsAskedBy(memory[k].session, k, memory[k].plan)
PageIsAsked ==
  \A p \in Posts : page[p] # NoPage => IsAskedBy(page[p], PostKey[p], PlanOf[p])
InvoicesAreAsked ==
  \A k \in PostKeys : invoice[k] # NoPage => PostKey[invoice[k]] = k

(* Stripe remembers the youngest session of a key.                         *)
MemoryIsYoungest ==
  /\ \A k \in PostKeys : memory[k].at <= hour
  /\ \A p \in StripePosts : opened[p] # Never =>
       memory[PostKey[p]] # NoAttempt /\ opened[p] <= memory[PostKey[p]].at

(* A crypto checkout is asked for once only, and only Stripe's sessions    *)
(* are retrieved.                                                          *)
PostsAreApart ==
  /\ \A p \in CryptoPosts : post[p] \in InFlight => invoice[PostKey[p]] = NoPage
  /\ \A p \in Posts : post[p] = "retrieving" => p \in StripePosts

CheckoutIInv ==
  /\ CheckoutTypes /\ LockIsTight /\ PostsAreApart
  /\ AttemptsAreAsked /\ MemoryIsAsked /\ PageIsAsked /\ InvoicesAreAsked
  /\ MemoryIsYoungest /\ OneOpenSessionPerKey /\ PagesAreAsked

(* The initial state satisfies it.                                         *)
LEMMA CheckoutInitIInv == CheckoutInit => CheckoutIInv
  <1> SUFFICES ASSUME CheckoutInit PROVE CheckoutIInv
    OBVIOUS
  <1> USE CheckoutBoundsAssumption
  <1>1. NoAttempt \in AttemptRecords /\ NoAttempt.session = NoPage /\ NoAttempt.at = 0
    BY DEF NoAttempt, AttemptRecords
  <1>2. CheckoutTypes
    BY <1>1 DEF CheckoutInit, CheckoutTypes, CheckoutTypeOK, NoResponse, Never
  <1>3. LockIsTight /\ PostsAreApart
    <2>1. \A p \in Posts : post[p] = "new"
      BY DEF CheckoutInit
    <2>2. holder = NoPage
      BY DEF CheckoutInit
    <2> QED
      BY <2>1, <2>2, CryptoPostsAssumption DEF LockIsTight, PostsAreApart, InFlight
  <1>4. AttemptsAreAsked /\ MemoryIsAsked /\ PageIsAsked /\ InvoicesAreAsked
    BY <1>1 DEF CheckoutInit, AttemptsAreAsked, MemoryIsAsked, PageIsAsked, InvoicesAreAsked
  <1>5. MemoryIsYoungest /\ OneOpenSessionPerKey
    BY <1>1 DEF CheckoutInit, MemoryIsYoungest, OneOpenSessionPerKey, PostKeys, StripePosts
  <1>6. PagesAreAsked
    BY DEF CheckoutInit, PagesAreAsked, NoResponse
  <1> QED
    BY <1>2, <1>3, <1>4, <1>5, <1>6 DEF CheckoutIInv

(* An attempt is recorded for the key and the plan of its request, and so  *)
(* is the session that it has led to.                                      *)
LEMMA AttemptedLemma ==
  ASSUME CheckoutIInv, NEW p \in Posts, NEW of \in {0, 1}, NEW session \in Posts \cup {NoPage},
         session # NoPage => IsAskedBy(session, PostKey[p], PlanOf[p]),
         attempt' = Attempted(p, of, session)
  PROVE  attempt' \in [PostKeys -> AttemptRecords] /\ AttemptsAreAsked'
  <1> DEFINE k == PostKey[p]
             known == AttemptOf(p)
             fresh == [plan |-> PlanOf[p], details |-> of, at |-> hour, session |-> session]
             reopened == [attempt[k] EXCEPT !.session = session]
  <1>1. /\ attempt \in [PostKeys -> AttemptRecords] /\ k \in PostKeys
        /\ hour \in 0..LastHour /\ PlanOf[p] \in {PlanOf[q] : q \in Posts} \cup {NoPage}
        /\ AttemptsAreAsked
    BY DEF CheckoutIInv, CheckoutTypes, CheckoutTypeOK, PostKeys
  <1>2. fresh \in AttemptRecords /\ fresh.session = session /\ fresh.plan = PlanOf[p]
    BY <1>1 DEF AttemptRecords
  <1>3. attempt[k] \in AttemptRecords
    BY <1>1
  <1>4. reopened \in AttemptRecords /\ reopened.session = session /\ reopened.plan = attempt[k].plan
    BY <1>3 DEF AttemptRecords
  <1>5. known # NoAttempt => known = attempt[k]
    BY DEF AttemptOf
  <1>6. \/ attempt' = [attempt EXCEPT ![k] = fresh]
        \/ attempt' = attempt
        \/ attempt' = [attempt EXCEPT ![k] = reopened] /\ attempt[k].plan = PlanOf[p]
    <2> HIDE DEF fresh
    <2>1. CASE known = NoAttempt
      BY <2>1 DEF Attempted, fresh
    <2>2. CASE known # NoAttempt /\ (known.plan # PlanOf[p] \/ known.details # of \/ known.session # NoPage)
      BY <2>2 DEF Attempted
    <2>3. CASE known # NoAttempt /\ ~(known.plan # PlanOf[p] \/ known.details # of \/ known.session # NoPage)
      BY <1>1, <1>5, <2>3 DEF Attempted
    <2> QED
      BY <2>1, <2>2, <2>3
  <1> HIDE DEF k, known, fresh, reopened
  <1>7. CASE attempt' = [attempt EXCEPT ![k] = fresh]
    BY <1>1, <1>2, <1>7 DEF AttemptsAreAsked, k
  <1>8. CASE attempt' = attempt
    BY <1>1, <1>8 DEF AttemptsAreAsked
  <1>9. CASE attempt' = [attempt EXCEPT ![k] = reopened] /\ attempt[k].plan = PlanOf[p]
    BY <1>1, <1>4, <1>9 DEF AttemptsAreAsked, k
  <1> QED
    BY <1>6, <1>7, <1>8, <1>9

(* The lock is held by the only request that asks.                         *)
HolderAsks == \A q \in Posts : post[q] \in InFlight <=> q = holder

LEMMA LockLemma == holder \in Posts \cup {NoPage} => (LockIsTight <=> HolderAsks)
  BY PagesAssumption DEF LockIsTight, HolderAsks

(* What becomes of the lock and of the requests when one of them goes on,  *)
(* and what it has in hand then.                                           *)
LEMMA PostMoves ==
  ASSUME CheckoutIInv, NEW p \in Posts, NEW next \in {"creating", "retrieving", "answered", "over"},
         post[p] \in InFlight \/ holder = NoPage,
         next = "over" => post[p] \in InFlight,
         next # "over" => holder' = p,
         next = "over" => holder' = NoPage,
         post' = [post EXCEPT ![p] = next],
         p \in CryptoPosts /\ next # "over" => next # "retrieving" /\ invoice[PostKey[p]] = NoPage
  PROVE  /\ post' \in [Posts -> {"new", "over", "lost"} \cup InFlight]
         /\ holder' \in Posts \cup {NoPage}
         /\ LockIsTight'
         /\ UNCHANGED invoice => PostsAreApart'
  <1>1. /\ post \in [Posts -> {"new", "over", "lost"} \cup InFlight]
        /\ holder \in Posts \cup {NoPage} /\ NoPage \notin Posts
        /\ HolderAsks /\ PostsAreApart
    BY LockLemma, PagesAssumption DEF CheckoutIInv, CheckoutTypes, CheckoutTypeOK
  <1>2. /\ post' \in [Posts -> {"new", "over", "lost"} \cup InFlight]
        /\ holder' \in Posts \cup {NoPage}
    BY <1>1 DEF InFlight
  <1>3. HolderAsks'
    BY <1>1 DEF HolderAsks, InFlight
  <1>4. LockIsTight'
    BY <1>1, <1>2, <1>3 DEF LockIsTight, HolderAsks
  <1>5. UNCHANGED invoice => PostsAreApart'
    BY <1>1, ProvidersAssumption, CryptoPostsAssumption DEF PostsAreApart, InFlight, StripePosts
  <1> QED
    BY <1>2, <1>4, <1>5

(* A request that is answered with a page of its key and plan, and its     *)
(* invoice if it is one.                                                   *)
LEMMA Responds ==
  ASSUME CheckoutIInv, NEW p \in Posts, NEW code \in {200, 201, 409, 502, 503},
         NEW shown \in Posts \cup {NoPage}, Respond(p, code, shown),
         shown # NoPage => IsAskedBy(shown, PostKey[p], PlanOf[p]),
         shown # NoPage /\ p \in CryptoPosts => invoice'[PostKey[p]] = shown,
         \/ UNCHANGED invoice
         \/ /\ p \in CryptoPosts /\ invoice[PostKey[p]] = NoPage
            /\ \A k \in PostKeys \ {PostKey[p]} : invoice'[k] = invoice[k]
  PROVE  /\ post' = [post EXCEPT ![p] = "over"]
         /\ sent' \in [Posts -> {0, 1}] /\ page' \in [Posts -> Posts \cup {NoPage}]
         /\ response' \in [Posts -> [code : {0, 200, 201, 409, 502, 503}, page : Posts \cup {NoPage}]]
         /\ PageIsAsked' /\ PagesAreAsked'
  <1>1. /\ sent \in [Posts -> {0, 1}] /\ page \in [Posts -> Posts \cup {NoPage}]
        /\ response \in [Posts -> [code : {0, 200, 201, 409, 502, 503}, page : Posts \cup {NoPage}]]
        /\ PageIsAsked /\ PagesAreAsked
        /\ \A q \in Posts : PostKey[q] \in PostKeys
    BY DEF CheckoutIInv, CheckoutTypes, CheckoutTypeOK, PostKeys
  <1>2. /\ post' = [post EXCEPT ![p] = "over"]
        /\ sent' = [sent EXCEPT ![p] = 0]
        /\ page' = [page EXCEPT ![p] = NoPage]
        /\ response' = [response EXCEPT ![p] = [code |-> code, page |-> shown]]
    BY DEF Respond
  <1>3. /\ sent' \in [Posts -> {0, 1}] /\ page' \in [Posts -> Posts \cup {NoPage}]
        /\ response' \in [Posts -> [code : {0, 200, 201, 409, 502, 503}, page : Posts \cup {NoPage}]]
    BY <1>1, <1>2
  <1>4. PageIsAsked'
    BY <1>1, <1>2 DEF PageIsAsked, IsAskedBy
  <1>5. ASSUME NEW q \in Posts, response'[q].page # NoPage
        PROVE  /\ PostKey[response'[q].page] = PostKey[q] /\ PlanOf[response'[q].page] = PlanOf[q]
               /\ q \in CryptoPosts => invoice'[PostKey[q]] = response'[q].page
    <2>1. CASE q = p
      BY <1>1, <1>2, <1>5, <2>1 DEF IsAskedBy
    <2>2. CASE q # p
      <3>1. response'[q] = response[q]
        BY <1>1, <1>2, <2>2
      <3>2. /\ PostKey[response[q].page] = PostKey[q] /\ PlanOf[response[q].page] = PlanOf[q]
            /\ q \in CryptoPosts => invoice[PostKey[q]] = response[q].page
        BY <1>1, <1>5, <3>1 DEF PagesAreAsked
      <3>3. q \in CryptoPosts => invoice'[PostKey[q]] = invoice[PostKey[q]]
        BY <1>1, <1>5, <3>1, <3>2
      <3> QED
        BY <3>1, <3>2, <3>3
    <2> QED
      BY <2>1, <2>2
  <1>6. PagesAreAsked'
    BY <1>5 DEF PagesAreAsked
  <1> QED
    BY <1>2, <1>3, <1>4, <1>6

(* What no step but Stripe's creation of a session touches.                *)
LEMMA SessionsStay ==
  CheckoutIInv /\ UNCHANGED <<memory, opened, hour>>
    => MemoryIsAsked' /\ MemoryIsYoungest' /\ OneOpenSessionPerKey'
  BY DEF CheckoutIInv, MemoryIsAsked, MemoryIsYoungest, OneOpenSessionPerKey

(* A session that Stripe opens for a key is the only one of the key that   *)
(* can still be paid: what opens it is that Stripe has forgotten the key.  *)
LEMMA SessionOpens ==
  ASSUME CheckoutIInv, NEW p \in StripePosts, Unknown(PostKey[p]),
         opened' = [opened EXCEPT ![p] = hour], UNCHANGED hour,
         memory' = [memory EXCEPT ![PostKey[p]] =
                      [plan |-> PlanOf[p], details |-> sent[p], at |-> hour, session |-> p]]
  PROVE  /\ memory' \in [PostKeys -> AttemptRecords] /\ opened' \in [Posts -> 0..Never]
         /\ MemoryIsAsked' /\ MemoryIsYoungest' /\ OneOpenSessionPerKey'
  <1> DEFINE k == PostKey[p]
             m == [plan |-> PlanOf[p], details |-> sent[p], at |-> hour, session |-> p]
  <1>1. /\ p \in Posts /\ k \in PostKeys /\ LastHour \in Nat /\ StripeTtl \in Nat
        /\ hour \in 0..LastHour /\ opened \in [Posts -> 0..Never] /\ Never = LastHour + 1
        /\ memory \in [PostKeys -> AttemptRecords]
        /\ MemoryIsAsked /\ MemoryIsYoungest /\ OneOpenSessionPerKey
        /\ StripePosts \subseteq Posts /\ \A q \in Posts : PostKey[q] \in PostKeys
    BY CheckoutBoundsAssumption, TtlAssumption
    DEF CheckoutIInv, CheckoutTypes, CheckoutTypeOK, PostKeys, StripePosts, Never
  <1>2. m \in AttemptRecords /\ m.session = p /\ m.plan = PlanOf[p] /\ m.at = hour
    BY <1>1 DEF CheckoutIInv, CheckoutTypes, AttemptRecords
  <1>3. m # NoAttempt
    BY <1>1, PagesAssumption DEF NoAttempt
  <1> HIDE DEF m
  <1>4. memory' = [memory EXCEPT ![k] = m]
    BY DEF m
  <1>5. memory' \in [PostKeys -> AttemptRecords] /\ opened' \in [Posts -> 0..Never]
    BY <1>1, <1>2, <1>4
  <1>6. MemoryIsAsked'
    BY <1>1, <1>2, <1>4 DEF MemoryIsAsked, IsAskedBy
  <1>7. \A q \in PostKeys : memory[q].at \in 0..LastHour
    BY <1>1 DEF AttemptRecords
  <1>8. MemoryIsYoungest'
    <2>1. \A q \in PostKeys : memory'[q].at <= hour'
      BY <1>1, <1>2, <1>4 DEF MemoryIsYoungest
    <2>2. ASSUME NEW q \in StripePosts, opened'[q] # Never
          PROVE  memory'[PostKey[q]] # NoAttempt /\ opened'[q] <= memory'[PostKey[q]].at
      <3>1. CASE q = p
        BY <1>1, <1>2, <1>3, <1>4, <3>1
      <3>2. CASE q # p
        <4>1. opened'[q] = opened[q] /\ opened[q] \in 0..Never
          BY <1>1, <3>2
        <4>2. memory[PostKey[q]] # NoAttempt /\ opened[q] <= memory[PostKey[q]].at
          BY <2>2, <4>1, <1>1 DEF MemoryIsYoungest
        <4>3. memory[PostKey[q]].at <= hour
          BY <1>1 DEF MemoryIsYoungest
        <4> QED
          BY <1>1, <1>2, <1>3, <1>4, <1>7, <4>1, <4>2, <4>3
      <3> QED
        BY <3>1, <3>2
    <2> QED
      BY <2>1, <2>2 DEF MemoryIsYoungest
  <1>9. ASSUME NEW q \in StripePosts \ {p}, PostKey[q] = k, opened[q] # Never
        PROVE  hour - opened[q] >= StripeTtl
    <2>1. memory[k] # NoAttempt /\ opened[q] <= memory[k].at
      BY <1>1, <1>9 DEF MemoryIsYoungest
    <2>2. hour - memory[k].at >= StripeTtl
      BY <2>1 DEF Unknown
    <2> QED
      BY <1>1, <1>7, <2>1, <2>2
  <1>10. OneOpenSessionPerKey'
    BY <1>1, <1>9 DEF OneOpenSessionPerKey
  <1> QED
    BY <1>5, <1>6, <1>8, <1>10

(* Every step preserves it.                                                *)
LEMMA CheckoutNextIInv == CheckoutIInv /\ [CheckoutNext]_checkoutVars => CheckoutIInv'
  <1> SUFFICES ASSUME CheckoutIInv, [CheckoutNext]_checkoutVars PROVE CheckoutIInv'
    OBVIOUS
  <1>0. /\ post \in [Posts -> {"new", "over", "lost"} \cup InFlight]
        /\ page \in [Posts -> Posts \cup {NoPage}] /\ holder \in Posts \cup {NoPage}
        /\ invoice \in [PostKeys -> CryptoPosts \cup {NoPage}]
        /\ opened \in [Posts -> 0..Never] /\ hour \in 0..LastHour
        /\ attempt \in [PostKeys -> AttemptRecords] /\ memory \in [PostKeys -> AttemptRecords]
        /\ sent \in [Posts -> {0, 1}] /\ details \in {0, 1}
        /\ response \in [Posts -> [code : {0, 200, 201, 409, 502, 503}, page : Posts \cup {NoPage}]]
        /\ LockIsTight /\ HolderAsks /\ PostsAreApart
        /\ AttemptsAreAsked /\ MemoryIsAsked /\ PageIsAsked /\ InvoicesAreAsked
        /\ MemoryIsYoungest /\ OneOpenSessionPerKey /\ PagesAreAsked
        /\ NoPage \notin Posts /\ CryptoPosts \subseteq Posts
        /\ \A p \in Posts : PostKey[p] \in PostKeys
        /\ Never = LastHour + 1 /\ LastHour \in Nat
    BY LockLemma, PagesAssumption, CryptoPostsAssumption, CheckoutBoundsAssumption
    DEF CheckoutIInv, CheckoutTypes, CheckoutTypeOK, PostKeys, Never
  <1>a. \A p \in Posts : p \in StripePosts <=> p \notin CryptoPosts
    BY DEF StripePosts
  <1>1. ASSUME NEW p \in Posts, Refuse(p) PROVE CheckoutIInv'
    <2>1. PICK code \in {200, 201, 409, 502, 503} : Respond(p, code, NoPage)
      BY <1>1 DEF Refuse, Refusal
    <2>2. post[p] = "new" /\ UNCHANGED <<holder, attempt, memory, opened, invoice, details, hour>>
      BY <1>1 DEF Refuse, Account
    <2>3. /\ post' = [post EXCEPT ![p] = "over"]
          /\ sent' \in [Posts -> {0, 1}] /\ page' \in [Posts -> Posts \cup {NoPage}]
          /\ response' \in [Posts -> [code : {0, 200, 201, 409, 502, 503}, page : Posts \cup {NoPage}]]
          /\ PageIsAsked' /\ PagesAreAsked'
      BY <1>0, <2>1, <2>2, Responds
    <2>4. CheckoutTypes'
      BY <1>0, <2>2, <2>3 DEF CheckoutTypes, CheckoutTypeOK
    <2>5. LockIsTight' /\ PostsAreApart'
      <3>1. \A q \in Posts : post'[q] \in InFlight <=> post[q] \in InFlight
        BY <1>0, <2>2, <2>3 DEF InFlight
      <3>2. \A q \in Posts : post'[q] = "retrieving" => post[q] = "retrieving"
        BY <1>0, <2>3
      <3> QED
        BY <1>0, <2>2, <3>1, <3>2 DEF LockIsTight, PostsAreApart
    <2>6. AttemptsAreAsked' /\ InvoicesAreAsked'
      BY <1>0, <2>2 DEF AttemptsAreAsked, InvoicesAreAsked
    <2> QED
      BY <2>2, <2>3, <2>4, <2>5, <2>6, SessionsStay DEF CheckoutIInv
  <1>2. ASSUME NEW p \in Posts, AskStripe(p) PROVE CheckoutIInv'
    <2> DEFINE known == AttemptOf(p).session
               next == IF known = NoPage THEN "creating" ELSE "retrieving"
    <2>1. /\ p \in StripePosts /\ post[p] = "new" /\ holder = NoPage /\ holder' = p
          /\ post' = [post EXCEPT ![p] = next] /\ page' = [page EXCEPT ![p] = known]
          /\ sent' = [sent EXCEPT ![p] = details]
          /\ attempt' = attempt \/ attempt' = Attempted(p, details, NoPage)
          /\ ~Mismatch(p)
          /\ UNCHANGED <<memory, opened, invoice, response, details, hour>>
      BY <1>2 DEF AskStripe, Refusal, Account
    <2>2. known \in Posts \cup {NoPage} /\ (known # NoPage => IsAskedBy(known, PostKey[p], PlanOf[p]))
      <3>1. CASE AttemptOf(p) = NoAttempt
        BY <3>1 DEF NoAttempt
      <3>2. CASE AttemptOf(p) # NoAttempt
        <4>1. AttemptOf(p) = attempt[PostKey[p]] /\ attempt[PostKey[p]] \in AttemptRecords
          BY <1>0, <3>2 DEF AttemptOf
        <4>2. attempt[PostKey[p]].plan = PlanOf[p]
          BY <1>a, <2>1, <3>2, <4>1 DEF Mismatch, Repeats
        <4> QED
          BY <1>0, <4>1, <4>2 DEF AttemptRecords, AttemptsAreAsked
      <3> QED
        BY <3>1, <3>2
    <2> HIDE DEF known
    <2>3. next \in {"creating", "retrieving"}
      OBVIOUS
    <2> HIDE DEF next
    <2>4. attempt' \in [PostKeys -> AttemptRecords] /\ AttemptsAreAsked'
      <3>1. CASE attempt' = attempt
        BY <1>0, <3>1 DEF AttemptsAreAsked
      <3>2. CASE attempt' = Attempted(p, details, NoPage)
        BY <1>0, <3>2, AttemptedLemma
      <3> QED
        BY <2>1, <3>1, <3>2
    <2>5. /\ post' \in [Posts -> {"new", "over", "lost"} \cup InFlight]
          /\ holder' \in Posts \cup {NoPage} /\ LockIsTight' /\ PostsAreApart'
      BY <1>a, <2>1, <2>3, PostMoves
    <2>6. page' \in [Posts -> Posts \cup {NoPage}] /\ sent' \in [Posts -> {0, 1}]
      BY <1>0, <2>1, <2>2
    <2>7. CheckoutTypes'
      BY <1>0, <2>1, <2>4, <2>5, <2>6 DEF CheckoutTypes, CheckoutTypeOK
    <2>8. PageIsAsked' /\ PagesAreAsked' /\ InvoicesAreAsked'
      BY <1>0, <2>1, <2>2 DEF PageIsAsked, PagesAreAsked, InvoicesAreAsked, IsAskedBy
    <2> QED
      BY <2>1, <2>4, <2>5, <2>7, <2>8, SessionsStay DEF CheckoutIInv
  <1>3. ASSUME NEW p \in Posts, StripeCreates(p) PROVE CheckoutIInv'
    <2> DEFINE k == PostKey[p]
    <2>1. /\ p \in StripePosts /\ post[p] = "creating" /\ post' = [post EXCEPT ![p] = "answered"]
          /\ UNCHANGED <<sent, holder, attempt, invoice, response, details, hour>>
      BY <1>3 DEF StripeCreates, Account
    <2>2. holder = p
      BY <1>0, <2>1 DEF HolderAsks, InFlight
    <2>3. /\ post' \in [Posts -> {"new", "over", "lost"} \cup InFlight]
          /\ holder' \in Posts \cup {NoPage} /\ LockIsTight' /\ PostsAreApart'
      <3>1. post[p] \in InFlight /\ holder' = p
        BY <2>1, <2>2 DEF InFlight
      <3> QED
        BY <1>a, <2>1, <3>1, PostMoves
    <2>4. PICK shown \in Posts :
            page' = [page EXCEPT ![p] = shown] /\ IsAskedBy(shown, k, PlanOf[p])
      <3>1. CASE Unknown(k)
        BY <1>3, <3>1 DEF StripeCreates, IsAskedBy
      <3>2. CASE ~Unknown(k)
        <4>1. memory[k] # NoAttempt /\ memory[k].plan = PlanOf[p]
              /\ page' = [page EXCEPT ![p] = memory[k].session]
          BY <1>3, <3>2 DEF StripeCreates, Unknown
        <4>2. IsAskedBy(memory[k].session, k, memory[k].plan)
          BY <1>0, <4>1 DEF MemoryIsAsked
        <4> QED
          BY <4>1, <4>2 DEF IsAskedBy
      <3> QED
        BY <3>1, <3>2
    <2>5. /\ memory' \in [PostKeys -> AttemptRecords] /\ opened' \in [Posts -> 0..Never]
          /\ MemoryIsAsked' /\ MemoryIsYoungest' /\ OneOpenSessionPerKey'
      <3>1. CASE Unknown(k)
        BY <1>3, <2>1, <3>1, SessionOpens DEF StripeCreates
      <3>2. CASE ~Unknown(k)
        <4>1. UNCHANGED <<memory, opened>>
          BY <1>3, <3>2 DEF StripeCreates
        <4> QED
          BY <1>0, <2>1, <4>1, SessionsStay
      <3> QED
        BY <3>1, <3>2
    <2>6. PageIsAsked' /\ page' \in [Posts -> Posts \cup {NoPage}]
      BY <1>0, <2>4 DEF PageIsAsked, IsAskedBy
    <2>7. CheckoutTypes'
      BY <1>0, <2>1, <2>3, <2>5, <2>6 DEF CheckoutTypes, CheckoutTypeOK
    <2>8. AttemptsAreAsked' /\ PagesAreAsked' /\ InvoicesAreAsked'
      BY <1>0, <2>1 DEF AttemptsAreAsked, PagesAreAsked, InvoicesAreAsked
    <2> QED
      BY <2>3, <2>5, <2>6, <2>7, <2>8 DEF CheckoutIInv
  <1>4. ASSUME NEW p \in Posts, StripeAnswers(p) PROVE CheckoutIInv'
    <2>1. /\ p \in StripePosts /\ post[p] = "answered" /\ Respond(p, 200, page[p]) /\ holder' = NoPage
          /\ attempt' = Attempted(p, sent[p], page[p])
          /\ UNCHANGED <<memory, opened, invoice, details, hour>>
      BY <1>4 DEF StripeAnswers, Account
    <2>2. page[p] \in Posts \cup {NoPage} /\ (page[p] # NoPage => IsAskedBy(page[p], PostKey[p], PlanOf[p]))
      BY <1>0 DEF PageIsAsked
    <2>3. /\ post' = [post EXCEPT ![p] = "over"]
          /\ sent' \in [Posts -> {0, 1}] /\ page' \in [Posts -> Posts \cup {NoPage}]
          /\ response' \in [Posts -> [code : {0, 200, 201, 409, 502, 503}, page : Posts \cup {NoPage}]]
          /\ PageIsAsked' /\ PagesAreAsked'
      BY <1>a, <2>1, <2>2, Responds
    <2>4. /\ post' \in [Posts -> {"new", "over", "lost"} \cup InFlight]
          /\ holder' \in Posts \cup {NoPage} /\ LockIsTight' /\ PostsAreApart'
      <3>1. post[p] \in InFlight
        BY <2>1 DEF InFlight
      <3> QED
        BY <2>1, <2>3, <3>1, PostMoves
    <2>5. attempt' \in [PostKeys -> AttemptRecords] /\ AttemptsAreAsked'
      <3>1. sent[p] \in {0, 1}
        BY <1>0
      <3> QED
        BY <2>1, <2>2, <3>1, AttemptedLemma
    <2>6. CheckoutTypes' /\ InvoicesAreAsked'
      BY <1>0, <2>1, <2>3, <2>4, <2>5 DEF CheckoutTypes, CheckoutTypeOK, InvoicesAreAsked
    <2> QED
      BY <2>1, <2>3, <2>4, <2>5, <2>6, SessionsStay DEF CheckoutIInv
  <1>5. ASSUME NEW p \in Posts, NEW code \in {200, 409, 502}, NEW shown \in {NoPage, page[p]},
               post[p] \in InFlight, shown # NoPage => p \in StripePosts,
               Respond(p, code, shown), holder' = NoPage,
               UNCHANGED <<attempt, memory, opened, invoice, details, hour>>
        PROVE  CheckoutIInv'
    <2>1. shown \in Posts \cup {NoPage} /\ (shown # NoPage => IsAskedBy(shown, PostKey[p], PlanOf[p]))
      BY <1>0, <1>5 DEF PageIsAsked
    <2>2. /\ post' = [post EXCEPT ![p] = "over"]
          /\ sent' \in [Posts -> {0, 1}] /\ page' \in [Posts -> Posts \cup {NoPage}]
          /\ response' \in [Posts -> [code : {0, 200, 201, 409, 502, 503}, page : Posts \cup {NoPage}]]
          /\ PageIsAsked' /\ PagesAreAsked'
      BY <1>a, <1>5, <2>1, Responds
    <2>3. /\ post' \in [Posts -> {"new", "over", "lost"} \cup InFlight]
          /\ holder' \in Posts \cup {NoPage} /\ LockIsTight' /\ PostsAreApart'
      BY ZenonT(30), <1>5, <2>2, PostMoves
    <2>4. CheckoutTypes' /\ AttemptsAreAsked' /\ InvoicesAreAsked'
      BY <1>0, <1>5, <2>2, <2>3
      DEF CheckoutTypes, CheckoutTypeOK, AttemptsAreAsked, InvoicesAreAsked
    <2> QED
      BY <1>5, <2>2, <2>3, <2>4, SessionsStay DEF CheckoutIInv
  <1>6. ASSUME NEW p \in Posts, StripeRetrieves(p) \/ CheckoutFails(p) PROVE CheckoutIInv'
    <2>1. /\ post[p] \in InFlight /\ holder' = NoPage
          /\ UNCHANGED <<attempt, memory, opened, invoice, details, hour>>
      BY <1>6 DEF StripeRetrieves, CheckoutFails, Account, InFlight
    <2>2. PICK code \in {200, 409, 502}, shown \in {NoPage, page[p]} :
            Respond(p, code, shown) /\ (shown # NoPage => p \in StripePosts)
      <3>1. CASE StripeRetrieves(p)
        BY <1>0, <3>1 DEF StripeRetrieves, PostsAreApart
      <3>2. CASE CheckoutFails(p)
        BY <3>2 DEF CheckoutFails
      <3> QED
        BY <1>6, <3>1, <3>2
    <2> QED
      BY <1>5, <2>1, <2>2
  <1>7. ASSUME NEW p \in Posts, ShowInvoice(p) PROVE CheckoutIInv'
    <2> DEFINE shown == invoice[PostKey[p]]
    <2>1. /\ p \in CryptoPosts /\ post[p] = "new" /\ shown # NoPage /\ PlanOf[shown] = PlanOf[p]
          /\ Respond(p, 200, shown)
          /\ UNCHANGED <<holder, attempt, memory, opened, invoice, details, hour>>
      BY <1>7 DEF ShowInvoice, Account, Refusal, Mismatch, Repeats
    <2>2. IsAskedBy(shown, PostKey[p], PlanOf[p])
      BY <1>0, <2>1 DEF IsAskedBy, InvoicesAreAsked
    <2> HIDE DEF shown
    <2>3. shown \in Posts \cup {NoPage} /\ invoice[PostKey[p]] = shown
      BY <2>2 DEF IsAskedBy, shown
    <2>4. /\ post' = [post EXCEPT ![p] = "over"]
          /\ sent' \in [Posts -> {0, 1}] /\ page' \in [Posts -> Posts \cup {NoPage}]
          /\ response' \in [Posts -> [code : {0, 200, 201, 409, 502, 503}, page : Posts \cup {NoPage}]]
          /\ PageIsAsked' /\ PagesAreAsked'
      BY <2>1, <2>2, <2>3, Responds
    <2>5. LockIsTight' /\ PostsAreApart'
      <3>1. \A q \in Posts : post'[q] \in InFlight <=> post[q] \in InFlight
        BY <1>0, <2>1, <2>4 DEF InFlight
      <3>2. \A q \in Posts : post'[q] = "retrieving" => post[q] = "retrieving"
        BY <1>0, <2>4
      <3> QED
        BY <1>0, <2>1, <3>1, <3>2 DEF LockIsTight, PostsAreApart
    <2>6. CheckoutTypes' /\ AttemptsAreAsked' /\ InvoicesAreAsked'
      BY <1>0, <2>1, <2>4 DEF CheckoutTypes, CheckoutTypeOK, AttemptsAreAsked, InvoicesAreAsked
    <2> QED
      BY <2>1, <2>4, <2>5, <2>6, SessionsStay DEF CheckoutIInv
  <1>8. ASSUME NEW p \in Posts, AskNowPayments(p) \/ InvoiceOpens(p) PROVE CheckoutIInv'
    <2>1. /\ p \in CryptoPosts /\ holder' = p /\ (post[p] \in InFlight \/ holder = NoPage)
          /\ invoice[PostKey[p]] = NoPage
          /\ UNCHANGED <<sent, attempt, memory, invoice, response, details, hour>>
      <3>1. CASE AskNowPayments(p)
        BY <3>1 DEF AskNowPayments, Refusal, Repeats, Account
      <3>2. CASE InvoiceOpens(p)
        BY <1>0, <3>2 DEF InvoiceOpens, HolderAsks, PostsAreApart, InFlight, Account
      <3> QED
        BY <1>8, <3>1, <3>2
    <2>2. PICK next \in {"creating", "answered"} : post' = [post EXCEPT ![p] = next]
      BY <1>8 DEF AskNowPayments, InvoiceOpens
    <2>3. /\ page' = page \/ page' = [page EXCEPT ![p] = p]
          /\ opened' = opened \/ opened' = [opened EXCEPT ![p] = hour]
      BY <1>8 DEF AskNowPayments, InvoiceOpens
    <2>4. /\ post' \in [Posts -> {"new", "over", "lost"} \cup InFlight]
          /\ holder' \in Posts \cup {NoPage} /\ LockIsTight' /\ PostsAreApart'
      BY <2>1, <2>2, PostMoves
    <2>5. page' \in [Posts -> Posts \cup {NoPage}] /\ opened' \in [Posts -> 0..Never]
      BY <1>0, <2>3
    <2>6. CheckoutTypes'
      BY <1>0, <2>1, <2>4, <2>5 DEF CheckoutTypes, CheckoutTypeOK
    <2>7. PageIsAsked'
      BY <1>0, <2>3 DEF PageIsAsked, IsAskedBy
    <2>8. AttemptsAreAsked' /\ InvoicesAreAsked' /\ MemoryIsAsked' /\ PagesAreAsked'
      BY <1>0, <2>1 DEF AttemptsAreAsked, InvoicesAreAsked, MemoryIsAsked, PagesAreAsked
    <2>9. MemoryIsYoungest' /\ OneOpenSessionPerKey'
      <3>1. \A q \in StripePosts : opened'[q] = opened[q]
        BY <1>0, <1>a, <2>1, <2>3 DEF StripePosts
      <3> QED
        BY <1>0, <2>1, <3>1 DEF MemoryIsYoungest, OneOpenSessionPerKey
    <2> QED
      BY <2>4, <2>6, <2>7, <2>8, <2>9 DEF CheckoutIInv
  <1>9. ASSUME NEW p \in Posts, InvoiceIsSaved(p) PROVE CheckoutIInv'
    <2> DEFINE shown == page[p]
    <2>1. /\ p \in CryptoPosts /\ post[p] = "answered" /\ Respond(p, 201, shown) /\ holder' = NoPage
          /\ invoice' = [invoice EXCEPT ![PostKey[p]] = shown]
          /\ UNCHANGED <<attempt, memory, opened, details, hour>>
      BY <1>9 DEF InvoiceIsSaved, Account
    <2>2. /\ shown \in Posts \cup {NoPage} /\ (shown # NoPage => IsAskedBy(shown, PostKey[p], PlanOf[p]))
          /\ post[p] \in InFlight /\ invoice[PostKey[p]] = NoPage
      BY <1>0, <2>1 DEF PageIsAsked, InFlight, PostsAreApart
    <2>3. shown \in CryptoPosts \cup {NoPage}
      BY <1>a, <2>1, <2>2, ProvidersAssumption DEF IsAskedBy
    <2> HIDE DEF shown
    <2>4. /\ invoice' \in [PostKeys -> CryptoPosts \cup {NoPage}] /\ InvoicesAreAsked'
          /\ invoice'[PostKey[p]] = shown
          /\ \A k \in PostKeys \ {PostKey[p]} : invoice'[k] = invoice[k]
      BY <1>0, <2>1, <2>2, <2>3 DEF InvoicesAreAsked, IsAskedBy
    <2>5. /\ post' = [post EXCEPT ![p] = "over"]
          /\ sent' \in [Posts -> {0, 1}] /\ page' \in [Posts -> Posts \cup {NoPage}]
          /\ response' \in [Posts -> [code : {0, 200, 201, 409, 502, 503}, page : Posts \cup {NoPage}]]
          /\ PageIsAsked' /\ PagesAreAsked'
      BY <2>1, <2>2, <2>4, Responds
    <2>6. /\ post' \in [Posts -> {"new", "over", "lost"} \cup InFlight]
          /\ holder' \in Posts \cup {NoPage} /\ LockIsTight'
      BY ZenonT(30), <2>1, <2>2, <2>5, PostMoves
    <2>7. PostsAreApart'
      BY <1>0, <2>2, <2>5 DEF PostsAreApart, HolderAsks, InFlight
    <2>8. CheckoutTypes' /\ AttemptsAreAsked'
      BY <1>0, <2>1, <2>4, <2>5, <2>6 DEF CheckoutTypes, CheckoutTypeOK, AttemptsAreAsked
    <2> QED
      BY <2>1, <2>4, <2>5, <2>6, <2>7, <2>8, SessionsStay DEF CheckoutIInv
  <1>10. CASE CheckoutCrash
    <2>1. /\ post' = [p \in Posts |-> IF post[p] \in InFlight THEN "lost" ELSE post[p]]
          /\ sent' = [p \in Posts |-> 0] /\ page' = [p \in Posts |-> NoPage] /\ holder' = NoPage
          /\ UNCHANGED <<attempt, memory, opened, invoice, response, details, hour>>
      BY <1>10 DEF CheckoutCrash, Account
    <2>2. CheckoutTypes'
      BY <1>0, <2>1 DEF CheckoutTypes, CheckoutTypeOK
    <2>3. \A p \in Posts : post'[p] \notin InFlight
      BY <2>1 DEF InFlight
    <2>4. LockIsTight' /\ PostsAreApart'
      BY <1>0, <2>1, <2>3 DEF LockIsTight, PostsAreApart, InFlight
    <2>5. AttemptsAreAsked' /\ InvoicesAreAsked' /\ PageIsAsked' /\ PagesAreAsked'
      BY <1>0, <2>1 DEF AttemptsAreAsked, InvoicesAreAsked, PageIsAsked, PagesAreAsked
    <2> QED
      BY <2>1, <2>2, <2>4, <2>5, SessionsStay DEF CheckoutIInv
  <1>11. CASE AccountChanges \/ HourPasses \/ UNCHANGED checkoutVars
    <2>1. /\ UNCHANGED <<post, sent, page, holder, attempt, memory, opened, invoice, response>>
          /\ details' \in {0, 1} /\ hour' \in 0..LastHour /\ hour <= hour'
      BY <1>0, <1>11 DEF AccountChanges, HourPasses, checkoutVars
    <2>2. CheckoutTypes' /\ LockIsTight' /\ PostsAreApart'
      BY <1>0, <2>1 DEF CheckoutTypes, CheckoutTypeOK, LockIsTight, PostsAreApart
    <2>3. AttemptsAreAsked' /\ MemoryIsAsked' /\ InvoicesAreAsked' /\ PageIsAsked' /\ PagesAreAsked'
      BY <1>0, <2>1 DEF AttemptsAreAsked, MemoryIsAsked, InvoicesAreAsked, PageIsAsked, PagesAreAsked
    <2>4. MemoryIsYoungest'
      <3>1. \A k \in PostKeys : memory[k].at \in 0..LastHour
        BY <1>0 DEF AttemptRecords
      <3> QED
        BY <1>0, <2>1, <3>1 DEF MemoryIsYoungest
    <2>5. OneOpenSessionPerKey'
      BY <1>0, <2>1, TtlAssumption DEF OneOpenSessionPerKey, StripePosts
    <2> QED
      BY <2>2, <2>3, <2>4, <2>5 DEF CheckoutIInv
  <1> QED
    BY <1>1, <1>2, <1>3, <1>4, <1>6, <1>7, <1>8, <1>9, <1>10, <1>11 DEF CheckoutNext, CheckoutStep

(* A key stands for one checkout that can be paid, of the plan that was    *)
(* asked for (POST /v1/billing/checkout).                                  *)
THEOREM CheckoutSound == CheckoutSpec => []CheckoutIsSound
  BY CheckoutInitIInv, CheckoutNextIInv, PTL DEF CheckoutSpec, CheckoutIInv, CheckoutIsSound

----------------------------------------------------------------------------
(* Installs.  An operation is started while its transaction is there, and  *)
(* the channel that has recorded it has not started it yet, so it is       *)
(* started once.  What the App Store accepts was started for this request: *)
(* an operation of a store job is asked for once, unless a shutdown cuts   *)
(* its attempt off, and until then nothing of it is anywhere.              *)

OperationIds == [job : InstallJobs, retry : 0 .. MaxRetries, again : BOOLEAN]
StoreOperations == {o \in OperationIds : o.job \in StoreJobs}

LEMMA OperationLemma ==
  /\ \A o \in Operations : o \in OperationIds
  /\ \A o \in Operations : o.job \in StoreJobs => o \in StoreOperations
  /\ StoreOperations \subseteq Operations
  /\ \A j \in InstallJobs, n \in 0 .. MaxRetries, again \in BOOLEAN :
       OperationId(j, n, again) \in Operations /\ OperationId(j, n, again).job = j
  <1>1. \A j \in InstallJobs, n \in 0 .. MaxRetries, again \in BOOLEAN :
          OperationId(j, n, again) \in OperationIds /\ OperationId(j, n, again).job = j
    BY InstallAssumption DEF OperationId, OperationIds
  <1>2. \A o \in StoreOperations : o = OperationId(o.job, o.retry, o.again)
    BY InstallAssumption DEF OperationId, StoreOperations, OperationIds
  <1> QED
    BY <1>1, <1>2 DEF Operations, StoreOperations, OperationIds

(* The attempt under way is one of an open job, and asks for an operation  *)
(* of its own.                                                             *)
RunIsOwn ==
  \/ run = NoRun
  \/ /\ run.job \in InstallJobs /\ run.op \in Operations /\ run.op.job = run.job
     /\ run.phase \in {"ready", "asking", "waiting"} /\ outcome[run.job] = "open"
     /\ run.job \in StoreJobs => run.op = [job |-> run.job, retry |-> retries[run.job], again |-> run.again]
     /\ run.phase = "ready" => ~run.again

(* What a channel has in hand is a request of its own.                     *)
HandsAreApart ==
  \A c \in Channels :
    \/ hand[c] = Idle
    \/ hand[c].id \in RequestIds /\ ChannelOf(hand[c].id.op) = c /\ hand[c].step \in {"taken", "recorded"}

StartsAreRecorded ==
  /\ \A o \in Operations : starts[o] \in {0, 1} /\ (starts[o] = 1 => transaction[o] # "none")
  /\ \A c \in Channels :
       hand[c].step = "recorded" => transaction[hand[c].id.op] # "none" /\ starts[hand[c].id.op] = 0

InstallIInv == InstallTypeOK /\ RunIsOwn /\ HandsAreApart /\ StartsAreRecorded

(* An operation of a store job that nobody has asked for yet.              *)
Fresh(o) ==
  /\ outcome[o.job] = "open"
  /\ \/ o.retry > retries[o.job]
     \/ /\ o.retry = retries[o.job]
        /\ run.job # o.job \/ run.phase = "ready" \/ (o.again /\ ~run.again)

(* Those no shutdown has cut off.                                          *)
OwnOperations == StoreOperations \ cutOff

InHand(o) == \E c \in Channels : hand[c].id.op = o

(* A request for it that the bridge has yet to look at.                    *)
Pending(o) == (\E q \in requests : q.op = o) \/ \E c \in Channels : hand[c].step = "taken" /\ hand[c].id.op = o

Untouched(o) == starts[o] = 0 /\ transaction[o] = "none" /\ o \notin wanted

(* Nothing is anywhere of what nobody asked for, and a request is there    *)
(* once and has started nothing before.                                    *)
StoreAsksOnce ==
  \A o \in OwnOperations :
    /\ Fresh(o) => Untouched(o) /\ ~Pending(o) /\ ~InHand(o)
    /\ Pending(o) => Untouched(o)
    /\ ~(InHand(o) /\ \E q \in requests : q.op = o)
    /\ \A p, q \in requests : p.op = o /\ q.op = o => p = q

AcceptedWasStarted ==
  \A q \in RequestIds :
    q.op.job \in StoreJobs /\ q.op \notin cutOff /\ answers[q] = "accepted" => starts[q.op] = 1

(* An attempt counts from nothing.                                         *)
RunCountsFromNothing ==
  run.job \in StoreJobs /\ run.op \notin cutOff =>
    /\ run.phase \in {"asking", "waiting"} => run.base = 0
    /\ run.phase = "waiting" => starts[run.op] = 1

StoreIInv == StoreAsksOnce /\ AcceptedWasStarted /\ RunCountsFromNothing

(* The initial state satisfies both.                                       *)
LEMMA InstallInitIInv == InstallInit => InstallIInv /\ StoreIInv
  <1> SUFFICES ASSUME InstallInit PROVE InstallIInv /\ StoreIInv
    OBVIOUS
  <1> USE InstallAssumption
  <1>1. NoRun \in [job : InstallJobs \cup {NoJob}, op : Operations \cup {NoOperation},
                  phase : {"none", "ready", "asking", "waiting"}, again : BOOLEAN,
                  seen : {"none", "requested", "completed"}, base : Nat]
    BY DEF NoRun
  <1>2. Idle \in [id : RequestIds \cup {NoRequest}, step : {"none", "taken", "recorded"}]
    BY DEF Idle
  <1>3. InstallTypeOK
    BY <1>1, <1>2 DEF InstallInit, InstallTypeOK
  <1>4. \A c \in Channels : hand[c] = Idle
    BY DEF InstallInit
  <1>5. InstallIInv
    BY <1>3, <1>4 DEF InstallInit, InstallIInv, RunIsOwn, HandsAreApart, StartsAreRecorded, Idle
  <1>6. StoreAsksOnce
    <2>1. ASSUME NEW o \in OwnOperations
          PROVE  Untouched(o) /\ ~InHand(o) /\ ~\E q \in requests : q.op = o
      <3>1. o # NoOperation /\ o \in Operations
        BY OperationLemma, NoOperationAssumption DEF OwnOperations
      <3> QED
        BY <1>4, <3>1 DEF Untouched, InHand, InstallInit, Idle, NoRequest
    <2> QED
      BY <2>1 DEF StoreAsksOnce, Pending, InHand
  <1>7. AcceptedWasStarted /\ RunCountsFromNothing
    BY DEF InstallInit, AcceptedWasStarted, RunCountsFromNothing, NoRun
  <1> QED
    BY <1>5, <1>6, <1>7 DEF StoreIInv

RunRecords ==
  [job : InstallJobs \cup {NoJob}, op : Operations \cup {NoOperation},
   phase : {"none", "ready", "asking", "waiting"}, again : BOOLEAN,
   seen : {"none", "requested", "completed"}, base : Nat]

LEMMA NoRunLemma == NoRun \in RunRecords /\ NoRun.phase = "none" /\ NoRun.job = NoJob
  BY DEF NoRun, RunRecords

LEMMA AttemptUnderWay ==
  ASSUME InstallIInv, run.phase # "none"
  PROVE  /\ run.job \in InstallJobs /\ run.op \in Operations /\ run.op.job = run.job
         /\ run.phase \in {"ready", "asking", "waiting"} /\ outcome[run.job] = "open"
         /\ run.job \in StoreJobs => run.op = [job |-> run.job, retry |-> retries[run.job], again |-> run.again]
         /\ run.phase = "ready" => ~run.again
  BY NoRunLemma DEF InstallIInv, RunIsOwn

(* The end of an attempt.                                                  *)
LEMMA EndsLemma ==
  ASSUME InstallIInv, run.phase # "none", Ends(run.job)
  PROVE  /\ run' = NoRun /\ RunIsOwn'
         /\ retries' \in [InstallJobs -> 0 .. MaxRetries]
         /\ outcome' \in [InstallJobs -> {"open", "installed", "ended"}]
         /\ \A o \in StoreOperations : Fresh(o)' => Fresh(o)
  <1> DEFINE j == run.job
  <1>0. j \in InstallJobs
    BY AttemptUnderWay
  <1>1. /\ retries \in [InstallJobs -> 0 .. MaxRetries]
        /\ outcome \in [InstallJobs -> {"open", "installed", "ended"}]
    BY DEF InstallIInv, InstallTypeOK
  <1>2. run' = NoRun
    BY DEF Ends
  <1>3. CASE outcome' = [outcome EXCEPT ![j] = "ended"] /\ retries' = retries
    <2> HIDE DEF j
    <2>1. outcome' \in [InstallJobs -> {"open", "installed", "ended"}]
      BY <1>0, <1>1, <1>3
    <2>2. ASSUME NEW o \in StoreOperations, Fresh(o)' PROVE Fresh(o)
      <3>1. o.job # j /\ outcome'[o.job] = outcome[o.job] /\ o.job \in InstallJobs
        BY <1>0, <1>1, <1>3, <2>2 DEF Fresh, StoreOperations, OperationIds
      <3> QED
        BY <1>3, <2>2, <3>1 DEF Fresh, j
    <2> QED
      BY <1>1, <1>2, <1>3, <2>1, <2>2 DEF RunIsOwn
  <1>4. CASE retries[j] < MaxRetries /\ retries' = [retries EXCEPT ![j] = @ + 1] /\ outcome' = outcome
    <2> HIDE DEF j
    <2>1. retries' \in [InstallJobs -> 0 .. MaxRetries] /\ retries'[j] = retries[j] + 1
      BY <1>0, <1>1, <1>4, InstallAssumption
    <2>2. ASSUME NEW o \in StoreOperations, Fresh(o)' PROVE Fresh(o)
      <3>1. o.job \in InstallJobs /\ o.retry \in Nat /\ retries[o.job] \in Nat
        BY <1>1 DEF StoreOperations, OperationIds
      <3>2. CASE o.job = j
        BY <1>4, <2>1, <2>2, <3>1, <3>2 DEF Fresh
      <3>3. CASE o.job # j
        <4>1. retries'[o.job] = retries[o.job]
          BY <1>0, <1>1, <1>4, <3>1, <3>3
        <4> QED
          BY <1>4, <2>2, <3>3, <4>1 DEF Fresh, j
      <3> QED
        BY <3>2, <3>3
    <2> QED
      BY <1>1, <1>2, <1>4, <2>1, <2>2 DEF RunIsOwn
  <1> QED
    BY <1>3, <1>4 DEF Ends

(* A step of the server, which may restart the App Store.                  *)
LEMMA ServerKeeps ==
  ASSUME InstallIInv, UNCHANGED <<transaction, starts>>,
         hand' = hand \/ hand' = [hand EXCEPT !["appstore"] = Idle]
  PROVE  /\ HandsAreApart' /\ StartsAreRecorded'
         /\ hand' \in [Channels -> [id : RequestIds \cup {NoRequest}, step : {"none", "taken", "recorded"}]]
         /\ \A c \in Channels : hand'[c] = hand[c] \/ hand'[c] = Idle
  <1>1. Idle \in [id : RequestIds \cup {NoRequest}, step : {"none", "taken", "recorded"}] /\ Idle.step = "none"
    BY DEF Idle
  <1>2. hand \in [Channels -> [id : RequestIds \cup {NoRequest}, step : {"none", "taken", "recorded"}]]
    BY DEF InstallIInv, InstallTypeOK
  <1>3. "appstore" \in Channels
    BY DEF Channels
  <1>4. /\ hand' \in [Channels -> [id : RequestIds \cup {NoRequest}, step : {"none", "taken", "recorded"}]]
        /\ \A c \in Channels : hand'[c] = hand[c] \/ hand'[c] = Idle
    BY <1>1, <1>2, <1>3
  <1> QED
    BY <1>1, <1>4 DEF InstallIInv, HandsAreApart, StartsAreRecorded

LEMMA RequestLemma ==
  ASSUME InstallIInv, NEW o \in Operations
  PROVE  RequestId(o) \in RequestIds /\ RequestId(o).op = o
  BY InstallAssumption DEF InstallIInv, InstallTypeOK, RequestId, RequestIds

(* The files and what the bridge and the system know keep their types.     *)
FileTypes ==
  /\ requests \subseteq RequestIds
  /\ answers \in [RequestIds -> {"none", "accepted", "refused"}]
  /\ transaction \in [Operations -> {"none", "requested", "completed", "failed"}]
  /\ status \in [op : Operations \cup {NoOperation}, state : {"none", "requested", "completed", "failed"}]
  /\ wanted \subseteq Operations
  /\ onDevice \in InstallJobs \cup {NoJob}
  /\ starts \in [Operations -> Nat]
  /\ cutOff \subseteq Operations
  /\ deaths \in 0 .. MaxDeaths /\ sweeps \in 0 .. MaxSweeps
  /\ shutdowns \in 0 .. MaxShutdowns

ServerTypes ==
  /\ run \in RunRecords
  /\ retries \in [InstallJobs -> 0 .. MaxRetries]
  /\ outcome \in [InstallJobs -> {"open", "installed", "ended"}]

HandTypes ==
  hand \in [Channels -> [id : RequestIds \cup {NoRequest}, step : {"none", "taken", "recorded"}]]

LEMMA InstallTypes == InstallTypeOK <=> FileTypes /\ ServerTypes /\ HandTypes
  BY DEF InstallTypeOK, FileTypes, ServerTypes, HandTypes, RunRecords

(* Every step of the server preserves it.                                  *)
LEMMA ServerNextIInv ==
  ASSUME InstallIInv,
         \/ \E j \in InstallJobs : StartAttempt(j)
         \/ Ask \/ TakeAnswer \/ GiveUpAsking \/ ReadStatus \/ Verify \/ AskAgain \/ GiveUpWaiting \/ ShutDown
  PROVE  InstallIInv'
  <1>0. FileTypes /\ ServerTypes /\ HandTypes
    BY InstallTypes DEF InstallIInv
  <1>1. ASSUME FileTypes', ServerTypes', RunIsOwn', UNCHANGED <<transaction, starts>>,
               hand' = hand \/ hand' = [hand EXCEPT !["appstore"] = Idle]
        PROVE  InstallIInv'
    <2>1. HandsAreApart' /\ StartsAreRecorded' /\ HandTypes'
      BY <1>1, ServerKeeps DEF HandTypes
    <2>2. InstallTypeOK' <=> FileTypes' /\ ServerTypes' /\ HandTypes'
      BY DEF InstallTypeOK, FileTypes, ServerTypes, HandTypes, RunRecords
    <2> QED
      BY <1>1, <2>1, <2>2 DEF InstallIInv
  <1>2. ASSUME NEW j \in InstallJobs, StartAttempt(j) PROVE InstallIInv'
    <2> DEFINE o == OperationId(j, retries[j], FALSE)
    <2>1. /\ outcome[j] = "open"
          /\ run' = [job |-> j, op |-> o, phase |-> "ready", again |-> FALSE, seen |-> "none", base |-> 0]
          /\ Restarts(j) /\ onDevice' \in {NoJob, onDevice}
          /\ UNCHANGED <<retries, outcome, requests, answers, transaction, status, wanted, starts, cutOff, deaths, sweeps, shutdowns>>
      BY <1>2 DEF StartAttempt, faults
    <2>2. o \in Operations /\ o.job = j
      BY <1>0, OperationLemma DEF ServerTypes
    <2>3. j \in StoreJobs => o = [job |-> j, retry |-> retries[j], again |-> FALSE]
      BY DEF OperationId
    <2> HIDE DEF o
    <2>4. run' \in RunRecords
      BY <2>1, <2>2 DEF RunRecords
    <2>5. RunIsOwn'
      BY <2>1, <2>2, <2>3 DEF RunIsOwn
    <2>6. FileTypes' /\ ServerTypes'
      BY <1>0, <2>1, <2>4 DEF FileTypes, ServerTypes
    <2> QED
      BY <1>1, <2>1, <2>5, <2>6 DEF Restarts
  <1>3. CASE Ask
    <2>1. /\ run' = [run EXCEPT !.phase = "asking", !.base = starts[run.op]] /\ run.phase = "ready"
          /\ requests' = requests \cup {RequestId(run.op)}
          /\ UNCHANGED <<retries, outcome, answers, hand, transaction, status, starts, cutOff, deaths, sweeps, shutdowns, wanted, onDevice>>
      BY <1>3 DEF Ask, bridge, os, faults
    <2>2. run.op \in Operations /\ starts[run.op] \in Nat
      BY <1>0, <2>1, AttemptUnderWay DEF FileTypes
    <2>3. /\ run' \in RunRecords /\ run'.phase = "asking" /\ run'.job = run.job /\ run'.op = run.op /\ run'.again = run.again
      BY <1>0, <2>1, <2>2 DEF ServerTypes, RunRecords
    <2>4. RequestId(run.op) \in RequestIds
      BY <2>2, RequestLemma
    <2>5. RunIsOwn'
      BY <2>1, <2>3, AttemptUnderWay DEF RunIsOwn
    <2>6. FileTypes' /\ ServerTypes'
      BY <1>0, <2>1, <2>3, <2>4 DEF FileTypes, ServerTypes
    <2> QED
      BY <1>1, <2>1, <2>5, <2>6
  (* An attempt that ends, whatever becomes of its files.                  *)
  <1>4. ASSUME run.phase # "none", Ends(run.job), requests' \subseteq requests,
               answers' \in [RequestIds -> {"none", "accepted", "refused"}],
               UNCHANGED <<hand, transaction, status, starts, cutOff, deaths, sweeps, shutdowns, wanted, onDevice>>
        PROVE  InstallIInv'
    <2>1. /\ run' = NoRun /\ RunIsOwn'
          /\ retries' \in [InstallJobs -> 0 .. MaxRetries]
          /\ outcome' \in [InstallJobs -> {"open", "installed", "ended"}]
      BY <1>4, EndsLemma
    <2>2. FileTypes' /\ ServerTypes'
      BY <1>0, <1>4, <2>1, NoRunLemma DEF FileTypes, ServerTypes
    <2> QED
      BY <1>1, <1>4, <2>1, <2>2
  (* An attempt that goes on.                                              *)
  <1>5. ASSUME NEW phase \in {"waiting"}, NEW seen \in {"none", "requested", "completed"}, run.phase \in {"asking", "waiting"},
               run' = [run EXCEPT !.phase = phase] \/ run' = [run EXCEPT !.seen = seen],
               answers' \in [RequestIds -> {"none", "accepted", "refused"}],
               UNCHANGED <<retries, outcome, requests, hand, transaction, status, starts, cutOff, deaths, sweeps, shutdowns, wanted, onDevice>>
        PROVE  InstallIInv'
    <2>1. /\ run' \in RunRecords /\ run'.phase \in {"asking", "waiting"} /\ run'.job = run.job /\ run'.op = run.op /\ run'.again = run.again
      BY <1>0, <1>5 DEF ServerTypes, RunRecords
    <2>2. RunIsOwn'
      BY <1>5, <2>1, AttemptUnderWay DEF RunIsOwn
    <2>3. FileTypes' /\ ServerTypes'
      BY <1>0, <1>5, <2>1 DEF FileTypes, ServerTypes
    <2> QED
      BY <1>1, <1>5, <2>2, <2>3
  <1>6. CASE TakeAnswer
    <2>1. /\ run.phase = "asking" /\ UNCHANGED <<hand, transaction, status, starts, cutOff, deaths, sweeps, shutdowns, wanted, onDevice>>
          /\ answers' = [answers EXCEPT ![RequestId(run.op)] = "none"]
          /\ \/ run' = [run EXCEPT !.phase = "waiting"] /\ UNCHANGED <<retries, outcome, requests>>
             \/ Ends(run.job) /\ requests' = requests \ {RequestId(run.op)}
      BY <1>6 DEF TakeAnswer, bridge, os, faults
    <2>2. answers' \in [RequestIds -> {"none", "accepted", "refused"}]
      BY <1>0, <2>1 DEF FileTypes
    <2>3. CASE Ends(run.job) /\ requests' = requests \ {RequestId(run.op)}
      BY <1>4, <2>1, <2>2, <2>3
    <2>4. CASE run' = [run EXCEPT !.phase = "waiting"] /\ UNCHANGED <<retries, outcome, requests>>
      BY <1>5, <2>1, <2>2, <2>4
    <2> QED
      BY <2>1, <2>3, <2>4
  <1>7. CASE GiveUpAsking
    <2>1. /\ run.phase = "asking" /\ UNCHANGED <<hand, transaction, status, starts, cutOff, deaths, sweeps, shutdowns, wanted, onDevice>>
          /\ Ends(run.job) /\ requests' \subseteq requests
          /\ answers' = [answers EXCEPT ![RequestId(run.op)] = "none"] \/ answers' = answers
      BY <1>7 DEF GiveUpAsking, bridge, os, faults
    <2>2. answers' \in [RequestIds -> {"none", "accepted", "refused"}]
      BY <1>0, <2>1 DEF FileTypes
    <2> QED
      BY <1>4, <2>1, <2>2
  <1>8. CASE ReadStatus
    <2>1. /\ run.phase = "waiting" /\ UNCHANGED <<requests, answers, hand, transaction, status, starts, cutOff, deaths, sweeps, shutdowns, wanted, onDevice>>
          /\ \/ status.state = "failed" /\ Ends(run.job)
             \/ status.state # "failed" /\ run' = [run EXCEPT !.seen = status.state] /\ UNCHANGED <<retries, outcome>>
      BY <1>8 DEF ReadStatus, bridge, os, faults
    <2>2. answers' \in [RequestIds -> {"none", "accepted", "refused"}]
      BY <1>0, <2>1 DEF FileTypes
    <2>3. CASE Ends(run.job)
      BY <1>4, <2>1, <2>2, <2>3
    <2>4. CASE status.state # "failed" /\ run' = [run EXCEPT !.seen = status.state] /\ UNCHANGED <<retries, outcome>>
      <3>1. status.state \in {"none", "requested", "completed"}
        BY <1>0, <2>4 DEF FileTypes
      <3> QED
        BY <1>5, <2>1, <2>2, <2>4, <3>1
    <2> QED
      BY <2>1, <2>3, <2>4
  <1>9. CASE Verify
    <2>1. /\ run.phase = "waiting" /\ run' = NoRun /\ outcome' = [outcome EXCEPT ![run.job] = "installed"]
          /\ UNCHANGED <<retries, requests, answers, hand, transaction, status, starts, cutOff, deaths, sweeps, shutdowns, wanted, onDevice>>
      BY <1>9 DEF Verify, bridge, os, faults
    <2>2. outcome' \in [InstallJobs -> {"open", "installed", "ended"}]
      BY <1>0, <2>1 DEF ServerTypes
    <2>3. FileTypes' /\ ServerTypes' /\ RunIsOwn'
      BY <1>0, <2>1, <2>2, NoRunLemma DEF FileTypes, ServerTypes, RunIsOwn
    <2> QED
      BY <1>1, <2>1, <2>3
  <1>10. CASE AskAgain
    <2> DEFINE o == OperationId(run.job, run.op.retry, TRUE)
    <2>1. /\ run.phase = "waiting" /\ ~run.again /\ Restarts(run.job)
          /\ run' = [run EXCEPT !.op = o, !.phase = "asking", !.again = TRUE, !.seen = "none", !.base = starts[o]]
          /\ requests' = requests \cup {RequestId(o)}
          /\ UNCHANGED <<retries, outcome, answers, transaction, status, starts, cutOff, deaths, sweeps, shutdowns, wanted, onDevice>>
      BY <1>10 DEF AskAgain, faults, os
    <2>2. o \in Operations /\ o.job = run.job
      <3>1. run.job \in InstallJobs /\ run.op \in Operations
        BY <2>1, AttemptUnderWay
      <3>2. run.op.retry \in 0 .. MaxRetries
        BY <3>1, OperationLemma DEF OperationIds
      <3> QED
        BY <3>1, <3>2, OperationLemma
    <2>3. run.job \in StoreJobs => o = [job |-> run.job, retry |-> retries[run.job], again |-> TRUE]
      <3>1. run.job \in StoreJobs => run.op.retry = retries[run.job]
        BY <2>1, AttemptUnderWay
      <3> QED
        BY <3>1 DEF OperationId
    <2> HIDE DEF o
    <2>4. starts[o] \in Nat /\ RequestId(o) \in RequestIds
      BY <1>0, <2>2, RequestLemma DEF FileTypes
    <2>5. run' \in RunRecords /\ run'.phase = "asking" /\ run'.job = run.job /\ run'.op = o /\ run'.again = TRUE
      BY <1>0, <2>1, <2>2, <2>4 DEF ServerTypes, RunRecords
    <2>6. RunIsOwn'
      BY <2>1, <2>2, <2>3, <2>5, AttemptUnderWay DEF RunIsOwn
    <2>7. FileTypes' /\ ServerTypes'
      BY <1>0, <2>1, <2>4, <2>5 DEF FileTypes, ServerTypes
    <2> QED
      BY <1>1, <2>1, <2>6, <2>7 DEF Restarts
  <1>11. CASE GiveUpWaiting
    <2>1. /\ run.phase # "none" /\ Ends(run.job)
          /\ UNCHANGED <<requests, answers, hand, transaction, status, starts, cutOff, deaths, sweeps, shutdowns, wanted, onDevice>>
      BY <1>11 DEF GiveUpWaiting, bridge, os, faults
    <2>2. answers' \in [RequestIds -> {"none", "accepted", "refused"}]
      BY <1>0, <2>1 DEF FileTypes
    <2> QED
      BY <1>4, <2>1, <2>2
  <1>12. CASE ShutDown
    <2>1. /\ run' = NoRun /\ shutdowns < MaxShutdowns /\ shutdowns' = shutdowns + 1
          /\ cutOff' \subseteq Operations
          /\ requests' \subseteq requests
          /\ answers' = [answers EXCEPT ![RequestId(run.op)] = "none"] \/ answers' = answers
          /\ UNCHANGED <<retries, outcome, hand, transaction, status, starts, deaths, sweeps, wanted, onDevice>>
      BY <1>0, <1>12 DEF ShutDown, os, FileTypes
    <2>2. answers' \in [RequestIds -> {"none", "accepted", "refused"}]
      BY <1>0, <2>1 DEF FileTypes
    <2>3. shutdowns' \in 0 .. MaxShutdowns
      BY <1>0, <2>1, InstallAssumption DEF FileTypes
    <2>4. FileTypes' /\ ServerTypes' /\ RunIsOwn'
      BY <1>0, <2>1, <2>2, <2>3, NoRunLemma DEF FileTypes, ServerTypes, RunIsOwn
    <2> QED
      BY <1>1, <2>1, <2>4
  <1> QED
    BY <1>2, <1>3, <1>6, <1>7, <1>8, <1>9, <1>10, <1>11, <1>12

(* Every step preserves it.                                                *)
LEMMA InstallNextIInv == InstallIInv /\ [InstallNext]_installVars => InstallIInv'
  <1> SUFFICES ASSUME InstallIInv, [InstallNext]_installVars PROVE InstallIInv'
    OBVIOUS
  <1>0. FileTypes /\ ServerTypes /\ HandTypes /\ RunIsOwn /\ HandsAreApart /\ StartsAreRecorded
    BY InstallTypes DEF InstallIInv
  <1>00. Idle \in [id : RequestIds \cup {NoRequest}, step : {"none", "taken", "recorded"}] /\ Idle.step = "none"
    BY DEF Idle
  (* A step of the bridge or of the system.                                *)
  <1>1. ASSUME FileTypes', HandTypes', HandsAreApart', StartsAreRecorded', UNCHANGED <<run, retries, outcome>>
        PROVE  InstallIInv'
    <2>1. ServerTypes' /\ RunIsOwn'
      BY <1>0, <1>1 DEF ServerTypes, RunIsOwn
    <2>2. InstallTypeOK'
      BY <1>1, <2>1 DEF InstallTypeOK, FileTypes, ServerTypes, HandTypes, RunRecords
    <2> QED
      BY <1>1, <2>1, <2>2 DEF InstallIInv
  (* What a channel has in hand is an operation of that channel.           *)
  <1>2. ASSUME NEW c \in Channels, hand[c].step \in {"taken", "recorded"}
        PROVE  /\ hand[c].id \in RequestIds /\ hand[c].id.op \in Operations
               /\ \A d \in Channels \ {c} : hand[d].id.op # hand[c].id.op
    <2>1. hand[c].id \in RequestIds /\ ChannelOf(hand[c].id.op) = c
      BY <1>0, <1>00, <1>2 DEF HandsAreApart
    <2>2. hand[c].id.op \in Operations
      BY <2>1 DEF RequestIds
    <2>3. ASSUME NEW d \in Channels \ {c} PROVE hand[d].id.op # hand[c].id.op
      BY <1>0, <2>1, <2>2, <2>3, NoOperationAssumption DEF HandsAreApart, Idle, NoRequest
    <2> QED
      BY <2>1, <2>2, <2>3
  (* A channel that is done with its request.                              *)
  <1>3. ASSUME NEW c \in Channels, hand' = [hand EXCEPT ![c] = Idle],
               transaction' = transaction, starts' = starts
        PROVE  HandTypes' /\ HandsAreApart' /\ StartsAreRecorded'
    <2>1. HandTypes' /\ hand'[c] = Idle /\ \A d \in Channels \ {c} : hand'[d] = hand[d]
      BY <1>0, <1>00, <1>3 DEF HandTypes
    <2> QED
      BY <1>0, <1>00, <1>3, <2>1 DEF HandsAreApart, StartsAreRecorded
  <1>4. CASE \/ \E j \in InstallJobs : StartAttempt(j)
             \/ Ask \/ TakeAnswer \/ GiveUpAsking \/ ReadStatus \/ Verify \/ AskAgain \/ GiveUpWaiting \/ ShutDown
    BY <1>4, ServerNextIInv
  <1>5. ASSUME NEW c \in Channels, TakeRequest(c) PROVE InstallIInv'
    <2>1. PICK q \in requests : /\ ChannelOf(q.op) = c /\ requests' = requests \ {q}
                                /\ hand' = [hand EXCEPT ![c] = [id |-> q, step |-> "taken"]]
      BY <1>5 DEF TakeRequest
    <2>2. UNCHANGED <<run, retries, outcome, answers, transaction, status, starts, cutOff, deaths, sweeps, shutdowns, wanted, onDevice>>
      BY <1>5 DEF TakeRequest, serverSide, faults, os
    <2>3. q \in RequestIds
      BY <1>0 DEF FileTypes
    <2>4. /\ HandTypes' /\ hand'[c] = [id |-> q, step |-> "taken"]
          /\ \A d \in Channels \ {c} : hand'[d] = hand[d]
      BY <1>0, <2>1, <2>3 DEF HandTypes
    <2>5. HandsAreApart' /\ StartsAreRecorded'
      BY <1>0, <2>1, <2>2, <2>3, <2>4 DEF HandsAreApart, StartsAreRecorded
    <2>6. FileTypes'
      BY <1>0, <2>1, <2>2 DEF FileTypes
    <2> QED
      BY <1>1, <2>2, <2>4, <2>5, <2>6
  <1>6. ASSUME NEW c \in Channels, Resume(c) \/ RefuseRequest(c) PROVE InstallIInv'
    <2>1. /\ hand' = [hand EXCEPT ![c] = Idle]
          /\ answers' = [answers EXCEPT ![hand[c].id] = "accepted"] \/ answers' = [answers EXCEPT ![hand[c].id] = "refused"]
          /\ UNCHANGED <<run, retries, outcome, requests, transaction, status, starts, cutOff, deaths, sweeps, shutdowns, wanted, onDevice>>
      BY <1>6 DEF Resume, RefuseRequest, serverSide, faults, os
    <2>2. FileTypes'
      BY <1>0, <2>1 DEF FileTypes
    <2>3. HandTypes' /\ HandsAreApart' /\ StartsAreRecorded'
      BY <1>3, <2>1
    <2> QED
      BY <1>1, <2>1, <2>2, <2>3
  <1>7. ASSUME NEW c \in Channels, RecordRequest(c) PROVE InstallIInv'
    <2> DEFINE o == hand[c].id.op
    <2>1. /\ hand[c].step = "taken" /\ transaction[o] = "none" /\ Records(o, "requested")
          /\ hand' = [hand EXCEPT ![c].step = "recorded"]
          /\ UNCHANGED <<run, retries, outcome, requests, answers, starts, cutOff, deaths, sweeps, shutdowns, wanted, onDevice>>
      BY <1>7 DEF RecordRequest, serverSide, faults, os
    <2>2. hand[c].id \in RequestIds /\ o \in Operations /\ \A d \in Channels \ {c} : hand[d].id.op # o
      BY <1>2, <2>1
    <2>3. /\ hand' \in [Channels -> [id : RequestIds \cup {NoRequest}, step : {"none", "taken", "recorded"}]]
          /\ hand'[c].id = hand[c].id /\ hand'[c].step = "recorded"
          /\ \A d \in Channels \ {c} : hand'[d] = hand[d]
      BY <1>0, <2>1 DEF HandTypes
    <2> HIDE DEF o
    <2>4. /\ transaction' = [transaction EXCEPT ![o] = "requested"]
          /\ status' = [op |-> o, state |-> "requested"] \/ status' = status
      BY <2>1 DEF Records
    <2>5. FileTypes'
      BY <1>0, <2>1, <2>2, <2>4 DEF FileTypes
    <2>6. starts[o] = 0
      BY <1>0, <2>1, <2>2 DEF StartsAreRecorded
    <2>7. HandsAreApart'
      BY <1>0, <2>1, <2>2, <2>3 DEF HandsAreApart, Idle
    <2>8. /\ transaction'[o] # "none" /\ \A p \in Operations : transaction[p] # "none" => transaction'[p] # "none"
      BY <1>0, <2>2, <2>4 DEF FileTypes
    <2>9. StartsAreRecorded'
      <3>1. ASSUME NEW d \in Channels, hand'[d].step = "recorded"
            PROVE  transaction'[hand'[d].id.op] # "none" /\ starts'[hand'[d].id.op] = 0
        <4>1. CASE d = c
          BY <2>1, <2>3, <2>6, <2>8, <4>1 DEF o
        <4>2. CASE d # c
          <5>1. hand'[d] = hand[d] /\ hand[d].id.op \in Operations
            BY <1>2, <2>3, <3>1, <4>2
          <5> QED
            BY <1>0, <2>1, <2>8, <3>1, <5>1 DEF StartsAreRecorded
        <4> QED
          BY <4>1, <4>2
      <3> QED
        BY <1>0, <2>1, <2>8, <3>1 DEF StartsAreRecorded
    <2> QED
      BY <1>1, <2>1, <2>3, <2>5, <2>7, <2>9 DEF HandTypes
  <1>8. ASSUME NEW c \in Channels, RequestInstall(c) PROVE InstallIInv'
    <2> DEFINE o == hand[c].id.op
    <2>1. /\ hand[c].step = "recorded" /\ wanted' = wanted \cup {o} /\ starts' = [starts EXCEPT ![o] = @ + 1]
          /\ answers' = [answers EXCEPT ![hand[c].id] = "accepted"] /\ hand' = [hand EXCEPT ![c] = Idle]
          /\ UNCHANGED <<run, retries, outcome, requests, transaction, status, cutOff, deaths, sweeps, shutdowns, onDevice>>
      BY <1>8 DEF RequestInstall, serverSide, faults
    <2>2. hand[c].id \in RequestIds /\ o \in Operations /\ \A d \in Channels \ {c} : hand[d].id.op # o
      BY <1>2, <2>1
    <2>3. starts[o] = 0 /\ transaction[o] # "none"
      BY <1>0, <2>1 DEF StartsAreRecorded
    <2>4. hand'[c] = Idle /\ (\A d \in Channels \ {c} : hand'[d] = hand[d]) /\ HandTypes'
      BY <1>0, <1>00, <2>1 DEF HandTypes
    <2> HIDE DEF o
    <2>5. starts' \in [Operations -> Nat] /\ starts'[o] = 1 /\ \A p \in Operations \ {o} : starts'[p] = starts[p]
      BY <1>0, <2>1, <2>2, <2>3 DEF FileTypes
    <2>6. answers' \in [RequestIds -> {"none", "accepted", "refused"}]
      BY <1>0, <2>1 DEF FileTypes
    <2>7. FileTypes'
      BY <1>0, <2>1, <2>2, <2>5, <2>6 DEF FileTypes
    <2>8. HandsAreApart'
      BY <1>0, <2>4 DEF HandsAreApart
    <2>9. StartsAreRecorded'
      <3>1. ASSUME NEW d \in Channels, hand'[d].step = "recorded"
            PROVE  transaction'[hand'[d].id.op] # "none" /\ starts'[hand'[d].id.op] = 0
        <4>1. d # c
          BY <1>00, <2>4, <3>1
        <4>2. hand'[d] = hand[d] /\ hand[d].id.op \in Operations /\ hand[d].id.op # o
          BY <1>2, <2>2, <2>4, <3>1, <4>1
        <4> QED
          BY <1>0, <2>1, <2>5, <3>1, <4>2 DEF StartsAreRecorded
      <3> QED
        BY <1>0, <2>1, <2>3, <2>5, <3>1 DEF StartsAreRecorded
    <2> QED
      BY <1>1, <2>1, <2>4, <2>7, <2>8, <2>9
  <1>9. ASSUME NEW c \in Channels, BridgeDies(c) PROVE InstallIInv'
    <2>1. /\ hand' = [hand EXCEPT ![c] = Idle] /\ deaths < MaxDeaths /\ deaths' = deaths + 1
          /\ UNCHANGED <<run, retries, outcome, requests, answers, transaction, status, starts, cutOff, sweeps, shutdowns, wanted, onDevice>>
      BY <1>9 DEF BridgeDies, serverSide, os
    <2>2. deaths' \in 0 .. MaxDeaths
      BY <1>0, <2>1, InstallAssumption DEF FileTypes
    <2>3. FileTypes'
      BY <1>0, <2>1, <2>2 DEF FileTypes
    <2>4. HandTypes' /\ HandsAreApart' /\ StartsAreRecorded'
      BY <1>3, <2>1
    <2> QED
      BY <1>1, <2>1, <2>3, <2>4
  <1>10. ASSUME NEW o \in Operations, SweepFiles(o) PROVE InstallIInv'
    <2>1. /\ sweeps < MaxSweeps /\ sweeps' = sweeps + 1 /\ \A c \in Channels : hand[c].id.op # o
          /\ requests' \subseteq requests /\ answers' = [q \in RequestIds |-> IF q.op = o THEN "none" ELSE answers[q]]
          /\ transaction' = [transaction EXCEPT ![o] = "none"] /\ starts' = [starts EXCEPT ![o] = 0]
          /\ UNCHANGED <<run, retries, outcome, hand, status, cutOff, deaths, shutdowns, wanted, onDevice>>
      BY <1>10 DEF SweepFiles, serverSide, os
    <2>2. sweeps' \in 0 .. MaxSweeps
      BY <1>0, <2>1, InstallAssumption DEF FileTypes
    <2>3. answers' \in [RequestIds -> {"none", "accepted", "refused"}]
      BY <1>0, <2>1 DEF FileTypes
    <2>4. FileTypes'
      BY <1>0, <2>1, <2>2, <2>3 DEF FileTypes
    <2>5. /\ transaction'[o] = "none" /\ starts'[o] = 0
          /\ \A p \in Operations \ {o} : transaction'[p] = transaction[p] /\ starts'[p] = starts[p]
      BY <1>0, <2>1 DEF FileTypes
    <2>6. StartsAreRecorded'
      <3>1. ASSUME NEW d \in Channels, hand[d].step = "recorded"
            PROVE  transaction'[hand[d].id.op] # "none" /\ starts'[hand[d].id.op] = 0
        <4>1. hand[d].id.op \in Operations \ {o}
          BY <1>2, <2>1, <3>1
        <4> QED
          BY <1>0, <2>5, <3>1, <4>1 DEF StartsAreRecorded
      <3> QED
        BY <1>0, <2>1, <2>5, <3>1 DEF StartsAreRecorded
    <2>7. HandTypes' /\ HandsAreApart'
      BY <1>0, <2>1 DEF HandTypes, HandsAreApart
    <2> QED
      BY <1>1, <2>1, <2>4, <2>6, <2>7
  <1>11. ASSUME NEW o \in Operations, Completes(o) \/ PurchaseFails(o) \/ Arrives(o) \/ Stalls(o) PROVE InstallIInv'
    <2>1. /\ wanted' \subseteq wanted /\ onDevice' \in {onDevice, o.job}
          /\ UNCHANGED <<run, retries, outcome, requests, answers, hand, starts, cutOff, deaths, sweeps, shutdowns>>
      BY <1>11 DEF Completes, PurchaseFails, Arrives, Stalls, serverSide, bridge, faults, os
    <2>2. \/ UNCHANGED <<transaction, status>>
          \/ \E state \in {"completed", "failed"} : Records(o, state)
      BY <1>11 DEF Completes, PurchaseFails, Arrives, Stalls, bridge
    <2>3. /\ transaction' \in [Operations -> {"none", "requested", "completed", "failed"}]
          /\ status' \in [op : Operations \cup {NoOperation}, state : {"none", "requested", "completed", "failed"}]
          /\ \A p \in Operations : transaction[p] # "none" => transaction'[p] # "none"
      BY <1>0, <2>2 DEF FileTypes, Records
    <2>4. o.job \in InstallJobs
      BY OperationLemma DEF OperationIds
    <2>5. FileTypes'
      BY <1>0, <2>1, <2>3, <2>4 DEF FileTypes
    <2>6. StartsAreRecorded'
      BY <1>0, <1>2, <2>1, <2>3 DEF StartsAreRecorded
    <2>7. HandTypes' /\ HandsAreApart'
      BY <1>0, <2>1 DEF HandTypes, HandsAreApart
    <2> QED
      BY <1>1, <2>1, <2>5, <2>6, <2>7
  <1>12. CASE UNCHANGED installVars
    <2>1. UNCHANGED <<run, retries, outcome, requests, hand, answers, transaction, status, wanted, onDevice, starts, cutOff, deaths, sweeps, shutdowns>>
      BY <1>12 DEF installVars, faults
    <2> QED
      BY <1>0, <1>1, <2>1 DEF FileTypes, HandTypes, HandsAreApart, StartsAreRecorded
  <1> QED
    BY <1>4, <1>5, <1>6, <1>7, <1>8, <1>9, <1>10, <1>11, <1>12 DEF InstallNext

(* Files and hands only shrink.                                            *)
LEMMA StoreShrinks ==
  ASSUME StoreAsksOnce, cutOff \subseteq cutOff', requests' \subseteq requests, UNCHANGED <<transaction, starts, wanted>>,
         \A c \in Channels : hand'[c] = hand[c] \/ hand'[c] = Idle,
         \A o \in OwnOperations' : Fresh(o)' => Fresh(o)
  PROVE  StoreAsksOnce'
  <1> SUFFICES ASSUME NEW o \in OwnOperations'
               PROVE  /\ Fresh(o)' => Untouched(o)' /\ ~Pending(o)' /\ ~InHand(o)'
                      /\ Pending(o)' => Untouched(o)'
                      /\ ~(InHand(o)' /\ \E q \in requests' : q.op = o)
                      /\ \A x, y \in requests' : x.op = o /\ y.op = o => x = y
    BY DEF StoreAsksOnce
  <1>1. o \in OwnOperations /\ o # NoOperation /\ Idle.id.op = NoOperation
    BY OperationLemma, NoOperationAssumption DEF Idle, NoRequest, OwnOperations
  <1>2. (InHand(o)' => InHand(o)) /\ (Pending(o)' => Pending(o))
    BY <1>1 DEF InHand, Pending
  <1>3. Untouched(o)' <=> Untouched(o)
    BY DEF Untouched
  <1> QED
    BY <1>1, <1>2, <1>3 DEF StoreAsksOnce

(* An operation is asked for.                                              *)
LEMMA StoreAsks ==
  ASSUME StoreAsksOnce, cutOff' = cutOff, NEW r \in Operations, NEW q \in RequestIds, q.op = r,
         requests' = requests \cup {q}, UNCHANGED <<transaction, starts, wanted>>,
         \A c \in Channels : hand'[c] = hand[c] \/ hand'[c] = Idle,
         \A o \in OwnOperations' : Fresh(o)' => Fresh(o),
         r \in OwnOperations => Fresh(r) /\ ~Fresh(r)'
  PROVE  StoreAsksOnce'
  <1> SUFFICES ASSUME NEW o \in OwnOperations'
               PROVE  /\ Fresh(o)' => Untouched(o)' /\ ~Pending(o)' /\ ~InHand(o)'
                      /\ Pending(o)' => Untouched(o)'
                      /\ ~(InHand(o)' /\ \E p \in requests' : p.op = o)
                      /\ \A x, y \in requests' : x.op = o /\ y.op = o => x = y
    BY DEF StoreAsksOnce
  <1>1. o \in OwnOperations /\ o # NoOperation /\ Idle.id.op = NoOperation
    BY OperationLemma, NoOperationAssumption DEF Idle, NoRequest, OwnOperations
  <1>2. (InHand(o)' => InHand(o)) /\ (Pending(o)' => Pending(o) \/ o = r)
    BY <1>1 DEF InHand, Pending
  <1>3. Untouched(o)' <=> Untouched(o)
    BY DEF Untouched
  <1>4. CASE o = r
    <2>1. ~Pending(o) /\ ~InHand(o) /\ Untouched(o) /\ ~Fresh(o)'
      BY <1>1, <1>4 DEF StoreAsksOnce
    <2>2. \A x \in requests' : x.op = o => x = q
      BY <2>1 DEF Pending
    <2> QED
      BY <1>2, <1>3, <2>1, <2>2
  <1>5. CASE o # r
    <2>1. (\E p \in requests' : p.op = o) => \E p \in requests : p.op = o
      BY <1>5
    <2> QED
      BY <1>1, <1>2, <1>3, <1>5, <2>1 DEF StoreAsksOnce
  <1> QED
    BY <1>4, <1>5

(* The attempt moves on, or another begins.                                *)
LEMMA FreshLemma ==
  ASSUME UNCHANGED <<retries, outcome>>,
         \/ run' = run
         \/ run.job = NoJob /\ run'.phase = "ready"
         \/ /\ run'.job = run.job /\ run'.phase \in {"asking", "waiting"}
            /\ run'.again = run.again \/ run'.again = TRUE
  PROVE  \A o \in StoreOperations : Fresh(o)' => Fresh(o)
  <1> SUFFICES ASSUME NEW o \in StoreOperations, Fresh(o)' PROVE Fresh(o)
    OBVIOUS
  <1>1. o.job # NoJob
    BY InstallAssumption DEF StoreOperations, OperationIds
  <1> QED
    BY <1>1 DEF Fresh

(* Every step of the server preserves it.                                  *)
LEMMA ServerNextStore ==
  ASSUME InstallIInv, StoreIInv,
         \/ \E j \in InstallJobs : StartAttempt(j)
         \/ Ask \/ TakeAnswer \/ GiveUpAsking \/ ReadStatus \/ Verify \/ AskAgain \/ GiveUpWaiting \/ ShutDown
  PROVE  StoreIInv'
  <1>0. FileTypes /\ ServerTypes /\ HandTypes /\ RunIsOwn /\ StoreAsksOnce /\ AcceptedWasStarted /\ RunCountsFromNothing
    BY InstallTypes DEF InstallIInv, StoreIInv
  <1>1. ASSUME StoreAsksOnce', RunCountsFromNothing', starts' = starts, cutOff \subseteq cutOff',
               \A q \in RequestIds : answers'[q] = "accepted" => answers[q] = "accepted"
        PROVE  StoreIInv'
    BY <1>0, <1>1 DEF StoreIInv, AcceptedWasStarted
  <1>2. ASSUME NEW j \in InstallJobs, StartAttempt(j) PROVE StoreIInv'
    <2>1. /\ run = NoRun /\ run'.job = j /\ run'.phase = "ready"
          /\ Restarts(j) /\ UNCHANGED <<retries, outcome, requests, answers, transaction, wanted, starts, cutOff>>
      BY <1>2 DEF StartAttempt, faults
    <2>2. \A c \in Channels : hand'[c] = hand[c] \/ hand'[c] = Idle
      BY <1>0, <2>1 DEF Restarts, HandTypes
    <2>3. \A o \in StoreOperations : Fresh(o)' => Fresh(o)
      BY <2>1, FreshLemma, NoRunLemma
    <2>4. StoreAsksOnce'
      BY <1>0, <2>1, <2>2, <2>3, StoreShrinks DEF OwnOperations
    <2>5. RunCountsFromNothing'
      BY <2>1 DEF RunCountsFromNothing
    <2> QED
      BY <1>1, <2>1, <2>4, <2>5
  (* An attempt that ends.                                                 *)
  <1>3. ASSUME run' = NoRun, \A o \in OwnOperations' : Fresh(o)' => Fresh(o), cutOff \subseteq cutOff', requests' \subseteq requests,
               \A q \in RequestIds : answers'[q] = "accepted" => answers[q] = "accepted",
               UNCHANGED <<hand, transaction, starts, wanted>>
        PROVE  StoreIInv'
    <2>1. \A c \in Channels : hand'[c] = hand[c] \/ hand'[c] = Idle
      BY <1>3
    <2>2. StoreAsksOnce'
      BY <1>0, <1>3, <2>1, StoreShrinks
    <2>3. RunCountsFromNothing'
      BY <1>3, NoRunLemma, InstallAssumption DEF RunCountsFromNothing
    <2> QED
      BY <1>1, <1>3, <2>2, <2>3
  (* An attempt that goes on.                                              *)
  <1>4. ASSUME run'.job = run.job, run'.phase = "waiting", run'.again = run.again, run'.op = run.op, run'.base = run.base,
               run.job \in StoreJobs /\ run.op \notin cutOff => starts[run.op] = 1 /\ run.base = 0,
               \A q \in RequestIds : answers'[q] = "accepted" => answers[q] = "accepted",
               UNCHANGED <<retries, outcome, requests, hand, transaction, starts, wanted, cutOff>>
        PROVE  StoreIInv'
    <2>1. \A c \in Channels : hand'[c] = hand[c] \/ hand'[c] = Idle
      BY <1>4
    <2>2. \A o \in StoreOperations : Fresh(o)' => Fresh(o)
      BY <1>4, FreshLemma
    <2>3. StoreAsksOnce'
      BY <1>0, <1>4, <2>1, <2>2, StoreShrinks DEF OwnOperations
    <2>4. RunCountsFromNothing'
      BY <1>4 DEF RunCountsFromNothing
    <2> QED
      BY <1>1, <1>4, <2>3, <2>4
  <1>5. CASE Ask
    <2>0. PICK o : o = run.op
      OBVIOUS
    <2>1. /\ run' = [run EXCEPT !.phase = "asking", !.base = starts[o]] /\ run.phase = "ready"
          /\ requests' = requests \cup {RequestId(o)}
          /\ UNCHANGED <<retries, outcome, answers, hand, transaction, starts, wanted, cutOff>>
      BY <1>5, <2>0 DEF Ask, bridge, os, faults
    <2>2. /\ o \in Operations /\ o.job = run.job /\ outcome[run.job] = "open" /\ ~run.again
          /\ run.job \in StoreJobs => o = [job |-> run.job, retry |-> retries[run.job], again |-> run.again]
      BY <2>0, <2>1, AttemptUnderWay
    <2>3. run'.phase = "asking" /\ run'.job = run.job /\ run'.op = o /\ run'.again = run.again /\ run'.base = starts[o]
      BY <1>0, <2>0, <2>1 DEF ServerTypes, RunRecords
    <2>4. RequestId(o) \in RequestIds /\ RequestId(o).op = o
      BY <2>2, RequestLemma
    <2>5. ASSUME o \in OwnOperations PROVE Fresh(o) /\ ~Fresh(o)' /\ starts[o] = 0
      <3>1. o.job \in StoreJobs
        BY <2>5 DEF StoreOperations, OwnOperations
      <3>2. o.retry = retries[run.job] /\ o.again = FALSE /\ o.job = run.job
        BY <2>2, <3>1
      <3>3. retries[run.job] \in Nat
        BY <1>0, <2>2, OperationLemma DEF ServerTypes, OperationIds
      <3>4. Fresh(o) /\ ~Fresh(o)'
        BY <2>1, <2>2, <2>3, <3>2, <3>3 DEF Fresh
      <3> QED
        BY <1>0, <2>5, <3>4 DEF StoreAsksOnce, Untouched
    <2>6. \A p \in StoreOperations : Fresh(p)' => Fresh(p)
      BY <2>1, <2>3, FreshLemma
    <2>7. \A c \in Channels : hand'[c] = hand[c] \/ hand'[c] = Idle
      BY <2>1
    <2>8. StoreAsksOnce'
      BY <1>0, <2>1, <2>2, <2>4, <2>5, <2>6, <2>7, StoreAsks DEF OwnOperations
    <2>9. RunCountsFromNothing'
      <3>1. run.job \in StoreJobs /\ o \notin cutOff => o \in OwnOperations
        BY <2>2, OperationLemma DEF OwnOperations
      <3> QED
        BY <2>1, <2>3, <2>5, <3>1 DEF RunCountsFromNothing
    <2> QED
      BY <1>1, <2>1, <2>8, <2>9
  <1>6. CASE TakeAnswer
    <2> DEFINE q == RequestId(run.op)
    <2>1. /\ run.phase = "asking" /\ UNCHANGED <<hand, transaction, starts, wanted, cutOff>>
          /\ answers' = [answers EXCEPT ![q] = "none"]
          /\ \/ answers[q] = "accepted" /\ run' = [run EXCEPT !.phase = "waiting"] /\ UNCHANGED <<retries, outcome, requests>>
             \/ Ends(run.job) /\ requests' = requests \ {q}
      BY <1>6 DEF TakeAnswer, bridge, os, faults
    <2>2. q \in RequestIds /\ q.op = run.op /\ run.op.job = run.job
      BY <2>1, AttemptUnderWay, RequestLemma
    <2>3. \A p \in RequestIds : answers'[p] = "accepted" => answers[p] = "accepted"
      BY <1>0, <2>1 DEF FileTypes
    <2>4. CASE Ends(run.job) /\ requests' = requests \ {q}
      <3>1. run' = NoRun /\ (\A o \in StoreOperations : Fresh(o)' => Fresh(o)) /\ requests' \subseteq requests
        BY <2>1, <2>4, EndsLemma
      <3> QED
        BY <1>3, <2>1, <2>3, <3>1 DEF OwnOperations
    <2>5. CASE answers[q] = "accepted" /\ run' = [run EXCEPT !.phase = "waiting"] /\ UNCHANGED <<retries, outcome, requests>>
      <3>1. run'.job = run.job /\ run'.phase = "waiting" /\ run'.again = run.again /\ run'.op = run.op /\ run'.base = run.base
        BY <1>0, <2>5 DEF ServerTypes, RunRecords
      <3>2. run.job \in StoreJobs /\ run.op \notin cutOff => starts[run.op] = 1 /\ run.base = 0
        BY <1>0, <2>1, <2>2, <2>5 DEF AcceptedWasStarted, RunCountsFromNothing
      <3> QED
        BY <1>4, <2>1, <2>3, <2>5, <3>1, <3>2
    <2> QED
      BY <2>1, <2>4, <2>5
  <1>7. CASE GiveUpAsking
    <2>1. /\ run.phase = "asking" /\ UNCHANGED <<hand, transaction, starts, wanted, cutOff>>
          /\ Ends(run.job) /\ requests' \subseteq requests
          /\ answers' = [answers EXCEPT ![RequestId(run.op)] = "none"] \/ answers' = answers
      BY <1>7 DEF GiveUpAsking, bridge, os, faults
    <2>2. \A p \in RequestIds : answers'[p] = "accepted" => answers[p] = "accepted"
      BY <1>0, <2>1 DEF FileTypes
    <2>3. run' = NoRun /\ \A o \in StoreOperations : Fresh(o)' => Fresh(o)
      BY <2>1, EndsLemma
    <2> QED
      BY <1>3, <2>1, <2>2, <2>3 DEF OwnOperations
  <1>8. CASE ReadStatus
    <2>1. /\ run.phase = "waiting" /\ UNCHANGED <<requests, answers, hand, transaction, starts, wanted, cutOff>>
          /\ Ends(run.job) \/ (run' = [run EXCEPT !.seen = status.state] /\ UNCHANGED <<retries, outcome>>)
      BY <1>8 DEF ReadStatus, bridge, os, faults
    <2>2. CASE Ends(run.job)
      <3>1. run' = NoRun /\ \A o \in StoreOperations : Fresh(o)' => Fresh(o)
        BY <2>1, <2>2, EndsLemma
      <3> QED
        BY <1>3, <2>1, <3>1 DEF OwnOperations
    <2>3. CASE run' = [run EXCEPT !.seen = status.state] /\ UNCHANGED <<retries, outcome>>
      <3>1. run'.job = run.job /\ run'.phase = "waiting" /\ run'.again = run.again /\ run'.op = run.op /\ run'.base = run.base
        BY <1>0, <2>1, <2>3 DEF ServerTypes, RunRecords
      <3>2. run.job \in StoreJobs /\ run.op \notin cutOff => starts[run.op] = 1 /\ run.base = 0
        BY <1>0, <2>1 DEF RunCountsFromNothing
      <3> QED
        BY <1>4, <2>1, <2>3, <3>1, <3>2
    <2> QED
      BY <2>1, <2>2, <2>3
  <1>9. CASE Verify
    <2>1. /\ run.phase = "waiting" /\ run' = NoRun /\ outcome' = [outcome EXCEPT ![run.job] = "installed"]
          /\ UNCHANGED <<retries, requests, answers, hand, transaction, starts, wanted, cutOff>>
      BY <1>9 DEF Verify, bridge, os, faults
    <2>2. run.job \in InstallJobs
      BY <2>1, AttemptUnderWay
    <2>3. ASSUME NEW o \in StoreOperations, Fresh(o)' PROVE Fresh(o)
      <3>1. o.job \in InstallJobs /\ o.job # run.job /\ outcome'[o.job] = outcome[o.job]
        BY <1>0, <2>1, <2>2, <2>3 DEF ServerTypes, Fresh, StoreOperations, OperationIds
      <3> QED
        BY <2>1, <2>3, <3>1 DEF Fresh
    <2> QED
      BY <1>3, <2>1, <2>3 DEF OwnOperations
  <1>10. CASE AskAgain
    <2>0. PICK o : o = OperationId(run.job, run.op.retry, TRUE)
      OBVIOUS
    <2>1. /\ run.phase = "waiting" /\ ~run.again /\ Restarts(run.job)
          /\ run' = [run EXCEPT !.op = o, !.phase = "asking", !.again = TRUE, !.seen = "none", !.base = starts[o]]
          /\ requests' = requests \cup {RequestId(o)}
          /\ UNCHANGED <<retries, outcome, answers, transaction, starts, wanted, cutOff>>
      BY <1>10, <2>0 DEF AskAgain, os, faults
    <2>2. run.job \in InstallJobs /\ run.op \in Operations /\ outcome[run.job] = "open"
      BY <2>1, AttemptUnderWay
    <2>3. o \in Operations /\ o.job = run.job
      <3>1. run.op.retry \in 0 .. MaxRetries
        BY <2>2, OperationLemma DEF OperationIds
      <3> QED
        BY <2>0, <2>2, <3>1, OperationLemma
    <2>4. run.job \in StoreJobs => o.retry = retries[run.job] /\ o.again = TRUE
      <3>1. run.job \in StoreJobs => run.op.retry = retries[run.job]
        BY <2>1, AttemptUnderWay
      <3> QED
        BY <2>0, <3>1 DEF OperationId
    <2>5. run'.phase = "asking" /\ run'.job = run.job /\ run'.op = o /\ run'.again = TRUE /\ run'.base = starts[o]
      BY <1>0, <2>1 DEF ServerTypes, RunRecords
    <2>6. RequestId(o) \in RequestIds /\ RequestId(o).op = o
      BY <2>3, RequestLemma
    <2>7. ASSUME o \in OwnOperations PROVE Fresh(o) /\ ~Fresh(o)' /\ starts[o] = 0
      <3>1. o.job \in StoreJobs
        BY <2>7 DEF StoreOperations, OwnOperations
      <3>2. o.retry = retries[run.job] /\ o.again = TRUE /\ o.job = run.job
        BY <2>3, <2>4, <3>1
      <3>3. retries[run.job] \in Nat
        BY <1>0, <2>2 DEF ServerTypes
      <3>4. Fresh(o) /\ ~Fresh(o)'
        BY <2>1, <2>2, <2>5, <3>2, <3>3 DEF Fresh
      <3> QED
        BY <1>0, <2>7, <3>4 DEF StoreAsksOnce, Untouched
    <2>8. \A p \in StoreOperations : Fresh(p)' => Fresh(p)
      BY <2>1, <2>5, FreshLemma
    <2>9. \A c \in Channels : hand'[c] = hand[c] \/ hand'[c] = Idle
      BY <1>0, <2>1 DEF Restarts, HandTypes
    <2>10. StoreAsksOnce'
      BY <1>0, <2>1, <2>3, <2>6, <2>7, <2>8, <2>9, StoreAsks DEF OwnOperations
    <2>11. RunCountsFromNothing'
      <3>1. run.job \in StoreJobs /\ o \notin cutOff => o \in OwnOperations
        BY <2>3, OperationLemma DEF OwnOperations
      <3> QED
        BY <2>1, <2>5, <2>7, <3>1 DEF RunCountsFromNothing
    <2> QED
      BY <1>1, <2>1, <2>10, <2>11
  <1>11. CASE GiveUpWaiting
    <2>1. run.phase # "none" /\ Ends(run.job) /\ UNCHANGED <<requests, answers, hand, transaction, starts, wanted, cutOff>>
      BY <1>11 DEF GiveUpWaiting, bridge, os, faults
    <2>2. run' = NoRun /\ \A o \in StoreOperations : Fresh(o)' => Fresh(o)
      BY <2>1, EndsLemma
    <2> QED
      BY <1>3, <2>1, <2>2 DEF OwnOperations
  <1>12. CASE ShutDown
    <2>1. /\ run.phase # "none" /\ run' = NoRun /\ requests' \subseteq requests
          /\ cutOff' = cutOff \cup {o \in Operations : o.job = run.job /\ o.retry = run.op.retry}
          /\ answers' = [answers EXCEPT ![RequestId(run.op)] = "none"] \/ answers' = answers
          /\ UNCHANGED <<retries, outcome, hand, transaction, starts, wanted>>
      BY <1>0, <1>12, NoRunLemma DEF ShutDown, os, RunIsOwn
    <2>2. \A q \in RequestIds : answers'[q] = "accepted" => answers[q] = "accepted"
      BY <1>0, <2>1 DEF FileTypes
    <2>3. ASSUME NEW o \in OwnOperations', Fresh(o)' PROVE Fresh(o)
      <3>1. o \in StoreOperations /\ o \in Operations /\ o.job \in StoreJobs /\ o \notin cutOff'
        BY <2>3, OperationLemma DEF OwnOperations, StoreOperations
      <3>2. CASE o.job # run.job
        BY <2>1, <2>3, <3>2 DEF Fresh
      <3>3. CASE o.job = run.job
        <4>1. run.op.retry = retries[o.job]
          BY <2>1, <3>1, <3>3, AttemptUnderWay
        <4>2. o.retry # retries[o.job]
          BY <2>1, <3>1, <3>3, <4>1
        <4> QED
          BY <2>1, <2>3, <4>2 DEF Fresh
      <3> QED
        BY <3>2, <3>3
    <2> QED
      BY <1>3, <2>1, <2>2, <2>3
  <1> QED
    BY <1>2, <1>5, <1>6, <1>7, <1>8, <1>9, <1>10, <1>11, <1>12

(* Every step preserves it.                                                *)
LEMMA InstallNextStore ==
  ASSUME InstallIInv, StoreIInv, [InstallNext]_installVars
  PROVE  StoreIInv'
  <1>0. /\ FileTypes /\ ServerTypes /\ HandTypes /\ HandsAreApart /\ StartsAreRecorded
        /\ StoreAsksOnce /\ AcceptedWasStarted /\ RunCountsFromNothing
    BY InstallTypes DEF InstallIInv, StoreIInv
  <1>00. Idle.step = "none" /\ Idle.id.op = NoOperation /\ \A o \in OwnOperations : o # NoOperation /\ o \in Operations
    BY OperationLemma, NoOperationAssumption DEF Idle, NoRequest, OwnOperations
  <1>1. CASE \/ \E j \in InstallJobs : StartAttempt(j)
             \/ Ask \/ TakeAnswer \/ GiveUpAsking \/ ReadStatus \/ Verify \/ AskAgain \/ GiveUpWaiting \/ ShutDown
    BY <1>1, ServerNextStore
  (* What a channel has in hand.                                           *)
  <1>2. ASSUME NEW c \in Channels, hand[c].step \in {"taken", "recorded"}
        PROVE  /\ hand[c].id \in RequestIds /\ hand[c].id.op \in Operations
               /\ \A d \in Channels \ {c} : hand[d].id.op # hand[c].id.op
    <2>1. hand[c].id \in RequestIds /\ ChannelOf(hand[c].id.op) = c
      BY <1>0, <1>00, <1>2 DEF HandsAreApart
    <2>2. hand[c].id.op \in Operations
      BY <2>1 DEF RequestIds
    <2>3. ASSUME NEW d \in Channels \ {c} PROVE hand[d].id.op # hand[c].id.op
      BY <1>0, <1>00, <2>1, <2>2, <2>3, NoOperationAssumption DEF HandsAreApart
    <2> QED
      BY <2>1, <2>2, <2>3
  <1>3. ASSUME UNCHANGED <<run, retries, outcome, cutOff>>
        PROVE  OwnOperations' = OwnOperations /\ \A o \in OwnOperations : Fresh(o)' <=> Fresh(o)
    BY <1>3 DEF Fresh, OwnOperations
  (* A request is answered without a start.                                *)
  <1>4. ASSUME requests' \subseteq requests, UNCHANGED <<run, retries, outcome, transaction, starts, wanted, cutOff>>,
               \A c \in Channels : hand'[c] = hand[c] \/ hand'[c] = Idle,
               \A q \in RequestIds :
                 q.op.job \in StoreJobs /\ q.op \notin cutOff /\ answers'[q] = "accepted" => answers[q] = "accepted"
        PROVE  StoreIInv'
    <2>1. StoreAsksOnce'
      BY <1>0, <1>3, <1>4, StoreShrinks
    <2>2. AcceptedWasStarted' /\ RunCountsFromNothing'
      BY <1>0, <1>4 DEF AcceptedWasStarted, RunCountsFromNothing
    <2> QED
      BY <2>1, <2>2 DEF StoreIInv
  <1>5. ASSUME NEW c \in Channels, TakeRequest(c) PROVE StoreIInv'
    <2>1. PICK q \in requests : /\ ChannelOf(q.op) = c /\ requests' = requests \ {q}
                                /\ hand' = [hand EXCEPT ![c] = [id |-> q, step |-> "taken"]]
      BY <1>5 DEF TakeRequest
    <2>2. hand[c] = Idle /\ UNCHANGED <<run, retries, outcome, answers, transaction, starts, wanted, cutOff>>
      BY <1>5 DEF TakeRequest, serverSide, os, faults
    <2>3. q.op \in OwnOperations => \A p \in requests : p.op = q.op => p = q
      BY <1>0 DEF StoreAsksOnce
    <2>4. hand'[c] = [id |-> q, step |-> "taken"] /\ \A d \in Channels \ {c} : hand'[d] = hand[d]
      BY <1>0, <2>1 DEF HandTypes
    <2>5. StoreAsksOnce'
      <3> SUFFICES ASSUME NEW o \in OwnOperations'
                   PROVE  /\ Fresh(o)' => Untouched(o)' /\ ~Pending(o)' /\ ~InHand(o)'
                          /\ Pending(o)' => Untouched(o)'
                          /\ ~(InHand(o)' /\ \E p \in requests' : p.op = o)
                          /\ \A x, y \in requests' : x.op = o /\ y.op = o => x = y
        BY DEF StoreAsksOnce
      <3>0. o \in OwnOperations
        BY <1>3, <2>2
      <3>1. Pending(o)' => Pending(o)
        BY <2>1, <2>4 DEF Pending
      <3>2. InHand(o)' => InHand(o) \/ o = q.op
        BY <2>4 DEF InHand
      <3>3. Untouched(o)' <=> Untouched(o)
        BY <2>2 DEF Untouched
      <3>4. o = q.op => Pending(o) /\ ~\E p \in requests' : p.op = o
        BY <2>1, <2>3, <3>0 DEF Pending
      <3>5. (\E p \in requests' : p.op = o) => \E p \in requests : p.op = o
        BY <2>1
      <3> QED
        BY <1>0, <1>3, <2>1, <2>2, <3>0, <3>1, <3>2, <3>3, <3>4, <3>5 DEF StoreAsksOnce
    <2>6. AcceptedWasStarted' /\ RunCountsFromNothing'
      BY <1>0, <2>2 DEF AcceptedWasStarted, RunCountsFromNothing
    <2> QED
      BY <2>5, <2>6 DEF StoreIInv
  <1>6. ASSUME NEW c \in Channels, Resume(c) PROVE StoreIInv'
    <2>1. /\ hand[c].step = "taken" /\ transaction[hand[c].id.op] # "none"
          /\ hand' = [hand EXCEPT ![c] = Idle] /\ answers' = [answers EXCEPT ![hand[c].id] = "accepted"]
          /\ UNCHANGED <<run, retries, outcome, requests, transaction, starts, wanted, cutOff>>
      BY <1>6 DEF Resume, serverSide, os, faults
    <2>2. hand[c].id.op \notin OwnOperations
      BY <1>0, <2>1 DEF StoreAsksOnce, Pending, Untouched
    <2>3. hand[c].id.op.job \notin StoreJobs \/ hand[c].id.op \in cutOff
      BY <1>2, <2>1, <2>2, OperationLemma DEF OwnOperations
    <2>4. \A q \in RequestIds :
            q.op.job \in StoreJobs /\ q.op \notin cutOff /\ answers'[q] = "accepted" => answers[q] = "accepted"
      BY <1>0, <2>1, <2>3 DEF FileTypes
    <2>5. \A d \in Channels : hand'[d] = hand[d] \/ hand'[d] = Idle
      BY <1>0, <2>1 DEF HandTypes
    <2> QED
      BY <1>4, <2>1, <2>4, <2>5
  <1>7. ASSUME NEW c \in Channels, RefuseRequest(c) \/ BridgeDies(c) PROVE StoreIInv'
    <2>1. /\ hand' = [hand EXCEPT ![c] = Idle]
          /\ answers' = [answers EXCEPT ![hand[c].id] = "refused"] \/ answers' = answers
          /\ UNCHANGED <<run, retries, outcome, requests, transaction, starts, wanted, cutOff>>
      BY <1>7 DEF RefuseRequest, BridgeDies, serverSide, os, faults
    <2>2. \A q \in RequestIds : q.op.job \in StoreJobs /\ answers'[q] = "accepted" => answers[q] = "accepted"
      BY <1>0, <2>1 DEF FileTypes
    <2>3. \A d \in Channels : hand'[d] = hand[d] \/ hand'[d] = Idle
      BY <1>0, <2>1 DEF HandTypes
    <2> QED
      BY <1>4, <2>1, <2>2, <2>3
  <1>8. ASSUME NEW c \in Channels, RecordRequest(c) PROVE StoreIInv'
    <2>0. PICK o : o = hand[c].id.op
      OBVIOUS
    <2>1. /\ hand[c].step = "taken" /\ Records(o, "requested")
          /\ hand' = [hand EXCEPT ![c].step = "recorded"]
          /\ UNCHANGED <<run, retries, outcome, requests, answers, starts, wanted, cutOff>>
      BY <1>8, <2>0 DEF RecordRequest, serverSide, os, faults
    <2>2. hand[c].id \in RequestIds /\ o \in Operations /\ \A d \in Channels \ {c} : hand[d].id.op # o
      BY <1>2, <2>0, <2>1
    <2>3. /\ hand'[c].id = hand[c].id /\ hand'[c].step = "recorded"
          /\ \A d \in Channels \ {c} : hand'[d] = hand[d]
      BY <1>0, <2>1 DEF HandTypes
    <2>4. \A p \in OwnOperations \ {o} : transaction'[p] = transaction[p]
      BY <1>0, <1>00, <2>1, <2>2 DEF Records, FileTypes
    <2>5. StoreAsksOnce'
      <3> SUFFICES ASSUME NEW p \in OwnOperations'
                   PROVE  /\ Fresh(p)' => Untouched(p)' /\ ~Pending(p)' /\ ~InHand(p)'
                          /\ Pending(p)' => Untouched(p)'
                          /\ ~(InHand(p)' /\ \E q \in requests' : q.op = p)
                          /\ \A x, y \in requests' : x.op = p /\ y.op = p => x = y
        BY DEF StoreAsksOnce
      <3>0. p \in OwnOperations
        BY <1>3, <2>1
      <3>1. Pending(p)' => Pending(p) /\ (p = o => \E q \in requests : q.op = p)
        BY <2>0, <2>1, <2>2, <2>3 DEF Pending
      <3>2. InHand(p)' <=> InHand(p)
        BY <2>3 DEF InHand
      <3>3. p # o => (Untouched(p)' <=> Untouched(p))
        BY <2>1, <2>4, <3>0 DEF Untouched
      <3>4. p = o => Pending(p) /\ InHand(p)
        BY <2>0, <2>1 DEF Pending, InHand
      <3>5. p = o => ~Fresh(p) /\ ~\E q \in requests : q.op = p
        BY <1>0, <3>0, <3>4 DEF StoreAsksOnce
      <3> QED
        BY <1>0, <1>3, <2>1, <3>0, <3>1, <3>2, <3>3, <3>4, <3>5 DEF StoreAsksOnce
    <2>6. AcceptedWasStarted' /\ RunCountsFromNothing'
      BY <1>0, <2>1 DEF AcceptedWasStarted, RunCountsFromNothing
    <2> QED
      BY <2>5, <2>6 DEF StoreIInv
  <1>9. ASSUME NEW c \in Channels, RequestInstall(c) PROVE StoreIInv'
    <2>0. PICK o : o = hand[c].id.op
      OBVIOUS
    <2>1. /\ hand[c].step = "recorded" /\ wanted' = wanted \cup {o} /\ starts' = [starts EXCEPT ![o] = @ + 1]
          /\ answers' = [answers EXCEPT ![hand[c].id] = "accepted"] /\ hand' = [hand EXCEPT ![c] = Idle]
          /\ UNCHANGED <<run, retries, outcome, requests, transaction, cutOff>>
      BY <1>9, <2>0 DEF RequestInstall, serverSide, faults
    <2>2. hand[c].id \in RequestIds /\ o \in Operations /\ \A d \in Channels \ {c} : hand[d].id.op # o
      BY <1>2, <2>0, <2>1
    <2>3. starts[o] = 0
      BY <1>0, <2>0, <2>1 DEF StartsAreRecorded
    <2>4. hand'[c] = Idle /\ (\A d \in Channels \ {c} : hand'[d] = hand[d])
      BY <1>0, <2>1 DEF HandTypes
    <2>5. starts'[o] = 1 /\ \A p \in Operations \ {o} : starts'[p] = starts[p]
      BY <1>0, <2>1, <2>2, <2>3 DEF FileTypes
    <2>6. StoreAsksOnce'
      <3> SUFFICES ASSUME NEW p \in OwnOperations'
                   PROVE  /\ Fresh(p)' => Untouched(p)' /\ ~Pending(p)' /\ ~InHand(p)'
                          /\ Pending(p)' => Untouched(p)'
                          /\ ~(InHand(p)' /\ \E q \in requests' : q.op = p)
                          /\ \A x, y \in requests' : x.op = p /\ y.op = p => x = y
        BY DEF StoreAsksOnce
      <3>0. p \in OwnOperations
        BY <1>3, <2>1
      <3>1. (Pending(p)' => Pending(p)) /\ (InHand(p)' => InHand(p))
        BY <1>00, <2>1, <2>4, <3>0 DEF Pending, InHand
      <3>2. p # o => (Untouched(p)' <=> Untouched(p))
        BY <1>00, <2>1, <2>5, <3>0 DEF Untouched
      <3>3. p = o => InHand(p)
        BY <2>0 DEF InHand
      <3>4. p = o => ~Fresh(p) /\ ~\E q \in requests : q.op = p
        BY <1>0, <3>0, <3>3 DEF StoreAsksOnce
      <3>5. p = o => ~Pending(p)'
        BY <1>00, <2>1, <2>2, <2>4, <3>0, <3>4 DEF Pending
      <3> QED
        BY <1>0, <1>3, <2>1, <3>0, <3>1, <3>2, <3>3, <3>4, <3>5 DEF StoreAsksOnce
    <2>7. AcceptedWasStarted'
      <3>1. \A q \in RequestIds : q.op \in Operations
        BY DEF RequestIds
      <3>2. \A q \in RequestIds : answers'[q] = "accepted" => answers[q] = "accepted" \/ q.op = o
        BY <1>0, <2>0, <2>1 DEF FileTypes
      <3> QED
        BY <1>0, <2>1, <2>5, <3>1, <3>2 DEF AcceptedWasStarted
    <2>8. RunCountsFromNothing'
      <3>1. run.phase = "waiting" => run.op \in Operations
        BY AttemptUnderWay
      <3> QED
        BY <1>0, <2>1, <2>5, <3>1 DEF RunCountsFromNothing
    <2> QED
      BY <2>6, <2>7, <2>8 DEF StoreIInv
  <1>10. ASSUME NEW o \in Operations, SweepFiles(o) PROVE StoreIInv'
    <2>1. /\ run.op # o /\ \A c \in Channels : hand[c].id.op # o
          /\ requests' = {q \in requests : q.op # o} /\ answers' = [q \in RequestIds |-> IF q.op = o THEN "none" ELSE answers[q]]
          /\ transaction' = [transaction EXCEPT ![o] = "none"] /\ starts' = [starts EXCEPT ![o] = 0]
          /\ UNCHANGED <<run, retries, outcome, hand, wanted, cutOff>>
      BY <1>10 DEF SweepFiles, serverSide, os
    <2>2. /\ transaction'[o] = "none" /\ starts'[o] = 0
          /\ \A p \in Operations \ {o} : transaction'[p] = transaction[p] /\ starts'[p] = starts[p]
      BY <1>0, <2>1 DEF FileTypes
    <2>3. StoreAsksOnce'
      <3> SUFFICES ASSUME NEW p \in OwnOperations'
                   PROVE  /\ Fresh(p)' => Untouched(p)' /\ ~Pending(p)' /\ ~InHand(p)'
                          /\ Pending(p)' => Untouched(p)'
                          /\ ~(InHand(p)' /\ \E q \in requests' : q.op = p)
                          /\ \A x, y \in requests' : x.op = p /\ y.op = p => x = y
        BY DEF StoreAsksOnce
      <3>0. p \in OwnOperations
        BY <1>3, <2>1
      <3>1. (Pending(p)' => Pending(p)) /\ (InHand(p)' <=> InHand(p))
        BY <2>1 DEF Pending, InHand
      <3>2. Untouched(p) => Untouched(p)'
        BY <1>00, <2>1, <2>2, <3>0 DEF Untouched
      <3>3. (\E q \in requests' : q.op = p) => \E q \in requests : q.op = p
        BY <2>1
      <3> QED
        BY <1>0, <1>3, <2>1, <3>0, <3>1, <3>2, <3>3 DEF StoreAsksOnce
    <2>4. AcceptedWasStarted'
      <3>1. \A q \in RequestIds : q.op \in Operations
        BY DEF RequestIds
      <3> QED
        BY <1>0, <2>1, <2>2, <3>1 DEF AcceptedWasStarted
    <2>5. RunCountsFromNothing'
      <3>1. run.phase = "waiting" => run.op \in Operations
        BY AttemptUnderWay
      <3> QED
        BY <1>0, <2>1, <2>2, <3>1 DEF RunCountsFromNothing
    <2> QED
      BY <2>3, <2>4, <2>5 DEF StoreIInv
  <1>11. ASSUME NEW o \in Operations, Completes(o) \/ PurchaseFails(o) \/ Arrives(o) \/ Stalls(o) PROVE StoreIInv'
    <2>1. /\ o \in wanted /\ wanted' \subseteq wanted
          /\ UNCHANGED <<run, retries, outcome, requests, answers, hand, starts, cutOff>>
      BY <1>11 DEF Completes, PurchaseFails, Arrives, Stalls, serverSide, bridge, os, faults
    <2>2. transaction' = transaction \/ \E state \in {"completed", "failed"} : transaction' = [transaction EXCEPT ![o] = state]
      BY <1>11 DEF Completes, PurchaseFails, Arrives, Stalls, bridge, Records
    <2>3. \A p \in Operations \ {o} : transaction'[p] = transaction[p]
      BY <1>0, <2>2 DEF FileTypes
    <2>4. StoreAsksOnce'
      <3> SUFFICES ASSUME NEW p \in OwnOperations'
                   PROVE  /\ Fresh(p)' => Untouched(p)' /\ ~Pending(p)' /\ ~InHand(p)'
                          /\ Pending(p)' => Untouched(p)'
                          /\ ~(InHand(p)' /\ \E q \in requests' : q.op = p)
                          /\ \A x, y \in requests' : x.op = p /\ y.op = p => x = y
        BY DEF StoreAsksOnce
      <3>0. p \in OwnOperations
        BY <1>3, <2>1
      <3>1. (Pending(p)' <=> Pending(p)) /\ (InHand(p)' <=> InHand(p))
        BY <2>1 DEF Pending, InHand
      <3>2. Untouched(p) => p # o /\ Untouched(p)'
        BY <1>00, <2>1, <2>3, <3>0 DEF Untouched
      <3> QED
        BY <1>0, <1>3, <2>1, <3>0, <3>1, <3>2 DEF StoreAsksOnce
    <2>5. AcceptedWasStarted' /\ RunCountsFromNothing'
      BY <1>0, <2>1 DEF AcceptedWasStarted, RunCountsFromNothing
    <2> QED
      BY <2>4, <2>5 DEF StoreIInv
  <1>12. CASE UNCHANGED installVars
    <2>1. UNCHANGED <<run, retries, outcome, requests, hand, answers, transaction, wanted, starts, cutOff>>
      BY <1>12 DEF installVars, faults
    <2> QED
      BY <1>4, <2>1
  <1> QED
    BY <1>1, <1>5, <1>6, <1>7, <1>8, <1>9, <1>10, <1>11, <1>12 DEF InstallNext

(* What both say of the properties.                                        *)
LEMMA InstallsStartOnce == InstallIInv => StartedOnce
  BY DEF InstallIInv, StartsAreRecorded, StartedOnce

LEMMA InstallsCount == InstallIInv /\ StoreIInv => InstallsAreSound
  <1> SUFFICES ASSUME InstallIInv, StoreIInv PROVE InstallsAreSound
    OBVIOUS
  <1>1. WaitsForItsOwn
    BY DEF StoreIInv, RunCountsFromNothing, WaitsForItsOwn, AcceptedIsStarted
  <1> QED
    BY <1>1, InstallsStartOnce DEF InstallsAreSound

----------------------------------------------------------------------------
(* TestFlight subscriptions.  What memory holds is what was saved or what  *)
(* came after it, and a status goes one way; so a decision is never        *)
(* undone, whatever is lost.  With it a subscription a device was asked    *)
(* to join is granted for good, and one invite has one saved subscription  *)
(* that is open, beside those whose creation failed to be written.         *)

BookStatus == {"none", "withdrawn"} \cup Open
RowStatus  == {"none", "pending", "syncing", "active", "failed", "unsubscribed"}
Books      == [Submissions -> [status : BookStatus, rows : [TestDevices -> RowStatus]]]

(* What may come of a status.                                              *)
CanBecome(was) ==
  {now \in BookStatus :
     \/ was = "none" \/ now = was \/ now = "withdrawn"
     \/ was = "pending" /\ now \in {"approved", "denied"}}

(* Memory is ahead of the tables.                                          *)
BookIsAhead ==
  \A s \in Submissions :
    /\ book[s].status \in CanBecome(saved[s].status)
    /\ saved[s].status = "none" /\ book[s].status # "none" => s \in unsaved

(* A submission that is under way has created nothing.                     *)
CreatedIsOver == \A s \in Submissions : book[s].status # "none" => submission[s] = "over"

OneIsSaved ==
  \A s, u \in Submissions \ unsaved : saved[s].status \in Open /\ saved[u].status \in Open => s = u

(* What a manager has approved, now or before it was withdrawn.            *)
Granted(kept, s) == kept[s].status \in {"approved", "withdrawn"}

(* Devices are asked for what was granted only.                            *)
AskedIsGranted ==
  /\ \A t \in SyncTasks : IF sync[t].of = NoSubmission THEN sync[t] = NoSync ELSE Granted(saved, sync[t].of)
  /\ \A s \in Submissions, d \in TestDevices : <<s, d>> \in asked => Granted(saved, s)
  /\ \A s \in Submissions \cup {NoSubmission}, d \in TestDevices, n \in Asking :
       stored[<<s, d, n>>] # "none" => s # NoSubmission /\ Granted(saved, s)

(* An answer, and a row that was made of it, is of a device that had       *)
(* access while the subscription was there.                                *)
AccessIsRecorded ==
  /\ \A s \in Submissions, d \in member : book[s].status # "none" => <<s, d>> \in memberFor
  /\ \A s \in Submissions, d \in TestDevices, n \in Asking :
       stored[<<s, d, n>>] = "yes" => <<s, d>> \in memberFor
  /\ \A s \in Submissions, d \in TestDevices :
       book[s].rows[d] = "active" \/ saved[s].rows[d] = "active" => <<s, d>> \in memberFor

BetaIInv ==
  BetaTypeOK /\ BookIsAhead /\ CreatedIsOver /\ OneIsSaved /\ AskedIsGranted /\ AccessIsRecorded

(* The initial state satisfies it.                                         *)
LEMMA BetaInitIInv == BetaInit => BetaIInv
  <1> SUFFICES ASSUME BetaInit PROVE BetaIInv
    OBVIOUS
  <1>1. /\ \A s \in Submissions : book[s] = NoSubscription /\ saved[s] = NoSubscription
        /\ book \in Books /\ saved \in Books
    BY DEF BetaInit, NoSubscription, Books, BookStatus, RowStatus
  <1>2. \A t \in SyncTasks : sync[t] = NoSync
    BY DEF BetaInit
  <1>3. sync \in [SyncTasks -> [of : Submissions \cup {NoSubmission}, at : [TestDevices -> Steps]]]
    BY DEF BetaInit, NoSync, Steps
  <1>4. \A s \in Submissions \cup {NoSubmission}, d \in TestDevices, n \in Asking : stored[<<s, d, n>>] = "none"
    BY DEF BetaInit, BetaOperations
  <1>5. incidents \in 0 .. MaxIncidents
    BY BetaAssumption DEF BetaInit
  <1>6. BetaTypeOK
    BY <1>1, <1>3, <1>5 DEF BetaInit, BetaTypeOK, Books, BookStatus, RowStatus
  <1>7. BookIsAhead /\ CreatedIsOver /\ OneIsSaved
    BY <1>1 DEF NoSubscription, BookIsAhead, CanBecome, BookStatus, CreatedIsOver, OneIsSaved, Open
  <1>8. AskedIsGranted
    BY <1>2, <1>4 DEF AskedIsGranted, BetaInit, NoSync
  <1>9. AccessIsRecorded
    BY <1>1, <1>4 DEF AccessIsRecorded, BetaInit, NoSubscription
  <1> QED
    BY <1>6, <1>7, <1>8, <1>9 DEF BetaIInv

(* How memory and the tables change after a subscription is created:       *)
(* statuses go their way, a write saves memory as it was or is, and a row  *)
(* becomes active only of a device that has had access.                    *)
BooksMove ==
  /\ book' \in Books /\ saved' \in Books
  /\ \A s \in Submissions :
       /\ book'[s].status \in CanBecome(book[s].status)
       /\ book[s].status = "none" => book'[s].status = "none"
       /\ saved'[s].status \in {saved[s].status, book[s].status, book'[s].status}
  /\ \A s \in Submissions, d \in TestDevices :
       /\ book'[s].rows[d] = "active" => book[s].rows[d] = "active" \/ <<s, d>> \in memberFor
       /\ saved'[s].rows[d] = "active" =>
            saved[s].rows[d] = "active" \/ book[s].rows[d] = "active" \/ <<s, d>> \in memberFor

BetaBooksAreSound == BookIsAhead /\ CreatedIsOver /\ OneIsSaved

LEMMA BooksMoveLemma ==
  ASSUME book \in Books, saved \in Books, BetaBooksAreSound, BooksMove, unsaved' = unsaved,
         \A s \in Submissions : submission[s] = "over" => submission'[s] = "over"
  PROVE  BetaBooksAreSound' /\ \A s \in Submissions : Granted(saved, s) => Granted(saved', s)
  <1> USE DEF BetaBooksAreSound
  <1>0. \A s \in Submissions :
          book[s].status \in BookStatus /\ saved[s].status \in BookStatus
          /\ book'[s].status \in BookStatus /\ saved'[s].status \in BookStatus
    BY DEF Books, BooksMove
  <1>1. \A s \in Submissions : book'[s].status \in CanBecome(saved'[s].status)
    BY <1>0 DEF BooksMove, BookIsAhead, CanBecome, BookStatus
  <1>2. \A s \in Submissions : saved[s].status # "none" => saved'[s].status \in CanBecome(saved[s].status) \ {"none"}
    BY <1>0 DEF BooksMove, BookIsAhead, CanBecome, BookStatus, Open
  <1>3. \A s \in Submissions : saved'[s].status = "none" /\ book'[s].status # "none" => s \in unsaved'
    BY <1>0 DEF BooksMove, BookIsAhead
  <1>4. CreatedIsOver'
    BY DEF BooksMove, CreatedIsOver
  <1>5. OneIsSaved'
    <2>1. \A s \in Submissions \ unsaved : saved'[s].status \in Open => saved[s].status \in Open
      BY <1>0, <1>2 DEF BooksMove, BookIsAhead, CanBecome, BookStatus, Open
    <2> QED
      BY <2>1 DEF OneIsSaved
  <1>6. \A s \in Submissions : Granted(saved, s) => Granted(saved', s)
    BY <1>2 DEF Granted, CanBecome
  <1> QED
    BY <1>1, <1>3, <1>4, <1>5, <1>6 DEF BookIsAhead

(* Memory may become c.                                                    *)
MovesOn(c) ==
  /\ c \in Books
  /\ \A s \in Submissions : c[s].status \in CanBecome(book[s].status) /\ (book[s].status = "none" => c[s].status = "none")
  /\ \A s \in Submissions, d \in TestDevices :
       c[s].rows[d] = "active" => book[s].rows[d] = "active" \/ <<s, d>> \in memberFor

LEMMA BookItself == book \in Books => MovesOn(book)
  BY DEF MovesOn, Books, CanBecome

LEMMA StatusMovesOn ==
  ASSUME book \in Books, NEW s \in Submissions, NEW mark, book[s].status # "none",
         mark \in CanBecome(book[s].status)
  PROVE  MovesOn(WithStatus(s, mark))
  <1> DEFINE r == [book[s] EXCEPT !.status = mark]
  <1>1. WithStatus(s, mark) = [book EXCEPT ![s] = r]
    BY DEF WithStatus, Books
  <1>2. book[s] \in [status : BookStatus, rows : [TestDevices -> RowStatus]] /\ mark \in BookStatus
    BY DEF Books, CanBecome
  <1>3. r \in [status : BookStatus, rows : [TestDevices -> RowStatus]] /\ r.status = mark /\ r.rows = book[s].rows
    BY <1>2
  <1> HIDE DEF r
  <1> QED
    BY <1>1, <1>3 DEF MovesOn, Books, CanBecome

LEMMA RowMovesOn ==
  ASSUME book \in Books, NEW s \in Submissions, NEW d \in TestDevices, NEW mark \in RowStatus,
         mark = "active" => <<s, d>> \in memberFor
  PROVE  /\ MovesOn(WithRow(s, d, mark))
         /\ WithRow(s, d, mark)[s].status = book[s].status
  <1> DEFINE rows == [book[s].rows EXCEPT ![d] = mark]
             r == [book[s] EXCEPT !.rows = rows]
  <1>1. book[s] \in [status : BookStatus, rows : [TestDevices -> RowStatus]]
    BY DEF Books
  <1>2. rows \in [TestDevices -> RowStatus] /\ rows[d] = mark /\ \A e \in TestDevices \ {d} : rows[e] = book[s].rows[e]
    BY <1>1
  <1>3. WithRow(s, d, mark) = [book EXCEPT ![s] = r]
    BY DEF WithRow, Books
  <1> HIDE DEF rows
  <1>4. r \in [status : BookStatus, rows : [TestDevices -> RowStatus]] /\ r.status = book[s].status /\ r.rows = rows
    BY <1>1, <1>2
  <1> HIDE DEF r
  <1>5. \A q \in Submissions : [book EXCEPT ![s] = r][q] = IF q = s THEN r ELSE book[q]
    BY DEF Books
  <1>6. [book EXCEPT ![s] = r] \in Books
    BY <1>4 DEF Books
  <1>7. \A q \in Submissions, e \in TestDevices :
          [book EXCEPT ![s] = r][q].rows[e] = "active" => book[q].rows[e] = "active" \/ <<q, e>> \in memberFor
    BY <1>2, <1>4, <1>5
  <1>8. \A q \in Submissions : [book EXCEPT ![s] = r][q].status = book[q].status /\ book[q].status \in BookStatus
    BY <1>4, <1>5 DEF Books
  <1> QED
    BY <1>3, <1>6, <1>7, <1>8 DEF MovesOn, CanBecome

LEMMA WrittenMoves ==
  ASSUME book \in Books, saved \in Books, NEW c, MovesOn(c), book' = c, saved' \in {saved, c}
  PROVE  BooksMove
  BY DEF BooksMove, MovesOn

LEMMA UnwrittenMoves ==
  ASSUME book \in Books, saved \in Books, book' = book, saved' \in {saved, book}
  PROVE  BooksMove
  BY BookItself, WrittenMoves

(* What a write leaves of the bound.                                       *)
LEMMA IncidentLemma == incidents \in 0 .. MaxIncidents /\ Incident => incidents' \in 0 .. MaxIncidents
  BY BetaAssumption DEF Incident

BetaTasks == [of : Submissions \cup {NoSubmission}, at : [TestDevices -> Steps]]

SyncMoves ==
  /\ sync' \in [SyncTasks -> BetaTasks]
  /\ \A t \in SyncTasks : IF sync'[t].of = NoSubmission THEN sync'[t] = NoSync ELSE Granted(saved, sync'[t].of)

LEMMA SyncStays ==
  ASSUME BetaIInv, sync' = sync
  PROVE  SyncMoves
  BY DEF BetaIInv, BetaTypeOK, SyncMoves, BetaTasks, AskedIsGranted

LEMMA SyncIsAt ==
  ASSUME BetaIInv, NEW t \in SyncTasks, NEW s \in Submissions, NEW at \in [TestDevices -> Steps],
         Granted(saved, s), IsAt(t, s, at)
  PROVE  SyncMoves
  <1> DEFINE r == IF at = NoSync.at THEN NoSync ELSE [of |-> s, at |-> at]
  <1>1. sync' = [sync EXCEPT ![t] = r]
    BY DEF IsAt
  <1>2. r \in BetaTasks
    BY DEF BetaTasks, NoSync, Steps
  <1>3. IF r.of = NoSubmission THEN r = NoSync ELSE Granted(saved, r.of)
    BY BetaAssumption DEF NoSync
  <1> HIDE DEF r
  <1>4. sync \in [SyncTasks -> BetaTasks]
    BY DEF BetaIInv, BetaTypeOK, BetaTasks
  <1> QED
    BY <1>1, <1>2, <1>3, <1>4 DEF SyncMoves, BetaIInv, AskedIsGranted

LEMMA SyncGoes ==
  ASSUME BetaIInv, NEW t \in SyncTasks, NEW d \in TestDevices, NEW step \in Steps,
         sync[t].at[d] # Done, Goes(t, d, step)
  PROVE  SyncMoves
  <1>1. sync[t] \in BetaTasks
    BY DEF BetaIInv, BetaTypeOK, BetaTasks
  <1>2. sync[t] # NoSync
    BY DEF NoSync
  <1>3. sync[t].of \in Submissions /\ Granted(saved, sync[t].of)
    BY <1>1, <1>2 DEF BetaIInv, AskedIsGranted, BetaTasks
  <1>4. [sync[t].at EXCEPT ![d] = step] \in [TestDevices -> Steps]
    BY <1>1 DEF BetaTasks
  <1>5. IsAt(t, sync[t].of, [sync[t].at EXCEPT ![d] = step])
    BY DEF Goes
  <1> QED
    BY <1>3, <1>4, <1>5, SyncIsAt

(* What a device did and answered.                                         *)
DeviceMoves ==
  /\ stored' \in [BetaOperations -> {"none", "requested", "failed", "yes", "no"}]
  /\ asked' \subseteq Submissions \X TestDevices
  /\ \A s \in Submissions, d \in TestDevices : <<s, d>> \in asked' => Granted(saved, s)
  /\ \A s \in Submissions \cup {NoSubmission}, d \in TestDevices, n \in Asking :
       /\ stored'[<<s, d, n>>] # "none" => s # NoSubmission /\ Granted(saved, s)
       /\ stored'[<<s, d, n>>] = "yes" => <<s, d>> \in memberFor

LEMMA DeviceStays ==
  ASSUME BetaIInv, stored' = stored, asked' = asked
  PROVE  DeviceMoves
  BY DEF BetaIInv, BetaTypeOK, DeviceMoves, AskedIsGranted, AccessIsRecorded

(* A step that creates nothing and changes no access preserves it.         *)
LEMMA BetaStep ==
  ASSUME BetaIInv, BooksMove, SyncMoves, DeviceMoves,
         UNCHANGED <<member, memberFor, unsaved>>, incidents' \in 0 .. MaxIncidents,
         submission' \in [Submissions -> {"new", "resolving", "over"}],
         \A s \in Submissions : submission[s] = "over" => submission'[s] = "over"
  PROVE  BetaIInv'
  <1>1. book \in Books /\ saved \in Books /\ BetaBooksAreSound
    BY DEF BetaIInv, BetaTypeOK, Books, BookStatus, RowStatus, BetaBooksAreSound
  <1>2. BetaBooksAreSound' /\ \A s \in Submissions : Granted(saved, s) => Granted(saved', s)
    BY <1>1, BooksMoveLemma
  <1>3. BetaTypeOK'
    <2>1. book' \in Books /\ saved' \in Books
      BY DEF BooksMove
    <2> QED
      BY <2>1 DEF BetaIInv, BetaTypeOK, SyncMoves, BetaTasks, DeviceMoves, Books, BookStatus, RowStatus
  <1>4. AskedIsGranted'
    <2>1. \A t \in SyncTasks : sync'[t].of \in Submissions \cup {NoSubmission}
      BY DEF SyncMoves, BetaTasks
    <2> QED
      BY <1>2, <2>1 DEF SyncMoves, DeviceMoves, AskedIsGranted
  <1>5. AccessIsRecorded'
    <2>1. \A s \in Submissions : book'[s].status # "none" => book[s].status # "none"
      BY DEF BooksMove
    <2>2. \A s \in Submissions, d \in TestDevices :
            book'[s].rows[d] = "active" \/ saved'[s].rows[d] = "active" => <<s, d>> \in memberFor
      BY DEF BooksMove, BetaIInv, AccessIsRecorded
    <2> QED
      BY <2>1, <2>2 DEF BetaIInv, AccessIsRecorded, DeviceMoves
  <1> QED
    BY <1>2, <1>3, <1>4, <1>5 DEF BetaIInv, BetaBooksAreSound

(* How a device is done with.                                              *)
LEMMA SettlesMoves ==
  ASSUME BetaIInv, NEW t \in SyncTasks, NEW d \in TestDevices, NEW mark \in {"active", "failed"},
         sync[t].at[d] # Done, Settles(t, d, mark),
         mark = "active" => <<sync[t].of, d>> \in memberFor
  PROVE  BooksMove /\ SyncMoves /\ incidents' \in 0 .. MaxIncidents
  <1> DEFINE s == sync[t].of
  <1>0. book \in Books /\ saved \in Books
    BY DEF BetaIInv, BetaTypeOK, Books, BookStatus, RowStatus
  <1>1. s \in Submissions
    <2>1. sync[t] \in BetaTasks /\ sync[t] # NoSync
      BY DEF BetaIInv, BetaTypeOK, BetaTasks, NoSync
    <2> QED
      BY <2>1 DEF BetaIInv, AskedIsGranted, BetaTasks
  <1>2. MovesOn(WithRow(s, d, mark))
    <2>1. mark \in RowStatus /\ (mark = "active" => <<s, d>> \in memberFor)
      BY DEF RowStatus
    <2> HIDE DEF s
    <2> QED
      BY <1>0, <1>1, <2>1, RowMovesOn
  <1>3. MovesOn(WithRow(s, d, "failed"))
    <2>1. "failed" \in RowStatus
      BY DEF RowStatus
    <2> HIDE DEF s
    <2> QED
      BY <1>0, <1>1, <2>1, RowMovesOn
  <1>4. SyncMoves
    BY SyncGoes DEF Settles, Steps
  <1>5. incidents \in 0 .. MaxIncidents
    BY DEF BetaIInv, BetaTypeOK
  <1>6. CASE Written(WithRow(s, d, mark))
    <2>1. book' = WithRow(s, d, mark) /\ saved' \in {saved, WithRow(s, d, mark)} /\ incidents' = incidents
      BY <1>6 DEF Written
    <2> HIDE DEF s
    <2>2. BooksMove
      BY <1>0, <1>2, <2>1, WrittenMoves
    <2> QED
      BY <1>4, <1>5, <2>1, <2>2
  <1>7. CASE Incident /\ book' = WithRow(s, d, "failed") /\ saved' \in {saved, book'}
    <2> HIDE DEF s
    <2>1. BooksMove
      BY <1>0, <1>3, <1>7, WrittenMoves
    <2> QED
      BY <1>4, <1>5, <1>7, <2>1, IncidentLemma
  <1> QED
    BY <1>6, <1>7 DEF Settles, NotWritten

LEMMA DecideMoves ==
  ASSUME BetaIInv, NEW s \in Submissions, NEW mark \in {"approved", "denied"}, Decide(s, mark)
  PROVE  BooksMove /\ incidents' \in 0 .. MaxIncidents
  <1>0. book \in Books /\ saved \in Books /\ incidents \in 0 .. MaxIncidents
    BY DEF BetaIInv, BetaTypeOK, Books, BookStatus, RowStatus
  <1>1. CASE book[s].status = "pending"
    <2>1. mark \in CanBecome(book[s].status) /\ book[s].status # "none"
      BY <1>1 DEF CanBecome, BookStatus, Open
    <2>2. MovesOn(WithStatus(s, mark))
      BY <1>0, <2>1, StatusMovesOn
    <2>3. book' = WithStatus(s, mark) /\ saved' \in {saved, WithStatus(s, mark)} /\ (Incident \/ incidents' = incidents)
      BY <1>1 DEF Decide, Written, NotWritten
    <2> QED
      BY <1>0, <2>2, <2>3, WrittenMoves, IncidentLemma
  <1>2. CASE book[s].status # "pending"
    <2>1. book' = book /\ saved' = saved /\ incidents' = incidents
      BY <1>2 DEF Decide, Unwritten
    <2> QED
      BY <1>0, <2>1, UnwrittenMoves
  <1> QED
    BY <1>1, <1>2

LEMMA CreateNextIInv ==
  ASSUME BetaIInv, NEW p \in Submissions, CreateSubscription(p), MayCreate
  PROVE  BetaIInv'
  <1> DEFINE r == [status |-> IF p \in ByManager THEN "approved" ELSE "pending",
                   rows |-> [d \in TestDevices |-> "pending"]]
  <1>0. /\ book \in Books /\ saved \in Books /\ incidents \in 0 .. MaxIncidents
        /\ submission \in [Submissions -> {"new", "resolving", "over"}]
    BY DEF BetaIInv, BetaTypeOK, Books, BookStatus, RowStatus
  <1>1. /\ book' = [book EXCEPT ![p] = r] /\ saved' \in {saved, book'}
        /\ submission' = [submission EXCEPT ![p] = "over"] /\ submission[p] = "resolving"
        /\ \/ saved' = book' /\ unsaved' = unsaved /\ incidents' = incidents
           \/ saved' = saved /\ unsaved' = unsaved \cup {p} /\ Incident
        /\ memberFor' = memberFor \cup {<<p, d>> : d \in member}
        /\ UNCHANGED <<sync, stored, member, asked>>
    BY DEF CreateSubscription, Written, NotWritten, Over
  <1>2. /\ r \in [status : BookStatus, rows : [TestDevices -> RowStatus]]
        /\ r.status \in {"approved", "pending"} /\ \A d \in TestDevices : r.rows[d] = "pending"
    BY DEF BookStatus, RowStatus, Open
  <1>3. book[p].status = "none" /\ saved[p].status = "none"
    <2>1. book[p].status = "none"
      BY <1>1 DEF BetaIInv, CreatedIsOver
    <2> QED
      BY <1>0, <2>1 DEF BetaIInv, BookIsAhead, CanBecome, Books, BookStatus, Open
  <1> HIDE DEF r
  <1>4. /\ book'[p] = r /\ \A s \in Submissions \ {p} : book'[s] = book[s]
        /\ \A s \in Submissions \ {p} : saved'[s] = saved[s] \/ saved'[s] = book[s]
        /\ saved'[p] = saved[p] \/ saved'[p] = r
        /\ book' \in Books /\ saved' \in Books
    BY <1>0, <1>1, <1>2 DEF Books
  <1>5. \A s \in Submissions : saved[s].status \notin Open
    BY DEF MayCreate, Found
  <1>6. incidents' \in 0 .. MaxIncidents
    BY <1>0, <1>1, IncidentLemma
  <1>7. memberFor' \subseteq Submissions \X TestDevices
    BY <1>1 DEF BetaIInv, BetaTypeOK
  <1>8. BetaTypeOK'
    BY <1>0, <1>1, <1>4, <1>6, <1>7 DEF BetaIInv, BetaTypeOK, Books, BookStatus, RowStatus
  <1>9. \A s \in Submissions \ {p} :
          /\ saved[s].status \in CanBecome(saved[s].status) /\ book[s].status \in CanBecome(saved[s].status)
          /\ book[s].status \in CanBecome(book[s].status)
          /\ saved[s].status \in BookStatus
    BY <1>0 DEF BetaIInv, BookIsAhead, Books, CanBecome
  <1>10. BookIsAhead'
    <2>1. ASSUME NEW s \in Submissions \ {p}
          PROVE  /\ book'[s].status \in CanBecome(saved'[s].status)
                 /\ saved'[s].status = "none" /\ book'[s].status # "none" => s \in unsaved'
      BY <1>1, <1>4, <1>9 DEF BetaIInv, BookIsAhead
    <2>2. /\ book'[p].status \in CanBecome(saved'[p].status)
          /\ saved'[p].status = "none" /\ book'[p].status # "none" => p \in unsaved'
      BY <1>1, <1>2, <1>3, <1>4 DEF CanBecome, BookStatus, Open
    <2> QED
      BY <2>1, <2>2 DEF BookIsAhead
  <1>11. CreatedIsOver'
    BY <1>0, <1>1, <1>4 DEF BetaIInv, CreatedIsOver
  <1>12. OneIsSaved'
    <2>1. \A s \in (Submissions \ unsaved') \ {p} : saved'[s].status \notin Open
      <3> SUFFICES ASSUME NEW s \in (Submissions \ unsaved') \ {p} PROVE saved'[s].status \notin Open
        OBVIOUS
      <3>1. saved[s].status = "none" => book[s].status = "none"
        BY <1>1 DEF BetaIInv, BookIsAhead
      <3> QED
        BY <1>4, <1>5, <1>9, <3>1 DEF CanBecome, Open, BookStatus
    <2> QED
      BY <2>1 DEF OneIsSaved
  <1>13. \A s \in Submissions : Granted(saved, s) => Granted(saved', s)
    BY <1>3, <1>4, <1>9 DEF Granted, CanBecome
  <1>14. AskedIsGranted'
    <2>1. \A t \in SyncTasks : sync[t].of \in Submissions \cup {NoSubmission}
      BY DEF BetaIInv, BetaTypeOK
    <2> QED
      BY <1>1, <1>13, <2>1 DEF BetaIInv, AskedIsGranted
  <1>15. AccessIsRecorded'
    <2>1. \A s \in Submissions, d \in member' : book'[s].status # "none" => <<s, d>> \in memberFor'
      BY <1>1, <1>4 DEF BetaIInv, AccessIsRecorded
    <2>2. ASSUME NEW s \in Submissions, NEW d \in TestDevices, book'[s].rows[d] = "active" \/ saved'[s].rows[d] = "active"
          PROVE  <<s, d>> \in memberFor'
      BY <1>1, <1>2, <1>4, <2>2 DEF BetaIInv, AccessIsRecorded
    <2> QED
      BY <1>1, <2>1, <2>2 DEF BetaIInv, AccessIsRecorded
  <1> QED
    BY <1>8, <1>10, <1>11, <1>12, <1>14, <1>15 DEF BetaIInv

SubmissionsMove ==
  /\ submission' \in [Submissions -> {"new", "resolving", "over"}]
  /\ \A s \in Submissions : submission[s] = "over" => submission'[s] = "over"

(* Every step preserves it.                                                *)
LEMMA BetaNextIInv == BetaIInv /\ [BetaNext]_betaVars => BetaIInv'
  <1> SUFFICES ASSUME BetaIInv, [BetaNext]_betaVars PROVE BetaIInv'
    OBVIOUS
  <1>0. /\ book \in Books /\ saved \in Books /\ incidents \in 0 .. MaxIncidents
        /\ submission \in [Submissions -> {"new", "resolving", "over"}]
        /\ sync \in [SyncTasks -> BetaTasks]
        /\ stored \in [BetaOperations -> {"none", "requested", "failed", "yes", "no"}]
        /\ asked \subseteq Submissions \X TestDevices
    BY DEF BetaIInv, BetaTypeOK, Books, BookStatus, RowStatus, BetaTasks
  <1>00. ASSUME NEW t \in SyncTasks, sync[t] # NoSync
         PROVE  sync[t].of \in Submissions /\ Granted(saved, sync[t].of)
    BY <1>0, <1>00 DEF BetaIInv, AskedIsGranted, BetaTasks
  <1>000. ASSUME NEW s \in Submissions, Granted(saved, s) PROVE book[s].status \in {"approved", "withdrawn"}
    BY <1>000 DEF BetaIInv, BookIsAhead, Granted, CanBecome
  (* Submissions and decisions.                                            *)
  <1>1. ASSUME SubmissionsMove, BooksMove, incidents' \in 0 .. MaxIncidents, Unchanged PROVE BetaIInv'
    <2>1. /\ submission' \in [Submissions -> {"new", "resolving", "over"}]
          /\ \A s \in Submissions : submission[s] = "over" => submission'[s] = "over"
      BY <1>1 DEF SubmissionsMove
    <2>2. UNCHANGED <<sync, stored, member, asked, memberFor, unsaved>>
      BY <1>1 DEF Unchanged, device
    <2>3. SyncMoves /\ DeviceMoves
      BY <2>2, SyncStays, DeviceStays
    <2> QED
      BY <1>1, <2>1, <2>2, <2>3, BetaStep
  <1>2. ASSUME NEW p \in Submissions, Submit(p) PROVE BetaIInv'
    <2>1. SubmissionsMove
      <3>1. (submission' = [submission EXCEPT ![p] = "resolving"] /\ submission[p] = "new") \/ Over(p)
        BY <1>2 DEF Submit
      <3> QED
        BY <1>0, <3>1 DEF SubmissionsMove, Over
    <2>2. Unchanged /\ (Unwritten \/ \E s \in Found : Decide(s, "approved"))
      BY <1>2 DEF Submit
    <2>3. CASE Unwritten
      <3>1. book' = book /\ saved' = saved /\ incidents' = incidents
        BY <2>3 DEF Unwritten
      <3>2. BooksMove
        BY <1>0, <3>1, UnwrittenMoves
      <3> QED
        BY <1>0, <1>1, <2>1, <2>2, <3>1, <3>2
    <2>4. CASE \E s \in Found : Decide(s, "approved")
      <3>1. BooksMove /\ incidents' \in 0 .. MaxIncidents
        BY <2>4, DecideMoves DEF Found
      <3> QED
        BY <1>1, <2>1, <2>2, <3>1
    <2> QED
      BY <2>2, <2>3, <2>4
  <1>3. ASSUME NEW p \in Submissions, SubmissionFails(p) PROVE BetaIInv'
    <2>1. Over(p) /\ Unchanged /\ book' = book /\ saved' = saved /\ incidents' = incidents
      BY <1>3 DEF SubmissionFails, Unwritten
    <2>2. BooksMove /\ SubmissionsMove
      BY <1>0, <2>1, UnwrittenMoves DEF Over, SubmissionsMove
    <2> QED
      BY <1>0, <1>1, <2>1, <2>2
  <1>4. ASSUME NEW p \in Submissions, CreateSubscription(p) PROVE BetaIInv'
    <2>1. CASE MayCreate
      BY <1>4, <2>1, CreateNextIInv
    <2>2. CASE ~MayCreate
      <3>1. Over(p) /\ Unchanged /\ book' = book /\ saved' = saved /\ incidents' = incidents
        BY <1>4, <2>2 DEF CreateSubscription, Unwritten, Unchanged, device
      <3>2. BooksMove /\ SubmissionsMove
        BY <1>0, <3>1, UnwrittenMoves DEF Over, SubmissionsMove
      <3> QED
        BY <1>0, <1>1, <3>1, <3>2
    <2> QED
      BY <2>1, <2>2
  <1>5. ASSUME NEW p \in Submissions, ManagerDecides(p) PROVE BetaIInv'
    <2>1. /\ \E mark \in {"approved", "denied"} : Decide(p, mark)
          /\ submission' = submission /\ Unchanged
      BY <1>5 DEF ManagerDecides
    <2>2. BooksMove /\ incidents' \in 0 .. MaxIncidents
      BY <2>1, DecideMoves
    <2>3. SubmissionsMove
      BY <1>0, <2>1 DEF SubmissionsMove
    <2> QED
      BY <1>1, <2>1, <2>2, <2>3
  <1>6. ASSUME NEW p \in Submissions, SyncNotBegun(p) PROVE BetaIInv'
    <2>1. submission' = submission /\ Unchanged /\ book' = book /\ saved' = saved /\ Incident
      BY <1>6 DEF SyncNotBegun, NotWritten
    <2>2. BooksMove /\ SubmissionsMove
      BY <1>0, <2>1, UnwrittenMoves DEF SubmissionsMove
    <2>3. incidents' \in 0 .. MaxIncidents
      BY <1>0, <2>1, IncidentLemma
    <2> QED
      BY <1>1, <2>1, <2>2, <2>3
  <1>7. CASE WriteRest
    <2>1. /\ saved' = book /\ UNCHANGED <<submission, book, incidents, sync, stored, member, asked, memberFor, unsaved>>
      BY <1>7 DEF WriteRest, Unchanged, device
    <2>2. BooksMove /\ SyncMoves /\ DeviceMoves
      BY <1>0, <2>1, UnwrittenMoves, SyncStays, DeviceStays
    <2> QED
      BY <1>0, <2>1, <2>2, BetaStep
  (* Background work.                                                      *)
  <1>8. ASSUME NEW t \in SyncTasks, NEW s \in Submissions, BeginSync(t, s) PROVE BetaIInv'
    <2>1. saved[s].status = "approved" /\ UNCHANGED <<submission, stored, member, asked, memberFor, unsaved>>
      BY <1>8 DEF BeginSync, device
    <2>2. PICK devices \in SUBSET TestDevices : Begins(t, s, devices, Question(0))
      BY <1>8 DEF BeginSync
    <2>3. [d \in TestDevices |-> IF d \in devices THEN Question(0) ELSE Done] \in [TestDevices -> Steps]
      BY BetaAssumption DEF Steps, Asking
    <2>4. SyncMoves
      <3>1. Granted(saved, s)
        BY <2>1 DEF Granted
      <3>2. IsAt(t, s, [d \in TestDevices |-> IF d \in devices THEN Question(0) ELSE Done])
        BY <2>2 DEF Begins
      <3> QED
        BY <2>3, <3>1, <3>2, SyncIsAt
    <2> DEFINE r == [book[s] EXCEPT !.rows = [d \in TestDevices |-> "syncing"]]
    <2>5. Syncing(s) = [book EXCEPT ![s] = r]
      BY <1>0 DEF Syncing, Books
    <2>6. /\ r \in [status : BookStatus, rows : [TestDevices -> RowStatus]]
          /\ r.status = book[s].status /\ \A d \in TestDevices : r.rows[d] = "syncing"
      BY <1>0 DEF Books, RowStatus
    <2> HIDE DEF r
    <2>7. book' = [book EXCEPT ![s] = r]
      BY <1>8, <2>5 DEF BeginSync, Written
    <2>8. book' \in Books /\ book'[s] = r /\ \A q \in Submissions \ {s} : book'[q] = book[q]
      BY <1>0, <2>6, <2>7 DEF Books
    <2>9. \/ saved' = book' /\ incidents' = incidents
          \/ saved' = book' /\ Incident
          \/ Incident /\ \E d \in TestDevices : saved' = [book' EXCEPT ![s].rows[d] = book[s].rows[d]]
      BY <1>8 DEF BeginSync, Written
    <2>10. incidents' \in 0 .. MaxIncidents
      BY <1>0, <2>9, IncidentLemma
    <2>11. /\ saved' \in Books
           /\ \A q \in Submissions : saved'[q].status = book'[q].status
           /\ \A q \in Submissions, e \in TestDevices : saved'[q].rows[e] \in {book'[q].rows[e], book[q].rows[e]}
      <3>1. CASE saved' = book'
        BY <2>8, <3>1 DEF Books
      <3>2. ASSUME NEW d \in TestDevices, saved' = [book' EXCEPT ![s].rows[d] = book[s].rows[d]]
            PROVE  <2>11!1 /\ <2>11!2 /\ <2>11!3
        <4> DEFINE rows == [r.rows EXCEPT ![d] = book[s].rows[d]]
                   u == [r EXCEPT !.rows = rows]
        <4>1. rows \in [TestDevices -> RowStatus] /\ \A e \in TestDevices : rows[e] \in {r.rows[e], book[s].rows[e]}
          BY <1>0, <2>6 DEF Books
        <4>2. saved' = [book' EXCEPT ![s] = u]
          BY <2>8, <3>2 DEF Books
        <4> HIDE DEF rows
        <4>3. u \in [status : BookStatus, rows : [TestDevices -> RowStatus]] /\ u.status = r.status /\ u.rows = rows
          BY <2>6, <4>1
        <4> HIDE DEF u
        <4>4. saved' \in Books /\ saved'[s] = u /\ \A q \in Submissions \ {s} : saved'[q] = book'[q]
          BY <2>8, <4>2, <4>3 DEF Books
        <4> QED
          BY <2>8, <4>1, <4>3, <4>4
      <3> QED
        BY <2>9, <3>1, <3>2
    <2>12. BooksMove
      <3>1. \A q \in Submissions : book'[q].status = book[q].status /\ book[q].status \in BookStatus
        BY <1>0, <2>6, <2>8 DEF Books
      <3>2. \A q \in Submissions, e \in TestDevices : book'[q].rows[e] = "active" => book[q].rows[e] = "active"
        BY <2>6, <2>8
      <3> QED
        BY <2>8, <2>11, <3>1, <3>2 DEF BooksMove, CanBecome
    <2>13. DeviceMoves
      BY <2>1, DeviceStays
    <2> QED
      BY <1>0, <2>1, <2>4, <2>10, <2>12, <2>13, BetaStep
  <1>9. ASSUME NEW t \in SyncTasks, NEW s \in Submissions, BeginUnsubscribe(t, s) PROVE BetaIInv'
    <2>1. saved[s].status # "none" /\ UNCHANGED <<submission, stored, member, asked, memberFor, unsaved>>
      BY <1>9 DEF BeginUnsubscribe, device
    <2>2. CASE saved[s].status = "approved"
      <3>1. book' = book /\ saved' = saved /\ incidents' = incidents
            /\ IsAt(t, s, [d \in TestDevices |-> IF d \in TestDevices THEN Leaving ELSE Done])
        BY <1>9, <2>2 DEF BeginUnsubscribe, Unwritten, Begins
      <3>2. [d \in TestDevices |-> IF d \in TestDevices THEN Leaving ELSE Done] \in [TestDevices -> Steps]
        BY DEF Steps
      <3>3. Granted(saved, s)
        BY <2>2 DEF Granted
      <3>4. SyncMoves
        BY <3>1, <3>2, <3>3, SyncIsAt
      <3> QED
        BY <1>0, <2>1, <3>1, <3>4, UnwrittenMoves, DeviceStays, BetaStep
    <2>3. CASE saved[s].status # "approved"
      <3>1. sync' = sync
        BY <1>9, <2>3 DEF BeginUnsubscribe
      <3>2. BooksMove /\ incidents' \in 0 .. MaxIncidents
        <4>1. CASE Unwritten
          BY <1>0, <4>1, UnwrittenMoves DEF Unwritten
        <4>2. CASE ~Unwritten
          <5>1. book' = WithStatus(s, "withdrawn") /\ saved' \in {saved, WithStatus(s, "withdrawn")}
                /\ (Incident \/ incidents' = incidents)
            BY <1>9, <2>3, <4>2 DEF BeginUnsubscribe, Written, NotWritten
          <5>2. book[s].status # "none" /\ "withdrawn" \in CanBecome(book[s].status)
            BY <2>1 DEF BetaIInv, BookIsAhead, CanBecome, BookStatus, Open
          <5>3. MovesOn(WithStatus(s, "withdrawn"))
            BY <1>0, <5>2, StatusMovesOn
          <5> QED
            BY <1>0, <5>1, <5>3, WrittenMoves, IncidentLemma
        <4> QED
          BY <4>1, <4>2
      <3> QED
        BY <1>0, <2>1, <3>1, <3>2, SyncStays, DeviceStays, BetaStep
    <2> QED
      BY <2>2, <2>3
  <1>10. ASSUME NEW t \in SyncTasks, NEW d \in TestDevices, AskToJoin(t, d) PROVE BetaIInv'
    <2> DEFINE s == sync[t].of
               o == BetaOperation(s, d, 0)
    <2>1. sync[t].at[d] = Question(0) /\ UNCHANGED <<submission, member, memberFor, unsaved>>
      BY <1>10 DEF AskToJoin
    <2>2. sync[t].at[d] # Done
      BY <2>1 DEF Question, Done
    <2>3. s \in Submissions /\ Granted(saved, s)
      <3>1. sync[t] # NoSync
        BY <2>2 DEF NoSync
      <3> QED
        BY <1>00, <3>1
    <2>4. DeviceMoves
      <3>1. CASE stored' = stored /\ asked' = asked
        BY <3>1, DeviceStays
      <3>2. CASE (\E state \in {"requested", "failed"} : stored' = [stored EXCEPT ![o] = state]) /\ asked' = asked \cup {<<s, d>>}
        <4> HIDE DEF s
        <4>1. PICK state \in {"requested", "failed"} : stored' = [stored EXCEPT ![<<s, d, 0>>] = state]
          BY <3>2 DEF BetaOperation
        <4>2. stored' \in [BetaOperations -> {"none", "requested", "failed", "yes", "no"}]
          BY <1>0, <4>1
        <4>3. \A u \in Submissions \cup {NoSubmission}, e \in TestDevices, n \in Asking :
                \/ stored'[<<u, e, n>>] = stored[<<u, e, n>>]
                \/ u = s /\ stored'[<<u, e, n>>] # "yes"
          BY <1>0, <4>1 DEF BetaOperations
        <4>4. \A u \in Submissions, e \in TestDevices : <<u, e>> \in asked' => <<u, e>> \in asked \/ u = s
          BY <3>2
        <4>5. s # NoSubmission
          BY <2>3, BetaAssumption
        <4>6. asked' \subseteq Submissions \X TestDevices
          BY <1>0, <2>3, <3>2
        <4> QED
          BY <2>3, <4>2, <4>3, <4>4, <4>5, <4>6 DEF DeviceMoves, BetaIInv, AskedIsGranted, AccessIsRecorded
      <3> QED
        BY <1>10, <3>1, <3>2 DEF AskToJoin
    <2>5. CASE Settles(t, d, "failed")
      <3>1. BooksMove /\ SyncMoves /\ incidents' \in 0 .. MaxIncidents
        BY <2>2, <2>5, SettlesMoves
      <3> QED
        BY <1>0, <2>1, <2>4, <3>1, BetaStep
    <2>6. CASE Goes(t, d, Question(1)) /\ Unwritten
      <3>1. Question(1) \in Steps
        BY BetaAssumption DEF Steps, Asking
      <3>2. SyncMoves
        BY <2>2, <2>6, <3>1, SyncGoes
      <3>3. book' = book /\ saved' = saved /\ incidents' = incidents
        BY <2>6 DEF Unwritten
      <3> QED
        BY <1>0, <2>1, <2>4, <3>2, <3>3, UnwrittenMoves, BetaStep
    <2> QED
      BY <1>10, <2>5, <2>6 DEF AskToJoin
  <1>11. ASSUME NEW t \in SyncTasks, NEW d \in TestDevices, NEW n \in Checks, AskStatus(t, d, n) PROVE BetaIInv'
    <2> DEFINE s == sync[t].of
               o == BetaOperation(s, d, n)
    <2>1. sync[t].at[d] = Question(n) /\ UNCHANGED <<submission, member, asked, memberFor, unsaved>>
      BY <1>11 DEF AskStatus
    <2>2. sync[t].at[d] # Done /\ n \in Asking
      BY <2>1, BetaAssumption DEF Question, Done, Checks, Asking
    <2>3. s \in Submissions /\ Granted(saved, s)
      <3>1. sync[t] # NoSync
        BY <2>2 DEF NoSync
      <3> QED
        BY <1>00, <3>1
    <2>4. DeviceMoves
      <3>1. CASE stored' = stored
        BY <2>1, <3>1, DeviceStays
      <3>2. CASE \E state \in {"requested", "failed", Truth(d)} : stored' = [stored EXCEPT ![o] = state]
        <4> HIDE DEF s
        <4>1. PICK state \in {"requested", "failed", Truth(d)} : stored' = [stored EXCEPT ![<<s, d, n>>] = state]
          BY <3>2 DEF BetaOperation
        <4>2. state \in {"requested", "failed", "yes", "no"} /\ (state = "yes" => d \in member)
          BY DEF Truth
        <4>3. state = "yes" => <<s, d>> \in memberFor
          BY <1>000, <2>3, <4>2 DEF BetaIInv, AccessIsRecorded
        <4>4. stored' \in [BetaOperations -> {"none", "requested", "failed", "yes", "no"}]
          BY <1>0, <4>1, <4>2
        <4>5. \A u \in Submissions \cup {NoSubmission}, e \in TestDevices, m \in Asking :
                \/ stored'[<<u, e, m>>] = stored[<<u, e, m>>]
                \/ u = s /\ e = d /\ stored'[<<u, e, m>>] = state
          BY <1>0, <4>1 DEF BetaOperations
        <4>6. s # NoSubmission
          BY <2>3, BetaAssumption
        <4>7. /\ \A u \in Submissions, e \in TestDevices : <<u, e>> \in asked => Granted(saved, u)
              /\ \A u \in Submissions \cup {NoSubmission}, e \in TestDevices, m \in Asking :
                   stored[<<u, e, m>>] # "none" => u # NoSubmission /\ Granted(saved, u)
              /\ \A u \in Submissions, e \in TestDevices, m \in Asking :
                   stored[<<u, e, m>>] = "yes" => <<u, e>> \in memberFor
          BY DEF BetaIInv, AskedIsGranted, AccessIsRecorded
        <4>8. ASSUME NEW u \in Submissions \cup {NoSubmission}, NEW e \in TestDevices, NEW m \in Asking
              PROVE  /\ stored'[<<u, e, m>>] # "none" => u # NoSubmission /\ Granted(saved, u)
                     /\ stored'[<<u, e, m>>] = "yes" => <<u, e>> \in memberFor
          <5>1. CASE stored'[<<u, e, m>>] = stored[<<u, e, m>>]
            BY <4>7, <5>1
          <5>2. CASE u = s /\ e = d /\ stored'[<<u, e, m>>] = state
            BY <2>3, <4>3, <4>6, <5>2
          <5> QED
            BY <4>5, <5>1, <5>2
        <4> QED
          BY <1>0, <2>1, <4>4, <4>7, <4>8 DEF DeviceMoves
      <3> QED
        BY <1>11, <3>1, <3>2 DEF AskStatus
    <2>5. CASE Settles(t, d, "failed")
      <3>1. BooksMove /\ SyncMoves /\ incidents' \in 0 .. MaxIncidents
        BY <2>2, <2>5, SettlesMoves
      <3> QED
        BY <1>0, <2>1, <2>4, <3>1, BetaStep
    <2>6. CASE stored'[o] = "yes" /\ Settles(t, d, "active")
      <3>1. <<s, d>> \in memberFor
        BY <2>2, <2>3, <2>4, <2>6 DEF DeviceMoves, BetaOperation
      <3>2. BooksMove /\ SyncMoves /\ incidents' \in 0 .. MaxIncidents
        BY <2>2, <2>6, <3>1, SettlesMoves
      <3> QED
        BY <1>0, <2>1, <2>4, <3>2, BetaStep
    <2>7. CASE n < Attempts /\ Goes(t, d, Question(n + 1)) /\ Unwritten
      <3>1. n + 1 \in Asking
        BY <2>7, BetaAssumption DEF Asking, Checks
      <3>2. Question(n + 1) \in Steps
        BY <3>1 DEF Steps
      <3>3. SyncMoves
        BY <2>2, <2>7, <3>2, SyncGoes
      <3>4. book' = book /\ saved' = saved /\ incidents' = incidents
        BY <2>7 DEF Unwritten
      <3> QED
        BY <1>0, <2>1, <2>4, <3>3, <3>4, UnwrittenMoves, BetaStep
    <2> QED
      BY <1>11, <2>5, <2>6, <2>7 DEF AskStatus, NotVerified
  <1>12. ASSUME NEW t \in SyncTasks, NEW d \in TestDevices, NEW mark \in {"failed", "unsubscribed"},
                LeaveDevice(t, d, mark)
         PROVE  BetaIInv'
    <2> DEFINE s == sync[t].of
               c == WithRow(s, d, mark)
               w == [c EXCEPT ![s].status = "withdrawn"]
    <2>1. sync[t].at[d] = Leaving /\ UNCHANGED <<submission, stored, member, asked, memberFor, unsaved>>
      BY <1>12 DEF LeaveDevice, device
    <2>2. sync[t].at[d] # Done
      BY <2>1 DEF Leaving, Done
    <2>3. s \in Submissions /\ Granted(saved, s)
      <3>1. sync[t] # NoSync
        BY <2>2 DEF NoSync
      <3> QED
        BY <1>00, <3>1
    <2>4. SyncMoves
      <3>1. CASE Goes(t, d, Done)
        BY <2>2, <3>1, SyncGoes DEF Steps
      <3>2. CASE sync' = [sync EXCEPT ![t] = NoSync]
        <4>1. NoSync \in BetaTasks /\ NoSync.of = NoSubmission
          BY DEF NoSync, BetaTasks, Steps
        <4> QED
          BY <1>0, <3>2, <4>1 DEF SyncMoves, BetaIInv, AskedIsGranted
      <3> QED
        BY <1>12, <3>1, <3>2 DEF LeaveDevice
    <2>5. /\ book' \in {c, w} /\ saved' \in {saved, c, book'} /\ (saved' = c => book' \in {c, w})
          /\ (Incident \/ incidents' = incidents)
      BY <1>12 DEF LeaveDevice, Written, NotWritten
    <2>6. MovesOn(c) /\ c[s].status = book[s].status
      <3>1. mark \in RowStatus /\ mark # "active"
        BY DEF RowStatus
      <3> HIDE DEF s
      <3> QED
        BY <1>0, <2>3, <3>1, RowMovesOn
    <2>7. \A q \in Submissions : c[q].status = book[q].status
      <3> HIDE DEF s
      <3> QED
        BY <1>0, <2>3 DEF WithRow, Books
    <2> HIDE DEF c
    <2>8. book[s].status \in {"approved", "withdrawn"}
      BY <1>000, <2>3
    <2> HIDE DEF s
    <2> DEFINE r == [c[s] EXCEPT !.status = "withdrawn"]
    <2>9. r \in [status : BookStatus, rows : [TestDevices -> RowStatus]] /\ r.status = "withdrawn" /\ r.rows = c[s].rows
      BY <2>3, <2>6 DEF MovesOn, Books, BookStatus
    <2>10. w = [c EXCEPT ![s] = r]
      <3>1. c \in Books
        BY <2>6 DEF MovesOn
      <3> QED
        BY <2>3, <3>1 DEF Books
    <2> HIDE DEF r, w
    <2>11. w \in Books /\ w[s] = r /\ \A q \in Submissions \ {s} : w[q] = c[q]
      <3>1. c \in Books
        BY <2>6 DEF MovesOn
      <3>2. w \in Books
        BY <2>9, <2>10, <3>1 DEF Books
      <3>3. DOMAIN c = Submissions
        BY <3>1 DEF Books
      <3> QED
        BY <2>3, <2>10, <3>2, <3>3
    <2>12. MovesOn(w)
      <3>1. \A q \in Submissions : w[q].status \in CanBecome(book[q].status) /\ (book[q].status = "none" => w[q].status = "none")
        BY <2>6, <2>8, <2>9, <2>11 DEF MovesOn, CanBecome, BookStatus
      <3>2. \A q \in Submissions : w[q].rows = c[q].rows
        BY <2>9, <2>11
      <3> QED
        BY <2>6, <2>11, <3>1, <3>2 DEF MovesOn
    <2>13. BooksMove
      <3>1. MovesOn(book') /\ book' \in Books
        BY <2>5, <2>6, <2>12 DEF MovesOn
      <3>2. CASE saved' \in {saved, book'}
        BY <1>0, <3>1, <3>2, WrittenMoves
      <3>3. CASE saved' = c
        BY <2>6, <2>7, <3>1, <3>3 DEF BooksMove, MovesOn
      <3> QED
        BY <2>5, <3>2, <3>3
    <2>14. incidents' \in 0 .. MaxIncidents
      BY <1>0, <2>5, IncidentLemma
    <2> QED
      BY <1>0, <2>1, <2>4, <2>13, <2>14, DeviceStays, BetaStep
  (* Restarts and what happens on the devices.                             *)
  <1>13. CASE BetaRestart
    <2>1. /\ book' = saved /\ saved' = saved /\ UNCHANGED <<stored, member, asked, memberFor, unsaved>> /\ Incident
          /\ submission' = [p \in Submissions |-> IF submission[p] = "resolving" THEN "over" ELSE submission[p]]
          /\ sync' = [t \in SyncTasks |-> NoSync]
      BY <1>13 DEF BetaRestart, device
    <2>2. NoSync \in BetaTasks /\ NoSync.of = NoSubmission
      BY DEF NoSync, BetaTasks, Steps
    <2>3. incidents' \in 0 .. MaxIncidents
      BY <1>0, <2>1, IncidentLemma
    <2>4. BetaTypeOK'
      BY <1>0, <2>1, <2>2, <2>3 DEF BetaIInv, BetaTypeOK, Books, BookStatus, RowStatus, BetaTasks
    <2>5. \A s \in Submissions : saved[s].status # "none" => book[s].status # "none"
      BY DEF BetaIInv, BookIsAhead, CanBecome, BookStatus, Open
    <2>6. BookIsAhead' /\ CreatedIsOver' /\ OneIsSaved'
      BY <1>0, <2>1, <2>5 DEF BetaIInv, BookIsAhead, CanBecome, CreatedIsOver, OneIsSaved, Books
    <2>7. AskedIsGranted'
      BY <2>1, <2>2 DEF BetaIInv, AskedIsGranted
    <2>8. AccessIsRecorded'
      BY <2>1, <2>5 DEF BetaIInv, AccessIsRecorded
    <2> QED
      BY <2>4, <2>6, <2>7, <2>8 DEF BetaIInv
  <1>14. ASSUME NEW d \in TestDevices, JoinsBeta(d) \/ LeavesBeta(d) PROVE BetaIInv'
    <2>1. /\ UNCHANGED <<submission, book, saved, sync, stored, asked, unsaved>>
          /\ member' \subseteq TestDevices /\ memberFor \subseteq memberFor' /\ memberFor' \subseteq Submissions \X TestDevices
          /\ \A s \in Submissions, e \in member' : e \in member \/ (book[s].status # "none" => <<s, e>> \in memberFor')
          /\ (Incident \/ incidents' = incidents)
      BY <1>14 DEF JoinsBeta, LeavesBeta, BetaIInv, BetaTypeOK
    <2>2. incidents' \in 0 .. MaxIncidents
      BY <1>0, <2>1, IncidentLemma
    <2>3. BetaTypeOK'
      BY <2>1, <2>2 DEF BetaIInv, BetaTypeOK
    <2>4. BookIsAhead' /\ CreatedIsOver' /\ OneIsSaved' /\ AskedIsGranted'
      BY <2>1 DEF BetaIInv, BookIsAhead, CreatedIsOver, OneIsSaved, AskedIsGranted, Granted
    <2>5. AccessIsRecorded'
      BY <2>1 DEF BetaIInv, AccessIsRecorded
    <2> QED
      BY <2>3, <2>4, <2>5 DEF BetaIInv
  <1>15. ASSUME NEW o \in BetaOperations, StoredChanges(o) PROVE BetaIInv'
    <2>1. PICK s \in Submissions \cup {NoSubmission}, d \in TestDevices, n \in Asking : o = <<s, d, n>>
      BY DEF BetaOperations
    <2>2. stored[<<s, d, n>>] # "none" /\ UNCHANGED <<submission, book, saved, sync, member, asked, memberFor, unsaved>>
      BY <1>15, <2>1 DEF StoredChanges
    <2>3. s \in Submissions /\ Granted(saved, s)
      BY <2>2 DEF BetaIInv, AskedIsGranted
    <2>4. /\ stored' = [stored EXCEPT ![<<s, d, n>>] = Truth(d)] \/ stored' = [stored EXCEPT ![<<s, d, n>>] = "none"]
          /\ (Incident \/ incidents' = incidents)
      BY <1>15, <2>1 DEF StoredChanges
    <2>5. Truth(d) = "yes" => <<s, d>> \in memberFor
      BY <1>000, <2>3 DEF Truth, BetaIInv, AccessIsRecorded
    <2>6. PICK state \in {"none", "yes", "no"} :
            stored' = [stored EXCEPT ![<<s, d, n>>] = state] /\ (state = "yes" => <<s, d>> \in memberFor)
      BY <2>4, <2>5 DEF Truth
    <2>7. stored' \in [BetaOperations -> {"none", "requested", "failed", "yes", "no"}]
      BY <1>0, <2>6
    <2>8. \A u \in Submissions \cup {NoSubmission}, e \in TestDevices, m \in Asking :
            \/ stored'[<<u, e, m>>] = stored[<<u, e, m>>]
            \/ u = s /\ e = d /\ stored'[<<u, e, m>>] = state
      BY <1>0, <2>6 DEF BetaOperations
    <2>9. s # NoSubmission
      BY <2>3, BetaAssumption
    <2>10. DeviceMoves
      BY <1>0, <2>2, <2>3, <2>6, <2>7, <2>8, <2>9 DEF DeviceMoves, BetaIInv, AskedIsGranted, AccessIsRecorded
    <2>11. incidents' \in 0 .. MaxIncidents
      BY <1>0, <2>4, IncidentLemma
    <2> QED
      BY <1>0, <2>2, <2>10, <2>11, UnwrittenMoves, SyncStays, BetaStep
  <1>16. CASE UNCHANGED betaVars
    <2>1. UNCHANGED <<submission, book, saved, sync, stored, member, asked, memberFor, unsaved, incidents>>
      BY <1>16 DEF betaVars
    <2> QED
      BY <1>0, <2>1, UnwrittenMoves, SyncStays, DeviceStays, BetaStep
  <1> QED
    BY <1>2, <1>3, <1>4, <1>5, <1>6, <1>7, <1>8, <1>9, <1>10, <1>11, <1>12, <1>13, <1>14, <1>15, <1>16
    DEF BetaNext

(* What it says of the property.                                           *)
LEMMA BetaIsSound == BetaIInv => SubscriptionsAreSound
  <1> SUFFICES ASSUME BetaIInv PROVE SubscriptionsAreSound
    OBVIOUS
  <1>1. OneSubscriptionPerInvite
    <2> SUFFICES Cardinality({s \in Submissions \ unsaved : book[s].status \in Open}) <= 1
      BY DEF OneSubscriptionPerInvite
    <2>1. \A s \in Submissions \ unsaved : book[s].status \in Open => saved[s].status \in Open
      BY DEF BetaIInv, BookIsAhead, CanBecome, Open, BookStatus
    <2>2. \A s, u \in Submissions \ unsaved : book[s].status \in Open /\ book[u].status \in Open => s = u
      BY <2>1 DEF BetaIInv, OneIsSaved
    <2> DEFINE S == {s \in Submissions \ unsaved : book[s].status \in Open}
    <2>3. CASE S = {}
      BY <2>3, FS_EmptySet
    <2>4. CASE \E s \in S : TRUE
      <3>0. PICK s \in S : TRUE
        BY <2>4
      <3>1. S = {s}
        BY <2>2, <3>0
      <3>2. Cardinality(S) = 1
        BY <3>1, FS_Singleton
      <3> QED
        BY <3>2
    <2>5. S = {} \/ \E s \in S : TRUE
      OBVIOUS
    <2> QED
      BY <2>3, <2>4, <2>5
  <1>2. OnlyApprovedJoin
    BY DEF BetaIInv, AskedIsGranted, Granted, BookIsAhead, CanBecome, OnlyApprovedJoin
  <1>3. ActiveWasVerified
    BY DEF BetaIInv, AccessIsRecorded, ActiveWasVerified
  <1> QED
    BY <1>1, <1>2, <1>3 DEF SubscriptionsAreSound

----------------------------------------------------------------------------
(* The Apple Account.  The tasks that have joined the chain and have not   *)
(* left it stand in a line, each waiting for the promise of the one ahead, *)
(* and the last of them is the one the next will wait for.  The one at the *)
(* head alone is in the workspace.                                         *)

InLine(t) == task[t].stage \in {"waiting", "left", "working", "answered", "saved"}

(* place[t] is where t stands, in a line from head to end - 1.             *)
IsLine(place, head, end) ==
  /\ head <= end
  /\ \A t \in Tasks : InLine(t) => head <= place[t] /\ place[t] < end
  /\ \A t, u \in Tasks : InLine(t) /\ InLine(u) /\ place[t] = place[u] => t = u
  /\ \A t \in Tasks : InLine(t) /\ place[t] > head =>
       task[t].before \in Tasks /\ InLine(task[t].before) /\ place[task[t].before] = place[t] - 1
  /\ \A t \in Tasks : task[t].stage \in InWorkspace => place[t] = head
  /\ head < end => lastTask \in Tasks /\ InLine(lastTask) /\ place[lastTask] = end - 1

TasksStandInLine == \E place \in [Tasks -> Nat], head, end \in Nat : IsLine(place, head, end)

ReleasedAreGone == \A t \in released : task[t].stage = "over"

(* A sign-in that is raced is the one the status is about.                 *)
RacedIsRunning == \A s \in raced : signIn = Status("running", s)

AppleIInv ==
  AppleTypeOK /\ TasksStandInLine /\ ReleasedAreGone /\ RacedIsRunning /\ RunningIsReal

(* The initial state satisfies it.                                         *)
LEMMA AppleInitIInv == AppleInit => AppleIInv
  <1> SUFFICES ASSUME AppleInit PROVE AppleIInv
    OBVIOUS
  <1>1. \A t \in Tasks : task[t] = Unused /\ ~InLine(t) /\ task[t].stage \notin InWorkspace
    BY DEF AppleInit, Unused, InLine, InWorkspace
  <1>2. IsLine([t \in Tasks |-> 0], 0, 0)
    BY <1>1 DEF IsLine
  <1>3. TasksStandInLine
    <2>1. [t \in Tasks |-> 0] \in [Tasks -> Nat]
      OBVIOUS
    <2> QED
      BY <1>2, <2>1 DEF TasksStandInLine
  <1>4. AppleTypeOK
    <2>1. Unused \in Task
      BY DEF Unused, Task, TaskStages
    <2>2. EmptyVault \in Vault /\ \A a \in Accounts : SignedInVault(a) \in Vault
      BY DEF EmptyVault, SignedInVault, Vault
    <2>3. Status("idle", NoTask) \in SignInStatus
      BY DEF Status, SignInStatus, SignInStates
    <2> QED
      BY <2>1, <2>2, <2>3, AppleBoundsAssumption DEF AppleInit, AppleTypeOK
  <1> QED
    BY <1>1, <1>3, <1>4
    DEF AppleIInv, ReleasedAreGone, RacedIsRunning, RunningIsReal, AppleInit, Status

(* What it says of the session.                                            *)
LEMMA AppleIsSound == AppleIInv => AppleSessionIsSound
  <1> SUFFICES ASSUME AppleIInv PROVE AppleSessionIsSound
    OBVIOUS
  <1>1. PICK place \in [Tasks -> Nat], head \in Nat, end \in Nat : IsLine(place, head, end)
    BY DEF AppleIInv, TasksStandInLine
  <1>2. WorkspaceIsExclusive
    BY <1>1 DEF WorkspaceIsExclusive, IsLine, InLine, InWorkspace
  <1> QED
    BY <1>2 DEF AppleIInv, AppleSessionIsSound

----------------------------------------------------------------------------
(* How the line moves.                                                     *)

(* Nobody leaves or joins; the one whose turn it is may enter.             *)
LEMMA LineStays ==
  ASSUME TasksStandInLine, lastTask' = lastTask,
         \A t \in Tasks : InLine(t)' = InLine(t) /\ (InLine(t) => task'[t].before = task[t].before),
         \A t \in Tasks : task'[t].stage \in InWorkspace =>
            InLine(t) /\ (task[t].stage \in InWorkspace
                          \/ task[t].before \notin Tasks \/ ~InLine(task[t].before))
  PROVE  TasksStandInLine'
  <1>1. PICK place \in [Tasks -> Nat], head \in Nat, end \in Nat : IsLine(place, head, end)
    BY DEF TasksStandInLine
  <1>2. \A t \in Tasks : task'[t].stage \in InWorkspace => place[t] = head
    BY <1>1 DEF IsLine
  <1>3. IsLine(place, head, end)'
    BY <1>1, <1>2 DEF IsLine
  <1> QED
    BY <1>3 DEF TasksStandInLine

(* One joins behind the last.                                              *)
LEMMA LineGrows ==
  ASSUME TasksStandInLine, NEW s \in Tasks, ~InLine(s), lastTask' = s, InLine(s)',
         task'[s].before = lastTask, task'[s].stage \notin InWorkspace,
         \A t \in Tasks \ {s} : task'[t] = task[t]
  PROVE  TasksStandInLine'
  <1>1. PICK place \in [Tasks -> Nat], head \in Nat, end \in Nat : IsLine(place, head, end)
    BY DEF TasksStandInLine
  <1>2. PICK now \in [Tasks -> Nat] : now = [place EXCEPT ![s] = end]
    OBVIOUS
  <1>3. now[s] = end /\ \A t \in Tasks \ {s} : now[t] = place[t]
    BY <1>2
  <1>4. \A t \in Tasks \ {s} : InLine(t)' = InLine(t)
    BY DEF InLine
  <1>5. \A t \in Tasks : InLine(t) => t # s
    OBVIOUS
  <1>6. IsLine(now, head, end + 1)'
    <2>1. \A t \in Tasks : InLine(t)' => head <= now[t] /\ now[t] < end + 1
      BY <1>1, <1>3, <1>4 DEF IsLine
    <2>2. \A t, u \in Tasks : InLine(t)' /\ InLine(u)' /\ now[t] = now[u] => t = u
      BY <1>1, <1>3, <1>4 DEF IsLine
    <2>3. ASSUME NEW t \in Tasks, InLine(t)', now[t] > head
          PROVE  (task[t].before \in Tasks /\ InLine(task[t].before) /\ now[task[t].before] = now[t] - 1)'
      <3>1. CASE t = s
        BY <1>1, <1>3, <1>4, <1>5, <2>3, <3>1 DEF IsLine
      <3>2. CASE t # s
        BY <1>1, <1>3, <1>4, <1>5, <2>3, <3>2 DEF IsLine
      <3> QED
        BY <3>1, <3>2
    <2>4. \A t \in Tasks : task'[t].stage \in InWorkspace => now[t] = head
      BY <1>1, <1>3 DEF IsLine
    <2>5. head <= end + 1 /\ s \in Tasks /\ InLine(s)' /\ now[s] = (end + 1) - 1
      BY <1>1, <1>3 DEF IsLine
    <2> QED
      BY <2>1, <2>2, <2>3, <2>4, <2>5 DEF IsLine
  <1>7. end + 1 \in Nat
    OBVIOUS
  <1> QED
    BY <1>6, <1>7 DEF TasksStandInLine

(* The one at the head leaves: it is in the workspace, or has its turn.    *)
LEMMA LineShrinks ==
  ASSUME TasksStandInLine, NEW s \in Tasks, InLine(s), lastTask' = lastTask, ~InLine(s)',
         task'[s].stage \notin InWorkspace,
         task[s].stage \in InWorkspace \/ task[s].before \notin Tasks \/ ~InLine(task[s].before),
         \A t \in Tasks \ {s} : task'[t] = task[t]
  PROVE  TasksStandInLine'
  <1>1. PICK place \in [Tasks -> Nat], head \in Nat, end \in Nat : IsLine(place, head, end)
    BY DEF TasksStandInLine
  <1>2. place[s] = head /\ head < end
    BY <1>1 DEF IsLine
  <1>3. \A t \in Tasks \ {s} : InLine(t)' = InLine(t)
    BY DEF InLine
  <1>4. \A t \in Tasks \ {s} : InLine(t) => place[t] >= head + 1
    BY <1>1, <1>2 DEF IsLine
  <1>5. IsLine(place, head + 1, end)'
    <2>1. \A t \in Tasks : InLine(t)' => head + 1 <= place[t] /\ place[t] < end
      BY <1>1, <1>3, <1>4 DEF IsLine
    <2>2. \A t, u \in Tasks : InLine(t)' /\ InLine(u)' /\ place[t] = place[u] => t = u
      BY <1>1, <1>3 DEF IsLine
    <2>3. ASSUME NEW t \in Tasks, InLine(t)', place[t] > head + 1
          PROVE  (task[t].before \in Tasks /\ InLine(task[t].before) /\ place[task[t].before] = place[t] - 1)'
      <3>1. t # s /\ InLine(t) /\ task'[t] = task[t]
        BY <1>3, <2>3
      <3>2. task[t].before \in Tasks /\ InLine(task[t].before) /\ place[task[t].before] = place[t] - 1
        BY <1>1, <2>3, <3>1 DEF IsLine
      <3>3. task[t].before # s
        BY <1>2, <2>3, <3>2
      <3> QED
        BY <1>3, <3>1, <3>2, <3>3
    <2>4. \A t \in Tasks : task'[t].stage \notin InWorkspace
      <3> SUFFICES ASSUME NEW t \in Tasks, task'[t].stage \in InWorkspace PROVE FALSE
        OBVIOUS
      <3>1. t # s /\ task[t].stage \in InWorkspace
        OBVIOUS
      <3> QED
        BY <1>1, <1>2, <3>1 DEF IsLine, InLine, InWorkspace
    <2>5. head + 1 < end => lastTask \in Tasks /\ InLine(lastTask)' /\ place[lastTask] = end - 1
      BY <1>1, <1>2, <1>3 DEF IsLine
    <2> QED
      BY <1>2, <2>1, <2>2, <2>3, <2>4, <2>5 DEF IsLine
  <1>6. head + 1 \in Nat
    OBVIOUS
  <1> QED
    BY <1>5, <1>6 DEF TasksStandInLine

----------------------------------------------------------------------------
(* What decides the race of s leaves no race, if there was one.            *)
LEMMA SettleLemma ==
  ASSUME AppleTypeOK, RacedIsRunning, RunningIsReal, NEW s \in Tasks,
         NEW state \in {"succeeded", "failed", "verification_required"}, Settle(s, state)
  PROVE  /\ signIn' \in SignInStatus /\ signInRow' \in SignInStatus
         /\ raced' \subseteq SignIns /\ authFailures' \in 0..MaxAuthFailures
         /\ RacedIsRunning' /\ RunningIsReal'
         /\ signIn' # signIn => signIn = Status("running", s) /\ signIn'.op = s
  <1>1. CASE s \notin raced
    BY <1>1 DEF Settle, AppleTypeOK, RacedIsRunning, RunningIsReal
  <1>2. CASE s \in raced
    <2>0. /\ s \in SignIns /\ signIn = Status("running", s)
          /\ Status(state, s) \in SignInStatus /\ Status("failed", s) \in SignInStatus
      BY <1>2 DEF AppleTypeOK, RacedIsRunning, Status, SignInStatus, SignInStates
    <2>1. raced' = raced \ {s}
      BY <1>2 DEF Settle
    <2>2. raced' = {}
      <3>1. \A u \in raced : u = s
        BY <2>0 DEF RacedIsRunning, Status
      <3> QED
        BY <2>1, <3>1
    <2>3. signIn' \in {Status(state, s), Status("failed", s)}
      BY <1>2 DEF Settle, PersistSignIn, PersistSignInFails
    <2>4. signInRow' \in {Status(state, s), Status("failed", s), signInRow}
      BY <1>2 DEF Settle, PersistSignIn, PersistSignInFails
    <2>5. authFailures' \in 0..MaxAuthFailures
      BY <1>2, AppleBoundsAssumption DEF Settle, PersistSignIn, PersistSignInFails, AppleTypeOK
    <2>6. signIn'.state # "running" /\ signIn'.op = s
      BY <2>3 DEF Status
    <2> QED
      BY <2>0, <2>2, <2>3, <2>4, <2>5, <2>6 DEF AppleTypeOK, RacedIsRunning, RunningIsReal
  <1> QED
    BY <1>1, <1>2

(* A task that joins is one.                                               *)
LEMMA JoinedTask ==
  ASSUME AppleTypeOK, NEW t \in Tasks
  PROVE  /\ Joined(t) \in Task /\ Joined(t).stage = "waiting" /\ Joined(t).before = lastTask
         /\ Unused \in Task
  BY DEF AppleTypeOK, Joined, Unused, Task, TaskStages, Vault

(* Every step preserves it.                                                *)
LEMMA AppleNextIInv == AppleIInv /\ [AppleNext]_appleVars => AppleIInv'
  <1> SUFFICES ASSUME AppleIInv, [AppleNext]_appleVars PROVE AppleIInv'
    OBVIOUS
  <1>0. /\ AppleTypeOK /\ TasksStandInLine /\ ReleasedAreGone /\ RacedIsRunning /\ RunningIsReal
        /\ SignIns \subseteq Tasks /\ Downloads \subseteq Tasks /\ NoTask \notin Tasks
        /\ task \in [Tasks -> Task] /\ released \subseteq Tasks
    BY AppleNamesAssumption DEF AppleIInv, AppleTypeOK, Tasks
  <1>t. \A t \in Tasks : task[t].stage \in TaskStages /\ task[t] \in Task
    BY <1>0 DEF Task
  <1>m. \A t \in Tasks : MyTurn(t) => task[t].before \notin Tasks \/ ~InLine(task[t].before)
    BY <1>0 DEF MyTurn, ReleasedAreGone, InLine
  <1>w. \A t \in Tasks : task[t].stage \in InWorkspace => InLine(t)
    BY DEF InWorkspace, InLine
  <1>2. ASSUME NEW s \in SignIns, StartSignIn(s) PROVE AppleIInv'
    <2>0. /\ s \in Tasks /\ task[s].stage = "idle" /\ ~InLine(s) /\ raced = {} /\ s \notin released
          /\ UNCHANGED <<vault, released, authCrashes>>
      BY <1>0, <1>2 DEF StartSignIn, InLine, RacedIsRunning, Status, ReleasedAreGone
    <2>1. CASE /\ PersistSignIn(Status("running", s)) /\ raced' = raced \cup {s}
               /\ task' = [task EXCEPT ![s] = Joined(s)] /\ lastTask' = s
      <3>1. task'[s] = Joined(s) /\ \A t \in Tasks \ {s} : task'[t] = task[t]
        BY <1>0, <2>0, <2>1
      <3>2. TasksStandInLine'
        <4>1. InLine(s)' /\ task'[s].before = lastTask /\ task'[s].stage \notin InWorkspace
          BY <1>0, <2>0, <3>1, JoinedTask DEF InLine, InWorkspace
        <4> QED
          BY <1>0, <2>0, <2>1, <3>1, <4>1, LineGrows
      <3>3. AppleTypeOK'
        BY <1>0, <2>0, <2>1, JoinedTask
        DEF AppleTypeOK, PersistSignIn, Status, SignInStatus, SignInStates
      <3>4. ReleasedAreGone'
        BY <1>0, <2>0, <3>1 DEF ReleasedAreGone
      <3> QED
        BY <2>0, <2>1, <3>2, <3>3, <3>4
        DEF AppleIInv, PersistSignIn, RacedIsRunning, RunningIsReal, Status
    <2>2. CASE /\ PersistSignIn(Status("failed", s)) \/ PersistSignInFails(Status("running", s))
               /\ task' = [task EXCEPT ![s].stage = "over"] /\ UNCHANGED <<raced, lastTask>>
      <3>1. task'[s] = [task[s] EXCEPT !.stage = "over"] /\ \A t \in Tasks \ {s} : task'[t] = task[t]
        BY <1>0, <2>0, <2>2
      <3>2. TasksStandInLine'
        <4>1. \A t \in Tasks : InLine(t)' = InLine(t) /\ (InLine(t) => task'[t].before = task[t].before)
          BY <1>t, <2>0, <3>1 DEF InLine, Task
        <4>2. \A t \in Tasks : task'[t].stage \in InWorkspace => InLine(t) /\ task[t].stage \in InWorkspace
          BY <1>t, <1>w, <2>0, <3>1 DEF InWorkspace, Task
        <4> QED
          BY <1>0, <2>2, <4>1, <4>2, LineStays
      <3>3. AppleTypeOK'
        <4>1. task' \in [Tasks -> Task]
          BY <1>0, <1>t, <2>0, <2>2 DEF Task, TaskStages
        <4>2. /\ signIn' \in SignInStatus /\ signInRow' \in SignInStatus
              /\ authFailures' \in 0..MaxAuthFailures
          BY <1>0, <2>0, <2>2, AppleBoundsAssumption
          DEF AppleTypeOK, PersistSignIn, PersistSignInFails, Status, SignInStatus, SignInStates
        <4> QED
          BY <1>0, <2>0, <2>2, <4>1, <4>2 DEF AppleTypeOK
      <3>4. ReleasedAreGone'
        BY <1>0, <2>0, <3>1 DEF ReleasedAreGone
      <3>5. RunningIsReal'
        BY <1>0, <2>2 DEF PersistSignIn, PersistSignInFails, RunningIsReal, Status, AppleTypeOK
      <3> QED
        BY <2>0, <2>2, <3>2, <3>3, <3>4, <3>5 DEF AppleIInv, RacedIsRunning
    <2> QED
      BY <1>2, <2>1, <2>2 DEF StartSignIn
  <1>3. ASSUME NEW d \in Downloads, StartDownload(d) PROVE AppleIInv'
    <2>0. /\ d \in Tasks /\ ~InLine(d) /\ d \notin released /\ lastTask' = d
          /\ task'[d] = Joined(d) /\ \A t \in Tasks \ {d} : task'[t] = task[t]
      BY <1>0, <1>3 DEF StartDownload, InLine, ReleasedAreGone
    <2>1. TasksStandInLine'
      <3>1. InLine(d)' /\ task'[d].before = lastTask /\ task'[d].stage \notin InWorkspace
        BY <1>0, <2>0, JoinedTask DEF InLine, InWorkspace
      <3> QED
        BY <1>0, <2>0, <3>1, LineGrows
    <2>2. AppleTypeOK'
      BY <1>0, <1>3, <2>0, JoinedTask DEF AppleTypeOK, StartDownload
    <2>3. ReleasedAreGone'
      BY <1>0, <1>3, <2>0 DEF ReleasedAreGone, StartDownload
    <2> QED
      BY <1>0, <1>3, <2>1, <2>2, <2>3 DEF AppleIInv, StartDownload, RacedIsRunning, RunningIsReal
  <1>4. ASSUME NEW t \in Tasks, EnterWorkspace(t) PROVE AppleIInv'
    <2>0. /\ InLine(t) /\ task'[t].stage = "working" /\ task'[t].before = task[t].before
          /\ (\A u \in Tasks \ {t} : task'[u] = task[u]) /\ MyTurn(t)
          /\ task' \in [Tasks -> Task] /\ task[t].stage # "over"
      <3>1. vault.session \in Accounts \cup {NoAccount}
        BY <1>0 DEF AppleTypeOK, Vault
      <3>2. PICK r : r = [task[t] EXCEPT !.stage = "working", !.home = vault.session]
        OBVIOUS
      <3>3. r \in Task /\ r.stage = "working" /\ r.before = task[t].before
        BY <1>t, <3>1, <3>2 DEF Task, TaskStages
      <3>4. task' = [task EXCEPT ![t] = r]
        BY <1>0, <1>4, <3>2 DEF EnterWorkspace
      <3>5. task[t].stage = "waiting" /\ MyTurn(t)
        BY <1>4 DEF EnterWorkspace
      <3> QED
        BY <1>0, <3>3, <3>4, <3>5 DEF InLine
    <2>1. TasksStandInLine'
      <3>1. \A u \in Tasks : InLine(u)' = InLine(u) /\ (InLine(u) => task'[u].before = task[u].before)
        BY <1>t, <2>0 DEF InLine
      <3>2. \A u \in Tasks : task'[u].stage \in InWorkspace =>
              InLine(u) /\ (task[u].stage \in InWorkspace
                            \/ task[u].before \notin Tasks \/ ~InLine(task[u].before))
        BY <1>m, <1>w, <2>0
      <3>3. lastTask' = lastTask
        BY <1>4 DEF EnterWorkspace
      <3> QED
        BY <1>0, <3>1, <3>2, <3>3, LineStays
    <2>2. AppleTypeOK'
      BY <1>0, <1>4, <2>0 DEF AppleTypeOK, EnterWorkspace
    <2>3. ReleasedAreGone'
      BY <1>0, <1>4, <2>0 DEF ReleasedAreGone, EnterWorkspace
    <2> QED
      BY <1>0, <1>4, <2>1, <2>2, <2>3 DEF AppleIInv, EnterWorkspace, RacedIsRunning, RunningIsReal
  <1>5. ASSUME NEW t \in Tasks, task' = Aborted(t), lastTask' = lastTask, released' = released
        PROVE  task' \in [Tasks -> Task] /\ TasksStandInLine' /\ ReleasedAreGone'
    <2>0. /\ task'[t].stage = (IF task[t].stage = "waiting" THEN "left" ELSE task[t].stage)
          /\ task'[t].before = task[t].before
          /\ \A u \in Tasks \ {t} : task'[u] = task[u]
          /\ task' \in [Tasks -> Task]
      <3>1. PICK r : r = [task[t] EXCEPT !.aborted = TRUE,
                                        !.stage = IF task[t].stage = "waiting" THEN "left" ELSE task[t].stage]
        OBVIOUS
      <3>2. /\ r \in Task /\ r.before = task[t].before
            /\ r.stage = (IF task[t].stage = "waiting" THEN "left" ELSE task[t].stage)
        BY <1>t, <3>1 DEF Task, TaskStages
      <3>3. task' = [task EXCEPT ![t] = r]
        BY <1>0, <1>5, <3>1 DEF Aborted
      <3> QED
        BY <1>0, <3>2, <3>3
    <2>1. TasksStandInLine'
      <3>1. \A u \in Tasks : InLine(u)' = InLine(u) /\ (InLine(u) => task'[u].before = task[u].before)
        BY <1>t, <2>0 DEF InLine
      <3>2. \A u \in Tasks : task'[u].stage \in InWorkspace => InLine(u) /\ task[u].stage \in InWorkspace
        BY <1>w, <2>0 DEF InWorkspace
      <3> QED
        BY <1>0, <1>5, <3>1, <3>2, LineStays
    <2>2. ReleasedAreGone'
      BY <1>0, <1>5, <2>0 DEF ReleasedAreGone
    <2> QED
      BY <2>0, <2>1, <2>2
  <1>6. ASSUME NEW s \in SignIns, TimeOut(s) PROVE AppleIInv'
    <2>0. task' = Aborted(s) /\ lastTask' = lastTask /\ released' = released /\ s \in Tasks
          /\ Settle(s, "failed") /\ UNCHANGED <<vault, authCrashes>>
      BY <1>0, <1>6 DEF TimeOut
    <2>1. task' \in [Tasks -> Task] /\ TasksStandInLine' /\ ReleasedAreGone'
      BY <1>5, <2>0
    <2>2. /\ signIn' \in SignInStatus /\ signInRow' \in SignInStatus
          /\ raced' \subseteq SignIns /\ authFailures' \in 0..MaxAuthFailures
          /\ RacedIsRunning' /\ RunningIsReal'
      BY <1>0, <2>0, SettleLemma
    <2> QED
      BY <1>0, <2>0, <2>1, <2>2 DEF AppleIInv, AppleTypeOK
  <1>7. ASSUME NEW d \in Downloads, AbortDownload(d) PROVE AppleIInv'
    <2>0. task' = Aborted(d) /\ lastTask' = lastTask /\ released' = released /\ d \in Tasks
      BY <1>0, <1>7 DEF AbortDownload
    <2>1. task' \in [Tasks -> Task] /\ TasksStandInLine' /\ ReleasedAreGone'
      BY <1>5, <2>0
    <2> QED
      BY <1>0, <1>7, <2>1 DEF AppleIInv, AppleTypeOK, AbortDownload, RacedIsRunning, RunningIsReal
  <1>8. ASSUME NEW t \in Tasks, NEW mark \in {"answered", "saved"},
               task[t].stage \in InWorkspace, task'[t].stage = mark, task'[t].before = task[t].before,
               \A u \in Tasks \ {t} : task'[u] = task[u], lastTask' = lastTask, released' = released
        PROVE  TasksStandInLine' /\ ReleasedAreGone'
    <2>1. \A u \in Tasks : InLine(u)' = InLine(u) /\ (InLine(u) => task'[u].before = task[u].before)
      BY <1>w, <1>8 DEF InLine
    <2>2. \A u \in Tasks : task'[u].stage \in InWorkspace => InLine(u) /\ task[u].stage \in InWorkspace
      BY <1>w, <1>8
    <2>3. TasksStandInLine'
      BY <1>0, <1>8, <2>1, <2>2, LineStays
    <2>4. t \notin released
      BY <1>0, <1>8 DEF ReleasedAreGone, InWorkspace
    <2> QED
      BY <1>0, <1>8, <2>3, <2>4 DEF ReleasedAreGone
  <1>9. ASSUME NEW t \in Tasks, SignInAnswers(t) PROVE AppleIInv'
    <2>1. PICK result \in Answers(t) :
            task' = [task EXCEPT ![t].stage = "answered", ![t].outcome = result,
                                 ![t].home = IF result = "ok" THEN task[t].asks ELSE @]
      BY <1>9 DEF SignInAnswers
    <2>2. result \in {"none", "ok", "refused", "failed"}
      BY DEF Answers
    <2>3. /\ task' \in [Tasks -> Task] /\ task'[t].stage = "answered" /\ task'[t].before = task[t].before
          /\ \A u \in Tasks \ {t} : task'[u] = task[u]
      <3>1. PICK r : r = [task[t] EXCEPT !.stage = "answered", !.outcome = result,
                                        !.home = IF result = "ok" THEN task[t].asks ELSE task[t].home]
        OBVIOUS
      <3>2. r \in Task /\ r.before = task[t].before /\ r.stage = "answered"
        BY <1>t, <2>2, <3>1 DEF Task, TaskStages
      <3>3. task' = [task EXCEPT ![t] = r]
        BY <1>0, <2>1, <3>1
      <3> QED
        BY <1>0, <3>2, <3>3
    <2>4. TasksStandInLine' /\ ReleasedAreGone'
      BY <1>8, <1>9, <2>3 DEF SignInAnswers, InWorkspace
    <2> QED
      BY <1>0, <1>9, <2>3, <2>4 DEF AppleIInv, AppleTypeOK, SignInAnswers, RacedIsRunning, RunningIsReal
  <1>10. ASSUME NEW t \in Tasks, SaveSession(t) PROVE AppleIInv'
    <2>1. /\ task' \in [Tasks -> Task] /\ task'[t].stage = "saved" /\ task'[t].before = task[t].before
          /\ \A u \in Tasks \ {t} : task'[u] = task[u]
      BY <1>0, <1>t, <1>10 DEF SaveSession, Task, TaskStages
    <2>2. TasksStandInLine' /\ ReleasedAreGone'
      BY <1>8, <1>10, <2>1 DEF SaveSession, InWorkspace
    <2>3. vault' \in Vault
      BY <1>0, <1>t, <1>10 DEF SaveSession, Vault, AppleTypeOK, Task
    <2> QED
      BY <1>0, <1>10, <2>1, <2>2, <2>3 DEF AppleIInv, AppleTypeOK, SaveSession, RacedIsRunning, RunningIsReal
  <1>11. ASSUME NEW t \in Tasks, InLine(t), task[t].stage \in InWorkspace \/ MyTurn(t),
                task' = [task EXCEPT ![t].stage = "over"],
                released' = released \cup {t}, lastTask' = lastTask
         PROVE  task' \in [Tasks -> Task] /\ released' \subseteq Tasks /\ TasksStandInLine' /\ ReleasedAreGone'
    <2>1. /\ task'[t] = [task[t] EXCEPT !.stage = "over"] /\ task' \in [Tasks -> Task]
          /\ task'[t].stage = "over"
          /\ \A u \in Tasks \ {t} : task'[u] = task[u]
      BY <1>0, <1>t, <1>11 DEF Task, TaskStages
    <2>2. TasksStandInLine'
      <3>1. ~InLine(t)' /\ task'[t].stage \notin InWorkspace
        BY <2>1 DEF InLine, InWorkspace
      <3>2. task[t].stage \in InWorkspace \/ task[t].before \notin Tasks \/ ~InLine(task[t].before)
        BY <1>m, <1>11
      <3> QED
        BY <1>0, <1>11, <2>1, <3>1, <3>2, LineShrinks
    <2> QED
      BY <1>0, <1>11, <2>1, <2>2 DEF ReleasedAreGone
  <1>12. ASSUME NEW t \in Tasks, PassOn(t) PROVE AppleIInv'
    <2>1. task' \in [Tasks -> Task] /\ released' \subseteq Tasks /\ TasksStandInLine' /\ ReleasedAreGone'
      BY <1>11, <1>12 DEF PassOn, InLine
    <2> QED
      BY <1>0, <1>12, <2>1 DEF AppleIInv, AppleTypeOK, PassOn, RacedIsRunning, RunningIsReal
  <1>13. ASSUME NEW t \in Tasks, LeaveWorkspace(t) PROVE AppleIInv'
    <2>1. task' \in [Tasks -> Task] /\ released' \subseteq Tasks /\ TasksStandInLine' /\ ReleasedAreGone'
      BY <1>11, <1>13 DEF LeaveWorkspace, InLine, InWorkspace
    <2>2. PICK state \in {"succeeded", "failed", "verification_required"} : Settle(t, state)
      BY <1>13 DEF LeaveWorkspace
    <2>3. /\ signIn' \in SignInStatus /\ signInRow' \in SignInStatus
          /\ raced' \subseteq SignIns /\ authFailures' \in 0..MaxAuthFailures
          /\ RacedIsRunning' /\ RunningIsReal'
      BY <1>0, <2>2, SettleLemma
    <2>4. vault' \in Vault
      BY <1>0, <1>13 DEF LeaveWorkspace, Marked, Vault, AppleTypeOK
    <2> QED
      BY <1>0, <1>13, <2>1, <2>3, <2>4 DEF AppleIInv, AppleTypeOK, LeaveWorkspace
  <1>14. ASSUME NEW changed \in Vault, ChangeAccount(changed) PROVE AppleIInv'
    <2>1. raced = {} /\ UNCHANGED <<task, lastTask, released, raced, authCrashes>> /\ vault' \in Vault
      BY <1>0, <1>14 DEF ChangeAccount, RacedIsRunning, Status
    <2>2. TasksStandInLine'
      BY <1>0, <1>w, <2>1, LineStays DEF InLine
    <2>3. /\ signIn' = Status("idle", NoTask) /\ signInRow' \in {signInRow, Status("idle", NoTask)}
          /\ authFailures' \in 0..MaxAuthFailures
      BY <1>0, <1>14, AppleBoundsAssumption DEF ChangeAccount, PersistSignIn, PersistSignInFails, AppleTypeOK
    <2>4. Status("idle", NoTask) \in SignInStatus /\ Status("idle", NoTask).state # "running"
      BY DEF Status, SignInStatus, SignInStates
    <2>5. AppleTypeOK'
      BY <1>0, <2>1, <2>3, <2>4 DEF AppleTypeOK
    <2> QED
      BY <1>0, <2>1, <2>2, <2>3, <2>4, <2>5 DEF AppleIInv, RacedIsRunning, RunningIsReal, ReleasedAreGone
  <1>15. ASSUME NEW a \in Accounts, SaveAccount(a) PROVE AppleIInv'
    <2>1. (IF vault.account = a THEN vault ELSE [EmptyVault EXCEPT !.account = a]) \in Vault
      BY <1>0 DEF AppleTypeOK, EmptyVault, Vault
    <2> QED
      BY <1>14, <1>15, <2>1 DEF SaveAccount
  <1>16. CASE RemoveAccount
    <2>1. EmptyVault \in Vault
      BY DEF EmptyVault, Vault
    <2> QED
      BY <1>14, <1>16, <2>1 DEF RemoveAccount
  <1>17. CASE AppleCrash
    <2>1. \A t \in Tasks : task'[t] \in {Unused, [Unused EXCEPT !.stage = "over"]}
      BY <1>17 DEF AppleCrash
    <2>2. \A t \in Tasks : ~InLine(t)' /\ task'[t].stage \notin InWorkspace
      BY <2>1 DEF Unused, InLine, InWorkspace
    <2>3. TasksStandInLine'
      <3>1. IsLine([t \in Tasks |-> 0], 0, 0)'
        BY <2>2 DEF IsLine
      <3>2. [t \in Tasks |-> 0] \in [Tasks -> Nat]
        OBVIOUS
      <3> QED
        BY <3>1, <3>2 DEF TasksStandInLine
    <2>4. task' \in [Tasks -> Task]
      <3>1. Unused \in Task /\ [Unused EXCEPT !.stage = "over"] \in Task
        BY DEF Unused, Task, TaskStages
      <3> QED
        BY <1>17, <3>1 DEF AppleCrash
    <2>5. Restored \in SignInStatus /\ Restored.state # "running"
      BY <1>0 DEF Restored, AppleTypeOK, SignInStatus, SignInStates
    <2>6. AppleTypeOK'
      BY <1>0, <1>17, <2>4, <2>5, AppleBoundsAssumption DEF AppleTypeOK, AppleCrash
    <2> QED
      BY <1>17, <2>3, <2>5, <2>6 DEF AppleIInv, AppleCrash, ReleasedAreGone, RacedIsRunning, RunningIsReal
  <1>18. CASE UNCHANGED appleVars
    <2>1. TasksStandInLine'
      BY <1>0, <1>w, <1>18, LineStays DEF appleVars, InLine
    <2> QED
      BY <1>0, <1>18, <2>1
      DEF appleVars, AppleIInv, AppleTypeOK, ReleasedAreGone, RacedIsRunning, RunningIsReal
  <1> QED
    BY <1>0, <1>2, <1>3, <1>4, <1>6, <1>7, <1>9, <1>10, <1>12, <1>13, <1>15, <1>16, <1>17, <1>18
    DEF AppleNext, AppleProgress

(* The result of an operation replaces that operation's `running'.         *)
LEMMA AppleStepIsCurrent ==
  ASSUME AppleIInv, [AppleNext]_appleVars
  PROVE  signIn'.state \in {"succeeded", "failed", "verification_required"}
           => \/ signIn' = signIn
              \/ signIn.state = "running" /\ signIn.op = signIn'.op
              \/ signIn.state # "running" /\ task[signIn'.op].stage = "idle"
              \/ authCrashes' # authCrashes
  <1>0. /\ AppleTypeOK /\ RacedIsRunning /\ RunningIsReal /\ SignIns \subseteq Tasks
        /\ authCrashes \in Nat
    BY AppleBoundsAssumption DEF AppleIInv, AppleTypeOK, Tasks
  <1>1. ASSUME NEW t \in Tasks, NEW state \in {"succeeded", "failed", "verification_required"},
               Settle(t, state)
        PROVE  signIn' = signIn \/ (signIn.state = "running" /\ signIn.op = signIn'.op)
    <2>1. signIn' # signIn => signIn = Status("running", t) /\ signIn'.op = t
      BY <1>0, <1>1, SettleLemma
    <2> QED
      BY <2>1 DEF Status
  <1>2. ASSUME NEW t \in Tasks, LeaveWorkspace(t)
        PROVE  \E state \in {"succeeded", "failed", "verification_required"} : Settle(t, state)
    BY <1>2 DEF LeaveWorkspace
  <1>3. ASSUME NEW s \in SignIns, TimeOut(s) PROVE Settle(s, "failed")
    BY <1>3 DEF TimeOut
  <1>4. ASSUME NEW s \in SignIns, StartSignIn(s)
        PROVE  signIn.state # "running" /\ task[signIn'.op].stage = "idle"
    BY <1>4 DEF StartSignIn, PersistSignIn, PersistSignInFails, Status
  <1>5. ASSUME NEW changed, ChangeAccount(changed) PROVE signIn'.state = "idle"
    BY <1>5 DEF ChangeAccount, PersistSignIn, PersistSignInFails, Status
  <1>6. CASE AppleCrash
    BY <1>0, <1>6 DEF AppleCrash
  <1>7. CASE UNCHANGED appleVars
    BY <1>7 DEF appleVars
  <1>8. ASSUME NEW t \in Tasks,
               EnterWorkspace(t) \/ PassOn(t) \/ SignInAnswers(t) \/ SaveSession(t)
               \/ StartDownload(t) \/ AbortDownload(t)
        PROVE  signIn' = signIn
    BY <1>8 DEF EnterWorkspace, PassOn, SignInAnswers, SaveSession, StartDownload, AbortDownload
  <1>9. CASE \E t \in Tasks : LeaveWorkspace(t)
    BY <1>1, <1>2, <1>9
  <1>10. CASE \E s \in SignIns : TimeOut(s)
    BY <1>0, <1>1, <1>3, <1>10
  <1>11. CASE (\E a \in Accounts : SaveAccount(a)) \/ RemoveAccount
    BY <1>5, <1>11 DEF SaveAccount, RemoveAccount
  <1> QED
    BY <1>4, <1>6, <1>7, <1>8, <1>9, <1>10, <1>11 DEF AppleNext, AppleProgress, Tasks

----------------------------------------------------------------------------
(* The merge of two accounts.  A store that the linking has passed belongs *)
(* to the target, and with no write lost the disk has what memory has; so  *)
(* all that was promised has moved before the sign-in method does.         *)

(* What the linking has passed, when it is at k.                           *)
Passed(k) ==
  CASE k = "billing"  -> {"users"}
    [] k = "quota"    -> {"users", "billing"}
    [] k = "jobs"     -> {"users", "billing", "quota", "jobs"}
    [] k = "policies" -> {"users", "billing", "quota", "jobs"}
    [] k = "profile"  -> Stores
    [] OTHER          -> {}

Announced == Stores \ (IF listed THEN {} ELSE {"users"})

(* Only memory is ahead of the disk: with the jobs that are about to be    *)
(* written, or after a failure.                                            *)
KeptAsHeld ==
  mergeFaults.failures = 0 =>
    /\ profileKept = profile
    /\ \A k \in Stores :
         ownersKept[k] = owners[k] \/ (k = "jobs" /\ linking = [at |-> "jobs", moved |-> TRUE])

LinkingIsOfSource ==
  /\ linking.at = "idle" => linking = NotLinking
  /\ linking # NotLinking => profile = Source

PassedBelongs ==
  \A k \in Announced : k \in Passed(linking.at) => owners[k] = {Target}

MergedBelongs ==
  profile = Target /\ (mergeFaults.failures = 0 \/ mergeFaults.crashes = 0) =>
    \A k \in Announced \ strayed : owners[k] = {Target}

TargetOwns == \A k \in Stores : Target \in owners[k] /\ Target \in ownersKept[k]

MergeIInv ==
  MergeTypeOK /\ TargetOwns /\ KeptAsHeld /\ LinkingIsOfSource /\ PassedBelongs /\ MergedBelongs

(* The initial state satisfies it.                                         *)
LEMMA MergeInitIInv == MergeInit => MergeIInv
  BY MergeBoundsAssumption
  DEF MergeInit, MergeIInv, MergeTypeOK, TargetOwns, KeptAsHeld, LinkingIsOfSource, PassedBelongs,
      MergedBelongs, Announced, Passed, Stores, NotLinking, Source, Target

(* What it says of the property.                                           *)
LEMMA MergeCompletes == MergeIInv => MergeIsComplete
  <1> SUFFICES ASSUME MergeIInv PROVE MergeIsComplete
    OBVIOUS
  <1>1. Promised = Announced \ strayed
    BY DEF Promised, Announced
  <1>2. profile = Target => linking = NotLinking
    BY DEF MergeIInv, LinkingIsOfSource, Source, Target
  <1> QED
    BY <1>1, <1>2 DEF MergeIInv, MergeIsComplete, KeptAsHeld, MergedBelongs, Belongs, NotLinking, Announced

(* The types, step by step.                                                *)
LEMMA MergeTypes == MergeTypeOK /\ [MergeNext]_mergeVars => MergeTypeOK'
  <1> SUFFICES ASSUME MergeTypeOK, [MergeNext]_mergeVars PROVE MergeTypeOK'
    OBVIOUS
  <1> USE MergeBoundsAssumption
  <1>0. \A k \in Stores : Merged(owners[k]) \in SUBSET {Source, Target}
                          /\ Merged(ownersKept[k]) \in SUBSET {Source, Target}
    BY DEF MergeTypeOK, Merged
  <1>1. /\ MayFail => Failing \in [failures : 0..MergeFailures, crashes : 0..MergeCrashes,
                                   requests : 0..MaxWaiting]
        /\ \A k \in Stores \cup {"idle", "profile"} :
             StepTo(Following(k)) \in [at : Stores \cup {"idle", "profile"}, moved : BOOLEAN]
        /\ NotLinking \in [at : Stores \cup {"idle", "profile"}, moved : BOOLEAN]
    BY DEF MergeTypeOK, MayFail, Failing, StepTo, Following, NotLinking, Stores
  <1>2. CASE Confirm
    BY <1>1, <1>2 DEF Confirm, MergeTypeOK
  <1>3. ASSUME NEW k \in {"users", "billing"}, MergeMemory(k) PROVE MergeTypeOK'
    BY <1>0, <1>1, <1>3 DEF MergeMemory, MergeTypeOK, Stores
  <1>4. CASE MergeQuota
    <2>1. [at |-> Following("quota"), moved |-> Source \in owners["jobs"]]
            \in [at : Stores \cup {"idle", "profile"}, moved : BOOLEAN]
      BY DEF Following, Stores
    <2>2. owners' \in [Stores -> SUBSET {Source, Target}] /\ ownersKept' \in [Stores -> SUBSET {Source, Target}]
      <3>1. "jobs" \in Stores /\ "quota" \in Stores
        BY DEF Stores
      <3> QED
        BY <1>0, <1>4, <3>1 DEF MergeQuota, MergeTypeOK
    <2>3. linking' \in [at : Stores \cup {"idle", "profile"}, moved : BOOLEAN]
      BY <1>1, <1>4, <2>1 DEF MergeQuota
    <2>4. mergeFaults' \in [failures : 0..MergeFailures, crashes : 0..MergeCrashes,
                            requests : 0..MaxWaiting]
      BY <1>1, <1>4 DEF MergeQuota, MergeTypeOK
    <2> QED
      BY <1>4, <2>2, <2>3, <2>4 DEF MergeQuota, MergeTypeOK
  <1>5. CASE WriteJobs
    BY <1>1, <1>5 DEF WriteJobs, MergeTypeOK, Stores
  <1>6. CASE MergePolicies
    BY <1>0, <1>1, <1>6 DEF MergePolicies, MergeTypeOK, Stores
  <1>7. CASE MergeProfile
    BY <1>1, <1>7 DEF MergeProfile, MergeTypeOK
  <1>8. CASE SignIn
    BY <1>8 DEF SignIn, MergeTypeOK
  <1>9. CASE PaymentEvent
    BY <1>9 DEF PaymentEvent, Writes, MetadataUserId, MergeTypeOK, Stores
  <1>10. ASSUME NEW k \in Buffered, WriteStore(k) PROVE MergeTypeOK'
    BY <1>10 DEF WriteStore, Writes, MergeTypeOK, Stores, Buffered
  <1>11. ASSUME NEW k \in {"billing", "jobs"}, BeginWaiting(k) PROVE MergeTypeOK'
    BY <1>11 DEF BeginWaiting, MergeTypeOK
  <1>12. ASSUME NEW k \in {"billing", "jobs"}, EndWaiting(k) PROVE MergeTypeOK'
    BY <1>12 DEF EndWaiting, Writes, MergeTypeOK, Stores
  <1>13. CASE MergeCrash
    BY <1>1, <1>13 DEF MergeCrash, MergeTypeOK
  <1>14. CASE UNCHANGED mergeVars
    BY <1>14 DEF mergeVars, MergeTypeOK
  <1> QED
    BY <1>2, <1>3, <1>4, <1>5, <1>6, <1>7, <1>8, <1>9, <1>10, <1>11, <1>12, <1>13, <1>14 DEF MergeNext

(* Every step preserves it.                                                *)
LEMMA MergeNextIInv == MergeIInv /\ [MergeNext]_mergeVars => MergeIInv'
  <1> SUFFICES ASSUME MergeIInv, [MergeNext]_mergeVars PROVE MergeIInv'
    OBVIOUS
  <1>0. /\ MergeTypeOK /\ TargetOwns /\ KeptAsHeld /\ LinkingIsOfSource /\ PassedBelongs /\ MergedBelongs
        /\ mergeFaults.failures \in Nat /\ mergeFaults.crashes \in Nat
        /\ owners \in [Stores -> SUBSET {Source, Target}]
        /\ ownersKept \in [Stores -> SUBSET {Source, Target}]
        /\ \A k \in Stores : Merged(owners[k]) = {Target} /\ Merged(ownersKept[k]) = {Target}
    BY DEF MergeIInv, MergeTypeOK, TargetOwns, Merged
  <1>1. MergeTypeOK'
    BY <1>0, MergeTypes
  <1>2. CASE Confirm
    <2>1. linking' = StepTo("users") /\ profile = Source /\ Passed("users") = {} /\ linking = NotLinking
      BY <1>2 DEF Confirm, Following, Passed
    <2> QED
      BY <1>0, <1>1, <1>2, <2>1
      DEF Confirm, MergeIInv, TargetOwns, KeptAsHeld, LinkingIsOfSource, PassedBelongs, MergedBelongs,
          StepTo, NotLinking, Announced, Source, Target
  <1>3. ASSUME NEW k \in {"users", "billing"}, MergeMemory(k) PROVE MergeIInv'
    <2>0. k \in Stores /\ profile = Source /\ linking.at = k /\ profile' = profile /\ listed' = listed
          /\ Announced' = Announced /\ strayed' = strayed
      BY <1>0, <1>3 DEF MergeMemory, LinkingIsOfSource, NotLinking, Announced, Stores
    <2>1. /\ owners'[k] \in {owners[k], {Target}}
          /\ k \in Announced => owners'[k] = {Target}
          /\ \A x \in Stores \ {k} : owners'[x] = owners[x]
      BY <1>0, <1>3, <2>0 DEF MergeMemory, Announced, TargetOwns, Source, Target
    <2>2. TargetOwns'
      <3>1. \A x \in Stores : ownersKept'[x] \in {ownersKept[x], owners'[x]}
        BY <1>0, <1>3, <2>0 DEF MergeMemory
      <3> QED
        BY <1>0, <2>1, <3>1 DEF TargetOwns
    <2>3. linking' = NotLinking \/ (linking' = StepTo(Following(k)) /\ mergeFaults' = mergeFaults)
      BY <1>3 DEF MergeMemory
    <2>4. LinkingIsOfSource'
      BY <2>0, <2>3 DEF LinkingIsOfSource, StepTo, NotLinking, Following
    <2>5. PassedBelongs'
      <3>1. Passed("idle") = {} /\ Passed(Following(k)) = Passed(k) \cup {k}
        BY DEF Passed, Following
      <3>2. Passed(linking'.at) \subseteq Passed(k) \cup {k}
        BY <2>3, <3>1 DEF NotLinking, StepTo
      <3> QED
        BY <1>0, <2>0, <2>1, <3>2 DEF PassedBelongs, Announced
    <2>6. KeptAsHeld'
      <3> SUFFICES ASSUME mergeFaults'.failures = 0
                   PROVE  profileKept' = profile' /\ \A x \in Stores : ownersKept'[x] = owners'[x]
        BY DEF KeptAsHeld
      <3>1. mergeFaults' = mergeFaults
        BY <1>0, <1>3 DEF MergeMemory, Failing, MergeTypeOK
      <3>2. profileKept = profile /\ \A x \in Stores : ownersKept[x] = owners[x]
        BY <1>0, <2>0, <3>1 DEF KeptAsHeld
      <3> QED
        BY <1>0, <1>3, <2>0, <3>1, <3>2 DEF MergeMemory, Failing, MergeTypeOK
    <2>7. MergedBelongs'
      BY <2>0 DEF MergedBelongs, Source, Target
    <2> QED
      BY <1>1, <2>2, <2>4, <2>5, <2>6, <2>7 DEF MergeIInv
  <1>4. CASE MergeQuota
    <2>0. /\ "jobs" \in Stores /\ "quota" \in Stores /\ profile = Source /\ linking.at = "quota"
          /\ profile' = profile /\ profileKept' = profileKept /\ Announced' = Announced /\ strayed' = strayed
      BY <1>0, <1>4 DEF MergeQuota, LinkingIsOfSource, NotLinking, Announced, Stores
    <2>1. /\ owners'["jobs"] = {Target} /\ owners'["quota"] \in {owners["quota"], {Target}}
          /\ \A k \in Stores \ {"jobs", "quota"} : owners'[k] = owners[k]
      BY <1>0, <1>4, <2>0 DEF MergeQuota
    <2>2. TargetOwns'
      <3>1. \A k \in Stores : ownersKept'[k] \in {ownersKept[k], {Target}}
        BY <1>0, <1>4, <2>0 DEF MergeQuota
      <3> QED
        BY <1>0, <2>1, <3>1 DEF TargetOwns
    <2>3. \/ linking' = NotLinking /\ mergeFaults'.failures # 0
          \/ /\ linking' = [at |-> "jobs", moved |-> Source \in owners["jobs"]]
             /\ mergeFaults' = mergeFaults /\ owners'["quota"] = {Target}
             /\ ownersKept' = [ownersKept EXCEPT !["quota"] = Merged(@)]
      BY <1>0, <1>4, <2>0 DEF MergeQuota, Following, Failing, MergeTypeOK
    <2>4. LinkingIsOfSource'
      BY <2>0, <2>3 DEF LinkingIsOfSource, NotLinking
    <2>5. PassedBelongs'
      BY <1>0, <2>0, <2>1, <2>3 DEF PassedBelongs, Announced, Passed, NotLinking
    <2>6. KeptAsHeld'
      <3> SUFFICES ASSUME mergeFaults'.failures = 0 PROVE KeptAsHeld'
        BY DEF KeptAsHeld
      <3>1. /\ linking' = [at |-> "jobs", moved |-> Source \in owners["jobs"]]
            /\ mergeFaults' = mergeFaults /\ owners'["quota"] = {Target}
            /\ ownersKept' = [ownersKept EXCEPT !["quota"] = Merged(@)]
        BY <2>3
      <3>2. profileKept = profile /\ \A k \in Stores : ownersKept[k] = owners[k]
        BY <1>0, <2>0, <3>1 DEF KeptAsHeld
      <3>3. ownersKept'["quota"] = {Target} /\ \A k \in Stores \ {"quota"} : ownersKept'[k] = ownersKept[k]
        BY <1>0, <2>0, <3>1, <3>2
      <3>4. Source \notin owners["jobs"] => owners["jobs"] = {Target}
        BY <1>0, <2>0 DEF TargetOwns
      <3> QED
        BY <2>0, <2>1, <3>1, <3>2, <3>3, <3>4 DEF KeptAsHeld
    <2>7. MergedBelongs'
      BY <2>0 DEF MergedBelongs, Source, Target
    <2> QED
      BY <1>1, <2>2, <2>4, <2>5, <2>6, <2>7 DEF MergeIInv
  <1>5. CASE WriteJobs
    <2>0. /\ profile = Source /\ linking.at = "jobs" /\ profile' = profile /\ profileKept' = profileKept
          /\ Announced' = Announced /\ strayed' = strayed /\ owners' = owners /\ "jobs" \in Stores
      BY <1>0, <1>5 DEF WriteJobs, LinkingIsOfSource, NotLinking, Announced, Stores
    <2>1. \/ linking' = NotLinking /\ mergeFaults'.failures # 0
          \/ /\ linking' = StepTo("policies") /\ mergeFaults' = mergeFaults
             /\ ownersKept' = IF linking.moved THEN [ownersKept EXCEPT !["jobs"] = owners["jobs"]]
                              ELSE ownersKept
      BY <1>0, <1>5 DEF WriteJobs, Following, Failing, MergeTypeOK
    <2>2. LinkingIsOfSource'
      BY <2>0, <2>1 DEF LinkingIsOfSource, NotLinking, StepTo
    <2>3. PassedBelongs'
      BY <1>0, <2>0, <2>1 DEF PassedBelongs, Passed, NotLinking, StepTo
    <2>4. KeptAsHeld'
      BY <1>0, <2>0, <2>1 DEF KeptAsHeld
    <2>5. MergedBelongs'
      BY <2>0 DEF MergedBelongs, Source, Target
    <2>6. TargetOwns'
      <3>1. \A k \in Stores : ownersKept'[k] \in {ownersKept[k], owners[k]}
        BY <1>0, <1>5, <2>0 DEF WriteJobs
      <3> QED
        BY <1>0, <2>0, <3>1 DEF TargetOwns
    <2> QED
      BY <1>1, <2>2, <2>3, <2>4, <2>5, <2>6 DEF MergeIInv
  <1>6. CASE MergePolicies
    <2>0. /\ profile = Source /\ linking.at = "policies" /\ profile' = profile /\ profileKept' = profileKept
          /\ Announced' = Announced /\ strayed' = strayed /\ "policies" \in Stores
      BY <1>0, <1>6 DEF MergePolicies, LinkingIsOfSource, NotLinking, Announced, Stores
    <2>1. \/ /\ linking' = NotLinking /\ mergeFaults'.failures # 0
             /\ owners' = owners /\ ownersKept' = ownersKept
          \/ /\ linking' = StepTo("profile") /\ mergeFaults' = mergeFaults
             /\ owners'["policies"] = {Target} /\ ownersKept'["policies"] = Merged(ownersKept["policies"])
             /\ \A k \in Stores \ {"policies"} : owners'[k] = owners[k] /\ ownersKept'[k] = ownersKept[k]
      BY <1>0, <1>6, <2>0 DEF MergePolicies, Following, Failing, MergeTypeOK
    <2>2. LinkingIsOfSource'
      BY <2>0, <2>1 DEF LinkingIsOfSource, NotLinking, StepTo
    <2>3. PassedBelongs'
      BY <1>0, <2>0, <2>1 DEF PassedBelongs, Passed, NotLinking, StepTo, Announced, Stores
    <2>4. KeptAsHeld'
      <3> SUFFICES ASSUME mergeFaults'.failures = 0 PROVE KeptAsHeld'
        BY DEF KeptAsHeld
      <3>1. profileKept = profile /\ \A k \in Stores : ownersKept[k] = owners[k]
        BY <1>0, <2>0, <2>1 DEF KeptAsHeld
      <3> QED
        BY <1>0, <2>0, <2>1, <3>1 DEF KeptAsHeld
    <2>5. MergedBelongs'
      BY <2>0 DEF MergedBelongs, Source, Target
    <2>6. TargetOwns'
      BY <1>0, <2>0, <2>1 DEF TargetOwns
    <2> QED
      BY <1>1, <2>2, <2>3, <2>4, <2>5, <2>6 DEF MergeIInv
  <1>7. CASE MergeProfile
    <2>0. /\ profile = Source /\ linking.at = "profile" /\ profile' = Target /\ linking' = NotLinking
          /\ Announced' = Announced /\ strayed' = strayed /\ owners' = owners /\ ownersKept' = ownersKept
          /\ mergeFaults'.failures = 0 => profileKept' = Target /\ mergeFaults' = mergeFaults
      BY <1>0, <1>7 DEF MergeProfile, LinkingIsOfSource, NotLinking, Announced, StepTo, Following, Failing, MergeTypeOK
    <2>1. \A k \in Announced : owners[k] = {Target}
      BY <1>0, <2>0 DEF PassedBelongs, Passed, Announced
    <2> QED
      BY <1>0, <1>1, <2>0, <2>1
      DEF MergeIInv, TargetOwns, KeptAsHeld, LinkingIsOfSource, PassedBelongs, MergedBelongs, NotLinking, Passed
  <1>8. CASE SignIn
    <2>1. mergeFaults.failures = 0 => profileKept = Target
      BY <1>0, <1>8 DEF SignIn, KeptAsHeld
    <2> QED
      BY <1>0, <1>1, <1>8, <2>1
      DEF SignIn, MergeIInv, TargetOwns, KeptAsHeld, LinkingIsOfSource, PassedBelongs, MergedBelongs, Source, Target,
          Announced
  <1>9. CASE PaymentEvent
    <2>0. /\ "billing" \in Stores /\ linking = NotLinking /\ linking' = linking /\ profile' = profile
          /\ profileKept' = profileKept /\ Announced' = Announced /\ strayed' = strayed
          /\ mergeFaults' = mergeFaults
      BY <1>9 DEF PaymentEvent, Announced, Stores
    <2>1. /\ owners'["billing"] = owners["billing"] \cup {profile} /\ ownersKept'["billing"] = owners'["billing"]
          /\ \A k \in Stores \ {"billing"} : owners'[k] = owners[k] /\ ownersKept'[k] = ownersKept[k]
      BY <1>0, <1>9, <2>0 DEF PaymentEvent, Writes, MetadataUserId
    <2> QED
      BY <1>0, <1>1, <2>0, <2>1
      DEF MergeIInv, TargetOwns, KeptAsHeld, LinkingIsOfSource, PassedBelongs, MergedBelongs, NotLinking, Passed,
          Announced
  <1>10. ASSUME NEW k \in Buffered, WriteStore(k) PROVE MergeIInv'
    <2>0. /\ k \in Stores /\ linking = NotLinking /\ linking' = linking /\ profile' = profile
          /\ profileKept' = profileKept /\ Announced' = Announced /\ strayed' = strayed
          /\ mergeFaults' = mergeFaults
      BY <1>10 DEF WriteStore, Announced, Stores, Buffered
    <2>1. /\ owners' = owners /\ ownersKept'[k] = owners[k]
          /\ \A x \in Stores \ {k} : ownersKept'[x] = ownersKept[x]
      BY <1>0, <1>10, <2>0 DEF WriteStore, Writes
    <2> QED
      BY <1>0, <1>1, <2>0, <2>1
      DEF MergeIInv, TargetOwns, KeptAsHeld, LinkingIsOfSource, PassedBelongs, MergedBelongs
  <1>11. ASSUME NEW k \in {"billing", "jobs"}, BeginWaiting(k) PROVE MergeIInv'
    <2>1. mergeFaults'.failures = mergeFaults.failures /\ mergeFaults'.crashes = mergeFaults.crashes
      BY <1>0, <1>11 DEF BeginWaiting, MergeTypeOK
    <2> QED
      BY <1>0, <1>1, <1>11, <2>1
      DEF BeginWaiting, MergeIInv, TargetOwns, KeptAsHeld, LinkingIsOfSource, PassedBelongs, MergedBelongs, Announced
  <1>12. ASSUME NEW k \in {"billing", "jobs"}, EndWaiting(k) PROVE MergeIInv'
    <2>0. /\ k \in Stores /\ linking = NotLinking /\ linking' = linking /\ profile' = profile
          /\ profileKept' = profileKept /\ Announced' = Announced /\ mergeFaults' = mergeFaults
          /\ strayed \subseteq strayed' /\ (profile = Target => k \in strayed')
      BY <1>12 DEF EndWaiting, Announced, Stores
    <2>1. /\ owners'[k] = owners[k] \cup {Source} /\ ownersKept'[k] = owners'[k]
          /\ \A x \in Stores \ {k} : owners'[x] = owners[x] /\ ownersKept'[x] = ownersKept[x]
      BY <1>0, <1>12, <2>0 DEF EndWaiting, Writes
    <2> QED
      BY <1>0, <1>1, <2>0, <2>1
      DEF MergeIInv, TargetOwns, KeptAsHeld, LinkingIsOfSource, PassedBelongs, MergedBelongs, NotLinking, Passed,
          Announced
  <1>13. CASE MergeCrash
    <2>0. /\ linking' = NotLinking /\ profileKept' = profileKept /\ Announced' = Announced /\ strayed' = strayed
          /\ owners' = ownersKept /\ ownersKept' = ownersKept
          /\ mergeFaults'.failures = mergeFaults.failures /\ mergeFaults'.crashes # 0
      BY <1>0, <1>13 DEF MergeCrash, Announced, MergeTypeOK
    <2>1. TargetOwns'
      BY <1>1, <1>0, <2>0 DEF TargetOwns
    <2>2. mergeFaults.failures = 0 => profile' = profile /\ profileKept = profile
      BY <1>0, <1>13 DEF MergeCrash, KeptAsHeld, MergeTypeOK, Source, Target
    <2>3. mergeFaults.failures = 0 /\ profile = Target => \A k \in Stores : ownersKept[k] = owners[k]
      BY <1>0 DEF KeptAsHeld, LinkingIsOfSource, NotLinking, Source, Target
    <2>4. MergedBelongs'
      BY <1>0, <2>0, <2>2, <2>3 DEF MergedBelongs, Announced
    <2>5. KeptAsHeld' /\ LinkingIsOfSource' /\ PassedBelongs'
      BY <2>0, <2>2 DEF KeptAsHeld, LinkingIsOfSource, PassedBelongs, NotLinking, Passed
    <2> QED
      BY <1>1, <2>1, <2>4, <2>5 DEF MergeIInv
  <1>14. CASE UNCHANGED mergeVars
    BY <1>0, <1>1, <1>14
    DEF mergeVars, MergeIInv, TargetOwns, KeptAsHeld, LinkingIsOfSource, PassedBelongs, MergedBelongs, Announced
  <1> QED
    BY <1>2, <1>3, <1>4, <1>5, <1>6, <1>7, <1>8, <1>9, <1>10, <1>11, <1>12, <1>13, <1>14 DEF MergeNext

----------------------------------------------------------------------------
(* Requests, triggers and checkouts count once in every behaviour of the   *)
(* server.                                                                 *)
THEOREM RequestsOnce == MCSpec => []RequestsCountOnce
  <1>1. MCInit => AskIInv /\ TriggerIInv /\ CheckoutIInv
    BY AskInitIInv, TriggerInitIInv, CheckoutInitIInv DEF MCInit
  <1>2. [MCNext]_<<part, come, firstVars, otherVars>>
          => [AskNext]_askVars /\ [TriggerNext]_triggerVars /\ [CheckoutNext]_checkoutVars
    BY DEF MCNext, firstVars, otherVars, AccountMoves, SessionMoves, InboxMoves, RequestMoves,
           TriggerMoves, CheckoutMoves, InstallMoves, BetaMoves, BackupMoves, MergeMoves,
           QuotaMoves, DeploymentMoves
  <1>3. AskIInv /\ TriggerIInv => IdempotencyHolds /\ TriggersAreExact
    BY AskHolds, TriggerIsExact
  <1>4. CheckoutIInv => CheckoutIsSound
    BY DEF CheckoutIInv, CheckoutIsSound
  <1>5. IdempotencyHolds /\ TriggersAreExact /\ CheckoutIsSound => RequestsCountOnce
    BY DEF RequestsCountOnce
  <1> QED
    BY <1>1, <1>2, <1>3, <1>4, <1>5, AskNextIInv, TriggerNextIInv, CheckoutNextIInv, PTL DEF MCSpec

(* No operation is handed to an app-installation service twice, whatever   *)
(* crashes, closes, shuts down or is swept.                                *)
THEOREM OperationsStartOnce == MCSpec => []StartedOnce
  <1>1. MCInit => InstallIInv
    BY InstallInitIInv DEF MCInit
  <1>2. [MCNext]_<<part, come, firstVars, otherVars>> => [InstallNext]_installVars
    BY DEF MCNext, firstVars, otherVars, AccountMoves, SessionMoves, InboxMoves, RequestMoves,
           TriggerMoves, CheckoutMoves, InstallMoves, BetaMoves, BackupMoves, MergeMoves,
           QuotaMoves, DeploymentMoves
  <1> QED
    BY <1>1, <1>2, InstallNextIInv, InstallsStartOnce, PTL DEF MCSpec

(* No operation is started twice, and an App Store attempt waits for an    *)
(* install of its own, whatever bridge deaths, sweeps of files and         *)
(* shutdowns come between.  Excepted is the attempt that repeats one a     *)
(* shutdown has cut off.                                                   *)
THEOREM InstallsAlwaysSound == MCSpec => []InstallsAreSound
  <1>1. MCInit => InstallIInv /\ StoreIInv
    BY InstallInitIInv DEF MCInit
  <1>2. [MCNext]_<<part, come, firstVars, otherVars>> => [InstallNext]_installVars
    BY DEF MCNext, firstVars, otherVars, AccountMoves, SessionMoves, InboxMoves, RequestMoves,
           TriggerMoves, CheckoutMoves, InstallMoves, BetaMoves, BackupMoves, MergeMoves,
           QuotaMoves, DeploymentMoves
  <1>3. InstallIInv /\ StoreIInv /\ [InstallNext]_installVars => StoreIInv'
    BY InstallNextStore
  <1> QED
    BY <1>1, <1>2, <1>3, InstallNextIInv, InstallsCount, PTL DEF MCSpec

(* Of the submissions of an invite one becomes its subscription, no device *)
(* is asked to join without a manager's approval, and a device is shown as *)
(* active only if it has had access since the subscription began.          *)
THEOREM SubscriptionsAlwaysSound == MCSpec => []SubscriptionsAreSound
  <1>1. MCInit => BetaIInv
    BY BetaInitIInv DEF MCInit
  <1>2. [MCNext]_<<part, come, firstVars, otherVars>> => [BetaNext]_betaVars
    BY DEF MCNext, firstVars, otherVars, AccountMoves, SessionMoves, InboxMoves, RequestMoves,
           TriggerMoves, CheckoutMoves, InstallMoves, BetaMoves, BackupMoves, MergeMoves,
           QuotaMoves, DeploymentMoves
  <1> QED
    BY <1>1, <1>2, BetaNextIInv, BetaIsSound, PTL DEF MCSpec

(* The session of the Apple Account is used by one task at a time, and the *)
(* account that two have become has all that was promised.                 *)
THEOREM AccountsAlwaysSound == MCSpec => []AccountsAreSound
  <1>1. MCInit => AppleIInv /\ MergeIInv
    BY AppleInitIInv, MergeInitIInv DEF MCInit
  <1>2. [MCNext]_<<part, come, firstVars, otherVars>>
          => [AppleNext]_appleVars /\ [MergeNext]_mergeVars
    BY DEF MCNext, firstVars, otherVars, AccountMoves, SessionMoves, InboxMoves, RequestMoves,
           TriggerMoves, CheckoutMoves, InstallMoves, BetaMoves, BackupMoves, MergeMoves,
           QuotaMoves, DeploymentMoves
  <1>3. AppleIInv /\ MergeIInv => AccountsAreSound
    BY AppleIsSound, MergeCompletes DEF AccountsAreSound
  <1> QED
    BY <1>1, <1>2, <1>3, AppleNextIInv, MergeNextIInv, PTL DEF MCSpec

(* No result of a sign-in replaces anything but that sign-in's `running'.  *)
THEOREM ResultsAlwaysCurrent == MCSpec => ResultsAreCurrent
  <1>1. MCInit => AppleIInv
    BY AppleInitIInv DEF MCInit
  <1>2. [MCNext]_<<part, come, firstVars, otherVars>> => [AppleNext]_appleVars
    BY DEF MCNext, firstVars, otherVars, AccountMoves, SessionMoves, InboxMoves, RequestMoves,
           TriggerMoves, CheckoutMoves, InstallMoves, BetaMoves, BackupMoves, MergeMoves,
           QuotaMoves, DeploymentMoves
  <1>3. AppleIInv /\ [AppleNext]_appleVars
          => [signIn'.state \in {"succeeded", "failed", "verification_required"}
                => \/ signIn' = signIn
                   \/ signIn.state = "running" /\ signIn.op = signIn'.op
                   \/ signIn.state # "running" /\ task[signIn'.op].stage = "idle"
                   \/ authCrashes' # authCrashes]_appleVars
    BY AppleStepIsCurrent
  <1> QED
    BY <1>1, <1>2, <1>3, AppleNextIInv, PTL DEF MCSpec, ResultsAreCurrent
=============================================================================
