------------------------- MODULE ServerStoreProofs -------------------------
(***************************************************************************)
(* What TLC checks of what the server keeps (MCServer), for any bounds:    *)
(* webhook events, sessions, backups, the ledger of the allowance and the  *)
(* database; and that the state of every part has its type.                *)
(***************************************************************************)
EXTENDS ServerProofs, WellFoundedInduction

----------------------------------------------------------------------------
(* Webhook events, for any events and handlers: an event has one handler   *)
(* at a time, a processed record has been processed and is processed again *)
(* only by the replay of an invoice.                                       *)
(*                                                                         *)
(* The claims are in TypeOK: claimed is exactly the set of events with a   *)
(* handler at work, so claimWebhook refuses what is being worked on.       *)

IInv == TypeOK /\ OneHandlerPerEvent /\ ProcessedIsApplied /\ ProcessedOnce

LEMMA InitIInv == Init => IInv
  BY NoneAssumption, BoundsAssumption
  DEF Init, IInv, TypeOK, OneHandlerPerEvent, ProcessedIsApplied, ProcessedOnce, WorkingOn,
      Working, By, Statuses

(* A handler that takes up an unclaimed event is its only one.             *)
LEMMA TakeUp ==
  ASSUME TypeOK, OneHandlerPerEvent, NEW h \in Handlers, NEW e \in Events, NEW by \in By,
         doing[h] = "idle", e \notin claimed,
         doing' = [doing EXCEPT ![h] = by], on' = [on EXCEPT ![h] = e],
         claimed' = claimed \cup {e}
  PROVE  /\ doing' \in [Handlers -> By \cup {"idle", "over"}]
         /\ on' \in [Handlers -> Events \cup {None}]
         /\ \A g \in Handlers : Working(g)' => on'[g] \in Events
         /\ claimed' = {f \in Events : WorkingOn(f)' # {}}
         /\ \A f \in Events : WorkingOn(f)' = IF f = e THEN {h} ELSE WorkingOn(f)
         /\ OneHandlerPerEvent'
<1>1. doing' \in [Handlers -> By \cup {"idle", "over"}] /\ on' \in [Handlers -> Events \cup {None}]
  BY DEF TypeOK
<1>2. \A g \in Handlers : Working(g)' = (g = h \/ Working(g))
  BY DEF Working, TypeOK, By
<1>3. WorkingOn(e) = {} /\ ~Working(h)
  BY DEF TypeOK, Working, By
<1>4. \A f \in Events : WorkingOn(f)' = IF f = e THEN {h} ELSE WorkingOn(f)
  BY <1>2, <1>3 DEF WorkingOn, TypeOK
<1>5. \A g \in Handlers : Working(g)' => on'[g] \in Events
  BY <1>2 DEF TypeOK
<1>6. claimed' = {f \in Events : WorkingOn(f)' # {}}
  BY <1>4 DEF TypeOK
<1>7. OneHandlerPerEvent'
  BY <1>4 DEF OneHandlerPerEvent
<1> QED BY <1>1, <1>4, <1>5, <1>6, <1>7

(* A handler that is over leaves its event without one.                    *)
LEMMA GiveUp ==
  ASSUME TypeOK, OneHandlerPerEvent, NEW h \in Handlers, Working(h),
         doing' = [doing EXCEPT ![h] = "over"], on' = on, claimed' = claimed \ {on[h]}
  PROVE  /\ on[h] \in Events
         /\ doing' \in [Handlers -> By \cup {"idle", "over"}]
         /\ \A g \in Handlers : Working(g)' => on'[g] \in Events
         /\ claimed' = {f \in Events : WorkingOn(f)' # {}}
         /\ \A f \in Events : WorkingOn(f)' = IF f = on[h] THEN {} ELSE WorkingOn(f)
         /\ OneHandlerPerEvent'
<1>1. on[h] \in Events /\ doing' \in [Handlers -> By \cup {"idle", "over"}]
  BY DEF TypeOK
<1>2. \A g \in Handlers : Working(g)' = (g # h /\ Working(g))
  BY DEF Working, TypeOK, By
<1>3. WorkingOn(on[h]) = {h}
  BY <1>1 DEF OneHandlerPerEvent, WorkingOn
<1>4. \A f \in Events : WorkingOn(f)' = IF f = on[h] THEN {} ELSE WorkingOn(f)
  BY <1>2, <1>3 DEF WorkingOn
<1>5. claimed' = {f \in Events : WorkingOn(f)' # {}}
  BY <1>4 DEF TypeOK
<1>6. OneHandlerPerEvent'
  BY <1>4 DEF OneHandlerPerEvent
<1> QED BY <1>1, <1>2, <1>4, <1>5, <1>6 DEF TypeOK

LEMMA DeliverIInv ==
  ASSUME IInv, NEW h \in Handlers, NEW e \in Events, Deliver(h, e)
  PROVE  IInv'
<1>1. /\ doing[h] = "idle" /\ e \notin claimed /\ row[e] # "processed"
      /\ row' = Received(e)
      /\ claimed' = claimed \cup {e}
      /\ doing' = [doing EXCEPT ![h] = "delivery"]
      /\ on' = [on EXCEPT ![h] = e]
      /\ UNCHANGED <<applied, acked, crashes, failures>>
  BY DEF Deliver, MayClaim, Settled
<1>2. TypeOK /\ OneHandlerPerEvent /\ ProcessedIsApplied /\ ProcessedOnce
  BY DEF IInv
<1>3. "delivery" \in By
  BY DEF By
<1>4. /\ row' \in [Events -> Statuses]
      /\ \A f \in Events : row'[f] = "processed" => row[f] = "processed" /\ f # e
  BY <1>1, <1>2 DEF Received, TypeOK, Statuses
<1>5. TypeOK'
  BY <1>1, <1>2, <1>3, <1>4, TakeUp DEF TypeOK
<1>6. OneHandlerPerEvent'
  BY <1>1, <1>2, <1>3, TakeUp
<1>7. ProcessedIsApplied'
  BY <1>1, <1>2, <1>4 DEF ProcessedIsApplied
<1>8. \A f \in Events : WorkingOn(f)' = IF f = e THEN {h} ELSE WorkingOn(f)
  BY <1>1, <1>2, <1>3, TakeUp
<1>9. ProcessedOnce'
  BY <1>1, <1>2, <1>4, <1>8 DEF ProcessedOnce, WorkingOn, TypeOK, Working, By
<1> QED BY <1>5, <1>6, <1>7, <1>9 DEF IInv

LEMMA ReplayIInv ==
  ASSUME IInv, NEW h \in Handlers, NEW e \in Events, Replay(h, e)
  PROVE  IInv'
<1>1. /\ doing[h] = "idle" /\ e \notin claimed /\ (row[e] = "processed" => e \in Invoices)
      /\ claimed' = claimed \cup {e}
      /\ doing' = [doing EXCEPT ![h] = "replay"]
      /\ on' = [on EXCEPT ![h] = e]
      /\ UNCHANGED <<row, applied, acked, crashes, failures>>
  BY DEF Replay, MayClaim
<1>2. TypeOK /\ OneHandlerPerEvent /\ ProcessedIsApplied /\ ProcessedOnce
  BY DEF IInv
<1>3. "replay" \in By
  BY DEF By
<1>4. TypeOK'
  BY <1>1, <1>2, <1>3, TakeUp DEF TypeOK
<1>5. OneHandlerPerEvent'
  BY <1>1, <1>2, <1>3, TakeUp
<1>6. ProcessedIsApplied'
  BY <1>1, <1>2 DEF ProcessedIsApplied
<1>7. \A f \in Events : WorkingOn(f)' = IF f = e THEN {h} ELSE WorkingOn(f)
  BY <1>1, <1>2, <1>3, TakeUp
<1>8. ProcessedOnce'
  BY <1>1, <1>2, <1>7 DEF ProcessedOnce, WorkingOn, TypeOK, Working, By
<1> QED BY <1>4, <1>5, <1>6, <1>8 DEF IInv

(* What both ends of a handler have in common.                             *)
LEMMA EndHandlerIInv ==
  ASSUME IInv, NEW h \in Handlers, Working(h), NEW marked \in {"processed", "failed"},
         EndHandler(h, marked), applied' \in {applied, applied \cup {on[h]}},
         marked = "processed" => on[h] \in applied'
  PROVE  IInv'
<1>1. /\ claimed' = claimed \ {on[h]}
      /\ doing' = [doing EXCEPT ![h] = "over"]
      /\ UNCHANGED <<on, crashes>>
  BY DEF EndHandler, Released
<1>2. TypeOK /\ OneHandlerPerEvent /\ ProcessedIsApplied /\ ProcessedOnce
  BY DEF IInv
<1>3. on[h] \in Events
  BY <1>1, <1>2, GiveUp
<1>4. \/ row' = [row EXCEPT ![on[h]] = marked] /\ UNCHANGED failures
      \/ UNCHANGED row /\ failures < MaxSaveFailures /\ failures' = failures + 1
  BY DEF EndHandler
<1>5. /\ row' \in [Events -> Statuses]
      /\ failures' \in 0..MaxSaveFailures
      /\ \A f \in Events : row'[f] = "processed"
           => row[f] = "processed" \/ (f = on[h] /\ marked = "processed")
  BY <1>2, <1>3, <1>4, BoundsAssumption DEF TypeOK, Statuses
<1>6. acked' \subseteq Events /\ applied' \subseteq Events
  BY <1>2, <1>3 DEF EndHandler, Answered, TypeOK
<1>7. TypeOK'
  BY <1>1, <1>2, <1>5, <1>6, GiveUp DEF TypeOK
<1>8. OneHandlerPerEvent'
  BY <1>1, <1>2, GiveUp
<1>9. ProcessedIsApplied'
  BY <1>2, <1>5 DEF ProcessedIsApplied
<1>10. \A f \in Events : WorkingOn(f)' = IF f = on[h] THEN {} ELSE WorkingOn(f)
  BY <1>1, <1>2, GiveUp
<1>11. ProcessedOnce'
  BY <1>1, <1>2, <1>5, <1>10 DEF ProcessedOnce, WorkingOn, TypeOK, Working, By
<1> QED BY <1>7, <1>8, <1>9, <1>11 DEF IInv

LEMMA CrashIInv == ASSUME IInv, Crash PROVE IInv'
<1>1. \A h \in Handlers : ~Working(h)'
  BY DEF Crash, Working, By
<1>2. \A e \in Events : WorkingOn(e)' = {}
  BY <1>1 DEF WorkingOn
<1>3. TypeOK'
  BY <1>1, <1>2, BoundsAssumption DEF IInv, TypeOK, Crash, Working
<1>4. OneHandlerPerEvent' /\ ProcessedOnce'
  BY <1>2 DEF OneHandlerPerEvent, ProcessedOnce
<1>5. ProcessedIsApplied'
  BY DEF IInv, ProcessedIsApplied, Crash
<1> QED BY <1>3, <1>4, <1>5 DEF IInv

LEMMA QuarantineIInv == ASSUME IInv, NEW e \in Events, Quarantine(e) PROVE IInv'
<1>1. row' = [row EXCEPT ![e] = "quarantined"] /\ UNCHANGED <<doing, on, claimed, applied, acked,
        crashes, failures>>
  BY DEF Quarantine
<1>2. \A h \in Handlers : Working(h)' = Working(h)
  BY <1>1 DEF Working
<1>3. \A f \in Events : WorkingOn(f)' = WorkingOn(f)
  BY <1>1, <1>2 DEF WorkingOn
<1>4. TypeOK'
  BY <1>1, <1>2, <1>3 DEF IInv, TypeOK, Statuses
<1>5. OneHandlerPerEvent' /\ ProcessedOnce' /\ ProcessedIsApplied'
  BY <1>1, <1>3 DEF IInv, OneHandlerPerEvent, ProcessedOnce, ProcessedIsApplied, TypeOK
<1> QED BY <1>4, <1>5 DEF IInv

LEMMA DuplicateIInv ==
  ASSUME IInv, NEW h \in Handlers, NEW e \in Events, DeliverDuplicate(h, e)
  PROVE  IInv'
<1>1. /\ doing[h] = "idle" /\ doing' = [doing EXCEPT ![h] = "over"]
      /\ UNCHANGED <<row, on, claimed, applied, crashes, failures>>
      /\ acked' \in {acked, acked \cup {e}}
  BY DEF DeliverDuplicate, Answered
<1>2. \A g \in Handlers : Working(g)' = Working(g)
  BY <1>1 DEF Working, By, IInv, TypeOK
<1>3. \A f \in Events : WorkingOn(f)' = WorkingOn(f)
  BY <1>1, <1>2 DEF WorkingOn
<1>4. TypeOK'
  BY <1>1, <1>2, <1>3 DEF IInv, TypeOK
<1>5. OneHandlerPerEvent' /\ ProcessedIsApplied'
  BY <1>1, <1>3 DEF IInv, OneHandlerPerEvent, ProcessedIsApplied
<1>6. ProcessedOnce'
  BY <1>1, <1>3 DEF IInv, ProcessedOnce, WorkingOn, Working, By, TypeOK
<1> QED BY <1>4, <1>5, <1>6 DEF IInv

LEMMA NextIInv == IInv /\ [Next]_vars => IInv'
<1> SUFFICES ASSUME IInv, [Next]_vars PROVE IInv'
  OBVIOUS
<1>1. ASSUME NEW h \in Handlers, Succeed(h) PROVE IInv'
  <2>1. on[h] \in Events
    BY <1>1 DEF Succeed, IInv, TypeOK
  <2> QED BY <1>1, <2>1, EndHandlerIInv DEF Succeed
<1>2. ASSUME NEW h \in Handlers, Fail(h) PROVE IInv'
  BY <1>2, EndHandlerIInv DEF Fail
<1>3. CASE UNCHANGED vars
  BY <1>3 DEF vars, IInv, TypeOK, OneHandlerPerEvent, ProcessedIsApplied, ProcessedOnce,
              WorkingOn, Working
<1> QED
  BY <1>1, <1>2, <1>3, DeliverIInv, ReplayIInv, DuplicateIInv, QuarantineIInv, CrashIInv DEF Next

(* webhookInbox.ts, routes/billing.ts: the invariant of claims and records. *)
THEOREM Invariance == Spec => []IInv
<1> QED BY InitIInv, NextIInv, PTL DEF Spec

(* An event is processed by one handler at a time.                         *)
THEOREM Exclusion == Spec => []OneHandlerPerEvent
<1>1. IInv => OneHandlerPerEvent
  BY DEF IInv
<1> QED BY <1>1, Invariance, PTL

(* One handler works on an event; a record marked processed has been       *)
(* processed, and it is worked on again only by the replay of an invoice.  *)
THEOREM ProcessedRecords == Spec => []RecordsTellTheTruth
<1>1. IInv => RecordsTellTheTruth
  BY DEF IInv, RecordsTellTheTruth
<1> QED BY <1>1, Invariance, PTL

(* Who works on a quarantined record replays it: a record is quarantined   *)
(* while nobody works on it, and deliveries keep away from it.             *)
ManualOnly ==
  \A e \in Events, h \in Handlers :
    row[e] = "quarantined" /\ h \in WorkingOn(e) => doing[h] = "replay"

LEMMA ManualOnlyStep == IInv /\ ManualOnly /\ [Next]_vars => ManualOnly'
<1> SUFFICES ASSUME IInv, ManualOnly, [Next]_vars, NEW e \in Events, NEW h \in Handlers,
                    row'[e] = "quarantined", Working(h)', on'[h] = e
             PROVE  doing'[h] = "replay"
  BY DEF ManualOnly, WorkingOn
<1> USE DEF IInv, TypeOK
<1>1. ASSUME NEW g \in Handlers, NEW f \in Events, Deliver(g, f) PROVE doing'[h] = "replay"
  BY <1>1 DEF Deliver, Received, Settled, ManualOnly, Working, WorkingOn, By
<1>2. ASSUME NEW g \in Handlers, NEW f \in Events, DeliverDuplicate(g, f) PROVE doing'[h] = "replay"
  BY <1>2 DEF DeliverDuplicate, ManualOnly, Working, WorkingOn, By
<1>3. ASSUME NEW g \in Handlers, NEW f \in Events, Replay(g, f) PROVE doing'[h] = "replay"
  BY <1>3 DEF Replay, ManualOnly, Working, WorkingOn, By
<1>4. ASSUME NEW g \in Handlers, Succeed(g) \/ Fail(g) PROVE doing'[h] = "replay"
  BY <1>4 DEF Succeed, Fail, EndHandler, ManualOnly, Working, WorkingOn, By
<1>5. ASSUME NEW f \in Events, Quarantine(f) PROVE doing'[h] = "replay"
  BY <1>5 DEF Quarantine, MayQuarantine, ManualOnly, Working, WorkingOn, By
<1>6. CASE Crash
  BY <1>6 DEF Crash, Working, By
<1>7. CASE UNCHANGED vars
  BY <1>7 DEF vars, ManualOnly, Working, WorkingOn
<1> QED BY <1>1, <1>2, <1>3, <1>4, <1>5, <1>6, <1>7 DEF Next

LEMMA QuarantineStep ==
  ASSUME IInv, ManualOnly, [Next]_vars, NEW e \in Events,
         row[e] = "quarantined", row'[e] # "quarantined"
  PROVE  \E h \in WorkingOn(e) : doing[h] = "replay"
<1> USE DEF IInv, TypeOK
<1>1. ASSUME NEW g \in Handlers, Succeed(g) \/ Fail(g)
      PROVE  \E h \in WorkingOn(e) : doing[h] = "replay"
  <2>1. g \in WorkingOn(e)
    BY <1>1 DEF Succeed, Fail, EndHandler, WorkingOn
  <2> QED BY <2>1 DEF ManualOnly
<1>2. ~\E g \in Handlers, f \in Events : Deliver(g, f) \/ DeliverDuplicate(g, f) \/ Replay(g, f)
  BY ZenonT(30) DEF Deliver, DeliverDuplicate, Replay, Received
<1>3. ~(\E f \in Events : Quarantine(f)) /\ ~Crash /\ ~UNCHANGED vars
  BY DEF Quarantine, Crash, vars
<1> QED BY <1>1, <1>2, <1>3 DEF Next

(* No delivery takes a record out of quarantine.                           *)
THEOREM QuarantineRespected == Spec => QuarantineHolds
<1>1. Init => ManualOnly
  BY DEF Init, ManualOnly
<1>2. IInv /\ ManualOnly /\ [Next]_vars
        => [\A e \in Events : row[e] = "quarantined" /\ row'[e] # "quarantined"
              => \E h \in WorkingOn(e) : doing[h] = "replay"]_vars
  BY QuarantineStep
<1> QED BY <1>1, <1>2, ManualOnlyStep, Invariance, PTL DEF Spec, QuarantineHolds

----------------------------------------------------------------------------
(* Sequences of which some places are dropped.                             *)

(* Induction over the natural numbers, for a set of them.                  *)
LEMMA SetInduction ==
  ASSUME NEW T \in SUBSET Nat, 0 \in T, \A n \in T : n + 1 \in T
  PROVE  T = Nat
  <1> DEFINE R == {p \in Nat \X Nat : p[1] < p[2]}
  <1>1. IsWellFoundedOn(R, Nat)
    <2>1. R = OpToRel(<, Nat)
      BY DEF OpToRel
    <2> QED
      BY <2>1, NatLessThanWellFounded
  <1>2. ASSUME Nat \ T # {} PROVE FALSE
    <2>1. PICK x \in Nat \ T : \A y \in Nat \ T : <<y, x>> \notin R
      <3>1. \E x \in Nat \ T : \A y \in Nat \ T : ~(<<y, x>> \in R)
        BY <1>1, <1>2, WFMin, Nat \ T \subseteq Nat
      <3> QED
        BY <3>1
    <2>2. x # 0 /\ x - 1 \in Nat /\ x - 1 < x
      BY <2>1
    <2>3. x - 1 \in T
      BY <2>1, <2>2
    <2> QED
      BY <2>1, <2>2, <2>3
  <1> QED
    BY <1>2

(* f[n] is what is left of the first n elements of s, without the places   *)
(* in Gone.                                                                *)
Skims(f, s, Gone, m) ==
  /\ f[0] = <<>>
  /\ \A n \in 1..m : f[n] = IF n \in Gone THEN f[n-1] ELSE Append(f[n-1], s[n])

LEMMA SkimExists ==
  ASSUME NEW S, NEW s \in Seq(S), NEW Gone
  PROVE  \E f \in [0..Len(s) -> Seq(S)] : Skims(f, s, Gone, Len(s))
  <1> DEFINE T == {m \in Nat : m <= Len(s) => \E f \in [0..m -> Seq(S)] : Skims(f, s, Gone, m)}
  <1>1. 0 \in T
    <2>1. [n \in 0..0 |-> <<>>] \in [0..0 -> Seq(S)]
      OBVIOUS
    <2>2. Skims([n \in 0..0 |-> <<>>], s, Gone, 0)
      BY DEF Skims
    <2> QED
      BY <2>1, <2>2
  <1>2. ASSUME NEW m \in T PROVE m + 1 \in T
    <2>a. SUFFICES ASSUME m + 1 <= Len(s) PROVE \E f \in [0..(m+1) -> Seq(S)] : Skims(f, s, Gone, m+1)
      <3>1. m + 1 \in Nat
        OBVIOUS
      <3> QED
        BY <3>1
    <2>0. m \in Nat /\ m <= Len(s) /\ Len(s) \in Nat
      BY <2>a
    <2>1. PICK f \in [0..m -> Seq(S)] : Skims(f, s, Gone, m)
      BY <2>0, <1>2
    <2> DEFINE end == IF m+1 \in Gone THEN f[m] ELSE Append(f[m], s[m+1])
               g == [n \in 0..(m+1) |-> IF n = m+1 THEN end ELSE f[n]]
    <2>2. end \in Seq(S)
      BY <2>0, <2>a, f[m] \in Seq(S), s[m+1] \in S
    <2> HIDE DEF end
    <2>3. g \in [0..(m+1) -> Seq(S)] /\ g[m+1] = end /\ \A n \in 0..m : g[n] = f[n]
      BY <2>2, <2>0
    <2> HIDE DEF g
    <2>4. g[0] = <<>>
      BY <2>1, <2>0, <2>3 DEF Skims
    <2>5. ASSUME NEW n \in 1..(m+1) PROVE g[n] = IF n \in Gone THEN g[n-1] ELSE Append(g[n-1], s[n])
      <3>1. CASE n = m+1
        <4>1. g[n-1] = f[m]
          BY <2>0, <2>3, <3>1
        <4> QED
          BY <2>3, <3>1, <4>1 DEF end
      <3>2. CASE n # m+1
        <4>1. n \in 1..m /\ n - 1 \in 0..m /\ n \in 0..m
          BY <2>0, <3>2
        <4> QED
          BY <2>1, <2>3, <4>1 DEF Skims
      <3> QED
        BY <3>1, <3>2
    <2>6. Skims(g, s, Gone, m+1)
      BY <2>4, <2>5 DEF Skims
    <2> QED
      BY <2>3, <2>6
  <1>3. T = Nat
    <2> HIDE DEF T
    <2>1. T \in SUBSET Nat
      BY DEF T
    <2> QED
      BY <1>1, <1>2, <2>1, SetInduction
  <1>4. Len(s) \in T
    BY <1>3
  <1> QED
    BY <1>4

(* It is what the recursion says.                                          *)
LEMMA SkimIsRecursion ==
  ASSUME NEW S, NEW s \in Seq(S), NEW Gone, NEW g,
         DOMAIN g = 0..Len(s), g[0] = <<>>, g = [n \in 0..Len(s) |-> g[n]],
         \A n \in 1..Len(s) : g[n] = IF n \in Gone THEN g[n-1] ELSE Append(g[n-1], s[n])
  PROVE  g \in [0..Len(s) -> Seq(S)] /\ Skims(g, s, Gone, Len(s))
  <1>4. Len(s) \in Nat /\ \A n \in 1..Len(s) : s[n] \in S
    OBVIOUS
  <1> DEFINE T == {n \in Nat : n <= Len(s) => g[n] \in Seq(S)}
  <1>6. T = Nat
    <2>1. 0 \in T
      <3>1. <<>> \in Seq(S)
        OBVIOUS
      <3> QED
        BY <3>1
    <2>2. ASSUME NEW m \in T PROVE m + 1 \in T
      <3> SUFFICES ASSUME m + 1 <= Len(s) PROVE g[m+1] \in Seq(S)
        OBVIOUS
      <3>1. m + 1 \in 1..Len(s) /\ m + 1 - 1 = m /\ g[m] \in Seq(S) /\ s[m+1] \in S
        BY <1>4
      <3> DEFINE n == m + 1
      <3>2. g[n] = IF n \in Gone THEN g[n-1] ELSE Append(g[n-1], s[n])
        <4> HIDE DEF n
        <4> QED
          BY <3>1 DEF n
      <3>3. g[m+1] = IF m+1 \in Gone THEN g[m] ELSE Append(g[m], s[m+1])
        BY <3>1, <3>2
      <3>4. g[m] \in Seq(S) /\ Append(g[m], s[m+1]) \in Seq(S)
        BY <3>1
      <3> QED
        BY <3>3, <3>4
    <2> HIDE DEF T
    <2>3. T \in SUBSET Nat
      BY DEF T
    <2> QED
      BY <2>1, <2>2, <2>3, SetInduction
  <1>7. \A n \in 0..Len(s) : g[n] \in Seq(S)
    BY <1>4, <1>6
  <1> HIDE DEF T
  <1> QED
    BY <1>7 DEF Skims

(* at[i] is where the i-th element of r stands in s, whose places Stay.    *)
Picks(r, s, Stay, at) ==
  /\ at \in [1..Len(r) -> Stay]
  /\ \A i, j \in 1..Len(r) : i < j => at[i] < at[j]
  /\ \A i \in 1..Len(r) : r[i] = s[at[i]]
  /\ \A n \in Stay : \E i \in 1..Len(r) : at[i] = n

LEMMA SkimPicks ==
  ASSUME NEW S, NEW s \in Seq(S), NEW Gone, NEW f \in [0..Len(s) -> Seq(S)],
         Skims(f, s, Gone, Len(s))
  PROVE  /\ f[Len(s)] \in Seq(S) /\ Len(f[Len(s)]) <= Len(s)
         /\ \E at : Picks(f[Len(s)], s, (1..Len(s)) \ Gone, at)
  <1>1. Len(s) \in Nat
    OBVIOUS
  <1> DEFINE Good(m) == Len(f[m]) <= m /\ \E at : Picks(f[m], s, (1..m) \ Gone, at)
             T == {m \in Nat : m <= Len(s) => Good(m)}
  <1>2. 0 \in T
    <2>1. f[0] = <<>>
      BY DEF Skims
    <2>2. Picks(f[0], s, (1..0) \ Gone, <<>>)
      BY <2>1 DEF Picks
    <2>3. Len(f[0]) <= 0
      BY <2>1
    <2> QED
      BY <2>2, <2>3
  <1>3. ASSUME NEW m \in T PROVE m + 1 \in T
    <2>m. m \in Nat /\ (m <= Len(s) => Good(m))
      <3> HIDE DEF Good
      <3> QED
        BY <1>3
    <2>a. SUFFICES ASSUME m + 1 <= Len(s) PROVE Good(m+1)
      <3>1. m + 1 \in Nat
        BY <2>m
      <3> HIDE DEF Good
      <3> QED
        BY <3>1
    <2>b. m <= Len(s) /\ m + 1 \in 1..Len(s) /\ m \in 0..Len(s)
      BY <1>1, <2>m, <2>a
    <2>0. m \in Nat /\ m <= Len(s) /\ f[m] \in Seq(S) /\ Good(m) /\ m + 1 \in 1..Len(s) /\ Len(f[m]) \in Nat
      <3>1. f[m] \in Seq(S)
        BY <2>b
      <3> HIDE DEF Good
      <3> QED
        BY <2>m, <2>b, <3>1
    <2>1. f[m+1] = IF m+1 \in Gone THEN f[m] ELSE Append(f[m], s[m+1])
      BY <2>0 DEF Skims
    <2>2. PICK at : Picks(f[m], s, (1..m) \ Gone, at)
      BY <2>0
    <2>3. CASE m+1 \in Gone
      <3>1. (1..(m+1)) \ Gone = (1..m) \ Gone
        BY <2>0, <2>3
      <3> QED
        BY <2>0, <2>1, <2>2, <2>3, <3>1
    <2>4. CASE m+1 \notin Gone
      <3> DEFINE k == Len(f[m]) + 1
                 to == [i \in 1..k |-> IF i = k THEN m+1 ELSE at[i]]
      <3>1. /\ Len(f[m+1]) = k /\ f[m+1][k] = s[m+1] /\ k \in Nat
            /\ \A i \in 1..(k-1) : f[m+1][i] = f[m][i]
        BY <2>0, <2>1, <2>4
      <3>2. /\ (1..(m+1)) \ Gone = ((1..m) \ Gone) \cup {m+1}
            /\ \A n \in (1..m) \ Gone : n \in Nat /\ n < m+1
        BY <2>0, <2>4
      <3>3. /\ at \in [1..(k-1) -> (1..m) \ Gone]
            /\ \A i, j \in 1..(k-1) : i < j => at[i] < at[j]
            /\ \A i \in 1..(k-1) : f[m][i] = s[at[i]]
            /\ \A n \in (1..m) \ Gone : \E i \in 1..(k-1) : at[i] = n
        <4>1. k - 1 = Len(f[m])
          BY <2>0
        <4> QED
          BY <2>2, <4>1 DEF Picks
      <3>4. k - 1 \in Nat /\ \A i \in 1..k : i = k \/ (i # k /\ i \in 1..(k-1))
        BY <2>0
      <3>5. to[k] = m+1 /\ \A i \in 1..(k-1) : to[i] = at[i]
        BY <2>0
      <3>6. DOMAIN to = 1..k /\ to = [i \in 1..k |-> to[i]]
        OBVIOUS
      <3> HIDE DEF to, k
      <3>7. to \in [1..k -> (1..(m+1)) \ Gone]
        <4>1. \A i \in 1..k : to[i] \in (1..(m+1)) \ Gone
          BY <3>2, <3>3, <3>4, <3>5
        <4> QED
          BY <3>6, <4>1
      <3>8. ASSUME NEW i \in 1..k, NEW j \in 1..k, i < j PROVE to[i] < to[j]
        <4>1. i \in 1..(k-1)
          BY <3>1, <3>4, <3>8
        <4>2. CASE j = k
          BY <3>2, <3>3, <3>5, <4>1, <4>2
        <4>3. CASE j \in 1..(k-1)
          BY <3>3, <3>5, <3>8, <4>1, <4>3
        <4> QED
          BY <3>4, <4>2, <4>3
      <3>9. \A i \in 1..k : f[m+1][i] = s[to[i]]
        BY <3>1, <3>3, <3>4, <3>5
      <3>10. \A n \in (1..(m+1)) \ Gone : \E i \in 1..k : to[i] = n
        <4>1. k \in 1..k /\ \A i \in 1..(k-1) : i \in 1..k
          BY <2>0, <3>1, <3>4 DEF k
        <4> QED
          BY <3>2, <3>3, <3>5, <4>1
      <3>11. Picks(f[m+1], s, (1..(m+1)) \ Gone, to)
        BY <3>1, <3>7, <3>8, <3>9, <3>10 DEF Picks
      <3>12. Len(f[m+1]) <= m + 1
        BY <2>0, <3>1 DEF k
      <3> QED
        BY <3>11, <3>12
    <2> QED
      BY <2>3, <2>4
  <1>4. T = Nat
    <2> HIDE DEF T
    <2>1. T \in SUBSET Nat
      BY DEF T
    <2> QED
      BY <1>2, <1>3, <2>1, SetInduction
  <1>5. Good(Len(s))
    BY <1>1, <1>4
  <1> QED
    BY <1>1, <1>5

----------------------------------------------------------------------------
(* Sessions.  While the server is up memory is the table; the snapshot may *)
(* differ from both, but never in the order of the sessions they share, so *)
(* that equally many of the same ids are the same sequence.  What parts    *)
(* them is an operation that is not written yet, or a cut that shows.      *)

IsRows(rows) ==
  /\ rows \in Seq(Row) /\ Len(rows) <= MaxSessions
  /\ \A i, j \in 1..Len(rows) : rows[i].id = rows[j].id => i = j

SameIds(a, b) == Len(a) = Len(b) /\ \A i \in 1..Len(a) : a[i].id = b[i].id

(* What two have in common has the same order.                             *)
InOrder(a, b) ==
  \A i, j \in 1..Len(a), k, l \in 1..Len(b) :
    a[i].id = b[k].id /\ a[j].id = b[l].id /\ i < j => k < l

UpIsTable ==
  server = "up" =>
    sessionMemory = table /\ \A i \in 1..Len(table) : token[table[i].id] = version

SnapshotIsOfOneVersion ==
  \A i \in 1..Len(snapshot.rows) : token[snapshot.rows[i].id] = snapshot.version

CutShows ==
  /\ InOrder(snapshot.rows, table)
  /\ ~torn /\ ~writing.due => SameIds(snapshot.rows, table)
  /\ server # "up" => ~writing.due

RevokedAreGone ==
  \A s \in revoked \cup writing.confirms :
    token[s] # NoVersion /\ \A i \in 1..Len(table) : table[i].id # s

SessionTypes ==
  /\ IsRows(table) /\ IsRows(sessionMemory) /\ IsRows(snapshot.rows)
  /\ snapshot = [rows |-> snapshot.rows, version |-> snapshot.version]
  /\ version \in 1..MaxVersion + 1 /\ snapshot.version \in 1..MaxVersion + 1
  /\ dirty \in BOOLEAN
  /\ token \in [Sessions -> NoVersion..MaxVersion + 1]
  /\ writing \in [due : BOOLEAN, confirms : SUBSET Sessions]
  /\ server \in {"up", "down", "refused"}
  /\ revoked \subseteq Sessions
  /\ torn \in BOOLEAN
  /\ storeFailures \in 0..MaxStoreFailures /\ storeCrashes \in 0..MaxStoreCrashes

SessionIInv ==
  SessionTypes /\ UpIsTable /\ SnapshotIsOfOneVersion /\ CutShows /\ RevokedAreGone /\ RefusedOnlyIfTorn

(* Rows, as a set of functions and as sequences.                           *)
LEMMA RowsAreSequences ==
  ASSUME NEW rows
  PROVE  IsRows(rows) <=> rows \in Rows
  <1>0. MaxSessions \in Nat
    BY SessionBoundsAssumption
  <1>1. ASSUME IsRows(rows) PROVE rows \in Rows
    <2>1. Len(rows) \in 0..MaxSessions /\ rows \in [1..Len(rows) -> Row] /\ DOMAIN rows = 1..Len(rows)
      BY <1>0, <1>1 DEF IsRows
    <2>2. rows \in BoundedSeq(Row, MaxSessions)
      BY <2>1 DEF BoundedSeq, SeqOf
    <2> QED
      BY <1>1, <2>1, <2>2 DEF IsRows, Rows
  <1>2. ASSUME rows \in Rows PROVE IsRows(rows)
    <2>1. rows \in BoundedSeq(Row, MaxSessions)
          /\ \A i, j \in DOMAIN rows : rows[i].id = rows[j].id => i = j
      BY <1>2 DEF Rows
    <2>2. PICK n \in 0..MaxSessions : rows \in [1..n -> Row]
      BY <2>1 DEF BoundedSeq, SeqOf
    <2>3. n \in Nat /\ rows \in Seq(Row) /\ Len(rows) = n /\ DOMAIN rows = 1..n
      BY <1>0, <2>2
    <2> QED
      BY <1>0, <2>1, <2>3 DEF IsRows
  <1> QED
    BY <1>1, <1>2

LEMMA SessionsTyped == SessionTypes => SessionTypeOK
  <1> SUFFICES ASSUME SessionTypes PROVE SessionTypeOK
    OBVIOUS
  <1>1. table \in Rows /\ sessionMemory \in Rows /\ snapshot.rows \in Rows
    BY RowsAreSequences DEF SessionTypes
  <1> QED
    BY <1>1 DEF SessionTypes, SessionTypeOK

(* The initial state satisfies it.                                         *)
LEMMA SessionInitIInv == SessionInit => SessionIInv
  <1> SUFFICES ASSUME SessionInit PROVE SessionIInv
    OBVIOUS
  <1>1. MaxSessions \in Nat /\ MaxVersion \in Nat /\ MaxStoreFailures \in Nat /\ MaxStoreCrashes \in Nat
    BY SessionBoundsAssumption
  <1>2. table = <<>> /\ sessionMemory = <<>> /\ snapshot.rows = <<>> /\ snapshot.version = 1
    BY DEF SessionInit
  <1>3. IsRows(<<>>)
    BY <1>1 DEF IsRows
  <1>4. SessionTypes
    <2>1. IsRows(table) /\ IsRows(sessionMemory) /\ IsRows(snapshot.rows)
      BY <1>2, <1>3
    <2>2. /\ version \in 1..MaxVersion + 1 /\ snapshot.version \in 1..MaxVersion + 1
          /\ token \in [Sessions -> NoVersion..MaxVersion + 1]
          /\ storeFailures \in 0..MaxStoreFailures /\ storeCrashes \in 0..MaxStoreCrashes
      BY <1>1, <1>2 DEF SessionInit, NoVersion
    <2>3. writing \in [due : BOOLEAN, confirms : SUBSET Sessions]
      BY DEF SessionInit, NothingToWrite
    <2>4. snapshot = [rows |-> snapshot.rows, version |-> snapshot.version]
      BY DEF SessionInit
    <2> QED
      BY <2>1, <2>2, <2>3, <2>4 DEF SessionInit, SessionTypes
  <1>5. UpIsTable /\ SnapshotIsOfOneVersion /\ CutShows
    BY <1>2 DEF SessionInit, UpIsTable, SnapshotIsOfOneVersion, CutShows, InOrder, SameIds
  <1>6. RevokedAreGone /\ RefusedOnlyIfTorn
    BY DEF SessionInit, RevokedAreGone, RefusedOnlyIfTorn, NothingToWrite
  <1> QED
    BY <1>4, <1>5, <1>6 DEF SessionIInv

(* What it says of the property.                                           *)
LEMMA SessionsDoAgree == SessionIInv => SessionsAgree
  <1> SUFFICES ASSUME SessionIInv PROVE SessionsAgree
    OBVIOUS
  <1>1. DOMAIN table = 1..Len(table)
    BY DEF SessionIInv, SessionTypes, IsRows
  <1>2. RevokedStaysRevoked
    BY <1>1 DEF SessionIInv, RevokedAreGone, RevokedStaysRevoked, Has, Ids
  <1>3. MemoryIsTable
    BY <1>1 DEF SessionIInv, UpIsTable, MemoryIsTable, Ready, CookieAccepted, Has, Ids
  <1> QED
    BY <1>2, <1>3 DEF SessionIInv, SessionsAgree

----------------------------------------------------------------------------
(* Rows that change.                                                       *)

(* What is left has the same order.                                        *)
LEMMA RemainingRows ==
  ASSUME IsRows(table), NEW gone
  PROVE  /\ IsRows(Remaining(gone))
         /\ \A i \in 1..Len(Remaining(gone)) :
              Remaining(gone)[i].id \notin gone
              /\ \E k \in 1..Len(table) : Remaining(gone)[i] = table[k]
         /\ \A a : IsRows(a) /\ InOrder(a, table) => InOrder(a, Remaining(gone))
  <1> DEFINE Left(g, n) == IF n = 0 THEN <<>>
                           ELSE IF table[n].id \in gone THEN g[n - 1] ELSE Append(g[n - 1], table[n])
             Gone == {n \in 1..Len(table) : table[n].id \in gone}
  <1>0. table \in Seq(Row) /\ Len(table) \in Nat
    BY DEF IsRows
  <1>1. PICK f \in [0..Len(table) -> Seq(Row)] : Skims(f, table, Gone, Len(table))
    BY <1>0, SkimExists
  <1>2. f = [n \in 0..Len(table) |-> Left(f, n)]
    <2>1. ASSUME NEW n \in 0..Len(table) PROVE f[n] = Left(f, n)
      <3>1. n = 0 \/ (n # 0 /\ n \in 1..Len(table))
        BY <1>0
      <3> QED
        BY <1>1, <3>1 DEF Skims
    <2> HIDE DEF Left
    <2> QED
      BY <2>1
  <1>3. PICK g : /\ g = [n \in 0..Len(table) |-> Left(g, n)]
                 /\ Remaining(gone) = g[Len(table)]
    BY <1>2 DEF Remaining
  <1>4. DOMAIN g = 0..Len(table) /\ \A n \in 0..Len(table) : g[n] = Left(g, n)
    <2> HIDE DEF Left
    <2> QED
      BY <1>3
  <1>5. g[0] = <<>> /\ g = [n \in 0..Len(table) |-> g[n]]
    <2>1. g[0] = <<>>
      BY <1>0, <1>4
    <2> HIDE DEF Left
    <2>2. g = [n \in 0..Len(table) |-> g[n]]
      BY <1>3, <1>4
    <2> QED
      BY <2>1, <2>2
  <1>6. ASSUME NEW n \in 1..Len(table)
        PROVE  g[n] = IF n \in Gone THEN g[n-1] ELSE Append(g[n-1], table[n])
    <2>1. n \in 0..Len(table) /\ n # 0 /\ (n \in Gone <=> table[n].id \in gone)
      BY <1>0
    <2>2. g[n] = Left(g, n)
      BY <1>4, <2>1
    <2> HIDE DEF Gone
    <2> QED
      BY <2>1, <2>2
  <1>7. g \in [0..Len(table) -> Seq(Row)] /\ Skims(g, table, Gone, Len(table))
    <2> HIDE DEF Gone, Left
    <2> QED
      BY <1>0, <1>4, <1>5, <1>6, SkimIsRecursion
  <1>8. PICK r : r = Remaining(gone)
    OBVIOUS
  <1>9. r \in Seq(Row) /\ Len(r) <= Len(table) /\ \E at : Picks(r, table, (1..Len(table)) \ Gone, at)
    <2> HIDE DEF Gone, Left
    <2>1. /\ g[Len(table)] \in Seq(Row) /\ Len(g[Len(table)]) <= Len(table)
          /\ \E at : Picks(g[Len(table)], table, (1..Len(table)) \ Gone, at)
      BY <1>0, <1>7, SkimPicks
    <2>2. r = g[Len(table)]
      BY <1>3, <1>8
    <2> QED
      BY <2>1, <2>2
  <1>10. PICK at : Picks(r, table, (1..Len(table)) \ Gone, at)
    BY <1>9
  <1>11. /\ \A i \in 1..Len(r) : at[i] \in 1..Len(table) /\ r[i] = table[at[i]] /\ table[at[i]].id \notin gone
         /\ \A i, j \in 1..Len(r) : i < j => at[i] < at[j]
    BY <1>10 DEF Picks
  <1> HIDE DEF Gone, Left
  <1>12. \A i, j \in 1..Len(r) : (at[i] < at[j] => i < j) /\ (at[i] = at[j] => i = j)
    BY <1>9, <1>11
  <1>13. IsRows(r)
    <2>1. \A i, j \in 1..Len(r) : r[i].id = r[j].id => i = j
      BY <1>11, <1>12 DEF IsRows
    <2>2. Len(r) <= MaxSessions
      BY <1>0, <1>9, SessionBoundsAssumption DEF IsRows
    <2> QED
      BY <1>9, <2>1, <2>2 DEF IsRows
  <1>14. ASSUME NEW a, IsRows(a), InOrder(a, table) PROVE InOrder(a, r)
    <2>1. ASSUME NEW i \in 1..Len(a), NEW j \in 1..Len(a), NEW k \in 1..Len(r), NEW l \in 1..Len(r),
                 a[i].id = r[k].id, a[j].id = r[l].id, i < j
          PROVE  k < l
      <3>0. \A m, n \in 1..Len(table) : a[i].id = table[m].id /\ a[j].id = table[n].id => m < n
        BY <1>14, <2>1 DEF InOrder
      <3>1. at[k] < at[l]
        BY ZenonT(30), <1>11, <2>1, <3>0
      <3> QED
        BY <1>12, <3>1
    <2> QED
      BY <2>1 DEF InOrder
  <1> QED
    BY <1>8, <1>11, <1>13, <1>14

LEMMA ShiftedInOrder ==
  ASSUME NEW a, NEW b, NEW c, InOrder(a, b), Len(c) \in Nat,
         \A i \in 1..Len(c) : c[i] = b[i + 1] /\ i + 1 \in 1..Len(b)
  PROVE  InOrder(a, c)
  <1> SUFFICES ASSUME NEW i \in 1..Len(a), NEW j \in 1..Len(a), NEW k \in 1..Len(c), NEW l \in 1..Len(c),
                      a[i].id = c[k].id, a[j].id = c[l].id, i < j
               PROVE  k < l
    BY DEF InOrder
  <1>1. c[k] = b[k + 1] /\ c[l] = b[l + 1] /\ k + 1 \in 1..Len(b) /\ l + 1 \in 1..Len(b)
    OBVIOUS
  <1>2. \A m, n \in 1..Len(b) : a[i].id = b[m].id /\ a[j].id = b[n].id => m < n
    BY DEF InOrder
  <1>3. k + 1 < l + 1
    BY <1>1, <1>2
  <1> QED
    BY <1>3

(* A session that joins is the last, and the oldest may have to go.        *)
JoinsLast(s) == Append(table, [id |-> s, seen |-> "lately"])
NotTooMany(all) == IF Len(all) > MaxSessions THEN Tail(all) ELSE all

LEMMA JoinedRows ==
  ASSUME IsRows(table), NEW s \in Sessions, \A i \in 1..Len(table) : table[i].id # s,
         NEW all, all = JoinsLast(s),
         NEW rows, rows = NotTooMany(all)
  PROVE  /\ IsRows(rows)
         /\ \A i \in 1..Len(rows) : rows[i].id = s \/ \E k \in 1..Len(table) : rows[i] = table[k]
         /\ \A a : IsRows(a) /\ InOrder(a, table) /\ (\A i \in 1..Len(a) : a[i].id # s) => InOrder(a, rows)
  <1>0. table \in Seq(Row) /\ Len(table) \in Nat /\ MaxSessions \in Nat /\ Len(table) <= MaxSessions
        /\ [id |-> s, seen |-> "lately"] \in Row
    <2>1. [id |-> s, seen |-> "lately"] \in Row
      BY DEF Row
    <2>2. table \in Seq(Row) /\ Len(table) \in Nat /\ Len(table) <= MaxSessions
      BY DEF IsRows
    <2> QED
      BY <2>1, <2>2, SessionBoundsAssumption
  <1>1. /\ all \in Seq(Row) /\ Len(all) = Len(table) + 1
        /\ \A i \in 1..Len(table) : all[i] = table[i]
        /\ all[Len(table) + 1].id = s
    BY <1>0 DEF JoinsLast
  <1>2. \A i \in 1..Len(all) : i \in 1..Len(table) \/ i = Len(table) + 1
    BY <1>0, <1>1
  <1>3. \A i, j \in 1..Len(all) : all[i].id = all[j].id => i = j
    BY <1>1, <1>2 DEF IsRows
  <1>4. \A a : IsRows(a) /\ InOrder(a, table) /\ (\A i \in 1..Len(a) : a[i].id # s) => InOrder(a, all)
    BY SMTT(30), <1>1, <1>2 DEF InOrder
  <1>5. CASE Len(all) > MaxSessions
    <2>1. /\ rows \in Seq(Row) /\ Len(rows) = Len(all) - 1
          /\ \A i \in 1..Len(rows) : rows[i] = all[i + 1] /\ i + 1 \in 1..Len(all)
      BY <1>0, <1>1, <1>5 DEF NotTooMany
    <2>2. IsRows(rows)
      <3>1. Len(rows) <= MaxSessions
        BY <1>0, <1>1, <2>1
      <3>2. ASSUME NEW i \in 1..Len(rows), NEW j \in 1..Len(rows), rows[i].id = rows[j].id PROVE i = j
        <4>0. /\ i + 1 \in 1..Len(all) /\ j + 1 \in 1..Len(all)
              /\ all[i + 1].id = all[j + 1].id
          BY <2>1, <3>2
        <4>1. i + 1 = j + 1
          <5> HIDE DEF IsRows
          <5> QED
            BY <1>3, <4>0
        <4> QED
          BY <1>0, <1>1, <2>1, <4>1
      <3> QED
        BY <2>1, <3>1, <3>2 DEF IsRows
    <2>3. \A i \in 1..Len(rows) : rows[i].id = s \/ \E k \in 1..Len(table) : rows[i] = table[k]
      BY <1>1, <1>2, <2>1
    <2>4. ASSUME NEW a, InOrder(a, all) PROVE InOrder(a, rows)
      <3>1. Len(rows) \in Nat
        BY <2>1
      <3>2. \A i \in 1..Len(rows) : rows[i] = all[i + 1] /\ i + 1 \in 1..Len(all)
        BY <2>1
      <3>3. PICK m : m = rows
        OBVIOUS
      <3>4. InOrder(a, m)
        BY <2>4, <3>1, <3>2, <3>3, ShiftedInOrder
      <3> QED
        BY <3>3, <3>4
    <2> QED
      BY <1>4, <2>2, <2>3, <2>4
  <1>6. CASE ~(Len(all) > MaxSessions)
    <2>1. rows = all /\ Len(all) <= MaxSessions
      BY <1>0, <1>1, <1>6 DEF NotTooMany
    <2> QED
      BY <1>1, <1>2, <1>3, <1>4, <2>1 DEF IsRows
  <1> QED
    BY <1>5, <1>6

(* Rows whose ids stay.                                                    *)
LEMMA SameRows ==
  ASSUME NEW a, NEW b, IsRows(a), b \in Seq(Row), SameIds(b, a)
  PROVE  /\ IsRows(b)
         /\ \A c : (InOrder(c, a) => InOrder(c, b)) /\ (InOrder(a, c) => InOrder(b, c))
         /\ \A c : (SameIds(c, a) => SameIds(c, b)) /\ (SameIds(a, c) => SameIds(b, c))
  <1>1. Len(a) = Len(b) /\ \A i \in 1..Len(a) : a[i].id = b[i].id
    BY DEF SameIds
  <1>2. IsRows(b)
    BY <1>1 DEF IsRows
  <1>3. \A c : (InOrder(c, a) => InOrder(c, b)) /\ (InOrder(a, c) => InOrder(b, c))
    BY <1>1 DEF InOrder
  <1>4. \A c : (SameIds(c, a) => SameIds(c, b)) /\ (SameIds(a, c) => SameIds(b, c))
    BY <1>1 DEF SameIds
  <1> QED
    BY <1>2, <1>3, <1>4

LEMMA RowsInOrder ==
  ASSUME NEW a, IsRows(a)
  PROVE  InOrder(a, a) /\ SameIds(a, a)
  BY DEF IsRows, InOrder, SameIds

(* A strictly increasing function on 1..n is nowhere below its argument.   *)
LEMMA IncreasingClimbs ==
  ASSUME NEW n \in Nat, NEW p \in [1..n -> 1..n], \A i, j \in 1..n : i < j => p[i] < p[j]
  PROVE  \A i \in 1..n : i <= p[i]
  <1> DEFINE T == {m \in Nat : m \in 1..n => m <= p[m]}
  <1>1. 0 \in T
    OBVIOUS
  <1>2. ASSUME NEW m \in T PROVE m + 1 \in T
    <2> SUFFICES ASSUME m + 1 \in 1..n PROVE m + 1 <= p[m + 1]
      OBVIOUS
    <2>1. p[m + 1] \in 1..n
      OBVIOUS
    <2>2. CASE m = 0
      BY <2>1, <2>2
    <2>3. CASE m # 0
      <3>1. m \in 1..n /\ m <= p[m] /\ p[m] \in 1..n
        BY <1>2, <2>3
      <3>2. p[m] < p[m + 1]
        BY <3>1
      <3> QED
        BY <2>1, <3>1, <3>2
    <2> QED
      BY <2>2, <2>3
  <1>3. T = Nat
    <2> HIDE DEF T
    <2>1. T \in SUBSET Nat
      BY DEF T
    <2> QED
      BY <1>1, <1>2, <2>1, SetInduction
  <1> QED
    BY <1>3

(* Equally many sessions, the same ones and in the same order, are the     *)
(* same.                                                                   *)
LEMMA OrderedIsSame ==
  ASSUME NEW a, NEW b, IsRows(a), IsRows(b), InOrder(a, b), Len(a) = Len(b),
         \A i \in 1..Len(a) : \E k \in 1..Len(b) : b[k].id = a[i].id,
         \A k \in 1..Len(b) : \E i \in 1..Len(a) : a[i].id = b[k].id
  PROVE  SameIds(a, b)
  <1>0. PICK n \in Nat : n = Len(a) /\ n = Len(b)
    BY DEF IsRows
  <1>1. \A i \in 1..n : \E k \in 1..n : b[k].id = a[i].id
    BY <1>0
  <1>2. \A k \in 1..n : \E i \in 1..n : a[i].id = b[k].id
    BY <1>0
  <1>3. PICK p \in [1..n -> 1..n] : \A i \in 1..n : b[p[i]].id = a[i].id
    <2> DEFINE to == [i \in 1..n |-> CHOOSE k \in 1..n : b[k].id = a[i].id]
    <2>1. \A i \in 1..n : to[i] \in 1..n /\ b[to[i]].id = a[i].id
      BY <1>1
    <2>2. to \in [1..n -> 1..n]
      BY <2>1
    <2> HIDE DEF to
    <2> QED
      BY <2>1, <2>2
  <1>4. PICK q \in [1..n -> 1..n] : \A k \in 1..n : a[q[k]].id = b[k].id
    <2> DEFINE to == [k \in 1..n |-> CHOOSE i \in 1..n : a[i].id = b[k].id]
    <2>1. \A k \in 1..n : to[k] \in 1..n /\ a[to[k]].id = b[k].id
      BY <1>2
    <2>2. to \in [1..n -> 1..n]
      BY <2>1
    <2> HIDE DEF to
    <2> QED
      BY <2>1, <2>2
  <1>5. /\ \A i, j \in 1..n : a[i].id = a[j].id => i = j
        /\ \A i, j \in 1..n : b[i].id = b[j].id => i = j
    BY <1>0 DEF IsRows
  <1>6. \A i, j, k, l \in 1..n : a[i].id = b[k].id /\ a[j].id = b[l].id /\ i < j => k < l
    BY <1>0 DEF InOrder
  <1>7. \A i, j \in 1..n : i < j => p[i] < p[j]
    BY <1>3, <1>6
  <1>8. ASSUME NEW k \in 1..n, NEW l \in 1..n, k < l PROVE q[k] < q[l]
    <2>1. q[k] \in 1..n /\ q[l] \in 1..n /\ a[q[k]].id = b[k].id /\ a[q[l]].id = b[l].id
      BY <1>4
    <2>2. q[k] # q[l]
      BY <1>5, <1>8, <2>1
    <2>3. ~(q[l] < q[k])
      <3> SUFFICES ASSUME q[l] < q[k] PROVE l < k
        BY <1>8
      <3> QED
        BY <1>6, <2>1
    <2> QED
      BY <2>1, <2>2, <2>3
  <1>9. \A i \in 1..n : i <= p[i]
    BY <1>7, IncreasingClimbs
  <1>10. \A i \in 1..n : i <= q[i]
    BY <1>8, IncreasingClimbs
  <1>11. ASSUME NEW i \in 1..n PROVE a[i].id = b[i].id
    <2>1. p[i] \in 1..n /\ q[p[i]] \in 1..n /\ a[q[p[i]]].id = a[i].id
      BY <1>3, <1>4
    <2>2. q[p[i]] = i
      BY <1>5, <2>1
    <2>3. p[i] <= i /\ i <= p[i]
      BY <1>9, <1>10, <2>1, <2>2
    <2>4. p[i] = i
      BY <2>1, <2>3
    <2> QED
      BY <1>3, <2>4
  <1> QED
    BY <1>0, <1>11 DEF SameIds

----------------------------------------------------------------------------
(* The steps.                                                              *)

LEMMA RowsHaveIds ==
  ASSUME NEW rows, IsRows(rows)
  PROVE  /\ rows \in Seq(Row) /\ Len(rows) \in Nat /\ DOMAIN rows = 1..Len(rows)
         /\ \A i \in 1..Len(rows) : rows[i] \in Row
         /\ \A i \in 1..Len(rows) : rows[i].id \in Sessions
  <1>1. rows \in Seq(Row)
    BY DEF IsRows
  <1>2. /\ Len(rows) \in Nat /\ DOMAIN rows = 1..Len(rows)
        /\ \A i \in 1..Len(rows) : rows[i] \in Row
    BY <1>1
  <1>3. \A x \in Row : x.id \in Sessions
    BY DEF Row
  <1>4. \A i \in 1..Len(rows) : rows[i].id \in Sessions
    BY <1>2, <1>3
  <1> QED
    BY <1>1, <1>2, <1>4

LEMMA FunctionIsSequence ==
  ASSUME NEW S, NEW n \in Nat, NEW f \in [1..n -> S]
  PROVE  f \in Seq(S) /\ Len(f) = n
  OBVIOUS

(* Rows that are seen anew.                                                *)
LEMMA SeenRows ==
  ASSUME NEW rows, IsRows(rows), NEW when \in {"lately", "long ago"}, NEW P \in SUBSET (1..Len(rows)),
         NEW a, a = [i \in 1..Len(rows) |-> IF i \in P THEN [rows[i] EXCEPT !.seen = when] ELSE rows[i]]
  PROVE  a \in Seq(Row) /\ SameIds(a, rows) /\ IsRows(a)
  <1>1. /\ rows \in Seq(Row) /\ Len(rows) \in Nat /\ DOMAIN rows = 1..Len(rows)
        /\ \A i \in 1..Len(rows) : rows[i] \in Row
    BY RowsHaveIds
  <1>2. \A x \in Row : [x EXCEPT !.seen = when] \in Row /\ [x EXCEPT !.seen = when].id = x.id
    BY DEF Row
  <1>3. DOMAIN a = 1..Len(rows) /\ \A i \in 1..Len(rows) : a[i] \in Row /\ a[i].id = rows[i].id
    BY <1>1, <1>2
  <1>4. a \in [1..Len(rows) -> Row]
    <2>1. a = [i \in 1..Len(rows) |-> a[i]]
      OBVIOUS
    <2> QED
      BY <1>3, <2>1
  <1>5. a \in Seq(Row) /\ Len(a) = Len(rows)
    <2>1. PICK n \in Nat : n = Len(rows)
      BY <1>1
    <2>2. a \in [1..n -> Row]
      BY <1>4, <2>1
    <2>3. a \in Seq(Row) /\ Len(a) = n
      BY <2>2, FunctionIsSequence
    <2> QED
      BY <2>1, <2>3
  <1>6. SameIds(a, rows)
    BY <1>3, <1>5 DEF SameIds
  <1>7. IsRows(a)
    BY <1>5, <1>6, SameRows
  <1> QED
    BY <1>5, <1>6, <1>7

(* The first transaction of an operation.                                  *)
LEMMA ChangeLemma ==
  ASSUME SessionIInv, Ready, NEW rows, NEW confirms \in SUBSET Sessions, ChangeTable(rows, confirms),
         IsRows(rows), InOrder(snapshot.rows, rows),
         version' \in 1..MaxVersion + 1, token' \in [Sessions -> NoVersion..MaxVersion + 1],
         \A i \in 1..Len(rows) : token'[rows[i].id] = version',
         \A s \in Sessions : token[s] # NoVersion => token'[s] = token[s],
         \A s \in confirms : token[s] # NoVersion,
         \A s \in revoked \cup confirms, i \in 1..Len(rows) : rows[i].id # s
  PROVE  SessionIInv'
  <1>0. /\ table' = rows /\ sessionMemory' = rows /\ writing' = [due |-> TRUE, confirms |-> confirms]
        /\ UNCHANGED <<snapshot, dirty, server, revoked, torn, storeFailures, storeCrashes>>
        /\ server = "up"
    BY DEF ChangeTable, Ready
  <1>1. SessionTypes /\ SnapshotIsOfOneVersion /\ RevokedAreGone
    BY DEF SessionIInv
  <1>2. SessionTypes'
    <2>1. writing' \in [due : BOOLEAN, confirms : SUBSET Sessions]
      BY <1>0
    <2> QED
      BY <1>0, <1>1, <2>1 DEF SessionTypes
  <1>3. UpIsTable' /\ CutShows' /\ RefusedOnlyIfTorn'
    BY <1>0 DEF UpIsTable, CutShows, RefusedOnlyIfTorn
  <1>4. SnapshotIsOfOneVersion'
    <2>1. \A i \in 1..Len(snapshot.rows) : snapshot.rows[i].id \in Sessions
      <3>1. PICK kept : kept = snapshot.rows
        OBVIOUS
      <3>2. \A i \in 1..Len(kept) : kept[i].id \in Sessions
        BY <1>1, <3>1, RowsHaveIds DEF SessionTypes
      <3> QED
        BY <3>1, <3>2
    <2>2. snapshot.version # NoVersion
      BY <1>1, SessionBoundsAssumption DEF SessionTypes, NoVersion
    <2> QED
      BY <1>0, <1>1, <2>1, <2>2 DEF SnapshotIsOfOneVersion
  <1>5. RevokedAreGone'
    <2>1. \A s \in revoked \cup confirms : s \in Sessions /\ token[s] # NoVersion
      BY <1>1 DEF RevokedAreGone, SessionTypes
    <2>2. revoked' = revoked /\ writing'.confirms = confirms
      BY <1>0
    <2> QED
      BY <1>0, <2>1, <2>2 DEF RevokedAreGone
  <1> QED
    BY <1>2, <1>3, <1>4, <1>5 DEF SessionIInv

(* The state is written from memory.                                       *)
LEMMA WriteLemma ==
  ASSUME SessionIInv, server = "up", WriteState,
         UNCHANGED <<sessionMemory, version, token, storeFailures, storeCrashes>>,
         writing'.due \in BOOLEAN, writing' \in [due : BOOLEAN, confirms : SUBSET Sessions],
         ~writing'.due, revoked' \cup writing'.confirms \subseteq revoked \cup writing.confirms,
         server' \in {"up", "down"}
  PROVE  SessionIInv'
  <1>0. SessionTypes /\ UpIsTable /\ RevokedAreGone /\ sessionMemory = table
    BY DEF SessionIInv, UpIsTable
  <1>1. /\ snapshot'.rows = table /\ snapshot'.version = version /\ table' = table /\ ~torn' /\ dirty' = FALSE
        /\ snapshot' = [rows |-> snapshot'.rows, version |-> snapshot'.version]
        /\ sessionMemory' = sessionMemory /\ version' = version /\ token' = token /\ torn' = FALSE
        /\ storeFailures' = storeFailures /\ storeCrashes' = storeCrashes
    BY <1>0 DEF WriteState
  <1>2. SessionTypes'
    <2>1. revoked' \subseteq Sessions
      BY <1>0 DEF SessionTypes
    <2> QED
      BY <1>0, <1>1, <2>1 DEF SessionTypes
  <1>3. UpIsTable' /\ SnapshotIsOfOneVersion'
    BY <1>0, <1>1 DEF UpIsTable, SnapshotIsOfOneVersion
  <1>4. CutShows'
    <2>1. InOrder(table, table) /\ SameIds(table, table)
      BY <1>0, RowsInOrder DEF SessionTypes
    <2> QED
      BY <1>1, <2>1 DEF CutShows
  <1>5. RevokedAreGone' /\ RefusedOnlyIfTorn'
    BY <1>0, <1>1 DEF RevokedAreGone, RefusedOnlyIfTorn
  <1> QED
    BY <1>2, <1>3, <1>4, <1>5 DEF SessionIInv

(* Every step preserves it.                                                *)
LEMMA SessionNextIInv == SessionIInv /\ [SessionNext]_sessionVars => SessionIInv'
  <1> SUFFICES ASSUME SessionIInv, [SessionNext]_sessionVars PROVE SessionIInv'
    OBVIOUS
  <1>0. SessionTypes /\ UpIsTable /\ SnapshotIsOfOneVersion /\ CutShows /\ RevokedAreGone /\ RefusedOnlyIfTorn
    BY DEF SessionIInv
  <1>t. /\ IsRows(table) /\ IsRows(sessionMemory) /\ IsRows(snapshot.rows)
        /\ version \in 1..MaxVersion + 1 /\ snapshot.version \in 1..MaxVersion + 1 /\ MaxVersion \in Nat
        /\ token \in [Sessions -> NoVersion..MaxVersion + 1]
        /\ version # NoVersion /\ snapshot.version # NoVersion
        /\ MaxStoreFailures \in Nat /\ MaxStoreCrashes \in Nat
    <2>1. MaxVersion \in Nat /\ MaxStoreFailures \in Nat /\ MaxStoreCrashes \in Nat
      BY SessionBoundsAssumption
    <2> QED
      BY <1>0, <2>1 DEF SessionTypes, NoVersion
  <1>i. /\ table \in Seq(Row) /\ DOMAIN table = 1..Len(table)
        /\ \A i \in 1..Len(table) : table[i] \in Row /\ table[i].id \in Sessions
        /\ \A i \in 1..Len(snapshot.rows) : snapshot.rows[i] \in Row /\ snapshot.rows[i].id \in Sessions
        /\ snapshot.rows \in Seq(Row) /\ DOMAIN snapshot.rows = 1..Len(snapshot.rows)
    <2>1. PICK kept : kept = snapshot.rows
      OBVIOUS
    <2>2. /\ \A i \in 1..Len(kept) : kept[i] \in Row /\ kept[i].id \in Sessions
          /\ kept \in Seq(Row) /\ DOMAIN kept = 1..Len(kept)
      BY <1>t, <2>1, RowsHaveIds
    <2>3. /\ table \in Seq(Row) /\ DOMAIN table = 1..Len(table)
          /\ \A i \in 1..Len(table) : table[i] \in Row /\ table[i].id \in Sessions
      BY <1>t, RowsHaveIds
    <2> QED
      BY <2>1, <2>2, <2>3
  <1>1. ASSUME NEW s \in Sessions, CreateSession(s) PROVE SessionIInv'
    <2>0. /\ Ready /\ server = "up" /\ token[s] = NoVersion /\ token' = [token EXCEPT ![s] = version]
          /\ version' = version
      BY <1>1 DEF CreateSession, Ready
    <2>1. PICK all : all = JoinsLast(s)
      OBVIOUS
    <2>2. PICK rows : rows = NotTooMany(all)
      OBVIOUS
    <2>3. ChangeTable(rows, {})
      BY <1>1, <2>1, <2>2 DEF CreateSession, JoinsLast, NotTooMany
    <2>4. \A i \in 1..Len(table) : table[i].id # s /\ token[table[i].id] = version
      BY <1>0, <1>t, <2>0 DEF UpIsTable
    <2>5. \A i \in 1..Len(snapshot.rows) : snapshot.rows[i].id # s
      BY <1>0, <1>t, <2>0 DEF SnapshotIsOfOneVersion
    <2>6. /\ IsRows(rows)
          /\ \A i \in 1..Len(rows) : rows[i].id = s \/ \E k \in 1..Len(table) : rows[i] = table[k]
          /\ InOrder(snapshot.rows, rows)
      <3>1. /\ IsRows(rows)
            /\ \A i \in 1..Len(rows) : rows[i].id = s \/ \E k \in 1..Len(table) : rows[i] = table[k]
            /\ \A a : IsRows(a) /\ InOrder(a, table) /\ (\A i \in 1..Len(a) : a[i].id # s) => InOrder(a, rows)
        <4>1. IsRows(table)
          BY <1>t
        <4>2. \A i \in 1..Len(table) : table[i].id # s
          BY <2>4
        <4> QED
          BY <4>1, <4>2, <2>1, <2>2, JoinedRows
      <3>2. PICK kept : kept = snapshot.rows
        OBVIOUS
      <3>3. IsRows(kept) /\ InOrder(kept, table) /\ \A i \in 1..Len(kept) : kept[i].id # s
        BY <1>0, <1>t, <2>5, <3>2 DEF CutShows
      <3>4. InOrder(kept, rows)
        BY <3>1, <3>3
      <3> QED
        BY <3>1, <3>2, <3>4
    <2>7. token' \in [Sessions -> NoVersion..MaxVersion + 1] /\ token'[s] = version
          /\ \A u \in Sessions \ {s} : token'[u] = token[u]
      BY <1>t, <2>0 DEF NoVersion
    <2>8. ASSUME NEW i \in 1..Len(rows) PROVE token'[rows[i].id] = version'
      BY <1>i, <2>0, <2>4, <2>6, <2>7
    <2>9. ASSUME NEW u \in revoked, NEW i \in 1..Len(rows) PROVE rows[i].id # u
      <3>1. u # s /\ \A k \in 1..Len(table) : table[k].id # u
        BY <1>0, <2>0 DEF RevokedAreGone
      <3> QED
        BY <2>6, <3>1
    <2> QED
      BY <1>t, <2>0, <2>3, <2>6, <2>7, <2>8, <2>9, ChangeLemma
  <1>2. ASSUME NEW gone, NEW confirms \in SUBSET Sessions, Ready, ChangeTable(Remaining(gone), confirms),
               confirms \subseteq gone, \A s \in confirms : \E i \in 1..Len(table) : table[i].id = s,
               UNCHANGED <<version, token>>
        PROVE  SessionIInv'
    <2>1. PICK rows : rows = Remaining(gone)
      OBVIOUS
    <2>2. /\ IsRows(rows) /\ InOrder(snapshot.rows, rows)
          /\ \A i \in 1..Len(rows) : rows[i].id \notin gone /\ \E k \in 1..Len(table) : rows[i] = table[k]
      BY <1>0, <1>t, <2>1, RemainingRows DEF CutShows
    <2>3. \A i \in 1..Len(table) : token[table[i].id] = version
      BY <1>0, <1>2 DEF UpIsTable, Ready
    <2>4. \A i \in 1..Len(rows) : token'[rows[i].id] = version'
      BY <1>2, <2>2, <2>3
    <2>5. \A s \in confirms : token[s] # NoVersion
      BY <1>t, <1>2, <2>3
    <2>6. \A s \in revoked \cup confirms, i \in 1..Len(rows) : rows[i].id # s
      <3>1. ASSUME NEW s \in revoked, NEW i \in 1..Len(rows) PROVE rows[i].id # s
        <4>1. \A k \in 1..Len(table) : table[k].id # s
          BY <1>0 DEF RevokedAreGone
        <4>2. PICK k \in 1..Len(table) : rows[i] = table[k]
          BY <2>2
        <4> QED
          BY <4>1, <4>2
      <3>2. ASSUME NEW s \in confirms, NEW i \in 1..Len(rows) PROVE rows[i].id # s
        BY <1>2, <2>2
      <3> QED
        BY <3>1, <3>2
    <2>7. ChangeTable(rows, confirms)
      BY <1>2, <2>1
    <2> QED
      BY <1>t, <1>2, <2>2, <2>4, <2>5, <2>6, <2>7, ChangeLemma
  <1>3. ASSUME NEW gone \in SUBSET Sessions, RevokeSessions(gone) PROVE SessionIInv'
    <2>1. \A s \in gone : \E i \in 1..Len(table) : table[i].id = s
      BY <1>i, <1>3 DEF RevokeSessions, Ids
    <2> QED
      BY <1>2, <1>3, <2>1 DEF RevokeSessions
  <1>4. CASE LogOutEverywhere
    <2>0. Ready /\ version <= MaxVersion /\ version' = version + 1 /\ token' = token
      BY <1>4 DEF LogOutEverywhere
    <2>1. PICK confirms \in SUBSET Sessions : confirms = {s \in Sessions : token[s] # NoVersion}
      OBVIOUS
    <2>2. ChangeTable(<<>>, confirms)
      BY <1>4, <2>1 DEF LogOutEverywhere
    <2>3. IsRows(<<>>) /\ InOrder(snapshot.rows, <<>>)
      BY SessionBoundsAssumption DEF IsRows, InOrder
    <2>4. version' \in 1..MaxVersion + 1
      BY <1>t, <2>0
    <2> QED
      BY <1>t, <2>0, <2>1, <2>2, <2>3, <2>4, ChangeLemma
  <1>5. CASE SweepSessions
    <2>1. PICK gone : gone = {s \in Sessions : [id |-> s, seen |-> "long ago"] \in ToSet(table)}
      OBVIOUS
    <2>2. Ready /\ ChangeTable(Remaining(gone), {}) /\ UNCHANGED <<version, token>>
      BY <1>5, <2>1 DEF SweepSessions
    <2> QED
      BY <1>2, <2>2
  <1>6. ASSUME SameIds(table', table), table' \in Seq(Row), sessionMemory' = table' \/ server # "up",
               IsRows(sessionMemory'), snapshot' = [rows |-> snapshot'.rows, version |-> snapshot.version],
               snapshot'.rows \in Seq(Row), SameIds(snapshot'.rows, snapshot.rows), dirty' \in BOOLEAN,
               UNCHANGED <<version, token, writing, server, revoked, torn, storeFailures, storeCrashes>>
        PROVE  SessionIInv'
    <2>1. /\ IsRows(table') /\ IsRows(snapshot'.rows)
          /\ InOrder(snapshot'.rows, table') /\ (SameIds(snapshot.rows, table) => SameIds(snapshot'.rows, table'))
      <3>1. PICK a : a = table'
        OBVIOUS
      <3>2. PICK b : b = snapshot'.rows
        OBVIOUS
      <3>3. /\ IsRows(a) /\ (InOrder(snapshot.rows, table) => InOrder(snapshot.rows, a))
            /\ (SameIds(snapshot.rows, table) => SameIds(snapshot.rows, a))
        BY <1>t, <1>6, <3>1, SameRows
      <3>4. /\ IsRows(b) /\ (InOrder(snapshot.rows, a) => InOrder(b, a))
            /\ (SameIds(snapshot.rows, a) => SameIds(b, a))
        BY <1>t, <1>6, <3>2, SameRows
      <3> QED
        BY <1>0, <3>1, <3>2, <3>3, <3>4 DEF CutShows
    <2>2. SessionTypes'
      BY <1>0, <1>6, <2>1 DEF SessionTypes
    <2>3. CutShows' /\ RefusedOnlyIfTorn'
      BY <1>0, <1>6, <2>1 DEF CutShows, RefusedOnlyIfTorn
    <2>4. /\ Len(table') = Len(table) /\ \A i \in 1..Len(table) : table'[i].id = table[i].id
          /\ Len(snapshot'.rows) = Len(snapshot.rows)
          /\ \A i \in 1..Len(snapshot.rows) : snapshot'.rows[i].id = snapshot.rows[i].id
      BY <1>6 DEF SameIds
    <2>5. UpIsTable' /\ SnapshotIsOfOneVersion' /\ RevokedAreGone'
      BY <1>0, <1>6, <2>4 DEF UpIsTable, SnapshotIsOfOneVersion, RevokedAreGone
    <2> QED
      BY <2>2, <2>3, <2>5 DEF SessionIInv
  <1>7. ASSUME NEW s \in Sessions, TouchSession(s) PROVE SessionIInv'
    <2>0. /\ server = "up" /\ sessionMemory' = table' /\ dirty' = TRUE /\ snapshot' = snapshot
          /\ UNCHANGED <<version, token, writing, server, revoked, torn, storeFailures, storeCrashes>>
      BY <1>7 DEF TouchSession, Ready
    <2>1. PICK P \in SUBSET (1..Len(table)) : P = {i \in 1..Len(table) : table[i].id = s}
      OBVIOUS
    <2>2. PICK a : a = [i \in 1..Len(table) |-> IF i \in P THEN [table[i] EXCEPT !.seen = "lately"] ELSE table[i]]
      OBVIOUS
    <2>3. a \in Seq(Row) /\ SameIds(a, table) /\ IsRows(a)
      BY <1>t, <2>2, SeenRows
    <2>4. a = table'
      BY <1>i, <1>7, <2>1, <2>2 DEF TouchSession
    <2>5. table' \in Seq(Row) /\ SameIds(table', table) /\ IsRows(table')
      BY <2>3, <2>4
    <2>6. SameIds(snapshot.rows, snapshot.rows) /\ snapshot' = [rows |-> snapshot'.rows, version |-> snapshot.version]
      BY <1>0, <2>0 DEF SameIds, SessionTypes
    <2> QED
      BY <1>6, <1>i, <2>0, <2>5, <2>6
  <1>8. CASE SessionsAge
    <2> DEFINE Aged(rows) == [i \in DOMAIN rows |-> [rows[i] EXCEPT !.seen = "long ago"]]
    <2>0. /\ table' = Aged(table) /\ sessionMemory' = Aged(sessionMemory)
          /\ snapshot' = [snapshot EXCEPT !.rows = Aged(snapshot.rows)]
          /\ UNCHANGED <<version, dirty, token, writing, server, revoked, torn, storeFailures, storeCrashes>>
      BY <1>8 DEF SessionsAge
    <2>1. ASSUME NEW rows, IsRows(rows)
          PROVE  Aged(rows) \in Seq(Row) /\ SameIds(Aged(rows), rows) /\ IsRows(Aged(rows))
      <3>1. DOMAIN rows = 1..Len(rows)
        BY <2>1, RowsHaveIds
      <3>2. PICK a : a = [i \in 1..Len(rows) |->
                            IF i \in 1..Len(rows) THEN [rows[i] EXCEPT !.seen = "long ago"] ELSE rows[i]]
        OBVIOUS
      <3>3. a \in Seq(Row) /\ SameIds(a, rows) /\ IsRows(a)
        BY <2>1, <3>2, SeenRows
      <3>4. a = Aged(rows)
        BY <3>1, <3>2
      <3> QED
        BY <3>3, <3>4
    <2> HIDE DEF Aged
    <2>2. snapshot'.rows = Aged(snapshot.rows) /\ snapshot' = [rows |-> snapshot'.rows, version |-> snapshot.version]
      <3>1. snapshot \in [rows : {snapshot.rows}, version : {snapshot.version}]
        BY <1>0 DEF SessionTypes
      <3> QED
        BY <2>0, <3>1
    <2>3. sessionMemory' = table' \/ server # "up"
      BY <1>0, <2>0 DEF UpIsTable
    <2>4. dirty' \in BOOLEAN
      BY <1>0, <2>0 DEF SessionTypes
    <2> QED
      BY <1>6, <1>t, <2>0, <2>1, <2>2, <2>3, <2>4
  <1>9. CASE PersistNow
    <2>1. /\ server = "up" /\ WriteState /\ writing' = NothingToWrite
          /\ revoked' = revoked \cup writing.confirms /\ server' = server
          /\ UNCHANGED <<sessionMemory, version, token, storeFailures, storeCrashes>>
      BY <1>9 DEF PersistNow
    <2>2. /\ writing' \in [due : BOOLEAN, confirms : SUBSET Sessions] /\ writing'.due = FALSE
          /\ writing'.confirms = {}
      BY <2>1 DEF NothingToWrite
    <2> QED
      BY <2>1, <2>2, WriteLemma
  <1>10. CASE PersistNowFails
    <2>0. /\ writing' = NothingToWrite /\ torn' = TRUE /\ storeFailures' = storeFailures + 1
          /\ storeFailures < MaxStoreFailures
          /\ UNCHANGED <<table, sessionMemory, version, snapshot, dirty, token, server, revoked, storeCrashes>>
      BY <1>10 DEF PersistNowFails
    <2>1. /\ writing' \in [due : BOOLEAN, confirms : SUBSET Sessions] /\ writing'.due = FALSE
          /\ writing'.confirms = {}
      BY <2>0 DEF NothingToWrite
    <2>2. storeFailures' \in 0..MaxStoreFailures
      BY <1>0, <1>t, <2>0 DEF SessionTypes
    <2>3. SessionTypes'
      BY <1>0, <2>0, <2>1, <2>2 DEF SessionTypes
    <2> QED
      BY <1>0, <2>0, <2>1, <2>3
      DEF SessionIInv, UpIsTable, SnapshotIsOfOneVersion, CutShows, RevokedAreGone, RefusedOnlyIfTorn
  <1>11. CASE WriteOther
    <2>1. /\ server = "up" /\ WriteState /\ ~writing.due
          /\ UNCHANGED <<sessionMemory, version, token, writing, server, revoked, storeFailures, storeCrashes>>
      BY <1>11 DEF WriteOther, Ready
    <2>2. writing \in [due : BOOLEAN, confirms : SUBSET Sessions] /\ writing.due \in BOOLEAN
      BY <1>0 DEF SessionTypes
    <2> QED
      BY <2>1, <2>2, WriteLemma
  <1>12. CASE StopServer
    <2>0. /\ server = "up" /\ ~writing.due /\ server' = "down"
          /\ UNCHANGED <<sessionMemory, version, token, writing, revoked, storeFailures, storeCrashes>>
      BY <1>12 DEF StopServer, Ready
    <2>1. writing \in [due : BOOLEAN, confirms : SUBSET Sessions] /\ writing.due \in BOOLEAN
      BY <1>0 DEF SessionTypes
    <2>2. CASE dirty
      <3>1. WriteState
        BY <1>12, <2>2 DEF StopServer
      <3> QED
        BY <2>0, <2>1, <3>1, WriteLemma
    <2>3. CASE ~dirty
      <3>1. UNCHANGED <<snapshot, table, dirty, torn>>
        BY <1>12, <2>3 DEF StopServer
      <3>2. SessionTypes'
        BY <1>0, <2>0, <3>1 DEF SessionTypes
      <3> QED
        BY <1>0, <2>0, <3>1, <3>2
        DEF SessionIInv, UpIsTable, SnapshotIsOfOneVersion, CutShows, RevokedAreGone, RefusedOnlyIfTorn
    <2> QED
      BY <2>2, <2>3
  <1>13. CASE CrashServer
    <2>0. /\ server' = "down" /\ torn' = (torn \/ writing.due) /\ writing' = NothingToWrite /\ dirty' = FALSE
          /\ storeCrashes < MaxStoreCrashes /\ storeCrashes' = storeCrashes + 1
          /\ UNCHANGED <<table, sessionMemory, version, snapshot, token, revoked, storeFailures>>
      BY <1>13 DEF CrashServer
    <2>1. /\ writing' \in [due : BOOLEAN, confirms : SUBSET Sessions] /\ writing'.due = FALSE
          /\ writing'.confirms = {} /\ torn' \in BOOLEAN /\ (~torn' => ~torn /\ ~writing.due)
      BY <1>0, <2>0 DEF NothingToWrite, SessionTypes
    <2>2. storeCrashes' \in 0..MaxStoreCrashes
      BY <1>0, <1>t, <2>0 DEF SessionTypes
    <2>3. SessionTypes'
      BY <1>0, <2>0, <2>1, <2>2 DEF SessionTypes
    <2>4. UpIsTable' /\ SnapshotIsOfOneVersion' /\ RevokedAreGone' /\ RefusedOnlyIfTorn'
      BY <1>0, <2>0, <2>1 DEF UpIsTable, SnapshotIsOfOneVersion, RevokedAreGone, RefusedOnlyIfTorn
    <2>5. CutShows'
      BY <1>0, <2>0, <2>1 DEF CutShows
    <2> QED
      BY <2>3, <2>4, <2>5 DEF SessionIInv
  <1>14. CASE StartServer
    <2>0. /\ server = "down" /\ ~writing.due
          /\ UNCHANGED <<table, snapshot, token, writing, revoked, torn, storeFailures, storeCrashes>>
      BY <1>0, <1>14 DEF StartServer, CutShows
    <2>1. CASE Reconcilable
      <3>0. /\ server' = "up" /\ version' = snapshot.version
            /\ sessionMemory' = [i \in DOMAIN snapshot.rows |-> LastSeen(snapshot.rows[i])]
            /\ dirty' = (sessionMemory' # snapshot.rows)
        BY <1>14, <2>1 DEF StartServer
      <3>1. SameIds(snapshot.rows, table)
        <4>1. Len(snapshot.rows) = Len(table) /\ Ids(snapshot.rows) = Ids(table)
          BY <2>1 DEF Reconcilable
        <4>2. \A i \in 1..Len(snapshot.rows) : \E k \in 1..Len(table) : table[k].id = snapshot.rows[i].id
          BY <1>i, <4>1 DEF Ids
        <4>3. \A k \in 1..Len(table) : \E i \in 1..Len(snapshot.rows) : snapshot.rows[i].id = table[k].id
          BY <1>i, <4>1 DEF Ids
        <4> QED
          BY <1>0, <1>t, <4>1, <4>2, <4>3, OrderedIsSame DEF CutShows
      <3>2. Len(snapshot.rows) = Len(table) /\ \A i \in 1..Len(table) : snapshot.rows[i].id = table[i].id
        BY <3>1 DEF SameIds
      <3>3. ASSUME NEW i \in 1..Len(table) PROVE LastSeen(snapshot.rows[i]) = table[i]
        <4>1. i \in DOMAIN table /\ table[i].id = snapshot.rows[i].id
          BY <1>i, <3>2
        <4>2. \A k \in DOMAIN table : table[k].id = snapshot.rows[i].id => k = i
          BY <1>i, <1>t, <4>1 DEF IsRows
        <4>3. (CHOOSE k \in DOMAIN table : table[k].id = snapshot.rows[i].id) = i
          BY <4>1, <4>2
        <4> QED
          BY <4>1, <4>3 DEF LastSeen
      <3>4. sessionMemory' = table
        <4>1. sessionMemory' = [i \in 1..Len(table) |-> table[i]]
          BY <1>i, <3>0, <3>2, <3>3
        <4> QED
          BY <1>i, <4>1
      <3>5. \A i \in 1..Len(table) : token[table[i].id] = snapshot.version
        BY <1>0, <3>2 DEF SnapshotIsOfOneVersion
      <3>6. SessionTypes'
        <4>1. dirty' \in BOOLEAN
          BY <3>0
        <4> QED
          BY <1>0, <2>0, <3>0, <3>4, <4>1 DEF SessionTypes
      <3> QED
        BY <1>0, <2>0, <3>0, <3>4, <3>5, <3>6
        DEF SessionIInv, UpIsTable, SnapshotIsOfOneVersion, CutShows, RevokedAreGone, RefusedOnlyIfTorn
    <2>2. CASE ~Reconcilable
      <3>0. server' = "refused" /\ UNCHANGED <<sessionMemory, version, dirty>>
        BY <1>14, <2>2 DEF StartServer
      <3>1. torn
        <4> SUFFICES ASSUME ~torn PROVE FALSE
          OBVIOUS
        <4>1. SameIds(snapshot.rows, table)
          BY <1>0, <2>0 DEF CutShows
        <4>2. Ids(snapshot.rows) = Ids(table)
          BY <1>i, <4>1 DEF SameIds, Ids
        <4> QED
          BY <2>2, <4>1, <4>2 DEF Reconcilable, SameIds
      <3>2. SessionTypes'
        BY <1>0, <2>0, <3>0 DEF SessionTypes
      <3> QED
        BY <1>0, <2>0, <3>0, <3>1, <3>2
        DEF SessionIInv, UpIsTable, SnapshotIsOfOneVersion, CutShows, RevokedAreGone, RefusedOnlyIfTorn
    <2> QED
      BY <2>1, <2>2
  <1>15. CASE UNCHANGED sessionVars
    <2>1. SessionTypes'
      BY <1>0, <1>15 DEF sessionVars, SessionTypes
    <2> QED
      BY <1>0, <1>15, <2>1
      DEF sessionVars, SessionIInv, UpIsTable, SnapshotIsOfOneVersion, CutShows, RevokedAreGone, RefusedOnlyIfTorn
  <1> QED
    BY <1>1, <1>3, <1>4, <1>5, <1>7, <1>8, <1>9, <1>10, <1>11, <1>12, <1>13, <1>14, <1>15 DEF SessionNext

----------------------------------------------------------------------------
(* Backups.  The rows in memory are those on disk at every moment; what is *)
(* present besides the snapshots they name belongs to the operation under  *)
(* way: the one that is made, or those that are left to remove.            *)

IsList(rows) ==
  rows \in Seq(Snapshots) /\ \A i, j \in 1..Len(rows) : rows[i] = rows[j] => i = j

Present == {s \in Snapshots : folder[s] # "none"} \ strays

BackupTypes ==
  /\ folder \in [Snapshots -> Folders] /\ platter \in [Snapshots -> Folders]
  /\ sealed \subseteq Snapshots /\ strays \subseteq Snapshots
  /\ IsList(history) /\ IsList(backup.removed)
  /\ schedule \in RetentionCounts \cup {Torn}
  /\ rowsKept = [history |-> history, schedule |-> rowsKept.schedule]
  /\ rowsKept.schedule \in RetentionCounts
  /\ backup \in [step : BackupSteps, id : Snapshots \cup {NoSnapshot}, removed : Seq(Snapshots)]
  /\ backupFailures \in 0..MaxBackupFailures /\ outages \in 0..MaxOutages

RowsNameWhole ==
  \A s \in ToSet(history) : folder[s] = "published" /\ platter[s] = "published" /\ s \in sealed

StraysAreThere == \A s \in strays : folder[s] # "none"

OnlyTheOperationsBesides ==
  /\ backup.step = "idle" => backup = IdleBackup /\ Present = ToSet(history)
  /\ backup.step \in {"writing", "flushed", "moved", "safe"} =>
       /\ backup.id \in Snapshots \ ToSet(history)
       /\ Present = ToSet(history) \cup {backup.id}
  /\ backup.step # "down" => StraysAreThere
  /\ backup.step \in {"flushed", "moved", "safe"} => backup.id \in sealed
  /\ backup.step \in {"moved", "safe"} => folder[backup.id] = "published"
  /\ backup.step = "safe" => platter[backup.id] = "published"
  /\ backup.step = "trimming" =>
       /\ ToSet(history) \cap ToSet(backup.removed) = {}
       /\ Present = ToSet(history) \cup ToSet(backup.removed)

BackupIInv == BackupTypes /\ RowsNameWhole /\ OnlyTheOperationsBesides

LEMMA ListFacts ==
  ASSUME NEW rows, IsList(rows)
  PROVE  /\ rows \in Seq(Snapshots) /\ Len(rows) \in Nat /\ DOMAIN rows = 1..Len(rows)
         /\ ToSet(rows) = {rows[i] : i \in 1..Len(rows)} /\ ToSet(rows) \subseteq Snapshots
         /\ \A s : Contains(rows, s) <=> s \in ToSet(rows)
  <1>1. rows \in Seq(Snapshots)
    BY DEF IsList
  <1>2. Len(rows) \in Nat /\ DOMAIN rows = 1..Len(rows) /\ \A i \in 1..Len(rows) : rows[i] \in Snapshots
    BY <1>1
  <1> QED
    BY <1>1, <1>2 DEF ToSet, Contains

LEMMA NoRows == IsList(<<>>) /\ ToSet(<<>>) = {}
  BY DEF IsList, ToSet

LEMMA OneRow ==
  ASSUME NEW s \in Snapshots
  PROVE  IsList(<<s>>) /\ ToSet(<<s>>) = {s}
  BY DEF IsList, ToSet

(* The first of some rows, and the rest.                                   *)
LEMMA FirstRow ==
  ASSUME NEW rows, IsList(rows), rows # <<>>
  PROVE  /\ Head(rows) \in ToSet(rows) /\ IsList(Tail(rows))
         /\ ToSet(Tail(rows)) = ToSet(rows) \ {Head(rows)}
  <1>1. rows \in Seq(Snapshots) /\ Len(rows) \in Nat \ {0} /\ DOMAIN rows = 1..Len(rows)
    BY ListFacts
  <1>2. PICK rest : rest = Tail(rows)
    OBVIOUS
  <1>3. /\ rest \in Seq(Snapshots) /\ Len(rest) = Len(rows) - 1
        /\ \A i \in 1..Len(rest) : rest[i] = rows[i + 1]
        /\ Head(rows) = rows[1]
    BY <1>1, <1>2
  <1>4. \A i, j \in 1..Len(rows) : rows[i] = rows[j] => i = j
    BY DEF IsList
  <1>5. IsList(rest)
    <2>1. ASSUME NEW i \in 1..Len(rest), NEW j \in 1..Len(rest), rest[i] = rest[j] PROVE i = j
      <3>1. i + 1 \in 1..Len(rows) /\ j + 1 \in 1..Len(rows) /\ rows[i + 1] = rows[j + 1]
        BY <1>1, <1>3, <2>1
      <3>2. i + 1 = j + 1
        BY <1>4, <3>1
      <3> QED
        BY <1>1, <1>3, <3>2
    <2> QED
      BY <1>3, <2>1 DEF IsList
  <1>6. ToSet(rest) = {rest[i] : i \in 1..Len(rest)} /\ ToSet(rows) = {rows[i] : i \in 1..Len(rows)}
    BY <1>5, ListFacts
  <1>7. ASSUME NEW s \in ToSet(rest) PROVE s \in ToSet(rows) \ {Head(rows)}
    <2>1. PICK i \in 1..Len(rest) : s = rest[i]
      BY <1>6, <1>7
    <2>2. i + 1 \in 1..Len(rows) /\ s = rows[i + 1] /\ i + 1 # 1 /\ 1 \in 1..Len(rows)
      BY <1>1, <1>3, <2>1
    <2> QED
      BY <1>3, <1>4, <1>6, <2>2
  <1>8. ASSUME NEW s \in ToSet(rows) \ {Head(rows)} PROVE s \in ToSet(rest)
    <2>1. PICK i \in 1..Len(rows) : s = rows[i]
      BY <1>6, <1>8
    <2>2. i # 1
      BY <1>3, <1>8, <2>1
    <2>3. i - 1 \in 1..Len(rest) /\ i - 1 + 1 = i
      BY <1>1, <1>3, <2>1, <2>2
    <2>4. rest[i - 1] = rows[i]
      BY <1>3, <2>3
    <2> QED
      BY <1>6, <2>1, <2>3, <2>4
  <1>9. Head(rows) \in ToSet(rows)
    BY <1>1, <1>3, <1>6
  <1> QED
    BY <1>2, <1>5, <1>7, <1>8, <1>9

LEMMA FirstPart ==
  ASSUME NEW S, NEW rows \in Seq(S), NEW m \in Nat, m <= Len(rows)
  PROVE  /\ SubSeq(rows, 1, m) \in Seq(S) /\ Len(SubSeq(rows, 1, m)) = m
         /\ \A i \in 1..m : SubSeq(rows, 1, m)[i] = rows[i]
  OBVIOUS

(* A snapshot that is added, and the oldest that go.                       *)
LEMMA NewestRows ==
  ASSUME NEW rows, IsList(rows), NEW s \in Snapshots \ ToSet(rows), NEW n \in Nat \ {0},
         NEW a, a = Newest(<<s>> \o rows, n), NEW b, b = RemovedEntries(rows, n)
  PROVE  /\ IsList(a) /\ IsList(b) /\ s \in ToSet(a)
         /\ ToSet(a) \cup ToSet(b) = ToSet(rows) \cup {s}
         /\ ToSet(a) \cap ToSet(b) = {} 
  <1>1. rows \in Seq(Snapshots) /\ Len(rows) \in Nat /\ ToSet(rows) = {rows[i] : i \in 1..Len(rows)}
    BY ListFacts
  <1>2. \A i, j \in 1..Len(rows) : rows[i] = rows[j] => i = j
    BY DEF IsList
  <1>3. PICK all : all = <<s>> \o rows
    OBVIOUS
  <1>4. /\ all \in Seq(Snapshots) /\ Len(all) = Len(rows) + 1 /\ all[1] = s
        /\ \A i \in 1..Len(rows) : all[i + 1] = rows[i]
    BY <1>1, <1>3
  <1>5. PICK m \in Nat : m = (IF Len(all) < n THEN Len(all) ELSE n) /\ 1 <= m /\ m <= Len(all) /\ m <= n
                         /\ (m = Len(rows) + 1 \/ m = n)
    BY <1>1, <1>4
  <1>6. a = SubSeq(all, 1, m)
    BY <1>3, <1>5 DEF Newest
  <1>7. a \in Seq(Snapshots) /\ Len(a) = m /\ \A i \in 1..m : a[i] = all[i]
    <2>1. all \in Seq(Snapshots) /\ m \in Nat /\ m <= Len(all)
      BY <1>4, <1>5
    <2>2. /\ SubSeq(all, 1, m) \in Seq(Snapshots) /\ Len(SubSeq(all, 1, m)) = m
          /\ \A i \in 1..m : SubSeq(all, 1, m)[i] = all[i]
      BY <2>1, FirstPart
    <2> QED
      BY <1>6, <2>2
  <1>8. b = SubSeq(rows, n, Len(rows))
    BY DEF RemovedEntries
  <1>9. /\ b \in Seq(Snapshots) /\ Len(b) = (IF n <= Len(rows) THEN Len(rows) - n + 1 ELSE 0)
        /\ \A i \in 1..Len(b) : b[i] = rows[i + n - 1]
    BY <1>1, <1>8
  <1>10. \A i, j \in 1..Len(all) : all[i] = all[j] => i = j
    <2> SUFFICES ASSUME NEW i \in 1..Len(all), NEW j \in 1..Len(all), all[i] = all[j] PROVE i = j
      OBVIOUS
    <2>1. (i = 1 \/ i - 1 \in 1..Len(rows)) /\ (j = 1 \/ j - 1 \in 1..Len(rows)) /\ i \in Nat /\ j \in Nat
      BY <1>1, <1>4
    <2>2. /\ i # 1 => all[i] = rows[i - 1] /\ all[i] \in ToSet(rows)
          /\ j # 1 => all[j] = rows[j - 1] /\ all[j] \in ToSet(rows)
      <3>1. ASSUME NEW k \in 1..Len(rows) PROVE all[k + 1] = rows[k] /\ rows[k] \in ToSet(rows)
        BY <1>1, <1>4
      <3>2. i # 1 => i - 1 \in 1..Len(rows) /\ i - 1 + 1 = i
        BY <2>1
      <3>3. j # 1 => j - 1 \in 1..Len(rows) /\ j - 1 + 1 = j
        BY <2>1
      <3> QED
        BY <3>1, <3>2, <3>3
    <2>3. CASE i = 1 \/ j = 1
      BY <1>4, <2>2, <2>3
    <2>4. CASE i # 1 /\ j # 1
      <3>1. i - 1 = j - 1
        BY <1>2, <2>1, <2>2, <2>4
      <3> QED
        BY <2>1, <3>1
    <2> QED
      BY <2>3, <2>4
  <1>11. IsList(a)
    <2>1. ASSUME NEW i \in 1..Len(a), NEW j \in 1..Len(a), a[i] = a[j] PROVE i = j
      <3>1. i \in 1..m /\ j \in 1..m /\ i \in 1..Len(all) /\ j \in 1..Len(all)
        BY <1>4, <1>5, <1>7
      <3>2. all[i] = all[j]
        BY <1>7, <2>1, <3>1
      <3> QED
        BY <1>10, <3>1, <3>2
    <2> QED
      BY <1>7, <2>1 DEF IsList
  <1>12. \A i \in 1..Len(b) : i + n \in 1..Len(all) /\ b[i] = all[i + n] /\ i + n > m
    <2> SUFFICES ASSUME NEW i \in 1..Len(b) PROVE i + n \in 1..Len(all) /\ b[i] = all[i + n] /\ i + n > m
      OBVIOUS
    <2>1. i \in Nat /\ 1 <= i /\ n <= Len(rows) /\ i <= Len(rows) - n + 1
      BY <1>1, <1>9
    <2>2. i + n - 1 \in 1..Len(rows) /\ (i + n - 1) + 1 = i + n /\ i + n \in 1..Len(all) /\ i + n > m
      BY <1>1, <1>4, <1>5, <2>1
    <2>3. \A k \in 1..Len(rows) : all[k + 1] = rows[k]
      BY <1>4
    <2>4. all[(i + n - 1) + 1] = rows[i + n - 1]
      BY <2>2, <2>3
    <2> QED
      BY <1>9, <2>2, <2>4
  <1>13. IsList(b)
    <2>1. ASSUME NEW i \in 1..Len(b), NEW j \in 1..Len(b), b[i] = b[j] PROVE i = j
      <3>1. i + n = j + n
        BY <1>10, <1>12, <2>1
      <3> QED
        BY <1>9, <3>1
    <2> QED
      BY <1>9, <2>1 DEF IsList
  <1>14. ToSet(a) = {a[i] : i \in 1..Len(a)} /\ ToSet(b) = {b[i] : i \in 1..Len(b)}
    <2>1. ToSet(a) = {a[i] : i \in 1..Len(a)}
      BY <1>11, ListFacts
    <2>2. ToSet(b) = {b[i] : i \in 1..Len(b)}
      BY <1>13, ListFacts
    <2> QED
      BY <2>1, <2>2
  <1>15. s \in ToSet(a)
    BY <1>4, <1>5, <1>7, <1>14
  <1>16. ToSet(a) \cap ToSet(b) = {}
    <2> SUFFICES ASSUME NEW i \in 1..Len(a), NEW j \in 1..Len(b), a[i] = b[j] PROVE FALSE
      BY <1>14
    <2>0. a[i] = all[i] /\ b[j] = all[j + n]
      BY <1>7, <1>12
    <2>1. i \in 1..Len(all) /\ i <= m /\ all[i] = all[j + n]
      <3>1. i \in Nat /\ 1 <= i /\ i <= m
        BY <1>5, <1>7
      <3> QED
        <4>1. m <= Len(all) /\ Len(all) \in Nat
          BY <1>1, <1>4, <1>5
        <4>2. i \in 1..Len(all) /\ i <= m
          <5> HIDE DEF IsList
          <5> QED
            BY <3>1, <4>1
        <4>3. all[i] = all[j + n]
          BY <2>0, Zenon
        <4> QED
          BY <4>2, <4>3
    <2>2. j + n \in 1..Len(all) /\ j + n > m
      BY <1>12
    <2>3. i = j + n
      BY <1>10, <2>1, <2>2
    <2> QED
      BY <1>5, <2>1, <2>2, <2>3
  <1>17. ASSUME NEW x \in ToSet(a) \cup ToSet(b) PROVE x \in ToSet(rows) \cup {s}
    <2>1. PICK i \in 1..Len(all) : x = all[i]
      <3>1. \A i \in 1..Len(a) : i \in 1..Len(all) /\ a[i] = all[i]
        BY <1>4, <1>5, <1>7
      <3> QED
        BY <1>12, <1>14, <1>17, <3>1
    <2>2. CASE i = 1
      BY <1>4, <2>1, <2>2
    <2>3. CASE i # 1
      <3>1. i - 1 \in 1..Len(rows) /\ (i - 1) + 1 = i
        BY <1>1, <1>4, <2>3
      <3>2. \A k \in 1..Len(rows) : all[k + 1] = rows[k]
        BY <1>4
      <3>3. all[(i - 1) + 1] = rows[i - 1]
        BY <3>1, <3>2
      <3> QED
        BY <1>1, <2>1, <3>1, <3>3
    <2> QED
      BY <2>2, <2>3
  <1>18. ASSUME NEW k \in 1..Len(rows) PROVE rows[k] \in ToSet(a) \cup ToSet(b)
    <2>1. CASE k + 1 <= m
      <3>1. k + 1 \in 1..m
        BY <1>1, <1>5, <2>1
      <3>2. a[k + 1] = all[k + 1]
        BY <1>7, <3>1
      <3> QED
        BY <1>4, <1>7, <1>14, <3>1, <3>2
    <2>2. CASE ~(k + 1 <= m)
      <3>1. m = n /\ n <= Len(rows) /\ k - n + 1 \in 1..Len(b) /\ (k - n + 1) + n - 1 = k
        BY <1>1, <1>4, <1>5, <1>9, <2>2
      <3>2. b[k - n + 1] = rows[(k - n + 1) + n - 1]
        BY <1>9, <3>1
      <3> QED
        BY <1>14, <3>1, <3>2
    <2> QED
      BY <2>1, <2>2
  <1>19. ToSet(a) \cup ToSet(b) = ToSet(rows) \cup {s}
    <2>1. ASSUME NEW x \in ToSet(rows) \cup {s} PROVE x \in ToSet(a) \cup ToSet(b)
      BY <1>1, <1>15, <1>18, <2>1
    <2> QED
      BY <1>17, <2>1
  <1> QED
    BY <1>11, <1>13, <1>15, <1>16, <1>19

(* The rows without one.                                                   *)
LEMMA WithoutRows ==
  ASSUME NEW rows, IsList(rows), NEW s, NEW r, r = Without(rows, s)
  PROVE  IsList(r) /\ ToSet(r) = ToSet(rows) \ {s}
  <1> DEFINE Left(g, n) == IF n = 0 THEN <<>>
                           ELSE IF rows[n] = s THEN g[n - 1] ELSE Append(g[n - 1], rows[n])
             Gone == {n \in 1..Len(rows) : rows[n] = s}
  <1>0. rows \in Seq(Snapshots) /\ Len(rows) \in Nat
    BY ListFacts
  <1>1. PICK f \in [0..Len(rows) -> Seq(Snapshots)] : Skims(f, rows, Gone, Len(rows))
    BY <1>0, SkimExists
  <1>2. f = [n \in 0..Len(rows) |-> Left(f, n)]
    <2>1. ASSUME NEW n \in 0..Len(rows) PROVE f[n] = Left(f, n)
      <3>1. n = 0 \/ (n # 0 /\ n \in 1..Len(rows))
        BY <1>0
      <3> QED
        BY <1>1, <3>1 DEF Skims
    <2> HIDE DEF Left
    <2> QED
      BY <2>1
  <1>3. PICK g : /\ g = [n \in 0..Len(rows) |-> Left(g, n)]
                 /\ Without(rows, s) = g[Len(rows)]
    BY <1>2 DEF Without
  <1>4. DOMAIN g = 0..Len(rows) /\ \A n \in 0..Len(rows) : g[n] = Left(g, n)
    <2> HIDE DEF Left
    <2> QED
      BY <1>3
  <1>5. g[0] = <<>> /\ g = [n \in 0..Len(rows) |-> g[n]]
    <2>1. g[0] = <<>>
      BY <1>0, <1>4
    <2> HIDE DEF Left
    <2>2. g = [n \in 0..Len(rows) |-> g[n]]
      BY <1>3, <1>4
    <2> QED
      BY <2>1, <2>2
  <1>6. ASSUME NEW n \in 1..Len(rows)
        PROVE  g[n] = IF n \in Gone THEN g[n-1] ELSE Append(g[n-1], rows[n])
    <2>1. n \in 0..Len(rows) /\ n # 0 /\ (n \in Gone <=> rows[n] = s)
      BY <1>0
    <2>2. g[n] = Left(g, n)
      BY <1>4, <2>1
    <2> HIDE DEF Gone
    <2> QED
      BY <2>1, <2>2
  <1>7. g \in [0..Len(rows) -> Seq(Snapshots)] /\ Skims(g, rows, Gone, Len(rows))
    <2> HIDE DEF Gone, Left
    <2> QED
      BY <1>0, <1>4, <1>5, <1>6, SkimIsRecursion
  <1>9. r \in Seq(Snapshots) /\ \E at : Picks(r, rows, (1..Len(rows)) \ Gone, at)
    <2> HIDE DEF Gone, Left
    <2>1. /\ g[Len(rows)] \in Seq(Snapshots)
          /\ \E at : Picks(g[Len(rows)], rows, (1..Len(rows)) \ Gone, at)
      BY <1>0, <1>7, SkimPicks
    <2>2. r = g[Len(rows)]
      BY <1>3
    <2> QED
      BY <2>1, <2>2
  <1>10. PICK at : Picks(r, rows, (1..Len(rows)) \ Gone, at)
    BY <1>9
  <1>11. /\ \A i \in 1..Len(r) : at[i] \in 1..Len(rows) /\ r[i] = rows[at[i]] /\ rows[at[i]] # s
         /\ \A i, j \in 1..Len(r) : i < j => at[i] < at[j]
         /\ \A n \in 1..Len(rows) : rows[n] # s => \E i \in 1..Len(r) : at[i] = n
    BY <1>10 DEF Picks
  <1> HIDE DEF Gone, Left
  <1>12. \A i, j \in 1..Len(r) : at[i] = at[j] => i = j
    <2> SUFFICES ASSUME NEW i \in 1..Len(r), NEW j \in 1..Len(r), at[i] = at[j], i # j PROVE FALSE
      OBVIOUS
    <2>1. i < j \/ j < i
      BY <1>9
    <2> QED
      BY <1>11, <2>1
  <1>13. IsList(r)
    <2>1. \A i, j \in 1..Len(rows) : rows[i] = rows[j] => i = j
      BY DEF IsList
    <2> QED
      BY <1>9, <1>11, <1>12, <2>1 DEF IsList
  <1>14. ToSet(r) = {r[i] : i \in 1..Len(r)} /\ ToSet(rows) = {rows[i] : i \in 1..Len(rows)}
    BY <1>13, ListFacts
  <1>15. ASSUME NEW x \in ToSet(rows) \ {s} PROVE x \in ToSet(r)
    <2>1. PICK n \in 1..Len(rows) : rows[n] = x /\ rows[n] # s
      BY <1>14, <1>15
    <2>2. PICK i \in 1..Len(r) : at[i] = n
      BY <1>11, <2>1
    <2> QED
      BY <1>11, <1>14, <2>1, <2>2
  <1>16. ASSUME NEW x \in ToSet(r) PROVE x \in ToSet(rows) \ {s}
    <2>1. PICK i \in 1..Len(r) : r[i] = x
      BY <1>14, <1>16
    <2>2. at[i] \in 1..Len(rows) /\ x = rows[at[i]] /\ x # s
      BY <1>11, <2>1
    <2> QED
      BY <1>14, <2>2
  <1> QED
    BY <1>13, <1>15, <1>16

----------------------------------------------------------------------------
(* The steps.                                                              *)

LEMMA BackupInitIInv == BackupInit => BackupIInv
  <1> SUFFICES ASSUME BackupInit PROVE BackupIInv
    OBVIOUS
  <1>1. history = <<>> /\ backup = IdleBackup /\ backup.removed = <<>> /\ backup.step = "idle"
    BY DEF BackupInit, IdleBackup
  <1>2. ToSet(history) = {} /\ IsList(history) /\ IsList(backup.removed)
    BY <1>1, NoRows
  <1>3. Present = {} /\ strays = {}
    BY DEF BackupInit, Present
  <1>4. BackupTypes
    <2>1. backup \in [step : BackupSteps, id : Snapshots \cup {NoSnapshot}, removed : Seq(Snapshots)]
      BY DEF BackupInit, IdleBackup, BackupSteps
    <2>2. folder \in [Snapshots -> Folders] /\ platter \in [Snapshots -> Folders]
      BY DEF BackupInit, Folders
    <2>3. rowsKept = [history |-> history, schedule |-> rowsKept.schedule] /\ rowsKept.schedule \in RetentionCounts
      BY DEF BackupInit
    <2>4. backupFailures \in 0..MaxBackupFailures /\ outages \in 0..MaxOutages
      BY BackupBoundsAssumption DEF BackupInit
    <2> QED
      BY <1>2, <2>1, <2>2, <2>3, <2>4 DEF BackupInit, BackupTypes
  <1> QED
    BY <1>1, <1>2, <1>3, <1>4 DEF BackupIInv, RowsNameWhole, OnlyTheOperationsBesides, StraysAreThere

(* Its property.                                                           *)
LEMMA BackupIsSound == BackupIInv => BackupsAreSound
  <1> SUFFICES ASSUME BackupIInv PROVE BackupsAreSound
    OBVIOUS
  <1>1. rowsKept.history = history
    BY DEF BackupIInv, BackupTypes
  <1>2. backup = IdleBackup => ToSet(history) = Present
    BY DEF BackupIInv, OnlyTheOperationsBesides, IdleBackup
  <1> QED
    BY <1>1, <1>2 DEF BackupIInv, RowsNameWhole, BackupsAreSound, Present

(* The state is written, or it is not.                                     *)
LEMMA PersistsRows ==
  ASSUME BackupTypes, NEW rows, NEW plan \in RetentionCounts \cup {Torn}, Persists(rows, plan)
  PROVE  /\ rowsKept' = [history |-> rows, schedule |-> rowsKept'.schedule]
         /\ rowsKept'.schedule \in RetentionCounts /\ plan \in RetentionCounts
         /\ backupFailures' \in 0..MaxBackupFailures
  BY RetentionAssumption DEF BackupTypes, Persists

LEMMA FailureTypes ==
  ASSUME BackupTypes, NEW plan, FailsToPersist(plan)
  PROVE  rowsKept' = rowsKept /\ backupFailures' \in 0..MaxBackupFailures
  BY BackupBoundsAssumption DEF BackupTypes, FailsToPersist

(* The operation under way in its next step.                               *)
LEMMA OperationMoves ==
  ASSUME NEW b \in [step : BackupSteps, id : Snapshots \cup {NoSnapshot}, removed : Seq(Snapshots)],
         NEW st \in BackupSteps
  PROVE  /\ [b EXCEPT !.step = st] \in [step : BackupSteps, id : Snapshots \cup {NoSnapshot}, removed : Seq(Snapshots)]
         /\ [b EXCEPT !.step = st].step = st /\ [b EXCEPT !.step = st].id = b.id
         /\ [b EXCEPT !.step = st].removed = b.removed
  OBVIOUS

(* A snapshot that is discarded.                                           *)
LEMMA DiscardLeaves ==
  ASSUME BackupTypes, NEW s \in Snapshots \ strays, Discard(s), s \notin ToSet(history), RowsNameWhole,
         UNCHANGED <<platter, history, strays>>
  PROVE  /\ folder' \in [Snapshots -> Folders] /\ sealed' \subseteq Snapshots
         /\ Present' = Present \ {s} /\ RowsNameWhole'
         /\ \A u \in strays : folder'[u] = folder[u]
  <1>1. folder' = [folder EXCEPT ![s] = "none"] /\ sealed' = sealed \ {s}
    BY DEF Discard
  <1>2. folder \in [Snapshots -> Folders] /\ ToSet(history) \subseteq Snapshots /\ sealed \subseteq Snapshots
    BY ListFacts DEF BackupTypes
  <1>3. folder'[s] = "none" /\ \A u \in Snapshots \ {s} : folder'[u] = folder[u]
    BY <1>1, <1>2
  <1>4. folder' \in [Snapshots -> Folders]
    BY <1>1, <1>2 DEF Folders
  <1>5. Present' = Present \ {s}
    BY <1>3 DEF Present
  <1>6. RowsNameWhole'
    BY <1>1, <1>2, <1>3 DEF RowsNameWhole
  <1> QED
    BY <1>1, <1>2, <1>3, <1>4, <1>5, <1>6 DEF BackupTypes

IdleFacts == IdleBackup.step = "idle" /\ IdleBackup.id = NoSnapshot /\ IdleBackup.removed = <<>>

LEMMA Idles ==
  /\ IdleFacts /\ IsList(IdleBackup.removed)
  /\ IdleBackup \in [step : BackupSteps, id : Snapshots \cup {NoSnapshot}, removed : Seq(Snapshots)]
  BY NoRows DEF IdleFacts, IdleBackup, BackupSteps

LEMMA BackupNextIInv == BackupIInv /\ [BackupNext]_backupVars => BackupIInv'
  <1> SUFFICES ASSUME BackupIInv, [BackupNext]_backupVars PROVE BackupIInv'
    OBVIOUS
  <1>0. BackupTypes /\ RowsNameWhole /\ OnlyTheOperationsBesides
    BY DEF BackupIInv
  <1>t. /\ folder \in [Snapshots -> Folders] /\ platter \in [Snapshots -> Folders]
        /\ sealed \subseteq Snapshots /\ strays \subseteq Snapshots
        /\ IsList(history) /\ IsList(backup.removed)
        /\ schedule \in RetentionCounts \cup {Torn}
        /\ rowsKept = [history |-> history, schedule |-> rowsKept.schedule]
        /\ rowsKept.history = history /\ rowsKept.schedule \in RetentionCounts
        /\ backup \in [step : BackupSteps, id : Snapshots \cup {NoSnapshot}, removed : Seq(Snapshots)]
        /\ backupFailures \in 0..MaxBackupFailures /\ outages \in 0..MaxOutages
        /\ ToSet(history) \subseteq Snapshots /\ \A s : Contains(history, s) <=> s \in ToSet(history)
    BY <1>0, ListFacts DEF BackupTypes
  <1>b. /\ MaxBackupFailures \in Nat /\ MaxOutages \in Nat
        /\ {"idle", "writing", "flushed", "moved", "safe", "trimming", "down"} = BackupSteps
    BY BackupBoundsAssumption DEF BackupSteps
  <1>1. ASSUME NEW s \in Snapshots, BeginSnapshot(s) PROVE BackupIInv'
    <2>0. /\ backup = IdleBackup /\ folder[s] = "none" /\ s \notin ToSet(history)
          /\ Persists(history, schedule) /\ folder' = [folder EXCEPT ![s] = "staging"]
          /\ backup' = [backup EXCEPT !.step = "writing", !.id = s]
          /\ UNCHANGED <<platter, sealed, history, schedule, outages, strays>>
      BY <1>1, <1>t DEF BeginSnapshot, Steady
    <2>1. backup.step = "idle" /\ Present = ToSet(history) /\ StraysAreThere
      BY <1>0, <2>0, Idles DEF OnlyTheOperationsBesides, IdleFacts
    <2>2. /\ backup' \in [step : BackupSteps, id : Snapshots \cup {NoSnapshot}, removed : Seq(Snapshots)]
          /\ backup'.step = "writing" /\ backup'.id = s /\ backup'.removed = backup.removed
      BY <1>t, <1>b, <2>0
    <2>3. folder' \in [Snapshots -> Folders] /\ folder'[s] = "staging"
          /\ \A u \in Snapshots \ {s} : folder'[u] = folder[u]
      BY <1>t, <2>0 DEF Folders
    <2>4. Present' = ToSet(history) \cup {s} /\ StraysAreThere'
      BY <1>t, <2>0, <2>1, <2>3 DEF Present, StraysAreThere
    <2>5. BackupTypes'
      BY <1>0, <1>t, <2>0, <2>2, <2>3, PersistsRows DEF BackupTypes
    <2>6. RowsNameWhole'
      BY <1>0, <1>t, <2>0, <2>3 DEF RowsNameWhole
    <2>7. OnlyTheOperationsBesides'
      BY <2>0, <2>2, <2>4 DEF OnlyTheOperationsBesides
    <2> QED
      BY <2>5, <2>6, <2>7 DEF BackupIInv
  <1>2. ASSUME NEW s \in Snapshots, DeleteSnapshot(s) PROVE BackupIInv'
    <2>0. /\ backup = IdleBackup /\ s \in ToSet(history)
          /\ UNCHANGED <<folder, platter, sealed, schedule, outages, strays>>
      BY <1>2, <1>t DEF DeleteSnapshot, Steady
    <2>1. backup.step = "idle" /\ Present = ToSet(history) /\ StraysAreThere
      BY <1>0, <2>0, Idles DEF OnlyTheOperationsBesides, IdleFacts
    <2>2. PICK rows : rows = Without(history, s)
      OBVIOUS
    <2>3. IsList(rows) /\ ToSet(rows) = ToSet(history) \ {s}
      BY <1>t, <2>2, WithoutRows
    <2>4. CASE /\ Persists(rows, schedule) /\ history' = rows
               /\ backup' = [backup EXCEPT !.step = "trimming", !.removed = <<s>>]
      <3>1. <<s>> \in Seq(Snapshots) /\ IsList(<<s>>) /\ ToSet(<<s>>) = {s}
        BY OneRow
      <3>2. /\ backup' \in [step : BackupSteps, id : Snapshots \cup {NoSnapshot}, removed : Seq(Snapshots)]
            /\ backup'.step = "trimming" /\ backup'.removed = <<s>>
        BY <1>t, <1>b, <2>4, <3>1
      <3>3. IsList(backup'.removed) /\ ToSet(backup'.removed) = {s} /\ IsList(history')
            /\ ToSet(history') = ToSet(history) \ {s}
        BY <2>3, <2>4, <3>1, <3>2
      <3>4. BackupTypes'
        BY <1>0, <1>t, <2>0, <2>4, <3>2, <3>3, PersistsRows DEF BackupTypes
      <3>5. RowsNameWhole'
        BY <1>0, <2>0, <3>3 DEF RowsNameWhole
      <3>6. Present' = ToSet(history') \cup {s} /\ StraysAreThere'
        BY <2>0, <2>1, <3>3 DEF Present, StraysAreThere
      <3>7. OnlyTheOperationsBesides'
        BY <3>2, <3>3, <3>6 DEF OnlyTheOperationsBesides
      <3> QED
        BY <3>4, <3>5, <3>7 DEF BackupIInv
    <2>5. CASE FailsToPersist(schedule) /\ UNCHANGED <<history, backup>>
      <3>1. BackupTypes'
        BY <1>0, <1>t, <2>0, <2>5, FailureTypes DEF BackupTypes
      <3>2. RowsNameWhole' /\ OnlyTheOperationsBesides'
        BY <1>0, <2>0, <2>5 DEF RowsNameWhole, OnlyTheOperationsBesides, Present, StraysAreThere
      <3> QED
        BY <3>1, <3>2 DEF BackupIInv
    <2> QED
      BY <1>2, <2>2, <2>4, <2>5 DEF DeleteSnapshot
  <1>3. CASE WriteFiles
    <2>0. /\ backup.step = "writing" /\ sealed' = sealed \cup {backup.id}
          /\ backup' = [backup EXCEPT !.step = "flushed"]
          /\ UNCHANGED <<folder, platter, history, schedule, rowsKept, backupFailures, outages, strays>>
      BY <1>3 DEF WriteFiles, Steady
    <2>1. backup.id \in Snapshots \ ToSet(history) /\ Present = ToSet(history) \cup {backup.id}
      BY <1>0, <2>0 DEF OnlyTheOperationsBesides
    <2>2. /\ backup' \in [step : BackupSteps, id : Snapshots \cup {NoSnapshot}, removed : Seq(Snapshots)]
          /\ backup'.step = "flushed" /\ backup'.id = backup.id /\ backup'.removed = backup.removed
      BY <1>t, <1>b, <2>0
    <2>3. BackupTypes'
      BY <1>t, <2>0, <2>1, <2>2 DEF BackupTypes
    <2>4. RowsNameWhole' /\ OnlyTheOperationsBesides'
      BY <1>0, <2>0, <2>1, <2>2 DEF RowsNameWhole, OnlyTheOperationsBesides, Present, StraysAreThere
    <2> QED
      BY <2>3, <2>4 DEF BackupIInv
  <1>4. CASE PublishSnapshot
    <2>0. /\ backup.step = "flushed" /\ folder' = [folder EXCEPT ![backup.id] = "published"]
          /\ backup' = [backup EXCEPT !.step = "moved"]
          /\ UNCHANGED <<platter, sealed, history, schedule, rowsKept, backupFailures, outages, strays>>
      BY <1>4 DEF PublishSnapshot, Steady
    <2>1. /\ backup.id \in Snapshots \ ToSet(history) /\ Present = ToSet(history) \cup {backup.id}
          /\ backup.id \in sealed /\ StraysAreThere
      BY <1>0, <2>0 DEF OnlyTheOperationsBesides
    <2>2. /\ backup' \in [step : BackupSteps, id : Snapshots \cup {NoSnapshot}, removed : Seq(Snapshots)]
          /\ backup'.step = "moved" /\ backup'.id = backup.id /\ backup'.removed = backup.removed
      BY <1>t, <1>b, <2>0
    <2>3. folder' \in [Snapshots -> Folders] /\ folder'[backup.id] = "published"
          /\ \A u \in Snapshots \ {backup.id} : folder'[u] = folder[u]
      BY <1>t, <2>0, <2>1 DEF Folders
    <2>4. Present' = Present /\ StraysAreThere'
      BY <1>t, <2>0, <2>1, <2>3 DEF Present, StraysAreThere
    <2>5. BackupTypes'
      BY <1>t, <2>0, <2>2, <2>3 DEF BackupTypes
    <2>6. RowsNameWhole'
      BY <1>0, <1>t, <2>0, <2>1, <2>3 DEF RowsNameWhole
    <2>7. OnlyTheOperationsBesides'
      BY <2>0, <2>1, <2>2, <2>3, <2>4 DEF OnlyTheOperationsBesides
    <2> QED
      BY <2>5, <2>6, <2>7 DEF BackupIInv
  <1>5. CASE FlushFolders
    <2>0. /\ backup.step = "moved" /\ platter' = folder /\ backup' = [backup EXCEPT !.step = "safe"]
          /\ UNCHANGED <<folder, sealed, history, schedule, rowsKept, backupFailures, outages, strays>>
      BY <1>5 DEF FlushFolders, Steady
    <2>1. /\ backup' \in [step : BackupSteps, id : Snapshots \cup {NoSnapshot}, removed : Seq(Snapshots)]
          /\ backup'.step = "safe" /\ backup'.id = backup.id /\ backup'.removed = backup.removed
      BY <1>t, <1>b, <2>0
    <2>2. BackupTypes'
      BY <1>t, <2>0, <2>1 DEF BackupTypes
    <2>3. RowsNameWhole' /\ OnlyTheOperationsBesides'
      BY <1>0, <2>0, <2>1 DEF RowsNameWhole, OnlyTheOperationsBesides, Present, StraysAreThere
    <2> QED
      BY <2>2, <2>3 DEF BackupIInv
  <1>6. ASSUME NEW kept, kept = rowsKept', kept = rowsKept, backupFailures' \in 0..MaxBackupFailures,
               backup.step \in {"writing", "flushed", "moved", "safe"}, Discard(backup.id),
               backup' = IdleBackup, UNCHANGED <<platter, history, schedule, outages, strays>>
        PROVE  BackupIInv'
    <2>1. /\ backup.id \in Snapshots \ ToSet(history) /\ Present = ToSet(history) \cup {backup.id}
          /\ StraysAreThere
      BY <1>0, <1>6 DEF OnlyTheOperationsBesides
    <2>2. PICK s \in Snapshots \ strays : s = backup.id
      BY <2>1 DEF Present
    <2>3. /\ folder' \in [Snapshots -> Folders] /\ sealed' \subseteq Snapshots
          /\ Present' = Present \ {s} /\ RowsNameWhole' /\ \A u \in strays : folder'[u] = folder[u]
      BY <1>0, <1>6, <2>1, <2>2, DiscardLeaves
    <2>4. BackupTypes'
      BY <1>t, <1>6, <2>3, Idles DEF BackupTypes
    <2>5. OnlyTheOperationsBesides'
      BY <1>6, <2>1, <2>2, <2>3, Idles DEF OnlyTheOperationsBesides, IdleFacts, StraysAreThere
    <2> QED
      BY <2>3, <2>4, <2>5 DEF BackupIInv
  <1>7. CASE SnapshotFails
    <2>1. backupFailures' \in 0..MaxBackupFailures
      BY <1>7, <1>t, <1>b DEF SnapshotFails
    <2>2. /\ backup.step \in {"writing", "flushed", "moved", "safe"} /\ Discard(backup.id)
          /\ backup' = IdleBackup /\ UNCHANGED <<platter, history, schedule, outages, strays, rowsKept>>
      BY <1>7 DEF SnapshotFails, Steady
    <2> QED
      BY <1>6, <2>1, <2>2
  <1>8. CASE ListSnapshot
    <2>0. backup.step = "safe" /\ UNCHANGED <<platter, schedule, outages, strays>>
      BY <1>8 DEF ListSnapshot, Steady
    <2>1. PICK s \in Snapshots \ ToSet(history) :
            s = backup.id /\ Present = ToSet(history) \cup {s} /\ folder[s] = "published"
            /\ platter[s] = "published" /\ s \in sealed /\ StraysAreThere
      BY <1>0, <2>0 DEF OnlyTheOperationsBesides
    <2>2. PICK rows : rows = Newest(<<s>> \o history, schedule)
      OBVIOUS
    <2>3. PICK rest : rest = RemovedEntries(history, schedule)
      OBVIOUS
    <2>4. CASE /\ Persists(rows, schedule) /\ history' = rows
               /\ backup' = [backup EXCEPT !.step = "trimming", !.removed = rest]
               /\ UNCHANGED <<folder, sealed>>
      <3>1. /\ rowsKept' = [history |-> rows, schedule |-> rowsKept'.schedule]
            /\ rowsKept'.schedule \in RetentionCounts /\ schedule \in RetentionCounts
            /\ backupFailures' \in 0..MaxBackupFailures
        BY <1>0, <1>t, <2>4, PersistsRows
      <3>2. PICK n \in Nat \ {0} : n = schedule
        BY <3>1, RetentionAssumption
      <3>3. /\ IsList(rows) /\ IsList(rest) /\ s \in ToSet(rows)
            /\ ToSet(rows) \cup ToSet(rest) = ToSet(history) \cup {s}
            /\ ToSet(rows) \cap ToSet(rest) = {}
        <4>1. rows = Newest(<<s>> \o history, n) /\ rest = RemovedEntries(history, n) /\ IsList(history)
          BY <1>t, <2>2, <2>3, <3>2
        <4> QED
          BY <4>1, NewestRows
      <3>4. rest \in Seq(Snapshots)
        BY <3>3 DEF IsList
      <3>5. /\ backup' \in [step : BackupSteps, id : Snapshots \cup {NoSnapshot}, removed : Seq(Snapshots)]
            /\ backup'.step = "trimming" /\ backup'.removed = rest
        BY <1>t, <1>b, <2>4, <3>4
      <3>6. BackupTypes'
        BY <1>t, <2>0, <2>4, <3>1, <3>3, <3>5 DEF BackupTypes
      <3>7. RowsNameWhole'
        BY <1>0, <2>0, <2>1, <2>4, <3>3 DEF RowsNameWhole
      <3>8. OnlyTheOperationsBesides'
        BY <2>0, <2>1, <2>4, <3>3, <3>5 DEF OnlyTheOperationsBesides, Present, StraysAreThere
      <3> QED
        BY <3>6, <3>7, <3>8 DEF BackupIInv
    <2>5. CASE FailsToPersist(schedule) /\ Discard(backup.id) /\ backup' = IdleBackup /\ UNCHANGED history
      <3>1. rowsKept' = rowsKept /\ backupFailures' \in 0..MaxBackupFailures
        BY <1>0, <2>5, FailureTypes
      <3> QED
        BY <1>6, <2>0, <2>5, <3>1
    <2> QED
      BY <1>8, <2>1, <2>2, <2>3, <2>4, <2>5 DEF ListSnapshot
  <1>9. CASE RemoveFiles
    <2>0. /\ backup.step = "trimming" /\ backup.removed # <<>> /\ Discard(Head(backup.removed))
          /\ backup' = [backup EXCEPT !.removed = Tail(backup.removed)]
          /\ UNCHANGED <<platter, history, schedule, rowsKept, backupFailures, outages, strays>>
      BY <1>9 DEF RemoveFiles, Steady
    <2>1. /\ ToSet(history) \cap ToSet(backup.removed) = {} /\ StraysAreThere
          /\ Present = ToSet(history) \cup ToSet(backup.removed)
      BY <1>0, <2>0 DEF OnlyTheOperationsBesides
    <2>2. PICK rows : rows = backup.removed
      OBVIOUS
    <2>3. PICK s, rest : s = Head(rows) /\ rest = Tail(rows)
      OBVIOUS
    <2>4. s \in ToSet(rows) /\ IsList(rest) /\ ToSet(rest) = ToSet(rows) \ {s} /\ ToSet(rows) \subseteq Snapshots
      BY <1>t, <2>0, <2>2, <2>3, FirstRow, ListFacts
    <2>5. /\ folder' \in [Snapshots -> Folders] /\ sealed' \subseteq Snapshots
          /\ Present' = Present \ {s} /\ RowsNameWhole' /\ \A u \in strays : folder'[u] = folder[u]
      <3>1. s \in Snapshots \ strays /\ s \notin ToSet(history) /\ Discard(s)
        BY <2>0, <2>1, <2>2, <2>3, <2>4 DEF Present
      <3> QED
        BY <1>0, <2>0, <3>1, DiscardLeaves
    <2>6. rest \in Seq(Snapshots)
      BY <2>4 DEF IsList
    <2>7. /\ backup' \in [step : BackupSteps, id : Snapshots \cup {NoSnapshot}, removed : Seq(Snapshots)]
          /\ backup'.step = "trimming" /\ backup'.removed = rest
      BY <1>t, <2>0, <2>2, <2>3, <2>6
    <2>8. BackupTypes'
      BY <1>t, <2>0, <2>4, <2>5, <2>7 DEF BackupTypes
    <2>9. OnlyTheOperationsBesides'
      BY <2>0, <2>1, <2>2, <2>4, <2>5, <2>7 DEF OnlyTheOperationsBesides, StraysAreThere
    <2> QED
      BY <2>5, <2>8, <2>9 DEF BackupIInv
  <1>10. ASSUME NEW plan \in RetentionCounts \cup {Torn}, schedule' = plan,
                Persists(history, plan) \/ FailsToPersist(plan),
                backup.step = "idle" \/ (backup.step = "trimming" /\ backup.removed = <<>>),
                backup' = IdleBackup, UNCHANGED <<folder, platter, sealed, history, outages, strays>>
         PROVE  BackupIInv'
    <2>1. /\ rowsKept' = [history |-> history, schedule |-> rowsKept'.schedule]
          /\ rowsKept'.schedule \in RetentionCounts /\ backupFailures' \in 0..MaxBackupFailures
      <3>1. CASE Persists(history, plan)
        BY <1>0, <3>1, PersistsRows
      <3>2. CASE FailsToPersist(plan)
        BY <1>0, <1>t, <3>2, FailureTypes
      <3> QED
        BY <1>10, <3>1, <3>2
    <2>2. BackupTypes'
      BY <1>t, <1>10, <2>1, Idles DEF BackupTypes
    <2>3. RowsNameWhole'
      BY <1>0, <1>10 DEF RowsNameWhole
    <2>4. Present = ToSet(history) /\ StraysAreThere
      BY <1>0, <1>10, NoRows DEF OnlyTheOperationsBesides
    <2>5. OnlyTheOperationsBesides'
      BY <1>10, <2>4, Idles DEF OnlyTheOperationsBesides, IdleFacts, Present, StraysAreThere
    <2> QED
      BY <2>2, <2>3, <2>5 DEF BackupIInv
  <1>11. CASE EndOperation
    BY <1>t, <1>10, <1>11 DEF EndOperation, Steady
  <1>12. ASSUME NEW r \in Patches, SetSchedule(r) PROVE BackupIInv'
    <2>1. r \in RetentionCounts \cup {Torn}
      BY PatchesAssumption
    <2>2. backup.step = "idle" /\ backup' = IdleBackup
      BY <1>12, Idles DEF SetSchedule, IdleFacts
    <2> QED
      <3>1. /\ schedule' = r /\ (Persists(history, r) \/ FailsToPersist(r))
            /\ UNCHANGED <<folder, platter, sealed, history, outages, strays>>
        BY <1>12 DEF SetSchedule, Steady
      <3> QED
        BY <1>10, <2>1, <2>2, <3>1
  <1>13. CASE WriteAllState
    <2>2. backup.step = "idle" /\ backup' = IdleBackup
      BY <1>13, Idles DEF WriteAllState, IdleFacts
    <2> QED
      <3>1. /\ schedule' = schedule /\ Persists(history, schedule)
            /\ UNCHANGED <<folder, platter, sealed, history, outages, strays>>
        BY <1>13 DEF WriteAllState, Steady
      <3> QED
        BY <1>t, <1>10, <2>2, <3>1
  <1>14. ASSUME Halts, folder' \in [Snapshots -> Folders], platter' \in [Snapshots -> Folders],
                \A s \in Snapshots : folder[s] = "published" /\ platter[s] = "published"
                                       => folder'[s] = "published" /\ platter'[s] = "published"
         PROVE  BackupIInv'
    <2>0. /\ outages' \in 0..MaxOutages /\ backup' = [IdleBackup EXCEPT !.step = "down"]
          /\ UNCHANGED <<sealed, strays, history, schedule, rowsKept, backupFailures>>
      BY <1>14, <1>t, <1>b DEF Halts
    <2>1. /\ backup' \in [step : BackupSteps, id : Snapshots \cup {NoSnapshot}, removed : Seq(Snapshots)]
          /\ backup'.step = "down" /\ backup'.removed = <<>>
      BY <1>b, <2>0, Idles, OperationMoves DEF IdleFacts
    <2>2. IsList(backup'.removed)
      BY <2>1, NoRows
    <2>3. BackupTypes'
      BY <1>t, <1>14, <2>0, <2>1, <2>2 DEF BackupTypes
    <2>4. RowsNameWhole'
      BY <1>0, <1>t, <1>14, <2>0 DEF RowsNameWhole
    <2>5. OnlyTheOperationsBesides'
      BY <2>1 DEF OnlyTheOperationsBesides
    <2> QED
      BY <2>3, <2>4, <2>5 DEF BackupIInv
  <1>15. CASE ProcessIsLost
    BY <1>t, <1>14, <1>15 DEF ProcessIsLost
  <1>16. CASE PowerIsLost
    BY <1>14, <1>16 DEF PowerIsLost
  <1>17. CASE StartAgain
    <2>0. /\ history' = history /\ schedule' = rowsKept.schedule /\ backup' = IdleBackup
          /\ folder' = [s \in Snapshots |-> IF s \in Referenced(history) THEN folder[s] ELSE "none"]
          /\ sealed' = sealed \cap Referenced(history) /\ strays' = {}
          /\ UNCHANGED <<platter, rowsKept, backupFailures, outages>>
      BY <1>17, <1>t DEF StartAgain, Steady
    <2>1. Referenced(history) = ToSet(history)
      BY <1>0, <1>t DEF Referenced, RowsNameWhole
    <2>2. folder' \in [Snapshots -> Folders]
      BY <1>t, <2>0 DEF Folders
    <2>3. \A s \in Snapshots : folder'[s] = IF s \in ToSet(history) THEN folder[s] ELSE "none"
      BY <2>0, <2>1
    <2>4. BackupTypes'
      BY <1>t, <2>0, <2>2, Idles DEF BackupTypes
    <2>5. RowsNameWhole'
      BY <1>0, <1>t, <2>0, <2>1, <2>3 DEF RowsNameWhole
    <2>6. Present' = ToSet(history) /\ StraysAreThere'
      BY <1>0, <1>t, <2>0, <2>3 DEF Present, RowsNameWhole, StraysAreThere
    <2>7. OnlyTheOperationsBesides'
      BY <2>0, <2>6, Idles DEF OnlyTheOperationsBesides, IdleFacts
    <2> QED
      BY <2>4, <2>5, <2>7 DEF BackupIInv
  <1>19. ASSUME NEW gone \in SUBSET Snapshots, backupFailures < MaxBackupFailures, backup' = IdleBackup,
                backupFailures' = backupFailures + 1, strays' = strays \cup gone,
                Present = ToSet(history) \cup gone, ToSet(history) \cap gone = {},
                sealed' \subseteq sealed, ToSet(history) \cap sealed \subseteq sealed',
                StraysAreThere,
                UNCHANGED <<folder, platter, history, schedule, rowsKept, outages>>
         PROVE  BackupIInv'
    <2>1. backupFailures' \in 0..MaxBackupFailures /\ strays' \subseteq Snapshots
      BY <1>t, <1>b, <1>19
    <2>2. BackupTypes'
      BY <1>t, <1>19, <2>1, Idles DEF BackupTypes
    <2>3. RowsNameWhole'
      BY <1>0, <1>t, <1>19 DEF RowsNameWhole
    <2>4. Present' = ToSet(history)
      BY <1>t, <1>19 DEF Present
    <2>5. StraysAreThere'
      BY <1>19 DEF Present, StraysAreThere
    <2>6. OnlyTheOperationsBesides'
      BY <1>19, <2>4, <2>5, Idles DEF OnlyTheOperationsBesides, IdleFacts
    <2> QED
      BY <2>2, <2>3, <2>6 DEF BackupIInv
  <1>20. CASE SizeReadFails
    <2>0. /\ backup.step = "safe" /\ backupFailures < MaxBackupFailures /\ backup' = IdleBackup
          /\ backupFailures' = backupFailures + 1 /\ strays' = strays \cup {backup.id}
          /\ UNCHANGED <<folder, platter, sealed, history, schedule, rowsKept, outages>>
      BY <1>20 DEF SizeReadFails
    <2>1. /\ backup.id \in Snapshots \ ToSet(history) /\ Present = ToSet(history) \cup {backup.id}
          /\ StraysAreThere
      BY <1>0, <2>0 DEF OnlyTheOperationsBesides
    <2>2. PICK gone \in SUBSET Snapshots : gone = {backup.id}
      BY <2>1
    <2> QED
      BY <1>19, <2>0, <2>1, <2>2
  <1>21. CASE RemovalFails
    <2>0. /\ backup.step = "trimming" /\ backup.removed # <<>> /\ backupFailures < MaxBackupFailures
          /\ backupFailures' = backupFailures + 1 /\ backup' = IdleBackup
          /\ sealed' = sealed \ {Head(backup.removed)} /\ strays' = strays \cup ToSet(backup.removed)
          /\ UNCHANGED <<folder, platter, history, schedule, rowsKept, outages>>
      BY <1>21 DEF RemovalFails
    <2>1. /\ ToSet(history) \cap ToSet(backup.removed) = {}
          /\ Present = ToSet(history) \cup ToSet(backup.removed)
          /\ StraysAreThere
      BY <1>0, <2>0 DEF OnlyTheOperationsBesides
    <2>2. PICK rows : rows = backup.removed
      OBVIOUS
    <2>3. PICK s, rest : s = Head(rows) /\ rest = Tail(rows)
      OBVIOUS
    <2>4. s \in ToSet(rows) /\ ToSet(rows) \subseteq Snapshots
      BY <1>t, <2>0, <2>2, <2>3, FirstRow, ListFacts
    <2>5. PICK gone \in SUBSET Snapshots : gone = ToSet(rows)
      BY <2>4
    <2>6. sealed' \subseteq sealed /\ ToSet(history) \cap sealed \subseteq sealed'
      BY <2>0, <2>1, <2>2, <2>3, <2>4
    <2>7. ToSet(backup.removed) = gone
      BY <2>2, <2>5
    <2>8. /\ strays' = strays \cup gone /\ Present = ToSet(history) \cup gone
          /\ ToSet(history) \cap gone = {}
      BY <2>0, <2>1, <2>7
    <2> QED
      BY <1>19, <2>0, <2>1, <2>6, <2>8
  <1>18. CASE UNCHANGED backupVars
    <2>1. BackupTypes'
      BY <1>0, <1>18 DEF backupVars, BackupTypes
    <2> QED
      BY <1>0, <1>18, <2>1 DEF backupVars, BackupIInv, RowsNameWhole, OnlyTheOperationsBesides, Present, StraysAreThere
  <1> QED
    BY <1>1, <1>2, <1>3, <1>4, <1>5, <1>7, <1>8, <1>9, <1>11, <1>12, <1>13, <1>15, <1>16, <1>17, <1>18,
       <1>20, <1>21 DEF BackupNext

----------------------------------------------------------------------------
(* The allowance.  An entry whose job is settled follows the job's row; a  *)
(* job that has ended and is not settled still has its reservation.  What  *)
(* a refused account is told is where the entries, in the order of their   *)
(* time, leave as many as the allowance.                                   *)

ToldIsRight ==
  told # NotTold =>
    \A t \in tick..(LastTick + QuotaWindow) :
      t < told.until <=> Used(told.payer, t) >= allowance[told.payer]

EntryFollowsJob(j) ==
  /\ j \in settling => entry[j].state = "reserved" /\ jobRow[j] \in {"done", "failed"}
  /\ j \notin settling =>
       /\ entry[j].state = "reserved" <=> jobRow[j] = "open"
       /\ entry[j].state = "consumed" <=> jobRow[j] = "done"

InWindow(p, t) == {j \in Counted(p, t) : entry[j].at <= t}

WindowsAreWithin ==
  planChanges = 0 => \A p \in Payers, t \in Ticks : Cardinality(InWindow(p, t)) <= allowance[p]

QuotaIInv ==
  QuotaTypeOK /\ ToldIsRight /\ (\A j \in QuotaJobs : EntryFollowsJob(j)) /\ WindowsAreWithin

(* A finite set of moments, one after the other.                           *)
Sorted(f, S, n) ==
  /\ f \in [1..n -> S]
  /\ \A x, y \in 1..n : x < y => f[x] # f[y] /\ entry[f[x]].at <= entry[f[y]].at

LEMMA LatestExists ==
  ASSUME NEW S, IsFiniteSet(S), S # {}, NEW at \in [S -> Ticks]
  PROVE  \E m \in S : \A j \in S : at[j] <= at[m]
  <1>0. LastTick \in Nat
    BY QuotaBoundsAssumption
  <1> DEFINE T == {k \in Nat : (\E m \in S : at[m] + k >= LastTick) => \E m \in S : \A j \in S : at[j] <= at[m]}
  <1>1. 0 \in T
    <2> SUFFICES ASSUME NEW m \in S, at[m] + 0 >= LastTick PROVE \A j \in S : at[j] <= at[m]
      OBVIOUS
    <2>1. \A j \in S : at[j] \in 0..LastTick
      BY DEF Ticks
    <2> QED
      BY <1>0, <2>1
  <1>2. ASSUME NEW k \in T PROVE k + 1 \in T
    <2> SUFFICES ASSUME NEW m \in S, at[m] + (k + 1) >= LastTick
                 PROVE  \E l \in S : \A j \in S : at[j] <= at[l]
      OBVIOUS
    <2>1. \A j \in S : at[j] \in 0..LastTick
      BY DEF Ticks
    <2>2. CASE \E l \in S : at[l] + k >= LastTick
      BY <1>2, <2>2
    <2>3. CASE ~\E l \in S : at[l] + k >= LastTick
      <3>1. \A j \in S : at[j] <= at[m]
        <4> SUFFICES ASSUME NEW j \in S PROVE at[j] <= at[m]
          OBVIOUS
        <4>1. at[j] \in Nat /\ at[m] \in Nat /\ k \in Nat /\ ~(at[j] + k >= LastTick)
          BY <1>0, <2>1, <2>3
        <4> QED
          BY <1>0, <4>1
      <3> QED
        BY <3>1
    <2> QED
      BY <2>2, <2>3
  <1>3. T = Nat
    <2> HIDE DEF T
    <2>1. T \in SUBSET Nat
      BY DEF T
    <2> QED
      BY <1>1, <1>2, <2>1, SetInduction
  <1>4. PICK m \in S : TRUE
    OBVIOUS
  <1>5. LastTick \in T /\ at[m] \in Nat
    <2> HIDE DEF T
    <2>1. LastTick \in T
      BY <1>0, <1>3
    <2>2. at[m] \in 0..LastTick
      BY <1>4 DEF Ticks
    <2> QED
      BY <1>0, <2>1, <2>2
  <1>6. at[m] + LastTick >= LastTick
    BY <1>0, <1>5
  <1> QED
    BY <1>5, <1>6

LEMMA SortedExists ==
  ASSUME NEW U, IsFiniteSet(U), \A j \in U : entry[j].at \in Ticks
  PROVE  \E f : Sorted(f, U, Cardinality(U))
  <1> DEFINE Sortable(S) == \E f : Sorted(f, S, Cardinality(S))
             T == {n \in Nat : \A S \in SUBSET U : Cardinality(S) = n => Sortable(S)}
  <1>1. 0 \in T
    <2> SUFFICES ASSUME NEW S \in SUBSET U, Cardinality(S) = 0 PROVE Sortable(S)
      OBVIOUS
    <2>1. S = {}
      BY FS_Subset, FS_EmptySet
    <2>2. <<>> \in [1..0 -> S]
      OBVIOUS
    <2>3. Sorted(<<>>, S, 0)
      BY <2>2 DEF Sorted
    <2> QED
      BY <2>3
  <1>2. ASSUME NEW n \in T PROVE n + 1 \in T
    <2> SUFFICES ASSUME NEW S \in SUBSET U, Cardinality(S) = n + 1 PROVE Sortable(S)
      OBVIOUS
    <2>0. n \in Nat /\ IsFiniteSet(S)
      BY FS_Subset
    <2>1. S # {}
      BY <2>0, FS_EmptySet
    <2>2. PICK m \in S : \A j \in S : entry[j].at <= entry[m].at
      <3> DEFINE at == [j \in S |-> entry[j].at]
      <3>1. at \in [S -> Ticks]
        OBVIOUS
      <3>2. \A j \in S : at[j] = entry[j].at
        OBVIOUS
      <3> HIDE DEF at
      <3>3. \E m \in S : \A j \in S : at[j] <= at[m]
        BY <2>0, <2>1, <3>1, LatestExists
      <3> QED
        BY <3>2, <3>3
    <2>3. PICK R \in SUBSET U : R = S \ {m}
      OBVIOUS
    <2>4. Cardinality(R) = n
      <3>1. Cardinality(S \ {m}) = Cardinality(S) - 1
        BY <2>0, FS_RemoveElement
      <3> QED
        BY <2>0, <2>3, <3>1
    <2>5. PICK f : Sorted(f, R, n)
      BY <1>2, <2>4
    <2>6. f \in [1..n -> R] /\ \A x, y \in 1..n : x < y => f[x] # f[y] /\ entry[f[x]].at <= entry[f[y]].at
      BY <2>5 DEF Sorted
    <2>7. PICK g : g = [x \in 1..(n+1) |-> IF x = n + 1 THEN m ELSE f[x]]
      OBVIOUS
    <2>8. g \in [1..(n+1) -> S] /\ g[n+1] = m /\ \A x \in 1..n : g[x] = f[x] /\ g[x] \in R
      BY <2>0, <2>3, <2>6, <2>7
    <2>9. ASSUME NEW x \in 1..(n+1), NEW y \in 1..(n+1), x < y
          PROVE  g[x] # g[y] /\ entry[g[x]].at <= entry[g[y]].at
      <3>1. x \in 1..n /\ (y \in 1..n \/ y = n + 1)
        BY <2>0, <2>9
      <3>2. CASE y \in 1..n
        BY <2>6, <2>8, <2>9, <3>1, <3>2
      <3>3. CASE y = n + 1
        BY <2>2, <2>3, <2>8, <3>1, <3>3
      <3> QED
        BY <3>1, <3>2, <3>3
    <2>10. Sorted(g, S, n + 1)
      BY <2>8, <2>9 DEF Sorted
    <2> QED
      BY <2>10
  <1>3. T = Nat
    <2> HIDE DEF T
    <2>1. T \in SUBSET Nat
      BY DEF T
    <2> QED
      BY <1>1, <1>2, <2>1, SetInduction
  <1>4. Cardinality(U) \in T
    BY <1>3, FS_CardinalityType
  <1> QED
    BY <1>4

(* How many there are from one place on, and up to it.                     *)
LEMMA PlacesCount ==
  ASSUME NEW f, NEW S, IsFiniteSet(S), NEW n \in Nat, Cardinality(S) = n, Sorted(f, S, n), NEW k \in 1..n
  PROVE  /\ \A R \in SUBSET S : (\A x \in k..n : f[x] \in R) => Cardinality(R) >= n - k + 1
         /\ \A R \in SUBSET S : (\A x \in 1..k : f[x] \notin R) => Cardinality(R) <= n - k
  <1>0. f \in [1..n -> S] /\ \A x, y \in 1..n : f[x] = f[y] => x = y
    <2>1. f \in [1..n -> S] /\ \A x, y \in 1..n : x < y => f[x] # f[y]
      BY DEF Sorted
    <2>2. ASSUME NEW x \in 1..n, NEW y \in 1..n, f[x] = f[y] PROVE x = y
      <3>1. x < y \/ y < x \/ x = y
        OBVIOUS
      <3> QED
        BY <2>1, <2>2, <3>1
    <2> QED
      BY <2>1, <2>2
  <1>1. \A a, b \in 1..n : a <= b => IsFiniteSet(a..b) /\ Cardinality(a..b) = b - a + 1
    BY FS_Interval
  <1>2. ASSUME NEW a \in 1..n, NEW b \in 1..n, a <= b, NEW P, P = {f[x] : x \in a..b}
        PROVE  IsFiniteSet(P) /\ P \subseteq S /\ Cardinality(P) = b - a + 1
    <2> DEFINE g == [x \in a..b |-> f[x]]
    <2>1. a..b \subseteq 1..n
      OBVIOUS
    <2>2. g \in Bijection(a..b, P)
      <3>1. g \in [a..b -> P] /\ \A x \in a..b : g[x] = f[x]
        BY <1>2
      <3>2. \A x, y \in a..b : g[x] = g[y] => x = y
        BY <1>0, <2>1, <3>1
      <3>3. \A z \in P : \E x \in a..b : g[x] = z
        BY <1>2, <3>1
      <3> HIDE DEF g
      <3> QED
        BY <3>1, <3>2, <3>3 DEF Bijection, Injection, Surjection, IsInjective
    <2> HIDE DEF g
    <2>3. P \subseteq S
      BY <1>0, <1>2, <2>1
    <2>4. Cardinality(P) = Cardinality(a..b)
      <3>1. IsFiniteSet(a..b)
        BY <1>1, <1>2
      <3>2. \E h \in Bijection(a..b, P) : TRUE
        BY <2>2
      <3>3. ExistsBijection(a..b, P)
        BY <3>2 DEF ExistsBijection
      <3> QED
        BY <3>1, <3>3, FS_Bijection
    <2>5. IsFiniteSet(P)
      BY <2>3, FS_Subset
    <2> QED
      BY <1>1, <1>2, <2>3, <2>4, <2>5
  <1>3. ASSUME NEW R \in SUBSET S, \A x \in k..n : f[x] \in R PROVE Cardinality(R) >= n - k + 1
    <2>1. PICK P : P = {f[x] : x \in k..n}
      OBVIOUS
    <2>2. n \in 1..n /\ k <= n
      OBVIOUS
    <2>3. IsFiniteSet(P) /\ Cardinality(P) = n - k + 1
      BY <1>2, <2>1, <2>2
    <2>4. P \subseteq R /\ IsFiniteSet(R)
      BY <1>3, <2>1, FS_Subset
    <2>5. Cardinality(P) <= Cardinality(R)
      BY <2>4, FS_Subset
    <2>6. Cardinality(R) \in Nat
      BY <2>4, FS_CardinalityType
    <2> QED
      BY <2>3, <2>5, <2>6
  <1>4. ASSUME NEW R \in SUBSET S, \A x \in 1..k : f[x] \notin R PROVE Cardinality(R) <= n - k
    <2>1. PICK P : P = {f[x] : x \in 1..k}
      OBVIOUS
    <2>2. 1 \in 1..n /\ 1 <= k
      OBVIOUS
    <2>3. IsFiniteSet(P) /\ P \subseteq S /\ Cardinality(P) = k
      <3>1. IsFiniteSet(P) /\ P \subseteq S /\ Cardinality(P) = k - 1 + 1
        BY <1>2, <2>1, <2>2
      <3> QED
        BY <3>1
    <2>4. R \subseteq S \ P /\ IsFiniteSet(S \ P)
      BY <1>4, <2>1, FS_Subset
    <2>5. Cardinality(S \ P) = Cardinality(S) - Cardinality(S \cap P)
      BY FS_Difference
    <2>6. S \cap P = P
      BY <2>3
    <2>7. Cardinality(R) <= Cardinality(S \ P)
      BY <2>4, FS_Subset
    <2>8. Cardinality(R) \in Nat
      BY <2>4, FS_Subset, FS_CardinalityType
    <2> QED
      BY <2>3, <2>5, <2>6, <2>7, <2>8
  <1> QED
    BY <1>3, <1>4

----------------------------------------------------------------------------
(* What is counted.                                                        *)

LEMMA CountedFacts ==
  ASSUME QuotaTypeOK, NEW p, NEW t
  PROVE  /\ IsFiniteSet(Counted(p, t)) /\ Counted(p, t) \subseteq QuotaJobs /\ Used(p, t) \in Nat
         /\ \A j \in QuotaJobs : entry[j].at \in Ticks /\ entry[j].at \in Nat
         /\ QuotaWindow \in Nat \ {0} /\ LastTick \in Nat
  <1>1. Counted(p, t) \subseteq QuotaJobs
    BY DEF Counted
  <1>2. IsFiniteSet(Counted(p, t)) /\ Cardinality(Counted(p, t)) \in Nat
    BY <1>1, QuotaBoundsAssumption, FS_Subset, FS_CardinalityType
  <1>3. \A j \in QuotaJobs : entry[j] \in [payer : Payers \cup {NoPayer}, at : Ticks,
                                           state : {"none", "reserved", "consumed"}]
    BY DEF QuotaTypeOK
  <1>4. \A j \in QuotaJobs : entry[j].at \in Ticks
    BY <1>3
  <1>5. LastTick \in Nat /\ QuotaWindow \in Nat \ {0}
    BY QuotaBoundsAssumption, AllowancesAssumption
  <1> QED
    BY <1>1, <1>2, <1>4, <1>5 DEF Ticks, Used

(* The time a refused account is told is the first at which it has fewer   *)
(* entries than its allowance.                                             *)
LEMMA NextIsFirst ==
  ASSUME QuotaTypeOK, NEW p \in Payers, Used(p, tick) >= allowance[p]
  PROVE  /\ NextAvailableAt(p, tick) \in 0..(LastTick + QuotaWindow)
         /\ \A t \in tick..(LastTick + QuotaWindow) :
              t < NextAvailableAt(p, tick) <=> Used(p, t) >= allowance[p]
  <1> DEFINE IsByTime(f) == f \in [1..Used(p, tick) -> Counted(p, tick)]
                            /\ \A m, n \in 1..Used(p, tick) :
                                 m < n => f[m] # f[n] /\ entry[f[m]].at <= entry[f[n]].at
  <1>0. /\ IsFiniteSet(Counted(p, tick)) /\ Counted(p, tick) \subseteq QuotaJobs
        /\ \A j \in QuotaJobs : entry[j].at \in Ticks /\ entry[j].at \in 0..LastTick
        /\ QuotaWindow \in Nat \ {0} /\ LastTick \in Nat
        /\ tick \in 0..LastTick
    BY CountedFacts DEF QuotaTypeOK, Ticks
  <1>1. PICK S : S = Counted(p, tick)
    OBVIOUS
  <1>2. PICK n \in Nat : n = Used(p, tick) /\ n = Cardinality(S) /\ IsFiniteSet(S)
    BY <1>0, <1>1, CountedFacts DEF Used
  <1>3. PICK a \in Nat \ {0} : a = allowance[p] /\ a <= n
    BY <1>2, AllowancesAssumption DEF QuotaTypeOK
  <1>4. \E f : Sorted(f, S, n)
    BY <1>0, <1>1, <1>2, SortedExists
  <1>5. PICK f : Sorted(f, S, n) /\ NextAvailableAt(p, tick) = entry[f[n - a + 1]].at + QuotaWindow
    <2>1. \E f \in [1..n -> S] : \A x, y \in 1..n : x < y => f[x] # f[y] /\ entry[f[x]].at <= entry[f[y]].at
      BY <1>4 DEF Sorted
    <2>2. PICK f : f = CHOOSE g \in [1..n -> S] : \A x, y \in 1..n : x < y => g[x] # g[y] /\ entry[g[x]].at <= entry[g[y]].at
      OBVIOUS
    <2>3. f \in [1..n -> S] /\ \A x, y \in 1..n : x < y => f[x] # f[y] /\ entry[f[x]].at <= entry[f[y]].at
      BY <2>1, <2>2
    <2>4. Sorted(f, S, n)
      BY <2>3 DEF Sorted
    <2>5. NextAvailableAt(p, tick) = entry[f[n - a + 1]].at + QuotaWindow
      BY <1>1, <1>2, <1>3, <2>2 DEF NextAvailableAt
    <2> QED
      BY <2>4, <2>5
  <1>6. PICK k \in 1..n : k = n - a + 1
    BY <1>3
  <1>7. f \in [1..n -> S] /\ \A x, y \in 1..n : x < y => entry[f[x]].at <= entry[f[y]].at
    BY <1>5 DEF Sorted
  <1>8. PICK u \in 0..LastTick : u = entry[f[k]].at
    BY <1>0, <1>1, <1>6, <1>7
  <1>9. NextAvailableAt(p, tick) = u + QuotaWindow
    BY <1>5, <1>6, <1>8
  <1>10. \A j \in S : entry[j].payer = p /\ entry[j].at \in 0..LastTick
    BY <1>0, <1>1 DEF Counted
  <1>11. ASSUME NEW t \in tick..(LastTick + QuotaWindow) PROVE t < u + QuotaWindow <=> Used(p, t) >= a
    <2>1. PICK R : R = Counted(p, t)
      OBVIOUS
    <2>2. R \in SUBSET S
      <3>1. t \in Nat /\ tick <= t
        BY <1>0, <1>11
      <3> SUFFICES ASSUME NEW j \in R PROVE j \in S
        OBVIOUS
      <3>2. j \in QuotaJobs /\ entry[j].payer = p /\ entry[j].at + QuotaWindow > t
        BY <2>1 DEF Counted
      <3>3. entry[j].at + QuotaWindow > tick
        BY <1>0, <3>1, <3>2
      <3> QED
        BY <1>1, <3>2, <3>3 DEF Counted
    <2>3. \A j \in S : j \in R <=> entry[j].at + QuotaWindow > t
      BY <1>0, <1>1, <1>10, <2>1 DEF Counted
    <2>4. /\ (\A x \in k..n : f[x] \in R) => Cardinality(R) >= n - k + 1
          /\ (\A x \in 1..k : f[x] \notin R) => Cardinality(R) <= n - k
      BY <1>2, <1>5, <2>2, PlacesCount
    <2>5. Cardinality(R) = Used(p, t) /\ Used(p, t) \in Nat
      BY <2>1, CountedFacts DEF Used
    <2>6. CASE t < u + QuotaWindow
      <3>1. ASSUME NEW x \in k..n PROVE f[x] \in R
        <4>1. x \in 1..n /\ f[x] \in S /\ entry[f[x]].at \in 0..LastTick /\ u <= entry[f[x]].at
          <5>1. x \in 1..n /\ (x = k \/ k < x)
            BY <1>6
          <5>2. f[x] \in S
            BY <1>7, <5>1
          <5>3. u <= entry[f[x]].at
            BY <1>6, <1>7, <1>8, <5>1
          <5> QED
            BY <1>10, <5>1, <5>2, <5>3
        <4>2. entry[f[x]].at + QuotaWindow > t
          BY <1>0, <1>11, <2>6, <4>1
        <4> QED
          BY <2>3, <4>1, <4>2
      <3>2. Cardinality(R) >= n - k + 1 /\ n - k + 1 = a
        BY <1>3, <1>6, <2>4, <3>1
      <3> QED
        BY <2>5, <2>6, <3>2
    <2>7. CASE ~(t < u + QuotaWindow)
      <3>1. ASSUME NEW x \in 1..k PROVE f[x] \notin R
        <4>1. x \in 1..n /\ f[x] \in S /\ entry[f[x]].at \in 0..LastTick /\ entry[f[x]].at <= u
          <5>1. x \in 1..n /\ (x = k \/ x < k)
            BY <1>6
          <5>2. f[x] \in S
            BY <1>7, <5>1
          <5>3. entry[f[x]].at <= u
            BY <1>6, <1>7, <1>8, <5>1
          <5> QED
            BY <1>10, <5>1, <5>2, <5>3
        <4>2. ~(entry[f[x]].at + QuotaWindow > t)
          BY <1>0, <1>11, <2>7, <4>1
        <4> QED
          BY <2>3, <4>1, <4>2
      <3>2. Cardinality(R) <= n - k /\ n - k = a - 1
        BY <1>3, <1>6, <2>4, <3>1
      <3>3. ~(Used(p, t) >= a)
        BY <2>5, <3>2
      <3> QED
        BY <2>7, <3>3
    <2> QED
      BY <2>6, <2>7
  <1>12. NextAvailableAt(p, tick) \in 0..(LastTick + QuotaWindow)
    BY <1>0, <1>9
  <1> QED
    BY <1>3, <1>9, <1>11, <1>12

(* Fewer entries, or as many.                                              *)
LEMMA FewerAreWithin ==
  ASSUME QuotaTypeOK, NEW p, NEW t, NEW S, S \subseteq InWindow(p, t)
  PROVE  IsFiniteSet(S) /\ Cardinality(S) \in Nat /\ Cardinality(S) <= Cardinality(InWindow(p, t))
         /\ Cardinality(InWindow(p, t)) \in Nat
  <1>1. InWindow(p, t) \subseteq QuotaJobs
    BY DEF InWindow, Counted
  <1>2. IsFiniteSet(InWindow(p, t))
    BY <1>1, QuotaBoundsAssumption, FS_Subset
  <1> QED
    BY <1>2, FS_Subset, FS_CardinalityType

----------------------------------------------------------------------------
(* The steps.                                                              *)

LEMMA QuotaInitIInv == QuotaInit => QuotaIInv
  <1> SUFFICES ASSUME QuotaInit PROVE QuotaIInv
    OBVIOUS
  <1>0. LastTick \in Nat /\ MaxPlanChanges \in Nat /\ MaxQuotaCrashes \in Nat /\ NoPayer \notin Payers
        /\ QuotaWindow \in Nat \ {0} /\ Allowances \subseteq Nat \ {0}
    BY QuotaBoundsAssumption, AllowancesAssumption
  <1>1. QuotaTypeOK
    <2>1. NoEntry \in [payer : Payers \cup {NoPayer}, at : Ticks, state : {"none", "reserved", "consumed"}]
      BY <1>0 DEF NoEntry, Ticks
    <2>2. told \in [payer : Payers \cup {NoPayer}, until : 0..(LastTick + QuotaWindow)]
      BY <1>0 DEF QuotaInit, NotTold
    <2>3. tick \in Ticks /\ planChanges \in 0..MaxPlanChanges /\ quotaCrashes \in 0..MaxQuotaCrashes
      BY <1>0 DEF QuotaInit, Ticks
    <2>4. /\ jobRow \in [QuotaJobs -> {"none", "open", "done", "failed"}]
          /\ entry \in [QuotaJobs -> [payer : Payers \cup {NoPayer}, at : Ticks,
                                      state : {"none", "reserved", "consumed"}]]
      BY <2>1 DEF QuotaInit
    <2> QED
      BY <2>2, <2>3, <2>4 DEF QuotaInit, QuotaTypeOK
  <1>2. ToldIsRight
    BY DEF QuotaInit, ToldIsRight
  <1>3. \A j \in QuotaJobs : EntryFollowsJob(j)
    BY DEF QuotaInit, EntryFollowsJob, NoEntry
  <1>4. WindowsAreWithin
    <2> SUFFICES ASSUME NEW p \in Payers, NEW t \in Ticks PROVE Cardinality(InWindow(p, t)) <= allowance[p]
      BY DEF WindowsAreWithin
    <2>1. InWindow(p, t) = {}
      BY <1>0 DEF QuotaInit, InWindow, Counted, NoEntry
    <2>2. allowance[p] \in Nat
      BY <1>0 DEF QuotaInit
    <2> QED
      BY <2>1, <2>2, FS_EmptySet
  <1> QED
    BY <1>1, <1>2, <1>3, <1>4 DEF QuotaIInv

LEMMA QuotaIsExact == QuotaIInv => AllowanceIsExact
  <1> SUFFICES ASSUME QuotaIInv PROVE AllowanceIsExact
    OBVIOUS
  <1>1. \A j \in QuotaJobs \ settling :
          /\ entry[j].state = "reserved" <=> jobRow[j] = "open"
          /\ entry[j].state = "consumed" <=> jobRow[j] = "done"
    BY DEF QuotaIInv, EntryFollowsJob
  <1> QED
    BY <1>1 DEF QuotaIInv, ToldIsRight, WindowsAreWithin, InWindow, AllowanceIsExact

LEMMA QuotaNextIInv == QuotaIInv /\ [QuotaNext]_quotaVars => QuotaIInv'
  <1> SUFFICES ASSUME QuotaIInv, [QuotaNext]_quotaVars PROVE QuotaIInv'
    OBVIOUS
  <1>0. QuotaTypeOK /\ ToldIsRight /\ (\A j \in QuotaJobs : EntryFollowsJob(j)) /\ WindowsAreWithin
    BY DEF QuotaIInv
  <1> DEFINE Entries == [payer : Payers \cup {NoPayer}, at : Ticks, state : {"none", "reserved", "consumed"}]
  <1>t. /\ jobRow \in [QuotaJobs -> {"none", "open", "done", "failed"}] /\ entry \in [QuotaJobs -> Entries]
        /\ settling \subseteq QuotaJobs /\ allowance \in [Payers -> Allowances]
        /\ tick \in 0..LastTick /\ Ticks = 0..LastTick
        /\ told \in [payer : Payers \cup {NoPayer}, until : 0..(LastTick + QuotaWindow)]
        /\ planChanges \in 0..MaxPlanChanges /\ quotaCrashes \in 0..MaxQuotaCrashes
    BY <1>0 DEF QuotaTypeOK, Ticks
  <1>c. LastTick \in Nat /\ MaxPlanChanges \in Nat /\ MaxQuotaCrashes \in Nat /\ NoPayer \notin Payers
        /\ QuotaWindow \in Nat \ {0} /\ Allowances \subseteq Nat \ {0}
    BY QuotaBoundsAssumption, AllowancesAssumption
  <1>n. /\ NotTold \in [payer : Payers \cup {NoPayer}, until : 0..(LastTick + QuotaWindow)]
        /\ NoEntry \in Entries /\ NoEntry.payer \notin Payers /\ NoEntry.state = "none"
    BY <1>c DEF NotTold, NoEntry, Ticks
  <1>e. \A j \in QuotaJobs : entry[j] \in Entries /\ entry[j].at \in 0..LastTick
                             /\ entry[j].state \in {"none", "reserved", "consumed"}
                             /\ jobRow[j] \in {"none", "open", "done", "failed"}
    <2>1. \A x \in Entries : x.at \in Ticks /\ x.state \in {"none", "reserved", "consumed"}
      OBVIOUS
    <2> HIDE DEF Entries
    <2> QED
      BY <1>t, <2>1
  <1> HIDE DEF Entries
  (* Entries that go, or stay where they are, leave every window within.   *)
  <1>w. ASSUME planChanges' # 0 \/ (planChanges = 0 /\ allowance' = allowance),
               planChanges' # 0 \/
                 \A j \in QuotaJobs : entry'[j].payer \in Payers =>
                                        entry'[j].payer = entry[j].payer /\ entry'[j].at = entry[j].at
        PROVE  WindowsAreWithin'
    <2> SUFFICES ASSUME planChanges' = 0, NEW p \in Payers, NEW t \in Ticks
                 PROVE  Cardinality(InWindow(p, t)') <= allowance'[p]
      BY DEF WindowsAreWithin, Ticks
    <2>1. InWindow(p, t)' \subseteq InWindow(p, t)
      BY <1>w DEF InWindow, Counted
    <2>2. Cardinality(InWindow(p, t)) <= allowance[p] /\ allowance[p] \in Nat /\ allowance' = allowance
      BY <1>0, <1>t, <1>c, <1>w DEF WindowsAreWithin
    <2>3. PICK S : S = InWindow(p, t)'
      OBVIOUS
    <2>4. Cardinality(S) \in Nat /\ Cardinality(S) <= Cardinality(InWindow(p, t))
          /\ Cardinality(InWindow(p, t)) \in Nat
      BY <1>0, <2>1, <2>3, FewerAreWithin
    <2> QED
      BY <2>2, <2>3, <2>4
  <1>r. ASSUME told' = NotTold PROVE ToldIsRight'
    BY <1>r DEF ToldIsRight, NotTold
  <1>1. ASSUME NEW j \in QuotaJobs, NEW p \in Payers, AdmitJob(j, p) PROVE QuotaIInv'
    <2>0. /\ jobRow[j] = "none" /\ Used(p, tick) < allowance[p]
          /\ jobRow' = [jobRow EXCEPT ![j] = "open"] /\ told' = NotTold
          /\ UNCHANGED <<settling, allowance, tick, planChanges, quotaCrashes>>
      BY <1>1 DEF AdmitJob
    <2>1. PICK e \in Entries : e = [payer |-> p, at |-> tick, state |-> "reserved"]
      BY <1>t DEF Entries
    <2>2. entry' = [entry EXCEPT ![j] = e] /\ e.payer = p /\ e.at = tick /\ e.state = "reserved"
      BY <1>1, <2>1 DEF AdmitJob
    <2>3. /\ entry' \in [QuotaJobs -> Entries] /\ entry'[j] = e /\ \A i \in QuotaJobs \ {j} : entry'[i] = entry[i]
          /\ jobRow' \in [QuotaJobs -> {"none", "open", "done", "failed"}] /\ jobRow'[j] = "open"
          /\ \A i \in QuotaJobs \ {j} : jobRow'[i] = jobRow[i]
      BY <1>t, <2>0, <2>2
    <2>4. QuotaTypeOK'
      BY <1>t, <1>n, <2>0, <2>3 DEF QuotaTypeOK, Entries, Ticks
    <2>5. ASSUME NEW i \in QuotaJobs PROVE EntryFollowsJob(i)'
      <3>1. EntryFollowsJob(i) /\ EntryFollowsJob(j)
        BY <1>0
      <3> QED
        BY <2>0, <2>2, <2>3, <3>1 DEF EntryFollowsJob
    <2>6. WindowsAreWithin'
      <3> SUFFICES ASSUME planChanges = 0, NEW q \in Payers, NEW t \in Ticks
                   PROVE  Cardinality(InWindow(q, t)') <= allowance[q]
        BY <2>0 DEF WindowsAreWithin, Ticks
      <3>0. Cardinality(InWindow(q, t)) <= allowance[q] /\ allowance[q] \in Nat
        BY <1>0, <1>t, <1>c DEF WindowsAreWithin
      <3>1. PICK S : S = InWindow(q, t)'
        OBVIOUS
      <3>2. CASE q # p \/ t < tick
        <4>1. S \subseteq InWindow(q, t)
          BY <1>t, <2>2, <2>3, <3>1, <3>2 DEF InWindow, Counted
        <4>2. /\ Cardinality(S) \in Nat /\ Cardinality(S) <= Cardinality(InWindow(q, t))
              /\ Cardinality(InWindow(q, t)) \in Nat
          BY <1>0, <4>1, FewerAreWithin
        <4> QED
          BY <3>0, <3>1, <4>2
      <3>3. CASE q = p /\ ~(t < tick)
        <4>1. S \subseteq Counted(p, tick) \cup {j}
          <5> SUFFICES ASSUME NEW i \in S, i # j PROVE i \in Counted(p, tick)
            OBVIOUS
          <5>1. i \in QuotaJobs /\ entry[i].payer = p /\ entry[i].at + QuotaWindow > t
            BY <2>3, <3>1, <3>3 DEF InWindow, Counted
          <5>2. entry[i].at + QuotaWindow > tick
            BY <1>t, <1>c, <1>e, <3>3, <5>1
          <5> QED
            BY <5>1, <5>2 DEF Counted
        <4>2. IsFiniteSet(Counted(p, tick)) /\ Used(p, tick) \in Nat /\ Cardinality(Counted(p, tick)) = Used(p, tick)
          BY <1>0, CountedFacts DEF Used
        <4>3. PICK C : C = Counted(p, tick)
          OBVIOUS
        <4>4. IsFiniteSet(C \cup {j}) /\ Cardinality(C \cup {j}) \in Nat /\ Cardinality(C \cup {j}) <= Cardinality(C) + 1
          <5>1. /\ IsFiniteSet(C \cup {j})
                /\ Cardinality(C \cup {j}) = IF j \in C THEN Cardinality(C) ELSE Cardinality(C)+1
            BY <4>2, <4>3, FS_AddElement
          <5> QED
            BY <4>2, <4>3, <5>1
        <4>5. IsFiniteSet(S) /\ Cardinality(S) <= Cardinality(C \cup {j})
          BY <4>1, <4>3, <4>4, FS_Subset
        <4>6. Cardinality(S) \in Nat
          BY <4>5, FS_CardinalityType
        <4>7. Used(p, tick) + 1 <= allowance[p]
          BY <2>0, <3>0, <3>3, <4>2
        <4> QED
          BY <3>0, <3>1, <3>3, <4>2, <4>3, <4>4, <4>5, <4>6, <4>7
      <3> QED
        BY <3>2, <3>3
    <2> QED
      BY <1>r, <2>0, <2>4, <2>5, <2>6 DEF QuotaIInv
  <1>2. ASSUME NEW j \in QuotaJobs, NEW p \in Payers, RefuseJob(j, p) PROVE QuotaIInv'
    <2>0. /\ Used(p, tick) >= allowance[p] /\ told' = [payer |-> p, until |-> NextAvailableAt(p, tick)]
          /\ UNCHANGED <<jobRow, entry, settling, allowance, tick, planChanges, quotaCrashes>>
      BY <1>2 DEF RefuseJob
    <2>1. PICK u \in 0..(LastTick + QuotaWindow) :
            u = NextAvailableAt(p, tick)
            /\ \A t \in tick..(LastTick + QuotaWindow) : t < u <=> Used(p, t) >= allowance[p]
      BY <1>0, <2>0, NextIsFirst
    <2>2. told' \in [payer : Payers \cup {NoPayer}, until : 0..(LastTick + QuotaWindow)]
          /\ told'.payer = p /\ told'.until = u
      BY <2>0, <2>1
    <2>3. QuotaTypeOK'
      BY <1>0, <2>0, <2>2 DEF QuotaTypeOK
    <2>4. ToldIsRight'
      BY <2>0, <2>1, <2>2 DEF ToldIsRight, Used, Counted
    <2>5. WindowsAreWithin'
      BY <1>0, <2>0 DEF WindowsAreWithin, InWindow, Counted
    <2>6. ASSUME NEW i \in QuotaJobs PROVE EntryFollowsJob(i)'
      <3>1. EntryFollowsJob(i)
        BY <1>0
      <3> QED
        BY <2>0, <3>1 DEF EntryFollowsJob
    <2> QED
      BY <2>3, <2>4, <2>5, <2>6 DEF QuotaIInv
  (* Entries, allowances and what was told stay.                           *)
  <1>s. ASSUME UNCHANGED <<entry, allowance, told, planChanges>>, tick' \in Ticks, tick' >= tick
        PROVE  ToldIsRight' /\ WindowsAreWithin'
    <2>1. WindowsAreWithin'
      BY <1>0, <1>s DEF WindowsAreWithin, InWindow, Counted, Ticks
    <2>2. \A t : t \in tick'..(LastTick + QuotaWindow) => t \in tick..(LastTick + QuotaWindow)
      BY <1>t, <1>c, <1>s
    <2>3. \A p, t : Used(p, t)' = Used(p, t)
      BY <1>s DEF Used, Counted
    <2>4. ToldIsRight'
      <3> SUFFICES ASSUME told # NotTold, NEW t \in tick'..(LastTick + QuotaWindow)
                   PROVE  t < told.until <=> Used(told.payer, t)' >= allowance[told.payer]
        BY <1>s DEF ToldIsRight, Used, Counted, NotTold
      <3>1. Used(told.payer, t)' = Used(told.payer, t)
        BY <1>s DEF Used, Counted
      <3> QED
        BY <1>0, <2>2, <3>1 DEF ToldIsRight
    <2> QED
      BY <2>1, <2>4
  <1>3. ASSUME NEW j \in QuotaJobs, NEW how \in {"done", "failed"}, EndJob(j, how) PROVE QuotaIInv'
    <2>0. /\ jobRow[j] = "open" /\ jobRow' = [jobRow EXCEPT ![j] = how] /\ settling' = settling \cup {j}
          /\ UNCHANGED <<entry, allowance, tick, told, planChanges, quotaCrashes>>
      BY <1>3 DEF EndJob
    <2>1. jobRow' \in [QuotaJobs -> {"none", "open", "done", "failed"}] /\ jobRow'[j] = how
          /\ \A i \in QuotaJobs \ {j} : jobRow'[i] = jobRow[i]
      BY <1>t, <2>0
    <2>2. QuotaTypeOK'
      BY <1>0, <1>t, <2>0, <2>1 DEF QuotaTypeOK
    <2>3. ASSUME NEW i \in QuotaJobs PROVE EntryFollowsJob(i)'
      <3>1. EntryFollowsJob(i) /\ EntryFollowsJob(j)
        BY <1>0
      <3> QED
        BY <2>0, <2>1, <3>1 DEF EntryFollowsJob
    <2>4. tick' \in Ticks /\ tick' >= tick
      BY <1>t, <2>0
    <2> QED
      BY <1>s, <2>0, <2>2, <2>3, <2>4 DEF QuotaIInv
  <1>4. CASE TickPasses
    <2>0. /\ tick < LastTick /\ tick' = tick + 1
          /\ UNCHANGED <<jobRow, entry, settling, allowance, told, planChanges, quotaCrashes>>
      BY <1>4 DEF TickPasses
    <2>1. tick' \in Ticks /\ tick' >= tick
      BY <1>t, <1>c, <2>0
    <2>2. QuotaTypeOK'
      BY <1>0, <2>0, <2>1 DEF QuotaTypeOK, Ticks
    <2>3. ASSUME NEW i \in QuotaJobs PROVE EntryFollowsJob(i)'
      <3>1. EntryFollowsJob(i)
        BY <1>0
      <3> QED
        BY <2>0, <3>1 DEF EntryFollowsJob
    <2> QED
      BY <1>s, <2>0, <2>1, <2>2, <2>3 DEF QuotaIInv
  <1>5. ASSUME NEW j \in QuotaJobs, SettleEntry(j) PROVE QuotaIInv'
    <2>0. /\ j \in settling /\ settling' = settling \ {j} /\ told' = NotTold
          /\ UNCHANGED <<jobRow, allowance, tick, planChanges, quotaCrashes>>
      BY <1>5 DEF SettleEntry
    <2>1. entry[j].state = "reserved" /\ jobRow[j] \in {"done", "failed"}
      BY <1>0, <2>0 DEF EntryFollowsJob
    <2>2. PICK e : e = [entry[j] EXCEPT !.state = "consumed"]
      OBVIOUS
    <2>3. e \in Entries /\ e.payer = entry[j].payer /\ e.at = entry[j].at /\ e.state = "consumed"
      BY <1>e, <2>2 DEF Entries
    <2>4. PICK n : n = (IF jobRow[j] = "done" THEN e ELSE NoEntry)
      OBVIOUS
    <2>5. n \in Entries /\ (n.payer \in Payers => n.payer = entry[j].payer /\ n.at = entry[j].at)
          /\ (jobRow[j] = "done" => n.state = "consumed") /\ (jobRow[j] = "failed" => n.state = "none")
      BY <1>n, <2>1, <2>3, <2>4
    <2>6. entry' = [entry EXCEPT ![j] = n]
      BY <1>5, <2>1, <2>2, <2>4 DEF SettleEntry
    <2>7. entry' \in [QuotaJobs -> Entries] /\ entry'[j] = n /\ \A i \in QuotaJobs \ {j} : entry'[i] = entry[i]
      BY <1>t, <2>5, <2>6
    <2>8. QuotaTypeOK'
      BY <1>0, <1>t, <1>n, <2>0, <2>7 DEF QuotaTypeOK, Entries
    <2>9. ASSUME NEW i \in QuotaJobs PROVE EntryFollowsJob(i)'
      <3>1. EntryFollowsJob(i)
        BY <1>0
      <3> QED
        BY <2>0, <2>1, <2>5, <2>7, <3>1 DEF EntryFollowsJob
    <2>10. WindowsAreWithin'
      BY <1>w, <2>0, <2>5, <2>7
    <2> QED
      BY <1>r, <2>0, <2>8, <2>9, <2>10 DEF QuotaIInv
  <1>6. ASSUME NEW lost \in SUBSET QuotaJobs, QuotaRestart(lost) PROVE QuotaIInv'
    <2>0. /\ quotaCrashes' \in 0..MaxQuotaCrashes /\ \A j \in lost : jobRow[j] = "open"
          /\ jobRow' = [j \in QuotaJobs |-> IF j \in lost THEN "failed" ELSE jobRow[j]]
          /\ settling' = {} /\ told' = NotTold
          /\ UNCHANGED <<allowance, tick, planChanges>>
      BY <1>6, <1>t, <1>c DEF QuotaRestart
    <2>1. PICK rowAfter : rowAfter = jobRow'
      OBVIOUS
    <2>2. entry' = [j \in QuotaJobs |-> Reconciled(j, rowAfter)]
      BY <1>6, <2>1 DEF QuotaRestart
    <2>3. /\ rowAfter \in [QuotaJobs -> {"none", "open", "done", "failed"}]
          /\ \A j \in QuotaJobs : rowAfter[j] = IF j \in lost THEN "failed" ELSE jobRow[j]
      BY <1>t, <2>0, <2>1
    <2>4. ASSUME NEW j \in QuotaJobs
          PROVE  /\ Reconciled(j, rowAfter) \in Entries
                 /\ Reconciled(j, rowAfter).payer \in Payers => Reconciled(j, rowAfter).payer = entry[j].payer
                                                            /\ Reconciled(j, rowAfter).at = entry[j].at
                 /\ Reconciled(j, rowAfter).state = "reserved" <=> rowAfter[j] = "open"
                 /\ Reconciled(j, rowAfter).state = "consumed" <=> rowAfter[j] = "done"
      <3>0. /\ EntryFollowsJob(j) /\ entry[j] \in Entries /\ entry[j].state \in {"none", "reserved", "consumed"}
            /\ rowAfter[j] \in {"none", "open", "done", "failed"} /\ (j \in lost => jobRow[j] = "open" /\ rowAfter[j] = "failed")
            /\ (j \notin lost => rowAfter[j] = jobRow[j])
        BY <1>0, <1>e, <2>0, <2>3
      <3>1. PICK e : e = [entry[j] EXCEPT !.state = "consumed"]
        OBVIOUS
      <3>2. e \in Entries /\ e.payer = entry[j].payer /\ e.at = entry[j].at /\ e.state = "consumed"
        BY <3>0, <3>1 DEF Entries
      <3>3. PICK n : n = Reconciled(j, rowAfter)
        OBVIOUS
      <3>4. n = IF entry[j].state # "reserved" THEN entry[j]
                ELSE IF rowAfter[j] = "done" THEN e ELSE IF rowAfter[j] = "open" THEN entry[j] ELSE NoEntry
        <4>1. CASE entry[j].state # "reserved"
          BY <3>3, <4>1 DEF Reconciled
        <4>2. CASE entry[j].state = "reserved" /\ rowAfter[j] = "done"
          BY <3>1, <3>3, <4>2 DEF Reconciled
        <4>3. CASE entry[j].state = "reserved" /\ rowAfter[j] = "open"
          BY <3>3, <4>3 DEF Reconciled
        <4>4. CASE entry[j].state = "reserved" /\ rowAfter[j] \notin {"done", "open"}
          BY <3>3, <4>4 DEF Reconciled
        <4> QED
          BY <4>1, <4>2, <4>3, <4>4
      <3>5. /\ j \in settling => entry[j].state = "reserved" /\ jobRow[j] \in {"done", "failed"}
            /\ j \notin settling => (entry[j].state = "reserved" <=> jobRow[j] = "open")
                                    /\ (entry[j].state = "consumed" <=> jobRow[j] = "done")
        BY <3>0 DEF EntryFollowsJob
      <3>6. /\ n \in Entries
            /\ n.payer \in Payers => n.payer = entry[j].payer /\ n.at = entry[j].at
            /\ n.state = "reserved" <=> rowAfter[j] = "open"
            /\ n.state = "consumed" <=> rowAfter[j] = "done"
        BY <1>n, <3>0, <3>2, <3>4, <3>5
      <3> QED
        BY <3>3, <3>6
    <2>5. entry' \in [QuotaJobs -> Entries] /\ \A j \in QuotaJobs : entry'[j] = Reconciled(j, rowAfter)
      BY <2>2, <2>4
    <2>6. QuotaTypeOK'
      BY <1>t, <1>n, <2>0, <2>1, <2>3, <2>5 DEF QuotaTypeOK, Entries, Ticks
    <2>7. ASSUME NEW i \in QuotaJobs PROVE EntryFollowsJob(i)'
      BY <2>0, <2>1, <2>4, <2>5 DEF EntryFollowsJob
    <2>8. WindowsAreWithin'
      <3>1. \A j \in QuotaJobs : entry'[j].payer \in Payers =>
                                   entry'[j].payer = entry[j].payer /\ entry'[j].at = entry[j].at
        BY <2>4, <2>5
      <3> QED
        BY <1>w, <2>0, <3>1
    <2> QED
      BY <1>r, <2>0, <2>6, <2>7, <2>8 DEF QuotaIInv
  <1>7. ASSUME NEW p \in Payers, NEW limit \in Allowances, ChangePlan(p, limit) PROVE QuotaIInv'
    <2>0. /\ planChanges' \in 0..MaxPlanChanges /\ planChanges' # 0 /\ told' = NotTold
          /\ allowance' \in [Payers -> Allowances]
          /\ UNCHANGED <<jobRow, entry, settling, tick, quotaCrashes>>
      BY <1>7, <1>t, <1>c DEF ChangePlan
    <2>1. QuotaTypeOK'
      BY <1>0, <1>n, <2>0 DEF QuotaTypeOK
    <2>2. ASSUME NEW i \in QuotaJobs PROVE EntryFollowsJob(i)'
      <3>1. EntryFollowsJob(i)
        BY <1>0
      <3> QED
        BY <2>0, <3>1 DEF EntryFollowsJob
    <2>3. WindowsAreWithin'
      BY <2>0 DEF WindowsAreWithin
    <2> QED
      BY <1>r, <2>0, <2>1, <2>2, <2>3 DEF QuotaIInv
  <1>8. ASSUME NEW target \in Payers, NEW source \in Payers, MergePayers(target, source) PROVE QuotaIInv'
    <2>0. /\ planChanges' \in 0..MaxPlanChanges /\ planChanges' # 0 /\ told' = NotTold
          /\ UNCHANGED <<jobRow, settling, allowance, tick, quotaCrashes>>
      BY <1>8, <1>t, <1>c DEF MergePayers
    <2>1. ASSUME NEW j \in QuotaJobs PROVE entry'[j] \in Entries /\ entry'[j].state = entry[j].state
      <3>1. PICK e : e = [entry[j] EXCEPT !.payer = target]
        OBVIOUS
      <3>2. e \in Entries /\ e.state = entry[j].state
        BY <1>e, <3>1 DEF Entries
      <3>3. entry'[j] = IF entry[j].payer = source THEN e ELSE entry[j]
        BY <1>8, <3>1 DEF MergePayers
      <3> QED
        BY <1>e, <3>2, <3>3
    <2>2. entry' \in [QuotaJobs -> Entries]
      <3>1. entry' = [j \in QuotaJobs |-> entry'[j]]
        BY <1>8 DEF MergePayers
      <3> QED
        BY <2>1, <3>1
    <2>3. QuotaTypeOK'
      BY <1>0, <1>n, <2>0, <2>2 DEF QuotaTypeOK, Entries
    <2>4. ASSUME NEW i \in QuotaJobs PROVE EntryFollowsJob(i)'
      <3>1. EntryFollowsJob(i)
        BY <1>0
      <3> QED
        BY <2>0, <2>1, <3>1 DEF EntryFollowsJob
    <2>5. WindowsAreWithin'
      BY <2>0 DEF WindowsAreWithin
    <2> QED
      BY <1>r, <2>0, <2>3, <2>4, <2>5 DEF QuotaIInv
  <1>9. CASE UNCHANGED quotaVars
    <2>0. UNCHANGED <<jobRow, entry, settling, allowance, tick, told, planChanges, quotaCrashes>>
      BY <1>9 DEF quotaVars
    <2>1. QuotaTypeOK'
      BY <1>0, <2>0 DEF QuotaTypeOK
    <2>2. ASSUME NEW i \in QuotaJobs PROVE EntryFollowsJob(i)'
      <3>1. EntryFollowsJob(i)
        BY <1>0
      <3> QED
        BY <2>0, <3>1 DEF EntryFollowsJob
    <2>3. tick' \in Ticks /\ tick' >= tick
      BY <1>t, <2>0
    <2> QED
      BY <1>s, <2>0, <2>1, <2>2, <2>3 DEF QuotaIInv
  <1> QED
    BY <1>1, <1>2, <1>3, <1>4, <1>5, <1>6, <1>7, <1>8, <1>9 DEF QuotaNext

----------------------------------------------------------------------------
(* The database.  A marker is there until the first snapshot could be      *)
(* written, and what the file contains is what a start has to find; while  *)
(* a restore replaces the file this holds unless the candidate's files     *)
(* have been kept, and from then on no server starts until it holds again. *)

(* The server may still be started on this file, or on what a restore puts *)
(* in its place.                                                           *)
Usable ==
  \/ deployment \notin {"restoring", "interrupted", "failed"}
  \/ failed = NoFile
  \/ manifest = "present" /\ dbFile # NoFile /\ Contents(dbFile) = copied

HasMarker == marker # NoMarker

WholeFile ==
  /\ dbFile.schema > 0 \/ HasMarker
  /\ dbFile.snap = NoState /\ ~HasMarker => dbFile.mark = "pending"
  /\ dbFile.mark = "initialized" => dbFile.snap # NoState
  /\ HasMarker /\ marker.phase = "bound" /\ dbFile.ino = marker.ino => dbFile.app = marker.app

FileIsSound ==
  /\ HasMarker => dbFile.snap = NoState /\ dbFile.mark # "initialized"
  /\ HasMarker /\ marker.phase = "unbound" => dbFile.schema = 0 /\ dbFile.app \in {0, marker.app}
  /\ dbFile.snap # NoState =>
       dbFile.snap = expected /\ (dbFile.mark = "initialized" \/ mirror = dbFile.snap)
  /\ dbFile.snap = NoState =>
       expected \in {NoState, mirror} \/ dbFile.mark = "initialized" \/ (IsBlank(dbFile) /\ ~HasMarker)
  /\ ~damaged => WholeFile

UsableFileIsSound == Usable /\ dbFile # NoFile => FileIsSound

NumbersAreNew ==
  /\ dbFile # NoFile => dbFile.ino <= numbers
  /\ HasMarker => marker.ino <= numbers

NoFileIsFresh ==
  dbFile = NoFile /\ deployment \notin {"preserved", "removed", "restoring", "interrupted", "failed"}
    => expected \in {NoState, mirror}

StarterIsSound ==
  /\ starter.step = "opening" =>
       (starter.existed <=> dbFile # NoFile) /\ (~starter.existed => HasMarker)
  /\ Running /\ starter.step # "opening" =>
       dbFile # NoFile /\ (HasMarker \/ ~IsBlank(dbFile))
  /\ starter.step \in {"binding", "naming", "checking"} /\ ~starter.existed => HasMarker
  /\ starter.step = "naming" => HasMarker /\ marker.phase = "unbound" /\ dbFile.app = marker.app
  /\ starter.step \in {"checking", "migrating", "reading", "clearing"} /\ HasMarker =>
       marker.phase = "bound" /\ dbFile.ino = marker.ino
  /\ starter.step \in {"migrating", "reading", "clearing"} => (HasMarker <=> IsFresh)
  /\ starter.step \in {"reading", "clearing", "loading", "serving"} => dbFile.schema > 0
  /\ starter.step \in {"reading", "clearing"} /\ IsFresh => dbFile.mark = "pending"
  /\ starter.step \in {"clearing", "loading"} => ~SnapshotIsMissing
  /\ starter.step \in {"loading", "serving"} => ~HasMarker
  /\ starter.step = "serving" => starter.state = expected
  /\ starter.step = "refused" => damaged \/ MarkerIsStale

ImagesFit ==
  /\ Running => starter.image = Image
  /\ ~MayServe => starter.step = "down"
  /\ dbFile # NoFile /\ deployment \in {"none", "stopped", "copied", "clearing", "cleared", "restored"}
       => dbFile.schema <= PreviousMigrations
  /\ dbFile # NoFile /\ deployment \in {"prepared", "completing", "completed"}
       => dbFile.schema <= Migrations(candidate)

CopyIsGood == IsVerified(copied) /\ copied = before /\ copied.schema <= PreviousMigrations /\ ~HasMarker

CopiesAreSound ==
  /\ manifest = "present" \/ deployment = "copied" => CopyIsGood
  /\ deployment = "copied" \/ (deployment = "prepared" /\ manifest = "present") => dbFile # NoFile
  /\ manifest = "absent" \/ deployment \in {"none", "stopped"} => before = NoFile
  /\ deployment \in {"prepared", "restoring", "preserved", "removed", "clearing", "failed"}
       => manifest # "none"
  /\ deployment \in {"none", "stopped", "copied", "completing", "completed", "cleared", "restored"}
       => manifest = "none"
  /\ deployment \in {"none", "stopped", "copied", "prepared", "completing", "completed"}
       => failed = NoFile
  /\ manifest = "present" /\ failed # NoFile => failed # copied
  /\ deployment = "preserved" => failed = IF dbFile = NoFile THEN NoFile ELSE Contents(dbFile)
  /\ deployment = "removed" => dbFile = NoFile

LatestIsKept ==
  ~damaged => latest = NoState \/ IsIn(latest, dbFile) \/ IsIn(latest, failed)

PutBackAsBefore ==
  deployment \in {"clearing", "cleared"} =>
    IF before = NoFile THEN dbFile = NoFile ELSE dbFile # NoFile /\ Contents(dbFile) = before

DeploymentIInv ==
  /\ DatabaseTypeOK /\ DeploymentTypeOK
  /\ UsableFileIsSound /\ NumbersAreNew /\ NoFileIsFresh /\ StarterIsSound
  /\ ImagesFit /\ CopiesAreSound /\ LatestIsKept /\ PutBackAsBefore

LEMMA StatesAreNumbers ==
  /\ \A s \in States : s # NoState
  /\ DefaultState \in States /\ LegacyState \in States
  /\ \A n \in 0..MaxCommits : n < MaxCommits => n + 2 \in States
  BY DatabaseBoundsAssumption, NothingAssumption DEF States, DefaultState, LegacyState

LEMMA MigrationsAre ==
  /\ previous \in Images /\ candidate \in Images
  /\ Migrations(previous) = PreviousMigrations
  /\ \A i \in Images :
       Migrations(i) \in Nat /\ Migrations(i) > 0 /\ Migrations(i) >= PreviousMigrations
  BY MigrationsAssumption DEF Migrations, Images

LEMMA EmptyFileIs ==
  ASSUME NEW n \in Nat
  PROVE  /\ EmptyFile(n) \in DbFiles /\ EmptyFile(n) # NoFile
         /\ EmptyFile(n).ino = n /\ EmptyFile(n).app = 0 /\ EmptyFile(n).schema = 0
         /\ EmptyFile(n).snap = NoState /\ EmptyFile(n).mark = "none"
  <1>1. EmptyFile(n) \in DbFiles
    BY DEF EmptyFile, DbFiles
  <1> QED
    BY <1>1, NothingAssumption DEF EmptyFile

LEMMA NotStartedIs ==
  ASSUME NEW i \in Images
  PROVE  /\ NotStarted(i) \in Starters
         /\ NotStarted(i).step = "down" /\ NotStarted(i).image = i
  BY DEF NotStarted, Starters, StartSteps

LEMMA ContentsAre ==
  ASSUME NEW f \in DbFiles
  PROVE  /\ Contents(f) \in Copies /\ Contents(f) # NoFile
         /\ Contents(f).schema = f.schema /\ Contents(f).snap = f.snap
         /\ \A c \in Copies : Contents(f) = c <=> f.schema = c.schema /\ f.snap = c.snap
  <1>1. Contents(f) \in Copies
    BY DEF Contents, Copies, DbFiles
  <1>2. Contents(f).schema = f.schema /\ Contents(f).snap = f.snap
    BY DEF Contents
  <1>3. ASSUME NEW c \in Copies PROVE Contents(f) = c <=> f.schema = c.schema /\ f.snap = c.snap
    BY <1>2 DEF Contents, Copies
  <1> QED
    BY <1>1, <1>2, <1>3, NoCopyAssumption

(* What a step of the server has to keep.                                  *)
ServerStays ==
  MayServe /\ UNCHANGED <<deployment, manifest, copied, failed, before, restoreFailures, restoreCrashes>>

StepIsServed ==
  /\ dbFile' # NoFile => FileIsSound'
  /\ NumbersAreNew' /\ StarterIsSound'
  /\ dbFile' = NoFile => dbFile = NoFile /\ expected' \in {NoState, mirror'}
  /\ Running' => starter'.image = Image
  /\ dbFile' # NoFile =>
       dbFile'.schema <= Migrations(Image) \/ (dbFile # NoFile /\ dbFile'.schema <= dbFile.schema)
  /\ HasMarker' => HasMarker \/ dbFile = NoFile
  /\ ~damaged' =>
       latest' = NoState \/ IsIn(latest', dbFile') \/ (latest' = latest /\ IsIn(latest, failed))

(* What a step of the server may rely on.                                  *)
Served ==
  /\ dbFile # NoFile => FileIsSound
  /\ NumbersAreNew /\ StarterIsSound
  /\ dbFile = NoFile => expected \in {NoState, mirror}
  /\ Running => starter.image = Image
  /\ dbFile # NoFile => dbFile.schema <= Migrations(Image)
  /\ ~damaged => latest = NoState \/ IsIn(latest, dbFile) \/ IsIn(latest, failed)

LEMMA ServerFits ==
  ASSUME DeploymentIInv, MayServe
  PROVE  Served /\ DatabaseTypeOK /\ Image \in Images
  <1>1. dbFile # NoFile => FileIsSound
    BY DEF DeploymentIInv, UsableFileIsSound, Usable, MayServe
  <1>2. dbFile = NoFile => expected \in {NoState, mirror}
    BY DEF DeploymentIInv, NoFileIsFresh, MayServe
  <1>3. dbFile # NoFile => dbFile.schema <= Migrations(Image)
    BY MigrationsAre DEF DeploymentIInv, ImagesFit, MayServe, Image
  <1>4. Image \in Images
    BY MigrationsAre DEF Image
  <1> QED
    BY <1>1, <1>2, <1>3, <1>4 DEF Served, DeploymentIInv, ImagesFit, LatestIsKept

LEMMA ServerStepKeeps ==
  ASSUME DeploymentIInv, ServerStays, DatabaseTypeOK', StepIsServed
  PROVE  DeploymentIInv'
  <1>1. DeploymentTypeOK'
    BY DEF DeploymentIInv, DeploymentTypeOK, ServerStays
  <1>2. UsableFileIsSound' /\ NumbersAreNew' /\ StarterIsSound' /\ NoFileIsFresh'
    BY DEF StepIsServed, UsableFileIsSound, NoFileIsFresh
  <1>3. Image' = Image /\ MayServe'
    BY DEF ServerStays, Image, MayServe
  <1>4. ImagesFit'
    <2>1. dbFile' # NoFile => dbFile'.schema <= Migrations(Image)
      BY ServerFits, MigrationsAre DEF ServerStays, StepIsServed, Served, DatabaseTypeOK, DbFiles
    <2>2. dbFile' # NoFile /\ deployment' \in {"none", "stopped", "copied", "clearing", "cleared", "restored"}
            => dbFile'.schema <= PreviousMigrations
      BY <2>1, MigrationsAre DEF ServerStays, MayServe, Image
    <2>3. dbFile' # NoFile /\ deployment' \in {"prepared", "completing", "completed"}
            => dbFile'.schema <= Migrations(candidate)
      BY <2>1 DEF ServerStays, MayServe, Image
    <2> QED
      BY <1>3, <2>2, <2>3 DEF ImagesFit, StepIsServed
  <1>5. manifest' = "present" \/ deployment' = "copied" => CopyIsGood'
    <2>1. CASE manifest = "present"
      <3>1. CopyIsGood /\ dbFile # NoFile
        BY <2>1 DEF DeploymentIInv, CopiesAreSound, ServerStays, MayServe
      <3> QED
        BY <3>1 DEF CopyIsGood, IsVerified, ServerStays, StepIsServed
    <2>2. CASE manifest # "present"
      BY <2>2 DEF ServerStays, MayServe
    <2> QED
      BY <2>1, <2>2
  <1>6. CopiesAreSound'
    BY <1>5 DEF DeploymentIInv, CopiesAreSound, ServerStays, StepIsServed, MayServe
  <1>7. LatestIsKept'
    BY DEF StepIsServed, LatestIsKept, ServerStays, IsIn
  <1>8. PutBackAsBefore'
    BY DEF ServerStays, MayServe, PutBackAsBefore
  <1> QED
    BY <1>1, <1>2, <1>4, <1>6, <1>7, <1>8 DEF DeploymentIInv, StepIsServed

(* One step of the server after the other.                                 *)
LEMMA BeginStartServes ==
  ASSUME Served, DatabaseTypeOK, NEW i \in Images, i = Image, Image \in Images, BeginStart(i), Image' = Image
  PROVE  DatabaseTypeOK' /\ StepIsServed
  <1>1. PICK r : r = [NotStarted(i) EXCEPT !.step = "opening", !.existed = dbFile # NoFile]
    OBVIOUS
  <1>2. /\ r \in Starters /\ r.step = "opening" /\ r.image = i
        /\ (r.existed <=> dbFile # NoFile)
    BY <1>1 DEF NotStarted, Starters, StartSteps
  <1>3. PICK m : m = [phase |-> "unbound", app |-> numbers + 1, ino |-> 0]
    OBVIOUS
  <1>4. m \in Markers /\ m # NoMarker /\ m.phase = "unbound" /\ m.app = numbers + 1 /\ m.ino = 0
    BY <1>3, NothingAssumption DEF Markers, DatabaseTypeOK
  <1>5. /\ starter' = r
        /\ \/ dbFile = NoFile /\ marker = NoMarker /\ marker' = m /\ numbers' = numbers + 1
           \/ (dbFile # NoFile \/ marker # NoMarker) /\ marker' = marker /\ numbers' = numbers
        /\ dbFile' = dbFile /\ mirror' = mirror /\ HistoryStays
    BY <1>1, <1>3 DEF BeginStart
  <1>6. DatabaseTypeOK'
    BY <1>2, <1>4, <1>5 DEF DatabaseTypeOK, HistoryStays
  <1>7. dbFile' # NoFile => FileIsSound'
    BY <1>5 DEF Served, FileIsSound, WholeFile, HasMarker, HistoryStays, IsBlank
  <1>8. NumbersAreNew'
    BY <1>2, <1>4, <1>5 DEF Served, NumbersAreNew, HasMarker, DatabaseTypeOK, DbFiles, Markers
  <1>9. StarterIsSound'
    BY <1>2, <1>4, <1>5 DEF StarterIsSound, HasMarker, Running
  <1> QED
    BY <1>2, <1>4, <1>5, <1>6, <1>7, <1>8, <1>9 DEF StepIsServed, Served, HistoryStays, HasMarker, IsIn, DatabaseTypeOK, DbFiles

(* A process that comes to another step.                                   *)
LEMMA ToStep ==
  ASSUME DatabaseTypeOK, NEW x \in StartSteps, To(x)
  PROVE  /\ starter' \in Starters /\ starter'.step = x /\ starter'.image = starter.image
         /\ (starter'.existed <=> starter.existed) /\ (starter'.resuming <=> starter.resuming)
         /\ starter'.state = starter.state
  <1>1. PICK r : r = [starter EXCEPT !.step = x]
    OBVIOUS
  <1>2. starter \in Starters
    BY DEF DatabaseTypeOK
  <1>3. /\ r \in Starters /\ r.step = x /\ r.image = starter.image
        /\ (r.existed <=> starter.existed) /\ (r.resuming <=> starter.resuming)
        /\ r.state = starter.state
    BY <1>1, <1>2 DEF Starters
  <1> QED
    BY <1>1, <1>3 DEF To

LEMMA OpenFileServes ==
  ASSUME Served, DatabaseTypeOK, OpenFile, Image' = Image
  PROVE  DatabaseTypeOK' /\ StepIsServed
  <1>0. To("binding") /\ starter.step = "opening" /\ "binding" \in StartSteps
    BY DEF OpenFile, StartSteps
  <1>1. /\ starter' \in Starters /\ starter'.step = "binding" /\ starter'.image = starter.image
        /\ (starter'.existed <=> starter.existed)
    BY <1>0, ToStep
  <1>2. /\ HistoryStays /\ marker' = marker /\ mirror' = mirror
        /\ ~(starter.existed /\ marker = NoMarker /\ IsBlank(dbFile))
        /\ \/ dbFile = NoFile /\ dbFile' = EmptyFile(numbers + 1) /\ numbers' = numbers + 1
           \/ dbFile # NoFile /\ dbFile' = dbFile /\ numbers' = numbers
    BY DEF OpenFile
  <1>3. PICK f : f = EmptyFile(numbers + 1)
    OBVIOUS
  <1>4. /\ f \in DbFiles /\ f # NoFile /\ f.ino = numbers + 1
        /\ f.app = 0 /\ f.schema = 0 /\ f.snap = NoState /\ f.mark = "none"
    BY <1>3, EmptyFileIs DEF DatabaseTypeOK
  <1>5. /\ (starter.existed <=> dbFile # NoFile) /\ (~starter.existed => HasMarker)
        /\ starter.image = Image
    BY <1>0 DEF Served, StarterIsSound, Running
  <1>6. DatabaseTypeOK'
    BY <1>1, <1>2, <1>3, <1>4 DEF DatabaseTypeOK, HistoryStays
  <1>7. CASE dbFile = NoFile
    <2>1. dbFile' = f /\ numbers' = numbers + 1 /\ HasMarker
      BY <1>2, <1>3, <1>5, <1>7
    <2>2. marker.ino \in Nat /\ marker.ino <= numbers /\ marker.app \in Nat
      BY <2>1 DEF DatabaseTypeOK, Markers, Served, NumbersAreNew, HasMarker
    <2>3. FileIsSound'
      BY <1>2, <1>4, <1>7, <2>1, <2>2
         DEF FileIsSound, WholeFile, Served, HistoryStays, HasMarker, DatabaseTypeOK
    <2>4. NumbersAreNew'
      BY <1>2, <1>4, <2>1 DEF NumbersAreNew, Served, HasMarker, DatabaseTypeOK, Markers
    <2>5. StarterIsSound'
      BY <1>1, <1>2, <1>4, <1>5, <1>7, <2>1 DEF StarterIsSound, HasMarker, Running
    <2> QED
      BY <1>1, <1>2, <1>4, <1>5, <1>6, <1>7, <2>1, <2>3, <2>4, <2>5, MigrationsAre
         DEF StepIsServed, Served, HistoryStays, HasMarker, IsIn, DatabaseTypeOK, Starters
  <1>8. CASE dbFile # NoFile
    <2>1. dbFile' = dbFile /\ numbers' = numbers
      BY <1>2, <1>8
    <2>2. FileIsSound' /\ NumbersAreNew'
      BY <1>2, <1>8, <2>1
         DEF FileIsSound, WholeFile, Served, HistoryStays, HasMarker, IsBlank, NumbersAreNew
    <2>3. StarterIsSound'
      BY <1>1, <1>2, <1>5, <1>8, <2>1 DEF StarterIsSound, HasMarker, Running, IsBlank
    <2> QED
      BY <1>1, <1>2, <1>5, <1>6, <1>8, <2>1, <2>2, <2>3 DEF StepIsServed, Served, HistoryStays, HasMarker, IsIn
  <1> QED
    BY <1>7, <1>8

LEMMA BindFileServes ==
  ASSUME Served, DatabaseTypeOK, BindFile, Image' = Image
  PROVE  DatabaseTypeOK' /\ StepIsServed
  <1>1. /\ starter.step = "binding" /\ Running /\ starter.step # "opening"
        /\ HistoryStays /\ marker' = marker /\ mirror' = mirror /\ numbers' = numbers
    BY DEF BindFile, Running
  <1>2. dbFile # NoFile /\ dbFile \in DbFiles /\ (HasMarker \/ ~IsBlank(dbFile)) /\ starter.image = Image
    BY <1>1 DEF Served, StarterIsSound, DatabaseTypeOK
  <1>3. HasMarker => marker \in Markers /\ marker.app \in Nat \ {0} /\ marker.phase \in {"unbound", "bound"}
    BY DEF HasMarker, DatabaseTypeOK, Markers
  <1>4. /\ HasMarker /\ marker.phase = "bound" => dbFile.app = marker.app /\ dbFile.ino = marker.ino
        /\ HasMarker /\ marker.phase = "unbound" => dbFile.schema = 0 /\ dbFile.app \in {0, marker.app}
    BY <1>2 DEF BindFile, MarkerMismatch, HasMarker, DbFiles
  <1>5. PICK f : f = [dbFile EXCEPT !.app = marker.app]
    OBVIOUS
  <1>6. /\ f.ino = dbFile.ino /\ f.schema = dbFile.schema /\ f.snap = dbFile.snap /\ f.mark = dbFile.mark
        /\ f.app = marker.app
        /\ HasMarker => f \in DbFiles /\ f # NoFile
    BY <1>2, <1>3, <1>5, NothingAssumption DEF DbFiles
  <1>7. CASE HasMarker /\ marker.phase = "unbound"
    <2>1. dbFile' = f /\ To("naming") /\ "naming" \in StartSteps
      BY <1>5, <1>7 DEF BindFile, HasMarker, StartSteps
    <2>2. /\ starter' \in Starters /\ starter'.step = "naming" /\ starter'.image = starter.image
          /\ (starter'.existed <=> starter.existed)
      BY <2>1, ToStep
    <2>3. DatabaseTypeOK'
      BY <1>1, <1>6, <1>7, <2>1, <2>2 DEF DatabaseTypeOK, HistoryStays
    <2>4. FileIsSound'
      BY <1>1, <1>2, <1>4, <1>6, <1>7, <2>1
         DEF FileIsSound, WholeFile, Served, HistoryStays, HasMarker, IsBlank
    <2>5. NumbersAreNew'
      BY <1>1, <1>2, <1>6, <2>1 DEF NumbersAreNew, Served, HasMarker
    <2>6. StarterIsSound'
      BY <1>1, <1>2, <1>6, <1>7, <2>1, <2>2 DEF StarterIsSound, HasMarker, Running
    <2> QED
      BY <1>1, <1>2, <1>6, <1>7, <2>1, <2>2, <2>3, <2>4, <2>5, <2>6
         DEF StepIsServed, Served, HistoryStays, HasMarker, IsIn, DbFiles
  <1>8. CASE ~(HasMarker /\ marker.phase = "unbound")
    <2>1. dbFile' = dbFile /\ To("checking") /\ "checking" \in StartSteps
      BY <1>8 DEF BindFile, HasMarker, StartSteps
    <2>2. /\ starter' \in Starters /\ starter'.step = "checking" /\ starter'.image = starter.image
          /\ (starter'.existed <=> starter.existed)
      BY <2>1, ToStep
    <2>3. DatabaseTypeOK'
      BY <1>1, <2>1, <2>2 DEF DatabaseTypeOK, HistoryStays
    <2>4. FileIsSound' /\ NumbersAreNew'
      BY <1>1, <1>2, <2>1
         DEF FileIsSound, WholeFile, Served, HistoryStays, HasMarker, IsBlank, NumbersAreNew
    <2>5. StarterIsSound'
      BY <1>1, <1>2, <1>3, <1>4, <1>8, <2>1, <2>2 DEF StarterIsSound, HasMarker, Running, IsBlank, Served
    <2> QED
      BY <1>1, <1>2, <2>1, <2>2, <2>3, <2>4, <2>5
         DEF StepIsServed, Served, HistoryStays, HasMarker, IsIn
  <1> QED
    BY <1>7, <1>8

LEMMA BindMarkerServes ==
  ASSUME Served, DatabaseTypeOK, BindMarker, Image' = Image
  PROVE  DatabaseTypeOK' /\ StepIsServed
  <1>1. /\ starter.step = "naming" /\ Running /\ To("checking") /\ "checking" \in StartSteps
        /\ HistoryStays /\ dbFile' = dbFile /\ mirror' = mirror /\ numbers' = numbers
    BY DEF BindMarker, Running, StartSteps
  <1>2. /\ dbFile # NoFile /\ dbFile \in DbFiles /\ dbFile.ino \in Nat /\ starter.image = Image
        /\ HasMarker /\ marker.phase = "unbound" /\ dbFile.app = marker.app
    BY <1>1 DEF Served, StarterIsSound, DatabaseTypeOK, DbFiles
  <1>3. PICK m : m = [marker EXCEPT !.phase = "bound", !.ino = dbFile.ino]
    OBVIOUS
  <1>4. m \in Markers /\ m # NoMarker /\ m.phase = "bound" /\ m.ino = dbFile.ino /\ m.app = marker.app
    <2>1. marker \in Markers
      BY <1>2 DEF HasMarker, DatabaseTypeOK
    <2> QED
      BY <1>2, <1>3, <2>1, NothingAssumption DEF Markers
  <1>5. marker' = m
    BY <1>3 DEF BindMarker
  <1>6. /\ starter' \in Starters /\ starter'.step = "checking" /\ starter'.image = starter.image
        /\ (starter'.existed <=> starter.existed)
    BY <1>1, ToStep
  <1>7. DatabaseTypeOK'
    BY <1>1, <1>4, <1>5, <1>6 DEF DatabaseTypeOK, HistoryStays
  <1>8. FileIsSound' /\ NumbersAreNew'
    BY <1>1, <1>2, <1>4, <1>5
       DEF FileIsSound, WholeFile, Served, HistoryStays, HasMarker, IsBlank, NumbersAreNew
  <1>9. StarterIsSound'
    BY <1>1, <1>2, <1>4, <1>5, <1>6 DEF StarterIsSound, HasMarker, Running
  <1> QED
    BY <1>1, <1>2, <1>6, <1>7, <1>8, <1>9 DEF StepIsServed, Served, HistoryStays, HasMarker, IsIn

(* The process comes to another step, and leaves every file as it is.      *)
LEMMA OnlyStarterServes ==
  ASSUME Served, DatabaseTypeOK, FilesStay, HistoryStays, starter' \in Starters, StarterIsSound',
         Running' => starter'.image = Image
  PROVE  DatabaseTypeOK' /\ StepIsServed
  <1>1. DatabaseTypeOK'
    BY DEF DatabaseTypeOK, HistoryStays, FilesStay
  <1>2. (dbFile' # NoFile => FileIsSound') /\ NumbersAreNew'
    BY DEF FileIsSound, WholeFile, Served, HistoryStays, FilesStay, HasMarker, IsBlank, NumbersAreNew
  <1> QED
    BY <1>1, <1>2 DEF StepIsServed, Served, HistoryStays, FilesStay, HasMarker, IsIn

LEMMA CheckSchemaServes ==
  ASSUME Served, DatabaseTypeOK, CheckSchema
  PROVE  DatabaseTypeOK' /\ StepIsServed
  <1>1. starter.step = "checking" /\ Running /\ FilesStay /\ HistoryStays /\ ~UnknownSchema
    BY DEF CheckSchema, Running
  <1>2. /\ dbFile # NoFile /\ starter.image = Image /\ FileIsSound
        /\ HasMarker => marker.phase = "bound" /\ dbFile.ino = marker.ino
        /\ ~starter.existed => HasMarker
        /\ HasMarker \/ ~IsBlank(dbFile)
    BY <1>1 DEF Served, StarterIsSound
  <1>3. starter \in Starters
    BY DEF DatabaseTypeOK
  <1>4. Resumes \in BOOLEAN
    BY DEF Resumes
  <1>5. PICK b \in BOOLEAN : b = Resumes
    BY <1>4
  <1>6. PICK r : r = [starter EXCEPT !.step = "migrating", !.resuming = b]
    OBVIOUS
  <1>7. /\ r \in Starters /\ r.step = "migrating" /\ r.image = starter.image
        /\ (r.existed <=> starter.existed) /\ (r.resuming <=> b)
    BY <1>3, <1>5, <1>6 DEF Starters, StartSteps
  <1>8. starter' = r
    BY <1>5, <1>6 DEF CheckSchema
  <1>9. Resumes <=> HasMarker
    BY <1>2 DEF Resumes, HasMarker, IsInterrupted, FileIsSound
  <1>10. IsFresh' <=> HasMarker'
    <2>1. (Resumes <=> HasMarker') /\ (b <=> Resumes)
      BY <1>1, <1>5, <1>9 DEF FilesStay, HasMarker
    <2> QED
      BY <1>1, <1>2, <1>7, <1>8, <1>9, <2>1 DEF IsFresh
  <1>11. /\ dbFile' = dbFile /\ marker' = marker
    BY <1>1 DEF FilesStay
  <1>12. StarterIsSound'
    BY <1>2, <1>7, <1>8, <1>10, <1>11 DEF StarterIsSound, Running, HasMarker, IsBlank
  <1> QED
    BY <1>1, <1>2, <1>7, <1>8, <1>12, OnlyStarterServes

LEMMA MigrateServes ==
  ASSUME Served, DatabaseTypeOK, Migrate, Image' = Image, Image \in Images
  PROVE  DatabaseTypeOK' /\ StepIsServed
  <1>1. /\ starter.step = "migrating" /\ Running /\ starter' = starter /\ marker' = marker
        /\ HistoryStays /\ mirror' = mirror /\ numbers' = numbers
        /\ dbFile.schema < Migrations(starter.image)
    BY DEF Migrate, Running
  <1>2. /\ dbFile # NoFile /\ dbFile \in DbFiles /\ dbFile.schema \in Nat /\ starter.image = Image
        /\ FileIsSound
        /\ HasMarker => marker.phase = "bound" /\ dbFile.ino = marker.ino
        /\ HasMarker <=> IsFresh
        /\ HasMarker \/ ~IsBlank(dbFile)
    BY <1>1 DEF Served, StarterIsSound, DatabaseTypeOK, DbFiles
  <1>3. PICK f : f = [dbFile EXCEPT !.schema = @ + 1]
    OBVIOUS
  <1>4. /\ f \in DbFiles /\ f # NoFile /\ f.schema = dbFile.schema + 1
        /\ f.ino = dbFile.ino /\ f.app = dbFile.app /\ f.snap = dbFile.snap /\ f.mark = dbFile.mark
    BY <1>2, <1>3, NothingAssumption DEF DbFiles
  <1>5. dbFile' = f
    BY <1>3 DEF Migrate
  <1>6. DatabaseTypeOK'
    BY <1>1, <1>4, <1>5 DEF DatabaseTypeOK, HistoryStays
  <1>7. FileIsSound'
    BY <1>1, <1>2, <1>4, <1>5 DEF FileIsSound, WholeFile, HistoryStays, HasMarker, IsBlank
  <1>8. NumbersAreNew'
    BY <1>1, <1>2, <1>4, <1>5 DEF NumbersAreNew, Served, HasMarker
  <1>9. (HasMarker' <=> IsFresh') /\ ~IsBlank(f)
    BY <1>1, <1>2, <1>4 DEF HasMarker, IsFresh, IsBlank
  <1>10. StarterIsSound'
    BY <1>1, <1>2, <1>4, <1>5, <1>9 DEF StarterIsSound, HasMarker, Running
  <1>11. dbFile'.schema <= Migrations(Image)
    BY <1>1, <1>2, <1>4, <1>5, MigrationsAre
  <1> QED
    BY <1>1, <1>2, <1>4, <1>5, <1>6, <1>7, <1>8, <1>10, <1>11
       DEF StepIsServed, Served, HistoryStays, HasMarker, IsIn

LEMMA EndMigrationsServes ==
  ASSUME Served, DatabaseTypeOK, EndMigrations, Image' = Image, Image \in Images
  PROVE  DatabaseTypeOK' /\ StepIsServed
  <1>1. /\ starter.step = "migrating" /\ Running /\ To("reading") /\ "reading" \in StartSteps
        /\ HistoryStays /\ marker' = marker /\ mirror' = mirror /\ numbers' = numbers
        /\ dbFile.schema >= Migrations(starter.image)
    BY DEF EndMigrations, Running, StartSteps
  <1>2. /\ dbFile # NoFile /\ dbFile \in DbFiles /\ dbFile.schema \in Nat /\ starter.image = Image
        /\ FileIsSound
        /\ HasMarker => marker.phase = "bound" /\ dbFile.ino = marker.ino
        /\ HasMarker <=> IsFresh
    BY <1>1 DEF Served, StarterIsSound, DatabaseTypeOK, DbFiles
  <1>3. PICK f : f = [dbFile EXCEPT !.mark = IF IsFresh THEN "pending" ELSE @]
    OBVIOUS
  <1>4. /\ f \in DbFiles /\ f # NoFile /\ f.schema = dbFile.schema
        /\ f.ino = dbFile.ino /\ f.app = dbFile.app /\ f.snap = dbFile.snap
        /\ f.mark = IF IsFresh THEN "pending" ELSE dbFile.mark
    BY <1>2, <1>3, NothingAssumption DEF DbFiles
  <1>5. dbFile' = f
    BY <1>3 DEF EndMigrations
  <1>6. /\ starter' \in Starters /\ starter'.step = "reading" /\ starter'.image = starter.image
        /\ (starter'.existed <=> starter.existed) /\ (starter'.resuming <=> starter.resuming)
    BY <1>1, ToStep
  <1>7. IsFresh' <=> IsFresh
    BY <1>6 DEF IsFresh
  <1>8. dbFile.schema > 0
    BY <1>1, <1>2, MigrationsAre
  <1>9. DatabaseTypeOK'
    BY <1>1, <1>4, <1>5, <1>6 DEF DatabaseTypeOK, HistoryStays
  <1>10. f.mark = IF HasMarker THEN "pending" ELSE dbFile.mark
    BY <1>2, <1>4
  <1>11. FileIsSound'
    BY <1>1, <1>2, <1>4, <1>5, <1>8, <1>10 DEF FileIsSound, WholeFile, HistoryStays, HasMarker, IsBlank
  <1>12. NumbersAreNew'
    BY <1>1, <1>2, <1>4, <1>5 DEF NumbersAreNew, Served, HasMarker
  <1>13. StarterIsSound'
    BY <1>1, <1>2, <1>4, <1>5, <1>6, <1>7, <1>8, <1>10 DEF StarterIsSound, HasMarker, Running, IsBlank
  <1> QED
    BY <1>1, <1>2, <1>4, <1>5, <1>6, <1>9, <1>11, <1>12, <1>13
       DEF StepIsServed, Served, HistoryStays, HasMarker, IsIn

LEMMA ReadStateServes ==
  ASSUME Served, DatabaseTypeOK, ReadState, Image' = Image
  PROVE  DatabaseTypeOK' /\ StepIsServed
  <1>1. /\ starter.step = "reading" /\ Running /\ To("clearing") /\ "clearing" \in StartSteps
        /\ HistoryStays /\ marker' = marker /\ mirror' = mirror /\ numbers' = numbers
        /\ ~SnapshotIsMissing
    BY DEF ReadState, Running, StartSteps
  <1>2. /\ dbFile # NoFile /\ dbFile \in DbFiles /\ dbFile.schema > 0 /\ starter.image = Image
        /\ FileIsSound
        /\ HasMarker => marker.phase = "bound" /\ dbFile.ino = marker.ino
        /\ HasMarker <=> IsFresh
        /\ IsFresh => dbFile.mark = "pending"
        /\ dbFile.snap = NoState => dbFile.mark # "initialized"
        /\ HasMarker => dbFile.snap = NoState
    BY <1>1 DEF Served, StarterIsSound, DatabaseTypeOK, DbFiles, SnapshotIsMissing, FileIsSound
  <1>3. PICK f : f = [dbFile EXCEPT !.mark = IF dbFile.snap # NoState THEN "initialized" ELSE @]
    OBVIOUS
  <1>4. /\ f \in DbFiles /\ f # NoFile /\ f.schema = dbFile.schema
        /\ f.ino = dbFile.ino /\ f.app = dbFile.app /\ f.snap = dbFile.snap
        /\ f.mark = IF dbFile.snap # NoState THEN "initialized" ELSE dbFile.mark
    BY <1>2, <1>3, NothingAssumption DEF DbFiles
  <1>5. dbFile' = f
    BY <1>3 DEF ReadState
  <1>6. /\ starter' \in Starters /\ starter'.step = "clearing" /\ starter'.image = starter.image
        /\ (starter'.existed <=> starter.existed) /\ (starter'.resuming <=> starter.resuming)
    BY <1>1, ToStep
  <1>7. IsFresh' <=> IsFresh
    BY <1>6 DEF IsFresh
  <1>8. DatabaseTypeOK'
    BY <1>1, <1>4, <1>5, <1>6 DEF DatabaseTypeOK, HistoryStays
  <1>9. FileIsSound'
    BY <1>1, <1>2, <1>4, <1>5 DEF FileIsSound, WholeFile, HistoryStays, HasMarker, IsBlank
  <1>10. NumbersAreNew'
    BY <1>1, <1>2, <1>4, <1>5 DEF NumbersAreNew, Served, HasMarker
  <1>11. StarterIsSound'
    BY <1>1, <1>2, <1>4, <1>5, <1>6, <1>7
       DEF StarterIsSound, HasMarker, Running, IsBlank, SnapshotIsMissing
  <1> QED
    BY <1>1, <1>2, <1>4, <1>5, <1>6, <1>8, <1>9, <1>10, <1>11
       DEF StepIsServed, Served, HistoryStays, HasMarker, IsIn, DbFiles

LEMMA ClearMarkerServes ==
  ASSUME Served, DatabaseTypeOK, ClearMarker, Image' = Image
  PROVE  DatabaseTypeOK' /\ StepIsServed
  <1>1. /\ starter.step = "clearing" /\ Running /\ To("loading") /\ "loading" \in StartSteps
        /\ HistoryStays /\ dbFile' = dbFile /\ mirror' = mirror /\ numbers' = numbers
        /\ marker' = NoMarker
    BY DEF ClearMarker, Running, StartSteps
  <1>2. /\ dbFile # NoFile /\ dbFile \in DbFiles /\ dbFile.schema > 0 /\ dbFile.schema \in Nat
        /\ starter.image = Image /\ FileIsSound /\ ~SnapshotIsMissing
        /\ HasMarker <=> IsFresh
        /\ HasMarker \/ ~IsBlank(dbFile)
    BY <1>1 DEF Served, StarterIsSound, DatabaseTypeOK, DbFiles
  <1>3. dbFile.snap = NoState /\ ~damaged => dbFile.mark = "pending"
    <2>1. IsFresh => dbFile.mark = "pending"
      BY <1>1, <1>2 DEF Served, StarterIsSound
    <2> QED
      BY <1>2, <2>1 DEF FileIsSound, WholeFile
  <1>4. /\ starter' \in Starters /\ starter'.step = "loading" /\ starter'.image = starter.image
    BY <1>1, ToStep
  <1>5. DatabaseTypeOK'
    BY <1>1, <1>4 DEF DatabaseTypeOK, HistoryStays
  <1>6. FileIsSound' /\ NumbersAreNew'
    BY <1>1, <1>2, <1>3
       DEF FileIsSound, WholeFile, HistoryStays, HasMarker, IsBlank, NumbersAreNew, Served, SnapshotIsMissing
  <1>7. StarterIsSound'
    BY <1>1, <1>2, <1>4 DEF StarterIsSound, HasMarker, Running, IsBlank, SnapshotIsMissing
  <1> QED
    BY <1>1, <1>2, <1>4, <1>5, <1>6, <1>7 DEF StepIsServed, Served, HistoryStays, HasMarker, IsIn

LEMMA LoadSnapshotServes ==
  ASSUME Served, DatabaseTypeOK, LoadSnapshot
  PROVE  DatabaseTypeOK' /\ StepIsServed
  <1>1. /\ starter.step = "loading" /\ Running /\ FilesStay /\ HistoryStays /\ dbFile.snap # NoState
    BY DEF LoadSnapshot, Running
  <1>2. /\ dbFile # NoFile /\ dbFile \in DbFiles /\ dbFile.schema > 0 /\ starter.image = Image
        /\ dbFile.snap = expected /\ ~HasMarker /\ ~IsBlank(dbFile)
    BY <1>1 DEF Served, StarterIsSound, DatabaseTypeOK, FileIsSound
  <1>3. PICK r : r = [starter EXCEPT !.step = "serving", !.state = dbFile.snap]
    OBVIOUS
  <1>4. r \in Starters /\ r.step = "serving" /\ r.image = starter.image /\ r.state = dbFile.snap
    BY <1>2, <1>3 DEF Starters, StartSteps, DbFiles, DatabaseTypeOK
  <1>5. starter' = r /\ dbFile' = dbFile /\ marker' = marker /\ expected' = expected
    BY <1>1, <1>3 DEF LoadSnapshot, FilesStay, HistoryStays
  <1>6. StarterIsSound'
    BY <1>2, <1>4, <1>5 DEF StarterIsSound, Running, HasMarker, IsBlank
  <1> QED
    BY <1>1, <1>2, <1>4, <1>5, <1>6, OnlyStarterServes

LEMMA RefuseStartServes ==
  ASSUME Served, DatabaseTypeOK, RefuseStart
  PROVE  DatabaseTypeOK' /\ StepIsServed
  <1>1. /\ Refuses /\ FilesStay /\ HistoryStays /\ To("refused") /\ "refused" \in StartSteps
    BY DEF RefuseStart, StartSteps
  <1>2. starter' \in Starters /\ starter'.step = "refused"
    BY <1>1, ToStep
  <1>3. damaged \/ MarkerIsStale
    <2> SUFFICES ASSUME ~damaged PROVE MarkerIsStale
      OBVIOUS
    <2>1. dbFile # NoFile => WholeFile /\ FileIsSound /\ dbFile.schema \in Nat
      BY DEF Served, FileIsSound, DatabaseTypeOK, DbFiles
    <2>2. CASE starter.step = "opening" /\ starter.existed /\ marker = NoMarker /\ IsBlank(dbFile)
      BY <2>1, <2>2 DEF Served, StarterIsSound, WholeFile, HasMarker, IsBlank
    <2>3. CASE starter.step = "binding" /\ MarkerMismatch
      <3>1. dbFile # NoFile /\ HasMarker
        BY <2>3 DEF Served, StarterIsSound, Running, MarkerMismatch, HasMarker
      <3>2. ~(marker.phase = "unbound" /\ (dbFile.schema > 0 \/ dbFile.app \notin {0, marker.app}))
        BY <2>1, <3>1 DEF FileIsSound
      <3> QED
        BY <2>1, <2>3, <3>1, <3>2 DEF MarkerMismatch, WholeFile, MarkerIsStale, HasMarker
    <2>4. CASE starter.step = "checking" /\ UnknownSchema
      <3>1. /\ dbFile # NoFile /\ starter.image = Image
            /\ ~starter.existed => HasMarker
        BY <2>4 DEF Served, StarterIsSound, Running
      <3>2. ~(dbFile.schema > Migrations(starter.image))
        BY <2>1, <3>1, MigrationsAre DEF Served, DatabaseTypeOK, Starters
      <3>3. Resumes <=> HasMarker
        BY <2>1, <3>1 DEF Resumes, HasMarker, IsInterrupted, FileIsSound
      <3> QED
        BY <2>1, <2>4, <3>1, <3>2, <3>3 DEF UnknownSchema, WholeFile
    <2>5. CASE starter.step = "reading" /\ SnapshotIsMissing
      BY <2>1, <2>5 DEF Served, StarterIsSound, Running, WholeFile, SnapshotIsMissing
    <2>6. CASE starter.step = "loading" /\ NothingToLoad
      BY <2>1, <2>6 DEF Served, StarterIsSound, Running, WholeFile, NothingToLoad
    <2> QED
      BY <1>1, <2>2, <2>3, <2>4, <2>5, <2>6 DEF Refuses
  <1>4. damaged' \/ MarkerIsStale'
    BY <1>1, <1>3 DEF FilesStay, HistoryStays, MarkerIsStale
  <1>5. StarterIsSound'
    BY <1>2, <1>4 DEF StarterIsSound, Running
  <1> QED
    BY <1>1, <1>2, <1>5, OnlyStarterServes DEF Running

(* A snapshot is written into the file.                                    *)
LEMMA WrittenFileIs ==
  ASSUME dbFile \in DbFiles, NEW s \in States
  PROVE  \E f \in DbFiles :
           /\ f = [dbFile EXCEPT !.snap = s, !.mark = "initialized"]
           /\ f # NoFile /\ f.ino = dbFile.ino /\ f.app = dbFile.app /\ f.schema = dbFile.schema
           /\ f.snap = s /\ f.mark = "initialized"
  <1>1. PICK f : f = [dbFile EXCEPT !.snap = s, !.mark = "initialized"]
    OBVIOUS
  <1>2. f \in DbFiles /\ f # NoFile /\ f.ino = dbFile.ino /\ f.app = dbFile.app
        /\ f.schema = dbFile.schema /\ f.snap = s /\ f.mark = "initialized"
    BY <1>1, NothingAssumption DEF DbFiles
  <1> QED
    BY <1>1, <1>2

LEMMA InitializeStateServes ==
  ASSUME Served, DatabaseTypeOK, InitializeState, Image' = Image
  PROVE  DatabaseTypeOK' /\ StepIsServed
  <1>1. /\ starter.step = "loading" /\ Running /\ dbFile.snap = NoState /\ ~NothingToLoad
        /\ marker' = marker /\ numbers' = numbers /\ commits' = commits /\ damaged' = damaged
        /\ databaseCrashes' = databaseCrashes
    BY DEF InitializeState, Running
  <1>2. /\ dbFile # NoFile /\ dbFile \in DbFiles /\ dbFile.schema > 0 /\ starter.image = Image
        /\ FileIsSound /\ ~HasMarker /\ dbFile.mark # "initialized" /\ ~IsBlank(dbFile)
    BY <1>1 DEF Served, StarterIsSound, DatabaseTypeOK, SnapshotIsMissing, IsBlank
  <1>3. PICK s : s = IF mirror = NoState THEN DefaultState ELSE mirror
    OBVIOUS
  <1>4. s \in States /\ s # NoState
    BY <1>3, StatesAreNumbers DEF DatabaseTypeOK
  <1>5. PICK f \in DbFiles :
           /\ f = [dbFile EXCEPT !.snap = s, !.mark = "initialized"]
           /\ f # NoFile /\ f.ino = dbFile.ino /\ f.app = dbFile.app /\ f.schema = dbFile.schema
           /\ f.snap = s /\ f.mark = "initialized"
    BY <1>2, <1>4, WrittenFileIs
  <1>6. PICK r : r = [starter EXCEPT !.step = "serving", !.state = s]
    OBVIOUS
  <1>7. r \in Starters /\ r.step = "serving" /\ r.image = starter.image /\ r.state = s
    BY <1>4, <1>6 DEF Starters, StartSteps, DatabaseTypeOK
  <1>8. /\ dbFile' = f /\ latest' = s
        /\ expected' = (IF expected = NoState THEN s ELSE expected)
        /\ \/ starter' = r /\ mirror' = s
           \/ To("down") /\ mirror' = mirror
    BY <1>3, <1>5, <1>6 DEF InitializeState
  <1>9. expected' = s
    BY <1>1, <1>2, <1>3, <1>8 DEF FileIsSound
  <1>10. /\ starter' \in Starters
         /\ \/ starter' = r
            \/ starter'.step = "down"
    <2>1. "down" \in StartSteps
      BY DEF StartSteps
    <2> QED
      BY <1>7, <1>8, <2>1, ToStep
  <1>11. DatabaseTypeOK'
    BY <1>1, <1>4, <1>5, <1>8, <1>9, <1>10 DEF DatabaseTypeOK
  <1>12. FileIsSound' /\ NumbersAreNew'
    BY <1>1, <1>2, <1>4, <1>5, <1>8, <1>9 DEF FileIsSound, WholeFile, HasMarker, NumbersAreNew, Served
  <1>13. StarterIsSound'
    BY <1>1, <1>2, <1>5, <1>7, <1>8, <1>9, <1>10 DEF StarterIsSound, HasMarker, Running, IsBlank
  <1>14. Running' => starter'.image = Image
    BY <1>2, <1>7, <1>10 DEF Running
  <1> QED
    BY <1>1, <1>2, <1>5, <1>8, <1>9, <1>11, <1>12, <1>13, <1>14
       DEF StepIsServed, Served, HasMarker, IsIn, DbFiles

LEMMA CommitServes ==
  ASSUME Served, DatabaseTypeOK, Commit, Image' = Image
  PROVE  DatabaseTypeOK' /\ StepIsServed
  <1>1. /\ starter.step = "serving" /\ Running /\ commits < MaxCommits
        /\ marker' = marker /\ numbers' = numbers /\ damaged' = damaged
        /\ commits' = commits + 1 /\ databaseCrashes' = databaseCrashes
    BY DEF Commit, Running
  <1>2. /\ dbFile # NoFile /\ dbFile \in DbFiles /\ dbFile.schema > 0 /\ starter.image = Image
        /\ FileIsSound /\ ~HasMarker /\ ~IsBlank(dbFile)
    BY <1>1 DEF Served, StarterIsSound, DatabaseTypeOK
  <1>3. PICK s : s = commits + 2
    OBVIOUS
  <1>4. s \in States /\ s # NoState
    BY <1>1, <1>3, StatesAreNumbers DEF DatabaseTypeOK
  <1>5. PICK f \in DbFiles :
           /\ f = [dbFile EXCEPT !.snap = s, !.mark = "initialized"]
           /\ f # NoFile /\ f.ino = dbFile.ino /\ f.app = dbFile.app /\ f.schema = dbFile.schema
           /\ f.snap = s /\ f.mark = "initialized"
    BY <1>2, <1>4, WrittenFileIs
  <1>6. PICK r : r = [starter EXCEPT !.state = s]
    OBVIOUS
  <1>7. r \in Starters /\ r.step = "serving" /\ r.image = starter.image /\ r.state = s
    BY <1>1, <1>4, <1>6 DEF Starters, DatabaseTypeOK
  <1>8. /\ dbFile' = f /\ latest' = s /\ expected' = s /\ starter' = r
        /\ mirror' \in {mirror, s}
    BY <1>3, <1>5, <1>6 DEF Commit
  <1>9. DatabaseTypeOK'
    <2>1. commits' \in 0..MaxCommits
      BY <1>1, DatabaseBoundsAssumption DEF DatabaseTypeOK
    <2> QED
      BY <1>1, <1>4, <1>5, <1>7, <1>8, <2>1 DEF DatabaseTypeOK
  <1>10. FileIsSound' /\ NumbersAreNew'
    BY <1>1, <1>2, <1>4, <1>5, <1>8 DEF FileIsSound, WholeFile, HasMarker, NumbersAreNew, Served
  <1>11. StarterIsSound'
    BY <1>1, <1>2, <1>5, <1>7, <1>8 DEF StarterIsSound, HasMarker, Running, IsBlank
  <1> QED
    BY <1>1, <1>2, <1>5, <1>7, <1>8, <1>9, <1>10, <1>11
       DEF StepIsServed, Served, HasMarker, IsIn, DbFiles

LEMMA DatabaseCrashServes ==
  ASSUME Served, DatabaseTypeOK, DatabaseCrash
  PROVE  DatabaseTypeOK' /\ StepIsServed
  <1>1. /\ FilesStay /\ UNCHANGED <<commits, latest, expected, damaged>>
        /\ starter' = NotStarted(starter.image) /\ databaseCrashes' = databaseCrashes + 1
        /\ databaseCrashes < MaxDatabaseCrashes
    BY DEF DatabaseCrash
  <1>2. starter' \in Starters /\ starter'.step = "down"
    BY <1>1, NotStartedIs DEF DatabaseTypeOK, Starters
  <1>3. DatabaseTypeOK'
    <2>1. databaseCrashes' \in 0..MaxDatabaseCrashes
      BY <1>1, DatabaseBoundsAssumption DEF DatabaseTypeOK
    <2> QED
      BY <1>1, <1>2, <2>1 DEF DatabaseTypeOK, FilesStay
  <1>4. (dbFile' # NoFile => FileIsSound') /\ NumbersAreNew'
    BY <1>1 DEF FileIsSound, WholeFile, Served, FilesStay, HasMarker, IsBlank, NumbersAreNew
  <1>5. StarterIsSound' /\ ~Running'
    BY <1>2 DEF StarterIsSound, Running
  <1> QED
    BY <1>1, <1>3, <1>4, <1>5 DEF StepIsServed, Served, FilesStay, HasMarker, IsIn

LEMMA DamageServes ==
  ASSUME Served, DatabaseTypeOK, Damage
  PROVE  DatabaseTypeOK' /\ StepIsServed
  <1>1. /\ ~Running /\ dbFile # NoFile /\ dbFile \in DbFiles /\ FileIsSound /\ damaged' = TRUE
        /\ UNCHANGED <<marker, mirror, starter, numbers, commits, latest, expected, databaseCrashes>>
    BY DEF Damage, Served, DatabaseTypeOK
  <1>2. PICK e : e = EmptyFile(dbFile.ino)
    OBVIOUS
  <1>3. /\ e \in DbFiles /\ e # NoFile /\ e.ino = dbFile.ino
        /\ e.app = 0 /\ e.schema = 0 /\ e.snap = NoState /\ e.mark = "none"
    BY <1>1, <1>2, EmptyFileIs DEF DbFiles
  <1>4. PICK f : f = [dbFile EXCEPT !.snap = NoState]
    OBVIOUS
  <1>5. /\ f \in DbFiles /\ f # NoFile /\ f.schema = dbFile.schema
        /\ f.ino = dbFile.ino /\ f.app = dbFile.app /\ f.snap = NoState /\ f.mark = dbFile.mark
    BY <1>1, <1>4, NothingAssumption DEF DbFiles
  <1>6. dbFile' = e \/ dbFile' = f
    BY <1>2, <1>4 DEF Damage
  <1>7. DatabaseTypeOK'
    BY <1>1, <1>3, <1>5, <1>6 DEF DatabaseTypeOK
  <1>8. FileIsSound'
    BY <1>1, <1>3, <1>5, <1>6 DEF FileIsSound, HasMarker, IsBlank
  <1>9. NumbersAreNew'
    BY <1>1, <1>3, <1>5, <1>6 DEF NumbersAreNew, HasMarker, Served
  <1>10. StarterIsSound' /\ ~Running'
    BY <1>1 DEF StarterIsSound, Running
  <1>11. dbFile'.schema = 0 \/ dbFile'.schema = dbFile.schema
    BY <1>3, <1>5, <1>6
  <1> QED
    BY <1>1, <1>3, <1>5, <1>6, <1>7, <1>8, <1>9, <1>10, <1>11 DEF StepIsServed, Served, HasMarker, DbFiles

LEMMA ServerMovesIInv ==
  ASSUME DeploymentIInv, ServerMoves
  PROVE  DeploymentIInv'
  <1>1. ServerStays
    BY DEF ServerMoves, ServerStays, BoundsStay, CopiesStay
  <1>2. Served /\ DatabaseTypeOK /\ Image \in Images
    BY <1>1, ServerFits DEF ServerStays
  <1>3. Image' = Image
    BY <1>1 DEF ServerStays, Image
  <1>4. DatabaseTypeOK' /\ StepIsServed
    <2>1. CASE BeginStart(Image)
      <3>1. PICK i \in Images : i = Image
        BY <1>2
      <3>2. BeginStart(i)
        BY <2>1, <3>1
      <3> QED
        BY <1>2, <1>3, <3>1, <3>2, BeginStartServes
    <2>2. CASE DatabaseStep
      BY <1>2, <1>3, <2>2, OpenFileServes, BindFileServes, BindMarkerServes, CheckSchemaServes,
         MigrateServes, EndMigrationsServes, ReadStateServes, ClearMarkerServes, LoadSnapshotServes,
         InitializeStateServes, RefuseStartServes, CommitServes, DatabaseCrashServes
         DEF DatabaseStep
    <2>3. CASE Damage
      BY <1>2, <2>3, DamageServes
    <2> QED
      BY <2>1, <2>2, <2>3 DEF ServerMoves
  <1> QED
    BY <1>1, <1>4, ServerStepKeeps

(* While the workflow works on the files, no server runs.                  *)
LEMMA NoServerRuns ==
  ASSUME DeploymentIInv, ~MayServe
  PROVE  starter.step = "down" /\ ~Running
  BY DEF DeploymentIInv, ImagesFit, Running

(* The steps that change no file of the database.                          *)
LEMMA FilesAsTheyAre ==
  ASSUME DeploymentIInv, DeploymentTypeOK', FilesStay, HistoryStays,
         starter' \in Starters, StarterIsSound' \/ starter' = starter, Usable' => Usable,
         NoFileIsFresh', ImagesFit', CopiesAreSound', PutBackAsBefore',
         \A s : IsIn(s, failed) => IsIn(s, failed')
  PROVE  DeploymentIInv'
  <1>1. DatabaseTypeOK'
    BY DEF DeploymentIInv, DatabaseTypeOK, FilesStay, HistoryStays
  <1>2. UsableFileIsSound' /\ NumbersAreNew'
    BY DEF DeploymentIInv, UsableFileIsSound, NumbersAreNew, FileIsSound, WholeFile, HasMarker, IsBlank,
           FilesStay, HistoryStays
  <1>3. StarterIsSound'
    BY DEF DeploymentIInv, StarterIsSound, HasMarker, Running, IsBlank, IsFresh, SnapshotIsMissing,
           MarkerIsStale, FilesStay, HistoryStays
  <1>4. LatestIsKept'
    BY DEF DeploymentIInv, LatestIsKept, IsIn, FilesStay, HistoryStays
  <1> QED
    BY <1>1, <1>2, <1>3, <1>4 DEF DeploymentIInv

LEMMA StopIInv ==
  ASSUME DeploymentIInv, StopForDeployment
  PROVE  DeploymentIInv'
  <1>1. /\ deployment = "none" /\ deployment' = "stopped" /\ starter' = NotStarted(previous)
        /\ FilesStay /\ HistoryStays /\ BoundsStay /\ CopiesStay /\ manifest' = manifest
    BY DEF StopForDeployment
  <1>2. starter' \in Starters /\ starter'.step = "down"
    BY <1>1, NotStartedIs, MigrationsAre
  <1>3. StarterIsSound' /\ ~Running'
    BY <1>2 DEF StarterIsSound, Running
  <1>4. DeploymentTypeOK' /\ NoFileIsFresh'
    BY <1>1 DEF DeploymentIInv, DeploymentTypeOK, Deployments, NoFileIsFresh, BoundsStay, CopiesStay,
                FilesStay, HistoryStays
  <1>5. ImagesFit'
    BY <1>1, <1>2, <1>3 DEF DeploymentIInv, ImagesFit, FilesStay
  <1>6. CopiesAreSound' /\ PutBackAsBefore'
    BY <1>1 DEF DeploymentIInv, CopiesAreSound, PutBackAsBefore, CopyIsGood, CopiesStay, FilesStay, HasMarker
  <1>7. Usable /\ \A s : IsIn(s, failed) => IsIn(s, failed')
    BY <1>1 DEF Usable, IsIn, CopiesStay
  <1> QED
    BY <1>1, <1>2, <1>3, <1>4, <1>5, <1>6, <1>7, FilesAsTheyAre

(* A step after which the database, the server and the history are as      *)
(* before.                                                                 *)
LEMMA DatabaseAsItIs ==
  ASSUME DeploymentIInv, DatabaseStays, ~MayServe \/ Image' = Image, starter.step = "down" \/ MayServe',
         deployment' \in Deployments, manifest' \in {"none", "absent", "present"}, BoundsStay,
         {copied', failed', before'} \subseteq Copies \cup {NoFile}, Usable' => Usable,
         NoFileIsFresh', CopiesAreSound', PutBackAsBefore',
         dbFile # NoFile /\ deployment' \in {"none", "stopped", "copied", "clearing", "cleared", "restored"}
           => dbFile.schema <= PreviousMigrations,
         dbFile # NoFile /\ deployment' \in {"prepared", "completing", "completed"}
           => dbFile.schema <= Migrations(candidate),
         \A s : IsIn(s, failed) => IsIn(s, failed')
  PROVE  DeploymentIInv'
  <1>1. FilesStay /\ HistoryStays /\ starter' = starter /\ starter \in Starters
    BY DEF DatabaseStays, databaseVars, FilesStay, HistoryStays, DeploymentIInv, DatabaseTypeOK
  <1>2. DeploymentTypeOK'
    BY DEF DeploymentIInv, DeploymentTypeOK, BoundsStay
  <1>3. Running' => starter'.image = Image'
    BY <1>1, NoServerRuns DEF Running, DeploymentIInv, ImagesFit
  <1>4. ImagesFit'
    BY <1>1, <1>3 DEF ImagesFit, FilesStay
  <1> QED
    BY <1>1, <1>2, <1>4, FilesAsTheyAre

LEMMA CopyDatabaseIInv ==
  ASSUME DeploymentIInv, CopyDatabase
  PROVE  DeploymentIInv'
  <1>1. /\ deployment = "stopped" /\ deployment' = "copied" /\ DatabaseStays /\ BoundsStay
        /\ manifest' = manifest /\ failed' = failed
        /\ copied' = Contents(dbFile) /\ before' = Contents(dbFile) /\ IsVerified(dbFile)
    BY DEF CopyDatabase
  <1>2. dbFile' = dbFile /\ marker' = marker /\ expected' = expected /\ mirror' = mirror
    BY <1>1 DEF DatabaseStays, databaseVars
  <1>3. /\ dbFile # NoFile /\ dbFile \in DbFiles /\ dbFile.snap # NoState /\ FileIsSound
        /\ dbFile.schema <= PreviousMigrations /\ manifest = "none" /\ failed = NoFile
    BY <1>1 DEF DeploymentIInv, DatabaseTypeOK, UsableFileIsSound, Usable, ImagesFit, IsVerified, CopiesAreSound
  <1>4. copied' \in Copies /\ copied' # NoFile /\ IsVerified(copied') /\ copied'.schema = dbFile.schema
    BY <1>1, <1>3, ContentsAre DEF IsVerified
  <1>5. CopyIsGood'
    BY <1>1, <1>2, <1>3, <1>4 DEF CopyIsGood, FileIsSound, HasMarker, IsVerified
  <1>6. CopiesAreSound'
    BY <1>1, <1>2, <1>3, <1>5 DEF CopiesAreSound
  <1>7. ~MayServe /\ starter.step = "down"
    BY <1>1, NoServerRuns DEF MayServe
  <1>8. NoFileIsFresh' /\ PutBackAsBefore' /\ Usable
    BY <1>1, <1>2, <1>3 DEF NoFileIsFresh, PutBackAsBefore, Usable
  <1>9. /\ deployment' \in Deployments /\ manifest' \in {"none", "absent", "present"}
        /\ {copied', failed', before'} \subseteq Copies \cup {NoFile}
    BY <1>1, <1>4 DEF DeploymentIInv, DeploymentTypeOK, Deployments
  <1> QED
    BY <1>1, <1>3, <1>6, <1>7, <1>8, <1>9, DatabaseAsItIs

(* Steps of the workflow that leave the copies as they are as well.        *)
LEMMA PrepareIInv ==
  ASSUME DeploymentIInv, WriteManifest \/ GiveUpPreparing \/ Complete \/ RemoveCopy
  PROVE  DeploymentIInv'
  <1>1. /\ deployment \in {"stopped", "copied", "prepared", "completing"}
        /\ deployment' \in {"prepared", "restored", "completing", "completed"}
        /\ deployment \in {"stopped", "copied"} <=> deployment' \in {"prepared", "restored"}
        /\ deployment \in {"stopped", "copied"} \/ (MayServe /\ deployment' \in {"completing", "completed"})
        /\ DatabaseStays /\ BoundsStay /\ failed' = failed /\ before' = before
        /\ copied' = copied \/ (deployment = "completing" /\ deployment' = "completed" /\ copied' = NoFile)
        /\ deployment' \in {"restored", "completed"} => manifest' = manifest
        /\ deployment' = "completing" => manifest' = "none"
        /\ deployment' = "completed" => deployment = "completing"
        /\ deployment' = "prepared" =>
             \/ deployment = "copied" /\ manifest' = "present"
             \/ deployment = "stopped" /\ dbFile = NoFile /\ manifest' = "absent"
    BY DEF WriteManifest, GiveUpPreparing, Complete, RemoveCopy, CopiesStay, MayServe
  <1>2. dbFile' = dbFile /\ marker' = marker /\ expected' = expected /\ mirror' = mirror
    BY <1>1 DEF DatabaseStays, databaseVars
  <1>3. /\ deployment \in {"stopped", "copied", "completing"} => manifest = "none"
        /\ failed = NoFile
        /\ deployment = "copied" => CopyIsGood /\ dbFile # NoFile
        /\ deployment = "stopped" => before = NoFile
    BY <1>1 DEF DeploymentIInv, CopiesAreSound
  <1>4. manifest' = "present" => CopyIsGood'
    BY <1>1, <1>2, <1>3 DEF CopyIsGood, IsVerified, HasMarker
  <1>5. CopiesAreSound'
    BY <1>1, <1>2, <1>3, <1>4 DEF CopiesAreSound
  <1>6. deployment \in {"stopped", "copied"} => ~MayServe /\ starter.step = "down"
    BY <1>1, NoServerRuns DEF MayServe
  <1>7. ~MayServe \/ Image' = Image
    BY <1>1, <1>6 DEF Image, MayServe
  <1>8. NoFileIsFresh' /\ PutBackAsBefore' /\ Usable
    BY <1>1, <1>2 DEF NoFileIsFresh, PutBackAsBefore, Usable, DeploymentIInv
  <1>9. /\ deployment' \in Deployments /\ manifest' \in {"none", "absent", "present"}
        /\ {copied', failed', before'} \subseteq Copies \cup {NoFile}
    BY <1>1 DEF DeploymentIInv, DeploymentTypeOK, Deployments
  <1>10. /\ dbFile # NoFile /\ deployment' \in {"none", "stopped", "copied", "clearing", "cleared", "restored"}
              => dbFile.schema <= PreviousMigrations
         /\ dbFile # NoFile /\ deployment' \in {"prepared", "completing", "completed"}
              => dbFile.schema <= Migrations(candidate)
    <2>1. dbFile # NoFile => dbFile.schema \in Nat
      BY DEF DeploymentIInv, DatabaseTypeOK, DbFiles
    <2> QED
      BY <1>1, <2>1, MigrationsAre, MigrationsAssumption DEF DeploymentIInv, ImagesFit
  <1>11. MayServe'
    BY <1>1 DEF MayServe
  <1> QED
    BY <1>1, <1>5, <1>7, <1>8, <1>9, <1>10, <1>11, DatabaseAsItIs

LEMMA BeginRestoreIInv ==
  ASSUME DeploymentIInv, BeginRestore
  PROVE  DeploymentIInv'
  <1>1. /\ \/ deployment = "prepared"
           \/ deployment \in {"interrupted", "failed"} /\ manifest # "none"
        /\ deployment' = "restoring" /\ starter' = NotStarted(previous)
        /\ FilesStay /\ HistoryStays /\ BoundsStay /\ CopiesStay /\ manifest' = manifest
    BY DEF BeginRestore
  <1>2. starter' \in Starters /\ starter'.step = "down"
    BY <1>1, NotStartedIs, MigrationsAre
  <1>3. StarterIsSound' /\ ~Running'
    BY <1>2 DEF StarterIsSound, Running
  <1>4. DeploymentTypeOK' /\ NoFileIsFresh'
    BY <1>1 DEF DeploymentIInv, DeploymentTypeOK, Deployments, NoFileIsFresh, BoundsStay, CopiesStay
  <1>5. ImagesFit'
    BY <1>1, <1>2, <1>3 DEF ImagesFit
  <1>6. CopiesAreSound' /\ PutBackAsBefore'
    BY <1>1 DEF DeploymentIInv, CopiesAreSound, PutBackAsBefore, CopyIsGood, CopiesStay, FilesStay, HasMarker
  <1>7. Usable' => Usable
    BY <1>1 DEF Usable, CopiesStay, FilesStay
  <1>8. \A s : IsIn(s, failed) => IsIn(s, failed')
    BY <1>1 DEF CopiesStay
  <1> QED
    BY <1>1, <1>2, <1>3, <1>4, <1>5, <1>6, <1>7, <1>8, FilesAsTheyAre

LEMMA NothingToRestoreIInv ==
  ASSUME DeploymentIInv, NothingToRestore
  PROVE  DeploymentIInv'
  <1>1. /\ deployment = "restoring" /\ deployment' = "clearing" /\ FileMatches
        /\ DatabaseStays /\ BoundsStay /\ CopiesStay /\ manifest' = manifest
    BY DEF NothingToRestore
  <1>2. dbFile' = dbFile /\ marker' = marker
    BY <1>1 DEF DatabaseStays, databaseVars
  <1>3. /\ manifest = "present" /\ dbFile # NoFile /\ dbFile \in DbFiles /\ Contents(dbFile) = copied
        /\ CopyIsGood /\ copied \in Copies /\ copied = before /\ before # NoFile
        /\ dbFile.schema <= PreviousMigrations
    <2>1. manifest = "present" /\ dbFile # NoFile /\ dbFile \in DbFiles /\ Contents(dbFile) = copied
      BY <1>1 DEF FileMatches, IsVerified, DeploymentIInv, DatabaseTypeOK
    <2>2. CopyIsGood
      BY <2>1 DEF DeploymentIInv, CopiesAreSound
    <2> QED
      BY <2>1, <2>2, ContentsAre DEF CopyIsGood, IsVerified
  <1>4. CopiesAreSound'
    BY <1>1, <1>2, <1>3 DEF CopiesAreSound, DeploymentIInv, CopyIsGood, CopiesStay, IsVerified, HasMarker
  <1>5. PutBackAsBefore' /\ NoFileIsFresh' /\ Usable
    BY <1>1, <1>2, <1>3 DEF PutBackAsBefore, NoFileIsFresh, Usable, CopiesStay
  <1>6. ~MayServe /\ starter.step = "down"
    BY <1>1, NoServerRuns DEF MayServe
  <1>7. /\ deployment' \in Deployments /\ manifest' \in {"none", "absent", "present"}
        /\ {copied', failed', before'} \subseteq Copies \cup {NoFile}
        /\ \A s : IsIn(s, failed) => IsIn(s, failed')
    BY <1>1 DEF DeploymentIInv, DeploymentTypeOK, Deployments, CopiesStay
  <1> QED
    BY <1>1, <1>3, <1>4, <1>5, <1>6, <1>7, DatabaseAsItIs

LEMMA PreserveIInv ==
  ASSUME DeploymentIInv, Preserve
  PROVE  DeploymentIInv'
  <1>1. /\ deployment = "restoring" /\ deployment' = "preserved" /\ ~FileMatches /\ failed = NoFile
        /\ failed' = (IF dbFile = NoFile THEN NoFile ELSE Contents(dbFile))
        /\ DatabaseStays /\ BoundsStay /\ manifest' = manifest /\ copied' = copied /\ before' = before
    BY DEF Preserve
  <1>2. dbFile' = dbFile /\ marker' = marker
    BY <1>1 DEF DatabaseStays, databaseVars
  <1>3. /\ dbFile # NoFile => dbFile \in DbFiles /\ Contents(dbFile) \in Copies
        /\ failed' \in Copies \cup {NoFile}
    BY <1>1, ContentsAre DEF DeploymentIInv, DatabaseTypeOK
  <1>4. manifest = "present" => CopyIsGood /\ CopyIsGood'
    BY <1>1, <1>2 DEF DeploymentIInv, CopiesAreSound, CopyIsGood, IsVerified, HasMarker
  <1>5. manifest = "present" /\ failed' # NoFile => failed' # copied
    <2> SUFFICES ASSUME manifest = "present", dbFile # NoFile, Contents(dbFile) = copied PROVE FALSE
      BY <1>1
    <2>1. IsVerified(dbFile)
      BY <1>3, <1>4, ContentsAre DEF CopyIsGood, IsVerified
    <2> QED
      BY <1>1, <2>1 DEF FileMatches
  <1>6. CopiesAreSound'
    BY <1>1, <1>2, <1>4, <1>5 DEF CopiesAreSound, DeploymentIInv
  <1>7. PutBackAsBefore' /\ NoFileIsFresh' /\ Usable
    BY <1>1 DEF PutBackAsBefore, NoFileIsFresh, Usable
  <1>8. ~MayServe /\ starter.step = "down"
    BY <1>1, NoServerRuns DEF MayServe
  <1>9. /\ deployment' \in Deployments /\ manifest' \in {"none", "absent", "present"}
        /\ {copied', failed', before'} \subseteq Copies \cup {NoFile}
        /\ \A s : IsIn(s, failed) => IsIn(s, failed')
    BY <1>1, <1>3 DEF DeploymentIInv, DeploymentTypeOK, Deployments, IsIn
  <1> QED
    BY <1>1, <1>6, <1>7, <1>8, <1>9, DatabaseAsItIs

(* The file that a copy becomes.                                           *)
LEMMA PlacedIs ==
  ASSUME numbers \in Nat, NEW c \in Copies, Placed(c)
  PROVE  /\ dbFile' \in DbFiles /\ dbFile' # NoFile /\ numbers' = numbers + 1
         /\ dbFile'.ino = numbers + 1 /\ dbFile'.schema = c.schema /\ dbFile'.snap = c.snap
         /\ dbFile'.mark = IF c.snap = NoState THEN "none" ELSE "initialized"
         /\ Contents(dbFile') = c
  <1>1. PICK e : e = EmptyFile(numbers + 1)
    OBVIOUS
  <1>2. e \in DbFiles /\ e.ino = numbers + 1
    BY <1>1, EmptyFileIs
  <1>3. PICK m : m = IF c.snap = NoState THEN "none" ELSE "initialized"
    OBVIOUS
  <1>4. c.schema \in Nat /\ c.snap \in States \cup {NoState} /\ m \in {"none", "pending", "initialized"}
    BY <1>3 DEF Copies
  <1>5. PICK f : f = [e EXCEPT !.schema = c.schema, !.snap = c.snap, !.mark = m]
    OBVIOUS
  <1>6. /\ f \in DbFiles /\ f # NoFile /\ f.ino = numbers + 1 /\ f.schema = c.schema /\ f.snap = c.snap
        /\ f.mark = m
    BY <1>2, <1>4, <1>5, NothingAssumption DEF DbFiles
  <1>7. dbFile' = f /\ numbers' = numbers + 1
    BY <1>1, <1>3, <1>5 DEF Placed
  <1>8. Contents(f) = c
    BY <1>6, ContentsAre
  <1> QED
    BY <1>3, <1>6, <1>7, <1>8

(* The steps that replace the file, while no server runs.                  *)
LEMMA FileReplaced ==
  ASSUME DeploymentIInv, ~MayServe, ~MayServe', OnlyFile, BoundsStay \/ DeploymentTypeOK', CopiesStay,
         manifest' = manifest, deployment' \in Deployments,
         dbFile' \in DbFiles \cup {NoFile}, numbers' \in Nat, numbers' >= numbers,
         expected' \in States \cup {NoState},
         dbFile' # NoFile => dbFile'.ino <= numbers',
         UsableFileIsSound', NoFileIsFresh', CopiesAreSound', PutBackAsBefore',
         dbFile' # NoFile /\ deployment' = "clearing" => dbFile'.schema <= PreviousMigrations,
         deployment' \notin {"stopped", "copied", "cleared"},
         ~damaged /\ latest # NoState => IsIn(latest, dbFile') \/ IsIn(latest, failed)
  PROVE  DeploymentIInv'
  <1>1. starter.step = "down" /\ starter' = starter
    BY NoServerRuns DEF OnlyFile
  <1>2. DatabaseTypeOK'
    BY DEF DeploymentIInv, DatabaseTypeOK, OnlyFile
  <1>3. DeploymentTypeOK'
    BY DEF DeploymentIInv, DeploymentTypeOK, BoundsStay, CopiesStay
  <1>4. StarterIsSound' /\ ~Running'
    BY <1>1 DEF StarterIsSound, Running
  <1>5. NumbersAreNew'
    BY DEF DeploymentIInv, DatabaseTypeOK, NumbersAreNew, OnlyFile, HasMarker, Markers
  <1>6. ImagesFit'
    BY <1>1, <1>4 DEF ImagesFit, MayServe
  <1>7. LatestIsKept'
    BY DEF LatestIsKept, OnlyFile, CopiesStay
  <1> QED
    BY <1>2, <1>3, <1>4, <1>5, <1>6, <1>7 DEF DeploymentIInv

LEMMA RemoveCandidateIInv ==
  ASSUME DeploymentIInv, RemoveCandidate
  PROVE  DeploymentIInv'
  <1>1. /\ deployment = "preserved" /\ deployment' = "removed" /\ dbFile' = NoFile
        /\ OnlyFile /\ BoundsStay /\ CopiesStay /\ numbers' = numbers /\ expected' = expected
        /\ manifest' = manifest
    BY DEF RemoveCandidate
  <1>2. failed = IF dbFile = NoFile THEN NoFile ELSE Contents(dbFile)
    BY <1>1 DEF DeploymentIInv, CopiesAreSound
  <1>3. IsIn(latest, dbFile) => IsIn(latest, failed)
    BY <1>2, ContentsAre DEF IsIn, DeploymentIInv, DatabaseTypeOK
  <1>4. ~MayServe /\ ~MayServe' /\ deployment' \in Deployments
    BY <1>1 DEF MayServe, Deployments
  <1>5. UsableFileIsSound' /\ NoFileIsFresh' /\ PutBackAsBefore'
    BY <1>1 DEF UsableFileIsSound, NoFileIsFresh, PutBackAsBefore
  <1>6. CopiesAreSound'
    BY <1>1 DEF DeploymentIInv, CopiesAreSound, CopyIsGood, CopiesStay, OnlyFile, HasMarker
  <1>7. numbers \in Nat /\ expected \in States \cup {NoState} /\ numbers >= numbers
    BY DEF DeploymentIInv, DatabaseTypeOK
  <1>8. ~damaged /\ latest # NoState => IsIn(latest, failed)
    BY <1>3 DEF DeploymentIInv, LatestIsKept
  <1> QED
    BY <1>1, <1>4, <1>5, <1>6, <1>7, <1>8, FileReplaced

LEMMA PutBackIInv ==
  ASSUME DeploymentIInv, PutBack
  PROVE  DeploymentIInv'
  <1>1. /\ deployment = "removed" /\ deployment' = "clearing" /\ OnlyFile /\ BoundsStay /\ CopiesStay
        /\ manifest' = manifest
    BY DEF PutBack
  <1>2. /\ manifest \in {"absent", "present"} /\ dbFile = NoFile /\ numbers \in Nat
        /\ manifest = "absent" => before = NoFile
        /\ manifest = "present" => CopyIsGood
        /\ ~damaged /\ latest # NoState => IsIn(latest, failed)
    BY <1>1 DEF DeploymentIInv, CopiesAreSound, DeploymentTypeOK, DatabaseTypeOK, LatestIsKept, IsIn
  <1>3. ~MayServe /\ ~MayServe' /\ deployment' \in Deployments
    BY <1>1 DEF MayServe, Deployments
  <1>4. /\ copied' = copied /\ before' = before /\ failed' = failed /\ marker' = marker
    BY <1>1 DEF CopiesStay, OnlyFile
  <1>5. CopyIsGood => CopyIsGood'
    BY <1>4 DEF CopyIsGood, IsVerified, HasMarker
  <1>6. CopiesAreSound'
    BY <1>1, <1>2, <1>4, <1>5 DEF CopiesAreSound, DeploymentIInv
  <1>7. CASE manifest = "present"
    <2>1. Placed(copied) /\ expected' = copied.snap
      BY <1>7 DEF PutBack
    <2>2. /\ copied \in Copies /\ copied # NoFile /\ copied = before /\ ~HasMarker
          /\ copied.schema > 0 /\ copied.schema <= PreviousMigrations /\ copied.snap # NoState
      BY <1>2, <1>7 DEF CopyIsGood, IsVerified, DeploymentIInv, DeploymentTypeOK
    <2>3. /\ dbFile' \in DbFiles /\ dbFile' # NoFile /\ numbers' = numbers + 1
          /\ dbFile'.ino = numbers + 1 /\ dbFile'.schema = copied.schema /\ dbFile'.snap = copied.snap
          /\ dbFile'.mark = (IF copied.snap = NoState THEN "none" ELSE "initialized")
          /\ Contents(dbFile') = copied
      BY <1>2, <2>1, <2>2, PlacedIs
    <2>4. UsableFileIsSound'
      BY <1>4, <2>1, <2>2, <2>3 DEF UsableFileIsSound, FileIsSound, WholeFile, HasMarker
    <2>5. NoFileIsFresh' /\ PutBackAsBefore'
      BY <1>4, <2>2, <2>3 DEF NoFileIsFresh, PutBackAsBefore
    <2>6. expected' \in States \cup {NoState}
      BY <2>1, <2>2 DEF Copies
    <2> QED
      BY <1>1, <1>2, <1>3, <1>6, <2>2, <2>3, <2>4, <2>5, <2>6, FileReplaced
  <1>8. CASE manifest = "absent"
    <2>1. expected' = NoState /\ dbFile' = NoFile /\ numbers' = numbers
      BY <1>2, <1>8 DEF PutBack
    <2>2. UsableFileIsSound' /\ NoFileIsFresh' /\ PutBackAsBefore'
      BY <1>2, <1>4, <1>8, <2>1 DEF UsableFileIsSound, NoFileIsFresh, PutBackAsBefore
    <2> QED
      BY <1>1, <1>2, <1>3, <1>6, <2>1, <2>2, FileReplaced
  <1> QED
    BY <1>2, <1>7, <1>8

LEMMA CandidateBack ==
  ASSUME DeploymentIInv, BringCandidateBack, OnlyFile, CopiesStay, expected' = expected,
         manifest' = manifest, deployment' = "failed", deployment \in {"restoring", "removed"},
         ~FileMatches, dbFile = NoFile \/ failed # NoFile, BoundsStay \/ DeploymentTypeOK'
  PROVE  DeploymentIInv'
  <1>1. /\ copied' = copied /\ before' = before /\ failed' = failed /\ marker' = marker
    BY DEF CopiesStay, OnlyFile
  <1>2. /\ numbers \in Nat /\ expected \in States \cup {NoState}
        /\ dbFile \in DbFiles \cup {NoFile} /\ failed \in Copies \cup {NoFile}
        /\ manifest = "present" /\ failed # NoFile => failed # copied
        /\ manifest = "present" => CopyIsGood /\ CopyIsGood'
        /\ dbFile # NoFile => dbFile.ino <= numbers
    BY <1>1 DEF DeploymentIInv, CopiesAreSound, DeploymentTypeOK, DatabaseTypeOK, CopyIsGood,
                IsVerified, HasMarker, NumbersAreNew
  <1>3. ~MayServe /\ ~MayServe' /\ deployment' \in Deployments
    BY DEF MayServe, Deployments
  <1>4. CopiesAreSound'
    BY <1>1, <1>2 DEF CopiesAreSound, DeploymentIInv
  <1>5. CASE dbFile = NoFile /\ failed # NoFile
    <2>1. Placed(failed)
      BY <1>5 DEF BringCandidateBack
    <2>2. /\ dbFile' \in DbFiles /\ dbFile' # NoFile /\ numbers' = numbers + 1
          /\ dbFile'.ino = numbers + 1 /\ dbFile'.snap = failed.snap /\ Contents(dbFile') = failed
      BY <1>2, <1>5, <2>1, PlacedIs
    <2>3. ~Usable'
      BY <1>1, <1>2, <1>5, <2>2 DEF Usable
    <2>4. UsableFileIsSound' /\ NoFileIsFresh' /\ PutBackAsBefore'
      BY <2>2, <2>3 DEF UsableFileIsSound, NoFileIsFresh, PutBackAsBefore
    <2>5. ~damaged /\ latest # NoState => IsIn(latest, failed)
      BY <1>5 DEF DeploymentIInv, LatestIsKept, IsIn
    <2> QED
      BY <1>2, <1>3, <1>4, <2>2, <2>4, <2>5, FileReplaced
  <1>6. CASE dbFile = NoFile /\ failed = NoFile
    <2>1. dbFile' = NoFile /\ numbers' = numbers
      BY <1>6 DEF BringCandidateBack
    <2>2. UsableFileIsSound' /\ NoFileIsFresh' /\ PutBackAsBefore'
      BY <2>1 DEF UsableFileIsSound, NoFileIsFresh, PutBackAsBefore
    <2>3. ~damaged /\ latest # NoState => IsIn(latest, failed)
      BY <1>6 DEF DeploymentIInv, LatestIsKept, IsIn
    <2> QED
      BY <1>2, <1>3, <1>4, <2>1, <2>2, <2>3, FileReplaced
  <1>7. CASE dbFile # NoFile /\ failed # NoFile
    <2>1. dbFile' = dbFile /\ numbers' = numbers
      BY <1>7 DEF BringCandidateBack
    <2>2. manifest = "present" => Contents(dbFile) # copied
      <3> SUFFICES ASSUME manifest = "present", Contents(dbFile) = copied PROVE FALSE
        OBVIOUS
      <3>1. IsVerified(dbFile)
        BY <1>2, <1>7, ContentsAre DEF CopyIsGood, IsVerified
      <3> QED
        BY <3>1 DEF FileMatches
    <2>3. ~Usable'
      BY <1>1, <1>7, <2>1, <2>2 DEF Usable
    <2>4. UsableFileIsSound' /\ NoFileIsFresh' /\ PutBackAsBefore'
      BY <1>7, <2>1, <2>3 DEF UsableFileIsSound, NoFileIsFresh, PutBackAsBefore
    <2>5. ~damaged /\ latest # NoState => IsIn(latest, dbFile') \/ IsIn(latest, failed)
      BY <2>1 DEF DeploymentIInv, LatestIsKept
    <2> QED
      BY <1>2, <1>3, <1>4, <1>7, <2>1, <2>4, <2>5, FileReplaced
  <1> QED
    BY <1>2, <1>5, <1>6, <1>7

LEMMA PreserveRefusedIInv ==
  ASSUME DeploymentIInv, PreserveRefused
  PROVE  DeploymentIInv'
  <1>1. /\ BringCandidateBack /\ OnlyFile /\ CopiesStay /\ expected' = expected /\ manifest' = manifest
        /\ deployment' = "failed" /\ deployment \in {"restoring", "removed"} /\ ~FileMatches
        /\ failed # NoFile /\ BoundsStay
    BY DEF PreserveRefused
  <1> QED
    BY <1>1, CandidateBack

LEMMA PutBackFailsIInv ==
  ASSUME DeploymentIInv, PutBackFails
  PROVE  DeploymentIInv'
  <1>1. /\ BringCandidateBack /\ OnlyFile /\ CopiesStay /\ expected' = expected /\ manifest' = manifest
        /\ deployment' = "failed" /\ deployment = "removed"
        /\ restoreFailures' = restoreFailures + 1 /\ restoreFailures < MaxRestoreFailures
        /\ restoreCrashes' = restoreCrashes
    BY DEF PutBackFails
  <1>2. dbFile = NoFile /\ ~FileMatches
    BY <1>1 DEF DeploymentIInv, CopiesAreSound, FileMatches, IsVerified
  <1>3. DeploymentTypeOK'
    <2>1. restoreFailures' \in 0..MaxRestoreFailures
      BY <1>1, RestoreBoundsAssumption DEF DeploymentIInv, DeploymentTypeOK
    <2> QED
      BY <1>1, <2>1 DEF DeploymentIInv, DeploymentTypeOK, Deployments, CopiesStay
  <1> QED
    BY <1>1, <1>2, <1>3, CandidateBack

LEMMA ClearIInv ==
  ASSUME DeploymentIInv, ClearManifest \/ ClearCopy
  PROVE  DeploymentIInv'
  <1>1. /\ \/ deployment = "clearing" /\ deployment' = "cleared" /\ manifest' = "none" /\ copied' = copied
           \/ deployment = "cleared" /\ deployment' = "restored" /\ manifest' = manifest /\ copied' = NoFile
        /\ DatabaseStays /\ BoundsStay /\ failed' = failed /\ before' = before
    BY DEF ClearManifest, ClearCopy, CopiesStay
  <1>2. /\ dbFile' = dbFile /\ marker' = marker /\ expected' = expected /\ mirror' = mirror
    BY <1>1 DEF DatabaseStays, databaseVars
  <1>3. deployment = "cleared" => manifest = "none"
    BY DEF DeploymentIInv, CopiesAreSound
  <1>4. CopiesAreSound'
    BY <1>1, <1>2, <1>3 DEF CopiesAreSound, DeploymentIInv
  <1>5. NoFileIsFresh' /\ Usable
    BY <1>1, <1>2 DEF DeploymentIInv, NoFileIsFresh, Usable
  <1>6. PutBackAsBefore'
    BY <1>1, <1>2 DEF DeploymentIInv, PutBackAsBefore
  <1>7. ~MayServe /\ starter.step = "down"
    BY <1>1, NoServerRuns DEF MayServe
  <1>8. /\ deployment' \in Deployments /\ manifest' \in {"none", "absent", "present"}
        /\ {copied', failed', before'} \subseteq Copies \cup {NoFile}
        /\ \A s : IsIn(s, failed) => IsIn(s, failed')
        /\ dbFile # NoFile => dbFile.schema <= PreviousMigrations
    BY <1>1 DEF DeploymentIInv, DeploymentTypeOK, Deployments, ImagesFit
  <1> QED
    BY <1>1, <1>4, <1>5, <1>6, <1>7, <1>8, DatabaseAsItIs

LEMMA RestoreCrashIInv ==
  ASSUME DeploymentIInv, RestoreCrash
  PROVE  DeploymentIInv'
  <1>1. /\ deployment \in {"restoring", "preserved", "removed", "clearing", "cleared"}
        /\ deployment' = "interrupted" /\ DatabaseStays /\ CopiesStay /\ manifest' = manifest
        /\ restoreCrashes' = restoreCrashes + 1 /\ restoreCrashes < MaxRestoreCrashes
        /\ restoreFailures' = restoreFailures
    BY DEF RestoreCrash
  <1>2. FilesStay /\ HistoryStays /\ starter' = starter /\ starter \in Starters
    BY <1>1 DEF DatabaseStays, databaseVars, FilesStay, HistoryStays, DeploymentIInv, DatabaseTypeOK
  <1>3. starter.step = "down" /\ ~Running'
    BY <1>1, <1>2, NoServerRuns DEF MayServe, Running
  <1>4. DeploymentTypeOK'
    <2>1. restoreCrashes' \in 0..MaxRestoreCrashes
      BY <1>1, RestoreBoundsAssumption DEF DeploymentIInv, DeploymentTypeOK
    <2> QED
      BY <1>1, <2>1 DEF DeploymentIInv, DeploymentTypeOK, Deployments, CopiesStay
  <1>5. Usable' => Usable
    BY <1>1, <1>2 DEF Usable, CopiesStay, FilesStay
  <1>6. NoFileIsFresh' /\ PutBackAsBefore'
    BY <1>1 DEF NoFileIsFresh, PutBackAsBefore
  <1>7. ImagesFit'
    BY <1>1, <1>2, <1>3 DEF ImagesFit
  <1>8. CopiesAreSound'
    BY <1>1, <1>2 DEF DeploymentIInv, CopiesAreSound, CopyIsGood, CopiesStay, FilesStay, HasMarker
  <1>9. \A s : IsIn(s, failed) => IsIn(s, failed')
    BY <1>1 DEF CopiesStay
  <1> QED
    BY <1>2, <1>4, <1>5, <1>6, <1>7, <1>8, <1>9, FilesAsTheyAre

LEMMA DeploymentInitIInv == DeploymentInit => DeploymentIInv
  <1> SUFFICES ASSUME DeploymentInit PROVE DeploymentIInv
    OBVIOUS
  <1>1. PICK e : e = EmptyFile(1)
    OBVIOUS
  <1>2. e \in DbFiles /\ e.ino = 1 /\ e.app = 0
    BY <1>1, EmptyFileIs
  <1>3. PICK f : f = [e EXCEPT !.schema = 1, !.snap = LegacyState]
    OBVIOUS
  <1>4. /\ f \in DbFiles /\ f # NoFile /\ f.ino = 1 /\ f.schema = 1 /\ f.snap = LegacyState
    BY <1>2, <1>3, NothingAssumption, StatesAreNumbers DEF DbFiles
  <1>5. /\ \/ dbFile = NoFile /\ mirror \in {NoState, LegacyState} /\ numbers = 0 /\ latest = NoState
           \/ dbFile = f /\ mirror = LegacyState /\ numbers = 1 /\ latest = f.snap
        /\ marker = NoMarker /\ commits = 0 /\ expected = mirror /\ damaged = FALSE /\ databaseCrashes = 0
    BY <1>1, <1>3, <1>4 DEF DeploymentInit, DatabaseInit
  <1>6. starter \in Starters /\ starter.step = "down" /\ starter.image = previous
    BY NotStartedIs DEF DeploymentInit, DatabaseInit
  <1>7. /\ deployment = "none" /\ manifest = "none" /\ copied = NoFile /\ failed = NoFile /\ before = NoFile
        /\ restoreFailures = 0 /\ restoreCrashes = 0
    BY DEF DeploymentInit
  <1>8. DatabaseTypeOK
    <2>1. LegacyState \in States /\ commits \in 0..MaxCommits /\ databaseCrashes \in 0..MaxDatabaseCrashes
      BY <1>5, StatesAreNumbers, DatabaseBoundsAssumption
    <2>2. /\ dbFile \in DbFiles \cup {NoFile} /\ numbers \in Nat
          /\ {mirror, latest, expected} \subseteq States \cup {NoState}
      BY <1>4, <1>5, <2>1
    <2> QED
      BY <1>5, <1>6, <2>1, <2>2 DEF DatabaseTypeOK
  <1>9. DeploymentTypeOK
    BY <1>7, RestoreBoundsAssumption DEF DeploymentTypeOK, Deployments
  <1>10. UsableFileIsSound /\ NumbersAreNew /\ NoFileIsFresh
    BY <1>4, <1>5, StatesAreNumbers
       DEF UsableFileIsSound, FileIsSound, WholeFile, NumbersAreNew, NoFileIsFresh, HasMarker
  <1>11. StarterIsSound /\ ~Running
    BY <1>6 DEF StarterIsSound, Running
  <1>12. ImagesFit
    BY <1>4, <1>5, <1>7, <1>11, MigrationsAssumption DEF ImagesFit, MayServe
  <1>13. CopiesAreSound /\ PutBackAsBefore
    BY <1>7 DEF CopiesAreSound, PutBackAsBefore
  <1>14. LatestIsKept
    BY <1>4, <1>5 DEF LatestIsKept, IsIn
  <1> QED
    BY <1>8, <1>9, <1>10, <1>11, <1>12, <1>13, <1>14 DEF DeploymentIInv

LEMMA DeploymentNextIInv == DeploymentIInv /\ [DeploymentNext]_deploymentVars => DeploymentIInv'
  <1> SUFFICES ASSUME DeploymentIInv, [DeploymentNext]_deploymentVars PROVE DeploymentIInv'
    OBVIOUS
  <1>1. CASE DeploymentNext
    BY <1>1, ServerMovesIInv, StopIInv, CopyDatabaseIInv, PrepareIInv, BeginRestoreIInv,
       NothingToRestoreIInv, PreserveIInv, RemoveCandidateIInv, PutBackIInv, PreserveRefusedIInv,
       PutBackFailsIInv, ClearIInv, RestoreCrashIInv
       DEF DeploymentNext
  <1>2. CASE UNCHANGED deploymentVars
    <2>1. FilesStay /\ HistoryStays /\ starter' = starter /\ starter \in Starters /\ CopiesStay
          /\ deployment' = deployment /\ manifest' = manifest
          /\ restoreFailures' = restoreFailures /\ restoreCrashes' = restoreCrashes
      BY <1>2 DEF deploymentVars, databaseVars, FilesStay, HistoryStays, CopiesStay, DeploymentIInv,
                  DatabaseTypeOK
    <2>2. DeploymentTypeOK'
      BY <2>1 DEF DeploymentIInv, DeploymentTypeOK, CopiesStay
    <2>3. (Usable' => Usable) /\ NoFileIsFresh' /\ PutBackAsBefore'
      BY <2>1 DEF DeploymentIInv, Usable, NoFileIsFresh, PutBackAsBefore, CopiesStay, FilesStay, HistoryStays
    <2>4. ImagesFit'
      BY <2>1 DEF DeploymentIInv, ImagesFit, FilesStay, Running, Image, MayServe
    <2>5. CopiesAreSound' /\ \A s : IsIn(s, failed) => IsIn(s, failed')
      BY <2>1 DEF DeploymentIInv, CopiesAreSound, CopyIsGood, CopiesStay, FilesStay, HasMarker
    <2> QED
      BY <2>1, <2>2, <2>3, <2>4, <2>5, FilesAsTheyAre
  <1> QED
    BY <1>1, <1>2

(* What was written survives starts, crashes and deployments.              *)
LEMMA DatabaseDoesSurvive == DeploymentIInv => DatabaseSurvives
  <1> SUFFICES ASSUME DeploymentIInv PROVE DatabaseSurvives
    OBVIOUS
  <1>1. StartsAreSound
    BY DEF DeploymentIInv, StarterIsSound, StartsAreSound
  <1>2. RollbackIsSound
    BY DEF DeploymentIInv, LatestIsKept, CopiesAreSound, CopyIsGood, PutBackAsBefore, RollbackIsSound
  <1> QED
    BY <1>1, <1>2 DEF DatabaseSurvives

----------------------------------------------------------------------------
LEMMA PartsAreTyped ==
  ASSUME AppleIInv, SessionIInv, IInv, AskIInv, TriggerIInv, CheckoutIInv, InstallIInv, BetaIInv,
         BackupIInv, MergeIInv, QuotaIInv, DeploymentIInv
  PROVE  WellTyped
  <1>1. AppleTypeOK /\ MergeTypeOK
    BY DEF AppleIInv, MergeIInv
  <1>2. TypeOK
    BY DEF IInv
  <1>3. TriggerTypeOK
    BY DEF TriggerIInv
  <1>4. CheckoutTypeOK
    BY DEF CheckoutIInv, CheckoutTypes
  <1>5. InstallTypeOK
    BY DEF InstallIInv
  <1>6. BetaTypeOK
    BY DEF BetaIInv
  <1>7. QuotaTypeOK
    BY DEF QuotaIInv
  <1>8. DatabaseTypeOK /\ DeploymentTypeOK
    BY DEF DeploymentIInv
  <1>9. SessionTypeOK
    BY SessionsTyped DEF SessionIInv
  <1>10. AskTypeOK
    BY DEF AskIInv, AskTypes, AskRecords, AskTypeOK
  <1>11. BackupTypeOK
    <2>1. history \in Seq(Snapshots) /\ rowsKept.history \in Seq(Snapshots)
      BY DEF BackupIInv, BackupTypes, IsList
    <2> QED
      BY <2>1 DEF BackupIInv, BackupTypes, BackupTypeOK
  <1> QED
    BY <1>1, <1>2, <1>3, <1>4, <1>5, <1>6, <1>7, <1>8, <1>9, <1>10, <1>11 DEF WellTyped

----------------------------------------------------------------------------
(* Sessions agree with their accounts, a backup's row with its files, the  *)
(* ledger of the allowance with the jobs, and what was written survives    *)
(* starts, crashes and deployments: in every behaviour of the server.      *)
THEOREM StoresAlwaysAgree == MCSpec => []StoresAgree
  <1>1. MCInit => SessionIInv /\ BackupIInv /\ QuotaIInv /\ DeploymentIInv
    BY SessionInitIInv, BackupInitIInv, QuotaInitIInv, DeploymentInitIInv DEF MCInit
  <1>2. [MCNext]_<<part, come, firstVars, otherVars>>
          => /\ [SessionNext]_sessionVars /\ [BackupNext]_backupVars
             /\ [QuotaNext]_quotaVars /\ [DeploymentNext]_deploymentVars
    BY DEF MCNext, firstVars, otherVars, AccountMoves, SessionMoves, InboxMoves, RequestMoves,
           TriggerMoves, CheckoutMoves, InstallMoves, BetaMoves, BackupMoves, MergeMoves,
           QuotaMoves, DeploymentMoves
  <1>3. SessionIInv /\ BackupIInv /\ QuotaIInv /\ DeploymentIInv => StoresAgree
    BY SessionsDoAgree, BackupIsSound, QuotaIsExact, DatabaseDoesSurvive DEF StoresAgree
  <1> QED
    BY <1>1, <1>2, <1>3, SessionNextIInv, BackupNextIInv, QuotaNextIInv, DeploymentNextIInv, PTL DEF MCSpec

(* A behaviour of the server is one of each of its parts, so that what is  *)
(* proved of a part by itself (webhookInbox.ts) holds where they are put   *)
(* together: the modules have no variable in common.                       *)
THEOREM ServerIsItsParts ==
  MCSpec => /\ AppleSpec /\ SessionSpec /\ Spec /\ AskSpec /\ TriggerSpec /\ CheckoutSpec
            /\ InstallSpec /\ BetaSpec /\ BackupSpec /\ MergeSpec /\ QuotaSpec /\ DeploymentSpec
  <1>1. MCInit => /\ AppleInit /\ SessionInit /\ Init /\ AskInit /\ TriggerInit /\ CheckoutInit
                  /\ InstallInit /\ BetaInit /\ BackupInit /\ MergeInit /\ QuotaInit /\ DeploymentInit
    BY DEF MCInit
  <1>2. [MCNext]_<<part, come, firstVars, otherVars>>
          => /\ [AppleNext]_appleVars /\ [SessionNext]_sessionVars /\ [Next]_vars /\ [AskNext]_askVars
             /\ [TriggerNext]_triggerVars /\ [CheckoutNext]_checkoutVars /\ [InstallNext]_installVars
             /\ [BetaNext]_betaVars /\ [BackupNext]_backupVars /\ [MergeNext]_mergeVars
             /\ [QuotaNext]_quotaVars /\ [DeploymentNext]_deploymentVars
    BY DEF MCNext, firstVars, otherVars, AccountMoves, SessionMoves, InboxMoves, RequestMoves,
           TriggerMoves, CheckoutMoves, InstallMoves, BetaMoves, BackupMoves, MergeMoves,
           QuotaMoves, DeploymentMoves
  <1> QED
    BY <1>1, <1>2, PTL DEF MCSpec, AppleSpec, SessionSpec, Spec, AskSpec, TriggerSpec, CheckoutSpec,
                           InstallSpec, BetaSpec, BackupSpec, MergeSpec, QuotaSpec, DeploymentSpec

(* One handler works on an event, a record marked processed has been       *)
(* processed, and it is worked on again only by the replay of an invoice:  *)
(* in every behaviour of the server (store/webhookInboxRepository.ts).     *)
THEOREM RecordsAlwaysTellTheTruth == MCSpec => []RecordsTellTheTruth
  BY ServerIsItsParts, ProcessedRecords, PTL

(* The state of every part of the server has its type.                     *)
THEOREM ServerAlwaysTyped == MCSpec => []WellTyped
  <1>1. MCInit => /\ AppleIInv /\ SessionIInv /\ IInv /\ AskIInv /\ TriggerIInv /\ CheckoutIInv
                  /\ InstallIInv /\ BetaIInv /\ BackupIInv /\ MergeIInv /\ QuotaIInv /\ DeploymentIInv
    BY AppleInitIInv, SessionInitIInv, InitIInv, AskInitIInv, TriggerInitIInv, CheckoutInitIInv,
       InstallInitIInv, BetaInitIInv, BackupInitIInv, MergeInitIInv, QuotaInitIInv, DeploymentInitIInv
       DEF MCInit
  <1>2. [MCNext]_<<part, come, firstVars, otherVars>>
          => /\ [AppleNext]_appleVars /\ [SessionNext]_sessionVars /\ [Next]_vars /\ [AskNext]_askVars
             /\ [TriggerNext]_triggerVars /\ [CheckoutNext]_checkoutVars /\ [InstallNext]_installVars
             /\ [BetaNext]_betaVars /\ [BackupNext]_backupVars /\ [MergeNext]_mergeVars
             /\ [QuotaNext]_quotaVars /\ [DeploymentNext]_deploymentVars
    BY DEF MCNext, firstVars, otherVars, AccountMoves, SessionMoves, InboxMoves, RequestMoves,
           TriggerMoves, CheckoutMoves, InstallMoves, BetaMoves, BackupMoves, MergeMoves,
           QuotaMoves, DeploymentMoves
  <1> QED
    BY <1>1, <1>2, PartsAreTyped, AppleNextIInv, SessionNextIInv, NextIInv, AskNextIInv, TriggerNextIInv,
       CheckoutNextIInv, InstallNextIInv, BetaNextIInv, BackupNextIInv, MergeNextIInv, QuotaNextIInv,
       DeploymentNextIInv, PTL DEF MCSpec
=============================================================================
