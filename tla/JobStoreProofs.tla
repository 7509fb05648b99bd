--------------------------- MODULE JobStoreProofs ---------------------------
(***************************************************************************)
(* What TLC checks of the job store on small instances, for any jobs,      *)
(* builds, devices and bounds.                                             *)
(*                                                                         *)
(* The inductive invariant JobIInv speaks of one job at a time: where it   *)
(* waits, that it has a run while it is 'running', what its row, ledger    *)
(* entry and history may say, with a process and after its death.  Books,  *)
(* queue and the refinement of JobLifecycle follow from it.  Workers and   *)
(* caps are a second invariant on top (DispatchSound): the pump starts     *)
(* several jobs at once, and the last of an owner to be taken counts the   *)
(* others.  Starts are an action property of the pump under JobIInv, and   *)
(* the orderly exit needs a third invariant on what shutdownJobs awaits.   *)
(* The expiry of a queued job is recorded truthfully where no timer of a   *)
(* copy has fired in place of the job's.                                   *)
(***************************************************************************)
EXTENDS JobStore, WellFoundedInduction, FiniteSetTheorems, TLAPS

----------------------------------------------------------------------------
(* Taking jobs out of the queue.                                           *)

(* Induction over the natural numbers, for a set of them.                  *)
LEMMA SetInduction ==
  ASSUME NEW T \in SUBSET Nat, 0 \in T, \A n \in T : n + 1 \in T
  PROVE  T = Nat
  <1> DEFINE R == {p \in Nat \X Nat : p[1] < p[2]}
  <1>1. IsWellFoundedOn(R, Nat)
    <2>1. R = OpToRel(<, Nat)
       BY DEF OpToRel
    <2> QED BY <2>1, NatLessThanWellFounded
  <1>2. ASSUME Nat \ T # {} PROVE FALSE
    <2>1. PICK x \in Nat \ T : \A y \in Nat \ T : <<y, x>> \notin R
      <3>1. \E x \in Nat \ T : \A y \in Nat \ T : ~(<<y, x>> \in R)
        BY <1>1, <1>2, WFMin, Nat \ T \subseteq Nat
      <3> QED BY <3>1
    <2>2. x # 0 /\ x - 1 \in Nat /\ x - 1 < x
      BY <2>1
    <2>3. x - 1 \in T
      BY <2>1, <2>2
    <2> QED BY <2>1, <2>2, <2>3
  <1> QED BY <1>2

(* left[n] is what is left of the first n jobs.                            *)
Skims(f, s, X, m) ==
  /\ f[0] = <<>> 
  /\ \A n \in 1..m : f[n] = IF s[n] \in X THEN f[n-1] ELSE Append(f[n-1], s[n])

(* Such a function exists, so that Without is what its recursion says.     *)
LEMMA WithoutRec ==
  ASSUME NEW S, NEW s \in Seq(S), NEW X
  PROVE  \E f \in [0..Len(s) -> Seq(S)] : Skims(f, s, X, Len(s))
  <1> DEFINE T == {m \in Nat : m <= Len(s) => \E f \in [0..m -> Seq(S)] : Skims(f, s, X, m)}
  <1>1. 0 \in T
    <2>1. [n \in 0..0 |-> <<>>] \in [0..0 -> Seq(S)]
      OBVIOUS
    <2>2. Skims([n \in 0..0 |-> <<>>], s, X, 0)
      BY DEF Skims
    <2> QED BY <2>1, <2>2
  <1>2. ASSUME NEW m \in T PROVE m + 1 \in T
    <2>a. SUFFICES ASSUME m + 1 <= Len(s) PROVE \E f \in [0..(m+1) -> Seq(S)] : Skims(f, s, X, m+1)
      <3>1. m + 1 \in Nat
        OBVIOUS
      <3> QED BY <3>1
    <2>0. m \in Nat /\ m <= Len(s) /\ Len(s) \in Nat
      BY <2>a
    <2>1. PICK f \in [0..m -> Seq(S)] : Skims(f, s, X, m)
      BY <2>0, <1>2
    <2> DEFINE last == IF s[m+1] \in X THEN f[m] ELSE Append(f[m], s[m+1])
               g == [n \in 0..(m+1) |-> IF n = m+1 THEN last ELSE f[n]]
    <2>2. last \in Seq(S)
      BY <2>0, <2>a, f[m] \in Seq(S), s[m+1] \in S
    <2> HIDE DEF last
    <2>3. g \in [0..(m+1) -> Seq(S)] /\ g[m+1] = last /\ \A n \in 0..m : g[n] = f[n]
      BY <2>2, <2>0
    <2> HIDE DEF g
    <2>4. g[0] = <<>>
      BY <2>1, <2>0, <2>3 DEF Skims
    <2>5. ASSUME NEW n \in 1..(m+1) PROVE g[n] = IF s[n] \in X THEN g[n-1] ELSE Append(g[n-1], s[n])
      <3>1. CASE n = m+1
        <4>1. g[n-1] = f[m]
          BY <2>0, <2>3, <3>1
        <4> QED BY <2>3, <3>1, <4>1 DEF last
      <3>2. CASE n # m+1
        <4>1. n \in 1..m /\ n - 1 \in 0..m /\ n \in 0..m
          BY <2>0, <3>2
        <4> QED BY <2>1, <2>3, <4>1 DEF Skims
      <3> QED BY <3>1, <3>2
    <2>6. Skims(g, s, X, m+1)
      BY <2>4, <2>5 DEF Skims
    <2> QED BY <2>3, <2>6
  <1>3. T = Nat
    <2> HIDE DEF T
    <2>1. T \in SUBSET Nat BY DEF T
    <2> QED BY <1>1, <1>2, <2>1, SetInduction
  <1>4. Len(s) \in T
    BY <1>3
  <1> QED BY <1>4

(* Without is the last value of it.                                        *)
LEMMA WithoutIsSkim == ASSUME NEW S, NEW s \in Seq(S), NEW X
  PROVE \E f \in [0..Len(s) -> Seq(S)] : Skims(f, s, X, Len(s)) /\ Without(s, X) = f[Len(s)]
  <1> DEFINE Left(g, n) == IF n = 0 THEN <<>> ELSE IF s[n] \in X THEN g[n-1] ELSE Append(g[n-1], s[n])
  <1>1. PICK f \in [0..Len(s) -> Seq(S)] : Skims(f, s, X, Len(s))
    BY WithoutRec
  <1>2. f = [n \in 0..Len(s) |-> Left(f, n)]
    <2>1. ASSUME NEW n \in 0..Len(s) PROVE f[n] = Left(f, n)
      <3>1. n = 0 \/ (n # 0 /\ n \in 1..Len(s))
        OBVIOUS
      <3> QED BY <1>1, <3>1 DEF Skims
    <2> HIDE DEF Left
    <2> QED BY <2>1
  <1>3. PICK g : /\ g = [n \in 0..Len(s) |-> Left(g, n)]
                 /\ Without(s, X) = g[Len(s)]
    BY <1>2 DEF Without
  <1>4. Len(s) \in Nat /\ \A n \in 1..Len(s) : s[n] \in S
    OBVIOUS
  <1>5. \A n \in 0..Len(s) : g[n] = Left(g, n)
    <2> HIDE DEF Left
    <2> QED BY <1>3
  <1> DEFINE T == {n \in Nat : n <= Len(s) => g[n] \in Seq(S)}
  <1>6. T = Nat
    <2>1. 0 \in T
      <3>1. g[0] = <<>>
        BY <1>4, <1>5
      <3>2. <<>> \in Seq(S)
        OBVIOUS
      <3> QED BY <3>1, <3>2
    <2>2. ASSUME NEW m \in T PROVE m + 1 \in T
      <3> SUFFICES ASSUME m + 1 <= Len(s) PROVE g[m+1] \in Seq(S)
        OBVIOUS
      <3>1. m + 1 \in 0..Len(s) /\ m + 1 # 0 /\ m + 1 - 1 = m /\ g[m] \in Seq(S) /\ s[m+1] \in S
        BY <1>4
      <3>2. g[m+1] = IF s[m+1] \in X THEN g[m] ELSE Append(g[m], s[m+1])
        BY <1>5, <3>1
      <3> QED BY <3>1, <3>2
    <2> HIDE DEF T
    <2>3. T \in SUBSET Nat
      BY DEF T
    <2> QED BY <2>1, <2>2, <2>3, SetInduction
  <1>7. g \in [0..Len(s) -> Seq(S)]
    <2>1. \A n \in 0..Len(s) : g[n] \in Seq(S)
      BY <1>4, <1>6
    <2> HIDE DEF Left
    <2> QED BY <1>3, <2>1
  <1>8. Skims(g, s, X, Len(s))
    BY <1>4, <1>5 DEF Skims
  <1> QED BY <1>3, <1>7, <1>8

(* Nothing but X is gone, and nothing is there twice.                      *)
LEMMA WithoutLemma == ASSUME NEW S, NEW s \in Seq(S), NEW X
  PROVE /\ Without(s, X) \in Seq(S)
        /\ Range(Without(s, X)) = Range(s) \ X
        /\ IsInjective(s) => IsInjective(Without(s, X))
  <1>1. PICK f \in [0..Len(s) -> Seq(S)] : Skims(f, s, X, Len(s)) /\ Without(s, X) = f[Len(s)]
    BY WithoutIsSkim
  <1>2. Len(s) \in Nat /\ \A n \in 1..Len(s) : s[n] \in S
    OBVIOUS
  <1> DEFINE First(n) == {s[i] : i \in 1..n}
             Good(n) == /\ Range(f[n]) = First(n) \ X
                        /\ IsInjective(s) => IsInjective(f[n])
             T == {n \in Nat : n <= Len(s) => Good(n)}
  <1>3. 0 \in T
    BY <1>1, <1>2 DEF Skims, Range, IsInjective
  <1>4. ASSUME NEW m \in T PROVE m + 1 \in T
    <2>a. SUFFICES ASSUME m + 1 <= Len(s) PROVE Good(m+1)
      OBVIOUS
    <2>0. m \in Nat /\ m <= Len(s) /\ f[m] \in Seq(S) /\ Good(m) /\ m + 1 \in 1..Len(s)
      BY <1>2, <1>4, <2>a
    <2>1. f[m+1] = IF s[m+1] \in X THEN f[m] ELSE Append(f[m], s[m+1])
      BY <1>1, <2>0 DEF Skims
    <2>2. First(m+1) = First(m) \cup {s[m+1]}
      BY <2>0
    <2>3. CASE s[m+1] \in X
      <3>1. f[m+1] = f[m]
        BY <2>1, <2>3
      <3>2. First(m+1) \ X = First(m) \ X
        BY <2>2, <2>3
      <3> HIDE DEF First
      <3> QED BY <2>0, <3>1, <3>2
    <2>4. CASE s[m+1] \notin X
      <3>1. /\ Len(f[m+1]) = Len(f[m]) + 1 /\ f[m+1][Len(f[m]) + 1] = s[m+1]
            /\ \A i \in 1..Len(f[m]) : f[m+1][i] = f[m][i]
            /\ DOMAIN f[m+1] = 1..(Len(f[m])+1) /\ DOMAIN f[m] = 1..Len(f[m]) /\ Len(f[m]) \in Nat
        BY <1>2, <2>0, <2>1, <2>4
      <3>2. Range(f[m+1]) = Range(f[m]) \cup {s[m+1]}
        <4>1. ASSUME NEW x \in Range(f[m+1]) PROVE x \in Range(f[m]) \cup {s[m+1]}
          <5>1. PICK i \in 1..(Len(f[m])+1) : x = f[m+1][i]
            BY <3>1 DEF Range
          <5>2. i \in 1..Len(f[m]) \/ i = Len(f[m])+1
            BY <3>1
          <5> QED BY <3>1, <5>1, <5>2 DEF Range
        <4>2. ASSUME NEW i \in 1..Len(f[m]) PROVE f[m][i] \in Range(f[m+1])
          BY <3>1, i \in 1..(Len(f[m])+1) DEF Range
        <4>3. s[m+1] \in Range(f[m+1])
          BY <3>1, Len(f[m])+1 \in 1..(Len(f[m])+1) DEF Range
        <4>4. Range(f[m]) \subseteq Range(f[m+1])
          <5>1. \A x \in Range(f[m]) : \E i \in 1..Len(f[m]) : x = f[m][i]
            BY <3>1 DEF Range
          <5> QED BY <4>2, <5>1
        <4> QED BY <4>1, <4>3, <4>4
      <3>3. ASSUME IsInjective(s) PROVE IsInjective(f[m+1])
        <4>1. s[m+1] \notin First(m)
          BY <2>0, <3>3, DOMAIN s = 1..Len(s) DEF IsInjective
        <4>2. s[m+1] \notin Range(f[m]) /\ IsInjective(f[m])
          BY <2>0, <4>1, <3>3
        <4>3. \A i \in 1..Len(f[m]) : f[m][i] # s[m+1]
          BY <3>1, <4>2 DEF Range
        <4>4. \A i, k \in 1..Len(f[m]) : f[m][i] = f[m][k] => i = k
          BY <3>1, <4>2 DEF IsInjective
        <4>5. ASSUME NEW i \in 1..(Len(f[m])+1), NEW k \in 1..(Len(f[m])+1), f[m+1][i] = f[m+1][k]
              PROVE  i = k
          <5>1. (i \in 1..Len(f[m]) \/ i = Len(f[m])+1) /\ (k \in 1..Len(f[m]) \/ k = Len(f[m])+1)
            BY <3>1
          <5> QED BY <3>1, <4>3, <4>4, <4>5, <5>1
        <4> QED BY <3>1, <4>5 DEF IsInjective
      <3> QED BY <2>0, <2>2, <2>4, <3>2, <3>3
    <2> QED BY <2>3, <2>4
  <1>5. T = Nat
    <2> HIDE DEF T
    <2>1. T \in SUBSET Nat BY DEF T
    <2> QED BY <1>3, <1>4, <2>1, SetInduction
  <1>6. Good(Len(s))
    BY <1>2, <1>5
  <1>7. First(Len(s)) = Range(s)
    BY DOMAIN s = 1..Len(s) DEF Range
  <1> QED BY <1>1, <1>2, <1>6, <1>7

----------------------------------------------------------------------------
(* The inductive invariant, job by job.                                    *)

(* A job in the queue, or with a deadline timer, is queued; while jobs are *)
(* accepted a queued job is in the queue and has a timer.                  *)
WaitsRightly(m, twins, j) ==
  /\ j \in Range(m.queue) => StatusOf(m, j) = "queued"
  /\ m.timer[j] # "off" => StatusOf(m, j) = "queued"
  /\ m.phase = "up" /\ StatusOf(m, j) = "queued" /\ j \notin twins
       => j \in Range(m.queue) /\ m.timer[j] # "off"

(* A job has a run while it is 'running', and only a run that a shutdown   *)
(* aborts is marked for recovery.  No worker has tried a new job.          *)
WorksRightly(m, j) ==
  /\ StatusOf(m, j) = "running" <=> m.run[j].stage # "none"
  /\ m.run[j].stage # "none" => m.run[j].worker \in Workers
  /\ m.run[j].stage = "backoff" => m.job[j].retries < MaxRetries
  /\ m.job[j].recovery /\ StatusOf(m, j) \in Active
       => StatusOf(m, j) = "running" /\ m.phase = "aborting"
  /\ StatusOf(m, j) = "running" /\ m.phase = "aborting" => m.job[j].recovery
  /\ StatusOf(m, j) = "absent" => ~m.job[j].tried

(* The history is behind the row, and a queued row needs no recovery.      *)
RowIsSound(s, j) ==
  /\ s.history[j] = "done" => s.job[j].status \in {"done", "cached", "gone"}
  /\ s.job[j].recovery => s.job[j].status # "queued"
  /\ s.job[j].status = "absent" => ~s.job[j].tried

(* What the ledger says of a job while a process runs, and what a crash    *)
(* between the writes leaves of that.                                      *)
LedgerIsExact(m, s, twins, j) ==
  /\ s.ledger[j] = "reserved" => StatusOf(m, j) \in Active
  /\ s.ledger[j] = "consumed" => StatusOf(m, j) \in {"done", "gone"}
  /\ j \in BilledJobs \ twins =>
       /\ StatusOf(m, j) \in Active => s.ledger[j] = "reserved"
       /\ StatusOf(m, j) = "done" => s.ledger[j] = "consumed"
LedgerIsOwed(s, twins, j) ==
  /\ s.ledger[j] = "consumed" => s.job[j].status \in {"done", "gone"}
  /\ s.ledger[j] = "reserved" => s.job[j].status # "cached"
  /\ j \in BilledJobs \ twins =>
       /\ s.job[j].status \in Active => s.ledger[j] = "reserved"
       /\ s.job[j].status = "done" => s.ledger[j] # "none"

(* A process that runs has written the status of every job, and what it    *)
(* aborts is marked in the rows.                                           *)
RowIsCurrent(m, s, j) ==
  /\ s.job[j].status = StatusOf(m, j)
  /\ StatusOf(m, j) = "running" /\ m.phase = "aborting" => s.job[j].recovery

JobIsSound(m, s, twins, j) ==
  /\ WaitsRightly(m, twins, j) /\ WorksRightly(m, j)
  /\ RowIsSound(s, j) /\ RowIsCurrent(m, s, j) /\ LedgerIsExact(m, s, twins, j)

(* Only active jobs can be overdue, and no two of them share a build.      *)
ActiveRows(s) == {j \in Jobs : s.job[j].status \in Active}
OneActiveRow(s) == \A j, k \in ActiveRows(s) : SameBuild(j, k) => j = k

InProcess(m, s, twins) ==
  /\ m \in Memory /\ m.phase # "down" /\ IsInjective(m.queue)
  /\ s \in Disk /\ OneActiveRow(s)
  /\ \A j \in Jobs : JobIsSound(m, s, twins, j)
AtRest(s, twins) ==
  /\ s \in Disk /\ OneActiveRow(s)
  /\ \A j \in Jobs : RowIsSound(s, j) /\ LedgerIsOwed(s, twins, j)

JobIInv ==
  /\ due \subseteq ActiveRows(disk)
  /\ healthy \subseteq Devices /\ offlineReady \in BOOLEAN /\ expiredTwins \subseteq Jobs
  /\ restarts \in 0..MaxRestarts /\ changes \in 0..MaxChanges
  /\ IF mem.phase = "down" THEN mem = Stopped /\ AtRest(disk, expiredTwins)
     ELSE InProcess(mem, disk, expiredTwins)

----------------------------------------------------------------------------
(* What the operations on memory do, field by field.                       *)

(* Taking X out of the queue.                                              *)
LEMMA DequeueLemma ==
  ASSUME NEW m \in Memory, NEW X \in SUBSET Jobs, NEW n, n = Dequeue(m, X)
  PROVE  /\ n \in Memory
         /\ n.phase = m.phase /\ n.job = m.job /\ n.timer = m.timer /\ n.run = m.run
         /\ n.unwinding = m.unwinding /\ n.tracked = m.tracked /\ n.awaited = m.awaited
         /\ Range(n.queue) = Range(m.queue) \ X
         /\ IsInjective(m.queue) => IsInjective(n.queue)
  <1>1. m.queue \in Seq(Jobs)
    BY DEF Memory
  <1>2. /\ Without(m.queue, X) \in Seq(Jobs)
        /\ Range(Without(m.queue, X)) = Range(m.queue) \ X
        /\ IsInjective(m.queue) => IsInjective(Without(m.queue, X))
    BY <1>1, WithoutLemma
  <1>3. n = [m EXCEPT !.queue = Without(m.queue, X)]
    BY DEF Dequeue
  <1>4. /\ n \in Memory /\ n.queue = Without(m.queue, X)
        /\ n.phase = m.phase /\ n.job = m.job /\ n.timer = m.timer /\ n.run = m.run
        /\ n.unwinding = m.unwinding /\ n.tracked = m.tracked /\ n.awaited = m.awaited
    BY <1>2, <1>3 DEF Memory
  <1> QED
    BY <1>2, <1>4

(* Setting the timers of X.                                                *)
LEMMA SetTimerLemma ==
  ASSUME NEW m \in Memory, NEW X \in SUBSET Jobs, NEW value \in {"off", "live", "copy"},
         NEW n, n = SetTimer(m, X, value)
  PROVE  /\ n \in Memory
         /\ n.phase = m.phase /\ n.job = m.job /\ n.queue = m.queue /\ n.run = m.run
         /\ n.unwinding = m.unwinding /\ n.tracked = m.tracked /\ n.awaited = m.awaited
         /\ \A j \in Jobs : n.timer[j] = IF j \in X THEN value ELSE m.timer[j]
  BY DEF Memory, SetTimer

(* Failing the queued jobs X at their deadlines.                           *)
LEMMA ExpiredLemma ==
  ASSUME NEW m \in Memory, NEW X \in SUBSET Jobs, NEW n, n = Expired(m, X)
  PROVE  /\ n \in Memory
         /\ n.phase = m.phase /\ n.run = m.run
         /\ n.unwinding = m.unwinding /\ n.tracked = m.tracked /\ n.awaited = m.awaited
         /\ Range(n.queue) = Range(m.queue) \ X
         /\ IsInjective(m.queue) => IsInjective(n.queue)
         /\ \A j \in Jobs : n.timer[j] = IF j \in X THEN "off" ELSE m.timer[j]
         /\ \A j \in Jobs \ X : n.job[j] = m.job[j]
         /\ \A j \in X : n.job[j].status = "failed" /\ n.job[j].retries = m.job[j].retries
                         /\ n.job[j].recovery = m.job[j].recovery
  <1> DEFINE d == Dequeue(m, X)
             t == SetTimer(d, X, "off")
             late(r) == [r EXCEPT !.status = "failed", !.late = TRUE]
             jobs == [j \in Jobs |-> IF j \in X THEN late(t.job[j]) ELSE t.job[j]]
  <1>1. /\ d \in Memory
        /\ d.phase = m.phase /\ d.job = m.job /\ d.timer = m.timer /\ d.run = m.run
        /\ d.unwinding = m.unwinding /\ d.tracked = m.tracked /\ d.awaited = m.awaited
        /\ Range(d.queue) = Range(m.queue) \ X
        /\ IsInjective(m.queue) => IsInjective(d.queue)
    BY DequeueLemma
  <1> HIDE DEF d
  <1>2. /\ t \in Memory
        /\ t.phase = d.phase /\ t.job = d.job /\ t.queue = d.queue /\ t.run = d.run
        /\ t.unwinding = d.unwinding /\ t.tracked = d.tracked /\ t.awaited = d.awaited
        /\ \A j \in Jobs : t.timer[j] = IF j \in X THEN "off" ELSE d.timer[j]
    BY <1>1, SetTimerLemma
  <1>3. n = [t EXCEPT !.job = jobs]
    BY DEF Expired, Patch, d
  <1> HIDE DEF t
  <1>4. t.job \in [Jobs -> JobRecord]
    BY <1>2 DEF Memory
  <1>5. \A j \in Jobs : /\ late(t.job[j]) \in JobRecord /\ late(t.job[j]).status = "failed"
                        /\ late(t.job[j]).retries = t.job[j].retries
                        /\ late(t.job[j]).recovery = t.job[j].recovery
    BY <1>4 DEF JobRecord, Statuses, Settled
  <1> HIDE DEF late
  <1>6. jobs \in [Jobs -> JobRecord] /\ \A j \in Jobs : jobs[j] = IF j \in X THEN late(t.job[j]) ELSE t.job[j]
    BY <1>4, <1>5
  <1> HIDE DEF jobs
  <1>7. /\ n \in Memory /\ n.job = jobs
        /\ n.phase = t.phase /\ n.queue = t.queue /\ n.run = t.run /\ n.timer = t.timer
        /\ n.unwinding = t.unwinding /\ n.tracked = t.tracked /\ n.awaited = t.awaited
    BY <1>2, <1>3, <1>6 DEF Memory
  <1> QED
    BY <1>1, <1>2, <1>5, <1>6, <1>7

(* Starting the jobs of a.                                                 *)
Assigns(a, X) == a \in [X -> Workers]

(* Starting the jobs of X, each on its worker.                             *)
LEMMA BegunLemma ==
  ASSUME NEW m \in Memory, NEW X \in SUBSET Jobs, NEW a, Assigns(a, X), NEW n, n = Begun(m, a)
  PROVE  /\ n \in Memory
         /\ n.phase = m.phase /\ n.unwinding = m.unwinding /\ n.awaited = m.awaited
         /\ n.tracked = m.tracked \cup X
         /\ Range(n.queue) = Range(m.queue) \ X
         /\ IsInjective(m.queue) => IsInjective(n.queue)
         /\ \A j \in Jobs : n.timer[j] = IF j \in X THEN "off" ELSE m.timer[j]
         /\ \A j \in Jobs \ X : n.job[j] = m.job[j] /\ n.run[j] = m.run[j]
         /\ \A j \in X : /\ n.job[j].status = "running" /\ n.job[j].retries = m.job[j].retries
                         /\ n.job[j].recovery = m.job[j].recovery
                         /\ n.job[j].late = m.job[j].late /\ n.job[j].pin = m.job[j].pin
                         /\ n.run[j] = [stage |-> "work", worker |-> a[j]]
  <1> DEFINE d == Dequeue(m, X)
             t == SetTimer(d, X, "off")
             started(r) == [r EXCEPT !.status = "running"]
             u == [t EXCEPT !.job = [j \in Jobs |-> IF j \in X THEN started(t.job[j]) ELSE t.job[j]]]
             tried(r) == [r EXCEPT !.tried = TRUE]
             jobs == [j \in Jobs |-> IF j \in X /\ a[j] = Offline THEN tried(u.job[j]) ELSE u.job[j]]
             runs == [j \in Jobs |-> IF j \in X THEN [stage |-> "work", worker |-> a[j]] ELSE u.run[j]]
  <1>0. a \in [X -> Workers] /\ DOMAIN a = X
    BY DEF Assigns
  <1>1. /\ d \in Memory
        /\ d.phase = m.phase /\ d.job = m.job /\ d.timer = m.timer /\ d.run = m.run
        /\ d.unwinding = m.unwinding /\ d.tracked = m.tracked /\ d.awaited = m.awaited
        /\ Range(d.queue) = Range(m.queue) \ X
        /\ IsInjective(m.queue) => IsInjective(d.queue)
    BY DequeueLemma
  <1> HIDE DEF d
  <1>2. /\ t \in Memory
        /\ t.phase = d.phase /\ t.job = d.job /\ t.queue = d.queue /\ t.run = d.run
        /\ t.unwinding = d.unwinding /\ t.tracked = d.tracked /\ t.awaited = d.awaited
        /\ \A j \in Jobs : t.timer[j] = IF j \in X THEN "off" ELSE d.timer[j]
    BY <1>1, SetTimerLemma
  <1>3. n = [u EXCEPT !.job = jobs, !.run = runs, !.tracked = u.tracked \cup X]
    BY <1>0 DEF Begun, Patch, d
  <1> HIDE DEF t
  <1>4. t.job \in [Jobs -> JobRecord]
    BY <1>2 DEF Memory
  <1>5. \A j \in Jobs : /\ started(t.job[j]) \in JobRecord /\ started(t.job[j]).status = "running"
                        /\ started(t.job[j]).retries = t.job[j].retries
                        /\ started(t.job[j]).recovery = t.job[j].recovery
                        /\ started(t.job[j]).late = t.job[j].late
                        /\ started(t.job[j]).pin = t.job[j].pin
    BY <1>4 DEF JobRecord, Statuses, Active
  <1> HIDE DEF started
  <1>6. /\ u \in Memory
        /\ \A j \in Jobs : u.job[j] = IF j \in X THEN started(t.job[j]) ELSE t.job[j]
        /\ u.phase = t.phase /\ u.queue = t.queue /\ u.run = t.run /\ u.timer = t.timer
        /\ u.unwinding = t.unwinding /\ u.tracked = t.tracked /\ u.awaited = t.awaited
    BY <1>2, <1>4, <1>5 DEF Memory
  <1> HIDE DEF u
  <1>7. u.job \in [Jobs -> JobRecord]
    BY <1>6 DEF Memory
  <1>8. \A j \in Jobs : /\ tried(u.job[j]) \in JobRecord /\ tried(u.job[j]).status = u.job[j].status
                        /\ tried(u.job[j]).retries = u.job[j].retries
                        /\ tried(u.job[j]).recovery = u.job[j].recovery
                        /\ tried(u.job[j]).late = u.job[j].late
                        /\ tried(u.job[j]).pin = u.job[j].pin
    BY ZenonT(30), <1>7 DEF JobRecord
  <1> HIDE DEF tried
  <1>9. jobs \in [Jobs -> JobRecord]
    BY <1>7, <1>8
  <1>10. runs \in [Jobs -> [stage : Stages, worker : Workers \cup {NoWorker}]]
    <2>1. u.run \in [Jobs -> [stage : Stages, worker : Workers \cup {NoWorker}]]
      BY <1>6 DEF Memory
    <2>2. \A j \in X : [stage |-> "work", worker |-> a[j]] \in [stage : Stages, worker : Workers \cup {NoWorker}]
      BY <1>0 DEF Stages
    <2> QED
      BY <2>1, <2>2
  <1>11. \A j \in Jobs :
           /\ jobs[j] = IF j \in X /\ a[j] = Offline THEN tried(u.job[j]) ELSE u.job[j]
           /\ runs[j] = IF j \in X THEN [stage |-> "work", worker |-> a[j]] ELSE u.run[j]
    OBVIOUS
  <1> HIDE DEF jobs, runs
  <1>12. /\ n \in Memory /\ n.job = jobs /\ n.run = runs /\ n.tracked = u.tracked \cup X
         /\ n.phase = u.phase /\ n.queue = u.queue /\ n.timer = u.timer
         /\ n.unwinding = u.unwinding /\ n.awaited = u.awaited
    <2>1. u.tracked \cup X \in SUBSET Jobs
      BY <1>6 DEF Memory
    <2> QED
      BY ZenonT(30), <1>3, <1>6, <1>9, <1>10, <2>1 DEF Memory
  <1>13. \A j \in X : n.run[j] = [stage |-> "work", worker |-> a[j]]
    BY <1>11, <1>12
  <1>14. /\ n.phase = m.phase /\ n.unwinding = m.unwinding /\ n.awaited = m.awaited
         /\ n.tracked = m.tracked \cup X
         /\ Range(n.queue) = Range(m.queue) \ X
         /\ IsInjective(m.queue) => IsInjective(n.queue)
         /\ \A j \in Jobs : n.timer[j] = IF j \in X THEN "off" ELSE m.timer[j]
    BY <1>1, <1>2, <1>6, <1>12
  <1>15. ASSUME NEW j \in Jobs, j \notin X
         PROVE  n.job[j] = m.job[j] /\ n.run[j] = m.run[j]
    <2>1. jobs[j] = u.job[j] /\ u.job[j] = t.job[j] /\ runs[j] = u.run[j]
      BY <1>6, <1>11, <1>15
    <2>2. t.job = m.job /\ u.run = m.run
      BY <1>1, <1>2, <1>6
    <2> QED
      BY <1>12, <2>1, <2>2
  <1>16. ASSUME NEW j \in X
         PROVE  /\ n.job[j].status = "running" /\ n.job[j].retries = m.job[j].retries
                /\ n.job[j].recovery = m.job[j].recovery
                /\ n.job[j].late = m.job[j].late /\ n.job[j].pin = m.job[j].pin
    <2>1. t.job[j] = m.job[j] /\ u.job[j] = started(t.job[j])
      BY <1>1, <1>2, <1>6
    <2>2. n.job[j] = u.job[j] \/ n.job[j] = tried(u.job[j])
      BY <1>11, <1>12
    <2>3. /\ n.job[j].status = u.job[j].status /\ n.job[j].retries = u.job[j].retries
          /\ n.job[j].recovery = u.job[j].recovery
          /\ n.job[j].late = u.job[j].late /\ n.job[j].pin = u.job[j].pin
      BY <1>8, <2>2
    <2> QED
      BY <1>5, <2>1, <2>3
  <1> QED
    BY <1>12, <1>13, <1>14, <1>15, <1>16

(* A set of numbers has a least one.                                       *)
LEMMA MinLemma ==
  ASSUME NEW S \in SUBSET Nat, S # {}
  PROVE  Min(S) \in S /\ \A y \in S : Min(S) <= y
  <1> DEFINE R == {p \in Nat \X Nat : p[1] < p[2]}
  <1>1. IsWellFoundedOn(R, Nat)
    <2>1. R = OpToRel(<, Nat)
      BY DEF OpToRel
    <2> QED
      BY <2>1, NatLessThanWellFounded
  <1>2. \E x \in S : \A y \in S : ~(<<y, x>> \in R)
    <2> HIDE DEF R
    <2> QED
      BY <1>1, WFMin
  <1>3. \E x \in S : \A y \in S : x <= y
    <2>1. PICK x \in S : \A y \in S : ~(<<y, x>> \in R)
      BY <1>2
    <2>2. ASSUME NEW y \in S PROVE x <= y
      <3>1. <<y, x>> \in Nat \X Nat /\ <<y, x>> \notin R
        BY <2>1
      <3>2. ~(y < x)
        BY <3>1
      <3> QED
        BY <3>2
    <2> QED
      BY <2>2
  <1> QED
    BY <1>3 DEF Min

(* A sequence with one more element.                                       *)
LEMMA InsertLemma ==
  ASSUME NEW S, NEW q \in Seq(S), NEW i \in 1..(Len(q)+1), NEW e \in S, NEW t, t = InsertAt(q, i, e)
  PROVE  /\ t \in Seq(S)
         /\ Range(t) = Range(q) \cup {e}
         /\ IsInjective(q) /\ e \notin Range(q) => IsInjective(t)
  <1>1. /\ t \in Seq(S) /\ Len(t) = Len(q) + 1 /\ Len(q) \in Nat
        /\ DOMAIN q = 1..Len(q) /\ DOMAIN t = 1..(Len(q)+1)
        /\ \A k \in 1..(Len(q)+1) : t[k] = IF k < i THEN q[k] ELSE IF k = i THEN e ELSE q[k-1]
    <2> DEFINE a == SubSeq(q, 1, i-1)
               b == SubSeq(q, i, Len(q))
               c == a \o <<e>>
    <2>0. Len(q) \in Nat /\ i \in Nat
      OBVIOUS
    <2>1. a \in Seq(S) /\ Len(a) = i - 1 /\ \A k \in 1..(i-1) : a[k] = q[k]
      BY <2>0
    <2>2. b \in Seq(S) /\ Len(b) = Len(q) - i + 1 /\ \A k \in 1..(Len(q)-i+1) : b[k] = q[i+k-1]
      BY <2>0
    <2>3. t = c \o b
      BY DEF InsertAt
    <2> HIDE DEF a, b
    <2>4. c \in Seq(S) /\ Len(c) = i /\ c[i] = e /\ \A k \in 1..(i-1) : c[k] = q[k]
      BY <2>0, <2>1
    <2> HIDE DEF c
    <2>5. t \in Seq(S) /\ Len(t) = Len(q) + 1 /\ DOMAIN t = 1..(Len(q)+1)
      BY <2>0, <2>2, <2>3, <2>4
    <2>6. /\ \A k \in 1..i : t[k] = c[k]
          /\ \A k \in (i+1)..(Len(q)+1) : t[k] = b[k-i]
      BY <2>0, <2>2, <2>3, <2>4
    <2>7. ASSUME NEW k \in (i+1)..(Len(q)+1) PROVE t[k] = q[k-1]
      <3>1. k - i \in 1..(Len(q)-i+1) /\ i + (k - i) - 1 = k - 1
        BY <2>0
      <3> QED
        BY <2>2, <2>6, <3>1
    <2>8. ASSUME NEW k \in 1..(Len(q)+1)
          PROVE  t[k] = IF k < i THEN q[k] ELSE IF k = i THEN e ELSE q[k-1]
      BY <2>0, <2>4, <2>6, <2>7
    <2> QED
      BY <2>0, <2>5, <2>8
  <1>2. Range(t) = Range(q) \cup {e}
    <2>1. ASSUME NEW k \in 1..(Len(q)+1) PROVE t[k] \in Range(q) \cup {e}
      <3>1. CASE k < i
        BY <1>1, <3>1 DEF Range
      <3>2. CASE k = i
        BY <1>1, <3>2
      <3>3. CASE k > i
        <4>1. k - 1 \in 1..Len(q) /\ t[k] = q[k-1]
          BY <1>1, <3>3
        <4> QED
          BY <1>1, <4>1 DEF Range
      <3> QED
        BY <1>1, <3>1, <3>2, <3>3
    <2>2. ASSUME NEW k \in 1..Len(q) PROVE q[k] \in Range(t)
      <3>1. CASE k < i
        <4>1. k \in 1..(Len(q)+1) /\ t[k] = q[k]
          BY <1>1, <3>1
        <4> QED
          BY <1>1, <4>1 DEF Range
      <3>2. CASE k >= i
        <4>1. k + 1 \in 1..(Len(q)+1) /\ t[k+1] = q[k]
          BY <1>1, <3>2
        <4> QED
          BY <1>1, <4>1 DEF Range
      <3> QED
        BY <1>1, <3>1, <3>2
    <2>3. e \in Range(t)
      BY <1>1 DEF Range
    <2> QED
      BY <1>1, <2>1, <2>2, <2>3 DEF Range
  <1>3. ASSUME IsInjective(q), e \notin Range(q) PROVE IsInjective(t)
    <2>1. \A k \in 1..Len(q) : q[k] # e
      BY <1>1, <1>3 DEF Range
    <2>2. \A k, l \in 1..Len(q) : q[k] = q[l] => k = l
      BY <1>1, <1>3 DEF IsInjective
    <2>3. ASSUME NEW k \in 1..(Len(q)+1), NEW l \in 1..(Len(q)+1), t[k] = t[l] PROVE k = l
      <3> DEFINE at(x) == IF x < i THEN x ELSE x - 1
      <3>1. ASSUME NEW x \in 1..(Len(q)+1), x # i
            PROVE  at(x) \in 1..Len(q) /\ t[x] = q[at(x)] /\ t[x] # e
        BY <1>1, <2>1, <3>1
      <3>2. CASE k = i
        BY <1>1, <2>3, <3>1, <3>2
      <3>3. CASE l = i
        BY <1>1, <2>3, <3>1, <3>3
      <3>4. CASE k # i /\ l # i
        <4>1. at(k) = at(l)
          BY SMTT(30), <2>2, <2>3, <3>1, <3>4
        <4> QED
          BY <3>4, <4>1
      <3> QED
        BY <3>2, <3>3, <3>4
    <2> QED
      BY <1>1, <2>3 DEF IsInjective
  <1> QED
    BY <1>1, <1>2, <1>3

(* A queue behind another one.                                             *)
Joined(p, q) == p \o q

(* Two queues, one behind the other.                                       *)
LEMMA ConcatLemma ==
  ASSUME NEW S, NEW p \in Seq(S), NEW q \in Seq(S), NEW t, t = Joined(p, q)
  PROVE  /\ t \in Seq(S)
         /\ Range(t) = Range(p) \cup Range(q)
         /\ IsInjective(p) /\ IsInjective(q) /\ Range(p) \cap Range(q) = {} => IsInjective(t)
  <1>1. /\ t \in Seq(S) /\ Len(t) = Len(p) + Len(q) /\ Len(p) \in Nat /\ Len(q) \in Nat
        /\ DOMAIN p = 1..Len(p) /\ DOMAIN q = 1..Len(q) /\ DOMAIN t = 1..(Len(p)+Len(q))
        /\ \A k \in 1..(Len(p)+Len(q)) : t[k] = IF k <= Len(p) THEN p[k] ELSE q[k - Len(p)]
    BY DEF Joined
  <1>2. \A k \in 1..Len(p) : k \in DOMAIN t /\ t[k] = p[k]
    BY <1>1
  <1>3. ASSUME NEW k \in 1..Len(q) PROVE Len(p) + k \in DOMAIN t /\ t[Len(p) + k] = q[k]
    BY SMTT(30), <1>1
  <1>4. ASSUME NEW k \in DOMAIN t
        PROVE  \/ k \in 1..Len(p) /\ t[k] = p[k]
               \/ k > Len(p) /\ k - Len(p) \in 1..Len(q) /\ t[k] = q[k - Len(p)]
    BY <1>1
  <1>5. Range(t) = Range(p) \cup Range(q)
    <2>1. ASSUME NEW k \in DOMAIN t PROVE t[k] \in Range(p) \cup Range(q)
      BY <1>1, <1>4 DEF Range
    <2>2. ASSUME NEW k \in 1..Len(p) PROVE p[k] \in Range(t)
      BY <1>2 DEF Range
    <2>3. ASSUME NEW k \in 1..Len(q) PROVE q[k] \in Range(t)
      BY <1>3 DEF Range
    <2>4. \A x \in Range(t) : x \in Range(p) \cup Range(q)
      BY <2>1 DEF Range
    <2>5. /\ \A x \in Range(p) : \E k \in 1..Len(p) : x = p[k]
          /\ \A x \in Range(q) : \E k \in 1..Len(q) : x = q[k]
      BY <1>1 DEF Range
    <2> QED
      BY <2>2, <2>3, <2>4, <2>5
  <1>6. ASSUME IsInjective(p), IsInjective(q), Range(p) \cap Range(q) = {},
               NEW k \in DOMAIN t, NEW l \in DOMAIN t, t[k] = t[l]
        PROVE  k = l
    <2>1. \A x \in 1..Len(p), y \in 1..Len(q) : p[x] # q[y]
      BY <1>1, <1>6 DEF Range
    <2>2. /\ \A x, y \in 1..Len(p) : p[x] = p[y] => x = y
          /\ \A x, y \in 1..Len(q) : q[x] = q[y] => x = y
      BY <1>1, <1>6 DEF IsInjective
    <2> QED
      BY <1>1, <1>4, <1>6, <2>1, <2>2
  <1> QED
    BY <1>1, <1>5, <1>6 DEF IsInjective

(* Putting a job into the queue.                                           *)
LEMMA RequeueLemma ==
  ASSUME NEW m \in Memory, NEW j \in Jobs, NEW n, n = InsertByPriority(m, j) \/ n = Requeue(m, j)
  PROVE  /\ n \in Memory
         /\ n.phase = m.phase /\ n.job = m.job /\ n.timer = m.timer /\ n.run = m.run
         /\ n.unwinding = m.unwinding /\ n.tracked = m.tracked /\ n.awaited = m.awaited
         /\ Range(n.queue) = Range(m.queue) \cup {j}
         /\ IsInjective(m.queue) /\ j \notin Range(m.queue) => IsInjective(n.queue)
  <1> DEFINE lower == {i \in DOMAIN m.queue : Priority[m.queue[i]] < Priority[j]}
             at == IF lower = {} THEN Len(m.queue) + 1 ELSE Min(lower)
             behind == InsertAt(m.queue, at, j)
             one == <<j>>
             first == Joined(one, m.queue)
  <1>1. m.queue \in Seq(Jobs) /\ Len(m.queue) \in Nat /\ DOMAIN m.queue = 1..Len(m.queue)
    BY DEF Memory
  <1>2. at \in 1..(Len(m.queue)+1)
    <2>1. lower \in SUBSET Nat /\ lower \subseteq 1..Len(m.queue)
      BY <1>1
    <2> HIDE DEF lower
    <2>2. CASE lower = {}
      BY <1>1, <2>2
    <2>3. CASE lower # {}
      <3>1. Min(lower) \in 1..Len(m.queue) /\ at = Min(lower)
        BY <2>1, <2>3, MinLemma
      <3> HIDE DEF at
      <3> QED
        BY <1>1, <3>1
    <2> QED
      BY <2>2, <2>3
  <1> HIDE DEF at
  <1>3. /\ behind \in Seq(Jobs) /\ Range(behind) = Range(m.queue) \cup {j}
        /\ IsInjective(m.queue) /\ j \notin Range(m.queue) => IsInjective(behind)
    BY <1>1, <1>2, InsertLemma
  <1>4. /\ first \in Seq(Jobs) /\ Range(first) = Range(m.queue) \cup {j}
        /\ IsInjective(m.queue) /\ j \notin Range(m.queue) => IsInjective(first)
    <2>1. one \in Seq(Jobs) /\ Range(one) = {j} /\ IsInjective(one)
      BY DEF Range, IsInjective
    <2> HIDE DEF one
    <2>2. /\ first \in Seq(Jobs) /\ Range(first) = Range(one) \cup Range(m.queue)
          /\ IsInjective(one) /\ IsInjective(m.queue) /\ Range(one) \cap Range(m.queue) = {}
               => IsInjective(first)
      BY <1>1, <2>1, ConcatLemma
    <2> QED
      BY <2>1, <2>2
  <1>5. n = [m EXCEPT !.queue = behind] \/ n = [m EXCEPT !.queue = first]
    BY DEF InsertByPriority, Requeue, Joined, at
  <1> HIDE DEF behind, first
  <1>6. ASSUME NEW q \in Seq(Jobs), n = [m EXCEPT !.queue = q]
        PROVE  /\ n \in Memory /\ n.queue = q
               /\ n.phase = m.phase /\ n.job = m.job /\ n.timer = m.timer /\ n.run = m.run
               /\ n.unwinding = m.unwinding /\ n.tracked = m.tracked /\ n.awaited = m.awaited
    BY <1>6 DEF Memory
  <1>7. CASE n = [m EXCEPT !.queue = behind]
    BY <1>3, <1>6, <1>7
  <1>8. CASE n = [m EXCEPT !.queue = first]
    BY <1>4, <1>6, <1>8
  <1> QED
    BY <1>5, <1>7, <1>8

----------------------------------------------------------------------------
(* What the writes do.                                                     *)

(* The rows become those of memory; the other stores stay.                 *)
LEMMA PersistLemma ==
  ASSUME NEW s \in Disk, NEW m \in Memory, NEW n, n = PersistJobs(s, m)
  PROVE  /\ n \in Disk /\ n.job = m.job
         /\ n.ledger = s.ledger /\ n.history = s.history
         /\ n.artifacts = s.artifacts /\ n.device = s.device
  BY DEF Disk, Memory, PersistJobs

(* The history of the jobs of X has the outcome.                           *)
LEMMA HistoryLemma ==
  ASSUME NEW s \in Disk, NEW X \in SUBSET Jobs, NEW outcome \in {"done", "failed"},
         NEW n, n = RecordJobHistory(s, X, outcome)
  PROVE  /\ n \in Disk /\ n.job = s.job /\ n.ledger = s.ledger
         /\ n.artifacts = s.artifacts /\ n.device = s.device
         /\ \A j \in Jobs : n.history[j] = IF j \in X THEN outcome ELSE s.history[j]
  BY DEF Disk, RecordJobHistory

(* What a settlement leaves in the ledger and in the history.              *)
Charge(success) == IF success THEN "consumed" ELSE "none"
Outcome(success) == IF success THEN "done" ELSE "failed"

(* The reservations of the jobs of X are charged or released.              *)
LEMMA QuotaLemma ==
  ASSUME NEW s \in Disk, NEW X \in SUBSET Jobs, NEW success \in BOOLEAN,
         NEW n, n = SettleDecryptQuota(s, X, success)
  PROVE  /\ n \in Disk /\ n.job = s.job /\ n.history = s.history
         /\ n.artifacts = s.artifacts /\ n.device = s.device
         /\ \A j \in Jobs : n.ledger[j] =
              IF j \in X /\ s.ledger[j] = "reserved" THEN Charge(success)
              ELSE s.ledger[j]
  BY DEF Disk, SettleDecryptQuota, Charge

(* The writes that settle jobs, all of them or some.                       *)
Written(s, m, X, success, made, n) ==
  /\ n \in Disk /\ n.artifacts = s.artifacts /\ n.device = s.device
  /\ n.job = IF "jobs" \in made THEN m.job ELSE s.job
  /\ \A j \in Jobs : n.ledger[j] =
       IF "ledger" \in made /\ j \in X /\ s.ledger[j] = "reserved"
       THEN Charge(success) ELSE s.ledger[j]
  /\ \A j \in Jobs : n.history[j] =
       IF "history" \in made /\ j \in X THEN Outcome(success) ELSE s.history[j]

(* The writes that were made, and only those, show.                        *)
LEMMA SettlementLemma ==
  ASSUME NEW s \in Disk, NEW m \in Memory, NEW X \in SUBSET Jobs, NEW success \in BOOLEAN,
         NEW made, NEW n, n = WriteSettlement(s, m, X, success, made)
  PROVE  Written(s, m, X, success, made, n)
  <1> DEFINE s1 == IF "jobs" \in made THEN PersistJobs(s, m) ELSE s
             s2 == IF "ledger" \in made THEN SettleDecryptQuota(s1, X, success) ELSE s1
  <1>1. /\ s1 \in Disk /\ s1.job = IF "jobs" \in made THEN m.job ELSE s.job
        /\ s1.ledger = s.ledger /\ s1.history = s.history
        /\ s1.artifacts = s.artifacts /\ s1.device = s.device
    BY PersistLemma
  <1> HIDE DEF s1
  <1>2. /\ s2 \in Disk /\ s2.job = s1.job /\ s2.history = s1.history
        /\ s2.artifacts = s1.artifacts /\ s2.device = s1.device
        /\ \A j \in Jobs : s2.ledger[j] =
             IF "ledger" \in made /\ j \in X /\ s1.ledger[j] = "reserved"
             THEN Charge(success) ELSE s1.ledger[j]
    <2>1. CASE "ledger" \in made
      BY <1>1, <2>1, QuotaLemma
    <2>2. CASE "ledger" \notin made
      BY <1>1, <2>2
    <2> QED
      BY <2>1, <2>2
  <1>3. n = IF "history" \in made THEN RecordJobHistory(s2, X, Outcome(success)) ELSE s2
    BY DEF WriteSettlement, s1, Outcome
  <1> HIDE DEF s2
  <1>4. /\ n \in Disk /\ n.job = s2.job /\ n.ledger = s2.ledger
        /\ n.artifacts = s2.artifacts /\ n.device = s2.device
        /\ \A j \in Jobs : n.history[j] = IF "history" \in made /\ j \in X THEN Outcome(success) ELSE s2.history[j]
    <2>1. CASE "history" \in made
      BY <1>2, <1>3, <2>1, HistoryLemma, Outcome(success) \in {"done", "failed"} DEF Outcome
    <2>2. CASE "history" \notin made
      BY <1>2, <1>3, <2>2
    <2> QED
      BY <2>1, <2>2
  <1> QED
    BY <1>1, <1>2, <1>4 DEF Written

(* All three writes, after which the rows are memory's.                    *)
Settles(s, m, X, success, n) ==
  /\ n \in Disk /\ n.job = m.job /\ n.artifacts = s.artifacts /\ n.device = s.device
  /\ \A j \in Jobs : n.ledger[j] =
       IF j \in X /\ s.ledger[j] = "reserved" THEN Charge(success) ELSE s.ledger[j]
  /\ \A j \in Jobs : n.history[j] = IF j \in X THEN Outcome(success) ELSE s.history[j]

(* All three writes of a settlement.                                       *)
LEMMA SettlesLemma ==
  ASSUME NEW s \in Disk, NEW m \in Memory, NEW X \in SUBSET Jobs, NEW success \in BOOLEAN,
         NEW n, n = WriteSettlement(s, m, X, success, AllWrites)
  PROVE  Settles(s, m, X, success, n)
  <1>1. Written(s, m, X, success, AllWrites, n)
    BY SettlementLemma
  <1>2. "jobs" \in AllWrites /\ "ledger" \in AllWrites /\ "history" \in AllWrites
    BY DEF AllWrites
  <1> QED
    BY <1>1, <1>2 DEF Written, Settles

----------------------------------------------------------------------------
(* Steps on a few jobs.                                                    *)

(* The step from m, s to n, t leaves job j alone.                          *)
Untouched(m, s, n, t, j) ==
  /\ n.phase = m.phase /\ n.job[j] = m.job[j] /\ n.timer[j] = m.timer[j] /\ n.run[j] = m.run[j]
  /\ j \in Range(n.queue) <=> j \in Range(m.queue)
  /\ t.job[j] = s.job[j] \/ t.job[j] = m.job[j]
  /\ t.ledger[j] = s.ledger[j] /\ t.history[j] = s.history[j]

(* A job that is left alone stays as sound as it was.                      *)
LEMMA UntouchedLemma ==
  ASSUME NEW m, NEW s, NEW n, NEW t, NEW v, NEW w, NEW j \in Jobs,
         JobIsSound(m, s, v, j), Untouched(m, s, n, t, j), j \in w <=> j \in v
  PROVE  JobIsSound(n, t, w, j)
  <1>1. StatusOf(n, j) = StatusOf(m, j) /\ t.job[j].status = StatusOf(m, j)
    BY DEF StatusOf, Untouched, JobIsSound, RowIsCurrent
  <1>2. WaitsRightly(n, w, j)
    BY <1>1 DEF JobIsSound, WaitsRightly, Untouched
  <1>3. WorksRightly(n, j)
    BY <1>1 DEF JobIsSound, WorksRightly, Untouched
  <1>4. RowIsSound(t, j)
    <2>1. t.history[j] = s.history[j] /\ s.job[j].status = StatusOf(m, j)
      BY DEF JobIsSound, RowIsCurrent, Untouched
    <2>2. m.job[j].recovery => StatusOf(m, j) # "queued"
      BY DEF JobIsSound, WorksRightly, Active
    <2>3. t.job[j].recovery => t.job[j].status # "queued"
      BY <1>1, <2>2, <2>1 DEF Untouched, JobIsSound, RowIsSound
    <2>4. t.job[j].status = "absent" => ~t.job[j].tried
      BY <1>1, <2>1 DEF Untouched, JobIsSound, RowIsSound, WorksRightly
    <2> QED
      BY <1>1, <2>1, <2>3, <2>4 DEF JobIsSound, RowIsSound
  <1>5. LedgerIsExact(n, t, w, j)
    BY <1>1 DEF JobIsSound, LedgerIsExact, Untouched
  <1>6. RowIsCurrent(n, t, j)
    BY <1>1 DEF JobIsSound, RowIsCurrent, WorksRightly, Untouched
  <1> QED
    BY <1>2, <1>3, <1>4, <1>5, <1>6 DEF JobIsSound

(* A step that handles the jobs X rightly and makes none of them active.   *)
Handles(m, s, v, n, t, w, X) ==
  /\ n \in Memory /\ n.phase # "down" /\ IsInjective(n.queue) /\ t \in Disk
  /\ \A j \in Jobs \ X : Untouched(m, s, n, t, j) /\ (j \in w <=> j \in v)
  /\ \A j \in X : JobIsSound(n, t, w, j)
  /\ X \cap ActiveRows(t) \subseteq ActiveRows(s)

(* A handler that takes care of the jobs of X leaves a sound process.      *)
LEMMA StepLemma ==
  ASSUME NEW m, NEW s, NEW v, NEW n, NEW t, NEW w, NEW X,
         InProcess(m, s, v), Handles(m, s, v, n, t, w, X)
  PROVE  InProcess(n, t, w) /\ ActiveRows(t) \subseteq ActiveRows(s)
  <1>1. \A j \in Jobs : JobIsSound(n, t, w, j)
    BY UntouchedLemma DEF InProcess, Handles
  <1>2. ASSUME NEW j \in Jobs \ X PROVE t.job[j].status = s.job[j].status
    BY DEF InProcess, Handles, Untouched, JobIsSound, RowIsCurrent, StatusOf
  <1>3. ActiveRows(t) \subseteq ActiveRows(s)
    BY <1>2 DEF ActiveRows, Handles
  <1>4. OneActiveRow(t)
    BY <1>3 DEF InProcess, OneActiveRow
  <1> QED
    BY <1>1, <1>3, <1>4 DEF InProcess, Handles

(* Failing overdue jobs of the queue.                                      *)
LEMMA ExpiryLemma ==
  ASSUME NEW m, NEW s, NEW v, InProcess(m, s, v),
         NEW X \in SUBSET Jobs, \A j \in X : StatusOf(m, j) = "queued",
         NEW n, n = Expired(m, X),
         NEW t \in Disk,
         X = {} => t.job = s.job /\ t.history = s.history /\ t.ledger = s.ledger,
         X # {} => t.job = n.job,
         \A j \in Jobs : t.ledger[j] = IF j \in X /\ s.ledger[j] = "reserved" THEN "none" ELSE s.ledger[j],
         \A j \in Jobs : t.history[j] = IF j \in X THEN "failed" ELSE s.history[j]
  PROVE  /\ InProcess(n, t, v) /\ n.phase = m.phase
         /\ ActiveRows(t) \subseteq ActiveRows(s)
         /\ Range(n.queue) \subseteq Range(m.queue)
         /\ \A j \in Jobs \ X : t.job[j].status = s.job[j].status
         /\ \A j \in X : t.job[j].status = "failed"
  <1>1. m \in Memory /\ m.phase # "down" /\ IsInjective(m.queue) /\ s \in Disk
    BY DEF InProcess
  <1>2. /\ n \in Memory
        /\ n.phase = m.phase /\ n.run = m.run
        /\ n.unwinding = m.unwinding /\ n.tracked = m.tracked /\ n.awaited = m.awaited
        /\ Range(n.queue) = Range(m.queue) \ X
        /\ IsInjective(m.queue) => IsInjective(n.queue)
        /\ \A j \in Jobs : n.timer[j] = IF j \in X THEN "off" ELSE m.timer[j]
        /\ \A j \in Jobs \ X : n.job[j] = m.job[j]
        /\ \A j \in X : n.job[j].status = "failed" /\ n.job[j].retries = m.job[j].retries
                        /\ n.job[j].recovery = m.job[j].recovery
    BY <1>1, ExpiredLemma
  <1>3. ASSUME NEW j \in Jobs \ X PROVE Untouched(m, s, n, t, j)
    BY <1>2 DEF Untouched
  <1>4. ASSUME NEW j \in X PROVE JobIsSound(n, t, v, j) /\ t.job[j].status = "failed"
    <2>0. t.job = n.job /\ j \in Jobs
      BY <1>4
    <2>1. StatusOf(n, j) = "failed" /\ t.job[j].status = "failed"
      BY <1>2, <2>0 DEF StatusOf
    <2>2. JobIsSound(m, s, v, j) /\ StatusOf(m, j) = "queued"
      BY <2>0 DEF InProcess
    <2>3. WaitsRightly(n, v, j)
      BY <1>2, <2>0, <2>1 DEF WaitsRightly
    <2>4. WorksRightly(n, j)
      BY <1>2, <2>0, <2>1, <2>2 DEF WorksRightly, JobIsSound, Active
    <2>5. RowIsSound(t, j)
      BY <2>0, <2>1 DEF RowIsSound
    <2>6. LedgerIsExact(n, t, v, j)
      <3>1. s.ledger[j] # "consumed" /\ s.ledger[j] \in {"none", "reserved", "consumed"}
        BY <1>1, <2>0, <2>2 DEF JobIsSound, LedgerIsExact, Disk
      <3>2. t.ledger[j] = "none"
        BY <2>0, <3>1
      <3> QED
        BY <2>1, <3>2 DEF LedgerIsExact, Active
    <2> QED
      BY <2>1, <2>3, <2>4, <2>5, <2>6 DEF JobIsSound, RowIsCurrent
  <1>5. X \cap ActiveRows(t) \subseteq ActiveRows(s)
    BY <1>4 DEF ActiveRows, Active
  <1>6. InProcess(n, t, v) /\ ActiveRows(t) \subseteq ActiveRows(s)
    <2>1. n \in Memory /\ n.phase # "down" /\ IsInjective(n.queue)
      BY <1>1, <1>2
    <2>2. \A j \in Jobs \ X : Untouched(m, s, n, t, j) /\ (j \in v <=> j \in v)
      BY <1>3
    <2>3. \A j \in X : JobIsSound(n, t, v, j)
      BY <1>4
    <2>4. Handles(m, s, v, n, t, v, X)
      BY <1>5, <2>1, <2>2, <2>3 DEF Handles
    <2> QED
      BY <2>4, StepLemma
  <1>7. \A j \in Jobs \ X : t.job[j].status = s.job[j].status
    BY <1>3 DEF InProcess, Untouched, JobIsSound, RowIsCurrent, StatusOf
  <1> QED
    BY <1>2, <1>4, <1>6, <1>7

(* Only while jobs are accepted is any started.                            *)
MayStart(m, X) == m.phase = "up" \/ X = {}

(* Starting the jobs of a: they were queued, and all rows are written.     *)
LEMMA StartLemma ==
  ASSUME NEW m, NEW s, NEW v, InProcess(m, s, v),
         NEW X \in SUBSET Jobs, X \subseteq Range(m.queue), NEW a, Assigns(a, X),
         MayStart(m, X),
         NEW n, n = Begun(m, a),
         NEW t \in Disk, t = PersistJobs(s, n) \/ (X = {} /\ t = s)
  PROVE  /\ InProcess(n, t, v) /\ n.phase = m.phase
         /\ ActiveRows(t) = ActiveRows(s)
         /\ \A j \in Jobs \ X : t.job[j].status = s.job[j].status
         /\ \A j \in X : s.job[j].status = "queued" /\ t.job[j].status = "running"
  <1>1. m \in Memory /\ m.phase # "down" /\ IsInjective(m.queue) /\ s \in Disk
    BY DEF InProcess
  <1>2. /\ n \in Memory
        /\ n.phase = m.phase /\ n.unwinding = m.unwinding /\ n.awaited = m.awaited
        /\ n.tracked = m.tracked \cup X
        /\ Range(n.queue) = Range(m.queue) \ X
        /\ IsInjective(m.queue) => IsInjective(n.queue)
        /\ \A j \in Jobs : n.timer[j] = IF j \in X THEN "off" ELSE m.timer[j]
        /\ \A j \in Jobs \ X : n.job[j] = m.job[j] /\ n.run[j] = m.run[j]
        /\ \A j \in X : /\ n.job[j].status = "running" /\ n.job[j].retries = m.job[j].retries
                        /\ n.job[j].recovery = m.job[j].recovery
                        /\ n.job[j].late = m.job[j].late /\ n.job[j].pin = m.job[j].pin
                        /\ n.run[j] = [stage |-> "work", worker |-> a[j]]
    <2>1. m \in Memory
      BY <1>1
    <2> QED
      BY SMTT(30), <2>1, BegunLemma
  <1>3. /\ t.ledger = s.ledger /\ t.history = s.history
        /\ t.job = n.job \/ (X = {} /\ t.job = s.job)
    BY <1>1, <1>2, PersistLemma
  <1>4. ASSUME NEW j \in Jobs \ X PROVE Untouched(m, s, n, t, j)
    BY <1>2, <1>3 DEF Untouched
  <1>5. ASSUME NEW j \in X
        PROVE  /\ JobIsSound(n, t, v, j)
               /\ s.job[j].status = "queued" /\ t.job[j].status = "running"
    <2>0. t.job = n.job /\ j \in Jobs /\ j \in Range(m.queue)
      BY <1>3, <1>5
    <2>1. StatusOf(n, j) = "running" /\ t.job[j].status = "running"
      BY ZenonT(30), <1>2, <2>0 DEF StatusOf
    <2>2. JobIsSound(m, s, v, j)
      BY <2>0 DEF InProcess
    <2>3. StatusOf(m, j) = "queued" /\ s.job[j].status = "queued"
      BY <2>0, <2>2 DEF JobIsSound, WaitsRightly, RowIsCurrent
    <2>4. ~m.job[j].recovery /\ s.history[j] # "done"
      BY <2>2, <2>3 DEF JobIsSound, WorksRightly, RowIsSound, Active
    <2>5. WaitsRightly(n, v, j)
      BY <1>2, <2>0, <2>1 DEF WaitsRightly
    <2>6. WorksRightly(n, j)
      <3>1. n.run[j] = [stage |-> "work", worker |-> a[j]] /\ n.job[j].recovery = m.job[j].recovery
        BY <1>2, <1>5
      <3>2. a[j] \in Workers
        BY <1>5 DEF Assigns
      <3>3. n.phase = "up"
        BY <1>2, <1>5 DEF MayStart
      <3> QED
        BY <2>1, <2>4, <3>1, <3>2, <3>3 DEF WorksRightly
    <2>7. RowIsSound(t, j)
      BY <1>3, <2>1, <2>4 DEF RowIsSound
    <2>8. LedgerIsExact(n, t, v, j)
      BY <1>3, <2>1, <2>2, <2>3 DEF JobIsSound, LedgerIsExact, Active
    <2>9. n.phase = "up"
      BY <1>2, <1>5 DEF MayStart
    <2> QED
      BY <2>1, <2>3, <2>5, <2>6, <2>7, <2>8, <2>9 DEF JobIsSound, RowIsCurrent
  <1>6. X \cap ActiveRows(t) \subseteq ActiveRows(s)
    BY <1>5 DEF ActiveRows, Active
  <1>7. InProcess(n, t, v) /\ ActiveRows(t) \subseteq ActiveRows(s)
    <2>1. n \in Memory /\ n.phase # "down" /\ IsInjective(n.queue)
      BY <1>1, <1>2
    <2>2. \A j \in Jobs \ X : Untouched(m, s, n, t, j) /\ (j \in v <=> j \in v)
      BY <1>4
    <2>3. \A j \in X : JobIsSound(n, t, v, j)
      BY <1>5
    <2>4. Handles(m, s, v, n, t, v, X)
      BY <1>6, <2>1, <2>2, <2>3 DEF Handles
    <2> QED
      BY <2>4, StepLemma
  <1>8. \A j \in Jobs \ X : t.job[j].status = s.job[j].status
    BY <1>4 DEF InProcess, Untouched, JobIsSound, RowIsCurrent, StatusOf
  <1>9. ActiveRows(t) = ActiveRows(s)
    BY <1>5, <1>7, <1>8 DEF ActiveRows, Active
  <1> QED
    BY <1>2, <1>5, <1>7, <1>8, <1>9

(* What pumpWorkers may do to the rows: queued jobs fail or start.         *)
PumpMoves(s, t, overdue) ==
  \A j \in Jobs :
    \/ t.job[j].status = s.job[j].status
    \/ s.job[j].status = "queued" /\ t.job[j].status = "running"
    \/ s.job[j].status = "queued" /\ t.job[j].status = "failed" /\ j \in overdue

(* pumpWorkers leaves memory and rows as sound as it found them.           *)
LEMMA PumpLemma ==
  ASSUME NEW m, NEW s, NEW v, NEW overdue,
         InProcess(m, s, v), overdue \subseteq ActiveRows(s), PumpWorkers(m, s, overdue)
  PROVE  /\ InProcess(mem', disk', v) /\ due' \subseteq ActiveRows(disk')
         /\ PumpMoves(s, disk', overdue)
  <1> DEFINE X == {j \in Range(m.queue) : j \in overdue /\ StatusOf(m, j) = "queued"}
             m1 == Expired(m, X)
             devices == [d \in Devices |->
               IF s.device[d] = "draining" /\ d \notin BusyDevices(m) THEN "disabled" ELSE s.device[d]]
             s1 == [s EXCEPT !.device = devices]
             s2 == IF X = {} THEN s1 ELSE WriteSettlement(s1, m1, X, FALSE, AllWrites)
  <1>1. m \in Memory /\ s \in Disk
    BY DEF InProcess
  <1>2. X \in SUBSET Jobs /\ \A j \in X : StatusOf(m, j) = "queued"
    BY <1>1 DEF Memory, Range
  <1>3. /\ s1 \in Disk /\ s1.job = s.job /\ s1.ledger = s.ledger /\ s1.history = s.history
    <2>1. devices \in [Devices -> {"ready", "draining", "disabled"}]
      BY <1>1 DEF Disk
    <2> HIDE DEF devices
    <2> QED
      BY <1>1, <2>1 DEF Disk
  <1>4. /\ due' = overdue \ X
        /\ \E a \in Assignments(m1) : \E written \in BOOLEAN :
             /\ m.phase = "up" \/ DOMAIN a = {}
             /\ mem' = Begun(m1, a)
             /\ DOMAIN a # {} => written
             /\ disk' = IF written THEN PersistJobs(s2, mem') ELSE s2
    BY DEF PumpWorkers
  <1> HIDE DEF s1
  <1>5. /\ m1 \in Memory /\ m1.phase = m.phase /\ s2 \in Disk
        /\ X = {} => s2.job = s.job /\ s2.history = s.history /\ s2.ledger = s.ledger
        /\ X # {} => s2.job = m1.job
        /\ \A j \in Jobs : s2.ledger[j] =
             IF j \in X /\ s.ledger[j] = "reserved" THEN "none" ELSE s.ledger[j]
        /\ \A j \in Jobs : s2.history[j] = IF j \in X THEN "failed" ELSE s.history[j]
    <2> HIDE DEF X
    <2>1. m1 \in Memory /\ m1.phase = m.phase
      BY <1>1, <1>2, ExpiredLemma
    <2> HIDE DEF m1
    <2>2. CASE X = {}
      BY <1>3, <2>1, <2>2
    <2>3. CASE X # {}
      <3>1. s2 = WriteSettlement(s1, m1, X, FALSE, AllWrites)
        BY <2>3
      <3> HIDE DEF s2
      <3>2. Settles(s1, m1, X, FALSE, s2)
        BY <1>2, <1>3, <2>1, <3>1, SettlesLemma
      <3> QED
        BY <1>3, <2>1, <2>3, <3>2 DEF Settles, Charge, Outcome
    <2> QED
      BY <2>2, <2>3
  <1> HIDE DEF s2
  <1>6. /\ InProcess(m1, s2, v)
        /\ ActiveRows(s2) \subseteq ActiveRows(s)
        /\ \A j \in Jobs \ X : s2.job[j].status = s.job[j].status
        /\ \A j \in X : s2.job[j].status = "failed"
    <2> HIDE DEF X
    <2> QED
      BY <1>2, <1>5, ExpiryLemma
  <1>7. PICK a \in Assignments(m1), written \in BOOLEAN :
          /\ m.phase = "up" \/ DOMAIN a = {}
          /\ mem' = Begun(m1, a)
          /\ DOMAIN a # {} => written
          /\ disk' = IF written THEN PersistJobs(s2, mem') ELSE s2
    BY <1>4
  <1> DEFINE Y == DOMAIN a
  <1>8. Y \in SUBSET Jobs /\ Y \subseteq Range(m1.queue) /\ Assigns(a, Y)
    <2>1. PICK D \in SUBSET Range(m1.queue) : a \in [D -> Workers]
      BY <1>7 DEF Assignments
    <2>2. Range(m1.queue) \subseteq Jobs
      BY <1>5 DEF Memory, Range
    <2> QED
      BY <2>1, <2>2 DEF Assigns
  <1> HIDE DEF m1, X, Y
  <1>9. mem' \in Memory
    BY <1>5, <1>7, <1>8, BegunLemma
  <1>10. disk' \in Disk /\ (disk' = PersistJobs(s2, mem') \/ (Y = {} /\ disk' = s2))
    BY <1>5, <1>7, <1>9, PersistLemma DEF Y
  <1>11. /\ InProcess(mem', disk', v)
         /\ ActiveRows(disk') = ActiveRows(s2)
         /\ \A j \in Jobs \ Y : disk'.job[j].status = s2.job[j].status
         /\ \A j \in Y : s2.job[j].status = "queued" /\ disk'.job[j].status = "running"
    <2>1. InProcess(m1, s2, v)
      BY <1>6
    <2>2. mem' = Begun(m1, a)
      BY <1>7
    <2>3. MayStart(m1, Y)
      BY <1>5, <1>7 DEF Y, MayStart
    <2> QED
      BY <1>8, <1>10, <2>1, <2>2, <2>3, StartLemma
  <1>12. PumpMoves(s, disk', overdue)
    <2>1. ASSUME NEW j \in X
          PROVE  s.job[j].status = "queued" /\ disk'.job[j].status = "failed" /\ j \in overdue
      <3>1. j \in Jobs /\ StatusOf(m, j) = "queued" /\ j \in overdue
        BY <1>2 DEF X
      <3>2. s2.job[j].status = "failed"
        BY <1>6
      <3>3. j \notin Y
        BY <1>11, <3>2
      <3> QED
        BY <1>11, <3>1, <3>2, <3>3 DEF InProcess, JobIsSound, RowIsCurrent
    <2>2. ASSUME NEW j \in Jobs \ X
          PROVE  \/ disk'.job[j].status = s.job[j].status
                 \/ s.job[j].status = "queued" /\ disk'.job[j].status = "running"
      BY <1>6, <1>11
    <2> QED
      BY <2>1, <2>2 DEF PumpMoves
  <1>13. due' \subseteq ActiveRows(disk')
    BY <1>4, <1>6, <1>11 DEF ActiveRows
  <1> QED
    BY <1>11, <1>12, <1>13

----------------------------------------------------------------------------
(* One job changes.                                                        *)

RunRecord == [stage: Stages, worker: Workers \cup {NoWorker}]

(* From m to n only the record and the run of job j change.                *)
Edits(m, n, j) ==
  /\ n \in Memory
  /\ n.phase = m.phase /\ n.queue = m.queue /\ n.timer = m.timer
  /\ n.tracked = m.tracked /\ n.awaited = m.awaited
  /\ \A k \in Jobs \ {j} : n.job[k] = m.job[k] /\ n.run[k] = m.run[k]

WithJob(m, j, r) == [m EXCEPT !.job[j] = r]
WithRun(m, j, q, u) == [m EXCEPT !.run[j] = q, !.unwinding = u]

(* Another record for job j.                                               *)
LEMMA EditJobLemma ==
  ASSUME NEW m \in Memory, NEW j \in Jobs, NEW r \in JobRecord,
         NEW n, n = WithJob(m, j, r)
  PROVE  Edits(m, n, j) /\ n.job[j] = r /\ n.run = m.run /\ n.unwinding = m.unwinding
  <1> DEFINE jobs == [m.job EXCEPT ![j] = r]
  <1>1. m.job \in [Jobs -> JobRecord]
    BY DEF Memory
  <1>2. /\ jobs \in [Jobs -> JobRecord] /\ jobs[j] = r
        /\ \A k \in Jobs \ {j} : jobs[k] = m.job[k]
    BY <1>1
  <1>3. n = [m EXCEPT !.job = jobs]
    BY DEF WithJob
  <1> HIDE DEF jobs
  <1>4. /\ n \in Memory /\ n.job = jobs
        /\ n.phase = m.phase /\ n.queue = m.queue /\ n.timer = m.timer /\ n.run = m.run
        /\ n.unwinding = m.unwinding /\ n.tracked = m.tracked /\ n.awaited = m.awaited
    BY <1>2, <1>3 DEF Memory
  <1> QED
    BY <1>2, <1>4 DEF Edits

(* Another run for job j, and other runs that have to unwind.              *)
LEMMA EditRunLemma ==
  ASSUME NEW m \in Memory, NEW j \in Jobs, NEW q \in RunRecord,
         NEW u \in SUBSET (Jobs \X Workers),
         NEW n, n = WithRun(m, j, q, u)
  PROVE  Edits(m, n, j) /\ n.run[j] = q /\ n.job = m.job /\ n.unwinding = u
  <1> DEFINE runs == [m.run EXCEPT ![j] = q]
  <1>1. m.run \in [Jobs -> RunRecord]
    BY DEF Memory, RunRecord
  <1>2. /\ runs \in [Jobs -> RunRecord] /\ runs[j] = q
        /\ \A k \in Jobs \ {j} : runs[k] = m.run[k]
    BY <1>1
  <1>3. n = [m EXCEPT !.run = runs, !.unwinding = u]
    BY DEF WithRun
  <1> HIDE DEF runs
  <1>4. /\ n \in Memory /\ n.run = runs
        /\ n.phase = m.phase /\ n.queue = m.queue /\ n.timer = m.timer /\ n.job = m.job
        /\ n.unwinding = u /\ n.tracked = m.tracked /\ n.awaited = m.awaited
    BY <1>2, <1>3 DEF Memory, RunRecord
  <1> QED
    BY <1>2, <1>4 DEF Edits

(* The run of j is over, its worker still to be released.                  *)
LEMMA ReturnedLemma ==
  ASSUME NEW m \in Memory, NEW j \in Jobs, m.run[j].worker \in Workers,
         NEW n, n = Returned(m, j)
  PROVE  Edits(m, n, j) /\ n.run[j] = NoRun /\ n.job = m.job
  <1> DEFINE u == m.unwinding \cup {<<j, m.run[j].worker>>}
  <1>1. u \in SUBSET (Jobs \X Workers)
    BY DEF Memory
  <1>2. NoRun \in RunRecord
    BY DEF NoRun, RunRecord, Stages
  <1>3. n = WithRun(m, j, NoRun, u)
    BY DEF Returned, WithRun
  <1> HIDE DEF u
  <1> QED
    BY <1>1, <1>2, <1>3, EditRunLemma

(* The statuses a handler sets.                                            *)
LEMMA StatusesLemma == {"queued", "failed", "done"} \subseteq Statuses
  BY DEF Statuses, Active, Settled

(* Another status for j.                                                   *)
LEMMA StatusLemma ==
  ASSUME NEW m \in Memory, NEW j \in Jobs, NEW status \in Statuses,
         NEW n, n = WithStatus(m, j, status)
  PROVE  /\ Edits(m, n, j) /\ n.run = m.run
         /\ n.job[j].status = status /\ n.job[j].recovery = m.job[j].recovery
  <1> DEFINE r == [m.job[j] EXCEPT !.status = status]
  <1>1. /\ r \in JobRecord /\ r.status = status
        /\ r.recovery = m.job[j].recovery
    <2>1. m.job[j] \in JobRecord
      BY DEF Memory
    <2> QED
      BY <2>1 DEF JobRecord
  <1>2. n = WithJob(m, j, r)
    BY DEF WithStatus, WithJob
  <1> HIDE DEF r
  <1>3. Edits(m, n, j) /\ n.job[j] = r /\ n.run = m.run
    BY <1>1, <1>2, EditJobLemma
  <1> QED
    BY <1>1, <1>3

(* Edits compose.                                                          *)
LEMMA EditsCompose ==
  ASSUME NEW m, NEW n, NEW o, NEW j, Edits(m, n, j), Edits(n, o, j)
  PROVE  Edits(m, o, j)
  BY DEF Edits

----------------------------------------------------------------------------
(* The end of a job.                                                       *)

(* The rows move along the lifecycle of JobLifecycle.                      *)
RowsMove(s, t) ==
  \A j \in Jobs :
    \/ t.job[j].status = s.job[j].status
    \/ <<s.job[j].status, t.job[j].status>> \in Lifecycle!Moves

(* In memory: j leaves queue, timers and runs with its final status.       *)
Ends(m, n, j, status) ==
  /\ n \in Memory /\ n.phase = m.phase
  /\ IsInjective(n.queue) /\ Range(n.queue) = Range(m.queue) \ {j}
  /\ n.timer[j] = "off" /\ n.run[j].stage = "none" /\ n.job[j].status = status
  /\ \A k \in Jobs \ {j} : n.job[k] = m.job[k] /\ n.run[k] = m.run[k] /\ n.timer[k] = m.timer[k]

(* An active job ends and all three writes are made.                       *)
LEMMA EndLemma ==
  ASSUME NEW m, NEW s, NEW v, InProcess(m, s, v),
         NEW j \in Jobs, NEW success \in BOOLEAN,
         StatusOf(m, j) = "running" \/ (StatusOf(m, j) = "queued" /\ Outcome(success) = "failed"),
         NEW n, Ends(m, n, j, Outcome(success)),
         NEW p, p.ledger = s.ledger, p.history = s.history,
         NEW t, Settles(p, n, {j}, success, t)
  PROVE  /\ InProcess(n, t, v) /\ ActiveRows(t) = ActiveRows(s) \ {j}
         /\ RowsMove(s, t)
  <1>1. m \in Memory /\ m.phase # "down" /\ s \in Disk /\ JobIsSound(m, s, v, j)
    BY DEF InProcess
  <1>2. t \in Disk /\ t.job = n.job
    BY DEF Settles
  <1>3. /\ StatusOf(n, j) = Outcome(success) /\ t.job[j].status = Outcome(success)
        /\ Outcome(success) \in {"done", "failed"} /\ Charge(success) \in {"consumed", "none"}
        /\ Outcome(success) = "done" <=> Charge(success) = "consumed"
    BY <1>2 DEF Ends, StatusOf, Outcome, Charge
  <1>4. ASSUME NEW k \in Jobs \ {j} PROVE Untouched(m, s, n, t, k)
    BY <1>2 DEF Ends, Settles, Untouched
  <1>5. WaitsRightly(n, v, j) /\ WorksRightly(n, j)
    BY <1>3 DEF WaitsRightly, WorksRightly, Ends, Active
  <1>6. RowIsSound(t, j) /\ RowIsCurrent(n, t, j)
    BY <1>2, <1>3 DEF RowIsSound, RowIsCurrent, Settles, StatusOf, Outcome
  <1>7. LedgerIsExact(n, t, v, j)
    <2>1. StatusOf(m, j) \in Active /\ StatusOf(m, j) \notin {"done", "gone"}
      BY DEF Active
    <2>2. /\ s.ledger[j] \in {"none", "reserved", "consumed"} /\ s.ledger[j] # "consumed"
          /\ j \in BilledJobs \ v => s.ledger[j] = "reserved"
      BY <1>1, <2>1 DEF JobIsSound, LedgerIsExact, Disk
    <2>3. t.ledger[j] = IF s.ledger[j] = "reserved" THEN Charge(success) ELSE s.ledger[j]
      BY DEF Settles
    <2> QED
      BY <1>3, <2>2, <2>3 DEF LedgerIsExact, Active
  <1>8. /\ InProcess(n, t, v) /\ ActiveRows(t) \subseteq ActiveRows(s)
    <2>1. JobIsSound(n, t, v, j)
      BY <1>5, <1>6, <1>7 DEF JobIsSound
    <2>2. {j} \cap ActiveRows(t) \subseteq ActiveRows(s)
      BY <1>3 DEF ActiveRows, Active
    <2>3. Handles(m, s, v, n, t, v, {j})
      BY <1>1, <1>2, <1>4, <2>1, <2>2 DEF Handles, Ends
    <2> QED
      BY <2>3, StepLemma
  <1>9. \A k \in Jobs \ {j} : t.job[k].status = s.job[k].status
    BY <1>4 DEF InProcess, Untouched, JobIsSound, RowIsCurrent, StatusOf
  <1>10. ActiveRows(t) = ActiveRows(s) \ {j}
    BY <1>3, <1>8, <1>9 DEF ActiveRows, Active
  <1>11. RowsMove(s, t)
    <2>1. s.job[j].status = StatusOf(m, j)
      BY <1>1 DEF JobIsSound, RowIsCurrent
    <2>2. <<s.job[j].status, t.job[j].status>> \in Lifecycle!Moves
      BY <1>3, <2>1 DEF Lifecycle!Moves, Outcome
    <2> QED
      BY <1>9, <2>2 DEF RowsMove
  <1> QED
    BY <1>8, <1>10, <1>11

(* An active job ends and the process dies after some of the writes: none  *)
(* that announces or charges a success is made before the rows.            *)
LEMMA TornLemma ==
  ASSUME NEW m, NEW s, NEW v, InProcess(m, s, v),
         NEW j \in Jobs, NEW success \in BOOLEAN,
         StatusOf(m, j) = "running" \/ (StatusOf(m, j) = "queued" /\ Outcome(success) = "failed"),
         NEW n, Ends(m, n, j, Outcome(success)),
         NEW p, p.job = s.job, p.ledger = s.ledger, p.history = s.history,
         NEW made, NEW t, Written(p, n, {j}, success, made, t),
         "ledger" \in made => "jobs" \in made,
         "history" \in made /\ Outcome(success) = "done" => "jobs" \in made
  PROVE  AtRest(t, v) /\ RowsMove(s, t)
  <1>1. m \in Memory /\ m.phase # "down" /\ s \in Disk /\ JobIsSound(m, s, v, j) /\ OneActiveRow(s)
    BY DEF InProcess
  <1>2. t \in Disk /\ t.job = IF "jobs" \in made THEN n.job ELSE s.job
    BY DEF Written
  <1>3. /\ n.job[j].status = Outcome(success)
        /\ Outcome(success) \in {"done", "failed"} /\ Charge(success) \in {"consumed", "none"}
        /\ Outcome(success) = "done" <=> Charge(success) = "consumed"
    BY <1>2 DEF Ends, Outcome, Charge
  <1>4. ASSUME NEW k \in Jobs \ {j}
        PROVE  /\ t.job[k].status = s.job[k].status
               /\ RowIsSound(t, k) /\ LedgerIsOwed(t, v, k)
    <2>1. Untouched(m, s, n, t, k)
      <3>1. k \in Jobs /\ k # j
        BY <1>4
      <3>2. t.ledger[k] = s.ledger[k] /\ t.history[k] = s.history[k]
        BY <3>1 DEF Written
      <3> QED
        BY <1>2, <3>1, <3>2 DEF Ends, Untouched
    <2>2. JobIsSound(m, s, v, k)
      BY DEF InProcess
    <2>3. JobIsSound(n, t, v, k)
      BY <2>1, <2>2, UntouchedLemma
    <2>4. t.job[k].status = s.job[k].status
      BY <2>1, <2>2 DEF Untouched, JobIsSound, RowIsCurrent, StatusOf
    <2> QED
      BY <2>3, <2>4 DEF JobIsSound, LedgerIsExact, LedgerIsOwed, RowIsCurrent, Active
  <1>5. /\ s.job[j].status = StatusOf(m, j) /\ StatusOf(m, j) \in Active
        /\ StatusOf(m, j) \notin {"done", "gone", "cached"}
        /\ s.history[j] # "done" /\ (s.job[j].recovery => s.job[j].status # "queued")
        /\ s.ledger[j] # "consumed" /\ (j \in BilledJobs \ v => s.ledger[j] = "reserved")
    <2>1. /\ StatusOf(m, j) \in Active /\ StatusOf(m, j) \notin {"done", "gone", "cached"}
          /\ s.job[j].status = StatusOf(m, j)
      BY <1>1 DEF Active, JobIsSound, RowIsCurrent
    <2> QED
      BY <1>1, <2>1 DEF JobIsSound, RowIsSound, LedgerIsExact
  <1>6. RowIsSound(t, j) /\ LedgerIsOwed(t, v, j)
        /\ (t.job[j].status = s.job[j].status \/ t.job[j].status = Outcome(success))
    <2>1. t.ledger[j] = IF "ledger" \in made /\ s.ledger[j] = "reserved" THEN Charge(success) ELSE s.ledger[j]
      BY DEF Written
    <2>2. t.history[j] = IF "history" \in made THEN Outcome(success) ELSE s.history[j]
      BY DEF Written
    <2>3. CASE "jobs" \in made
      <3>1. t.job[j].status = Outcome(success)
        BY <1>2, <1>3, <2>3
      <3>2. RowIsSound(t, j)
        BY <1>3, <1>5, <2>2, <3>1 DEF RowIsSound
      <3>3. LedgerIsOwed(t, v, j)
        BY <1>3, <1>5, <2>1, <3>1 DEF LedgerIsOwed, Active
      <3> QED
        BY <3>1, <3>2, <3>3
    <2>4. CASE "jobs" \notin made
      <3>1. t.job[j] = s.job[j] /\ t.ledger[j] = s.ledger[j] /\ t.history[j] # "done"
        BY <1>2, <1>3, <1>5, <2>1, <2>2, <2>4
      <3> QED
        BY <1>5, <3>1 DEF RowIsSound, LedgerIsOwed, Active
    <2> QED
      BY <2>3, <2>4
  <1>7. OneActiveRow(t)
    <2>1. ActiveRows(t) \subseteq ActiveRows(s)
      BY <1>3, <1>4, <1>6 DEF ActiveRows, Active
    <2> QED
      BY <1>1, <2>1 DEF OneActiveRow
  <1>8. RowsMove(s, t)
    <2>1. s.job[j].status = "running" \/ (s.job[j].status = "queued" /\ Outcome(success) = "failed")
      BY <1>3, <1>5
    <2>2. <<s.job[j].status, Outcome(success)>> \in Lifecycle!Moves
      BY <1>3, <2>1 DEF Lifecycle!Moves
    <2> QED
      BY <1>4, <1>6, <2>2 DEF RowsMove
  <1> QED
    BY <1>2, <1>4, <1>6, <1>7, <1>8 DEF AtRest

(* How the handlers end a job in memory.                                   *)
LEMMA QueuedEnds ==
  ASSUME NEW m, NEW s, NEW v, InProcess(m, s, v), NEW j \in Jobs, StatusOf(m, j) = "queued",
         NEW n, n = Expired(m, {j}) \/ n = CancelledInQueue(m, j)
  PROVE  Ends(m, n, j, "failed")
  <1>1. /\ m \in Memory /\ IsInjective(m.queue) /\ {j} \in SUBSET Jobs
        /\ m.run[j].stage = "none"
    BY DEF InProcess, JobIsSound, WorksRightly
  <1>2. CASE n = Expired(m, {j})
    <2> DEFINE X == {j}
    <2>1. /\ n \in Memory
          /\ n.phase = m.phase /\ n.run = m.run
          /\ n.unwinding = m.unwinding /\ n.tracked = m.tracked /\ n.awaited = m.awaited
          /\ Range(n.queue) = Range(m.queue) \ X
          /\ IsInjective(m.queue) => IsInjective(n.queue)
          /\ \A k \in Jobs : n.timer[k] = IF k \in X THEN "off" ELSE m.timer[k]
          /\ \A k \in Jobs \ X : n.job[k] = m.job[k]
          /\ \A k \in X : n.job[k].status = "failed" /\ n.job[k].retries = m.job[k].retries
                          /\ n.job[k].recovery = m.job[k].recovery
      <3>1. n = Expired(m, X) /\ X \in SUBSET Jobs
        BY <1>2
      <3> HIDE DEF X
      <3> QED
        BY <1>1, <3>1, ExpiredLemma
    <2> QED
      BY <1>1, <2>1 DEF Ends
  <1>3. CASE n = CancelledInQueue(m, j)
    <2> DEFINE X == {j}
               d == Dequeue(m, X)
               t == SetTimer(d, X, "off")
    <2>0. X \in SUBSET Jobs
      BY <1>1
    <2>a. n = WithStatus(t, j, "failed")
      BY <1>3 DEF CancelledInQueue
    <2>b. j \in X /\ \A k \in Jobs \ {j} : k \notin X
      OBVIOUS
    <2>c. Range(m.queue) \ {j} = Range(m.queue) \ X
      OBVIOUS
    <2> HIDE DEF X
    <2>1. /\ d \in Memory
          /\ d.phase = m.phase /\ d.job = m.job /\ d.timer = m.timer /\ d.run = m.run
          /\ d.unwinding = m.unwinding /\ d.tracked = m.tracked /\ d.awaited = m.awaited
          /\ Range(d.queue) = Range(m.queue) \ X
          /\ IsInjective(m.queue) => IsInjective(d.queue)
      BY <1>1, <2>0, DequeueLemma
    <2> HIDE DEF d
    <2>2. /\ t \in Memory
          /\ t.phase = d.phase /\ t.job = d.job /\ t.queue = d.queue /\ t.run = d.run
          /\ t.unwinding = d.unwinding /\ t.tracked = d.tracked /\ t.awaited = d.awaited
          /\ \A k \in Jobs : t.timer[k] = IF k \in X THEN "off" ELSE d.timer[k]
      BY <2>0, <2>1, SetTimerLemma
    <2> HIDE DEF t
    <2>3. Edits(t, n, j) /\ n.run = t.run /\ n.job[j].status = "failed"
      BY <2>a, <2>2, StatusLemma, StatusesLemma
    <2> QED
      BY <1>1, <2>b, <2>c, <2>1, <2>2, <2>3 DEF Ends, Edits
  <1> QED
    BY <1>2, <1>3

(* A run returns and its job is settled.                                   *)
LEMMA RunEnds ==
  ASSUME NEW m, NEW s, NEW v, InProcess(m, s, v), NEW j \in Jobs, m.run[j].stage # "none",
         NEW status \in {"done", "failed"}, NEW n,
         \/ n = WithStatus(Returned(m, j), j, status)
         \/ \E r \in JobRecord :
              /\ r.status = status
              /\ n = WithJob(WithStatus(Returned(m, j), j, status), j, r)
  PROVE  Ends(m, n, j, status) /\ StatusOf(m, j) = "running"
  <1>1. /\ m \in Memory /\ IsInjective(m.queue)
        /\ StatusOf(m, j) = "running" /\ m.run[j].worker \in Workers
        /\ m.timer[j] = "off" /\ j \notin Range(m.queue)
    BY DEF InProcess, JobIsSound, WorksRightly, WaitsRightly
  <1> DEFINE o == Returned(m, j)
             w == WithStatus(o, j, status)
  <1>2. Edits(m, o, j) /\ o.run[j] = NoRun /\ o.job = m.job
    BY <1>1, ReturnedLemma
  <1> HIDE DEF o
  <1>3. Edits(o, w, j) /\ w.run = o.run /\ w.job[j].status = status
    <2>1. o \in Memory /\ status \in Statuses
      BY <1>2, StatusesLemma DEF Edits
    <2> QED
      BY <2>1, StatusLemma
  <1>4. n = w \/ \E r \in JobRecord : r.status = status /\ n = WithJob(w, j, r)
    BY DEF o
  <1> HIDE DEF w
  <1>5. Edits(m, w, j) /\ w.run[j].stage = "none" /\ w.job[j].status = status
    BY <1>2, <1>3, EditsCompose DEF NoRun
  <1>6. Edits(m, n, j) /\ n.run[j].stage = "none" /\ n.job[j].status = status
    <2>1. CASE n = w
      BY <1>5, <2>1
    <2>2. ASSUME NEW r \in JobRecord, r.status = status, n = WithJob(w, j, r)
          PROVE  Edits(m, n, j) /\ n.run[j].stage = "none" /\ n.job[j].status = status
      <3>1. w \in Memory
        BY <1>5 DEF Edits
      <3>2. Edits(w, n, j) /\ n.job[j] = r /\ n.run = w.run
        BY <2>2, <3>1, EditJobLemma
      <3> QED
        BY <1>5, <2>2, <3>2, EditsCompose
    <2> QED
      BY <1>4, <2>1, <2>2
  <1>7. Range(n.queue) = Range(m.queue) \ {j} /\ n.timer[j] = "off"
    BY <1>1, <1>6 DEF Edits
  <1> QED
    BY <1>1, <1>6, <1>7 DEF Ends, Edits

----------------------------------------------------------------------------
(* The handlers, one by one: what each makes of a process that is sound.   *)

ProcessStep ==
  /\ InProcess(mem', disk', expiredTwins') /\ due' \subseteq ActiveRows(disk')
  /\ RowsMove(disk, disk')

(* Every handler that ends an active job and writes it.                    *)
LEMMA EndsStep ==
  ASSUME InProcess(mem, disk, expiredTwins), due \subseteq ActiveRows(disk),
         NEW j \in Jobs, NEW success \in BOOLEAN,
         StatusOf(mem, j) = "running" \/ (StatusOf(mem, j) = "queued" /\ Outcome(success) = "failed"),
         Ends(mem, mem', j, Outcome(success)),
         NEW p \in Disk, p.ledger = disk.ledger, p.history = disk.history,
         disk' = WriteSettlement(p, mem', {j}, success, AllWrites),
         due' = due \ {j}, expiredTwins' = expiredTwins
  PROVE  ProcessStep
  <1>1. mem' \in Memory /\ {j} \in SUBSET Jobs
    BY DEF Ends
  <1>2. Settles(p, mem', {j}, success, disk')
    BY <1>1, SettlesLemma
  <1>3. /\ InProcess(mem', disk', expiredTwins) /\ ActiveRows(disk') = ActiveRows(disk) \ {j}
        /\ RowsMove(disk, disk')
    BY <1>2, EndLemma, SMTT(20)
  <1> QED
    BY <1>3 DEF ProcessStep

(* cancelQueuedJob settles the job as failed.                              *)
LEMMA CancelQueuedStep ==
  ASSUME InProcess(mem, disk, expiredTwins), due \subseteq ActiveRows(disk),
         NEW j \in Jobs, CancelQueued(j) \/ QueuedDeadlineFires(j)
  PROVE  ProcessStep
  <1>1. StatusOf(mem, j) = "queued"
    BY DEF InProcess, JobIsSound, WaitsRightly, CancelQueued, QueuedDeadlineFires
  <1>2. /\ mem' = Expired(mem, {j}) \/ mem' = CancelledInQueue(mem, j)
        /\ disk' = WriteSettlement(disk, mem', {j}, FALSE, AllWrites)
        /\ due' = due \ {j} /\ expiredTwins' = expiredTwins
    BY DEF CancelQueued, QueuedDeadlineFires
  <1>3. Ends(mem, mem', j, Outcome(FALSE))
    BY <1>1, <1>2, QueuedEnds DEF Outcome
  <1>4. /\ disk \in Disk /\ disk.ledger = disk.ledger /\ disk.history = disk.history
        /\ StatusOf(mem, j) = "queued" /\ Outcome(FALSE) = "failed"
    BY <1>1 DEF InProcess, Outcome
  <1> QED
    BY <1>2, <1>3, <1>4, EndsStep

(* The end of a run that published its artifact.                           *)
LEMMA SuccessEnds ==
  ASSUME InProcess(mem, disk, expiredTwins), NEW j \in Jobs, mem.run[j].stage # "none"
  PROVE  Ends(mem, Succeeded(mem, j), j, "done") /\ StatusOf(mem, j) = "running"
  <1> DEFINE w == WithStatus(Returned(mem, j), j, "done")
             r == [w.job[j] EXCEPT !.recovery = FALSE]
  <1>1. r \in JobRecord /\ r.status = "done"
    <2>1. mem \in Memory /\ mem.run[j].worker \in Workers
      BY DEF InProcess, JobIsSound, WorksRightly
    <2>2. Returned(mem, j) \in Memory
      BY <2>1, ReturnedLemma DEF Edits
    <2>3. w \in Memory /\ w.job[j].status = "done"
      BY <2>2, StatusLemma, StatusesLemma DEF Edits
    <2>4. w.job[j] \in JobRecord
      BY <2>3 DEF Memory
    <2> QED
      BY <2>3, <2>4 DEF JobRecord
  <1>2. Succeeded(mem, j) = WithJob(WithStatus(Returned(mem, j), j, "done"), j, r)
    BY DEF Succeeded, WithJob
  <1> HIDE DEF r, Succeeded
  <1>3. "done" \in {"done", "failed"}
    OBVIOUS
  <1> QED
    BY <1>1, <1>2, <1>3, RunEnds

(* A run that has published settles its job as done.                       *)
LEMMA RunSucceedsStep ==
  ASSUME InProcess(mem, disk, expiredTwins), due \subseteq ActiveRows(disk),
         NEW j \in Jobs, RunSucceeds(j)
  PROVE  ProcessStep
  <1> DEFINE p == Promoted(disk, j)
  <1>1. /\ mem.run[j].stage # "none" /\ mem' = Succeeded(mem, j)
        /\ disk' = WriteSettlement(p, mem', {j}, TRUE, AllWrites)
        /\ due' = due \ {j} /\ expiredTwins' = expiredTwins
    BY DEF RunSucceeds
  <1>2. p \in Disk /\ p.ledger = disk.ledger /\ p.history = disk.history
    BY AttributesAssumption DEF InProcess, Disk, Promoted
  <1> HIDE DEF p
  <1>3. Ends(mem, Succeeded(mem, j), j, "done") /\ StatusOf(mem, j) = "running"
    BY <1>1, SuccessEnds
  <1>4. Ends(mem, mem', j, Outcome(TRUE))
    BY <1>1, <1>3 DEF Outcome
  <1> QED
    BY <1>1, <1>2, <1>3, <1>4, EndsStep

(* A run that has failed settles its job as failed.                        *)
LEMMA RunFailsStep ==
  ASSUME InProcess(mem, disk, expiredTwins), due \subseteq ActiveRows(disk),
         NEW j \in Jobs, mem.run[j].stage # "none", expiredTwins' = expiredTwins,
         \/ mem' = Failed(mem, j)
         \/ mem' = [Failed(mem, j) EXCEPT !.job[j].late = TRUE],
         disk' = WriteSettlement(disk, mem', {j}, FALSE, AllWrites), due' = due \ {j}
  PROVE  ProcessStep
  <1> DEFINE f == WithStatus(Returned(mem, j), j, "failed")
             r == [f.job[j] EXCEPT !.late = TRUE]
  <1>1. r \in JobRecord /\ r.status = "failed"
    <2>1. mem \in Memory /\ mem.run[j].worker \in Workers
      BY DEF InProcess, JobIsSound, WorksRightly
    <2>2. Returned(mem, j) \in Memory
      BY <2>1, ReturnedLemma DEF Edits
    <2>3. f \in Memory /\ f.job[j].status = "failed"
      BY <2>2, StatusLemma, StatusesLemma DEF Edits
    <2>4. f.job[j] \in JobRecord
      BY <2>3 DEF Memory
    <2> QED
      BY <2>3, <2>4 DEF JobRecord
  <1>2. mem' = f \/ mem' = WithJob(f, j, r)
    BY DEF Failed, WithJob
  <1> HIDE DEF r
  <1>3. Ends(mem, mem', j, "failed") /\ StatusOf(mem, j) = "running"
    BY <1>1, <1>2, RunEnds
  <1>4. Ends(mem, mem', j, Outcome(FALSE)) /\ disk \in Disk
    BY <1>3 DEF Outcome, InProcess
  <1> QED
    BY <1>3, <1>4, EndsStep

(* A handler that edits a job and leaves its status alone.                 *)
SameStatus(m, n, j) ==
  /\ Edits(m, n, j)
  /\ n.job[j].status = m.job[j].status /\ n.job[j].recovery = m.job[j].recovery
  /\ n.job[j].tried = m.job[j].tried
  /\ n.run[j].stage = "none" <=> m.run[j].stage = "none"
  /\ n.run[j].worker = m.run[j].worker
  /\ n.run[j].stage = "backoff" => n.job[j].retries < MaxRetries

(* The rows are as they were, or they are memory's.                        *)
OnlyRows(s, n, t) ==
  /\ t \in Disk /\ t.ledger = s.ledger /\ t.history = s.history
  /\ t.job = s.job \/ t.job = n.job

(* Job j is edited in its status, and its row at most follows.             *)
LEMMA SameStatusLemma ==
  ASSUME NEW m, NEW s, NEW v, InProcess(m, s, v), NEW j \in Jobs,
         NEW n, SameStatus(m, n, j), NEW t, OnlyRows(s, n, t)
  PROVE  InProcess(n, t, v) /\ ActiveRows(t) = ActiveRows(s) /\ RowsMove(s, t)
  <1>1. m \in Memory /\ m.phase # "down" /\ IsInjective(m.queue) /\ s \in Disk /\ JobIsSound(m, s, v, j)
    BY DEF InProcess
  <1>2. /\ StatusOf(n, j) = StatusOf(m, j) /\ s.job[j].status = StatusOf(m, j)
        /\ t.job[j].status = StatusOf(m, j)
    BY <1>1 DEF SameStatus, OnlyRows, StatusOf, JobIsSound, RowIsCurrent
  <1>3. ASSUME NEW k \in Jobs \ {j} PROVE Untouched(m, s, n, t, k)
    BY DEF SameStatus, Edits, OnlyRows, Untouched
  <1>4. WaitsRightly(n, v, j)
    BY <1>1, <1>2 DEF JobIsSound, WaitsRightly, SameStatus, Edits
  <1>5. WorksRightly(n, j)
    BY <1>1, <1>2 DEF JobIsSound, WorksRightly, SameStatus, Edits, StatusOf
  <1>6. RowIsSound(t, j)
    <2>1. n.job[j].recovery => StatusOf(m, j) # "queued"
      BY <1>2, <1>5 DEF WorksRightly, Active
    <2>2. s.job[j].recovery => StatusOf(m, j) # "queued"
      BY <1>1, <1>2 DEF JobIsSound, RowIsSound
    <2>3. t.job[j].recovery => t.job[j].status # "queued"
      BY <1>2, <2>1, <2>2 DEF OnlyRows
    <2>4. t.job[j].status = "absent" => ~t.job[j].tried
      BY <1>1, <1>2, <1>5 DEF OnlyRows, JobIsSound, RowIsSound, WorksRightly
    <2> QED
      BY <1>1, <1>2, <2>3, <2>4 DEF JobIsSound, RowIsSound, OnlyRows
  <1>7. LedgerIsExact(n, t, v, j) /\ RowIsCurrent(n, t, j)
    <2>1. LedgerIsExact(n, t, v, j)
      BY <1>1, <1>2 DEF JobIsSound, LedgerIsExact, OnlyRows
    <2>2. RowIsCurrent(n, t, j)
      BY <1>1, <1>2, <1>5 DEF JobIsSound, WorksRightly, RowIsCurrent, SameStatus, Edits, OnlyRows
    <2> QED
      BY <2>1, <2>2
  <1>8. JobIsSound(n, t, v, j)
    BY <1>4, <1>5, <1>6, <1>7 DEF JobIsSound
  <1>9. {j} \cap ActiveRows(t) \subseteq ActiveRows(s)
    BY <1>2 DEF ActiveRows
  <1>10. Handles(m, s, v, n, t, v, {j})
    BY <1>1, <1>3, <1>8, <1>9 DEF Handles, SameStatus, Edits, OnlyRows
  <1>11. InProcess(n, t, v)
    BY <1>10, StepLemma
  <1>12. \A k \in Jobs : t.job[k].status = s.job[k].status
    BY <1>2, <1>3 DEF InProcess, Untouched, JobIsSound, RowIsCurrent, StatusOf
  <1> QED
    BY <1>11, <1>12 DEF ActiveRows, RowsMove

(* A step of the process that is such an edit.                             *)
LEMMA SameStatusStep ==
  ASSUME InProcess(mem, disk, expiredTwins), due \subseteq ActiveRows(disk),
         NEW j \in Jobs, SameStatus(mem, mem', j), OnlyRows(disk, mem', disk'),
         due' \subseteq due, expiredTwins' = expiredTwins
  PROVE  ProcessStep
  <1>1. InProcess(mem', disk', expiredTwins) /\ ActiveRows(disk') = ActiveRows(disk) /\ RowsMove(disk, disk')
    BY SameStatusLemma
  <1> QED
    BY <1>1 DEF ProcessStep

(* Edits of the record alone, and of the run alone.                        *)
LEMMA RecordEdit ==
  ASSUME NEW m, NEW s, NEW v, InProcess(m, s, v), NEW j \in Jobs, NEW r \in JobRecord,
         r.status = m.job[j].status, r.recovery = m.job[j].recovery, r.retries = m.job[j].retries,
         r.tried = m.job[j].tried,
         NEW n, n = WithJob(m, j, r)
  PROVE  SameStatus(m, n, j)
  <1>1. m \in Memory /\ (m.run[j].stage = "backoff" => m.job[j].retries < MaxRetries)
    BY DEF InProcess, JobIsSound, WorksRightly
  <1>2. Edits(m, n, j) /\ n.job[j] = r /\ n.run = m.run
    BY <1>1, EditJobLemma
  <1> QED
    BY <1>1, <1>2 DEF SameStatus

WithStage(m, j, stage) == [m EXCEPT !.run[j].stage = stage]

(* The run of j reaches another stage.                                     *)
LEMMA StageEdit ==
  ASSUME NEW m, NEW s, NEW v, InProcess(m, s, v), NEW j \in Jobs, m.run[j].stage # "none",
         NEW stage \in Stages \ {"none"}, stage = "backoff" => m.job[j].retries < MaxRetries,
         NEW n, n = WithStage(m, j, stage)
  PROVE  SameStatus(m, n, j)
  <1> DEFINE q == [m.run[j] EXCEPT !.stage = stage]
             u == m.unwinding
  <1>1. m \in Memory
    BY DEF InProcess
  <1>2. q \in RunRecord /\ q.stage = stage /\ q.worker = m.run[j].worker
    <2>1. m.run[j] \in RunRecord
      BY <1>1 DEF Memory, RunRecord
    <2> QED
      BY <2>1 DEF RunRecord
  <1>3. u \in SUBSET (Jobs \X Workers)
    BY <1>1 DEF Memory
  <1>4. n = WithRun(m, j, q, u)
    BY <1>1 DEF WithRun, WithStage, Memory
  <1> HIDE DEF q, u
  <1>5. Edits(m, n, j) /\ n.run[j] = q /\ n.job = m.job
    BY <1>1, <1>2, <1>3, <1>4, EditRunLemma
  <1> QED
    BY <1>2, <1>5 DEF SameStatus

(* cancelRunningJob only marks the job.                                    *)
LEMMA CancelRunningStep ==
  ASSUME InProcess(mem, disk, expiredTwins), due \subseteq ActiveRows(disk),
         NEW j \in Jobs, CancelRunning(j)
  PROVE  ProcessStep
  <1> DEFINE r == [mem.job[j] EXCEPT !.cancelled = TRUE]
  <1>1. mem \in Memory /\ disk \in Disk
    BY DEF InProcess
  <1>2. /\ r \in JobRecord /\ r.status = mem.job[j].status
        /\ r.recovery = mem.job[j].recovery /\ r.retries = mem.job[j].retries
        /\ r.tried = mem.job[j].tried
    <2>1. mem.job[j] \in JobRecord
      BY <1>1 DEF Memory
    <2> QED
      BY <2>1 DEF JobRecord
  <1>3. /\ mem' = WithJob(mem, j, r)
        /\ disk' = PersistJobs(disk, mem') /\ due' = due /\ expiredTwins' = expiredTwins
    BY DEF CancelRunning, WithJob
  <1> HIDE DEF r
  <1>4. SameStatus(mem, mem', j)
    BY <1>2, <1>3, RecordEdit
  <1>5. mem' \in Memory
    BY <1>4 DEF SameStatus, Edits
  <1>6. OnlyRows(disk, mem', disk')
    BY <1>1, <1>3, <1>5, PersistLemma DEF OnlyRows
  <1> QED
    BY <1>3, <1>4, <1>6, SameStatusStep

(* The deadline of a run only marks the job.                               *)
LEMMA RunDeadlineStep ==
  ASSUME InProcess(mem, disk, expiredTwins), due \subseteq ActiveRows(disk),
         NEW j \in Jobs, RunDeadlineFires(j)
  PROVE  ProcessStep
  <1> DEFINE r == [mem.job[j] EXCEPT !.late = TRUE]
  <1>1. mem \in Memory /\ disk \in Disk
    BY DEF InProcess
  <1>2. /\ r \in JobRecord /\ r.status = mem.job[j].status
        /\ r.recovery = mem.job[j].recovery /\ r.retries = mem.job[j].retries
        /\ r.tried = mem.job[j].tried
    <2>1. mem.job[j] \in JobRecord
      BY <1>1 DEF Memory
    <2> QED
      BY <2>1 DEF JobRecord
  <1>3. /\ mem' = WithJob(mem, j, r)
        /\ disk' = disk /\ due' = due /\ expiredTwins' = expiredTwins
    BY DEF RunDeadlineFires, WithJob
  <1> HIDE DEF r
  <1>4. SameStatus(mem, mem', j)
    BY <1>2, <1>3, RecordEdit
  <1>5. OnlyRows(disk, mem', disk')
    BY <1>1, <1>3 DEF OnlyRows
  <1> QED
    BY <1>3, <1>4, <1>5, SameStatusStep

(* The last check before the artifact is promoted moves the run on.        *)
LEMMA LastCheckStep ==
  ASSUME InProcess(mem, disk, expiredTwins), due \subseteq ActiveRows(disk),
         NEW j \in Jobs, LastCheck(j)
  PROVE  ProcessStep
  <1>1. /\ mem.run[j].stage # "none" /\ mem' = WithStage(mem, j, "publish")
        /\ disk' = disk /\ due' = due /\ expiredTwins' = expiredTwins
    BY DEF LastCheck, WithStage
  <1>2. "publish" \in Stages \ {"none"}
    BY DEF Stages
  <1>3. SameStatus(mem, mem', j)
    BY <1>1, <1>2, StageEdit
  <1>4. OnlyRows(disk, mem', disk')
    BY <1>1 DEF OnlyRows, InProcess
  <1> QED
    BY <1>1, <1>3, <1>4, SameStatusStep

(* A run that throws has its staging file removed, artifact or not.        *)
LEMMA RunThrowsStep ==
  ASSUME InProcess(mem, disk, expiredTwins), due \subseteq ActiveRows(disk),
         NEW j \in Jobs, RunThrows(j)
  PROVE  ProcessStep
  <1>1. PICK noticed \in BOOLEAN :
          mem' = [mem EXCEPT !.run[j].stage = "cleanup", !.job[j].late = @ \/ (noticed /\ j \in due)]
    BY DEF RunThrows
  <1>2. /\ mem.run[j].stage # "none"
        /\ disk' = disk \/ disk' = Promoted(disk, j)
        /\ due' = due /\ expiredTwins' = expiredTwins
    BY DEF RunThrows
  <1>3. mem \in Memory /\ disk \in Disk
    BY DEF InProcess
  <1> DEFINE late == mem.job[j].late \/ (noticed /\ j \in due)
             r == [mem.job[j] EXCEPT !.late = late]
             q == [mem.run[j] EXCEPT !.stage = "cleanup"]
             jobs == [mem.job EXCEPT ![j] = r]
             runs == [mem.run EXCEPT ![j] = q]
  <1>4. mem' = [mem EXCEPT !.run = runs, !.job = jobs]
    BY <1>1
  <1>5. /\ r \in JobRecord /\ r.status = mem.job[j].status /\ r.recovery = mem.job[j].recovery
        /\ r.tried = mem.job[j].tried
    <2>1. mem.job[j] \in JobRecord
      BY <1>3 DEF Memory
    <2>2. late \in BOOLEAN
      BY <2>1 DEF JobRecord
    <2> HIDE DEF late
    <2> QED
      BY <2>1, <2>2 DEF JobRecord
  <1>6. q \in RunRecord /\ q.stage = "cleanup" /\ q.worker = mem.run[j].worker
    <2>1. mem.run[j] \in RunRecord
      BY <1>3 DEF Memory, RunRecord
    <2> QED
      BY <2>1 DEF RunRecord, Stages
  <1> HIDE DEF r, q
  <1>7. /\ jobs \in [Jobs -> JobRecord] /\ runs \in [Jobs -> RunRecord]
        /\ jobs[j] = r /\ runs[j] = q
        /\ \A k \in Jobs \ {j} : jobs[k] = mem.job[k] /\ runs[k] = mem.run[k]
    BY <1>3, <1>5, <1>6 DEF Memory, RunRecord
  <1> HIDE DEF jobs, runs
  <1>8. /\ mem' \in Memory /\ mem'.job = jobs /\ mem'.run = runs
        /\ mem'.phase = mem.phase /\ mem'.queue = mem.queue /\ mem'.timer = mem.timer
        /\ mem'.tracked = mem.tracked /\ mem'.awaited = mem.awaited
    BY <1>3, <1>4, <1>7 DEF Memory, RunRecord
  <1>9. SameStatus(mem, mem', j)
    BY <1>2, <1>5, <1>6, <1>7, <1>8 DEF SameStatus, Edits
  <1>10. OnlyRows(disk, mem', disk')
    BY <1>2, <1>3, AttributesAssumption DEF OnlyRows, Promoted, Disk
  <1> QED
    BY <1>2, <1>9, <1>10, SameStatusStep

(* A running job goes back to the queue.                                   *)
Requeues(m, n, j) ==
  /\ n \in Memory /\ n.phase = m.phase
  /\ IsInjective(n.queue) /\ Range(n.queue) = Range(m.queue) \cup {j}
  /\ n.run[j].stage = "none" /\ n.job[j].status = "queued" /\ ~n.job[j].recovery
  /\ m.phase = "up" => n.timer[j] # "off"
  /\ \A k \in Jobs \ {j} : n.job[k] = m.job[k] /\ n.run[k] = m.run[k] /\ n.timer[k] = m.timer[k]

(* A running job goes back into the queue and its row follows.             *)
LEMMA RequeuesStep ==
  ASSUME InProcess(mem, disk, expiredTwins), due \subseteq ActiveRows(disk),
         NEW j \in Jobs, StatusOf(mem, j) = "running", Requeues(mem, mem', j),
         disk' = PersistJobs(disk, mem'), due' \subseteq due, expiredTwins' = expiredTwins
  PROVE  ProcessStep
  <1>1. mem \in Memory /\ mem.phase # "down" /\ disk \in Disk /\ JobIsSound(mem, disk, expiredTwins, j)
    BY DEF InProcess
  <1>2. /\ disk' \in Disk /\ disk'.job = mem'.job
        /\ disk'.ledger = disk.ledger /\ disk'.history = disk.history
    BY <1>1, PersistLemma DEF Requeues
  <1>3. ASSUME NEW k \in Jobs \ {j} PROVE Untouched(mem, disk, mem', disk', k)
    BY <1>2 DEF Requeues, Untouched
  <1>4. /\ StatusOf(mem', j) = "queued" /\ disk'.job[j].status = "queued"
        /\ disk.job[j].status = "running"
    BY <1>1, <1>2 DEF Requeues, StatusOf, JobIsSound, RowIsCurrent
  <1>5. WaitsRightly(mem', expiredTwins, j) /\ WorksRightly(mem', j)
    BY <1>4 DEF WaitsRightly, WorksRightly, Requeues
  <1>6. RowIsSound(disk', j) /\ RowIsCurrent(mem', disk', j)
    BY <1>1, <1>2, <1>4 DEF JobIsSound, RowIsSound, RowIsCurrent, Requeues
  <1>7. LedgerIsExact(mem', disk', expiredTwins, j)
    BY <1>1, <1>2, <1>4 DEF JobIsSound, LedgerIsExact, Active
  <1>8. JobIsSound(mem', disk', expiredTwins, j)
    BY <1>5, <1>6, <1>7 DEF JobIsSound
  <1>9. {j} \cap ActiveRows(disk') \subseteq ActiveRows(disk)
    BY <1>4 DEF ActiveRows, Active
  <1>10. Handles(mem, disk, expiredTwins, mem', disk', expiredTwins, {j})
    BY <1>1, <1>2, <1>3, <1>8, <1>9 DEF Handles, Requeues
  <1>11. InProcess(mem', disk', expiredTwins)
    BY <1>10, StepLemma
  <1>12. \A k \in Jobs \ {j} : disk'.job[k].status = disk.job[k].status
    BY <1>3 DEF InProcess, Untouched, JobIsSound, RowIsCurrent, StatusOf
  <1>13. ActiveRows(disk') = ActiveRows(disk)
    BY <1>4, <1>12 DEF ActiveRows, Active
  <1>14. RowsMove(disk, disk')
    BY <1>4, <1>12 DEF RowsMove, Lifecycle!Moves
  <1> QED
    BY <1>11, <1>13, <1>14 DEF ProcessStep

(* persistShutdownRecovery puts an aborted run back into the queue.        *)
LEMMA RunRecoversStep ==
  ASSUME InProcess(mem, disk, expiredTwins), due \subseteq ActiveRows(disk),
         NEW j \in Jobs, mem.run[j].stage # "none", RunRecovers(j), expiredTwins' = expiredTwins
  PROVE  ProcessStep
  <1> DEFINE o == Returned(mem, j)
             r == Recovered(mem.job[j])
             w == WithJob(o, j, r)
  <1>1. /\ mem \in Memory /\ IsInjective(mem.queue) /\ mem.run[j].worker \in Workers
        /\ StatusOf(mem, j) = "running" /\ j \notin Range(mem.queue)
        /\ mem.job[j].recovery
    BY DEF InProcess, JobIsSound, WorksRightly, WaitsRightly, RunRecovers
  <1>2. mem.phase # "up"
    BY <1>1 DEF InProcess, JobIsSound, WorksRightly, Active
  <1>3. r \in JobRecord /\ r.status = "queued" /\ ~r.recovery
    <2>1. mem.job[j] \in JobRecord
      BY <1>1 DEF Memory
    <2> QED
      BY <2>1 DEF JobRecord, Recovered, Statuses, Active
  <1>4. Edits(mem, o, j) /\ o.run[j] = NoRun /\ o.job = mem.job
    BY <1>1, ReturnedLemma
  <1>5. /\ mem' = InsertByPriority(w, j)
        /\ disk' = PersistJobs(disk, mem') /\ due' \subseteq due
    <2>1. mem' = InsertByPriority([o EXCEPT !.job[j] = Recovered(o.job[j])], j)
      BY DEF RunRecovers
    <2> HIDE DEF o
    <2>2. w = [o EXCEPT !.job[j] = Recovered(o.job[j])]
      BY <1>4 DEF WithJob
    <2> QED
      BY <2>1, <2>2 DEF RunRecovers
  <1> HIDE DEF o, r
  <1>6. Edits(o, w, j) /\ w.job[j] = r /\ w.run = o.run
    <2>1. o \in Memory
      BY <1>4 DEF Edits
    <2> QED
      BY <1>3, <2>1, EditJobLemma
  <1> HIDE DEF w
  <1>7. Edits(mem, w, j) /\ w.job[j] = r /\ w.run[j].stage = "none"
    BY <1>4, <1>6, EditsCompose DEF NoRun
  <1>8. /\ mem' \in Memory
        /\ mem'.phase = w.phase /\ mem'.job = w.job /\ mem'.timer = w.timer /\ mem'.run = w.run
        /\ Range(mem'.queue) = Range(w.queue) \cup {j}
        /\ IsInjective(w.queue) /\ j \notin Range(w.queue) => IsInjective(mem'.queue)
    <2>1. w \in Memory
      BY <1>7 DEF Edits
    <2> QED
      BY <1>5, <2>1, RequeueLemma
  <1>9. Requeues(mem, mem', j)
    BY <1>1, <1>2, <1>3, <1>7, <1>8 DEF Requeues, Edits
  <1> QED
    BY <1>1, <1>5, <1>9, RequeuesStep

(* A failed server-side attempt goes back into the queue for a device.     *)
LEMMA FallsBackStep ==
  ASSUME InProcess(mem, disk, expiredTwins), due \subseteq ActiveRows(disk),
         NEW j \in Jobs, mem.run[j].stage # "none", ~mem.job[j].recovery,
         FallsBack(j), expiredTwins' = expiredTwins
  PROVE  ProcessStep
  <1> DEFINE o == Returned(mem, j)
             w == WithStatus(o, j, "queued")
             q == Requeue(w, j)
             X == {j}
  <1>1. /\ mem \in Memory /\ IsInjective(mem.queue) /\ mem.run[j].worker \in Workers
        /\ StatusOf(mem, j) = "running" /\ j \notin Range(mem.queue)
    BY DEF InProcess, JobIsSound, WorksRightly, WaitsRightly
  <1>2. /\ mem' = SetTimer(q, X, "live")
        /\ disk' = PersistJobs(disk, mem') /\ due' = due
    BY DEF FallsBack
  <1>3. Edits(mem, o, j) /\ o.run[j] = NoRun /\ o.job = mem.job
    BY <1>1, ReturnedLemma
  <1> HIDE DEF o
  <1>4. Edits(o, w, j) /\ w.run = o.run /\ w.job[j].status = "queued" /\ w.job[j].recovery = o.job[j].recovery
    <2>1. o \in Memory /\ "queued" \in Statuses
      BY <1>3, StatusesLemma DEF Edits
    <2> QED
      BY <2>1, StatusLemma
  <1> HIDE DEF w
  <1>5. /\ Edits(mem, w, j) /\ w.job[j].status = "queued" /\ ~w.job[j].recovery
        /\ w.run[j].stage = "none"
    BY <1>3, <1>4, EditsCompose DEF NoRun
  <1>6. /\ q \in Memory
        /\ q.phase = w.phase /\ q.job = w.job /\ q.timer = w.timer /\ q.run = w.run
        /\ Range(q.queue) = Range(w.queue) \cup {j}
        /\ IsInjective(w.queue) /\ j \notin Range(w.queue) => IsInjective(q.queue)
    <2>1. w \in Memory
      BY <1>5 DEF Edits
    <2> QED
      BY <2>1, RequeueLemma
  <1>7. X \in SUBSET Jobs /\ j \in X /\ \A k \in Jobs \ {j} : k \notin X
    OBVIOUS
  <1> HIDE DEF q, X
  <1>8. /\ mem' \in Memory
        /\ mem'.phase = q.phase /\ mem'.job = q.job /\ mem'.queue = q.queue /\ mem'.run = q.run
        /\ \A k \in Jobs : mem'.timer[k] = IF k \in X THEN "live" ELSE q.timer[k]
    BY <1>2, <1>6, <1>7, SetTimerLemma
  <1>9. Requeues(mem, mem', j)
    BY <1>1, <1>5, <1>6, <1>7, <1>8 DEF Requeues, Edits
  <1> QED
    BY <1>1, <1>2, <1>9, RequeuesStep

(* The retry counter is below its limit when the backoff ends.             *)
Retried(m, j) == [m EXCEPT !.job[j].retries = @ + 1, !.run[j].stage = "work"]

(* The backoff is over and the next attempt begins.                        *)
LEMMA RetryStep ==
  ASSUME InProcess(mem, disk, expiredTwins), due \subseteq ActiveRows(disk),
         NEW j \in Jobs, mem.run[j].stage = "backoff",
         mem' = Retried(mem, j),
         disk' = PersistJobs(disk, mem'), due' = due, expiredTwins' = expiredTwins
  PROVE  ProcessStep
  <1> DEFINE r == [mem.job[j] EXCEPT !.retries = mem.job[j].retries + 1]
             q == [mem.run[j] EXCEPT !.stage = "work"]
             jobs == [mem.job EXCEPT ![j] = r]
             runs == [mem.run EXCEPT ![j] = q]
  <1>1. mem \in Memory /\ disk \in Disk /\ mem.job[j].retries < MaxRetries
    BY DEF InProcess, JobIsSound, WorksRightly
  <1>2. mem' = [mem EXCEPT !.job = jobs, !.run = runs]
    BY DEF Retried
  <1>3. /\ r \in JobRecord /\ r.status = mem.job[j].status /\ r.recovery = mem.job[j].recovery
        /\ r.tried = mem.job[j].tried
    <2>1. mem.job[j] \in JobRecord
      BY <1>1 DEF Memory
    <2>2. mem.job[j].retries + 1 \in 0..MaxRetries
      BY <1>1, <2>1, LimitsAssumption DEF JobRecord
    <2> QED
      BY <2>1, <2>2 DEF JobRecord
  <1>4. q \in RunRecord /\ q.stage = "work" /\ q.worker = mem.run[j].worker
    <2>1. mem.run[j] \in RunRecord
      BY <1>1 DEF Memory, RunRecord
    <2> QED
      BY <2>1 DEF RunRecord, Stages
  <1> HIDE DEF r, q
  <1>5. /\ jobs \in [Jobs -> JobRecord] /\ runs \in [Jobs -> RunRecord]
        /\ jobs[j] = r /\ runs[j] = q
        /\ \A k \in Jobs \ {j} : jobs[k] = mem.job[k] /\ runs[k] = mem.run[k]
    BY <1>1, <1>3, <1>4 DEF Memory, RunRecord
  <1> HIDE DEF jobs, runs
  <1>6. /\ mem' \in Memory /\ mem'.job = jobs /\ mem'.run = runs
        /\ mem'.phase = mem.phase /\ mem'.queue = mem.queue /\ mem'.timer = mem.timer
        /\ mem'.tracked = mem.tracked /\ mem'.awaited = mem.awaited
    BY <1>1, <1>2, <1>5 DEF Memory, RunRecord
  <1>7. SameStatus(mem, mem', j)
    BY <1>3, <1>4, <1>5, <1>6 DEF SameStatus, Edits
  <1>8. OnlyRows(disk, mem', disk')
    BY <1>1, <1>6, PersistLemma DEF OnlyRows
  <1> QED
    BY <1>7, <1>8, SameStatusStep

(* The catch block of runOneJob.                                           *)
LEMMA ErrorHandledStep ==
  ASSUME InProcess(mem, disk, expiredTwins), due \subseteq ActiveRows(disk),
         NEW j \in Jobs, ErrorHandled(j)
  PROVE  ProcessStep
  <1>1. mem.run[j].stage # "none" /\ expiredTwins' = expiredTwins
    BY DEF ErrorHandled
  <1>2. CASE RunRecovers(j)
    BY <1>1, <1>2, RunRecoversStep
  <1>3. CASE ~mem.job[j].recovery /\ FallsBack(j)
    BY <1>1, <1>3, FallsBackStep
  <1>4. CASE RunFails(j)
    BY <1>1, <1>4, RunFailsStep DEF RunFails
  <1>5. CASE /\ MayRetry(j) /\ mem' = [mem EXCEPT !.run[j].stage = "backoff"]
             /\ disk' = PersistJobs(disk, mem) /\ due' = due
    <2>1. "backoff" \in Stages \ {"none"} /\ mem.job[j].retries < MaxRetries
      BY <1>5 DEF Stages, MayRetry
    <2>2. mem' = WithStage(mem, j, "backoff")
      BY <1>5 DEF WithStage
    <2>3. SameStatus(mem, mem', j)
      BY <1>1, <2>1, <2>2, StageEdit
    <2>4. mem \in Memory /\ disk \in Disk
      BY DEF InProcess
    <2>5. mem'.job = mem.job
      BY <1>5, <2>4 DEF Memory
    <2>6. OnlyRows(disk, mem', disk')
      BY <1>5, <2>4, <2>5, PersistLemma DEF OnlyRows
    <2> QED
      BY <1>1, <1>5, <2>3, <2>6, SameStatusStep
  <1> QED
    BY <1>2, <1>3, <1>4, <1>5 DEF ErrorHandled

(* The end of a backoff, by itself or aborted.                             *)
LEMMA BackoffEndsStep ==
  ASSUME InProcess(mem, disk, expiredTwins), due \subseteq ActiveRows(disk),
         NEW j \in Jobs, BackoffEnds(j)
  PROVE  ProcessStep
  <1>1. mem.run[j].stage = "backoff" /\ mem.run[j].stage # "none" /\ expiredTwins' = expiredTwins
    BY DEF BackoffEnds
  <1>2. CASE RunFails(j)
    BY <1>1, <1>2, RunFailsStep DEF RunFails
  <1>3. CASE RunRecovers(j)
    BY <1>1, <1>3, RunRecoversStep
  <1>4. CASE /\ mem' = [Failed(mem, j) EXCEPT !.job[j].late = TRUE]
             /\ disk' = WriteSettlement(disk, mem', {j}, FALSE, AllWrites)
             /\ due' = due \ {j}
    BY <1>1, <1>4, RunFailsStep
  <1>5. CASE /\ mem' = [mem EXCEPT !.job[j].retries = @ + 1, !.run[j].stage = "work"]
             /\ disk' = PersistJobs(disk, mem') /\ due' = due
    BY <1>1, <1>5, RetryStep DEF Retried
  <1> QED
    BY <1>2, <1>3, <1>4, <1>5 DEF BackoffEnds

(* The record of a job that does not exist yet.                            *)
LEMMA AbsentLemma ==
  /\ Absent \in JobRecord /\ Absent.status = "absent" /\ ~Absent.recovery /\ ~Absent.tried
  /\ Gone \in JobRecord /\ Gone.status = "gone"
  <1>1. MaxRetries \in Nat /\ 0 \in 0..MaxRetries
    BY LimitsAssumption
  <1>2. Absent \in JobRecord /\ Absent.status = "absent" /\ ~Absent.recovery /\ ~Absent.tried
    BY <1>1 DEF JobRecord, Absent, Statuses
  <1>3. Gone \in JobRecord /\ Gone.status = "gone"
    BY <1>2 DEF JobRecord, Gone, Statuses
  <1> QED
    BY <1>2, <1>3

(* A job whose build is in the store is created settled; a settled job is  *)
(* swept.                                                                  *)
LEMMA EnqueueCachedStep ==
  ASSUME InProcess(mem, disk, expiredTwins), due \subseteq ActiveRows(disk),
         NEW j \in Jobs, EnqueueCached(j)
  PROVE  ProcessStep
  <1> DEFINE r == [Absent EXCEPT !.status = "cached"]
             p == PersistJobs(disk, mem')
             X == {j}
  <1>1. /\ mem \in Memory /\ mem.phase # "down" /\ IsInjective(mem.queue) /\ disk \in Disk
        /\ JobIsSound(mem, disk, expiredTwins, j) /\ StatusOf(mem, j) = "absent"
    BY DEF InProcess, EnqueueCached
  <1>2. /\ mem' = WithJob(mem, j, r)
        /\ disk' = RecordJobHistory(p, X, "done") /\ due' = due /\ expiredTwins' = expiredTwins
    BY DEF EnqueueCached, WithJob
  <1>3. r \in JobRecord /\ r.status = "cached"
    BY AbsentLemma DEF JobRecord, Statuses, Settled
  <1> HIDE DEF r
  <1>4. Edits(mem, mem', j) /\ mem'.job[j] = r /\ mem'.run = mem.run
    BY <1>1, <1>2, <1>3, EditJobLemma
  <1>5. mem' \in Memory
    BY <1>4 DEF Edits
  <1>6. p \in Disk /\ p.job = mem'.job /\ p.ledger = disk.ledger /\ p.history = disk.history
    BY <1>1, <1>5, PersistLemma
  <1>7. X \in SUBSET Jobs /\ j \in X /\ \A k \in Jobs \ {j} : k \notin X
    OBVIOUS
  <1> HIDE DEF p, X
  <1>8. /\ disk' \in Disk /\ disk'.job = mem'.job /\ disk'.ledger = disk.ledger
        /\ \A k \in Jobs : disk'.history[k] = IF k \in X THEN "done" ELSE disk.history[k]
    BY <1>2, <1>6, <1>7, HistoryLemma
  <1>9. ASSUME NEW k \in Jobs \ {j} PROVE Untouched(mem, disk, mem', disk', k)
    BY <1>4, <1>7, <1>8 DEF Edits, Untouched
  <1>10. /\ StatusOf(mem', j) = "cached" /\ disk'.job[j].status = "cached"
         /\ disk.job[j].status = "absent"
    BY <1>1, <1>3, <1>4, <1>8 DEF StatusOf, JobIsSound, RowIsCurrent
  <1>11. WaitsRightly(mem', expiredTwins, j) /\ WorksRightly(mem', j)
    BY <1>1, <1>4, <1>10 DEF JobIsSound, WaitsRightly, WorksRightly, Edits, Active
  <1>12. /\ RowIsSound(disk', j) /\ RowIsCurrent(mem', disk', j)
         /\ LedgerIsExact(mem', disk', expiredTwins, j)
    BY <1>1, <1>8, <1>10 DEF RowIsSound, RowIsCurrent, JobIsSound, LedgerIsExact, Active
  <1>13. JobIsSound(mem', disk', expiredTwins, j)
    BY <1>11, <1>12 DEF JobIsSound
  <1>14. {j} \cap ActiveRows(disk') \subseteq ActiveRows(disk)
    BY <1>10 DEF ActiveRows, Active
  <1>15. Handles(mem, disk, expiredTwins, mem', disk', expiredTwins, {j})
    BY <1>1, <1>4, <1>8, <1>9, <1>13, <1>14 DEF Handles, Edits
  <1>16. InProcess(mem', disk', expiredTwins)
    BY <1>15, StepLemma
  <1>17. \A k \in Jobs \ {j} : disk'.job[k].status = disk.job[k].status
    BY <1>9 DEF InProcess, Untouched, JobIsSound, RowIsCurrent, StatusOf
  <1>18. due' \subseteq ActiveRows(disk')
    BY <1>2, <1>10, <1>17 DEF ActiveRows, Active
  <1>19. RowsMove(disk, disk')
    BY <1>10, <1>17 DEF RowsMove, Lifecycle!Moves
  <1> QED
    BY <1>2, <1>16, <1>18, <1>19 DEF ProcessStep

(* The retention sweep forgets a settled job.                              *)
LEMMA CleanupStep ==
  ASSUME InProcess(mem, disk, expiredTwins), due \subseteq ActiveRows(disk),
         NEW j \in Jobs, CleanupJob(j)
  PROVE  ProcessStep
  <1>1. /\ mem \in Memory /\ mem.phase # "down" /\ IsInjective(mem.queue) /\ disk \in Disk
        /\ JobIsSound(mem, disk, expiredTwins, j) /\ StatusOf(mem, j) \in Settled
    BY DEF InProcess, CleanupJob
  <1>2. /\ mem' = WithJob(mem, j, Gone)
        /\ disk' = PersistJobs(disk, mem') /\ due' = due /\ expiredTwins' = expiredTwins
    BY DEF CleanupJob, WithJob
  <1>3. Gone \in JobRecord /\ Gone.status = "gone"
    BY AbsentLemma
  <1>4. Edits(mem, mem', j) /\ mem'.job[j] = Gone /\ mem'.run = mem.run
    BY <1>1, <1>2, <1>3, EditJobLemma
  <1>5. mem' \in Memory
    BY <1>4 DEF Edits
  <1>6. /\ disk' \in Disk /\ disk'.job = mem'.job
        /\ disk'.ledger = disk.ledger /\ disk'.history = disk.history
    BY <1>1, <1>2, <1>5, PersistLemma
  <1>9. ASSUME NEW k \in Jobs \ {j} PROVE Untouched(mem, disk, mem', disk', k)
    BY <1>4, <1>6 DEF Edits, Untouched
  <1>10. /\ StatusOf(mem', j) = "gone" /\ disk'.job[j].status = "gone"
         /\ disk.job[j].status \in Settled /\ StatusOf(mem, j) \notin Active
    BY <1>1, <1>3, <1>4, <1>6 DEF StatusOf, JobIsSound, RowIsCurrent, Settled, Active
  <1>11. WaitsRightly(mem', expiredTwins, j) /\ WorksRightly(mem', j)
    BY <1>1, <1>4, <1>10 DEF JobIsSound, WaitsRightly, WorksRightly, Edits, Active
  <1>12. /\ RowIsSound(disk', j) /\ RowIsCurrent(mem', disk', j)
         /\ LedgerIsExact(mem', disk', expiredTwins, j)
    BY <1>1, <1>6, <1>10 DEF RowIsSound, RowIsCurrent, JobIsSound, LedgerIsExact, Active
  <1>13. JobIsSound(mem', disk', expiredTwins, j)
    BY <1>11, <1>12 DEF JobIsSound
  <1>14. {j} \cap ActiveRows(disk') \subseteq ActiveRows(disk)
    BY <1>10 DEF ActiveRows, Active
  <1>15. Handles(mem, disk, expiredTwins, mem', disk', expiredTwins, {j})
    BY <1>1, <1>4, <1>6, <1>9, <1>13, <1>14 DEF Handles, Edits
  <1>16. InProcess(mem', disk', expiredTwins)
    BY <1>15, StepLemma
  <1>17. \A k \in Jobs \ {j} : disk'.job[k].status = disk.job[k].status
    BY <1>9 DEF InProcess, Untouched, JobIsSound, RowIsCurrent, StatusOf
  <1>18. due' \subseteq ActiveRows(disk')
    BY <1>2, <1>10, <1>17 DEF ActiveRows, Active, Settled
  <1>19. RowsMove(disk, disk')
    BY <1>10, <1>17 DEF RowsMove, Lifecycle!Moves, Settled
  <1> QED
    BY <1>2, <1>16, <1>18, <1>19 DEF ProcessStep

(* The copy's deadline: the job itself stays queued, out of the queue, and *)
(* is one of expiredTwins from here on.                                    *)
LEMMA TwinDeadlineStep ==
  ASSUME InProcess(mem, disk, expiredTwins), due \subseteq ActiveRows(disk),
         NEW j \in Jobs, TwinDeadlineFires(j)
  PROVE  ProcessStep
  <1> DEFINE X == {j}
             d == Dequeue(mem, X)
  <1>1. /\ mem \in Memory /\ mem.phase # "down" /\ IsInjective(mem.queue) /\ disk \in Disk
        /\ JobIsSound(mem, disk, expiredTwins, j) /\ StatusOf(mem, j) = "queued"
    BY DEF InProcess, JobIsSound, WaitsRightly, TwinDeadlineFires
  <1>2. /\ mem' = SetTimer(d, X, "off")
        /\ disk' = WriteSettlement(disk, mem', X, FALSE, AllWrites)
        /\ due' = due /\ expiredTwins' = expiredTwins \cup X
    BY DEF TwinDeadlineFires
  <1>3. X \in SUBSET Jobs /\ j \in X /\ \A k \in Jobs \ {j} : k \notin X
    OBVIOUS
  <1> HIDE DEF X
  <1>4. /\ d \in Memory
        /\ d.phase = mem.phase /\ d.job = mem.job /\ d.timer = mem.timer /\ d.run = mem.run
        /\ Range(d.queue) = Range(mem.queue) \ X
        /\ IsInjective(mem.queue) => IsInjective(d.queue)
    BY <1>1, <1>3, DequeueLemma
  <1> HIDE DEF d
  <1>5. /\ mem' \in Memory
        /\ mem'.phase = d.phase /\ mem'.job = d.job /\ mem'.queue = d.queue /\ mem'.run = d.run
        /\ \A k \in Jobs : mem'.timer[k] = IF k \in X THEN "off" ELSE d.timer[k]
    BY <1>2, <1>3, <1>4, SetTimerLemma
  <1>6. Settles(disk, mem', X, FALSE, disk')
    BY <1>1, <1>2, <1>3, <1>5, SettlesLemma
  <1>7. /\ disk' \in Disk /\ disk'.job = mem'.job
        /\ disk'.history[j] = "failed"
        /\ disk.ledger[j] = "reserved" => disk'.ledger[j] = "none"
        /\ disk.ledger[j] # "reserved" => disk'.ledger[j] = disk.ledger[j]
        /\ \A k \in Jobs \ {j} : disk'.ledger[k] = disk.ledger[k] /\ disk'.history[k] = disk.history[k]
    BY <1>3, <1>6 DEF Settles, Outcome, Charge
  <1>8. ASSUME NEW k \in Jobs \ {j}
        PROVE  Untouched(mem, disk, mem', disk', k) /\ (k \in expiredTwins' <=> k \in expiredTwins)
    BY ZenonT(30), <1>2, <1>3, <1>4, <1>5, <1>7 DEF Untouched
  <1>9. /\ StatusOf(mem', j) = "queued" /\ disk'.job[j].status = "queued"
        /\ disk.job[j].status = "queued"
    BY <1>1, <1>4, <1>5, <1>7 DEF StatusOf, JobIsSound, RowIsCurrent
  <1>10. WaitsRightly(mem', expiredTwins', j) /\ WorksRightly(mem', j)
    BY <1>1, <1>2, <1>3, <1>4, <1>5, <1>9 DEF JobIsSound, WaitsRightly, WorksRightly
  <1>11. /\ RowIsSound(disk', j) /\ RowIsCurrent(mem', disk', j)
         /\ LedgerIsExact(mem', disk', expiredTwins', j)
    <2>1. ~mem'.job[j].recovery
      BY <1>9, <1>10 DEF WorksRightly, Active
    <2> QED
      BY <1>1, <1>2, <1>3, <1>7, <1>9, <2>1
      DEF RowIsSound, RowIsCurrent, JobIsSound, LedgerIsExact, Active
  <1>12. JobIsSound(mem', disk', expiredTwins', j)
    BY <1>10, <1>11 DEF JobIsSound
  <1>13. {j} \cap ActiveRows(disk') \subseteq ActiveRows(disk)
    BY <1>9 DEF ActiveRows
  <1>14. Handles(mem, disk, expiredTwins, mem', disk', expiredTwins', {j})
    BY <1>1, <1>4, <1>5, <1>7, <1>8, <1>12, <1>13 DEF Handles
  <1>15. InProcess(mem', disk', expiredTwins')
    BY <1>14, StepLemma
  <1>16. \A k \in Jobs : disk'.job[k].status = disk.job[k].status
    BY <1>8, <1>9 DEF InProcess, Untouched, JobIsSound, RowIsCurrent, StatusOf
  <1> QED
    BY <1>2, <1>15, <1>16 DEF ProcessStep, RowsMove, ActiveRows

(* The orders in which the jobs of a set can stand.                        *)
LEMMA OrderLemma ==
  ASSUME NEW S, IsFiniteSet(S), NEW q \in SetToSeqs(S)
  PROVE  q \in Seq(S) /\ IsInjective(q) /\ Range(q) = S
  <1> DEFINE c == Cardinality(S)
             D == 1..c
  <1>1. c \in Nat
    BY FS_CardinalityType
  <1>2. q \in [D -> S] /\ \A i, k \in D : i # k => q[i] # q[k]
    BY DEF SetToSeqs
  <1>3. q \in Seq(S) /\ DOMAIN q = D /\ IsInjective(q)
    BY <1>1, <1>2 DEF IsInjective
  <1>4. Cardinality(D) = c
    BY <1>1, FS_Interval
  <1> HIDE DEF c, D
  <1>5. q \in Injection(D, S)
    BY <1>2, <1>3 DEF Injection
  <1>6. q \in Surjection(D, S)
    BY <1>4, <1>5, FS_Injection DEF c
  <1>7. Range(q) = S
    BY <1>2, <1>3, <1>6 DEF Surjection, Range
  <1> QED
    BY <1>3, <1>7

(* A handler that ends by calling pumpWorkers, having reached memory m and *)
(* rows s in which every job has the status it had.                        *)
LEMMA PumpStep ==
  ASSUME NEW m, NEW s, NEW overdue, InProcess(m, s, expiredTwins),
         \A j \in Jobs : s.job[j].status = disk.job[j].status,
         overdue \subseteq ActiveRows(disk), PumpWorkers(m, s, overdue),
         expiredTwins' = expiredTwins
  PROVE  ProcessStep
  <1>1. overdue \subseteq ActiveRows(s)
    BY DEF ActiveRows
  <1>2. /\ InProcess(mem', disk', expiredTwins) /\ due' \subseteq ActiveRows(disk')
        /\ PumpMoves(s, disk', overdue)
    BY <1>1, PumpLemma
  <1>3. RowsMove(disk, disk')
    BY <1>2 DEF PumpMoves, RowsMove, Lifecycle!Moves
  <1> QED
    BY <1>2, <1>3 DEF ProcessStep

(* Pumps that nothing but the outside has asked for.                       *)
LEMMA NotifyStep ==
  ASSUME InProcess(mem, disk, expiredTwins), due \subseteq ActiveRows(disk),
         \/ Notify \/ OfflineReadinessChanges \/ \E d \in Devices : HealthChanges(d)
  PROVE  ProcessStep
  <1>1. PumpWorkers(mem, disk, due) /\ expiredTwins' = expiredTwins
    BY DEF Notify, OfflineReadinessChanges, HealthChanges, OutsideChange
  <1> QED
    BY <1>1, PumpStep

(* A device row may change, and runs and workers unwind, without touching  *)
(* the jobs.                                                               *)
SameJobs(m, s, n, t) ==
  /\ n \in Memory /\ n.phase = m.phase /\ n.job = m.job /\ n.timer = m.timer /\ n.run = m.run
  /\ IsInjective(n.queue) /\ Range(n.queue) = Range(m.queue)
  /\ t \in Disk /\ t.job = s.job /\ t.ledger = s.ledger /\ t.history = s.history

(* What does not touch the jobs leaves them sound.                         *)
LEMMA SameJobsLemma ==
  ASSUME NEW m, NEW s, NEW v, InProcess(m, s, v), NEW n, NEW t, SameJobs(m, s, n, t)
  PROVE  InProcess(n, t, v) /\ ActiveRows(t) = ActiveRows(s)
  <1>1. \A j \in Jobs : Untouched(m, s, n, t, j)
    BY DEF SameJobs, Untouched
  <1>2. Handles(m, s, v, n, t, v, {})
    BY <1>1 DEF Handles, SameJobs, InProcess
  <1> QED
    BY <1>2, StepLemma DEF SameJobs, ActiveRows

(* run.finally releases the worker and pumps.                              *)
LEMMA RunUnwindsStep ==
  ASSUME InProcess(mem, disk, expiredTwins), due \subseteq ActiveRows(disk),
         NEW j \in Jobs, NEW w \in Workers, RunUnwinds(j, w)
  PROVE  ProcessStep
  <1> DEFINE u == mem.unwinding \ {<<j, w>>}
             k == mem.tracked \ {j}
             m == [mem EXCEPT !.unwinding = u, !.tracked = k]
  <1>1. mem \in Memory /\ disk \in Disk /\ IsInjective(mem.queue)
    BY DEF InProcess
  <1>2. u \in SUBSET (Jobs \X Workers) /\ k \in SUBSET Jobs
    BY <1>1 DEF Memory
  <1>3. PumpWorkers(m, disk, due) /\ expiredTwins' = expiredTwins
    BY DEF RunUnwinds
  <1> HIDE DEF u, k
  <1>4. /\ m \in Memory /\ m.phase = mem.phase /\ m.job = mem.job /\ m.timer = mem.timer
        /\ m.run = mem.run /\ m.queue = mem.queue
    BY <1>1, <1>2 DEF Memory
  <1> HIDE DEF m
  <1>5. SameJobs(mem, disk, m, disk)
    BY <1>1, <1>4 DEF SameJobs
  <1>6. InProcess(m, disk, expiredTwins)
    BY <1>5, SameJobsLemma
  <1> QED
    BY <1>3, <1>6, PumpStep

(* The routes on devices.                                                  *)
LEMMA DeviceSetStep ==
  ASSUME InProcess(mem, disk, expiredTwins), due \subseteq ActiveRows(disk),
         NEW d \in Devices, NEW value \in {"ready", "draining", "disabled"}, DeviceSet(d, value)
  PROVE  ProcessStep
  <1> DEFINE devices == [disk.device EXCEPT ![d] = value]
             s == [disk EXCEPT !.device = devices]
  <1>1. mem \in Memory /\ disk \in Disk /\ IsInjective(mem.queue)
    BY DEF InProcess
  <1>2. devices \in [Devices -> {"ready", "draining", "disabled"}]
    BY <1>1 DEF Disk
  <1>3. /\ PumpWorkers(mem, s, due) \/ (mem' = mem /\ disk' = s /\ due' = due)
        /\ expiredTwins' = expiredTwins
    BY DEF DeviceSet, OutsideChange
  <1> HIDE DEF devices
  <1>4. s \in Disk /\ s.job = disk.job /\ s.ledger = disk.ledger /\ s.history = disk.history
    BY <1>1, <1>2 DEF Disk
  <1> HIDE DEF s
  <1>5. SameJobs(mem, disk, mem, s)
    BY <1>1, <1>4 DEF SameJobs
  <1>6. InProcess(mem, s, expiredTwins) /\ ActiveRows(s) = ActiveRows(disk)
    BY <1>5, SameJobsLemma
  <1>7. CASE PumpWorkers(mem, s, due)
    BY <1>3, <1>4, <1>6, <1>7, PumpStep
  <1>8. CASE mem' = mem /\ disk' = s /\ due' = due
    BY <1>3, <1>4, <1>6, <1>8 DEF ProcessStep, RowsMove
  <1> QED
    BY <1>3, <1>7, <1>8

(* reorderQueue gives the same jobs another order.                         *)
LEMMA ReorderQueueStep ==
  ASSUME InProcess(mem, disk, expiredTwins), due \subseteq ActiveRows(disk),
         NEW front \in SetToAllKPermutations(Range(mem.queue)), ReorderQueue(front)
  PROVE  ProcessStep
  <1> DEFINE back == Without(mem.queue, Range(front))
             q == Joined(front, back)
  <1>1. /\ mem \in Memory /\ disk \in Disk /\ IsInjective(mem.queue)
        /\ mem.queue \in Seq(Jobs) /\ Range(mem.queue) \subseteq Jobs
    BY DEF InProcess, Memory, Range
  <1>2. PICK S \in SUBSET Range(mem.queue) : front \in SetToSeqs(S)
    BY DEF SetToAllKPermutations
  <1>3. front \in Seq(Jobs) /\ IsInjective(front) /\ Range(front) = S
    <2>1. S \in SUBSET Jobs
      BY <1>1, <1>2
    <2>2. IsFiniteSet(S)
      BY <2>1, FS_Subset, IdsAssumption
    <2>3. front \in Seq(S) /\ IsInjective(front) /\ Range(front) = S
      BY <1>2, <2>2, OrderLemma
    <2> QED
      BY <2>1, <2>3
  <1>4. /\ back \in Seq(Jobs) /\ Range(back) = Range(mem.queue) \ Range(front) /\ IsInjective(back)
    BY <1>1, WithoutLemma
  <1>5. mem' = [mem EXCEPT !.queue = q] /\ disk' = disk /\ due' = due /\ expiredTwins' = expiredTwins
    BY DEF ReorderQueue, Joined
  <1> HIDE DEF back
  <1>6. q \in Seq(Jobs) /\ Range(q) = Range(mem.queue) /\ IsInjective(q)
    <2>1. Range(front) \cap Range(back) = {} /\ Range(front) \cup Range(back) = Range(mem.queue)
      BY <1>2, <1>3, <1>4
    <2>2. /\ q \in Seq(Jobs) /\ Range(q) = Range(front) \cup Range(back)
          /\ IsInjective(front) /\ IsInjective(back) /\ Range(front) \cap Range(back) = {}
               => IsInjective(q)
      BY <1>3, <1>4, ConcatLemma
    <2> HIDE DEF q
    <2> QED
      BY <1>3, <1>4, <2>1, <2>2
  <1> HIDE DEF q
  <1>7. SameJobs(mem, disk, mem', disk')
    BY <1>1, <1>5, <1>6 DEF SameJobs, Memory
  <1>8. InProcess(mem', disk', expiredTwins)
    BY <1>7, SameJobsLemma
  <1> QED
    BY <1>5, <1>8 DEF ProcessStep, RowsMove

(* Some jobs change in what the invariant does not speak of.               *)
SameRoles(m, s, n, t) ==
  /\ n \in Memory /\ n.phase = m.phase /\ n.run = m.run /\ n.queue = m.queue
  /\ t \in Disk /\ t.ledger = s.ledger /\ t.history = s.history
  /\ t.job = s.job \/ t.job = n.job
  /\ \A j \in Jobs :
       /\ n.job[j].status = m.job[j].status /\ n.job[j].recovery = m.job[j].recovery
       /\ n.job[j].retries = m.job[j].retries /\ n.job[j].tried = m.job[j].tried
       /\ n.timer[j] = m.timer[j] \/ (n.timer[j] # "off" /\ m.job[j].status = "queued")

(* What leaves status, recovery, retries and runs leaves the jobs sound.   *)
LEMMA SameRolesLemma ==
  ASSUME NEW m, NEW s, NEW v, InProcess(m, s, v), NEW n, NEW t, SameRoles(m, s, n, t)
  PROVE  /\ InProcess(n, t, v) /\ ActiveRows(t) = ActiveRows(s)
         /\ \A j \in Jobs : t.job[j].status = s.job[j].status
  <1>1. ASSUME NEW j \in Jobs PROVE JobIsSound(n, t, v, j) /\ t.job[j].status = s.job[j].status
    <2>1. JobIsSound(m, s, v, j)
      BY DEF InProcess
    <2>2. /\ StatusOf(n, j) = StatusOf(m, j) /\ s.job[j].status = StatusOf(m, j)
          /\ t.job[j].status = StatusOf(m, j)
      BY <2>1 DEF SameRoles, StatusOf, JobIsSound, RowIsCurrent
    <2>3. WaitsRightly(n, v, j)
      BY <2>1, <2>2 DEF JobIsSound, WaitsRightly, SameRoles, StatusOf
    <2>4. WorksRightly(n, j)
      BY <2>1, <2>2 DEF JobIsSound, WorksRightly, SameRoles, StatusOf
    <2>5. RowIsSound(t, j)
      <3>1. n.job[j].recovery => StatusOf(m, j) # "queued"
        BY <2>2, <2>4 DEF WorksRightly, Active
      <3>2. s.job[j].recovery => StatusOf(m, j) # "queued"
        BY <2>1, <2>2 DEF JobIsSound, RowIsSound
      <3>3. t.job[j].recovery => t.job[j].status # "queued"
        BY <2>2, <3>1, <3>2 DEF SameRoles
      <3>4. t.job[j].status = "absent" => ~t.job[j].tried
        BY <2>1, <2>2, <2>4 DEF SameRoles, JobIsSound, RowIsSound, WorksRightly
      <3> QED
        BY <2>1, <2>2, <3>3, <3>4 DEF JobIsSound, RowIsSound, SameRoles
    <2>6. LedgerIsExact(n, t, v, j) /\ RowIsCurrent(n, t, j)
      <3>1. LedgerIsExact(n, t, v, j)
        BY <2>1, <2>2 DEF JobIsSound, LedgerIsExact, SameRoles
      <3>2. RowIsCurrent(n, t, j)
        BY <2>1, <2>2, <2>4 DEF JobIsSound, WorksRightly, RowIsCurrent, SameRoles
      <3> QED
        BY <3>1, <3>2
    <2> QED
      BY <2>2, <2>3, <2>4, <2>5, <2>6 DEF JobIsSound
  <1>2. ActiveRows(t) = ActiveRows(s)
    BY <1>1 DEF ActiveRows
  <1>3. Handles(m, s, v, n, t, v, Jobs)
    BY <1>1, <1>2 DEF Handles, SameRoles, InProcess
  <1>4. InProcess(n, t, v)
    BY <1>3, StepLemma
  <1> QED
    BY <1>1, <1>2, <1>4

(* releasePinnedJobsForDevice changes pins only.                           *)
LEMMA ReleasePinnedStep ==
  ASSUME InProcess(mem, disk, expiredTwins), due \subseteq ActiveRows(disk),
         NEW d \in Devices, ReleasePinned(d)
  PROVE  ProcessStep
  <1> DEFINE X == {j \in Range(mem.queue) : mem.job[j].pin = d /\ j \in AppStoreJobs}
             free(r) == [r EXCEPT !.pin = NoDevice]
             jobs == [j \in Jobs |-> IF j \in X THEN free(mem.job[j]) ELSE mem.job[j]]
             m == [mem EXCEPT !.job = jobs]
  <1>1. mem \in Memory /\ disk \in Disk
    BY DEF InProcess
  <1>2. PumpWorkers(m, disk, due) /\ expiredTwins' = expiredTwins
    <2>1. m = Patch(mem, X, LAMBDA r : [r EXCEPT !.pin = NoDevice])
      BY DEF Patch
    <2> QED
      BY <2>1 DEF ReleasePinned
  <1> HIDE DEF X
  <1>3. \A j \in Jobs : /\ free(mem.job[j]) \in JobRecord
                        /\ free(mem.job[j]).status = mem.job[j].status
                        /\ free(mem.job[j]).recovery = mem.job[j].recovery
                        /\ free(mem.job[j]).retries = mem.job[j].retries
                        /\ free(mem.job[j]).tried = mem.job[j].tried
    <2>1. ASSUME NEW r \in JobRecord
          PROVE  /\ free(r) \in JobRecord /\ free(r).status = r.status
                 /\ free(r).recovery = r.recovery /\ free(r).retries = r.retries
                 /\ free(r).tried = r.tried
      BY DEF JobRecord
    <2>2. mem.job \in [Jobs -> JobRecord]
      BY <1>1 DEF Memory
    <2> HIDE DEF free
    <2> QED
      BY <2>1, <2>2
  <1> HIDE DEF free
  <1>4. /\ jobs \in [Jobs -> JobRecord]
        /\ \A j \in Jobs : /\ jobs[j].status = mem.job[j].status
                           /\ jobs[j].recovery = mem.job[j].recovery
                           /\ jobs[j].retries = mem.job[j].retries
                           /\ jobs[j].tried = mem.job[j].tried
    BY <1>1, <1>3 DEF Memory
  <1> HIDE DEF jobs
  <1>5. /\ m \in Memory /\ m.job = jobs /\ m.phase = mem.phase /\ m.run = mem.run
        /\ m.queue = mem.queue /\ m.timer = mem.timer
    BY <1>1, <1>4 DEF Memory
  <1> HIDE DEF m
  <1>6. SameRoles(mem, disk, m, disk)
    BY <1>1, <1>4, <1>5 DEF SameRoles
  <1>7. InProcess(m, disk, expiredTwins)
    BY <1>6, SameRolesLemma
  <1> QED
    BY <1>2, <1>7, PumpStep

(* A second request for a build at most extends the deadline.              *)
LEMMA EnqueueDuplicateStep ==
  ASSUME InProcess(mem, disk, expiredTwins), due \subseteq ActiveRows(disk),
         NEW j \in Jobs, NEW k \in Jobs, EnqueueDuplicate(j, k)
  PROVE  ProcessStep
  <1> DEFINE r == [mem.job[k] EXCEPT !.scheduled = TRUE]
             w == WithJob(mem, k, r)
             X == {k}
             e == WithExtendedDeadline(mem, k)
  <1>1. mem \in Memory /\ disk \in Disk /\ expiredTwins' = expiredTwins
    BY DEF InProcess, EnqueueDuplicate
  <1>2. \E m, s, overdue :
          /\ \/ m = mem /\ s = disk /\ overdue = due
             \/ m = e /\ s = PersistJobs(disk, e) /\ overdue = due \ {k}
          /\ PumpWorkers(m, s, overdue) \/ (mem' = m /\ disk' = s /\ due' = overdue)
    BY DEF EnqueueDuplicate
  <1>3. /\ r \in JobRecord /\ r.status = mem.job[k].status
        /\ r.recovery = mem.job[k].recovery /\ r.retries = mem.job[k].retries
        /\ r.tried = mem.job[k].tried
    <2>1. mem.job[k] \in JobRecord
      BY <1>1 DEF Memory
    <2> QED
      BY <2>1 DEF JobRecord
  <1>4. e = IF StatusOf(mem, k) = "queued" THEN SetTimer(w, X, "live") ELSE w
    BY DEF WithExtendedDeadline, WithJob
  <1> HIDE DEF r, e, X
  <1>5. Edits(mem, w, k) /\ w.job[k] = r /\ w.run = mem.run
    BY <1>1, <1>3, EditJobLemma
  <1> HIDE DEF w
  <1>6. /\ e \in Memory /\ e.phase = mem.phase /\ e.run = mem.run /\ e.queue = mem.queue
        /\ e.job = w.job
        /\ \A i \in Jobs : e.timer[i] = mem.timer[i] \/ (e.timer[i] # "off" /\ mem.job[i].status = "queued")
    <2>1. CASE StatusOf(mem, k) = "queued"
      <3>1. w \in Memory
        BY <1>5 DEF Edits
      <3>2. X \in SUBSET Jobs /\ \A i \in X : i = k
        BY DEF X
      <3>3. /\ e \in Memory
            /\ e.phase = w.phase /\ e.job = w.job /\ e.queue = w.queue /\ e.run = w.run
            /\ \A i \in Jobs : e.timer[i] = IF i \in X THEN "live" ELSE w.timer[i]
        BY <1>4, <2>1, <3>1, <3>2, SetTimerLemma
      <3> QED
        BY <1>5, <2>1, <3>2, <3>3 DEF Edits, StatusOf
    <2>2. CASE StatusOf(mem, k) # "queued"
      BY <1>4, <1>5, <2>2 DEF Edits
    <2> QED
      BY <2>1, <2>2
  <1>7. /\ PersistJobs(disk, e) \in Disk /\ PersistJobs(disk, e).job = e.job
        /\ PersistJobs(disk, e).ledger = disk.ledger
        /\ PersistJobs(disk, e).history = disk.history
    BY <1>1, <1>6, PersistLemma
  <1>8. ASSUME NEW m, NEW s, m = e, s = PersistJobs(disk, e)
        PROVE  SameRoles(mem, disk, m, s)
    BY <1>1, <1>3, <1>5, <1>6, <1>7, <1>8 DEF SameRoles, Edits
  <1>9. PICK m, s, overdue :
          /\ \/ m = mem /\ s = disk /\ overdue = due
             \/ m = e /\ s = PersistJobs(disk, e) /\ overdue = due \ {k}
          /\ PumpWorkers(m, s, overdue) \/ (mem' = m /\ disk' = s /\ due' = overdue)
    BY <1>2
  <1>10. /\ InProcess(m, s, expiredTwins) /\ ActiveRows(s) = ActiveRows(disk)
         /\ \A i \in Jobs : s.job[i].status = disk.job[i].status
    <2>1. CASE m = mem /\ s = disk
      BY <2>1
    <2>2. CASE m = e /\ s = PersistJobs(disk, e)
      <3>1. SameRoles(mem, disk, m, s)
        BY <1>8, <2>2
      <3> QED
        BY <3>1, SameRolesLemma
    <2> QED
      BY <1>9, <2>1, <2>2
  <1>11. overdue \subseteq due
    BY <1>9
  <1>12. CASE PumpWorkers(m, s, overdue)
    BY <1>1, <1>10, <1>11, <1>12, PumpStep
  <1>13. CASE mem' = m /\ disk' = s /\ due' = overdue
    BY <1>1, <1>10, <1>11, <1>13 DEF ProcessStep, RowsMove
  <1> QED
    BY <1>9, <1>12, <1>13

(* A new job is a queued one.                                              *)
LEMMA NewJobLemma ==
  ASSUME NEW j \in Jobs
  PROVE  NewJob(j) \in JobRecord /\ NewJob(j).status = "queued" /\ ~NewJob(j).recovery
  <1>1. PinOf[j] \in Devices \cup {NoDevice} /\ (j \in SchedulerJobs) \in BOOLEAN
    BY AttributesAssumption
  <1> DEFINE scheduled == (j \in SchedulerJobs)
             pin == PinOf[j]
             n == [Absent EXCEPT !.status = "queued", !.scheduled = scheduled, !.pin = pin]
  <1>2. scheduled \in BOOLEAN /\ pin \in Devices \cup {NoDevice} /\ NewJob(j) = n
    BY <1>1 DEF NewJob
  <1> HIDE DEF scheduled, pin
  <1>3. n \in JobRecord /\ n.status = "queued" /\ n.recovery = Absent.recovery
    BY <1>2, AbsentLemma DEF JobRecord, Statuses, Active
  <1> QED
    BY <1>2, <1>3, AbsentLemma

(* A new job: queued, with a timer and, if it is billed, a reservation.    *)
LEMMA EnqueueStep ==
  ASSUME InProcess(mem, disk, expiredTwins), due \subseteq ActiveRows(disk),
         NEW j \in Jobs, Enqueue(j)
  PROVE  ProcessStep
  <1> DEFINE w == WithJob(mem, j, NewJob(j))
             q == Requeue(w, j)
             X == {j}
             m == SetTimer(q, X, "live")
             ledger == [disk.ledger EXCEPT ![j] = IF j \in BilledJobs THEN "reserved" ELSE disk.ledger[j]]
             s1 == [disk EXCEPT !.ledger = ledger]
             s == PersistJobs(s1, m)
  <1>1. /\ mem \in Memory /\ mem.phase = "up" /\ IsInjective(mem.queue) /\ disk \in Disk
        /\ OneActiveRow(disk)
        /\ JobIsSound(mem, disk, expiredTwins, j) /\ StatusOf(mem, j) = "absent"
        /\ ActiveFor(mem, j) = {}
    BY DEF InProcess, Enqueue, Up
  <1>2. PumpWorkers(m, s, due) /\ expiredTwins' = expiredTwins
    BY DEF Enqueue, WithJob
  <1>3. NewJob(j) \in JobRecord /\ NewJob(j).status = "queued" /\ ~NewJob(j).recovery
    BY NewJobLemma
  <1>4. Edits(mem, w, j) /\ w.job[j] = NewJob(j) /\ w.run = mem.run
    BY <1>1, <1>3, EditJobLemma
  <1> HIDE DEF w
  <1>5. /\ q \in Memory
        /\ q.phase = w.phase /\ q.job = w.job /\ q.timer = w.timer /\ q.run = w.run
        /\ Range(q.queue) = Range(w.queue) \cup {j}
        /\ IsInjective(w.queue) /\ j \notin Range(w.queue) => IsInjective(q.queue)
    <2>1. w \in Memory
      BY <1>4 DEF Edits
    <2> QED
      BY <2>1, RequeueLemma
  <1>6. X \in SUBSET Jobs /\ j \in X /\ \A k \in Jobs \ {j} : k \notin X
    OBVIOUS
  <1> HIDE DEF q, X
  <1>7. /\ m \in Memory
        /\ m.phase = q.phase /\ m.job = q.job /\ m.queue = q.queue /\ m.run = q.run
        /\ \A k \in Jobs : m.timer[k] = IF k \in X THEN "live" ELSE q.timer[k]
    BY <1>5, <1>6, SetTimerLemma
  <1> HIDE DEF m
  <1>8. j \notin Range(mem.queue)
    BY <1>1 DEF JobIsSound, WaitsRightly
  <1>9. /\ m.phase = "up" /\ IsInjective(m.queue)
        /\ Range(m.queue) = Range(mem.queue) \cup {j} /\ m.timer[j] = "live"
        /\ m.job[j] = NewJob(j) /\ m.run = mem.run
        /\ \A k \in Jobs \ {j} : m.job[k] = mem.job[k] /\ m.timer[k] = mem.timer[k]
    BY <1>1, <1>4, <1>5, <1>6, <1>7, <1>8 DEF Edits
  <1>10. /\ ledger \in [Jobs -> {"none", "reserved", "consumed"}]
         /\ \A k \in Jobs \ {j} : ledger[k] = disk.ledger[k]
         /\ j \in BilledJobs => ledger[j] = "reserved"
         /\ ledger[j] = "reserved" \/ ledger[j] = disk.ledger[j]
    BY <1>1 DEF Disk
  <1> HIDE DEF ledger
  <1>11. s1 \in Disk /\ s1.ledger = ledger /\ s1.history = disk.history
    BY <1>1, <1>10 DEF Disk
  <1> HIDE DEF s1
  <1>12. s \in Disk /\ s.job = m.job /\ s.ledger = ledger /\ s.history = disk.history
    BY <1>7, <1>11, PersistLemma
  <1> HIDE DEF s
  <1>13. ASSUME NEW k \in Jobs \ {j}
         PROVE  Untouched(mem, disk, m, s, k) /\ s.job[k].status = disk.job[k].status
    <2>1. Untouched(mem, disk, m, s, k)
      BY <1>1, <1>9, <1>10, <1>12 DEF Untouched
    <2>2. JobIsSound(mem, disk, expiredTwins, k)
      BY DEF InProcess
    <2> QED
      BY <2>1, <2>2 DEF Untouched, JobIsSound, RowIsCurrent, StatusOf
  <1>14. /\ StatusOf(m, j) = "queued" /\ s.job[j].status = "queued" /\ ~s.job[j].recovery
         /\ disk.job[j].status = "absent" /\ disk.history[j] # "done"
         /\ disk.ledger[j] # "consumed" /\ mem.run[j].stage = "none"
    BY <1>1, <1>3, <1>9, <1>12
    DEF StatusOf, JobIsSound, RowIsCurrent, RowIsSound, LedgerIsExact, WorksRightly
  <1>15. WaitsRightly(m, expiredTwins, j) /\ WorksRightly(m, j)
    BY <1>3, <1>9, <1>14 DEF WaitsRightly, WorksRightly
  <1>16. RowIsSound(s, j) /\ RowIsCurrent(m, s, j) /\ LedgerIsExact(m, s, expiredTwins, j)
    BY <1>10, <1>12, <1>14 DEF RowIsSound, RowIsCurrent, LedgerIsExact, Active
  <1>17. \A k \in Jobs : JobIsSound(m, s, expiredTwins, k)
    <2>1. JobIsSound(m, s, expiredTwins, j)
      BY <1>15, <1>16 DEF JobIsSound
    <2>2. ASSUME NEW k \in Jobs \ {j} PROVE JobIsSound(m, s, expiredTwins, k)
      <3>1. JobIsSound(mem, disk, expiredTwins, k) /\ Untouched(mem, disk, m, s, k)
        BY <1>13 DEF InProcess
      <3> QED
        BY <3>1, UntouchedLemma
    <2> QED
      BY <2>1, <2>2
  <1>18. ActiveRows(s) = ActiveRows(disk) \cup {j} /\ j \notin ActiveRows(disk)
    BY <1>13, <1>14 DEF ActiveRows, Active
  <1>19. OneActiveRow(s)
    <2>1. ASSUME NEW k \in ActiveRows(disk) PROVE ~SameBuild(j, k) /\ ~SameBuild(k, j)
      <3>1. k \in Jobs /\ StatusOf(mem, k) \in Active
        BY DEF ActiveRows, InProcess, JobIsSound, RowIsCurrent
      <3> QED
        BY <1>1, <3>1 DEF ActiveFor, SameBuild
    <2> QED
      BY <1>1, <1>18, <2>1 DEF OneActiveRow
  <1>20. InProcess(m, s, expiredTwins)
    BY <1>7, <1>9, <1>12, <1>17, <1>19 DEF InProcess
  <1>21. /\ InProcess(mem', disk', expiredTwins) /\ due' \subseteq ActiveRows(disk')
         /\ PumpMoves(s, disk', due)
    <2>1. due \subseteq ActiveRows(s)
      BY <1>18
    <2> QED
      BY <1>2, <1>20, <2>1, PumpLemma
  <1>22. RowsMove(disk, disk')
    <2>1. <<"absent", "queued">> \in Lifecycle!Moves /\ <<"absent", "running">> \in Lifecycle!Moves
      BY DEF Lifecycle!Moves
    <2>2. <<disk.job[j].status, disk'.job[j].status>> \in Lifecycle!Moves
      <3>1. j \notin due
        BY <1>18
      <3>2. disk'.job[j].status \in {"queued", "running"}
        BY <1>14, <1>21, <3>1 DEF PumpMoves
      <3> QED
        BY <1>14, <2>1, <3>2
    <2>3. ASSUME NEW k \in Jobs \ {j}
          PROVE  \/ disk'.job[k].status = disk.job[k].status
                 \/ <<disk.job[k].status, disk'.job[k].status>> \in Lifecycle!Moves
      BY <1>13, <1>21 DEF PumpMoves, Lifecycle!Moves
    <2> QED
      BY <2>2, <2>3 DEF RowsMove
  <1> QED
    BY <1>2, <1>21, <1>22 DEF ProcessStep

----------------------------------------------------------------------------
(* Shutdown, crash and start.                                              *)

(* A step of shutdownJobs: the jobs stay, the process takes no new ones.   *)
Winds(m, n, s, t) ==
  /\ n \in Memory /\ n.phase \in {"draining", "aborting"}
  /\ n.run = m.run /\ IsInjective(n.queue)
  /\ Range(n.queue) \subseteq Range(m.queue)
  /\ \A j \in Jobs : n.timer[j] = m.timer[j] \/ n.timer[j] = "off"
  /\ t \in Disk /\ t.job = n.job /\ t.ledger = s.ledger /\ t.history = s.history
  /\ \A j \in Jobs :
       /\ n.job[j].status = m.job[j].status /\ n.job[j].retries = m.job[j].retries
       /\ n.job[j].tried = m.job[j].tried
       /\ n.phase = "aborting" /\ m.job[j].status = "running" => n.job[j].recovery
       /\ \/ n.job[j].recovery = m.job[j].recovery
          \/ n.phase = "aborting" /\ m.job[j].status = "running"

(* A step of shutdownJobs leaves a sound process that takes no new jobs.   *)
LEMMA WindsLemma ==
  ASSUME NEW m, NEW s, NEW v, InProcess(m, s, v), m.phase # "aborting",
         NEW n, NEW t, Winds(m, n, s, t)
  PROVE  InProcess(n, t, v) /\ \A j \in Jobs : t.job[j].status = s.job[j].status
  <1>1. ASSUME NEW j \in Jobs PROVE JobIsSound(n, t, v, j) /\ t.job[j].status = s.job[j].status
    <2>1. JobIsSound(m, s, v, j)
      BY DEF InProcess
    <2>2. /\ StatusOf(n, j) = StatusOf(m, j) /\ s.job[j].status = StatusOf(m, j)
          /\ t.job[j].status = StatusOf(m, j)
      BY <2>1 DEF Winds, StatusOf, JobIsSound, RowIsCurrent
    <2>3. WaitsRightly(n, v, j)
      BY <2>1, <2>2 DEF JobIsSound, WaitsRightly, Winds
    <2>4. n.job[j].recovery /\ StatusOf(n, j) \in Active => StatusOf(n, j) = "running" /\ n.phase = "aborting"
      BY <2>1, <2>2 DEF JobIsSound, WorksRightly, Winds, StatusOf
    <2>5. WorksRightly(n, j)
      BY <2>1, <2>2, <2>4 DEF JobIsSound, WorksRightly, Winds, StatusOf
    <2>6. RowIsSound(t, j)
      BY <2>1, <2>2, <2>4, <2>5 DEF JobIsSound, RowIsSound, WorksRightly, Winds, Active
    <2>7. LedgerIsExact(n, t, v, j) /\ RowIsCurrent(n, t, j)
      BY <2>1, <2>2 DEF JobIsSound, LedgerIsExact, RowIsCurrent, Winds
    <2> QED
      BY <2>2, <2>3, <2>5, <2>6, <2>7 DEF JobIsSound
  <1>2. ActiveRows(t) = ActiveRows(s)
    BY <1>1 DEF ActiveRows
  <1>3. Handles(m, s, v, n, t, v, Jobs)
    BY <1>1, <1>2 DEF Handles, Winds
  <1>4. InProcess(n, t, v)
    BY <1>3, StepLemma
  <1> QED
    BY <1>1, <1>4

(* The queue is emptied in memory; its rows stay queued.                   *)
LEMMA BeginShutdownStep ==
  ASSUME InProcess(mem, disk, expiredTwins), due \subseteq ActiveRows(disk), BeginShutdown
  PROVE  ProcessStep
  <1> DEFINE empty == << >>
             off == [j \in Jobs |-> "off"]
             k == mem.tracked
  <1>1. mem \in Memory /\ disk \in Disk /\ k \in SUBSET Jobs /\ mem.phase = "up"
    BY DEF InProcess, Memory, BeginShutdown, Up
  <1>2. /\ mem' = [mem EXCEPT !.phase = "draining", !.queue = empty, !.timer = off, !.awaited = k]
        /\ disk' = PersistJobs(disk, mem') /\ due' = due /\ expiredTwins' = expiredTwins
    BY DEF BeginShutdown
  <1>3. /\ empty \in Seq(Jobs) /\ IsInjective(empty) /\ Range(empty) = {}
        /\ off \in [Jobs -> {"off", "live", "copy"}] /\ \A j \in Jobs : off[j] = "off"
    BY DEF IsInjective, Range
  <1> HIDE DEF empty, off, k
  <1>4. /\ mem' \in Memory /\ mem'.phase = "draining" /\ mem'.job = mem.job /\ mem'.run = mem.run
        /\ mem'.queue = empty /\ mem'.timer = off
    BY <1>1, <1>2, <1>3 DEF Memory
  <1>5. /\ disk' \in Disk /\ disk'.job = mem'.job
        /\ disk'.ledger = disk.ledger /\ disk'.history = disk.history
    <2>1. mem' \in Memory /\ disk' = PersistJobs(disk, mem')
      BY <1>2, <1>4
    <2> QED
      BY <1>1, <2>1, PersistLemma
  <1>6. Winds(mem, mem', disk, disk')
    BY <1>1, <1>3, <1>4, <1>5 DEF Winds
  <1>7. /\ InProcess(mem', disk', expiredTwins)
        /\ \A j \in Jobs : disk'.job[j].status = disk.job[j].status
    BY <1>1, <1>6, WindsLemma
  <1> QED
    BY <1>2, <1>7 DEF ProcessStep, RowsMove, ActiveRows

(* Every run that is left is marked for recovery before it is aborted.     *)
LEMMA DrainTimesOutStep ==
  ASSUME InProcess(mem, disk, expiredTwins), due \subseteq ActiveRows(disk), DrainTimesOut
  PROVE  ProcessStep
  <1> DEFINE X == {j \in Jobs : StatusOf(mem, j) = "running"}
             mark(r) == [r EXCEPT !.recovery = TRUE]
             jobs == [j \in Jobs |-> IF j \in X THEN mark(mem.job[j]) ELSE mem.job[j]]
  <1>1. mem \in Memory /\ disk \in Disk /\ mem.phase = "draining" /\ IsInjective(mem.queue)
    BY DEF InProcess, DrainTimesOut
  <1>2. /\ mem' = [[mem EXCEPT !.job = jobs] EXCEPT !.phase = "aborting"]
        /\ disk' = PersistJobs(disk, mem') /\ due' = due /\ expiredTwins' = expiredTwins
    BY DEF DrainTimesOut, MarkedForRecovery, Patch
  <1>3. \A j \in Jobs : j \in X <=> mem.job[j].status = "running"
    BY DEF StatusOf
  <1> HIDE DEF X
  <1>4. \A j \in Jobs : /\ mark(mem.job[j]) \in JobRecord
                        /\ mark(mem.job[j]).status = mem.job[j].status
                        /\ mark(mem.job[j]).retries = mem.job[j].retries
                        /\ mark(mem.job[j]).tried = mem.job[j].tried
                        /\ mark(mem.job[j]).recovery
    <2>1. ASSUME NEW r \in JobRecord
          PROVE  mark(r) \in JobRecord /\ mark(r).status = r.status /\ mark(r).retries = r.retries
                 /\ mark(r).tried = r.tried /\ mark(r).recovery
      BY DEF JobRecord
    <2>2. mem.job \in [Jobs -> JobRecord]
      BY <1>1 DEF Memory
    <2> HIDE DEF mark
    <2> QED
      BY <2>1, <2>2
  <1> HIDE DEF mark
  <1>5. /\ jobs \in [Jobs -> JobRecord]
        /\ \A j \in Jobs : /\ jobs[j].status = mem.job[j].status
                           /\ jobs[j].retries = mem.job[j].retries
                           /\ jobs[j].tried = mem.job[j].tried
                           /\ mem.job[j].status = "running" => jobs[j].recovery
                           /\ jobs[j].recovery = mem.job[j].recovery \/ mem.job[j].status = "running"
    <2>1. mem.job \in [Jobs -> JobRecord]
      BY <1>1 DEF Memory
    <2>2. \A j \in Jobs : jobs[j] = IF j \in X THEN mark(mem.job[j]) ELSE mem.job[j]
      OBVIOUS
    <2>3. jobs \in [Jobs -> JobRecord]
      BY <1>4, <2>1
    <2> HIDE DEF jobs
    <2> QED
      BY <1>3, <1>4, <2>2, <2>3
  <1> HIDE DEF jobs
  <1>6. /\ mem' \in Memory /\ mem'.phase = "aborting" /\ mem'.job = jobs /\ mem'.run = mem.run
        /\ mem'.queue = mem.queue /\ mem'.timer = mem.timer
    BY <1>1, <1>2, <1>5 DEF Memory
  <1>7. /\ disk' \in Disk /\ disk'.job = mem'.job
        /\ disk'.ledger = disk.ledger /\ disk'.history = disk.history
    <2>1. mem' \in Memory /\ disk' = PersistJobs(disk, mem')
      BY <1>2, <1>6
    <2> QED
      BY <1>1, <2>1, PersistLemma
  <1>8. Winds(mem, mem', disk, disk')
    BY <1>1, <1>5, <1>6, <1>7 DEF Winds
  <1>9. /\ InProcess(mem', disk', expiredTwins)
        /\ \A j \in Jobs : disk'.job[j].status = disk.job[j].status
    BY <1>1, <1>8, WindsLemma
  <1> QED
    BY <1>2, <1>9 DEF ProcessStep, RowsMove, ActiveRows

(* What a process that ends leaves to the next one.                        *)
RestStep ==
  /\ mem' = Stopped /\ AtRest(disk', expiredTwins') /\ due' \subseteq ActiveRows(disk')
  /\ RowsMove(disk, disk')

(* What holds of a process holds of the rows it leaves.                    *)
LEMMA RestLemma ==
  ASSUME NEW m, NEW s, NEW v, InProcess(m, s, v)
  PROVE  AtRest(s, v)
  BY DEF InProcess, AtRest, JobIsSound, RowIsCurrent, LedgerIsExact, LedgerIsOwed, Active

(* The process ends between two handlers.                                  *)
LEMMA EndStep ==
  ASSUME InProcess(mem, disk, expiredTwins), due \subseteq ActiveRows(disk), Exit \/ Crash
  PROVE  RestStep
  <1>1. /\ mem' = Stopped /\ disk' = disk /\ expiredTwins' = expiredTwins /\ due' \subseteq due
    BY DEF Exit, Crash, ProcessEnds
  <1>2. AtRest(disk, expiredTwins)
    BY RestLemma
  <1> QED
    BY <1>1, <1>2 DEF RestStep, RowsMove

(* In no order is a success charged or announced before the row has it.    *)
LEMMA PrefixLemma ==
  ASSUME NEW made
  PROVE  /\ made \in TornPrefixes(ExpiryOrder) => "ledger" \notin made
         /\ made \in TornPrefixes(CancelOrder) => "ledger" \notin made
         /\ made \in TornPrefixes(FinishOrder) => "jobs" \in made
  <1>1. ASSUME NEW order \in Seq({"jobs", "ledger", "history"}), Len(order) = 3, made \in TornPrefixes(order)
        PROVE  order[1] \in made /\ made \subseteq {order[1], order[2]}
    <2>1. PICK n \in 1..2 : made = Range(SubSeq(order, 1, n))
      BY <1>1 DEF TornPrefixes
    <2> DEFINE q == SubSeq(order, 1, n)
    <2>2. DOMAIN q = 1..n /\ \A i \in 1..n : q[i] = order[i]
      BY <1>1, <2>1
    <2> HIDE DEF q
    <2>3. made = {q[i] : i \in DOMAIN q}
      BY <2>1 DEF Range, q
    <2>4. made = {order[i] : i \in 1..n}
      BY <2>2, <2>3
    <2>5. (n = 1 \/ n = 2) /\ 1 \in 1..n /\ \A i \in 1..n : i = 1 \/ i = 2
      BY <2>1
    <2> QED
      BY <2>4, <2>5
  <1>2. /\ ExpiryOrder \in Seq({"jobs", "ledger", "history"}) /\ Len(ExpiryOrder) = 3
        /\ ExpiryOrder[1] = "history" /\ ExpiryOrder[2] = "jobs"
    BY DEF ExpiryOrder
  <1>3. /\ CancelOrder \in Seq({"jobs", "ledger", "history"}) /\ Len(CancelOrder) = 3
        /\ CancelOrder[1] = "jobs" /\ CancelOrder[2] = "history"
    BY DEF CancelOrder
  <1>4. /\ FinishOrder \in Seq({"jobs", "ledger", "history"}) /\ Len(FinishOrder) = 3
        /\ FinishOrder[1] = "jobs"
    BY DEF FinishOrder
  <1>5. made \in TornPrefixes(ExpiryOrder) => "ledger" \notin made
    BY <1>1, <1>2
  <1>6. made \in TornPrefixes(CancelOrder) => "ledger" \notin made
    BY <1>1, <1>3
  <1>7. made \in TornPrefixes(FinishOrder) => "jobs" \in made
    BY <1>1, <1>4
  <1> QED
    BY <1>5, <1>6, <1>7

(* The process dies after some of the writes that settle a job.            *)
LEMMA TornStep ==
  ASSUME InProcess(mem, disk, expiredTwins), due \subseteq ActiveRows(disk),
         NEW j \in Jobs, NEW success \in BOOLEAN,
         StatusOf(mem, j) = "running" \/ (StatusOf(mem, j) = "queued" /\ Outcome(success) = "failed"),
         NEW n, Ends(mem, n, j, Outcome(success)),
         NEW p \in Disk, p.job = disk.job, p.ledger = disk.ledger, p.history = disk.history,
         NEW made,
         "ledger" \in made => "jobs" \in made,
         "history" \in made /\ Outcome(success) = "done" => "jobs" \in made,
         ProcessEnds(WriteSettlement(p, n, {j}, success, made))
  PROVE  RestStep
  <1> DEFINE t == WriteSettlement(p, n, {j}, success, made)
  <1>1. n \in Memory /\ {j} \in SUBSET Jobs
    BY DEF Ends
  <1>2. Written(p, n, {j}, success, made, t)
    BY <1>1, SettlementLemma
  <1>3. /\ mem' = Stopped /\ disk' = t /\ expiredTwins' = expiredTwins
        /\ due' = {k \in due : t.job[k].status \in Active}
    BY DEF ProcessEnds
  <1> HIDE DEF t
  <1>4. AtRest(t, expiredTwins) /\ RowsMove(disk, t)
    BY <1>2, TornLemma
  <1>5. due' \subseteq ActiveRows(t)
    BY <1>3 DEF ActiveRows
  <1> QED
    BY <1>3, <1>4, <1>5 DEF RestStep

(* Every way in which the process dies between two writes.                 *)
LEMMA CrashWhileSettlingStep ==
  ASSUME InProcess(mem, disk, expiredTwins), due \subseteq ActiveRows(disk),
         NEW j \in Jobs, CrashWhileSettling(j)
  PROVE  RestStep
  <1> DEFINE p == Promoted(disk, j)
  <1>1. /\ disk \in Disk /\ mem \in Memory /\ disk.job = disk.job
        /\ disk.ledger = disk.ledger /\ disk.history = disk.history
    BY DEF InProcess
  <1>2. p \in Disk /\ p.job = disk.job /\ p.ledger = disk.ledger /\ p.history = disk.history
    BY <1>1, AttributesAssumption DEF Disk, Promoted
  <1> HIDE DEF p
  <1>3. Outcome(FALSE) = "failed" /\ Outcome(TRUE) = "done" /\ FALSE \in BOOLEAN /\ TRUE \in BOOLEAN
    BY DEF Outcome
  <1>4. ASSUME StatusOf(mem, j) = "queued", NEW made \in TornPrefixes(ExpiryOrder),
               ProcessEnds(WriteSettlement(disk, Expired(mem, {j}), {j}, FALSE, made))
        PROVE  RestStep
    <2>1. Ends(mem, Expired(mem, {j}), j, Outcome(FALSE))
      BY <1>3, <1>4, QueuedEnds
    <2>2. "ledger" \notin made
      BY <1>4, PrefixLemma
    <2> QED
      BY <1>1, <1>3, <1>4, <2>1, <2>2, TornStep
  <1>5. ASSUME StatusOf(mem, j) = "queued", NEW made \in TornPrefixes(CancelOrder),
               ProcessEnds(WriteSettlement(disk, CancelledInQueue(mem, j), {j}, FALSE, made))
        PROVE  RestStep
    <2>1. Ends(mem, CancelledInQueue(mem, j), j, Outcome(FALSE))
      BY <1>3, <1>5, QueuedEnds
    <2>2. "ledger" \notin made
      BY <1>5, PrefixLemma
    <2> QED
      BY <1>1, <1>3, <1>5, <2>1, <2>2, TornStep
  <1>6. ASSUME mem.run[j].stage = "publish", NEW made \in TornPrefixes(FinishOrder),
               ProcessEnds(WriteSettlement(p, Succeeded(mem, j), {j}, TRUE, made))
        PROVE  RestStep
    <2>1. Ends(mem, Succeeded(mem, j), j, Outcome(TRUE)) /\ StatusOf(mem, j) = "running"
      BY <1>3, <1>6, SuccessEnds
    <2>2. "jobs" \in made
      BY <1>6, PrefixLemma
    <2> QED
      BY <1>2, <1>3, <1>6, <2>1, <2>2, TornStep
  <1>7. ASSUME mem.run[j].stage \in {"cleanup", "backoff"}, NEW made,
               made \in TornPrefixes(FinishOrder) \/ made \in TornPrefixes(CancelOrder),
               ProcessEnds(WriteSettlement(disk, Failed(mem, j), {j}, FALSE, made))
        PROVE  RestStep
    <2>1. Ends(mem, Failed(mem, j), j, "failed") /\ StatusOf(mem, j) = "running"
      <3>1. mem.run[j].stage # "none" /\ "failed" \in {"done", "failed"}
            /\ Failed(mem, j) = WithStatus(Returned(mem, j), j, "failed")
        BY <1>7 DEF Failed
      <3> HIDE DEF Failed
      <3> QED
        BY <3>1, RunEnds
    <2>2. "ledger" \in made => "jobs" \in made
      BY <1>7, PrefixLemma
    <2> QED
      BY <1>1, <1>3, <1>7, <2>1, <2>2, TornStep
  <1> QED
    BY <1>4, <1>5, <1>6, <1>7 DEF CrashWhileSettling, p

(* What recoverPersistedActiveJobs makes of the rows a process left.       *)
RecoveredDisk == [RecordJobHistory(disk, Interrupted, "failed") EXCEPT !.job = RecoveredRows]

(* recoverPersistedActiveJobs leaves sound rows, none of them running.     *)
LEMMA RecoveryLemma ==
  ASSUME AtRest(disk, expiredTwins)
  PROVE  /\ AtRest(RecoveredDisk, expiredTwins) /\ RowsMove(disk, RecoveredDisk)
         /\ ActiveRows(RecoveredDisk) = ActiveRows(disk) \ Interrupted
         /\ RecoveredDisk.job = RecoveredRows /\ RecoveredRows \in [Jobs -> JobRecord]
         /\ \A j \in Jobs : /\ RecoveredRows[j].status # "running"
                            /\ RecoveredRows[j].status = "queued" => ~RecoveredRows[j].recovery
  <1> DEFINE s == RecordJobHistory(disk, Interrupted, "failed")
             t == [s EXCEPT !.job = RecoveredRows]
  <1>1. disk \in Disk /\ Interrupted \in SUBSET Jobs /\ "failed" \in {"done", "failed"}
    BY DEF AtRest, Interrupted
  <1>2. /\ s \in Disk /\ s.job = disk.job /\ s.ledger = disk.ledger
        /\ \A j \in Jobs : s.history[j] = IF j \in Interrupted THEN "failed" ELSE disk.history[j]
    BY <1>1, HistoryLemma
  <1> HIDE DEF s
  <1>3. \A r \in JobRecord : /\ Recovered(r) \in JobRecord /\ Recovered(r).status = "queued"
                             /\ ~Recovered(r).recovery
    BY StatusesLemma DEF Recovered, JobRecord
  <1>4. Gone \in JobRecord /\ Gone.status = "gone"
    BY AbsentLemma
  <1>5. ASSUME NEW j \in Jobs
        PROVE  /\ disk.job[j] \in JobRecord
               /\ RecoveredRows[j] = IF j \in Interrupted THEN Gone
                                     ELSE IF j \in Resumed THEN Recovered(disk.job[j]) ELSE disk.job[j]
    BY <1>1 DEF Disk, RecoveredRows
  <1>6. RecoveredRows \in [Jobs -> JobRecord]
    <2>1. \A j \in Jobs : RecoveredRows[j] \in JobRecord
      BY <1>3, <1>4, <1>5
    <2> QED
      BY <2>1 DEF RecoveredRows
  <1>7. t \in Disk /\ t.job = RecoveredRows /\ t.ledger = disk.ledger /\ t.history = s.history
    BY <1>2, <1>6 DEF Disk
  <1>8. t = RecoveredDisk
    BY DEF RecoveredDisk, s
  <1> HIDE DEF t
  <1>9. ASSUME NEW j \in Jobs
        PROVE  /\ RecoveredRows[j].status # "running"
               /\ RecoveredRows[j].status = "queued" => ~RecoveredRows[j].recovery
               /\ RowIsSound(t, j) /\ LedgerIsOwed(t, expiredTwins, j)
               /\ \/ RecoveredRows[j].status = disk.job[j].status /\ j \notin Interrupted
                  \/ /\ disk.job[j].status = "running" /\ RecoveredRows[j].status = "queued"
                     /\ j \notin Interrupted
                  \/ /\ disk.job[j].status = "running" /\ RecoveredRows[j].status = "gone"
                     /\ j \in Interrupted
    <2>1. RowIsSound(disk, j) /\ LedgerIsOwed(disk, expiredTwins, j)
      BY DEF AtRest
    <2>2. CASE j \in Interrupted
      <3>1. /\ t.job[j] = Gone /\ t.ledger[j] = disk.ledger[j] /\ t.history[j] = "failed"
            /\ RecoveredRows[j] = Gone
        BY <1>2, <1>5, <1>7, <2>2
      <3>2. RowIsSound(t, j)
        BY <1>4, <3>1 DEF RowIsSound
      <3>3. LedgerIsOwed(t, expiredTwins, j)
        BY <1>4, <2>1, <3>1 DEF LedgerIsOwed, Active
      <3> QED
        BY <1>4, <2>2, <3>1, <3>2, <3>3 DEF Interrupted
    <2>3. CASE j \in Resumed
      <3> DEFINE r == Recovered(disk.job[j])
      <3>0. r \in JobRecord /\ r.status = "queued" /\ ~r.recovery
        BY <1>3, <1>5
      <3> HIDE DEF r
      <3>1. /\ j \notin Interrupted /\ disk.job[j].status = "running"
        BY <2>3 DEF Interrupted, Resumed
      <3>2. /\ t.job[j] = r /\ RecoveredRows[j] = r
            /\ t.ledger[j] = disk.ledger[j] /\ t.history[j] = disk.history[j]
        BY <1>2, <1>5, <1>7, <2>3, <3>1 DEF r
      <3>3. RowIsSound(t, j)
        BY <2>1, <3>0, <3>1, <3>2 DEF RowIsSound
      <3>4. LedgerIsOwed(t, expiredTwins, j)
        BY <2>1, <3>0, <3>1, <3>2 DEF LedgerIsOwed, Active
      <3> QED
        BY <3>0, <3>1, <3>2, <3>3, <3>4
    <2>4. CASE j \notin Interrupted /\ j \notin Resumed
      <3>1. disk.job[j].status # "running"
        BY <1>5, <2>4 DEF Interrupted, Resumed, JobRecord
      <3>2. /\ t.job[j] = disk.job[j] /\ RecoveredRows[j] = disk.job[j]
            /\ t.ledger[j] = disk.ledger[j] /\ t.history[j] = disk.history[j]
        BY <1>2, <1>5, <1>7, <2>4
      <3> QED
        BY <2>1, <2>4, <3>1, <3>2 DEF RowIsSound, LedgerIsOwed
    <2> QED
      BY <2>2, <2>3, <2>4
  <1>10. ActiveRows(t) = ActiveRows(disk) \ Interrupted
    BY <1>7, <1>9 DEF ActiveRows, Active
  <1>11. OneActiveRow(t)
    BY <1>10 DEF AtRest, OneActiveRow
  <1>12. RowsMove(disk, t)
    BY <1>7, <1>9 DEF RowsMove, Lifecycle!Moves
  <1> QED
    BY <1>6, <1>7, <1>8, <1>9, <1>10, <1>11, <1>12 DEF AtRest

(* reconcileDecryptQuota settles what a crash left reserved.               *)
LEMMA ReconcileLemma ==
  ASSUME NEW s \in Disk, NEW t, t = ReconcileDecryptQuota(s)
  PROVE  /\ t \in Disk /\ t.job = s.job /\ t.history = s.history
         /\ \A j \in Jobs : t.ledger[j] =
              IF s.ledger[j] # "reserved" THEN s.ledger[j]
              ELSE IF s.job[j].status \in {"done", "cached"} THEN "consumed"
              ELSE IF s.job[j].status \in Active THEN "reserved" ELSE "none"
  BY DEF Disk, ReconcileDecryptQuota

(* A process that dies while it starts leaves the rows as recoverable.     *)
LEMMA CrashWhileStartingStep ==
  ASSUME mem = Stopped, AtRest(disk, expiredTwins), due \subseteq ActiveRows(disk),
         CrashWhileStarting
  PROVE  RestStep
  <1> DEFINE s == RecordJobHistory(disk, Interrupted, "failed")
  <1>1. mem' = Stopped /\ expiredTwins' = expiredTwins
    BY DEF CrashWhileStarting
  <1>2. CASE disk' = s /\ due' = due
    <2>1. disk \in Disk /\ Interrupted \in SUBSET Jobs /\ "failed" \in {"done", "failed"}
      BY DEF AtRest, Interrupted
    <2>2. /\ s \in Disk /\ s.job = disk.job /\ s.ledger = disk.ledger
          /\ \A j \in Jobs : s.history[j] = IF j \in Interrupted THEN "failed" ELSE disk.history[j]
      BY <2>1, HistoryLemma
    <2> HIDE DEF s
    <2>3. \A j \in Jobs : RowIsSound(s, j) /\ LedgerIsOwed(s, expiredTwins, j)
      BY <2>2 DEF AtRest, RowIsSound, LedgerIsOwed
    <2>4. ActiveRows(s) = ActiveRows(disk)
      BY <2>2 DEF ActiveRows
    <2>5. AtRest(s, expiredTwins)
      BY <2>2, <2>3, <2>4 DEF AtRest, OneActiveRow
    <2>6. RowsMove(disk, s)
      BY <2>2 DEF RowsMove
    <2> QED
      BY <1>1, <1>2, <2>4, <2>5, <2>6 DEF RestStep
  <1>3. CASE disk' = RecoveredDisk /\ due' = due \ (Interrupted \cup Resumed)
    <2>1. /\ AtRest(disk', expiredTwins) /\ RowsMove(disk, disk')
          /\ ActiveRows(disk') = ActiveRows(disk) \ Interrupted
      BY <1>3, RecoveryLemma
    <2> QED
      BY <1>1, <1>3, <2>1 DEF RestStep
  <1> QED
    BY <1>2, <1>3 DEF CrashWhileStarting, RecoveredDisk

(* A start: rows, queue, timers and ledger agree again.                    *)
LEMMA RestartStep ==
  ASSUME mem = Stopped, AtRest(disk, expiredTwins), due \subseteq ActiveRows(disk), Restart
  PROVE  ProcessStep
  <1> DEFINE queued == {j \in Jobs : RecoveredRows[j].status = "queued"}
             s == RecoveredDisk
             timers == [j \in Jobs |-> IF j \in queued THEN "copy" ELSE "off"]
             still == [j \in Jobs |-> NoRun]
  <1>1. /\ AtRest(s, expiredTwins) /\ RowsMove(disk, s)
        /\ ActiveRows(s) = ActiveRows(disk) \ Interrupted
        /\ s.job = RecoveredRows /\ RecoveredRows \in [Jobs -> JobRecord]
        /\ \A j \in Jobs : /\ RecoveredRows[j].status # "running"
                           /\ RecoveredRows[j].status = "queued" => ~RecoveredRows[j].recovery
    BY RecoveryLemma
  <1>2. /\ disk' = ReconcileDecryptQuota(s) /\ due' = due \ (Interrupted \cup Resumed)
        /\ expiredTwins' = expiredTwins
    BY DEF Restart, RecoveredDisk
  <1>3. PICK q \in SetToSeqs(queued) :
          mem' = [Stopped EXCEPT !.phase = "up", !.job = RecoveredRows, !.queue = q, !.timer = timers]
    BY DEF Restart
  <1>4. q \in Seq(Jobs) /\ IsInjective(q) /\ Range(q) = queued
    <2>1. queued \subseteq Jobs /\ IsFiniteSet(queued)
      BY IdsAssumption, FS_Subset
    <2> HIDE DEF queued
    <2>2. q \in Seq(queued) /\ IsInjective(q) /\ Range(q) = queued
      BY <2>1, OrderLemma
    <2> QED
      BY <2>1, <2>2
  <1>5. /\ timers \in [Jobs -> {"off", "live", "copy"}]
        /\ \A j \in Jobs : timers[j] = IF j \in queued THEN "copy" ELSE "off"
    OBVIOUS
  <1>6. /\ still \in [Jobs -> [stage: Stages, worker: Workers \cup {NoWorker}]]
        /\ \A j \in Jobs : still[j].stage = "none"
    BY DEF NoRun, Stages
  <1>7. \A j \in Jobs : j \in queued <=> RecoveredRows[j].status = "queued"
    OBVIOUS
  <1>8. /\ mem'.phase = "up" /\ mem'.job = RecoveredRows /\ mem'.queue = q
        /\ mem'.timer = timers /\ mem'.run = still
        /\ mem' = [phase |-> "up", job |-> RecoveredRows, queue |-> q, timer |-> timers,
                   run |-> still, unwinding |-> {}, tracked |-> {}, awaited |-> {}]
    BY <1>3 DEF Stopped
  <1> HIDE DEF queued, timers, still, s
  <1>9. mem' \in Memory
    BY <1>1, <1>4, <1>5, <1>6, <1>8 DEF Memory
  <1>10. s \in Disk /\ OneActiveRow(s)
         /\ \A j \in Jobs : RowIsSound(s, j) /\ LedgerIsOwed(s, expiredTwins, j)
    BY <1>1 DEF AtRest
  <1>11. /\ disk' \in Disk /\ disk'.job = s.job /\ disk'.history = s.history
         /\ \A j \in Jobs : disk'.ledger[j] =
              IF s.ledger[j] # "reserved" THEN s.ledger[j]
              ELSE IF s.job[j].status \in {"done", "cached"} THEN "consumed"
              ELSE IF s.job[j].status \in Active THEN "reserved" ELSE "none"
    BY <1>2, <1>10, ReconcileLemma
  <1>12. ASSUME NEW j \in Jobs PROVE JobIsSound(mem', disk', expiredTwins, j)
    <2>1. /\ StatusOf(mem', j) = s.job[j].status /\ disk'.job[j] = s.job[j]
          /\ mem'.job[j] = s.job[j] /\ StatusOf(mem', j) # "running"
          /\ StatusOf(mem', j) = "queued" => ~mem'.job[j].recovery
      BY <1>1, <1>8, <1>11 DEF StatusOf
    <2>2. WaitsRightly(mem', expiredTwins, j)
      BY <1>1, <1>4, <1>5, <1>7, <1>8, <2>1 DEF WaitsRightly
    <2>3. WorksRightly(mem', j)
      <3>1. s.job[j].status = "absent" => ~s.job[j].tried
        BY <1>10 DEF RowIsSound
      <3> QED
        BY <1>6, <1>8, <2>1, <3>1 DEF WorksRightly, Active
    <2>4. RowIsSound(disk', j)
      BY <1>10, <1>11, <2>1 DEF RowIsSound
    <2>5. LedgerIsExact(mem', disk', expiredTwins, j)
      <3>1. /\ s.ledger[j] = "consumed" => s.job[j].status \in {"done", "gone"}
            /\ s.ledger[j] = "reserved" => s.job[j].status # "cached"
            /\ j \in BilledJobs \ expiredTwins =>
                 /\ s.job[j].status \in Active => s.ledger[j] = "reserved"
                 /\ s.job[j].status = "done" => s.ledger[j] # "none"
        BY <1>10 DEF LedgerIsOwed
      <3>2. disk'.ledger[j] =
              IF s.ledger[j] # "reserved" THEN s.ledger[j]
              ELSE IF s.job[j].status \in {"done", "cached"} THEN "consumed"
              ELSE IF s.job[j].status \in Active THEN "reserved" ELSE "none"
        BY <1>11
      <3>3. s.ledger[j] \in {"none", "reserved", "consumed"}
        BY <1>10 DEF Disk
      <3> QED
        BY <2>1, <3>1, <3>2, <3>3 DEF LedgerIsExact, Active
    <2> QED
      BY <2>1, <2>2, <2>3, <2>4, <2>5 DEF JobIsSound, RowIsCurrent
  <1>13. ActiveRows(disk') = ActiveRows(s)
    BY <1>11 DEF ActiveRows
  <1>14. InProcess(mem', disk', expiredTwins)
    BY <1>4, <1>8, <1>9, <1>10, <1>11, <1>12, <1>13 DEF InProcess, OneActiveRow
  <1>15. RowsMove(disk, disk')
    BY <1>1, <1>11 DEF RowsMove
  <1> QED
    BY <1>1, <1>2, <1>13, <1>14, <1>15 DEF ProcessStep

----------------------------------------------------------------------------
(* The invariant of the store.                                             *)

(* What is not in a job, a row or the queue.                               *)
Surroundings ==
  /\ healthy \subseteq Devices /\ offlineReady \in BOOLEAN /\ expiredTwins \subseteq Jobs
  /\ restarts \in 0..MaxRestarts /\ changes \in 0..MaxChanges

(* A new store: no job yet, every device ready.                            *)
LEMMA InitJobIInv == Init => JobIInv
  <1> SUFFICES ASSUME Init PROVE JobIInv
    OBVIOUS
  <1> DEFINE jobs == [j \in Jobs |-> Absent]
             empty == << >>
             off == [j \in Jobs |-> "off"]
             still == [j \in Jobs |-> NoRun]
  <1>1. /\ jobs \in [Jobs -> JobRecord]
        /\ \A j \in Jobs : jobs[j].status = "absent" /\ ~jobs[j].recovery /\ ~jobs[j].tried
    BY AbsentLemma
  <1>2. /\ empty \in Seq(Jobs) /\ IsInjective(empty) /\ Range(empty) = {}
        /\ off \in [Jobs -> {"off", "live", "copy"}] /\ \A j \in Jobs : off[j] = "off"
    BY DEF IsInjective, Range
  <1>3. /\ still \in [Jobs -> [stage: Stages, worker: Workers \cup {NoWorker}]]
        /\ \A j \in Jobs : still[j].stage = "none"
    BY DEF NoRun, Stages
  <1>4. mem = [phase |-> "up", job |-> jobs, queue |-> empty, timer |-> off, run |-> still,
               unwinding |-> {}, tracked |-> {}, awaited |-> {}]
    BY DEF Init, Stopped
  <1>5. /\ disk.job = jobs /\ disk = [job |-> jobs, ledger |-> [j \in Jobs |-> "none"],
             history |-> [j \in Jobs |-> "none"], artifacts |-> {},
             device |-> [d \in Devices |-> "ready"]]
    BY DEF Init
  <1> HIDE DEF jobs, empty, off, still
  <1>6. mem \in Memory /\ mem.phase = "up"
    BY <1>1, <1>2, <1>3, <1>4 DEF Memory
  <1>7. disk \in Disk
    BY <1>1, <1>5 DEF Disk
  <1>8. ASSUME NEW j \in Jobs PROVE JobIsSound(mem, disk, expiredTwins, j)
    <2>1. /\ StatusOf(mem, j) = "absent" /\ disk.job[j].status = "absent" /\ ~disk.job[j].recovery
          /\ disk.ledger[j] = "none" /\ disk.history[j] = "none"
          /\ ~mem.job[j].tried /\ ~disk.job[j].tried
      BY <1>1, <1>4, <1>5 DEF StatusOf
    <2>2. WaitsRightly(mem, expiredTwins, j) /\ WorksRightly(mem, j)
      BY <1>2, <1>3, <1>4, <2>1 DEF WaitsRightly, WorksRightly, Active
    <2> QED
      BY <2>1, <2>2 DEF JobIsSound, RowIsSound, RowIsCurrent, LedgerIsExact, Active
  <1>9. ActiveRows(disk) = {}
    BY <1>1, <1>5 DEF ActiveRows, Active
  <1>10. InProcess(mem, disk, expiredTwins)
    BY <1>2, <1>4, <1>6, <1>7, <1>8, <1>9 DEF InProcess, OneActiveRow
  <1>11. Surroundings /\ due = {}
    <2>1. /\ healthy = Devices /\ expiredTwins = {} /\ restarts = 0 /\ changes = 0 /\ due = {}
          /\ offlineReady \in {FALSE, OfflineEnabled}
      BY DEF Init
    <2>2. offlineReady \in BOOLEAN
      BY <2>1, LimitsAssumption
    <2>3. 0 \in 0..MaxRestarts /\ 0 \in 0..MaxChanges
      BY LimitsAssumption
    <2> QED
      BY <2>1, <2>2, <2>3 DEF Surroundings
  <1> QED
    BY <1>6, <1>10, <1>11 DEF JobIInv, Surroundings

(* The surroundings keep their types in every step.                        *)
LEMMA SurroundingsStep == Surroundings /\ [Next]_vars => Surroundings'
  <1> SUFFICES ASSUME Surroundings, [Next]_vars PROVE Surroundings'
    OBVIOUS
  <1> DEFINE Still == UNCHANGED <<healthy, offlineReady, expiredTwins, restarts, changes>>
  <1> USE LimitsAssumption DEF Surroundings
  <1>1. Still => Surroundings'
    OBVIOUS
  <1> HIDE DEF Still
  <1>2. ASSUME NEW j \in Jobs, JobAction(j) PROVE Surroundings'
    <2>1. ASSUME TwinDeadlineFires(j) PROVE Surroundings'
      BY <2>1 DEF TwinDeadlineFires
    <2>2. ASSUME CrashWhileSettling(j) PROVE Surroundings'
      <3>1. /\ restarts < MaxRestarts /\ restarts' = restarts + 1
            /\ \E s : ProcessEnds(s)
        BY <2>2 DEF CrashWhileSettling
      <3>2. healthy' = Devices /\ UNCHANGED <<offlineReady, expiredTwins, changes>>
        BY <3>1 DEF ProcessEnds
      <3> QED
        BY <3>1, <3>2
    <2>3. \/ TwinDeadlineFires(j) \/ CrashWhileSettling(j) \/ Still
      BY <1>2 DEF JobAction, Still, Enqueue, EnqueueDuplicate, EnqueueCached, CancelQueued, CancelRunning,
           DeadlinePasses, QueuedDeadlineFires, RunDeadlineFires, LastCheck, RunSucceeds, RunThrows,
           ErrorHandled, BackoffEnds, RunUnwinds, CleanupJob
    <2> QED
      BY <1>1, <2>1, <2>2, <2>3
  <1>3. ASSUME NEW d \in Devices,
               \/ \E value \in {"ready", "draining", "disabled"} : DeviceSet(d, value)
               \/ HealthChanges(d)
        PROVE  Surroundings'
    <2>1. OutsideChange
      BY <1>3 DEF DeviceSet, HealthChanges
    <2>2. /\ restarts' \in 0..MaxRestarts /\ changes' \in 0..MaxChanges
          /\ expiredTwins' \subseteq Jobs
      BY <2>1 DEF OutsideChange
    <2>3. /\ healthy' = healthy \/ healthy' = healthy \ {d} \/ healthy' = healthy \cup {d}
          /\ offlineReady' = offlineReady
      BY <1>3 DEF DeviceSet, HealthChanges
    <2> QED
      BY <2>2, <2>3
  <1>4. ASSUME OfflineReadinessChanges PROVE Surroundings'
    <2>1. /\ restarts' \in 0..MaxRestarts /\ changes' \in 0..MaxChanges
          /\ expiredTwins' \subseteq Jobs /\ healthy' = healthy
      BY <1>4 DEF OfflineReadinessChanges, OutsideChange
    <2>2. offlineReady' = ~offlineReady
      BY <1>4 DEF OfflineReadinessChanges
    <2>3. offlineReady' \in BOOLEAN
      BY <2>2, Zenon
    <2> QED
      BY <2>1, <2>3
  <1>5. ASSUME \/ \E front \in SetToAllKPermutations(Range(mem.queue)) : ReorderQueue(front)
               \/ \E d \in Devices : ReleasePinned(d)
               \/ Notify \/ DrainTimesOut \/ Restart
        PROVE  Surroundings'
    <2>1. Still
      BY <1>5 DEF ReorderQueue, ReleasePinned, Notify, DrainTimesOut, Restart, Still
    <2> QED
      BY <1>1, <2>1
  <1>6. ASSUME BeginShutdown \/ Exit \/ Crash \/ CrashWhileStarting PROVE Surroundings'
    BY <1>6 DEF BeginShutdown, Exit, Crash, CrashWhileStarting, ProcessEnds
  <1>7. ASSUME UNCHANGED vars PROVE Surroundings'
    BY <1>7 DEF vars
  <1> QED
    BY <1>2, <1>3, <1>4, <1>5, <1>6, <1>7 DEF Next

(* Time passes without anything else.                                      *)
LEMMA TimeStep ==
  ASSUME due \subseteq ActiveRows(disk),
         (\E j \in Jobs : DeadlinePasses(j)) \/ UNCHANGED vars
  PROVE  /\ UNCHANGED <<mem, disk, expiredTwins>> /\ due' \subseteq ActiveRows(disk)
         /\ RowsMove(disk, disk')
  BY DEF DeadlinePasses, ActiveNow, ActiveRows, RowsMove, vars

(* A handler of job j, in a process that runs.                             *)
LEMMA JobActionStep ==
  ASSUME InProcess(mem, disk, expiredTwins), due \subseteq ActiveRows(disk),
         NEW j \in Jobs, JobAction(j)
  PROVE  ProcessStep \/ RestStep \/ DeadlinePasses(j)
  <1>1. CASE Enqueue(j) \/ \E k \in Jobs : EnqueueDuplicate(j, k)
    BY <1>1, EnqueueStep, EnqueueDuplicateStep
  <1>2. CASE EnqueueCached(j) \/ CleanupJob(j)
    BY <1>2, EnqueueCachedStep, CleanupStep
  <1>3. CASE CancelQueued(j) \/ QueuedDeadlineFires(j) \/ TwinDeadlineFires(j)
    BY <1>3, CancelQueuedStep, TwinDeadlineStep
  <1>4. CASE CancelRunning(j) \/ RunDeadlineFires(j) \/ LastCheck(j)
    BY <1>4, CancelRunningStep, RunDeadlineStep, LastCheckStep
  <1>5. CASE RunSucceeds(j) \/ RunThrows(j)
    BY <1>5, RunSucceedsStep, RunThrowsStep
  <1>6. CASE ErrorHandled(j) \/ BackoffEnds(j)
    BY <1>6, ErrorHandledStep, BackoffEndsStep
  <1>7. CASE \E w \in Workers : RunUnwinds(j, w)
    BY <1>7, RunUnwindsStep
  <1>8. CASE CrashWhileSettling(j)
    BY <1>8, CrashWhileSettlingStep
  <1> QED
    BY <1>1, <1>2, <1>3, <1>4, <1>5, <1>6, <1>7, <1>8 DEF JobAction

(* A step of the store, the process running.                               *)
LEMMA RunningStep ==
  ASSUME InProcess(mem, disk, expiredTwins), due \subseteq ActiveRows(disk), [Next]_vars
  PROVE  \/ ProcessStep \/ RestStep
         \/ (\E j \in Jobs : DeadlinePasses(j)) \/ UNCHANGED vars
  <1>0. mem.phase # "down"
    BY DEF InProcess
  <1>1. CASE \E j \in Jobs : JobAction(j)
    BY <1>1, JobActionStep
  <1>2. CASE \E front \in SetToAllKPermutations(Range(mem.queue)) : ReorderQueue(front)
    BY <1>2, ReorderQueueStep
  <1>3. CASE \E d \in Devices : ReleasePinned(d)
    BY <1>3, ReleasePinnedStep
  <1>4. CASE \E d \in Devices : \E value \in {"ready", "draining", "disabled"} : DeviceSet(d, value)
    BY <1>4, DeviceSetStep
  <1>5. CASE Notify \/ OfflineReadinessChanges \/ \E d \in Devices : HealthChanges(d)
    BY <1>5, NotifyStep
  <1>6. CASE BeginShutdown
    BY <1>6, BeginShutdownStep
  <1>7. CASE DrainTimesOut
    BY <1>7, DrainTimesOutStep
  <1>8. CASE Exit \/ Crash
    BY <1>8, EndStep
  <1>9. ~Restart /\ ~CrashWhileStarting
    BY <1>0 DEF Restart, CrashWhileStarting
  <1> QED
    BY <1>1, <1>2, <1>3, <1>4, <1>5, <1>6, <1>7, <1>8, <1>9 DEF Next

(* While no process runs, nothing happens but a start.                     *)
LEMMA IdleStep ==
  ASSUME mem = Stopped, [Next]_vars
  PROVE  Restart \/ CrashWhileStarting \/ (\E j \in Jobs : DeadlinePasses(j)) \/ UNCHANGED vars
  <1>1. /\ mem.phase = "down" /\ ~Up /\ ~Running
        /\ \A j \in Jobs : mem.run[j].stage = "none"
    BY DEF Stopped, Up, Running, NoRun
  <1>2. ASSUME NEW j \in Jobs, JobAction(j) PROVE DeadlinePasses(j)
    BY <1>1, <1>2 DEF JobAction, Enqueue, EnqueueDuplicate, EnqueueCached, CancelQueued, CancelRunning,
         QueuedDeadlineFires, TwinDeadlineFires, RunDeadlineFires, LastCheck, RunSucceeds, RunThrows,
         ErrorHandled, BackoffEnds, RunUnwinds, CleanupJob, CrashWhileSettling
  <1>3. /\ \A front : ~ReorderQueue(front)
        /\ \A d \in Devices : ~ReleasePinned(d) /\ ~HealthChanges(d) /\ \A value : ~DeviceSet(d, value)
        /\ ~OfflineReadinessChanges /\ ~Notify
    BY <1>1 DEF ReorderQueue, ReleasePinned, HealthChanges, DeviceSet, OfflineReadinessChanges, Notify,
         OutsideChange
  <1>4. ~BeginShutdown /\ ~DrainTimesOut /\ ~Exit /\ ~Crash
    BY <1>1 DEF BeginShutdown, DrainTimesOut, Exit, Crash
  <1> QED
    BY <1>2, <1>3, <1>4 DEF Next

(* A step of the store, no process running: only a start can fail or work. *)
LEMMA StoppedStep ==
  ASSUME mem = Stopped, AtRest(disk, expiredTwins), due \subseteq ActiveRows(disk), [Next]_vars
  PROVE  \/ ProcessStep \/ RestStep
         \/ (\E j \in Jobs : DeadlinePasses(j)) \/ UNCHANGED vars
  <1>1. Restart \/ CrashWhileStarting \/ (\E j \in Jobs : DeadlinePasses(j)) \/ UNCHANGED vars
    BY IdleStep
  <1>2. CASE Restart \/ CrashWhileStarting
    BY <1>2, RestartStep, CrashWhileStartingStep
  <1> QED
    BY <1>1, <1>2

(* The invariant is inductive, and the rows of a step move as they may.    *)
LEMMA JobStepIInv == JobIInv /\ [Next]_vars => JobIInv' /\ RowsMove(disk, disk')
  <1> SUFFICES ASSUME JobIInv, [Next]_vars PROVE JobIInv' /\ RowsMove(disk, disk')
    OBVIOUS
  <1>1. Surroundings /\ due \subseteq ActiveRows(disk)
    BY DEF JobIInv, Surroundings
  <1>2. Surroundings'
    BY <1>1, SurroundingsStep
  <1>3. \/ ProcessStep \/ RestStep
        \/ (\E j \in Jobs : DeadlinePasses(j)) \/ UNCHANGED vars
    <2>1. CASE mem.phase = "down"
      <3>1. mem = Stopped /\ AtRest(disk, expiredTwins)
        BY <2>1 DEF JobIInv
      <3> QED
        BY <1>1, <3>1, StoppedStep
    <2>2. CASE mem.phase # "down"
      <3>1. InProcess(mem, disk, expiredTwins)
        BY <2>2 DEF JobIInv
      <3> QED
        BY <1>1, <3>1, RunningStep
    <2> QED
      BY <2>1, <2>2
  <1>4. ASSUME ProcessStep PROVE JobIInv' /\ RowsMove(disk, disk')
    <2>1. mem'.phase # "down"
      BY <1>4 DEF ProcessStep, InProcess
    <2> QED
      BY <1>2, <1>4, <2>1 DEF ProcessStep, JobIInv, Surroundings
  <1>5. ASSUME RestStep PROVE JobIInv' /\ RowsMove(disk, disk')
    <2>1. mem'.phase = "down"
      BY <1>5 DEF RestStep, Stopped
    <2> QED
      BY <1>2, <1>5, <2>1 DEF RestStep, JobIInv, Surroundings
  <1>6. ASSUME (\E j \in Jobs : DeadlinePasses(j)) \/ UNCHANGED vars
        PROVE  JobIInv' /\ RowsMove(disk, disk')
    <2>1. /\ UNCHANGED <<mem, disk, expiredTwins>> /\ due' \subseteq ActiveRows(disk)
          /\ RowsMove(disk, disk')
      BY <1>1, <1>6, TimeStep
    <2> QED
      BY <1>2, <2>1 DEF JobIInv, Surroundings
  <1> QED
    BY <1>3, <1>4, <1>5, <1>6

(* The inductive invariant holds throughout.                               *)
LEMMA JobInvariant == Spec => []JobIInv
  <1> QED
    BY InitJobIInv, JobStepIInv, PTL DEF Spec

----------------------------------------------------------------------------
(* The theorems.                                                           *)

(* Rows, ledger and history tell the same story, whatever order requests,  *)
(* ends of runs, cancels and deadlines come in and between whatever writes *)
(* of a settlement the process dies.                                       *)
THEOREM BooksAlwaysAgree == Spec => []BooksAgree
  <1>1. JobIInv => BooksAgree
    <2> SUFFICES ASSUME JobIInv PROVE BooksAgree
      OBVIOUS
    <2>1. LedgerMatchesJobs
      <3> SUFFICES ASSUME Running PROVE LedgerMatchesJobs
        BY DEF LedgerMatchesJobs
      <3>1. \A j \in Jobs : LedgerIsExact(mem, disk, expiredTwins, j)
        BY DEF Running, JobIInv, InProcess, JobIsSound
      <3> QED
        BY <3>1 DEF LedgerMatchesJobs, LedgerIsExact
    <2>2. \A j \in Jobs : RowIsSound(disk, j)
      BY DEF JobIInv, InProcess, AtRest, JobIsSound
    <2>3. HistoryNeverAhead
      BY <2>2 DEF HistoryNeverAhead, RowIsSound
    <2> QED
      BY <2>1, <2>3 DEF BooksAgree
  <1> QED
    BY <1>1, JobInvariant, PTL

(* While jobs are accepted the queue is the set of queued jobs, each once  *)
(* and with a deadline timer, and no two active jobs ever share a build.   *)
THEOREM QueueAlwaysSound == Spec => []QueueIsSound
  <1>1. JobIInv => QueueIsSound
    <2> SUFFICES ASSUME JobIInv PROVE QueueIsSound
      OBVIOUS
    <2>1. QueueIsExact
      <3> SUFFICES ASSUME Up PROVE QueueIsExact
        BY DEF QueueIsExact
      <3>1. InProcess(mem, disk, expiredTwins) /\ mem.phase = "up"
        BY DEF JobIInv, Up
      <3>2. \A j \in Jobs : WaitsRightly(mem, expiredTwins, j)
        BY <3>1 DEF InProcess, JobIsSound
      <3>3. IsInjective(mem.queue) /\ Range(mem.queue) \subseteq Jobs
        BY <3>1 DEF InProcess, Memory, Range
      <3> QED
        BY <3>1, <3>2, <3>3 DEF QueueIsExact, WaitsRightly
    <2>2. OneActiveRow(disk)
      BY DEF JobIInv, InProcess, AtRest
    <2>3. OneActiveJobPerBuild
      BY <2>2 DEF OneActiveJobPerBuild, OneActiveRow, ActiveRows
    <2> QED
      BY <2>1, <2>3 DEF QueueIsSound
  <1> QED
    BY <1>1, JobInvariant, PTL

(* The job store implements JobLifecycle: each row moves only as a job may *)
(* and a build never has two unsettled rows, across crashes and restarts.  *)
THEOREM StoreFollowsLifecycle == Spec => RowsFollowLifecycle
  <1> DEFINE life == [j \in Jobs |-> disk.job[j].status]
  <1>1. Init => Lifecycle!Init
    <2> SUFFICES ASSUME Init PROVE Lifecycle!Init
      OBVIOUS
    <2>1. \A j \in Jobs : disk.job[j].status = "absent"
      BY AbsentLemma DEF Init
    <2> QED
      BY <2>1 DEF Lifecycle!Init
  <1>2. JobIInv /\ JobIInv' /\ RowsMove(disk, disk') => Lifecycle!Next
    <2> SUFFICES ASSUME JobIInv', RowsMove(disk, disk') PROVE Lifecycle!Next
      OBVIOUS
    <2>1. OneActiveRow(disk')
      BY DEF JobIInv, InProcess, AtRest
    <2>2. Lifecycle!OnePerBuild(life')
      BY <2>1 DEF Lifecycle!OnePerBuild, Lifecycle!Unsettled, OneActiveRow, ActiveRows, Active, SameBuild
    <2>3. \A j \in Jobs : life'[j] = life[j] \/ <<life[j], life'[j]>> \in Lifecycle!Moves
      BY DEF RowsMove
    <2> QED
      BY <2>2, <2>3 DEF Lifecycle!Next
  <1>3. JobIInv /\ [Next]_vars => [Lifecycle!Next]_life
    BY <1>2, JobStepIInv
  <1> QED
    BY <1>1, <1>3, JobInvariant, PTL DEF Spec, RowsFollowLifecycle, Lifecycle!Spec

----------------------------------------------------------------------------
(* Workers and caps.                                                       *)

(* The parts of DispatchIsSound, of any memory.                            *)
Exclusive(m) == \A p, q \in BusyWorkers(m) : p # q => p[2] # q[2] \/ p[2] = Offline
WithinSlots(m) == Cardinality(BusyOffline(m)) <= OfflineWorkers
WithinCap(m) ==
  UserCap > 0 => \A o \in Owners : Cardinality(RunningFor(m, o)) <= UserCap
DispatchSound(m) == Exclusive(m) /\ WithinSlots(m) /\ WithinCap(m)

(* Nobody starts from m to n: workers only come free.                      *)
Relieves(m, n) ==
  /\ \A j \in Jobs : n.run[j].stage # "none" =>
       m.run[j].stage # "none" /\ n.run[j].worker = m.run[j].worker
  /\ n.unwinding \subseteq BusyWorkers(m)
  /\ \A j \in Jobs : StatusOf(n, j) = "running" => StatusOf(m, j) = "running"

(* A bounded set of numbers has a greatest one.                            *)
LEMMA MaxLemma ==
  ASSUME NEW S \in SUBSET Nat, S # {}, NEW b \in Nat, \A x \in S : x <= b
  PROVE  \E x \in S : \A y \in S : y <= x
  <1> DEFINE T == {b - x : x \in S}
  <1>1. T \in SUBSET Nat /\ T # {}
    <2>1. \A x \in S : b - x \in Nat
      OBVIOUS
    <2>2. T \in SUBSET Nat
      BY <2>1
    <2>3. PICK x \in S : TRUE
      OBVIOUS
    <2>4. b - x \in T
      BY <2>3
    <2> QED
      BY <2>2, <2>4
  <1>2. \A x \in S : b - x \in T
    OBVIOUS
  <1>3. \A e \in T : \E x \in S : e = b - x
    OBVIOUS
  <1> HIDE DEF T
  <1>4. Min(T) \in T /\ \A e \in T : Min(T) <= e
    BY <1>1, MinLemma
  <1>5. PICK x \in S : Min(T) = b - x
    BY <1>3, <1>4
  <1>6. \A y \in S : b - x <= b - y
    BY <1>2, <1>4, <1>5
  <1> QED
    BY <1>6

(* One element more.                                                       *)
LEMMA OneMoreLemma ==
  ASSUME NEW S, IsFiniteSet(S), NEW T, NEW e, T \subseteq S \cup {e}
  PROVE  /\ Cardinality(T) \in Nat /\ Cardinality(S) \in Nat
         /\ Cardinality(T) <= Cardinality(S) + 1
  <1>1. /\ IsFiniteSet(S \cup {e}) /\ Cardinality(S) \in Nat
        /\ Cardinality(S \cup {e}) \in {Cardinality(S), Cardinality(S) + 1}
    BY FS_AddElement, FS_CardinalityType
  <1>2. IsFiniteSet(T) /\ Cardinality(T) <= Cardinality(S \cup {e})
    BY <1>1, FS_Subset
  <1>3. Cardinality(T) \in Nat
    BY <1>2, FS_CardinalityType
  <1> QED
    BY <1>1, <1>2, <1>3

(* The jobs at server-side workers, and those of an owner, are finite.     *)
LEMMA FiniteLemma ==
  ASSUME NEW m \in Memory
  PROVE  /\ BusyOffline(m) \subseteq Jobs /\ IsFiniteSet(BusyOffline(m))
         /\ \A o : RunningFor(m, o) \subseteq Jobs /\ IsFiniteSet(RunningFor(m, o))
  <1>1. m.unwinding \subseteq Jobs \X Workers
    BY DEF Memory
  <1>2. BusyOffline(m) \subseteq Jobs
    BY <1>1 DEF BusyOffline, BusyWorkers
  <1>3. \A o : RunningFor(m, o) \subseteq Jobs
    BY DEF RunningFor
  <1>4. \A S \in SUBSET Jobs : IsFiniteSet(S)
    BY IdsAssumption, FS_Subset
  <1> QED
    BY <1>2, <1>3, <1>4

(* Workers that come free leave the rest as sound as it was.               *)
LEMMA RelievesLemma ==
  ASSUME NEW m \in Memory, NEW n, Relieves(m, n), DispatchSound(m)
  PROVE  DispatchSound(n)
  <1>1. BusyWorkers(n) \subseteq BusyWorkers(m)
    <2>1. \A j \in Jobs : n.run[j].stage # "none" => <<j, n.run[j].worker>> \in BusyWorkers(m)
      BY DEF Relieves, BusyWorkers
    <2> QED
      BY <2>1 DEF Relieves, BusyWorkers
  <1>2. BusyOffline(n) \subseteq BusyOffline(m)
    BY <1>1 DEF BusyOffline
  <1>3. Exclusive(n)
    BY <1>1 DEF DispatchSound, Exclusive
  <1>4. WithinSlots(n)
    <2>1. /\ IsFiniteSet(BusyOffline(m)) /\ Cardinality(BusyOffline(n)) <= Cardinality(BusyOffline(m))
          /\ IsFiniteSet(BusyOffline(n))
      BY <1>2, FiniteLemma, FS_Subset
    <2>2. Cardinality(BusyOffline(n)) \in Nat /\ Cardinality(BusyOffline(m)) \in Nat
      BY <2>1, FS_CardinalityType
    <2>3. OfflineWorkers \in Nat
      BY LimitsAssumption
    <2> QED
      BY <2>1, <2>2, <2>3 DEF DispatchSound, WithinSlots
  <1>5. WithinCap(n)
    <2> SUFFICES ASSUME UserCap > 0, NEW o \in Owners
                 PROVE  Cardinality(RunningFor(n, o)) <= UserCap
      BY DEF WithinCap
    <2>1. RunningFor(n, o) \subseteq RunningFor(m, o)
      BY DEF Relieves, RunningFor
    <2>2. /\ IsFiniteSet(RunningFor(m, o)) /\ IsFiniteSet(RunningFor(n, o))
          /\ Cardinality(RunningFor(n, o)) <= Cardinality(RunningFor(m, o))
      BY <2>1, FiniteLemma, FS_Subset
    <2>3. Cardinality(RunningFor(n, o)) \in Nat /\ Cardinality(RunningFor(m, o)) \in Nat
      BY <2>2, FS_CardinalityType
    <2>4. UserCap \in Nat /\ Cardinality(RunningFor(m, o)) <= UserCap
      BY LimitsAssumption DEF DispatchSound, WithinCap
    <2> QED
      BY <2>2, <2>3, <2>4
  <1> QED
    BY <1>3, <1>4, <1>5 DEF DispatchSound

(* The jobs that are taken before the device of job j takes its own.       *)
TakenBefore(X, a, rank, j) == {k \in X : a[k] = Offline \/ rank[a[k]] < rank[a[j]]}

(* takeNextDispatchableJobId: the device was free, it is given one job,    *)
(* and the owner's cap counts what was taken before.                       *)
LEMMA DeviceTakes ==
  ASSUME NEW m \in Memory, NEW r, NEW X \in SUBSET Jobs, NEW a, Assigns(a, X),
         NEW rank, TakesDevices(m, r, a, rank), NEW j \in X, a[j] \in Devices
  PROVE  /\ a[j] \notin BusyDevices(m)
         /\ \A k \in X : a[k] = a[j] => k = j
         /\ UnderCap(m, j, TakenBefore(X, a, rank, j))
  <1> DEFINE d == a[j]
             taken == {k \in X : a[k] = Offline \/ rank[a[k]] < rank[d]}
             able == {i \in DOMAIN m.queue : /\ m.queue[i] \notin taken
                                             /\ Dispatchable(m, m.queue[i], d)
                                             /\ UnderCap(m, m.queue[i], taken)}
  <1>1. DOMAIN a = X
    BY DEF Assigns
  <1>2. {k \in X : a[k] = d} = IF d \in FreeDevices(m, r) /\ able # {} THEN {m.queue[Min(able)]} ELSE {}
    BY <1>1 DEF TakesDevices
  <1>3. able \in SUBSET Nat
    BY DEF Memory
  <1>4. \A i \in able : UnderCap(m, m.queue[i], taken)
    OBVIOUS
  <1>5. j \in {k \in X : a[k] = d}
    OBVIOUS
  <1> HIDE DEF able, taken
  <1>6. d \in FreeDevices(m, r) /\ able # {} /\ {k \in X : a[k] = d} = {m.queue[Min(able)]}
    BY <1>2, <1>5
  <1>7. Min(able) \in able
    BY <1>3, <1>6, MinLemma
  <1>8. j = m.queue[Min(able)] /\ \A k \in X : a[k] = d => k = j
    BY <1>6
  <1>9. d \notin BusyDevices(m)
    BY <1>6 DEF FreeDevices
  <1> QED
    BY <1>4, <1>7, <1>8, <1>9 DEF taken, TakenBefore

(* takeNextOfflineJobId: a slot is left, and the cap counts what is ahead. *)
LEMMA OfflineTakes ==
  ASSUME NEW m \in Memory, NEW X \in SUBSET Jobs, NEW a, Assigns(a, X),
         TakesOffline(m, a), NEW i \in DOMAIN m.queue,
         m.queue[i] \in X, a[m.queue[i]] = Offline,
         NEW T, T = {m.queue[k] : k \in 1..(i-1)} \cap {j \in X : a[j] = Offline}
  PROVE  /\ Cardinality(BusyOffline(m)) + Cardinality(T) < OfflineWorkers
         /\ UnderCap(m, m.queue[i], T)
  <1>1. DOMAIN a = X
    BY DEF Assigns
  <1> QED
    BY <1>1 DEF TakesOffline

(* Of jobs in the queue one is last, the others are ahead of it.           *)
LEMMA LastOfQueue ==
  ASSUME NEW m \in Memory, NEW A, A # {}, A \subseteq Range(m.queue)
  PROVE  \E i \in DOMAIN m.queue : /\ m.queue[i] \in A
                                   /\ A \subseteq ({m.queue[k] : k \in 1..(i-1)} \cap A) \cup {m.queue[i]}
  <1> DEFINE I == {i \in DOMAIN m.queue : m.queue[i] \in A}
  <1>1. m.queue \in Seq(Jobs) /\ Len(m.queue) \in Nat /\ DOMAIN m.queue = 1..Len(m.queue)
    BY DEF Memory
  <1>2. I \in SUBSET Nat /\ \A i \in I : i <= Len(m.queue)
    BY <1>1
  <1>3. \A j \in A : \E i \in I : j = m.queue[i]
    BY DEF Range
  <1>4. I # {}
    BY <1>3
  <1>5. PICK i \in I : \A k \in I : k <= i
    BY <1>1, <1>2, <1>4, MaxLemma
  <1>6. ASSUME NEW j \in A PROVE j \in ({m.queue[k] : k \in 1..(i-1)} \cap A) \cup {m.queue[i]}
    <2>1. PICK k \in I : j = m.queue[k]
      BY <1>3
    <2>2. k <= i /\ k \in 1..Len(m.queue) /\ i \in 1..Len(m.queue)
      BY <1>1, <1>5
    <2>3. k = i \/ k \in 1..(i-1)
      BY <1>1, <2>2
    <2> QED
      BY <2>1, <2>3
  <1> QED
    BY <1>6

(* Two finite sets together.                                               *)
LEMMA JoinLemma ==
  ASSUME NEW S, IsFiniteSet(S), NEW T, IsFiniteSet(T)
  PROVE  IsFiniteSet(S \cup T) /\ Cardinality(S \cup T) <= Cardinality(S) + Cardinality(T)
  <1>1. /\ IsFiniteSet(S \cup T) /\ IsFiniteSet(S \cap T)
        /\ Cardinality(S \cup T) = Cardinality(S) + Cardinality(T) - Cardinality(S \cap T)
    BY FS_Union, FS_Intersection
  <1>2. Cardinality(S) \in Nat /\ Cardinality(T) \in Nat /\ Cardinality(S \cap T) \in Nat
    BY <1>1, FS_CardinalityType
  <1> QED
    BY <1>1, <1>2

(* Whom a pump starts: workers that were free, one job each, within the    *)
(* slots and within every owner's cap.                                     *)
LEMMA StartsDispatch ==
  ASSUME NEW m \in Memory, DispatchSound(m),
         NEW X \in SUBSET Jobs, X \subseteq Range(m.queue), NEW a, Assigns(a, X),
         NEW r, NEW rank \in Rankings, TakesOffline(m, a), TakesDevices(m, r, a, rank),
         NEW n, n = Begun(m, a)
  PROVE  DispatchSound(n)
  <1>1. m \in Memory
    OBVIOUS
  <1>2. /\ n \in Memory /\ n.unwinding = m.unwinding
        /\ \A j \in Jobs \ X : n.job[j] = m.job[j] /\ n.run[j] = m.run[j]
        /\ \A j \in X : n.job[j].status = "running" /\ n.run[j] = [stage |-> "work", worker |-> a[j]]
    BY <1>1, BegunLemma
  <1>3. /\ \A j \in X : a[j] \in Workers /\ (a[j] \in Devices \/ a[j] = Offline)
        /\ Offline \notin Devices
    BY IdsAssumption DEF Assigns, Workers
  <1>4. BusyWorkers(n) \subseteq BusyWorkers(m) \cup {<<j, a[j]>> : j \in X}
    <2>1. ASSUME NEW j \in Jobs, n.run[j].stage # "none"
          PROVE  <<j, n.run[j].worker>> \in BusyWorkers(m) \cup {<<k, a[k]>> : k \in X}
      <3>1. CASE j \in X
        <4>1. n.run[j].worker = a[j]
          <5>1. n.run[j] = [stage |-> "work", worker |-> a[j]]
            BY <1>2, <3>1
          <5> QED
            BY <5>1
        <4>2. <<j, a[j]>> \in {<<k, a[k]>> : k \in X}
          BY <3>1
        <4> QED
          BY <4>1, <4>2
      <3>2. CASE j \notin X
        <4>1. n.run[j] = m.run[j]
          BY <1>2, <3>2
        <4>2. <<j, m.run[j].worker>> \in BusyWorkers(m)
          BY <2>1, <4>1 DEF BusyWorkers
        <4> QED
          BY <4>1, <4>2
      <3> QED
        BY <3>1, <3>2
    <2>2. n.unwinding \subseteq BusyWorkers(m)
      BY <1>2 DEF BusyWorkers
    <2> QED
      BY <2>1, <2>2 DEF BusyWorkers
  <1>5. ASSUME NEW j \in X, a[j] \in Devices
        PROVE  /\ a[j] \notin BusyDevices(m)
               /\ \A k \in X : a[k] = a[j] => k = j
               /\ UnderCap(m, j, TakenBefore(X, a, rank, j))
    BY <1>1, <1>5, DeviceTakes
  <1>6. Exclusive(n)
    <2> SUFFICES ASSUME NEW p \in BusyWorkers(n), NEW q \in BusyWorkers(n), p # q,
                        p[2] = q[2], p[2] # Offline
                 PROVE  FALSE
      BY DEF Exclusive
    <2>1. ASSUME NEW e \in BusyWorkers(m), e[2] # Offline PROVE e[2] \in BusyDevices(m)
      BY <2>1 DEF BusyDevices
    <2>2. ASSUME NEW j \in X, a[j] # Offline, NEW e \in BusyWorkers(n), e[2] = a[j]
          PROVE  e = <<j, a[j]>>
      <3>1. a[j] \in Devices
        BY <1>3, <2>2
      <3>2. e \notin BusyWorkers(m)
        BY <1>5, <2>1, <2>2, <3>1
      <3>3. PICK k \in X : e = <<k, a[k]>>
        BY <1>4, <3>2
      <3>4. k = j
        BY <1>5, <2>2, <3>1, <3>3
      <3> QED
        BY <3>3, <3>4
    <2>3. p \in BusyWorkers(m) \/ \E j \in X : p = <<j, a[j]>>
      BY <1>4
    <2>4. q \in BusyWorkers(m) \/ \E j \in X : q = <<j, a[j]>>
      BY <1>4
    <2>5. CASE p \in BusyWorkers(m) /\ q \in BusyWorkers(m)
      BY <2>5 DEF DispatchSound, Exclusive
    <2>6. CASE \E j \in X : p = <<j, a[j]>>
      <3>1. PICK j \in X : p = <<j, a[j]>>
        BY <2>6
      <3>2. a[j] # Offline /\ q[2] = a[j]
        BY <3>1
      <3> QED
        BY <2>2, <3>1, <3>2
    <2>7. CASE \E j \in X : q = <<j, a[j]>>
      <3>1. PICK j \in X : q = <<j, a[j]>>
        BY <2>7
      <3>2. a[j] # Offline /\ p[2] = a[j]
        BY <3>1
      <3> QED
        BY <2>2, <3>1, <3>2
    <2> QED
      BY <2>3, <2>4, <2>5, <2>6, <2>7
  <1>7. WithinSlots(n)
    <2> DEFINE A == {j \in X : a[j] = Offline}
    <2>1. BusyOffline(n) \subseteq BusyOffline(m) \cup A
      <3>1. ASSUME NEW e \in BusyWorkers(n), e[2] = Offline
            PROVE  e[1] \in BusyOffline(m) \cup A
        <4>1. CASE e \in BusyWorkers(m)
          BY <3>1, <4>1 DEF BusyOffline
        <4>2. CASE e \notin BusyWorkers(m)
          <5>1. PICK j \in X : e = <<j, a[j]>>
            BY <1>4, <4>2
          <5> QED
            BY <3>1, <5>1
        <4> QED
          BY <4>1, <4>2
      <3> QED
        BY <3>1 DEF BusyOffline
    <2>2. /\ IsFiniteSet(BusyOffline(m)) /\ Cardinality(BusyOffline(m)) \in Nat
          /\ Cardinality(BusyOffline(m)) <= OfflineWorkers /\ OfflineWorkers \in Nat
      BY <1>1, FiniteLemma, FS_CardinalityType, LimitsAssumption DEF DispatchSound, WithinSlots
    <2>3. CASE A = {}
      <3>1. BusyOffline(n) \in SUBSET BusyOffline(m)
        BY <2>1, <2>3
      <3>2. /\ IsFiniteSet(BusyOffline(n))
            /\ Cardinality(BusyOffline(n)) <= Cardinality(BusyOffline(m))
        BY <2>2, <3>1, FS_Subset
      <3>3. Cardinality(BusyOffline(n)) \in Nat
        BY <3>2, FS_CardinalityType
      <3> QED
        BY <2>2, <3>2, <3>3 DEF WithinSlots
    <2>4. CASE A # {}
      <3>1. A \subseteq Range(m.queue)
        OBVIOUS
      <3> HIDE DEF A
      <3>2. PICK i \in DOMAIN m.queue :
              /\ m.queue[i] \in A
              /\ A \subseteq ({m.queue[k] : k \in 1..(i-1)} \cap A) \cup {m.queue[i]}
        BY <1>1, <2>4, <3>1, LastOfQueue
      <3> DEFINE T == {m.queue[k] : k \in 1..(i-1)} \cap A
                 U == BusyOffline(m) \cup T
      <3>3. Cardinality(BusyOffline(m)) + Cardinality(T) < OfflineWorkers
        <4>1. m.queue[i] \in X /\ a[m.queue[i]] = Offline
          BY <3>2 DEF A
        <4>2. T = {m.queue[k] : k \in 1..(i-1)} \cap {j \in X : a[j] = Offline}
          BY DEF A
        <4> HIDE DEF T
        <4> QED
          BY <1>1, <4>1, <4>2, OfflineTakes
      <3>4. IsFiniteSet(T) /\ Cardinality(T) \in Nat
        <4>1. T \in SUBSET Jobs
          BY DEF A
        <4> QED
          BY <4>1, IdsAssumption, FS_Subset, FS_CardinalityType
      <3>5. BusyOffline(n) \subseteq U \cup {m.queue[i]}
        BY <2>1, <3>2
      <3> HIDE DEF T
      <3>6. IsFiniteSet(U) /\ Cardinality(U) <= Cardinality(BusyOffline(m)) + Cardinality(T)
        BY <2>2, <3>4, JoinLemma
      <3> HIDE DEF U
      <3>7. /\ Cardinality(BusyOffline(n)) \in Nat /\ Cardinality(U) \in Nat
            /\ Cardinality(BusyOffline(n)) <= Cardinality(U) + 1
        BY <3>5, <3>6, OneMoreLemma
      <3> QED
        BY <2>2, <3>3, <3>4, <3>6, <3>7 DEF WithinSlots
    <2> QED
      BY <2>3, <2>4
  <1>8. WithinCap(n)
    <2> SUFFICES ASSUME UserCap > 0, NEW o \in Owners
                 PROVE  Cardinality(RunningFor(n, o)) <= UserCap
      BY DEF WithinCap
    <2> DEFINE A == {j \in X : Owner[j] = o}
               D == {j \in A : a[j] \in Devices}
    <2>1. RunningFor(n, o) \subseteq RunningFor(m, o) \cup A
      BY <1>2 DEF RunningFor, StatusOf
    <2>2. /\ IsFiniteSet(RunningFor(m, o)) /\ Cardinality(RunningFor(m, o)) \in Nat
          /\ Cardinality(RunningFor(m, o)) <= UserCap /\ UserCap \in Nat
      BY <1>1, FiniteLemma, FS_CardinalityType, LimitsAssumption DEF DispatchSound, WithinCap
    <2>3. ASSUME NEW j \in A, NEW T \in SUBSET Jobs, UnderCap(m, j, T), A \subseteq T \cup {j}
          PROVE  Cardinality(RunningFor(n, o)) <= UserCap
      <3> DEFINE U == RunningFor(m, o) \cup {k \in T : Owner[k] = o}
      <3>1. Cardinality(U) < UserCap
        <4>1. Owner[j] = o /\ UserCap # 0
          BY <2>2
        <4> QED
          BY <2>3, <4>1 DEF UnderCap
      <3>2. RunningFor(n, o) \subseteq U \cup {j}
        BY <2>1, <2>3
      <3>3. U \in SUBSET Jobs /\ IsFiniteSet(U)
        <4>1. U \in SUBSET Jobs
          BY DEF RunningFor
        <4> QED
          BY <4>1, IdsAssumption, FS_Subset
      <3> HIDE DEF U
      <3>4. /\ Cardinality(RunningFor(n, o)) \in Nat /\ Cardinality(U) \in Nat
            /\ Cardinality(RunningFor(n, o)) <= Cardinality(U) + 1
        BY <3>2, <3>3, OneMoreLemma
      <3> QED
        BY <2>2, <3>1, <3>4
    <2>4. CASE A = {}
      <3>1. RunningFor(n, o) \in SUBSET RunningFor(m, o)
        BY <2>1, <2>4
      <3>2. /\ IsFiniteSet(RunningFor(n, o))
            /\ Cardinality(RunningFor(n, o)) <= Cardinality(RunningFor(m, o))
        BY <2>2, <3>1, FS_Subset
      <3>3. Cardinality(RunningFor(n, o)) \in Nat
        BY <3>2, FS_CardinalityType
      <3> QED
        BY <2>2, <3>2, <3>3
    <2>5. CASE D # {}
      <3> DEFINE c == Cardinality(Devices)
                 R == {rank[a[j]] : j \in D}
      <3>1. c \in Nat /\ rank \in [Devices -> 1..c] /\ IsInjective(rank)
        BY IdsAssumption, FS_CardinalityType DEF Rankings
      <3>2. /\ R \in SUBSET Nat /\ R # {} /\ \A x \in R : x <= c
            /\ \A j \in D : rank[a[j]] \in R
        <4>1. \A j \in D : rank[a[j]] \in 1..c
          BY <3>1
        <4> QED
          BY <2>5, <3>1, <4>1
      <3>3. \A x \in R : \E j \in D : x = rank[a[j]]
        OBVIOUS
      <3> HIDE DEF R, c
      <3>4. PICK x \in R : \A y \in R : y <= x
        BY <3>1, <3>2, MaxLemma
      <3>5. PICK j \in D : x = rank[a[j]]
        BY <3>3
      <3> DEFINE T == TakenBefore(X, a, rank, j)
      <3>6. UnderCap(m, j, T) /\ \A k \in X : a[k] = a[j] => k = j
        BY <1>5
      <3>t. T = {k \in X : a[k] = Offline \/ rank[a[k]] < rank[a[j]]}
        BY DEF TakenBefore
      <3> HIDE DEF T
      <3>7. ASSUME NEW k \in A, k # j PROVE k \in T
        <4>1. CASE a[k] = Offline
          BY <3>t, <4>1
        <4>2. CASE a[k] # Offline
          <5>1. k \in D /\ a[k] \in Devices /\ a[j] \in Devices /\ a[k] # a[j]
            BY <1>3, <3>6, <3>7, <4>2
          <5>2. rank[a[k]] <= rank[a[j]] /\ rank[a[k]] \in Nat /\ rank[a[j]] \in Nat
            BY <3>1, <3>2, <3>4, <3>5, <5>1
          <5>3. rank[a[k]] # rank[a[j]]
            BY <3>1, <5>1 DEF IsInjective
          <5> QED
            BY <3>t, <5>2, <5>3
        <4> QED
          BY <4>1, <4>2
      <3>8. T \in SUBSET Jobs /\ A \subseteq T \cup {j} /\ j \in A
        BY <3>t, <3>7
      <3> HIDE DEF A, D
      <3> QED
        BY <2>3, <3>6, <3>8
    <2>6. CASE D = {} /\ A # {}
      <3>1. A \subseteq Range(m.queue) /\ \A j \in A : j \in X /\ a[j] = Offline
        BY <1>3, <2>6
      <3> HIDE DEF A
      <3>2. PICK i \in DOMAIN m.queue :
              /\ m.queue[i] \in A
              /\ A \subseteq ({m.queue[k] : k \in 1..(i-1)} \cap A) \cup {m.queue[i]}
        BY <1>1, <2>6, <3>1, LastOfQueue
      <3> DEFINE T == {m.queue[k] : k \in 1..(i-1)} \cap {j \in X : a[j] = Offline}
      <3>3. UnderCap(m, m.queue[i], T)
        <4>1. m.queue[i] \in X /\ a[m.queue[i]] = Offline
          BY <3>1, <3>2
        <4>2. T = {m.queue[k] : k \in 1..(i-1)} \cap {j \in X : a[j] = Offline}
          OBVIOUS
        <4> HIDE DEF T
        <4> QED
          BY <1>1, <4>1, <4>2, OfflineTakes
      <3>4. A \subseteq T \cup {m.queue[i]} /\ T \in SUBSET Jobs
        BY <3>1, <3>2
      <3> HIDE DEF T
      <3> QED
        BY <2>3, <3>2, <3>3, <3>4
    <2> QED
      BY <2>4, <2>5, <2>6
  <1> QED
    BY <1>6, <1>7, <1>8 DEF DispatchSound

(* A handler that ends by calling pumpWorkers.                             *)
LEMMA PumpDispatch ==
  ASSUME NEW m \in Memory, DispatchSound(m), NEW s, NEW overdue, PumpWorkers(m, s, overdue)
  PROVE  DispatchSound(mem')
  <1> DEFINE X == {j \in Range(m.queue) : j \in overdue /\ StatusOf(m, j) = "queued"}
             m1 == Expired(m, X)
             s1 == [s EXCEPT !.device = [d \in Devices |->
                      IF @[d] = "draining" /\ d \notin BusyDevices(m) THEN "disabled" ELSE @[d]]]
  <1>1. PICK a \in Assignments(m1), rank \in Rankings :
          /\ IF m.phase = "up"
             THEN TakesOffline(m1, a) /\ TakesDevices(m1, s1, a, rank)
             ELSE DOMAIN a = {}
          /\ mem' = Begun(m1, a)
    BY DEF PumpWorkers
  <1>2. X \in SUBSET Jobs /\ \A j \in X : StatusOf(m, j) = "queued"
    BY DEF Memory, Range
  <1> HIDE DEF X, s1
  <1>3. /\ m1 \in Memory /\ m1.run = m.run /\ m1.unwinding = m.unwinding
        /\ \A j \in Jobs \ X : m1.job[j] = m.job[j]
        /\ \A j \in X : m1.job[j].status = "failed"
    BY <1>2, ExpiredLemma
  <1> HIDE DEF m1
  <1>4. Relieves(m, m1)
    BY <1>3 DEF Relieves, BusyWorkers, StatusOf
  <1>5. DispatchSound(m1)
    BY <1>4, RelievesLemma
  <1>6. PICK D \in SUBSET Range(m1.queue) : a \in [D -> Workers]
    BY <1>1 DEF Assignments
  <1>7. D \in SUBSET Jobs /\ D \subseteq Range(m1.queue) /\ Assigns(a, D) /\ DOMAIN a = D
    BY <1>3, <1>6 DEF Memory, Range, Assigns
  <1>8. CASE m.phase = "up"
    <2>1. TakesOffline(m1, a) /\ TakesDevices(m1, s1, a, rank) /\ mem' = Begun(m1, a)
      BY <1>1, <1>8
    <2> QED
      BY <1>3, <1>5, <1>7, <2>1, StartsDispatch
  <1>9. CASE m.phase # "up"
    <2>0. D = {}
      BY <1>1, <1>7, <1>9
    <2>1. mem' = Begun(m1, a) /\ Assigns(a, D) /\ D \in SUBSET Jobs
      BY <1>1, <1>7
    <2>2. /\ mem'.unwinding = m1.unwinding
          /\ \A j \in Jobs \ D : mem'.job[j] = m1.job[j] /\ mem'.run[j] = m1.run[j]
      BY <1>3, <2>1, BegunLemma
    <2>3. Relieves(m1, mem')
      BY <2>0, <2>2 DEF Relieves, BusyWorkers, StatusOf
    <2> QED
      BY <1>3, <1>5, <2>3, RelievesLemma
  <1> QED
    BY <1>8, <1>9

(* Runs stay what they are.                                                *)
KeepsRuns(m, n) ==
  /\ n.run = m.run /\ n.unwinding \subseteq m.unwinding
  /\ \A j \in Jobs : StatusOf(n, j) = "running" => StatusOf(m, j) = "running"

(* The run of j goes on, or returns.                                       *)
MovesRun(m, n, j) ==
  /\ m.run[j].stage # "none"
  /\ \/ n.run[j].worker = m.run[j].worker /\ n.unwinding = m.unwinding
     \/ /\ n.run[j].stage = "none"
        /\ n.unwinding = m.unwinding \cup {<<j, m.run[j].worker>>}
  /\ \A k \in Jobs \ {j} : n.run[k] = m.run[k]
  /\ \A k \in Jobs : StatusOf(n, k) = "running" => StatusOf(m, k) = "running"

(* Neither kind of step takes a worker.                                    *)
LEMMA MovesRunLemma ==
  ASSUME NEW m, NEW n, KeepsRuns(m, n) \/ \E j \in Jobs : MovesRun(m, n, j)
  PROVE  Relieves(m, n)
  <1>1. ASSUME NEW j \in Jobs, m.run[j].stage # "none"
        PROVE  <<j, m.run[j].worker>> \in BusyWorkers(m)
    BY <1>1 DEF BusyWorkers
  <1>2. m.unwinding \subseteq BusyWorkers(m)
    BY DEF BusyWorkers
  <1>3. CASE KeepsRuns(m, n)
    BY <1>2, <1>3 DEF KeepsRuns, Relieves
  <1>4. ASSUME NEW j \in Jobs, MovesRun(m, n, j) PROVE Relieves(m, n)
    BY <1>1, <1>2, <1>4 DEF MovesRun, Relieves
  <1> QED
    BY <1>3, <1>4

(* Handlers that leave the runs alone.                                     *)
LEMMA KeepsRunsStep ==
  ASSUME mem \in Memory, NEW j \in Jobs,
         \/ EnqueueCached(j) \/ CancelQueued(j) \/ CancelRunning(j) \/ QueuedDeadlineFires(j)
         \/ TwinDeadlineFires(j) \/ RunDeadlineFires(j) \/ CleanupJob(j)
  PROVE  KeepsRuns(mem, mem')
  <1>1. mem.job \in [Jobs -> JobRecord]
    BY DEF Memory
  <1>2. CASE \/ EnqueueCached(j) \/ CancelRunning(j) \/ RunDeadlineFires(j) \/ CleanupJob(j)
    <2>1. PICK r : mem' = [mem EXCEPT !.job[j] = r] /\ (r.status = "running" => mem.job[j].status = "running")
      <3>1. CASE EnqueueCached(j)
        <4>1. [Absent EXCEPT !.status = "cached"].status = "cached"
          BY DEF Absent
        <4>2. mem' = [mem EXCEPT !.job[j] = [Absent EXCEPT !.status = "cached"]]
          BY <3>1 DEF EnqueueCached
        <4> QED
          BY <4>1, <4>2
      <3>2. CASE CancelRunning(j)
        <4>1. [mem.job[j] EXCEPT !.cancelled = TRUE].status = mem.job[j].status
          BY <1>1 DEF JobRecord
        <4>2. mem' = [mem EXCEPT !.job[j] = [mem.job[j] EXCEPT !.cancelled = TRUE]]
          BY <3>2 DEF CancelRunning
        <4> QED
          BY <4>1, <4>2
      <3>3. CASE RunDeadlineFires(j)
        <4>1. [mem.job[j] EXCEPT !.late = TRUE].status = mem.job[j].status
          BY <1>1 DEF JobRecord
        <4>2. mem' = [mem EXCEPT !.job[j] = [mem.job[j] EXCEPT !.late = TRUE]]
          BY <3>3 DEF RunDeadlineFires
        <4> QED
          BY <4>1, <4>2
      <3>4. CASE CleanupJob(j)
        <4>1. Gone.status = "gone"
          BY AbsentLemma
        <4> QED
          BY <3>4, <4>1 DEF CleanupJob
      <3> QED
        BY <1>2, <3>1, <3>2, <3>3, <3>4
    <2> QED
      BY <1>1, <2>1 DEF KeepsRuns, StatusOf, Memory
  <1>3. CASE CancelQueued(j) \/ QueuedDeadlineFires(j)
    <2> DEFINE X == {j}
    <2>1. mem' = CancelledInQueue(mem, j) \/ mem' = Expired(mem, X)
      BY <1>3 DEF CancelQueued, QueuedDeadlineFires
    <2>2. X \in SUBSET Jobs
      OBVIOUS
    <2> HIDE DEF X
    <2>3. CASE mem' = Expired(mem, X)
      <3>1. /\ mem'.run = mem.run /\ mem'.unwinding = mem.unwinding
            /\ \A k \in Jobs \ X : mem'.job[k] = mem.job[k]
            /\ \A k \in X : mem'.job[k].status = "failed"
        BY <2>2, <2>3, ExpiredLemma
      <3> QED
        BY <3>1 DEF KeepsRuns, StatusOf
    <2>4. CASE mem' = CancelledInQueue(mem, j)
      <3>1. /\ mem'.run = mem.run /\ mem'.unwinding = mem.unwinding
            /\ mem'.job = [mem.job EXCEPT ![j].status = "failed"]
        BY <2>4 DEF CancelledInQueue, WithStatus, SetTimer, Dequeue, Memory
      <3> QED
        BY <1>1, <3>1 DEF KeepsRuns, StatusOf, JobRecord
    <2> QED
      BY <2>1, <2>3, <2>4
  <1>4. CASE TwinDeadlineFires(j)
    <2>1. /\ mem'.run = mem.run /\ mem'.unwinding = mem.unwinding /\ mem'.job = mem.job
      BY <1>4 DEF TwinDeadlineFires, SetTimer, Dequeue, Memory
    <2> QED
      BY <2>1 DEF KeepsRuns, StatusOf
  <1> QED
    BY <1>2, <1>3, <1>4

(* So do a new order of the queue and the steps of a shutdown.             *)
LEMMA KeepsAllRunsStep ==
  ASSUME mem \in Memory,
         \/ BeginShutdown \/ DrainTimesOut
         \/ \E front : ReorderQueue(front)
  PROVE  KeepsRuns(mem, mem')
  <1>1. mem.job \in [Jobs -> JobRecord]
    BY DEF Memory
  <1>2. CASE BeginShutdown \/ \E front : ReorderQueue(front)
    <2>1. /\ mem'.run = mem.run /\ mem'.unwinding = mem.unwinding /\ mem'.job = mem.job
      BY <1>2 DEF BeginShutdown, ReorderQueue, Memory
    <2> QED
      BY <2>1 DEF KeepsRuns, StatusOf
  <1>3. CASE DrainTimesOut
    <2> DEFINE X == {k \in Jobs : StatusOf(mem, k) = "running"}
               jobs == [k \in Jobs |-> IF k \in X THEN [mem.job[k] EXCEPT !.recovery = TRUE] ELSE mem.job[k]]
    <2>1. mem' = [[mem EXCEPT !.job = jobs] EXCEPT !.phase = "aborting"]
      BY <1>3 DEF DrainTimesOut, MarkedForRecovery, Patch
    <2>2. \A k \in Jobs : jobs[k].status = mem.job[k].status
      BY <1>1 DEF JobRecord
    <2> HIDE DEF jobs
    <2>3. /\ mem'.run = mem.run /\ mem'.unwinding = mem.unwinding /\ mem'.job = jobs
      BY <2>1 DEF Memory
    <2> QED
      BY <2>2, <2>3 DEF KeepsRuns, StatusOf
  <1> QED
    BY <1>2, <1>3

(* A run that returned, whatever becomes of the job then.                  *)
LEMMA ReturnMoves ==
  ASSUME NEW m \in Memory, NEW j \in Jobs, m.run[j].stage # "none", StatusOf(m, j) = "running",
         NEW o, o = Returned(m, j),
         NEW n, n.run = o.run, n.unwinding = o.unwinding,
         \A k \in Jobs \ {j} : n.job[k] = o.job[k]
  PROVE  MovesRun(m, n, j)
  <1>1. m.run \in [Jobs -> RunRecord]
    BY DEF Memory, RunRecord
  <1>2. /\ o.run = [m.run EXCEPT ![j] = NoRun] /\ o.job = m.job
        /\ o.unwinding = m.unwinding \cup {<<j, m.run[j].worker>>}
    BY DEF Returned, Memory
  <1>3. n.run[j] = NoRun /\ \A k \in Jobs \ {j} : n.run[k] = m.run[k]
    BY <1>1, <1>2
  <1>4. n.run[j].stage = "none"
    BY <1>3 DEF NoRun
  <1> QED
    BY <1>2, <1>3, <1>4 DEF MovesRun, StatusOf

(* Handlers that let the run of j go on or return.                         *)
LEMMA MovesRunStep ==
  ASSUME InProcess(mem, disk, expiredTwins), NEW j \in Jobs,
         LastCheck(j) \/ RunSucceeds(j) \/ RunThrows(j) \/ ErrorHandled(j) \/ BackoffEnds(j)
  PROVE  MovesRun(mem, mem', j)
  <1> DEFINE o == Returned(mem, j)
  <1>1. /\ mem \in Memory /\ mem.job \in [Jobs -> JobRecord] /\ mem.run \in [Jobs -> RunRecord]
        /\ mem.run[j].stage # "none" <=> StatusOf(mem, j) = "running"
        /\ mem.run[j].stage # "none" => mem.run[j].worker \in Workers
    BY DEF InProcess, Memory, JobIsSound, WorksRightly, RunRecord
  <1>2. mem.run[j].stage # "none" /\ StatusOf(mem, j) = "running"
    BY <1>1 DEF LastCheck, RunSucceeds, RunThrows, ErrorHandled, BackoffEnds
  <1>3. o \in Memory /\ o.job \in [Jobs -> JobRecord]
    <2>1. o \in Memory
      BY <1>1, <1>2, ReturnedLemma DEF Edits
    <2> QED
      BY <2>1 DEF Memory
  <1>4. ASSUME NEW n, n.run = o.run, n.unwinding = o.unwinding,
               \A k \in Jobs \ {j} : n.job[k] = o.job[k]
        PROVE  MovesRun(mem, n, j)
    BY <1>1, <1>2, <1>4, ReturnMoves
  <1>5. ASSUME NEW q, NEW r, q.worker = mem.run[j].worker,
               mem' = [mem EXCEPT !.run[j] = q, !.job[j] = r]
        PROVE  MovesRun(mem, mem', j)
    <2>1. /\ mem'.run = [mem.run EXCEPT ![j] = q] /\ mem'.job = [mem.job EXCEPT ![j] = r]
          /\ mem'.unwinding = mem.unwinding
      BY <1>1, <1>5 DEF Memory
    <2>2. /\ mem'.run[j] = q /\ \A k \in Jobs \ {j} : mem'.run[k] = mem.run[k]
          /\ \A k \in Jobs \ {j} : mem'.job[k] = mem.job[k]
      BY <1>1, <2>1
    <2> QED
      BY <1>2, <1>5, <2>1, <2>2 DEF MovesRun, StatusOf
  <1> HIDE DEF o
  <1>6. CASE LastCheck(j) \/ RunThrows(j)
    <2>2. \E stage, r : mem' = [mem EXCEPT !.run[j] = [mem.run[j] EXCEPT !.stage = stage], !.job[j] = r]
      <3>1. CASE LastCheck(j)
        <4>1. mem' = [mem EXCEPT !.run[j] = [mem.run[j] EXCEPT !.stage = "publish"]]
          BY <3>1 DEF LastCheck
        <4>2. mem' = [mem EXCEPT !.run[j] = [mem.run[j] EXCEPT !.stage = "publish"], !.job[j] = mem.job[j]]
          BY <1>1, <4>1 DEF Memory
        <4> QED
          BY <4>2
      <3>2. CASE RunThrows(j)
        BY <3>2 DEF RunThrows
      <3> QED
        BY <1>6, <3>1, <3>2
    <2>3. PICK stage, r :
            mem' = [mem EXCEPT !.run[j] = [mem.run[j] EXCEPT !.stage = stage], !.job[j] = r]
      BY <2>2
    <2> DEFINE q == [mem.run[j] EXCEPT !.stage = stage]
    <2>4. q.worker = mem.run[j].worker
      BY <1>1 DEF RunRecord
    <2>5. mem' = [mem EXCEPT !.run[j] = q, !.job[j] = r]
      BY <2>3
    <2> HIDE DEF q
    <2> QED
      BY <1>5, <2>4, <2>5
  <1>7. CASE RunSucceeds(j)
    <2>1. /\ mem'.run = o.run /\ mem'.unwinding = o.unwinding
          /\ \A k \in Jobs \ {j} : mem'.job[k] = o.job[k]
      BY <1>3, <1>7 DEF RunSucceeds, Succeeded, WithStatus, Memory, o
    <2> QED
      BY <1>4, <2>1
  <1>8. ASSUME mem' = Failed(mem, j) \/ mem' = [Failed(mem, j) EXCEPT !.job[j].late = TRUE]
        PROVE  MovesRun(mem, mem', j)
    <2> DEFINE f == WithStatus(o, j, "failed")
    <2>1. /\ f \in Memory /\ f.run = o.run /\ f.unwinding = o.unwinding
          /\ \A k \in Jobs \ {j} : f.job[k] = o.job[k]
      <3>1. f \in Memory /\ f.run = o.run /\ \A k \in Jobs \ {j} : f.job[k] = o.job[k]
        BY <1>3, StatusLemma, StatusesLemma DEF Edits
      <3>2. f.unwinding = o.unwinding
        BY <1>3 DEF WithStatus, Memory
      <3> QED
        BY <3>1, <3>2
    <2>2. mem' = f \/ mem' = [f EXCEPT !.job[j].late = TRUE]
      BY <1>8 DEF Failed, o
    <2> HIDE DEF f
    <2>3. /\ mem'.run = f.run /\ mem'.unwinding = f.unwinding
          /\ \A k \in Jobs \ {j} : mem'.job[k] = f.job[k]
      BY <2>1, <2>2 DEF Memory
    <2> QED
      BY <1>4, <2>1, <2>3
  <1>9. ASSUME RunRecovers(j) \/ FallsBack(j) PROVE MovesRun(mem, mem', j)
    <2>1. CASE RunRecovers(j)
      <3> DEFINE r == Recovered(o.job[j])
                 f == [o EXCEPT !.job[j] = r]
      <3>1. mem' = InsertByPriority(f, j)
        BY <2>1 DEF RunRecovers, o
      <3> HIDE DEF r
      <3>2. /\ f.run = o.run /\ f.unwinding = o.unwinding
            /\ \A k \in Jobs \ {j} : f.job[k] = o.job[k]
        BY <1>3 DEF Memory
      <3>3. mem'.run = f.run /\ mem'.unwinding = f.unwinding /\ mem'.job = f.job
        <4>1. \E q : mem' = [f EXCEPT !.queue = q]
          BY <3>1 DEF InsertByPriority
        <4> QED
          BY <1>3, <4>1 DEF Memory
      <3> HIDE DEF f
      <3> QED
        BY <1>4, <3>2, <3>3
    <2>2. CASE FallsBack(j)
      <3> DEFINE f == WithStatus(o, j, "queued")
                 g == Requeue(f, j)
      <3>1. /\ f \in Memory /\ f.run = o.run /\ f.unwinding = o.unwinding
            /\ \A k \in Jobs \ {j} : f.job[k] = o.job[k]
        <4>1. f \in Memory /\ f.run = o.run /\ \A k \in Jobs \ {j} : f.job[k] = o.job[k]
          BY <1>3, StatusLemma, StatusesLemma DEF Edits
        <4>2. f.unwinding = o.unwinding
          BY <1>3 DEF WithStatus, Memory
        <4> QED
          BY <4>1, <4>2
      <3>2. mem' = SetTimer(g, {j}, "live")
        BY <2>2 DEF FallsBack, o
      <3> HIDE DEF f
      <3>3. g \in Memory /\ g.run = f.run /\ g.unwinding = f.unwinding /\ g.job = f.job
        BY <3>1, RequeueLemma
      <3> HIDE DEF g
      <3>4. mem'.run = g.run /\ mem'.unwinding = g.unwinding /\ mem'.job = g.job
        BY <3>2, <3>3 DEF SetTimer, Memory
      <3> QED
        BY <1>4, <3>1, <3>3, <3>4
    <2> QED
      BY <1>9, <2>1, <2>2
  <1>10. CASE ErrorHandled(j)
    <2>1. CASE mem' = [mem EXCEPT !.run[j].stage = "backoff"]
      <3> DEFINE q == [mem.run[j] EXCEPT !.stage = "backoff"]
      <3>1. q.worker = mem.run[j].worker
        BY <1>1 DEF RunRecord
      <3>2. mem' = [mem EXCEPT !.run[j] = q]
        BY <2>1
      <3> HIDE DEF q
      <3>3. mem' = [mem EXCEPT !.run[j] = q, !.job[j] = mem.job[j]]
        BY <1>1, <3>2 DEF Memory
      <3> QED
        BY <1>5, <3>1, <3>3
    <2>2. RunRecovers(j) \/ FallsBack(j) \/ RunFails(j) \/ mem' = [mem EXCEPT !.run[j].stage = "backoff"]
      BY <1>10 DEF ErrorHandled
    <2> QED
      BY <1>8, <1>9, <2>1, <2>2 DEF RunFails
  <1>11. CASE BackoffEnds(j)
    <2>1. CASE mem' = Retried(mem, j)
      <3> DEFINE q == [mem.run[j] EXCEPT !.stage = "work"]
                 r == [mem.job[j] EXCEPT !.retries = @ + 1]
      <3>1. q.worker = mem.run[j].worker
        BY <1>1 DEF RunRecord
      <3>2. mem' = [mem EXCEPT !.run[j] = q, !.job[j] = r]
        BY <2>1 DEF Retried
      <3> HIDE DEF q, r
      <3> QED
        BY <1>5, <3>1, <3>2
    <2>2. \/ RunRecovers(j) \/ RunFails(j) \/ mem' = Retried(mem, j)
          \/ mem' = [Failed(mem, j) EXCEPT !.job[j].late = TRUE]
      BY <1>11 DEF BackoffEnds, Retried
    <2> QED
      BY <1>8, <1>9, <2>1, <2>2 DEF RunFails
  <1> QED
    BY <1>6, <1>7, <1>10, <1>11

(* What a handler does to the memory before it pumps, if it does: it       *)
(* starts nothing, forgets no server-side attempt, leaves the runs alone   *)
(* and stops tracking only what it takes out of those that unwind.  What   *)
(* it writes before is not yet in the history.                             *)
Prepares(m) ==
  /\ m \in Memory /\ m.phase = mem.phase /\ m.run = mem.run /\ m.awaited = mem.awaited
  /\ m.unwinding \subseteq mem.unwinding
  /\ \A j \in mem.tracked : j \in m.tracked \/ \E w \in Workers : <<j, w>> \in mem.unwinding
  /\ \A j \in Range(m.queue) : StatusOf(m, j) = "queued"
  /\ \A j \in Jobs : /\ StatusOf(m, j) = "running" => StatusOf(mem, j) = "running"
                     /\ mem.job[j].tried => m.job[j].tried
Pumps ==
  \E m : \E s \in Disk :
    /\ Prepares(m) /\ s.history = disk.history
    /\ (mem' = m /\ disk' = s) \/ \E overdue : PumpWorkers(m, s, overdue)

(* Statuses, server-side attempts, runs and the jobs in the queue stay.    *)
LEMMA PreparesLemma ==
  ASSUME InProcess(mem, disk, expiredTwins), NEW m \in Memory, m.phase = mem.phase, m.run = mem.run,
         m.awaited = mem.awaited, m.unwinding = mem.unwinding, m.tracked = mem.tracked,
         Range(m.queue) = Range(mem.queue),
         \A j \in Jobs : m.job[j].status = mem.job[j].status /\ m.job[j].tried = mem.job[j].tried
  PROVE  Prepares(m)
  <1>1. Range(m.queue) \subseteq Jobs
    BY DEF Memory, Range
  <1>2. \A j \in Range(m.queue) : StatusOf(m, j) = "queued"
    BY <1>1 DEF InProcess, JobIsSound, WaitsRightly, StatusOf
  <1> QED
    BY <1>2 DEF Prepares, StatusOf

(* Requests: a new job is queued behind the others and has not been tried. *)
LEMMA RequestPumps ==
  ASSUME InProcess(mem, disk, expiredTwins), NEW i \in Jobs,
         Enqueue(i) \/ \E k \in Jobs : EnqueueDuplicate(i, k)
  PROVE  Pumps
  <1>1. mem \in Memory /\ disk \in Disk /\ mem.job \in [Jobs -> JobRecord]
    BY DEF InProcess, Memory
  <1>2. CASE Enqueue(i)
    <2> DEFINE m0 == WithJob(mem, i, NewJob(i))
               m1 == Requeue(m0, i)
               X == {i}
               m2 == SetTimer(m1, X, "live")
               ledger == [disk.ledger EXCEPT ![i] = IF i \in BilledJobs THEN "reserved" ELSE disk.ledger[i]]
               s1 == [disk EXCEPT !.ledger = ledger]
               s == PersistJobs(s1, m2)
    <2>1. PumpWorkers(m2, s, due) /\ StatusOf(mem, i) = "absent"
      BY <1>2 DEF Enqueue, WithJob
    <2>2. NewJob(i) \in JobRecord /\ NewJob(i).status = "queued"
      BY NewJobLemma
    <2>3. Edits(mem, m0, i) /\ m0.job[i] = NewJob(i) /\ m0.run = mem.run /\ m0.unwinding = mem.unwinding
      BY <1>1, <2>2, EditJobLemma
    <2> HIDE DEF m0
    <2>4. /\ m1 \in Memory /\ m1.phase = m0.phase /\ m1.run = m0.run /\ m1.job = m0.job
          /\ m1.unwinding = m0.unwinding /\ m1.tracked = m0.tracked /\ m1.awaited = m0.awaited
          /\ Range(m1.queue) = Range(m0.queue) \cup {i}
      <3>1. m0 \in Memory
        BY <2>3 DEF Edits
      <3> QED
        BY <3>1, RequeueLemma
    <2> HIDE DEF m1
    <2>5. /\ m2 \in Memory /\ m2.phase = m1.phase /\ m2.run = m1.run /\ m2.job = m1.job
          /\ m2.queue = m1.queue
          /\ m2.unwinding = m1.unwinding /\ m2.tracked = m1.tracked /\ m2.awaited = m1.awaited
      <3>1. X \in SUBSET Jobs
        OBVIOUS
      <3> HIDE DEF X
      <3> QED
        BY <2>4, <3>1, SetTimerLemma
    <2> HIDE DEF m2
    <2>6. s \in Disk /\ s.history = disk.history
      <3>1. ledger \in [Jobs -> {"none", "reserved", "consumed"}]
        BY <1>1 DEF Disk
      <3> HIDE DEF ledger
      <3>2. s1 \in Disk /\ s1.history = disk.history
        BY <1>1, <3>1 DEF Disk
      <3> HIDE DEF s1
      <3> QED
        BY <2>5, <3>2, PersistLemma
    <2> HIDE DEF s
    <2>7. ~mem.job[i].tried
      BY <2>1 DEF InProcess, JobIsSound, WorksRightly
    <2>8. \A k \in Range(m2.queue) : StatusOf(m2, k) = "queued"
      <3>1. Range(mem.queue) \subseteq Jobs
        BY <1>1 DEF Memory, Range
      <3>2. \A k \in Range(mem.queue) : StatusOf(mem, k) = "queued"
        BY <3>1 DEF InProcess, JobIsSound, WaitsRightly
      <3>3. Range(m2.queue) = Range(mem.queue) \cup {i}
        BY <2>3, <2>4, <2>5 DEF Edits
      <3> QED
        BY <2>2, <2>3, <2>4, <2>5, <3>1, <3>2, <3>3 DEF StatusOf, Edits
    <2>9. \A k \in Jobs : /\ StatusOf(m2, k) = "running" => StatusOf(mem, k) = "running"
                          /\ mem.job[k].tried => m2.job[k].tried
      BY <2>2, <2>3, <2>4, <2>5, <2>7 DEF StatusOf, Edits
    <2>10. Prepares(m2)
      <3>1. /\ m2.phase = mem.phase /\ m2.run = mem.run /\ m2.awaited = mem.awaited
            /\ m2.unwinding = mem.unwinding /\ m2.tracked = mem.tracked
        BY <2>3, <2>4, <2>5 DEF Edits
      <3> QED
        BY <2>5, <2>8, <2>9, <3>1 DEF Prepares
    <2> QED
      BY <1>1, <2>1, <2>6, <2>10 DEF Pumps
  <1>3. ASSUME NEW k \in Jobs, EnqueueDuplicate(i, k) PROVE Pumps
    <2> DEFINE r == [mem.job[k] EXCEPT !.scheduled = TRUE]
               w == WithJob(mem, k, r)
               X == {k}
               e == WithExtendedDeadline(mem, k)
               p == PersistJobs(disk, e)
    <2>1. \E m, s, overdue :
            /\ (m = mem /\ s = disk) \/ (m = e /\ s = p)
            /\ PumpWorkers(m, s, overdue) \/ (mem' = m /\ disk' = s)
      BY <1>3 DEF EnqueueDuplicate
    <2>2. /\ r \in JobRecord /\ r.status = mem.job[k].status /\ r.tried = mem.job[k].tried
      BY <1>1 DEF JobRecord
    <2>3. e = IF StatusOf(mem, k) = "queued" THEN SetTimer(w, X, "live") ELSE w
      BY DEF WithExtendedDeadline, WithJob
    <2> HIDE DEF r, e
    <2>4. Edits(mem, w, k) /\ w.job[k] = r /\ w.run = mem.run /\ w.unwinding = mem.unwinding
      BY <1>1, <2>2, EditJobLemma
    <2> HIDE DEF w
    <2>5. /\ w \in Memory /\ w.queue = mem.queue
          /\ \A l \in Jobs : w.job[l].status = mem.job[l].status /\ w.job[l].tried = mem.job[l].tried
      BY <2>2, <2>4 DEF Edits
    <2>6. /\ e \in Memory /\ e.phase = w.phase /\ e.run = w.run /\ e.job = w.job
          /\ e.queue = w.queue
          /\ e.unwinding = w.unwinding /\ e.tracked = w.tracked /\ e.awaited = w.awaited
      <3>1. X \in SUBSET Jobs
        OBVIOUS
      <3> HIDE DEF X
      <3>2. CASE e = w
        BY <2>5, <3>2
      <3>3. CASE e = SetTimer(w, X, "live")
        BY <2>5, <3>1, <3>3, SetTimerLemma
      <3> QED
        BY <2>3, <3>2, <3>3
    <2>7. Prepares(e)
      <3>1. /\ e.phase = mem.phase /\ e.run = mem.run /\ Range(e.queue) = Range(mem.queue)
            /\ e.awaited = mem.awaited /\ e.unwinding = mem.unwinding /\ e.tracked = mem.tracked
            /\ \A l \in Jobs : e.job[l].status = mem.job[l].status /\ e.job[l].tried = mem.job[l].tried
        BY <2>4, <2>5, <2>6 DEF Edits
      <3> QED
        BY <2>6, <3>1, PreparesLemma
    <2>8. Prepares(mem)
      BY <1>1, PreparesLemma
    <2>9. p \in Disk /\ p.history = disk.history
      BY <1>1, <2>6, PersistLemma
    <2> HIDE DEF p
    <2>10. PICK m, s, overdue : /\ Prepares(m) /\ s \in Disk /\ s.history = disk.history
                                /\ PumpWorkers(m, s, overdue) \/ (mem' = m /\ disk' = s)
      BY <1>1, <2>1, <2>7, <2>8, <2>9
    <2>11. CASE mem' = m /\ disk' = s
      BY <2>10, <2>11 DEF Pumps
    <2>12. CASE PumpWorkers(m, s, overdue)
      BY <1>1, <2>10, <2>12 DEF Pumps
    <2> QED
      BY <2>10, <2>11, <2>12
  <1> QED
    BY <1>2, <1>3

(* Events from outside, the end of run.finally and released pins.          *)
LEMMA EventPumps ==
  ASSUME InProcess(mem, disk, expiredTwins),
         \/ \E i \in Jobs : \E w \in Workers : RunUnwinds(i, w)
         \/ \E d \in Devices :
              \/ ReleasePinned(d) \/ HealthChanges(d)
              \/ \E value \in {"ready", "draining", "disabled"} : DeviceSet(d, value)
         \/ OfflineReadinessChanges \/ Notify
  PROVE  Pumps
  <1>1. mem \in Memory /\ disk \in Disk /\ mem.job \in [Jobs -> JobRecord]
    BY DEF InProcess, Memory
  <1>2. ASSUME NEW i \in Jobs, NEW w \in Workers, RunUnwinds(i, w) PROVE Pumps
    <2> DEFINE m == [mem EXCEPT !.unwinding = @ \ {<<i, w>>}, !.tracked = @ \ {i}]
    <2>1. PumpWorkers(m, disk, due)
      BY <1>2 DEF RunUnwinds
    <2>2. /\ m \in Memory /\ m.phase = mem.phase /\ m.run = mem.run /\ m.queue = mem.queue
          /\ m.job = mem.job /\ m.awaited = mem.awaited /\ m.unwinding \subseteq mem.unwinding
          /\ m.tracked = mem.tracked \ {i}
      BY <1>1 DEF Memory
    <2>3. <<i, w>> \in mem.unwinding
      BY <1>2 DEF RunUnwinds
    <2> HIDE DEF m
    <2>4. Prepares(mem)
      BY <1>1, PreparesLemma
    <2>5. Prepares(m)
      BY <2>2, <2>3, <2>4 DEF Prepares, StatusOf
    <2> QED
      BY <1>1, <2>1, <2>5 DEF Pumps
  <1>3. ASSUME NEW d \in Devices, ReleasePinned(d) PROVE Pumps
    <2> DEFINE X == {k \in Range(mem.queue) : mem.job[k].pin = d /\ k \in AppStoreJobs}
               free == [k \in Jobs |-> IF k \in X THEN [mem.job[k] EXCEPT !.pin = NoDevice]
                                                  ELSE mem.job[k]]
               m == [mem EXCEPT !.job = free]
    <2>1. PumpWorkers(m, disk, due)
      BY <1>1, <1>3 DEF ReleasePinned, Patch
    <2>2. \A k \in Jobs : /\ [mem.job[k] EXCEPT !.pin = NoDevice] \in JobRecord
                          /\ [mem.job[k] EXCEPT !.pin = NoDevice].status = mem.job[k].status
                          /\ [mem.job[k] EXCEPT !.pin = NoDevice].tried = mem.job[k].tried
      BY <1>1 DEF JobRecord
    <2> HIDE DEF X
    <2>3. /\ free \in [Jobs -> JobRecord]
          /\ \A k \in Jobs : free[k].status = mem.job[k].status /\ free[k].tried = mem.job[k].tried
      BY <1>1, <2>2
    <2> HIDE DEF free
    <2>4. /\ m \in Memory /\ m.phase = mem.phase /\ m.run = mem.run /\ m.queue = mem.queue
          /\ m.job = free
          /\ m.awaited = mem.awaited /\ m.unwinding = mem.unwinding /\ m.tracked = mem.tracked
      BY <1>1, <2>3 DEF Memory
    <2> HIDE DEF m
    <2>5. Prepares(m)
      <3>1. \A k \in Jobs : m.job[k].status = mem.job[k].status /\ m.job[k].tried = mem.job[k].tried
        BY <2>3, <2>4
      <3>2. /\ m \in Memory /\ m.phase = mem.phase /\ m.run = mem.run
            /\ Range(m.queue) = Range(mem.queue)
            /\ m.awaited = mem.awaited /\ m.unwinding = mem.unwinding /\ m.tracked = mem.tracked
        BY <2>4
      <3> QED
        BY <3>1, <3>2, PreparesLemma
    <2> QED
      BY <1>1, <2>1, <2>5 DEF Pumps
  <1>4. ASSUME NEW s \in Disk, s.history = disk.history,
               (mem' = mem /\ disk' = s) \/ PumpWorkers(mem, s, due)
        PROVE  Pumps
    <2>1. Prepares(mem)
      BY <1>1, PreparesLemma
    <2> QED
      BY <1>4, <2>1 DEF Pumps
  <1>5. ASSUME NEW d \in Devices, NEW value \in {"ready", "draining", "disabled"}, DeviceSet(d, value)
        PROVE  Pumps
    <2> DEFINE device == [disk.device EXCEPT ![d] = value]
               s == [disk EXCEPT !.device = device]
    <2>1. (mem' = mem /\ disk' = s) \/ PumpWorkers(mem, s, due)
      BY <1>5 DEF DeviceSet
    <2>2. device \in [Devices -> {"ready", "draining", "disabled"}]
      BY <1>1 DEF Disk
    <2> HIDE DEF device
    <2>3. s \in Disk /\ s.history = disk.history
      BY <1>1, <2>2 DEF Disk
    <2> HIDE DEF s
    <2> QED
      BY <1>4, <2>1, <2>3
  <1>6. CASE (\E d \in Devices : HealthChanges(d)) \/ OfflineReadinessChanges \/ Notify
    <2>1. PumpWorkers(mem, disk, due)
      BY <1>6 DEF HealthChanges, OfflineReadinessChanges, Notify
    <2> QED
      BY <1>1, <1>4, <2>1
  <1> QED
    BY <1>2, <1>3, <1>5, <1>6

(* Handlers that may end by calling pumpWorkers.                           *)
LEMMA PumpsDispatch ==
  ASSUME mem \in Memory, DispatchSound(mem), Pumps
  PROVE  DispatchSound(mem')
  <1>1. PICK m : /\ Prepares(m)
                 /\ mem' = m \/ \E s \in Disk : \E overdue : PumpWorkers(m, s, overdue)
    BY DEF Pumps
  <1>2. m \in Memory /\ KeepsRuns(mem, m)
    BY <1>1 DEF Prepares, KeepsRuns
  <1>3. Relieves(mem, m)
    BY <1>2, MovesRunLemma
  <1>4. DispatchSound(m)
    BY <1>3, RelievesLemma
  <1>5. ASSUME NEW s, NEW overdue, PumpWorkers(m, s, overdue) PROVE DispatchSound(mem')
    BY <1>2, <1>4, <1>5, PumpDispatch
  <1> QED
    BY <1>1, <1>4, <1>5

(* A process that has just started, or none, has nobody at work.           *)
LEMMA IdleDispatch ==
  ASSUME NEW m, \A j \in Jobs : m.run[j].stage = "none" /\ StatusOf(m, j) # "running",
         m.unwinding = {}
  PROVE  DispatchSound(m)
  <1>1. BusyWorkers(m) = {}
    BY DEF BusyWorkers
  <1>2. BusyOffline(m) = {} /\ \A o : RunningFor(m, o) = {}
    BY <1>1 DEF BusyOffline, RunningFor
  <1>3. Cardinality({}) = 0 /\ OfflineWorkers \in Nat /\ UserCap \in Nat
    BY FS_EmptySet, LimitsAssumption
  <1> QED
    BY <1>1, <1>2, <1>3 DEF DispatchSound, Exclusive, WithinSlots, WithinCap

(* No step breaks workers and caps.                                        *)
LEMMA DispatchStep ==
  ASSUME JobIInv, DispatchSound(mem), [Next]_vars
  PROVE  DispatchSound(mem')
  <1>1. CASE mem.phase # "down"
    <2>1. InProcess(mem, disk, expiredTwins) /\ mem \in Memory
      BY <1>1 DEF JobIInv, InProcess
    <2>2. ASSUME KeepsRuns(mem, mem') \/ \E j \in Jobs : MovesRun(mem, mem', j)
          PROVE  DispatchSound(mem')
      <3>1. Relieves(mem, mem')
        BY <2>2, MovesRunLemma
      <3> QED
        BY <2>1, <3>1, RelievesLemma
    <2>3. ASSUME mem' = Stopped PROVE DispatchSound(mem')
      <3>1. \A j \in Jobs : mem'.run[j].stage = "none" /\ StatusOf(mem', j) # "running"
        BY <2>3, AbsentLemma DEF Stopped, NoRun, StatusOf
      <3>2. mem'.unwinding = {}
        BY <2>3 DEF Stopped
      <3> QED
        BY <3>1, <3>2, IdleDispatch
    <2>4. ASSUME NEW j \in Jobs, JobAction(j) PROVE DispatchSound(mem')
      <3>1. CASE Enqueue(j) \/ \E k \in Jobs : EnqueueDuplicate(j, k)
        <4>1. Pumps
          BY <2>1, <3>1, RequestPumps
        <4> QED
          BY <2>1, <4>1, PumpsDispatch
      <3>2. CASE \/ EnqueueCached(j) \/ CancelQueued(j) \/ CancelRunning(j) \/ QueuedDeadlineFires(j)
                 \/ TwinDeadlineFires(j) \/ RunDeadlineFires(j) \/ CleanupJob(j)
        BY <2>1, <2>2, <3>2, KeepsRunsStep
      <3>3. CASE LastCheck(j) \/ RunSucceeds(j) \/ RunThrows(j) \/ ErrorHandled(j) \/ BackoffEnds(j)
        BY <2>1, <2>2, <3>3, MovesRunStep
      <3>4. CASE \E w \in Workers : RunUnwinds(j, w)
        <4>1. Pumps
          BY <2>1, <3>4, EventPumps
        <4> QED
          BY <2>1, <4>1, PumpsDispatch
      <3>5. CASE CrashWhileSettling(j)
        BY <2>3, <3>5 DEF CrashWhileSettling, ProcessEnds
      <3>6. CASE DeadlinePasses(j)
        BY <3>6 DEF DeadlinePasses
      <3> QED
        BY <2>4, <3>1, <3>2, <3>3, <3>4, <3>5, <3>6 DEF JobAction
    <2>5. CASE \/ \E d \in Devices :
                    \/ ReleasePinned(d) \/ HealthChanges(d)
                    \/ \E value \in {"ready", "draining", "disabled"} : DeviceSet(d, value)
               \/ OfflineReadinessChanges \/ Notify
      <3>1. Pumps
        BY <2>1, <2>5, EventPumps
      <3> QED
        BY <2>1, <3>1, PumpsDispatch
    <2>6. CASE \/ BeginShutdown \/ DrainTimesOut
               \/ \E front \in SetToAllKPermutations(Range(mem.queue)) : ReorderQueue(front)
      BY <2>1, <2>2, <2>6, KeepsAllRunsStep
    <2>7. CASE Exit \/ Crash
      BY <2>3, <2>7 DEF Exit, Crash, ProcessEnds
    <2>8. ~Restart /\ ~CrashWhileStarting
      BY <1>1 DEF Restart, CrashWhileStarting
    <2>9. CASE UNCHANGED vars
      BY <2>9 DEF vars
    <2> QED
      BY <2>4, <2>5, <2>6, <2>7, <2>8, <2>9 DEF Next
  <1>2. CASE mem.phase = "down"
    <2>1. mem = Stopped
      BY <1>2 DEF JobIInv
    <2>2. CASE Restart
      <3>1. \E q, timers : mem' = [Stopped EXCEPT !.phase = "up", !.job = RecoveredRows,
                                                 !.queue = q, !.timer = timers]
        BY <2>2 DEF Restart
      <3>2. \A j \in Jobs : RecoveredRows[j].status # "running"
        BY <1>2, RecoveryLemma DEF JobIInv
      <3>3. /\ \A j \in Jobs : mem'.run[j].stage = "none" /\ StatusOf(mem', j) # "running"
            /\ mem'.unwinding = {}
        BY <3>1, <3>2 DEF Stopped, NoRun, StatusOf
      <3> QED
        BY <3>3, IdleDispatch
    <2>3. CASE ~Restart
      <3>1. mem' = mem
        <4>1. CrashWhileStarting \/ (\E j \in Jobs : DeadlinePasses(j)) \/ UNCHANGED vars
          BY <2>1, <2>3, IdleStep
        <4> QED
          BY <4>1 DEF CrashWhileStarting, DeadlinePasses, vars
      <3> QED
        BY <3>1
    <2> QED
      BY <2>2, <2>3
  <1> QED
    BY <1>1, <1>2

(* Whatever order pumps, ends of runs, cancels and restarts come in, a     *)
(* device works for one run, the server-side slots are not exceeded and no *)
(* owner has more runs than the cap (pumpWorkers, run.finally).            *)
THEOREM DispatchAlwaysSound == Spec => []DispatchIsSound
  <1>1. Init => DispatchSound(mem)
    <2> SUFFICES ASSUME Init PROVE DispatchSound(mem)
      OBVIOUS
    <2>1. /\ \A j \in Jobs : mem.run[j].stage = "none" /\ StatusOf(mem, j) # "running"
          /\ mem.unwinding = {}
      BY AbsentLemma DEF Init, Stopped, NoRun, StatusOf
    <2> QED
      BY <2>1, IdleDispatch
  <1>2. JobIInv /\ DispatchSound(mem) /\ [Next]_vars => DispatchSound(mem')
    BY DispatchStep
  <1>3. DispatchSound(mem') => DispatchSound(mem)'
    BY DEF DispatchSound, Exclusive, WithinSlots, WithinCap, BusyOffline, BusyWorkers, RunningFor, StatusOf
  <1>4. JobIInv /\ DispatchSound(mem) => DispatchIsSound
    <2> SUFFICES ASSUME JobIInv, DispatchSound(mem) PROVE DispatchIsSound
      OBVIOUS
    <2>1. \A j \in Jobs : StatusOf(mem, j) = "running" <=> mem.run[j].stage # "none"
      <3>1. CASE mem.phase # "down"
        BY <3>1 DEF JobIInv, InProcess, JobIsSound, WorksRightly
      <3>2. CASE mem.phase = "down"
        <4>1. mem = Stopped
          BY <3>2 DEF JobIInv
        <4> QED
          BY <4>1, AbsentLemma DEF Stopped, NoRun, StatusOf
      <3> QED
        BY <3>1, <3>2
    <2> QED
      BY <2>1 DEF DispatchSound, Exclusive, WithinSlots, WithinCap, DispatchIsSound,
           WorkersAreExclusive, CapRespected
  <1> QED
    BY <1>1, <1>2, <1>3, <1>4, JobInvariant, PTL DEF Spec

----------------------------------------------------------------------------
(* Starts.                                                                 *)

(* takeNextDispatchableJobId: the device is free and suits the job.        *)
LEMMA DeviceStarts ==
  ASSUME NEW m \in Memory, NEW r, NEW X \in SUBSET Jobs, NEW a, Assigns(a, X),
         NEW rank, TakesDevices(m, r, a, rank), NEW j \in X, a[j] \in Devices
  PROVE  a[j] \in FreeDevices(m, r) /\ Dispatchable(m, j, a[j])
  <1> DEFINE d == a[j]
             taken == {k \in X : a[k] = Offline \/ rank[a[k]] < rank[d]}
             able == {i \in DOMAIN m.queue : /\ m.queue[i] \notin taken
                                             /\ Dispatchable(m, m.queue[i], d)
                                             /\ UnderCap(m, m.queue[i], taken)}
  <1>1. DOMAIN a = X
    BY DEF Assigns
  <1>2. {k \in X : a[k] = d} = IF d \in FreeDevices(m, r) /\ able # {} THEN {m.queue[Min(able)]} ELSE {}
    BY <1>1 DEF TakesDevices
  <1>3. able \in SUBSET Nat
    BY DEF Memory
  <1>4. \A i \in able : Dispatchable(m, m.queue[i], d)
    OBVIOUS
  <1>5. j \in {k \in X : a[k] = d}
    OBVIOUS
  <1> HIDE DEF able, taken
  <1>6. d \in FreeDevices(m, r) /\ able # {} /\ {k \in X : a[k] = d} = {m.queue[Min(able)]}
    BY <1>2, <1>5
  <1>7. Min(able) \in able
    BY <1>3, <1>6, MinLemma
  <1>8. j = m.queue[Min(able)]
    BY <1>5, <1>6
  <1>9. Dispatchable(m, j, d)
    BY <1>4, <1>7, <1>8
  <1> QED
    BY <1>6, <1>9

(* takeNextOfflineJobId: the job has to be tried server-side first.        *)
LEMMA OfflineStarts ==
  ASSUME NEW m \in Memory, NEW X, NEW a, Assigns(a, X), TakesOffline(m, a),
         NEW j \in X, j \in Range(m.queue), a[j] = Offline
  PROVE  RequiresServerSideAttempt(m, j)
  <1>1. DOMAIN a = X
    BY DEF Assigns
  <1>2. PICK i \in DOMAIN m.queue : m.queue[i] = j
    BY DEF Range
  <1> QED
    BY <1>1, <1>2 DEF TakesOffline

(* A start: the deadline has not passed, a server-side attempt is due and  *)
(* the first, a device suits the job, accepts jobs and is free.            *)
StartsWell(m, j) ==
  LET w == mem'.run[j].worker IN
  /\ m.phase = "up" /\ j \in mem'.tracked /\ j \notin due' /\ w \in Workers
  /\ w = Offline => j \in AppStoreJobs /\ ~m.job[j].tried /\ offlineReady'
  /\ w # Offline => /\ disk'.device[w] = "ready" /\ w \in healthy' /\ w \in Fits[j]
                    /\ w \notin BusyDevices(m)

(* What pumpWorkers leaves as it was, and whom it starts.                  *)
LEMMA PumpStarts ==
  ASSUME NEW m \in Memory, NEW s \in Disk, NEW overdue, PumpWorkers(m, s, overdue),
         \A j \in Range(m.queue) : StatusOf(m, j) = "queued"
  PROVE  /\ mem'.phase = m.phase /\ mem'.unwinding = m.unwinding /\ mem'.awaited = m.awaited
         /\ m.tracked \subseteq mem'.tracked
         /\ \A j \in Jobs : \/ StartsWell(m, j)
                            \/ /\ mem'.run[j] = m.run[j]
                               /\ StatusOf(mem', j) = "running" => StatusOf(m, j) = "running"
  <1> DEFINE X == {j \in Range(m.queue) : j \in overdue /\ StatusOf(m, j) = "queued"}
             m1 == Expired(m, X)
             devices == [d \in Devices |->
               IF s.device[d] = "draining" /\ d \notin BusyDevices(m) THEN "disabled" ELSE s.device[d]]
             s1 == [s EXCEPT !.device = devices]
             s2 == IF X = {} THEN s1 ELSE WriteSettlement(s1, m1, X, FALSE, AllWrites)
  <1>1. PICK a \in Assignments(m1), rank \in Rankings :
          /\ IF m.phase = "up"
             THEN TakesOffline(m1, a) /\ TakesDevices(m1, s1, a, rank)
             ELSE DOMAIN a = {}
          /\ mem' = Begun(m1, a)
          /\ \E written \in BOOLEAN :
               disk' = IF written THEN PersistJobs(s2, mem') ELSE s2
    BY DEF PumpWorkers
  <1>2. due' = overdue \ X
    BY DEF PumpWorkers
  <1>3. /\ X \in SUBSET Jobs
        /\ \A j \in Range(m.queue) : j \in overdue => j \in X
    BY DEF Memory, Range
  <1>4. s1 \in Disk
    <2>1. devices \in [Devices -> {"ready", "draining", "disabled"}]
      BY DEF Disk
    <2> HIDE DEF devices
    <2> QED
      BY <2>1 DEF Disk
  <1> HIDE DEF X, s1
  <1>5. /\ m1 \in Memory /\ m1.phase = m.phase /\ m1.run = m.run /\ m1.unwinding = m.unwinding
        /\ m1.tracked = m.tracked /\ m1.awaited = m.awaited
        /\ Range(m1.queue) = Range(m.queue) \ X
        /\ \A j \in Jobs \ X : m1.job[j] = m.job[j]
        /\ \A j \in X : m1.job[j].status = "failed"
    BY <1>3, ExpiredLemma
  <1> HIDE DEF m1
  <1>6. s2 \in Disk /\ s2.device = s1.device
    <2>1. CASE X = {}
      BY <1>4, <2>1
    <2>2. CASE X # {}
      <3>1. s2 = WriteSettlement(s1, m1, X, FALSE, AllWrites) /\ FALSE \in BOOLEAN
        BY <2>2
      <3> HIDE DEF s2
      <3>2. Settles(s1, m1, X, FALSE, s2)
        BY <1>3, <1>4, <1>5, <3>1, SettlesLemma
      <3> QED
        BY <3>2 DEF Settles
    <2> QED
      BY <2>1, <2>2
  <1> HIDE DEF s2
  <1>7. PICK D \in SUBSET Range(m1.queue) : a \in [D -> Workers]
    BY <1>1 DEF Assignments
  <1>8. D \in SUBSET Jobs /\ D \subseteq Range(m1.queue) /\ Assigns(a, D) /\ DOMAIN a = D
    BY <1>5, <1>7 DEF Memory, Range, Assigns
  <1>9. /\ mem' \in Memory
        /\ mem'.phase = m1.phase /\ mem'.unwinding = m1.unwinding /\ mem'.awaited = m1.awaited
        /\ mem'.tracked = m1.tracked \cup D
        /\ \A j \in Jobs \ D : mem'.job[j] = m1.job[j] /\ mem'.run[j] = m1.run[j]
        /\ \A j \in D : mem'.run[j] = [stage |-> "work", worker |-> a[j]]
    <2>1. mem' = Begun(m1, a)
      BY <1>1
    <2>2. m1 \in Memory /\ D \in SUBSET Jobs /\ Assigns(a, D)
      BY <1>5, <1>8
    <2> QED
      BY <2>1, <2>2, BegunLemma
  <1>10. disk'.device = s1.device
    <2>1. disk' = PersistJobs(s2, mem') \/ disk' = s2
      BY <1>1
    <2> QED
      BY <1>6, <1>9, <2>1, PersistLemma
  <1>11. BusyDevices(m1) = BusyDevices(m)
    BY <1>5 DEF BusyDevices, BusyWorkers
  <1>12. ASSUME NEW j \in D PROVE StartsWell(m, j)
    <2>1. /\ m.phase = "up" /\ TakesOffline(m1, a) /\ TakesDevices(m1, s1, a, rank)
      BY <1>1, <1>8, <1>12
    <2>2. /\ mem'.run[j].worker = a[j] /\ a[j] \in Workers /\ j \in mem'.tracked
          /\ j \in Range(m1.queue) /\ j \notin X /\ j \in Jobs
      <3>1. mem'.run[j] = [stage |-> "work", worker |-> a[j]]
        BY <1>9
      <3>2. mem'.run[j].worker = a[j]
        BY <3>1
      <3>3. j \in Jobs /\ j \in Range(m1.queue)
        BY <1>8
      <3>4. j \notin X
        BY <1>5, <3>3
      <3>5. a[j] \in Workers
        BY <1>7
      <3>6. j \in mem'.tracked
        BY <1>9
      <3> QED
        BY <3>2, <3>3, <3>4, <3>5, <3>6
    <2>3. j \notin due' /\ m1.job[j] = m.job[j]
      BY <1>2, <1>3, <1>5, <2>2
    <2>4. CASE a[j] = Offline
      <3>1. RequiresServerSideAttempt(m1, j)
        BY <1>5, <1>8, <2>1, <2>2, <2>4, OfflineStarts
      <3> QED
        BY <2>1, <2>2, <2>3, <2>4, <3>1 DEF StartsWell, RequiresServerSideAttempt
    <2>5. CASE a[j] # Offline
      <3>1. a[j] \in Devices
        BY <2>2, <2>5 DEF Workers
      <3>2. a[j] \in FreeDevices(m1, s1) /\ Dispatchable(m1, j, a[j])
        BY <1>5, <1>8, <2>1, <3>1, DeviceStarts
      <3> QED
        BY <1>10, <1>11, <2>1, <2>2, <2>3, <2>5, <3>2 DEF StartsWell, FreeDevices, Dispatchable
    <2> QED
      BY <2>4, <2>5
  <1>13. ASSUME NEW j \in Jobs \ D
         PROVE  /\ mem'.run[j] = m.run[j]
                /\ StatusOf(mem', j) = "running" => StatusOf(m, j) = "running"
    <2>1. mem'.job[j] = m1.job[j] /\ mem'.run[j] = m1.run[j]
      BY <1>9
    <2>2. StatusOf(m1, j) = "running" => StatusOf(m, j) = "running"
      BY <1>5 DEF StatusOf
    <2> QED
      BY <1>5, <2>1, <2>2 DEF StatusOf
  <1> QED
    BY <1>5, <1>9, <1>12, <1>13

(* What a step of StartsAreLegal says of one job.                          *)
LegalStart(j) ==
  StatusOf(mem, j) \in {"queued", "absent"} /\ StatusOf(mem', j) = "running" =>
    LET w == mem'.run[j].worker IN
    /\ j \notin due'
    /\ IF w = Offline THEN j \in AppStoreJobs /\ ~mem.job[j].tried /\ offlineReady'
       ELSE /\ disk'.device[w] = "ready" /\ w \in healthy' /\ w \in Fits[j]
            /\ w \notin BusyDevices(mem) \/ \E k \in Jobs : <<k, w>> \in mem.unwinding

(* A handler that ends by calling pumpWorkers starts only legally.         *)
LEMMA PumpIsLegal ==
  ASSUME mem \in Memory, NEW m, Prepares(m), NEW s \in Disk, NEW overdue,
         PumpWorkers(m, s, overdue), NEW j \in Jobs
  PROVE  LegalStart(j)
  <1>1. m \in Memory /\ \A k \in Range(m.queue) : StatusOf(m, k) = "queued"
    BY DEF Prepares
  <1>2. \/ StartsWell(m, j)
        \/ StatusOf(mem', j) = "running" => StatusOf(m, j) = "running"
    BY <1>1, PumpStarts
  <1>3. CASE StartsWell(m, j)
    <2> DEFINE w == mem'.run[j].worker
    <2>1. /\ j \notin due' /\ w \in Workers
          /\ w = Offline => j \in AppStoreJobs /\ ~m.job[j].tried /\ offlineReady'
          /\ w # Offline => /\ disk'.device[w] = "ready" /\ w \in healthy' /\ w \in Fits[j]
                            /\ w \notin BusyDevices(m)
      BY <1>3 DEF StartsWell
    <2>2. mem.job[j].tried => m.job[j].tried
      BY DEF Prepares
    <2> HIDE DEF w
    <2>3. ASSUME w # Offline, w \in BusyDevices(mem)
          PROVE  \E k \in Jobs : <<k, w>> \in mem.unwinding
      <3>1. PICK p \in BusyWorkers(mem) : p[2] = w
        BY <2>3 DEF BusyDevices
      <3>2. p \notin BusyWorkers(m)
        BY <2>1, <2>3, <3>1 DEF BusyDevices
      <3>3. p \in mem.unwinding
        BY <3>1, <3>2 DEF BusyWorkers, Prepares
      <3>4. p \in Jobs \X Workers
        BY <3>3 DEF Memory
      <3>5. p = <<p[1], w>> /\ p[1] \in Jobs
        BY <3>1, <3>4
      <3> QED
        BY <3>3, <3>5
    <2> QED
      BY <2>1, <2>2, <2>3 DEF LegalStart, w
  <1>4. CASE StatusOf(mem', j) = "running" => StatusOf(m, j) = "running"
    <2>1. StatusOf(mem', j) = "running" => StatusOf(mem, j) = "running"
      BY <1>4 DEF Prepares
    <2> QED
      BY <2>1 DEF LegalStart
  <1> QED
    BY <1>2, <1>3, <1>4

(* Handlers that may end by calling pumpWorkers.                           *)
LEMMA PumpsAreLegal ==
  ASSUME mem \in Memory, Pumps, NEW j \in Jobs
  PROVE  LegalStart(j)
  <1>1. PICK m : /\ Prepares(m)
                 /\ mem' = m \/ \E s \in Disk : \E overdue : PumpWorkers(m, s, overdue)
    BY DEF Pumps
  <1>2. CASE mem' = m
    BY <1>1, <1>2 DEF Prepares, LegalStart
  <1>3. ASSUME NEW s \in Disk, NEW overdue, PumpWorkers(m, s, overdue) PROVE LegalStart(j)
    BY <1>1, <1>3, PumpIsLegal
  <1> QED
    BY <1>1, <1>2, <1>3

(* No step starts a job illegally.                                         *)
LEMMA LegalStep ==
  ASSUME JobIInv, [Next]_vars, NEW j \in Jobs
  PROVE  LegalStart(j)
  <1>0. ASSUME StatusOf(mem', j) = "running" => StatusOf(mem, j) = "running" PROVE LegalStart(j)
    BY <1>0 DEF LegalStart
  <1>1. CASE mem.phase # "down"
    <2>1. InProcess(mem, disk, expiredTwins) /\ mem \in Memory
      BY <1>1 DEF JobIInv, InProcess
    <2>2. ASSUME KeepsRuns(mem, mem') \/ \E i \in Jobs : MovesRun(mem, mem', i)
          PROVE  LegalStart(j)
      BY <1>0, <2>2 DEF KeepsRuns, MovesRun
    <2>3. ASSUME mem' = Stopped PROVE LegalStart(j)
      <3>1. StatusOf(mem', j) # "running"
        BY <2>3, AbsentLemma DEF Stopped, StatusOf
      <3> QED
        BY <1>0, <3>1
    <2>4. ASSUME mem' = mem PROVE LegalStart(j)
      BY <1>0, <2>4
    <2>5. ASSUME NEW i \in Jobs, JobAction(i) PROVE LegalStart(j)
      <3>1. CASE Enqueue(i) \/ \E k \in Jobs : EnqueueDuplicate(i, k)
        <4>1. Pumps
          BY <2>1, <3>1, RequestPumps
        <4> QED
          BY <2>1, <4>1, PumpsAreLegal
      <3>2. CASE \/ EnqueueCached(i) \/ CancelQueued(i) \/ CancelRunning(i) \/ QueuedDeadlineFires(i)
                 \/ TwinDeadlineFires(i) \/ RunDeadlineFires(i) \/ CleanupJob(i)
        <4>1. KeepsRuns(mem, mem')
          BY <2>1, <3>2, KeepsRunsStep
        <4> QED
          BY <2>2, <4>1
      <3>3. CASE LastCheck(i) \/ RunSucceeds(i) \/ RunThrows(i) \/ ErrorHandled(i) \/ BackoffEnds(i)
        <4>1. MovesRun(mem, mem', i)
          BY <2>1, <3>3, MovesRunStep
        <4> QED
          BY <2>2, <4>1
      <3>4. CASE \E w \in Workers : RunUnwinds(i, w)
        <4>1. Pumps
          BY <2>1, <3>4, EventPumps
        <4> QED
          BY <2>1, <4>1, PumpsAreLegal
      <3>5. CASE CrashWhileSettling(i)
        BY <2>3, <3>5 DEF CrashWhileSettling, ProcessEnds
      <3>6. CASE DeadlinePasses(i)
        BY <2>4, <3>6 DEF DeadlinePasses
      <3> QED
        BY <2>5, <3>1, <3>2, <3>3, <3>4, <3>5, <3>6 DEF JobAction
    <2>6. CASE \/ \E d \in Devices :
                    \/ ReleasePinned(d) \/ HealthChanges(d)
                    \/ \E value \in {"ready", "draining", "disabled"} : DeviceSet(d, value)
               \/ OfflineReadinessChanges \/ Notify
      <3>1. Pumps
        BY <2>1, <2>6, EventPumps
      <3> QED
        BY <2>1, <3>1, PumpsAreLegal
    <2>7. CASE \/ BeginShutdown \/ DrainTimesOut
               \/ \E front \in SetToAllKPermutations(Range(mem.queue)) : ReorderQueue(front)
      <3>1. KeepsRuns(mem, mem')
        BY <2>1, <2>7, KeepsAllRunsStep
      <3> QED
        BY <2>2, <3>1
    <2>8. CASE Exit \/ Crash
      BY <2>3, <2>8 DEF Exit, Crash, ProcessEnds
    <2>9. ~Restart /\ ~CrashWhileStarting
      BY <1>1 DEF Restart, CrashWhileStarting
    <2>10. CASE UNCHANGED vars
      BY <2>4, <2>10 DEF vars
    <2> QED
      BY <2>5, <2>6, <2>7, <2>8, <2>9, <2>10 DEF Next
  <1>2. CASE mem.phase = "down"
    <2>1. mem = Stopped
      BY <1>2 DEF JobIInv
    <2>2. CASE Restart
      <3>1. \E q, timers : mem' = [Stopped EXCEPT !.phase = "up", !.job = RecoveredRows,
                                                 !.queue = q, !.timer = timers]
        BY <2>2 DEF Restart
      <3>2. RecoveredRows[j].status # "running"
        BY <1>2, RecoveryLemma DEF JobIInv
      <3>3. StatusOf(mem', j) # "running"
        BY <3>1, <3>2 DEF Stopped, StatusOf
      <3> QED
        BY <1>0, <3>3
    <2>3. CASE ~Restart
      <3>1. CrashWhileStarting \/ (\E i \in Jobs : DeadlinePasses(i)) \/ UNCHANGED vars
        BY <2>1, <2>3, IdleStep
      <3>2. mem' = mem
        BY <3>1 DEF CrashWhileStarting, DeadlinePasses, vars
      <3> QED
        BY <1>0, <3>2
    <2> QED
      BY <2>2, <2>3
  <1> QED
    BY <1>1, <1>2

(* Whatever has happened to the queue, the deadlines, the devices and the  *)
(* last server-side attempt since a job was queued: it is started before   *)
(* its deadline, on a worker that suits it and, for a device, one that     *)
(* accepts jobs and is free at that moment (pumpWorkers).                  *)
THEOREM JobsAlwaysStartLegally == Spec => StartsAreLegal
  <1>1. JobIInv /\ [Next]_vars => [\A j \in Jobs : LegalStart(j)]_vars
    BY LegalStep
  <1>2. [\A j \in Jobs : LegalStart(j)]_vars =>
          [\A j \in Jobs :
             StatusOf(mem, j) \in {"queued", "absent"} /\ StatusOf(mem', j) = "running" =>
               LET w == mem'.run[j].worker IN
               /\ j \notin due'
               /\ IF w = Offline THEN j \in AppStoreJobs /\ ~mem.job[j].tried /\ offlineReady'
                  ELSE /\ disk'.device[w] = "ready" /\ w \in healthy' /\ w \in Fits[j]
                       /\ w \notin BusyDevices(mem) \/ \E k \in Jobs : <<k, w>> \in mem.unwinding]_vars
    BY DEF LegalStart
  <1> QED
    BY <1>1, <1>2, JobInvariant, PTL DEF Spec, StartsAreLegal

----------------------------------------------------------------------------
(* What the history announces of queued jobs.                              *)

(* Who is newly announced as failed has failed in the memory n.            *)
Announced(s, n, t) ==
  \A j \in Jobs : t.history[j] = "failed" => s.history[j] = "failed" \/ StatusOf(n, j) = "failed"

(* The pump announces the queued jobs that are overdue, and they leave the *)
(* queue failed before it starts others.                                   *)
LEMMA PumpAnnounces ==
  ASSUME NEW m \in Memory, NEW s \in Disk, NEW overdue, PumpWorkers(m, s, overdue)
  PROVE  Announced(s, mem', disk')
  <1> DEFINE X == {j \in Range(m.queue) : j \in overdue /\ StatusOf(m, j) = "queued"}
             m1 == Expired(m, X)
             devices == [d \in Devices |->
               IF s.device[d] = "draining" /\ d \notin BusyDevices(m) THEN "disabled" ELSE s.device[d]]
             s1 == [s EXCEPT !.device = devices]
             s2 == IF X = {} THEN s1 ELSE WriteSettlement(s1, m1, X, FALSE, AllWrites)
  <1>1. X \in SUBSET Jobs
    BY DEF Memory, Range
  <1>2. s1 \in Disk /\ s1.history = s.history
    <2>1. devices \in [Devices -> {"ready", "draining", "disabled"}]
      BY DEF Disk
    <2> HIDE DEF devices
    <2> QED
      BY <2>1 DEF Disk
  <1>3. \E a \in Assignments(m1) : \E written \in BOOLEAN :
          /\ mem' = Begun(m1, a)
          /\ disk' = IF written THEN PersistJobs(s2, mem') ELSE s2
    BY DEF PumpWorkers
  <1> HIDE DEF s1, X
  <1>4. /\ m1 \in Memory /\ Range(m1.queue) = Range(m.queue) \ X
        /\ \A j \in X : StatusOf(m1, j) = "failed"
    BY <1>1, ExpiredLemma DEF StatusOf
  <1> HIDE DEF m1
  <1>5. s2 \in Disk /\ \A j \in Jobs : s2.history[j] = IF j \in X THEN "failed" ELSE s.history[j]
    <2>1. CASE X = {}
      BY <1>2, <2>1
    <2>2. CASE X # {}
      <3>1. s2 = WriteSettlement(s1, m1, X, FALSE, AllWrites)
        BY <2>2
      <3> HIDE DEF s2
      <3>2. Settles(s1, m1, X, FALSE, s2)
        BY <1>1, <1>2, <1>4, <3>1, SettlesLemma
      <3> QED
        BY <1>2, <3>2 DEF Settles, Outcome
    <2> QED
      BY <2>1, <2>2
  <1> HIDE DEF s2
  <1>6. PICK a \in Assignments(m1), written \in BOOLEAN :
          /\ mem' = Begun(m1, a)
          /\ disk' = IF written THEN PersistJobs(s2, mem') ELSE s2
    BY <1>3
  <1> DEFINE Y == DOMAIN a
  <1>7. Y \in SUBSET Jobs /\ Y \subseteq Range(m1.queue) /\ Assigns(a, Y)
    <2>1. PICK D \in SUBSET Range(m1.queue) : a \in [D -> Workers]
      BY <1>6 DEF Assignments
    <2>2. Range(m1.queue) \subseteq Jobs
      BY <1>4 DEF Memory, Range
    <2> QED
      BY <2>1, <2>2 DEF Assigns
  <1> HIDE DEF Y
  <1>8. mem' \in Memory /\ \A j \in Jobs \ Y : mem'.job[j] = m1.job[j]
    BY <1>4, <1>6, <1>7, BegunLemma
  <1>9. disk'.history = s2.history
    BY <1>5, <1>6, <1>8, PersistLemma
  <1>10. ASSUME NEW j \in X PROVE StatusOf(mem', j) = "failed"
    <2>1. j \in Jobs /\ j \notin Y
      BY <1>1, <1>4, <1>7
    <2> QED
      BY <1>4, <1>8, <2>1 DEF StatusOf
  <1> QED
    BY <1>5, <1>9, <1>10 DEF Announced

(* Handlers that may end by calling pumpWorkers.                           *)
LEMMA PumpsAnnounce ==
  ASSUME Pumps
  PROVE  Announced(disk, mem', disk')
  <1>1. PICK m, s :
          /\ Prepares(m) /\ s \in Disk /\ s.history = disk.history
          /\ (mem' = m /\ disk' = s) \/ \E overdue : PumpWorkers(m, s, overdue)
    BY DEF Pumps
  <1>2. CASE mem' = m /\ disk' = s
    BY <1>1, <1>2 DEF Announced
  <1>3. ASSUME NEW overdue, PumpWorkers(m, s, overdue) PROVE Announced(disk, mem', disk')
    <2>1. m \in Memory /\ s \in Disk
      BY <1>1 DEF Prepares
    <2>2. Announced(s, mem', disk')
      BY <1>3, <2>1, PumpAnnounces
    <2> QED
      BY <1>1, <2>2 DEF Announced
  <1> QED
    BY <1>1, <1>2, <1>3

(* From disk to disk' the history changes for job i alone, if for any.     *)
RecordsOnly(i) == \A j \in Jobs \ {i} : disk'.history[j] = disk.history[j]

(* The handlers that settle job i.                                         *)
LEMMA SettlesOnly ==
  ASSUME mem' \in Memory, NEW i \in Jobs, NEW success \in BOOLEAN,
         NEW p \in Disk, p.history = disk.history,
         disk' = WriteSettlement(p, mem', {i}, success, AllWrites)
  PROVE  RecordsOnly(i) /\ disk'.history[i] = Outcome(success)
  <1>1. Settles(p, mem', {i}, success, disk')
    BY SettlesLemma
  <1> QED
    BY <1>1 DEF Settles, RecordsOnly

(* What is run is not queued: whatever its handlers record.                *)
LEMMA RunsRecordOnly ==
  ASSUME InProcess(mem, disk, expiredTwins), mem' \in Memory, NEW i \in Jobs,
         RunSucceeds(i) \/ RunThrows(i) \/ ErrorHandled(i) \/ BackoffEnds(i)
  PROVE  RecordsOnly(i) /\ StatusOf(mem, i) = "running"
  <1>1. disk \in Disk /\ JobIsSound(mem, disk, expiredTwins, i)
    BY DEF InProcess
  <1>2. mem.run[i].stage \in {"work", "publish", "cleanup", "backoff"}
    BY DEF RunSucceeds, RunThrows, ErrorHandled, BackoffEnds
  <1>3. StatusOf(mem, i) = "running"
    BY <1>1, <1>2 DEF JobIsSound, WorksRightly
  <1>4. Promoted(disk, i) \in Disk /\ Promoted(disk, i).history = disk.history
    BY <1>1, AttributesAssumption DEF Disk, Promoted
  <1>5. ASSUME disk' = disk \/ disk' = Promoted(disk, i) \/ \E n : disk' = PersistJobs(disk, n)
        PROVE  RecordsOnly(i)
    <2>1. \A n : PersistJobs(disk, n).history = disk.history
      BY <1>1 DEF PersistJobs, Disk
    <2> QED
      BY <1>4, <1>5, <2>1 DEF RecordsOnly
  <1>6. ASSUME disk' = WriteSettlement(disk, mem', {i}, FALSE, AllWrites) PROVE RecordsOnly(i)
    BY <1>1, <1>6, SettlesOnly
  <1>7. CASE RunSucceeds(i)
    <2>1. disk' = WriteSettlement(Promoted(disk, i), mem', {i}, TRUE, AllWrites)
      BY <1>7 DEF RunSucceeds
    <2> QED
      BY <1>3, <1>4, <2>1, SettlesOnly
  <1>8. CASE RunThrows(i)
    BY <1>3, <1>5, <1>8 DEF RunThrows
  <1>9. CASE ErrorHandled(i) \/ BackoffEnds(i)
    <2>1. \/ \E n : disk' = PersistJobs(disk, n)
          \/ disk' = WriteSettlement(disk, mem', {i}, FALSE, AllWrites)
      BY <1>9 DEF ErrorHandled, BackoffEnds, RunRecovers, FallsBack, RunFails
    <2> QED
      BY <1>3, <1>5, <1>6, <2>1
  <1> QED
    BY <1>7, <1>8, <1>9

(* What a step of ExpiryFailsTheJob says of one job.                       *)
TrueExpiry(j) ==
  /\ Up /\ mem'.phase = "up" /\ StatusOf(mem, j) = "queued"
  /\ disk.history[j] # "failed" /\ disk'.history[j] = "failed"
  => StatusOf(mem', j) = "failed"

(* No step announces a failure that is not one, unless the timer of a copy *)
(* has fired in place of the job's.                                        *)
LEMMA ExpiryStep ==
  ASSUME JobIInv, JobIInv', [Next]_vars, NEW j \in Jobs, j \notin expiredTwins'
  PROVE  TrueExpiry(j)
  <1>0. SUFFICES ASSUME Up, mem'.phase = "up", StatusOf(mem, j) = "queued",
                        disk.history[j] # "failed", disk'.history[j] = "failed"
                 PROVE  StatusOf(mem', j) = "failed"
    BY DEF TrueExpiry
  <1>1. InProcess(mem, disk, expiredTwins) /\ mem \in Memory /\ disk \in Disk
    BY <1>0 DEF JobIInv, InProcess, Up
  <1>2. mem' \in Memory
    BY <1>0 DEF JobIInv, InProcess
  <1>3. ASSUME Pumps PROVE StatusOf(mem', j) = "failed"
    BY <1>0, <1>3, PumpsAnnounce DEF Announced
  <1>4. ASSUME disk'.history = disk.history PROVE FALSE
    BY <1>0, <1>4
  <1>5. ASSUME NEW n, disk' = PersistJobs(disk, n) PROVE FALSE
    BY <1>1, <1>4, <1>5 DEF PersistJobs, Disk
  <1>6. ASSUME NEW i \in Jobs, RecordsOnly(i) PROVE i = j
    BY <1>0, <1>6 DEF RecordsOnly
  <1>7. ASSUME NEW i \in Jobs, JobAction(i) PROVE StatusOf(mem', j) = "failed"
    <2>1. CASE Enqueue(i) \/ \E k \in Jobs : EnqueueDuplicate(i, k)
      BY <1>1, <1>3, <2>1, RequestPumps
    <2>2. CASE EnqueueCached(i)
      <3>1. PICK m1 : mem' = m1 /\ disk' = RecordJobHistory(PersistJobs(disk, m1), {i}, "done")
        BY <2>2 DEF EnqueueCached
      <3>2. PersistJobs(disk, mem') \in Disk /\ PersistJobs(disk, mem').history = disk.history
        BY <1>1, <1>2, PersistLemma
      <3>3. disk'.history[j] \in {"done", disk.history[j]}
        BY <3>1, <3>2 DEF RecordJobHistory, Disk
      <3> QED
        BY <1>0, <3>3
    <2>3. CASE CancelQueued(i) \/ QueuedDeadlineFires(i)
      <3>1. StatusOf(mem, i) = "queued"
        BY <1>1, <2>3 DEF InProcess, JobIsSound, WaitsRightly, CancelQueued, QueuedDeadlineFires
      <3>2. /\ mem' = Expired(mem, {i}) \/ mem' = CancelledInQueue(mem, i)
            /\ disk' = WriteSettlement(disk, mem', {i}, FALSE, AllWrites)
        BY <2>3 DEF CancelQueued, QueuedDeadlineFires
      <3>3. RecordsOnly(i)
        BY <1>1, <1>2, <3>2, SettlesOnly
      <3>4. Ends(mem, mem', i, "failed")
        BY <1>1, <3>1, <3>2, QueuedEnds
      <3>5. i = j
        BY <1>6, <3>3
      <3> QED
        BY <3>4, <3>5 DEF Ends, StatusOf
    <2>4. CASE TwinDeadlineFires(i)
      <3>1. disk' = WriteSettlement(disk, mem', {i}, FALSE, AllWrites) /\ i \in expiredTwins'
        BY <2>4 DEF TwinDeadlineFires
      <3>2. RecordsOnly(i)
        BY <1>1, <1>2, <3>1, SettlesOnly
      <3> QED
        BY <1>6, <3>1, <3>2
    <2>5. CASE RunSucceeds(i) \/ RunThrows(i) \/ ErrorHandled(i) \/ BackoffEnds(i)
      <3>1. RecordsOnly(i) /\ StatusOf(mem, i) = "running"
        BY <1>1, <1>2, <2>5, RunsRecordOnly
      <3> QED
        BY <1>0, <1>6, <3>1
    <2>6. CASE CancelRunning(i) \/ CleanupJob(i)
      BY <1>5, <2>6 DEF CancelRunning, CleanupJob
    <2>7. CASE RunDeadlineFires(i) \/ LastCheck(i) \/ DeadlinePasses(i)
      BY <1>4, <2>7 DEF RunDeadlineFires, LastCheck, DeadlinePasses
    <2>8. CASE \E w \in Workers : RunUnwinds(i, w)
      BY <1>1, <1>3, <2>8, EventPumps
    <2>9. CASE CrashWhileSettling(i)
      <3>1. mem' = Stopped
        BY <2>9 DEF CrashWhileSettling, ProcessEnds
      <3> QED
        BY <1>0, <3>1 DEF Stopped
    <2> QED
      BY <1>7, <2>1, <2>2, <2>3, <2>4, <2>5, <2>6, <2>7, <2>8, <2>9 DEF JobAction
  <1>8. CASE \/ \E d \in Devices :
                  \/ ReleasePinned(d) \/ HealthChanges(d)
                  \/ \E value \in {"ready", "draining", "disabled"} : DeviceSet(d, value)
             \/ OfflineReadinessChanges \/ Notify
    BY <1>1, <1>3, <1>8, EventPumps
  <1>9. CASE (\E front : ReorderQueue(front)) \/ UNCHANGED vars
    BY <1>4, <1>9 DEF ReorderQueue, vars
  <1>10. ~BeginShutdown /\ ~DrainTimesOut /\ ~Exit /\ ~Crash
    BY <1>0, <1>1 DEF BeginShutdown, DrainTimesOut, Exit, Crash, ProcessEnds, Stopped, Up, Memory
  <1>11. ~Restart /\ ~CrashWhileStarting
    BY <1>0 DEF Restart, CrashWhileStarting, Up
  <1> QED
    BY <1>7, <1>8, <1>9, <1>10, <1>11 DEF Next

(* The deadline timer of no copy has fired in place of the job's own:      *)
(* loadDatabaseJobs arms the timers after a restart with the copies.       *)
NoTwinExpires == expiredTwins = {}

(* Where that is so: when the expiry of a queued job is recorded, that job *)
(* has failed, whoever ends it, its timer, the pump or a cancellation, and *)
(* whatever crashes and restarts came before (failExpiredQueuedJob).       *)
THEOREM ExpiryFailsUnlessCopied == Spec /\ []NoTwinExpires => ExpiryFailsTheJob
  <1>1. JobIInv /\ JobIInv' /\ NoTwinExpires' /\ [Next]_vars => [\A j \in Jobs : TrueExpiry(j)]_vars
    BY ExpiryStep DEF NoTwinExpires
  <1>2. [\A j \in Jobs : TrueExpiry(j)]_vars =>
          [\A j \in Jobs :
             /\ Up /\ mem'.phase = "up" /\ StatusOf(mem, j) = "queued"
             /\ disk.history[j] # "failed" /\ disk'.history[j] = "failed"
             => StatusOf(mem', j) = "failed"]_vars
    BY DEF TrueExpiry
  <1> QED
    BY <1>1, <1>2, JobInvariant, PTL DEF Spec, ExpiryFailsTheJob

----------------------------------------------------------------------------
(* Shutdown, without server-side workers.                                  *)

(* A run that shutdownJobs may have to wait for is among those it waits    *)
(* for: runningJobs has it while jobs are accepted, `awaited' afterwards.  *)
Awaits(m) ==
  \A j \in Jobs : m.run[j].stage # "none" =>
    /\ m.run[j].worker # Offline
    /\ m.phase = "up" => j \in m.tracked
    /\ m.phase = "draining" => j \in m.awaited

(* Of a job whose run has returned but not unwound nothing is to be done,  *)
(* so that its run.finally makes runningJobs forget no other run.          *)
Final == {"done", "failed", "gone"}
Over(m) == m.phase = "up" => \A p \in m.unwinding : StatusOf(m, p[1]) \in Final

Tracks == ~offlineReady /\ Awaits(mem) /\ Over(mem)

(* phase, runningJobs and what shutdownJobs waits for stay.                *)
Calm(m, n) == n.phase = m.phase /\ n.tracked = m.tracked /\ n.awaited = m.awaited

(* What is over stays over.                                                *)
LEMMA OverLemma ==
  ASSUME JobIInv, JobIInv', RowsMove(disk, disk'), NEW j \in Jobs,
         mem.phase # "down", mem'.phase # "down", StatusOf(mem, j) \in Final
  PROVE  StatusOf(mem', j) \in Final
  <1>1. InProcess(mem, disk, expiredTwins)
    BY DEF JobIInv
  <1>2. disk.job[j].status \in Final
    BY <1>1 DEF InProcess, JobIsSound, RowIsCurrent
  <1>3. InProcess(mem, disk, expiredTwins)'
    BY DEF JobIInv
  <1>4. disk'.job[j].status = StatusOf(mem', j)
    BY <1>3 DEF InProcess, JobIsSound, RowIsCurrent, StatusOf
  <1>5. disk'.job[j].status \in Final
    BY <1>2 DEF RowsMove, Final, Lifecycle!Moves
  <1> QED
    BY <1>4, <1>5

(* A run that goes on or returns: nobody is forgotten.                     *)
LEMMA CalmTracks ==
  ASSUME JobIInv, JobIInv', RowsMove(disk, disk'), mem.phase # "down", Tracks, ~offlineReady',
         Calm(mem, mem'),
         \/ KeepsRuns(mem, mem')
         \/ \E j \in Jobs : /\ MovesRun(mem, mem', j)
                            /\ \/ mem.phase # "up" \/ StatusOf(mem', j) \in Final
                               \/ mem'.unwinding = mem.unwinding
  PROVE  Tracks'
  <1>1. mem'.phase = mem.phase /\ mem'.tracked = mem.tracked /\ mem'.awaited = mem.awaited
    BY DEF Calm
  <1>2. mem.unwinding \subseteq Jobs \X Workers
    BY DEF JobIInv, InProcess, Memory
  <1>3. ASSUME NEW p \in mem.unwinding, mem.phase = "up"
        PROVE  StatusOf(mem', p[1]) \in Final
    <2>1. p[1] \in Jobs /\ StatusOf(mem, p[1]) \in Final
      BY <1>2, <1>3 DEF Tracks, Over
    <2> QED
      BY <1>1, <2>1, OverLemma
  <1>4. CASE KeepsRuns(mem, mem')
    <2>1. Awaits(mem')
      BY <1>1, <1>4 DEF Tracks, Awaits, KeepsRuns
    <2>2. Over(mem')
      BY <1>1, <1>3, <1>4 DEF Over, KeepsRuns
    <2> QED
      BY <2>1, <2>2 DEF Tracks, Awaits, Over, StatusOf
  <1>5. ASSUME NEW j \in Jobs, MovesRun(mem, mem', j),
               \/ mem.phase # "up" \/ StatusOf(mem', j) \in Final
               \/ mem'.unwinding = mem.unwinding
        PROVE  Tracks'
    <2>1. Awaits(mem')
      BY <1>1, <1>5 DEF Tracks, Awaits, MovesRun
    <2>2. Over(mem')
      <3> SUFFICES ASSUME mem'.phase = "up", NEW p \in mem'.unwinding
                   PROVE  StatusOf(mem', p[1]) \in Final
        BY DEF Over
      <3>1. CASE p \in mem.unwinding
        BY <1>1, <1>3, <3>1
      <3>2. CASE p \notin mem.unwinding
        <4>1. p[1] = j /\ mem'.unwinding # mem.unwinding
          BY <1>5, <3>2 DEF MovesRun
        <4> QED
          BY <1>1, <1>5, <4>1
      <3> QED
        BY <3>1, <3>2
    <2> QED
      BY <2>1, <2>2 DEF Tracks, Awaits, Over, StatusOf
  <1> QED
    BY <1>4, <1>5

(* Handlers that may end by calling pumpWorkers: who is started is         *)
(* tracked, and who is no longer tracked has nothing left to run.          *)
LEMMA PumpsTrack ==
  ASSUME JobIInv, JobIInv', RowsMove(disk, disk'), mem.phase # "down", Tracks, ~offlineReady',
         Pumps
  PROVE  Tracks'
  <1>1. PICK m : /\ Prepares(m)
                 /\ mem' = m \/ \E s \in Disk : \E overdue : PumpWorkers(m, s, overdue)
    BY DEF Pumps
  <1>2. InProcess(mem, disk, expiredTwins) /\ mem.unwinding \subseteq Jobs \X Workers
    BY DEF JobIInv, InProcess, Memory
  <1>3. /\ m \in Memory /\ m.phase = mem.phase /\ m.run = mem.run /\ m.awaited = mem.awaited
        /\ m.unwinding \subseteq mem.unwinding
        /\ \A j \in mem.tracked : j \in m.tracked \/ \E w \in Workers : <<j, w>> \in mem.unwinding
        /\ \A j \in Range(m.queue) : StatusOf(m, j) = "queued"
    BY <1>1 DEF Prepares
  <1>4. Awaits(m)
    <2> SUFFICES ASSUME NEW j \in Jobs, m.run[j].stage # "none"
                 PROVE  /\ m.run[j].worker # Offline
                        /\ m.phase = "up" => j \in m.tracked
                        /\ m.phase = "draining" => j \in m.awaited
      BY DEF Awaits
    <2>1. /\ m.run[j].worker # Offline
          /\ m.phase = "up" => j \in mem.tracked
          /\ m.phase = "draining" => j \in m.awaited
      BY <1>3 DEF Tracks, Awaits
    <2>2. StatusOf(mem, j) = "running"
      BY <1>2, <1>3 DEF InProcess, JobIsSound, WorksRightly
    <2>3. ASSUME m.phase = "up" PROVE j \in m.tracked
      <3>1. \A w \in Workers : <<j, w>> \notin mem.unwinding
        <4>1. ASSUME NEW p \in mem.unwinding PROVE p[1] # j
          BY <1>3, <2>2, <2>3 DEF Tracks, Over, Final
        <4> QED
          BY <4>1
      <3> QED
        BY <1>3, <2>1, <2>3, <3>1
    <2> QED
      BY <2>1, <2>3
  <1>5. /\ mem'.phase = m.phase /\ mem'.unwinding = m.unwinding
        /\ Awaits(mem')
    <2>1. CASE mem' = m
      BY <1>4, <2>1
    <2>2. ASSUME NEW s \in Disk, NEW overdue, PumpWorkers(m, s, overdue)
          PROVE  /\ mem'.phase = m.phase /\ mem'.unwinding = m.unwinding
                 /\ Awaits(mem')
      <3>1. /\ mem'.phase = m.phase /\ mem'.unwinding = m.unwinding /\ mem'.awaited = m.awaited
            /\ m.tracked \subseteq mem'.tracked
            /\ \A j \in Jobs : StartsWell(m, j) \/ mem'.run[j] = m.run[j]
        BY <1>3, <2>2, PumpStarts
      <3>2. \A j \in Jobs : StartsWell(m, j) =>
              m.phase = "up" /\ j \in mem'.tracked /\ mem'.run[j].worker # Offline
        BY DEF StartsWell
      <3>3. ASSUME NEW j \in Jobs, mem'.run[j].stage # "none"
            PROVE  /\ mem'.run[j].worker # Offline
                   /\ mem'.phase = "up" => j \in mem'.tracked
                   /\ mem'.phase = "draining" => j \in mem'.awaited
        <4>1. CASE StartsWell(m, j)
          BY <3>1, <3>2, <4>1
        <4>2. CASE mem'.run[j] = m.run[j]
          BY <1>4, <3>1, <3>3, <4>2 DEF Awaits
        <4> QED
          BY <3>1, <4>1, <4>2
      <3> QED
        BY <3>1, <3>3 DEF Awaits
    <2> QED
      BY <1>1, <2>1, <2>2
  <1>6. Over(mem')
    <2> SUFFICES ASSUME mem'.phase = "up", NEW p \in mem'.unwinding
                 PROVE  StatusOf(mem', p[1]) \in Final
      BY DEF Over
    <2>1. p[1] \in Jobs /\ StatusOf(mem, p[1]) \in Final
      BY <1>2, <1>3, <1>5 DEF Tracks, Over
    <2> QED
      BY <2>1, OverLemma
  <1> QED
    BY <1>5, <1>6 DEF Tracks, Awaits, Over, StatusOf

(* Handlers that leave the runs alone track what they tracked.             *)
LEMMA KeepsCalm ==
  ASSUME mem \in Memory, NEW j \in Jobs,
         \/ EnqueueCached(j) \/ CancelQueued(j) \/ CancelRunning(j) \/ QueuedDeadlineFires(j)
         \/ TwinDeadlineFires(j) \/ RunDeadlineFires(j) \/ CleanupJob(j)
         \/ \E front : ReorderQueue(front)
  PROVE  Calm(mem, mem')
  <1> DEFINE X == {j}
  <1>1. X \in SUBSET Jobs /\ "off" \in {"off", "live", "copy"}
    OBVIOUS
  <1>2. CASE \/ EnqueueCached(j) \/ CancelRunning(j) \/ RunDeadlineFires(j) \/ CleanupJob(j)
             \/ \E front : ReorderQueue(front)
    BY <1>2 DEF EnqueueCached, CancelRunning, RunDeadlineFires, CleanupJob, ReorderQueue, Memory, Calm
  <1>3. CASE CancelQueued(j) \/ TwinDeadlineFires(j)
    <2> DEFINE d == Dequeue(mem, X)
               f == SetTimer(d, X, "off")
    <2>1. mem' = f \/ mem' = WithStatus(f, j, "failed")
      BY <1>3 DEF CancelQueued, CancelledInQueue, TwinDeadlineFires
    <2> HIDE DEF X
    <2>2. d \in Memory /\ Calm(mem, d)
      BY <1>1, DequeueLemma DEF Calm
    <2> HIDE DEF d
    <2>3. f \in Memory /\ Calm(d, f)
      BY <1>1, <2>2, SetTimerLemma DEF Calm
    <2> HIDE DEF f
    <2>4. mem' = WithStatus(f, j, "failed") => Calm(f, mem')
      BY <2>3, StatusesLemma, StatusLemma DEF Calm, Edits
    <2> QED
      BY <2>1, <2>2, <2>3, <2>4 DEF Calm
  <1>4. CASE QueuedDeadlineFires(j)
    <2>1. mem' = Expired(mem, X)
      BY <1>4 DEF QueuedDeadlineFires
    <2> HIDE DEF X
    <2> QED
      BY <1>1, <2>1, ExpiredLemma DEF Calm
  <1> QED
    BY <1>2, <1>3, <1>4

(* A run that goes on stays tracked; one that returns, of a process that   *)
(* accepts jobs, is over, unless it is a server-side attempt that falls    *)
(* back: only a shutdown marks runs for recovery.                          *)
LEMMA MovesCalm ==
  ASSUME InProcess(mem, disk, expiredTwins), NEW j \in Jobs,
         LastCheck(j) \/ RunSucceeds(j) \/ RunThrows(j) \/ ErrorHandled(j) \/ BackoffEnds(j)
  PROVE  /\ Calm(mem, mem')
         /\ \/ mem.run[j].worker = Offline
            \/ mem.phase # "up" \/ StatusOf(mem', j) \in Final
            \/ mem'.unwinding = mem.unwinding
  <1> DEFINE f == Returned(mem, j)
  <1>1. mem \in Memory /\ WorksRightly(mem, j)
    BY DEF InProcess, JobIsSound
  <1>2. mem.run[j].stage # "none"
    BY DEF LastCheck, RunSucceeds, RunThrows, ErrorHandled, BackoffEnds
  <1>3. f \in Memory /\ Calm(mem, f) /\ f.job = mem.job
    BY <1>1, <1>2, ReturnedLemma DEF Edits, Calm, WorksRightly
  <1>4. ASSUME NEW status \in {"done", "failed"}
        PROVE  /\ WithStatus(f, j, status) \in Memory /\ Calm(mem, WithStatus(f, j, status))
               /\ StatusOf(WithStatus(f, j, status), j) \in Final
    <2> DEFINE g == WithStatus(f, j, status)
    <2>1. Edits(f, g, j) /\ g.job[j].status = status
      BY <1>3, StatusesLemma, StatusLemma
    <2> HIDE DEF f, g
    <2>2. g \in Memory /\ Calm(f, g)
      BY <2>1 DEF Edits, Calm
    <2>3. g \in Memory /\ Calm(mem, g) /\ StatusOf(g, j) \in Final
      BY <1>3, <2>1, <2>2 DEF Calm, StatusOf, Final
    <2> QED
      BY <2>3 DEF g
  <1>5. CASE LastCheck(j) \/ RunThrows(j)
    BY <1>1, <1>5 DEF LastCheck, RunThrows, Memory, Calm
  <1>6. CASE RunSucceeds(j)
    <2> DEFINE g == WithStatus(f, j, "done")
    <2>1. mem' = [g EXCEPT !.job[j].recovery = FALSE]
      BY <1>6 DEF RunSucceeds, Succeeded
    <2>2. g \in Memory /\ Calm(mem, g) /\ StatusOf(g, j) \in Final
      BY <1>4
    <2> HIDE DEF f, g
    <2>3. g.job \in [Jobs -> JobRecord]
      BY <2>2 DEF Memory
    <2>4. /\ mem'.phase = g.phase /\ mem'.tracked = g.tracked /\ mem'.awaited = g.awaited
          /\ mem'.job[j].status = g.job[j].status
      BY <2>1, <2>2, <2>3 DEF Memory, JobRecord
    <2> QED
      BY <2>2, <2>4 DEF Calm, StatusOf
  <1>7. CASE RunFails(j)
    <2>1. mem' = WithStatus(f, j, "failed")
      BY <1>7 DEF RunFails, Failed
    <2> QED
      BY <1>4, <2>1
  <1>8. CASE RunRecovers(j)
    <2> DEFINE r == Recovered(mem.job[j])
               jobs == [f.job EXCEPT ![j] = r]
               g == [f EXCEPT !.job = jobs]
               h == InsertByPriority(g, j)
    <2>1. mem' = h /\ mem.job[j].recovery
      BY <1>3, <1>8 DEF RunRecovers
    <2>2. g.phase = f.phase /\ g.tracked = f.tracked /\ g.awaited = f.awaited
      BY <1>3 DEF Memory
    <2>3. h.phase = g.phase /\ h.tracked = g.tracked /\ h.awaited = g.awaited
      <3>1. \E q : h = [g EXCEPT !.queue = q]
        BY DEF InsertByPriority
      <3>2. \A q : LET o == [g EXCEPT !.queue = q] IN
               o.phase = g.phase /\ o.tracked = g.tracked /\ o.awaited = g.awaited
        BY <1>3 DEF Memory
      <3> HIDE DEF g, h
      <3> QED
        BY <3>1, <3>2
    <2>4. mem.phase = "aborting"
      BY <1>1, <1>2, <2>1 DEF WorksRightly, Active
    <2> QED
      BY <1>3, <2>1, <2>2, <2>3, <2>4 DEF Calm
  <1>9. CASE mem' = [mem EXCEPT !.run[j].stage = "backoff"] \/ mem' = Retried(mem, j)
    BY <1>1, <1>9 DEF Retried, Memory, Calm
  <1>10. CASE mem' = [Failed(mem, j) EXCEPT !.job[j].late = TRUE]
    <2> DEFINE g == WithStatus(f, j, "failed")
    <2>1. mem' = [g EXCEPT !.job[j].late = TRUE]
      BY <1>10 DEF Failed
    <2>2. g \in Memory /\ Calm(mem, g) /\ StatusOf(g, j) \in Final
      BY <1>4
    <2> HIDE DEF f, g
    <2>3. g.job \in [Jobs -> JobRecord]
      BY <2>2 DEF Memory
    <2>4. /\ mem'.phase = g.phase /\ mem'.tracked = g.tracked /\ mem'.awaited = g.awaited
          /\ mem'.job[j].status = g.job[j].status
      BY <2>1, <2>2, <2>3 DEF Memory, JobRecord
    <2> QED
      BY <2>2, <2>4 DEF Calm, StatusOf
  <1>11. ASSUME ErrorHandled(j)
         PROVE  \/ RunRecovers(j) \/ RunFails(j) \/ mem' = [mem EXCEPT !.run[j].stage = "backoff"]
                \/ FallsBack(j) /\ mem.run[j].worker = Offline
    BY <1>11 DEF ErrorHandled
  <1>12. ASSUME BackoffEnds(j)
         PROVE  \/ RunRecovers(j) \/ RunFails(j) \/ mem' = Retried(mem, j)
                \/ mem' = [Failed(mem, j) EXCEPT !.job[j].late = TRUE]
    BY <1>12 DEF BackoffEnds, Retried
  <1>13. CASE FallsBack(j) /\ mem.run[j].worker = Offline
    <2> DEFINE g == WithStatus(f, j, "queued")
               h == Requeue(g, j)
               X == {j}
    <2>1. mem' = SetTimer(h, X, "live")
      BY <1>13 DEF FallsBack
    <2>2. g \in Memory /\ Calm(f, g)
      <3>1. Edits(f, g, j)
        BY <1>3, StatusesLemma, StatusLemma
      <3> QED
        BY <3>1 DEF Edits, Calm
    <2> HIDE DEF f, g
    <2>3. h \in Memory /\ Calm(g, h)
      BY <2>2, RequeueLemma DEF Calm
    <2>4. X \in SUBSET Jobs /\ "live" \in {"off", "live", "copy"}
      OBVIOUS
    <2> HIDE DEF h, X
    <2>5. Calm(h, mem')
      BY <2>1, <2>3, <2>4, SetTimerLemma DEF Calm
    <2> QED
      BY <1>3, <1>13, <2>2, <2>3, <2>5 DEF Calm
  <1> HIDE DEF f
  <1> QED
    BY <1>5, <1>6, <1>7, <1>8, <1>9, <1>10, <1>11, <1>12, <1>13

(* A process that has no runs forgets none.                                *)
LEMMA IdleTracks ==
  ASSUME ~offlineReady', \A j \in Jobs : mem'.run[j].stage = "none", mem'.unwinding = {}
  PROVE  Tracks'
  BY DEF Tracks, Awaits, Over

(* No step lets shutdownJobs forget a run.                                 *)
LEMMA TracksStep ==
  ASSUME OfflineEnabled = FALSE, JobIInv, JobIInv', RowsMove(disk, disk'), Tracks, [Next]_vars
  PROVE  Tracks'
  <1>0. ~offlineReady'
    <2>1. ~offlineReady
      BY DEF Tracks
    <2>2. CASE OfflineReadinessChanges
      BY <2>2 DEF OfflineReadinessChanges
    <2>3. CASE offlineReady' = offlineReady
      BY <2>1, <2>3
    <2>4. ASSUME NEW k \in Jobs, JobAction(k) PROVE offlineReady' = offlineReady
      <3>1. CASE \/ Enqueue(k) \/ (\E l \in Jobs : EnqueueDuplicate(k, l)) \/ EnqueueCached(k)
                 \/ CancelQueued(k) \/ CancelRunning(k) \/ DeadlinePasses(k)
        BY <3>1 DEF Enqueue, EnqueueDuplicate, EnqueueCached, CancelQueued, CancelRunning,
             DeadlinePasses
      <3>2. CASE \/ QueuedDeadlineFires(k) \/ TwinDeadlineFires(k) \/ RunDeadlineFires(k)
                 \/ LastCheck(k) \/ RunSucceeds(k) \/ RunThrows(k)
        BY <3>2 DEF QueuedDeadlineFires, TwinDeadlineFires, RunDeadlineFires, LastCheck,
             RunSucceeds, RunThrows
      <3>3. CASE \/ ErrorHandled(k) \/ BackoffEnds(k) \/ (\E w \in Workers : RunUnwinds(k, w))
                 \/ CleanupJob(k) \/ CrashWhileSettling(k)
        BY <3>3 DEF ErrorHandled, BackoffEnds, RunUnwinds, CleanupJob, CrashWhileSettling, ProcessEnds
      <3> QED
        BY <2>4, <3>1, <3>2, <3>3 DEF JobAction
    <2>5. CASE \/ \E front \in SetToAllKPermutations(Range(mem.queue)) : ReorderQueue(front)
               \/ \E d \in Devices :
                    \/ ReleasePinned(d)
                    \/ \E value \in {"ready", "draining", "disabled"} : DeviceSet(d, value)
                    \/ HealthChanges(d)
               \/ Notify \/ BeginShutdown \/ DrainTimesOut \/ Exit \/ Crash \/ Restart
               \/ CrashWhileStarting \/ UNCHANGED vars
      BY <2>3, <2>5 DEF vars, ReorderQueue, ReleasePinned, DeviceSet, HealthChanges, Notify,
           BeginShutdown, DrainTimesOut, Exit, Crash, Restart, CrashWhileStarting, ProcessEnds
    <2> QED
      BY <2>2, <2>3, <2>4, <2>5 DEF Next
  <1>1. ASSUME mem' = Stopped PROVE Tracks'
    <2>1. /\ \A j \in Jobs : mem'.run[j].stage = "none"
          /\ mem'.unwinding = {}
      BY <1>1 DEF Stopped, NoRun
    <2> QED
      BY <1>0, <2>1, IdleTracks
  <1>2. ASSUME mem' = mem PROVE Tracks'
    BY <1>0, <1>2 DEF Tracks, Awaits, Over, StatusOf
  <1>3. CASE mem.phase # "down"
    <2>1. InProcess(mem, disk, expiredTwins) /\ mem \in Memory
      BY <1>3 DEF JobIInv, InProcess
    <2>2. ASSUME Pumps PROVE Tracks'
      BY <1>0, <1>3, <2>2, PumpsTrack
    <2>3. ASSUME KeepsRuns(mem, mem'), Calm(mem, mem') PROVE Tracks'
      BY <1>0, <1>3, <2>3, CalmTracks
    <2>4. ASSUME NEW j \in Jobs, JobAction(j) PROVE Tracks'
      <3>1. CASE Enqueue(j) \/ (\E k \in Jobs : EnqueueDuplicate(j, k))
        BY <2>1, <2>2, <3>1, RequestPumps
      <3>2. CASE \/ EnqueueCached(j) \/ CancelQueued(j) \/ CancelRunning(j) \/ QueuedDeadlineFires(j)
                 \/ TwinDeadlineFires(j) \/ RunDeadlineFires(j) \/ CleanupJob(j)
        <4>1. KeepsRuns(mem, mem')
          BY <2>1, <3>2, KeepsRunsStep
        <4>2. Calm(mem, mem')
          BY <2>1, <3>2, KeepsCalm
        <4> QED
          BY <2>3, <4>1, <4>2
      <3>3. CASE LastCheck(j) \/ RunSucceeds(j) \/ RunThrows(j) \/ ErrorHandled(j) \/ BackoffEnds(j)
        <4>1. MovesRun(mem, mem', j)
          BY <2>1, <3>3, MovesRunStep
        <4>2. mem.run[j].worker # Offline
          BY <4>1 DEF MovesRun, Tracks, Awaits
        <4>3. /\ Calm(mem, mem')
              /\ \/ mem.phase # "up" \/ StatusOf(mem', j) \in Final
                 \/ mem'.unwinding = mem.unwinding
          BY <2>1, <3>3, <4>2, MovesCalm
        <4> QED
          BY <1>0, <1>3, <4>1, <4>3, CalmTracks
      <3>4. CASE \E w \in Workers : RunUnwinds(j, w)
        BY <2>1, <2>2, <3>4, EventPumps
      <3>5. CASE CrashWhileSettling(j)
        BY <1>1, <3>5 DEF CrashWhileSettling, ProcessEnds
      <3>6. CASE DeadlinePasses(j)
        BY <1>2, <3>6 DEF DeadlinePasses
      <3> QED
        BY <2>4, <3>1, <3>2, <3>3, <3>4, <3>5, <3>6 DEF JobAction
    <2>5. CASE \/ \E d \in Devices :
                    \/ ReleasePinned(d) \/ HealthChanges(d)
                    \/ \E value \in {"ready", "draining", "disabled"} : DeviceSet(d, value)
               \/ OfflineReadinessChanges \/ Notify
      BY <2>1, <2>2, <2>5, EventPumps
    <2>6. CASE \E front \in SetToAllKPermutations(Range(mem.queue)) : ReorderQueue(front)
      <3>1. mem'.phase = mem.phase /\ mem'.tracked = mem.tracked /\ mem'.awaited = mem.awaited
        BY <2>1, <2>6 DEF ReorderQueue, Memory
      <3>2. KeepsRuns(mem, mem')
        BY <2>1, <2>6, KeepsAllRunsStep
      <3> QED
        BY <2>3, <3>1, <3>2 DEF Calm
    <2>7. CASE BeginShutdown
      <3>1. /\ mem'.phase = "draining" /\ mem'.run = mem.run /\ mem'.awaited = mem.tracked
            /\ mem.phase = "up"
        BY <2>1, <2>7 DEF BeginShutdown, Up, Memory
      <3> QED
        BY <1>0, <3>1 DEF Tracks, Awaits, Over
    <2>8. CASE DrainTimesOut
      <3>1. KeepsRuns(mem, mem')
        BY <2>1, <2>8, KeepsAllRunsStep
      <3>2. mem'.phase = "aborting"
        BY <2>1, <2>8 DEF DrainTimesOut, MarkedForRecovery, Patch, Memory
      <3> QED
        BY <1>0, <3>1, <3>2 DEF Tracks, Awaits, Over, KeepsRuns
    <2>9. CASE Exit \/ Crash
      BY <1>1, <2>9 DEF Exit, Crash, ProcessEnds
    <2>10. ~Restart /\ ~CrashWhileStarting
      BY <1>3 DEF Restart, CrashWhileStarting
    <2>11. CASE UNCHANGED vars
      BY <1>2, <2>11 DEF vars
    <2> QED
      BY <2>4, <2>5, <2>6, <2>7, <2>8, <2>9, <2>10, <2>11 DEF Next
  <1>4. CASE mem.phase = "down"
    <2>1. mem = Stopped
      BY <1>4 DEF JobIInv
    <2>2. CASE Restart
      <3>1. \E q, timers : mem' = [Stopped EXCEPT !.phase = "up", !.job = RecoveredRows,
                                                 !.queue = q, !.timer = timers]
        BY <2>2 DEF Restart
      <3>2. (\A j \in Jobs : mem'.run[j].stage = "none") /\ mem'.unwinding = {}
        BY <3>1 DEF Stopped, NoRun
      <3> QED
        BY <1>0, <3>2, IdleTracks
    <2>3. CASE ~Restart
      <3>1. CrashWhileStarting \/ (\E i \in Jobs : DeadlinePasses(i)) \/ UNCHANGED vars
        BY <2>1, <2>3, IdleStep
      <3>2. mem' = mem
        BY <3>1 DEF CrashWhileStarting, DeadlinePasses, vars
      <3> QED
        BY <1>2, <3>2
    <2> QED
      BY <2>2, <2>3
  <1> QED
    BY <1>3, <1>4

(* One step of ShutdownKeepsRunningJobs.                                   *)
KeepsRunning ==
  mem.phase # "down" /\ mem'.phase = "down" /\ restarts' = restarts
    => \A j \in Jobs : disk'.job[j].status = "running" => disk'.job[j].recovery

(* Only an orderly exit ends the process and is not a crash.               *)
LEMMA ExitLemma ==
  ASSUME JobIInv, mem.phase # "down", mem'.phase = "down", restarts' = restarts, [Next]_vars
  PROVE  Exit
  <1>1. restarts \in Nat
    BY LimitsAssumption DEF JobIInv
  <1>2. InProcess(mem, disk, expiredTwins) /\ mem \in Memory
    BY DEF JobIInv, InProcess
  <1>3. ASSUME Pumps PROVE FALSE
    <2>1. PICK m : /\ Prepares(m)
                   /\ mem' = m \/ \E s \in Disk : \E overdue : PumpWorkers(m, s, overdue)
      BY <1>3 DEF Pumps
    <2>2. m \in Memory /\ m.phase = mem.phase /\ \A j \in Range(m.queue) : StatusOf(m, j) = "queued"
      BY <2>1 DEF Prepares
    <2>3. ASSUME NEW s \in Disk, NEW overdue, PumpWorkers(m, s, overdue) PROVE FALSE
      BY <2>2, <2>3, PumpStarts
    <2> QED
      BY <2>1, <2>2, <2>3
  <1>4. ASSUME Calm(mem, mem') PROVE FALSE
    BY <1>4 DEF Calm
  <1>5. ASSUME restarts' = restarts + 1 PROVE FALSE
    BY <1>1, <1>5
  <1>6. ASSUME NEW j \in Jobs, JobAction(j) PROVE FALSE
    <2>1. CASE Enqueue(j) \/ (\E k \in Jobs : EnqueueDuplicate(j, k))
      BY <1>2, <1>3, <2>1, RequestPumps
    <2>2. CASE \/ EnqueueCached(j) \/ CancelQueued(j) \/ CancelRunning(j) \/ QueuedDeadlineFires(j)
               \/ TwinDeadlineFires(j) \/ RunDeadlineFires(j) \/ CleanupJob(j)
      BY <1>2, <1>4, <2>2, KeepsCalm
    <2>3. CASE LastCheck(j) \/ RunSucceeds(j) \/ RunThrows(j) \/ ErrorHandled(j) \/ BackoffEnds(j)
      BY <1>2, <1>4, <2>3, MovesCalm
    <2>4. CASE \E w \in Workers : RunUnwinds(j, w)
      BY <1>2, <1>3, <2>4, EventPumps
    <2>5. CASE CrashWhileSettling(j)
      BY <1>5, <2>5 DEF CrashWhileSettling
    <2>6. CASE DeadlinePasses(j)
      BY <2>6 DEF DeadlinePasses
    <2> QED
      BY <1>6, <2>1, <2>2, <2>3, <2>4, <2>5, <2>6 DEF JobAction
  <1>7. CASE \/ \E d \in Devices :
                  \/ ReleasePinned(d) \/ HealthChanges(d)
                  \/ \E value \in {"ready", "draining", "disabled"} : DeviceSet(d, value)
             \/ OfflineReadinessChanges \/ Notify
    BY <1>2, <1>3, <1>7, EventPumps
  <1>8. CASE \E front \in SetToAllKPermutations(Range(mem.queue)) : ReorderQueue(front)
    BY <1>2, <1>8 DEF ReorderQueue, Memory
  <1>9. CASE BeginShutdown
    BY <1>5, <1>9 DEF BeginShutdown
  <1>10. CASE DrainTimesOut
    BY <1>2, <1>10 DEF DrainTimesOut, MarkedForRecovery, Patch, Memory
  <1>11. CASE Crash
    BY <1>5, <1>11 DEF Crash
  <1>12. ~Restart /\ ~CrashWhileStarting /\ ~UNCHANGED vars
    BY DEF Restart, CrashWhileStarting, vars
  <1> QED
    BY <1>6, <1>7, <1>8, <1>9, <1>10, <1>11, <1>12 DEF Next

(* Without server-side workers (with them, a run that falls back to the    *)
(* queue may be forgotten while its job runs again): whenever the shutdown *)
(* comes, however long the drain takes and whatever the runs do meanwhile, *)
(* an orderly exit leaves no row 'running' that is not marked for recovery *)
(* (shutdownJobs, persistShutdownRecovery).                                *)
THEOREM ShutdownAlwaysKeepsRunningJobs ==
  ASSUME OfflineEnabled = FALSE
  PROVE  Spec => ShutdownKeepsRunningJobs
  <1>1. Init => Tracks
    <2> SUFFICES ASSUME Init PROVE Tracks
      OBVIOUS
    <2>1. ~offlineReady /\ (\A j \in Jobs : mem.run[j].stage = "none") /\ mem.unwinding = {}
      BY DEF Init, Stopped, NoRun
    <2> QED
      BY <2>1 DEF Tracks, Awaits, Over
  <1>2. JobIInv /\ JobIInv' /\ Tracks /\ [Next]_vars => Tracks'
    <2> SUFFICES ASSUME JobIInv, JobIInv', Tracks, [Next]_vars PROVE Tracks'
      OBVIOUS
    <2>1. RowsMove(disk, disk')
      BY JobStepIInv
    <2> QED
      BY <2>1, TracksStep
  <1>3. JobIInv /\ Tracks /\ [Next]_vars => [KeepsRunning]_vars
    <2> SUFFICES ASSUME JobIInv, Tracks, [Next]_vars,
                        mem.phase # "down", mem'.phase = "down", restarts' = restarts,
                        NEW j \in Jobs, disk'.job[j].status = "running"
                 PROVE  disk'.job[j].recovery
      BY DEF KeepsRunning
    <2>1. Exit
      BY ExitLemma
    <2>2. disk' = disk
      BY <2>1 DEF Exit, ProcessEnds
    <2>3. InProcess(mem, disk, expiredTwins)
      BY DEF JobIInv
    <2>4. StatusOf(mem, j) = "running" /\ mem.run[j].stage # "none"
      BY <2>2, <2>3 DEF InProcess, JobIsSound, RowIsCurrent, WorksRightly
    <2>5. mem.phase = "aborting"
      <3>1. ASSUME mem.phase = "draining", AwaitedRunsReturned PROVE FALSE
        BY <2>4, <3>1 DEF Tracks, Awaits, AwaitedRunsReturned
      <3> QED
        BY <2>1, <3>1 DEF Exit
    <2> QED
      BY <2>2, <2>3, <2>4, <2>5 DEF InProcess, JobIsSound, RowIsCurrent
  <1> QED
    BY <1>1, <1>2, <1>3, JobInvariant, PTL DEF Spec, ShutdownKeepsRunningJobs, KeepsRunning
=============================================================================
