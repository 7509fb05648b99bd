---------------------------- MODULE DecryptQuota ----------------------------
(* The decrypt allowance of an account over a sliding window               *)
(* (packages/dkrypt/src/jobs/repository.ts: the table decrypt_quota_ledger *)
(* and the rows of jobs it is reconciled with).  A job is written with its *)
(* entry in one transaction; the entry is settled by a second write, after *)
(* the one that ends the job, so that a crash may come between.            *)
(*                                                                         *)
(* The window is a number of ticks; how a job runs is in JobStore.         *)
EXTENDS Naturals, FiniteSets

CONSTANTS
  QuotaJobs,
  Payers,          \* accounts
  Allowances,      \* dailyDecryptLimit of the plans
  QuotaWindow,     \* QUOTA_WINDOW_MS
  LastTick,        \* bound on the clock
  MaxPlanChanges,  \* bound
  MaxQuotaCrashes, \* bound
  NoPayer

ASSUME AllowancesAssumption == Allowances \subseteq Nat \ {0} /\ QuotaWindow \in Nat \ {0}
ASSUME QuotaBoundsAssumption ==
  /\ IsFiniteSet(QuotaJobs) /\ NoPayer \notin Payers
  /\ {LastTick, MaxPlanChanges, MaxQuotaCrashes} \subseteq Nat

VARIABLES
  jobRow,     \* jobRow[j]: the status of the job on disk
  entry,      \* entry[j]: its entry in the ledger; `none' when it has none
  settling,   \* jobs that have ended, and whose entry is not settled yet
  allowance,  \* allowance[p]
  tick,
  told,       \* the last refusal, while nothing has changed since
  planChanges,
  quotaCrashes

quotaVars == <<jobRow, entry, settling, allowance, tick, told, planChanges, quotaCrashes>>

NoEntry == [payer |-> NoPayer, at |-> 0, state |-> "none"]
NotTold == [payer |-> NoPayer, until |-> 0]
Ticks   == 0..LastTick

QuotaTypeOK ==
  /\ jobRow \in [QuotaJobs -> {"none", "open", "done", "failed"}]
  /\ entry \in [QuotaJobs -> [payer : Payers \cup {NoPayer}, at : Ticks,
                              state : {"none", "reserved", "consumed"}]]
  /\ settling \subseteq QuotaJobs
  /\ allowance \in [Payers -> Allowances]
  /\ tick \in Ticks
  /\ told \in [payer : Payers \cup {NoPayer}, until : 0..(LastTick + QuotaWindow)]
  /\ planChanges \in 0..MaxPlanChanges
  /\ quotaCrashes \in 0..MaxQuotaCrashes

QuotaInit ==
  /\ jobRow = [j \in QuotaJobs |-> "none"]
  /\ entry = [j \in QuotaJobs |-> NoEntry]
  /\ settling = {}
  /\ allowance \in [Payers -> Allowances]
  /\ tick = 0
  /\ told = NotTold
  /\ planChanges = 0
  /\ quotaCrashes = 0

----------------------------------------------------------------------------
(* The entries of p that count at t.                                       *)
Counted(p, t) == {j \in QuotaJobs : entry[j].payer = p /\ entry[j].at + QuotaWindow > t}

Used(p, t) == Cardinality(Counted(p, t))

(* nextAvailableAt: rows[used - limit] of the rows by time, plus window.   *)
NextAvailableAt(p, t) ==
  LET places == 1..Used(p, t)
      byTime == CHOOSE f \in [places -> Counted(p, t)] :
                  /\ \A m, n \in places : m < n => f[m] # f[n] /\ entry[f[m]].at <= entry[f[n]].at
  IN  entry[byTime[Used(p, t) - allowance[p] + 1]].at + QuotaWindow

----------------------------------------------------------------------------
(* admit                                                                   *)
AdmitJob(j, p) ==
  /\ jobRow[j] = "none"
  /\ Used(p, tick) < allowance[p]
  /\ jobRow' = [jobRow EXCEPT ![j] = "open"]
  /\ entry' = [entry EXCEPT ![j] = [payer |-> p, at |-> tick, state |-> "reserved"]]
  /\ told' = NotTold
  /\ UNCHANGED <<settling, allowance, tick, planChanges, quotaCrashes>>

(* DailyDecryptLimitError                                                  *)
RefuseJob(j, p) ==
  /\ jobRow[j] = "none"
  /\ Used(p, tick) >= allowance[p]
  /\ told' = [payer |-> p, until |-> NextAvailableAt(p, tick)]
  /\ UNCHANGED <<jobRow, entry, settling, allowance, tick, planChanges, quotaCrashes>>

EndJob(j, status) ==
  /\ jobRow[j] = "open"
  /\ jobRow' = [jobRow EXCEPT ![j] = status]
  /\ settling' = settling \cup {j}
  /\ UNCHANGED <<entry, allowance, tick, told, planChanges, quotaCrashes>>

(* settleQuota                                                             *)
SettleEntry(j) ==
  /\ j \in settling
  /\ entry' = [entry EXCEPT ![j] = IF @.state # "reserved" THEN @
                                   ELSE IF jobRow[j] = "done" THEN [@ EXCEPT !.state = "consumed"]
                                   ELSE NoEntry]
  /\ settling' = settling \ {j}
  /\ told' = NotTold
  /\ UNCHANGED <<jobRow, allowance, tick, planChanges, quotaCrashes>>

(* reconcileQuota                                                          *)
Reconciled(j, row) ==
  IF entry[j].state # "reserved" THEN entry[j]
  ELSE CASE row[j] = "done" -> [entry[j] EXCEPT !.state = "consumed"]
         [] row[j] = "open" -> entry[j]
         [] OTHER           -> NoEntry

(* A crash: some of the jobs under way fail at the start, others go on.    *)
QuotaRestart(lost) ==
  /\ quotaCrashes < MaxQuotaCrashes
  /\ quotaCrashes' = quotaCrashes + 1
  /\ \A j \in lost : jobRow[j] = "open"
  /\ jobRow' = [j \in QuotaJobs |-> IF j \in lost THEN "failed" ELSE jobRow[j]]
  /\ entry' = [j \in QuotaJobs |-> Reconciled(j, jobRow')]
  /\ settling' = {}
  /\ told' = NotTold
  /\ UNCHANGED <<allowance, tick, planChanges>>

(* The entitlement of an account is another one.                           *)
ChangePlan(p, limit) ==
  /\ planChanges < MaxPlanChanges
  /\ limit # allowance[p]
  /\ planChanges' = planChanges + 1
  /\ allowance' = [allowance EXCEPT ![p] = limit]
  /\ told' = NotTold
  /\ UNCHANGED <<jobRow, entry, settling, tick, quotaCrashes>>

(* mergeQuotaOwner                                                         *)
MergePayers(target, source) ==
  /\ planChanges < MaxPlanChanges
  /\ target # source
  /\ planChanges' = planChanges + 1
  /\ entry' = [j \in QuotaJobs |-> IF entry[j].payer = source
                                   THEN [entry[j] EXCEPT !.payer = target] ELSE entry[j]]
  /\ told' = NotTold
  /\ UNCHANGED <<jobRow, settling, allowance, tick, quotaCrashes>>

TickPasses ==
  /\ tick < LastTick
  /\ tick' = tick + 1
  /\ UNCHANGED <<jobRow, entry, settling, allowance, told, planChanges, quotaCrashes>>

----------------------------------------------------------------------------
QuotaNext ==
  \/ \E j \in QuotaJobs, p \in Payers : AdmitJob(j, p) \/ RefuseJob(j, p)
  \/ \E j \in QuotaJobs, status \in {"done", "failed"} : EndJob(j, status)
  \/ \E j \in QuotaJobs : SettleEntry(j)
  \/ \E lost \in SUBSET QuotaJobs : QuotaRestart(lost)
  \/ \E p \in Payers, limit \in Allowances : ChangePlan(p, limit)
  \/ \E target, source \in Payers : MergePayers(target, source)
  \/ TickPasses

QuotaSpec == QuotaInit /\ [][QuotaNext]_quotaVars

----------------------------------------------------------------------------
(* While nothing else happens, the time a refused account was told is the  *)
(* first at which it is admitted; jobs that failed take nothing of the     *)
(* allowance, also when the server was lost before they were settled; and  *)
(* while no plan changes, no window holds more jobs than the allowance     *)
(* (jobs/repository.ts).                                                   *)
AllowanceIsExact ==
  /\ told # NotTold =>
        \A t \in tick..(LastTick + QuotaWindow) :
          t < told.until <=> Used(told.payer, t) >= allowance[told.payer]
  /\ \A j \in QuotaJobs \ settling :
        /\ entry[j].state = "reserved" <=> jobRow[j] = "open"
        /\ entry[j].state = "consumed" <=> jobRow[j] = "done"
  /\ planChanges = 0 =>
        \A p \in Payers, t \in Ticks :
          Cardinality({j \in Counted(p, t) : entry[j].at <= t}) <= allowance[p]
=============================================================================
