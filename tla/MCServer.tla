----------------------------- MODULE MCServer -----------------------------
(* What is kept, asked or delivered from outside, is repeated or comes     *)
(* late, and must count once: the Apple Account session, user sessions,    *)
(* payment events, decrypt requests, triggers, checkouts, installs on a    *)
(* device, TestFlight subscriptions, backups, the merge of two accounts,   *)
(* the decrypt allowance, and the database through a deployment.  They     *)
(* share no state: a behaviour is one of one of them.                      *)
(*                                                                         *)
(* Payment events: an invoice, another event and three handlers.           *)
(* Three requests with one key: one that an older version also knows, its  *)
(* repetition, and another request.                                        *)
(* Three deliveries of one trigger and one of another.                     *)
(* Three Stripe checkouts with one key, the last of another plan; or one   *)
(* of them and two crypto checkouts.                                       *)
(* An app that is installed from TestFlight, or from the App Store, with a *)
(* retry.  A shutdown cuts off a first attempt before its download is      *)
(* tried again, and comes without a death of the bridge and a sweep.       *)
(* An invite submitted by a user and by a manager, one device, and two     *)
(* works at a time.                                                        *)
(* Three backup snapshots, of which one or two are kept.                   *)
(* Two accounts that become one.                                           *)
(* Three jobs, in this order, the first two of one account, and the last   *)
(* of this or of another; only the first account asks in vain.             *)
(* A deployment whose image has one migration more.                        *)
EXTENDS AppleAccount, SessionStore, WebhookInbox, Idempotency, SignedTrigger,
        Checkout, AppInstall, BetaSubscription, Backups, AccountMerge, DecryptQuota,
        DeploymentRollback, TLC

CONSTANTS
  app, beta,
  invoice1, other, h1, h2, h3,
  q1, q2, q3, mine, older, newer,
  c1, c2, c3, c4, build, release,
  u1, u2, s1, s2, s3, n1, n2, card, coin, basic, pro

MCEvents   == {invoice1, other}
MCInvoices == {invoice1}
MCHandlers == {h1, h2, h3}

MCAsks           == {q1, q2, q3}
MCAskKey         == q1 :> mine @@ q2 :> mine @@ q3 :> mine
MCFingerprint    == q1 :> older @@ q2 :> newer @@ q3 :> beta
MCOldFingerprint == [MCFingerprint EXCEPT ![q2] = older]
MCAskBuild       == q1 :> app @@ q2 :> app @@ q3 :> beta

MCCalls   == {c1, c2, c3, c4}
MCEventOf == c1 :> build @@ c2 :> build @@ c3 :> build @@ c4 :> release

MCPosts       == {s1, s2, s3, n1, n2}
MCPayers      == {u1, u2}
MCCryptoPosts == {n1, n2}
MCPostKey     == s1 :> card @@ s2 :> card @@ s3 :> card @@ n1 :> coin @@ n2 :> coin
MCPlanOf      == s1 :> basic @@ s2 :> basic @@ s3 :> pro @@ n1 :> basic @@ n2 :> pro

VARIABLES
  part,  \* the component whose behaviour this is
  come   \* the checkouts that are requested in it, or the job that is run

Parts ==
  {"account", "sessions", "inbox", "requests", "triggers", "checkouts", "installs", "betas",
   "backups", "merge", "quota", "deployment"}

MCInit ==
  /\ part \in Parts
  /\ come \in CASE part = "checkouts" -> {{s1, s2, s3}, {s1, n1, n2}}
                [] part = "installs"  -> {{beta}, {release}}
                [] OTHER              -> {{}}
  /\ AppleInit /\ SessionInit /\ Init /\ AskInit /\ TriggerInit /\ CheckoutInit /\ InstallInit /\ BetaInit
  /\ BackupInit /\ MergeInit /\ QuotaInit /\ DeploymentInit
  /\ part # "backups" => schedule = 1
  /\ part # "merge" => listed = TRUE
  /\ part # "quota" => \A p \in Payers : allowance[p] = 1
  /\ part # "account" => vault = EmptyVault
  /\ part # "deployment" => dbFile = NoFile /\ mirror = NoState

otherVars == <<backupVars, mergeVars, quotaVars, deploymentVars>>
firstVars ==
  <<appleVars, sessionVars, vars, askVars, triggerVars, checkoutVars, installVars, betaVars>>

AccountMoves ==
  /\ part = "account" /\ AppleNext
  /\ UNCHANGED <<part, come, sessionVars, vars, askVars, triggerVars, checkoutVars, installVars, betaVars, otherVars>>
SessionMoves ==
  /\ part = "sessions" /\ SessionNext
  /\ UNCHANGED <<part, come, appleVars, vars, askVars, triggerVars, checkoutVars, installVars, betaVars, otherVars>>
InboxMoves ==
  /\ part = "inbox" /\ Next
  /\ UNCHANGED <<part, come, appleVars, sessionVars, askVars, triggerVars, checkoutVars, installVars, betaVars, otherVars>>
RequestMoves ==
  /\ part = "requests" /\ AskNext
  /\ UNCHANGED <<part, come, appleVars, sessionVars, vars, triggerVars, checkoutVars, installVars, betaVars, otherVars>>
TriggerMoves ==
  /\ part = "triggers" /\ TriggerNext
  /\ UNCHANGED <<part, come, appleVars, sessionVars, vars, askVars, checkoutVars, installVars, betaVars, otherVars>>
CheckoutMoves ==
  /\ part = "checkouts" /\ CheckoutNext
  /\ \A p \in Posts \ come : post'[p] = "new"
  /\ UNCHANGED <<part, come, appleVars, sessionVars, vars, askVars, triggerVars, installVars, betaVars, otherVars>>
InstallMoves ==
  /\ part = "installs" /\ InstallNext
  /\ run'.job \in come \cup {NoJob}
  /\ deaths' + sweeps' + 2 * shutdowns' <= 2
  /\ shutdowns' # shutdowns => ~run.again /\ \A j \in StoreJobs : retries[j] = 0
  /\ UNCHANGED <<part, come, appleVars, sessionVars, vars, askVars, triggerVars, checkoutVars, betaVars, otherVars>>
BetaMoves ==
  /\ part = "betas" /\ BetaNext
  /\ UNCHANGED <<part, come, appleVars, sessionVars, vars, askVars, triggerVars, checkoutVars, installVars, otherVars>>

BackupMoves ==
  /\ part = "backups" /\ BackupNext
  /\ UNCHANGED <<part, come, firstVars, mergeVars, quotaVars, deploymentVars>>
MergeMoves ==
  /\ part = "merge" /\ MergeNext
  /\ UNCHANGED <<part, come, firstVars, backupVars, quotaVars, deploymentVars>>
QuotaMoves ==
  /\ part = "quota" /\ QuotaNext
  /\ jobRow'[1] = "none" => jobRow'[2] = "none"
  /\ jobRow'[2] = "none" => jobRow'[3] = "none"
  /\ told'.payer # u2
  /\ planChanges' = 0 => \A j \in {1, 2} : entry'[j].payer # u2
  /\ UNCHANGED <<part, come, firstVars, backupVars, mergeVars, deploymentVars>>
DeploymentMoves ==
  /\ part = "deployment" /\ DeploymentNext
  /\ UNCHANGED <<part, come, firstVars, backupVars, mergeVars, quotaVars>>

MCNext ==
  \/ AccountMoves \/ SessionMoves \/ InboxMoves \/ RequestMoves
  \/ TriggerMoves \/ CheckoutMoves \/ InstallMoves \/ BetaMoves
  \/ BackupMoves \/ MergeMoves \/ QuotaMoves \/ DeploymentMoves

MCSpec ==
  MCInit /\ [][MCNext]_<<part, come, firstVars, otherVars>>

(* A component that does not move stays as it is at first: each invariant  *)
(* is evaluated where its component moves.                                 *)

(* The state of every component has its type.                              *)
WellTyped ==
  /\ part = "account"   => AppleTypeOK
  /\ part = "sessions"  => SessionTypeOK
  /\ part = "inbox"     => TypeOK
  /\ part = "requests"  => AskTypeOK
  /\ part = "triggers"  => TriggerTypeOK
  /\ part = "checkouts" => CheckoutTypeOK
  /\ part = "installs"  => InstallTypeOK
  /\ part = "betas"     => BetaTypeOK
  /\ part = "backups"   => BackupTypeOK
  /\ part = "merge"     => MergeTypeOK
  /\ part = "quota"     => QuotaTypeOK
  /\ part = "deployment" => DatabaseTypeOK /\ DeploymentTypeOK

(* What is asked for repeatedly is done once: a decrypt request with one    *)
(* Idempotency-Key (routes/decrypt.ts), the delivery of a trigger           *)
(* (routes/signedTriggerRoutes.ts), a checkout (routes/billing.ts).         *)
RequestsCountOnce ==
  /\ part = "requests"  => IdempotencyHolds
  /\ part = "triggers"  => TriggersAreExact
  /\ part = "checkouts" => CheckoutIsSound

(* What is kept agrees with what it refers to: sessions with their accounts *)
(* (store/state.ts), a backup's row with its files (store/state.ts), the   *)
(* ledger of the allowance with the jobs (jobs/repository.ts), and the     *)
(* database with what was written (store/sqlite.ts, deploymentDatabase.ts).*)
StoresAgree ==
  /\ part = "sessions" => SessionsAgree
  /\ part = "backups"  => BackupsAreSound
  /\ part = "quota"    => AllowanceIsExact
  /\ part = "deployment" => DatabaseSurvives

(* An account is used as it is: the session of the Apple Account           *)
(* (appleAccount.ts), and the account that two have become (account.ts).   *)
AccountsAreSound ==
  /\ part = "account" => AppleSessionIsSound
  /\ part = "merge"   => MergeIsComplete
=============================================================================
