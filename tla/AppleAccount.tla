---------------------------- MODULE AppleAccount ----------------------------
(***************************************************************************)
(* The Apple Account of the server: the sign-in operation                  *)
(* (packages/dkrypt/src/offlineAppStoreAuthOperation.ts), the vault row it *)
(* fills (appleAccountVault.ts), and the chain through which sign-ins and  *)
(* downloads take the provider's session out of the vault and put it back  *)
(* (withSessionWorkspace in offlineAppStore.ts).                           *)
(*                                                                         *)
(* An account is a pair of name and password.  A session is named by the   *)
(* account it signs in.  The provider's program is external: it may answer *)
(* anything a signed-in or signed-out session allows, or be killed.        *)
(***************************************************************************)
EXTENDS Naturals, FiniteSets

CONSTANTS
  Accounts, NoAccount,
  SignIns,          \* calls of start() that begin an operation
  Downloads,        \* jobs that download with the account
  NoTask,
  MaxAuthFailures,  \* bound on failed writes of the status row
  MaxAuthCrashes    \* bound on crashes

Tasks == SignIns \cup Downloads

ASSUME AppleNamesAssumption ==
  NoAccount \notin Accounts /\ NoTask \notin Tasks /\ SignIns \cap Downloads = {}
ASSUME AppleBoundsAssumption == MaxAuthFailures \in Nat /\ MaxAuthCrashes \in Nat

VARIABLES
  vault,        \* the row of the account: see Vault
  signIn,       \* `current': the status in memory
  signInRow,    \* its row
  task,         \* task[t]: see Task
  lastTask,     \* the task whose promise is sessionOperation
  released,     \* tasks whose promise has resolved
  raced,        \* sign-ins whose race with the timeout is not decided
  authFailures, \* failed writes so far
  authCrashes   \* crashes so far

appleVars == <<vault, signIn, signInRow, task, lastTask, released, raced,
               authFailures, authCrashes>>

(* `verified': authenticatedAt is set and there is no authenticationError. *)
Vault ==
  [account: Accounts \cup {NoAccount}, session: Accounts \cup {NoAccount},
   verified: BOOLEAN]

SignInStates ==
  {"idle", "running", "verification_required", "succeeded", "failed", "interrupted"}
SignInStatus == [state: SignInStates, op: SignIns \cup {NoTask}]

(* `waiting' for its turn; `left' the chain before its turn; `working' in  *)
(* the provider's program; `answered', session not saved yet; `saved', the *)
(* workspace is being removed.                                             *)
TaskStages == {"idle", "waiting", "left", "working", "answered", "saved", "over"}
InWorkspace == {"working", "answered", "saved"}
Task ==
  [stage: TaskStages,
   asks: Accounts \cup {NoAccount},     \* whose credentials it carries
   home: Accounts \cup {NoAccount},     \* whose session is in the workspace
   outcome: {"none", "ok", "refused", "failed"},
   before: Tasks \cup {NoTask},         \* whose promise it waits for
   aborted: BOOLEAN]

AppleTypeOK ==
  /\ vault \in Vault
  /\ signIn \in SignInStatus
  /\ signInRow \in SignInStatus
  /\ task \in [Tasks -> Task]
  /\ lastTask \in Tasks \cup {NoTask}
  /\ released \subseteq Tasks
  /\ raced \subseteq SignIns
  /\ authFailures \in 0..MaxAuthFailures
  /\ authCrashes \in 0..MaxAuthCrashes

Status(state, op) == [state |-> state, op |-> op]
Unused ==
  [stage |-> "idle", asks |-> NoAccount, home |-> NoAccount, outcome |-> "none",
   before |-> NoTask, aborted |-> FALSE]
EmptyVault == [account |-> NoAccount, session |-> NoAccount, verified |-> FALSE]
SignedInVault(a) == [account |-> a, session |-> a, verified |-> TRUE]

AppleInit ==
  /\ vault \in {EmptyVault} \cup {SignedInVault(a) : a \in Accounts}
  /\ signIn = Status("idle", NoTask)
  /\ signInRow = Status("idle", NoTask)
  /\ task = [t \in Tasks |-> Unused]
  /\ lastTask = NoTask
  /\ released = {}
  /\ raced = {}
  /\ authFailures = 0
  /\ authCrashes = 0

----------------------------------------------------------------------------
(* persist: memory first, then the row, whose write may fail.              *)
PersistSignIn(status) ==
  /\ signIn' = status
  /\ signInRow' = status
  /\ UNCHANGED authFailures
PersistSignInFails(status) ==
  /\ authFailures < MaxAuthFailures
  /\ authFailures' = authFailures + 1
  /\ signIn' = status
  /\ UNCHANGED signInRow

(* Mutant: the provider's answer is persisted whoever won the race.        *)
SettleWhenever(s, state) ==
  /\ raced' = raced \ {s}
  /\ PersistSignIn(Status(state, s)) \/ PersistSignInFails(Status(state, s))

(* The race of s is decided.  If a success cannot be written the catch     *)
(* block persists a failure; if that cannot be written, it is in memory.   *)
Settle(s, state) ==
  IF s \notin raced THEN UNCHANGED <<signIn, signInRow, raced, authFailures>>
  ELSE
    /\ raced' = raced \ {s}
    /\ \/ PersistSignIn(Status(state, s))
       \/ state # "succeeded" /\ PersistSignInFails(Status(state, s))
       \/ /\ state = "succeeded" /\ authFailures < MaxAuthFailures
          /\ authFailures' = authFailures + 1
          /\ signIn' = Status("failed", s)
          /\ signInRow' = Status("failed", s)

----------------------------------------------------------------------------
(* The chain of withSessionWorkspace.                                      *)
Joined(t) ==
  [Unused EXCEPT !.stage = "waiting", !.asks = vault.account, !.before = lastTask]
MyTurn(t) == task[t].before # NoTask => task[t].before \in released

(* start(): refused while an operation runs.  authenticateAppleAccount     *)
(* begins in the next microtask with the credentials of the vault.  When   *)
(* the row cannot be written start() throws: memory says `running' and no  *)
(* operation runs.                                                         *)
StartSignIn(s) ==
  /\ task[s].stage = "idle"
  /\ signIn.state # "running"
  /\ \/ /\ vault.account # NoAccount
        /\ PersistSignIn(Status("running", s))
        /\ raced' = raced \cup {s}
        /\ task' = [task EXCEPT ![s] = Joined(s)]
        /\ lastTask' = s
     \/ /\ vault.account = NoAccount
        /\ PersistSignIn(Status("failed", s))
        /\ task' = [task EXCEPT ![s].stage = "over"]
        /\ UNCHANGED <<raced, lastTask>>
     \/ /\ PersistSignInFails(Status("running", s))
        /\ task' = [task EXCEPT ![s].stage = "over"]
        /\ UNCHANGED <<raced, lastTask>>
  /\ UNCHANGED <<vault, released, authCrashes>>

(* A server-side job: run() checks readiness and reads the secrets, then   *)
(* downloads.                                                              *)
StartDownload(d) ==
  /\ task[d].stage = "idle"
  /\ vault.account # NoAccount
  /\ vault.verified
  /\ task' = [task EXCEPT ![d] = Joined(d)]
  /\ lastTask' = d
  /\ UNCHANGED <<vault, signIn, signInRow, released, raced, authFailures, authCrashes>>

(* Its turn: restoreSessionWorkspace.                                      *)
EnterWorkspace(t) ==
  /\ task[t].stage = "waiting"
  /\ MyTurn(t)
  /\ task' = [task EXCEPT ![t].stage = "working", ![t].home = vault.session]
  /\ UNCHANGED <<vault, signIn, signInRow, lastTask, released, raced, authFailures, authCrashes>>

(* The signal of a task: one that waits leaves, one that works is killed.  *)
Aborted(t) ==
  [task EXCEPT ![t].aborted = TRUE,
               ![t].stage = IF @ = "waiting" THEN "left" ELSE @]

(* The timeout of the sign-in wins the race.                               *)
TimeOut(s) ==
  /\ s \in raced
  /\ task' = Aborted(s)
  /\ Settle(s, "failed")
  /\ UNCHANGED <<vault, lastTask, released, authCrashes>>

(* The job of a download is cancelled or overdue.                          *)
AbortDownload(d) ==
  /\ task[d].stage \in {"waiting", "working"}
  /\ ~task[d].aborted
  /\ task' = Aborted(d)
  /\ UNCHANGED <<vault, signIn, signInRow, lastTask, released, raced, authFailures, authCrashes>>

(* Mutant: a task that leaves opens its gate at once.                      *)
PassOnAtOnce(t) ==
  /\ task[t].stage = "left"
  /\ released' = released \cup {t}
  /\ task' = [task EXCEPT ![t].stage = "over"]
  /\ UNCHANGED <<vault, signIn, signInRow, lastTask, raced, authFailures, authCrashes>>

(* previous.then(release): a task that left passes its turn on.            *)
PassOn(t) ==
  /\ task[t].stage = "left"
  /\ MyTurn(t)
  /\ released' = released \cup {t}
  /\ task' = [task EXCEPT ![t].stage = "over"]
  /\ UNCHANGED <<vault, signIn, signInRow, lastTask, raced, authFailures, authCrashes>>

(* What the provider's program may answer to t.                            *)
Answers(t) ==
  IF task[t].aborted THEN {"failed"}
  ELSE {"refused", "failed"} \cup
       (IF t \in SignIns \/ task[t].home = task[t].asks THEN {"ok"} ELSE {})

(* The program ends; a sign-in leaves its session in the workspace.        *)
SignInAnswers(t) ==
  /\ task[t].stage = "working"
  /\ \E outcome \in Answers(t) :
       task' = [task EXCEPT ![t].stage = "answered", ![t].outcome = outcome,
                            ![t].home = IF outcome = "ok" THEN task[t].asks ELSE @]
  /\ UNCHANGED <<vault, signIn, signInRow, lastTask, released, raced, authFailures, authCrashes>>

(* saveSessionWorkspace: into whatever account the vault has by now.       *)
SaveSession(t) ==
  /\ task[t].stage = "answered"
  /\ \/ /\ vault.account # NoAccount
        /\ vault' = [vault EXCEPT !.session = task[t].home]
        /\ task' = [task EXCEPT ![t].stage = "saved"]
     \/ /\ vault.account = NoAccount
        /\ task' = [task EXCEPT ![t].stage = "saved", ![t].outcome = "failed"]
        /\ UNCHANGED vault
  /\ UNCHANGED <<signIn, signInRow, lastTask, released, raced, authFailures, authCrashes>>

(* markAppleAccountAuthenticated, or clearAppleAccountSessionSnapshot and  *)
(* markAppleAccountAuthenticationError.                                    *)
Marked(outcome) ==
  CASE vault.account = NoAccount -> vault
    [] outcome = "ok"            -> [vault EXCEPT !.verified = TRUE]
    [] outcome = "refused"       -> [vault EXCEPT !.verified = FALSE, !.session = NoAccount]
    [] OTHER                -> vault

(* The workspace is gone: the next task may enter, the caller continues.   *)
LeaveWorkspace(t) ==
  /\ task[t].stage = "saved"
  /\ released' = released \cup {t}
  /\ task' = [task EXCEPT ![t].stage = "over"]
  /\ vault' = Marked(task[t].outcome)
  /\ LET outcome == task[t].outcome IN
     CASE outcome = "ok" /\ vault.account # NoAccount -> Settle(t, "succeeded")
       [] outcome = "refused" -> Settle(t, "verification_required") \/ Settle(t, "failed")
       [] OTHER -> Settle(t, "failed")
  /\ UNCHANGED <<lastTask, authCrashes>>

(* PUT and DELETE /v1/dashboard/appstore-offline/account: refused while a  *)
(* sign-in runs, then the status is reset.                                 *)
ChangeAccount(changed) ==
  /\ signIn.state # "running"
  /\ vault' = changed
  /\ PersistSignIn(Status("idle", NoTask)) \/ PersistSignInFails(Status("idle", NoTask))
  /\ UNCHANGED <<task, lastTask, released, raced, authCrashes>>
SaveAccount(a) ==
  ChangeAccount(IF vault.account = a THEN vault ELSE [EmptyVault EXCEPT !.account = a])
RemoveAccount == vault.account # NoAccount /\ ChangeAccount(EmptyVault)

(* createAppleAccountAuthenticationOperation: what was running is not.     *)
Restored ==
  IF signInRow.state = "running" THEN [signInRow EXCEPT !.state = "interrupted"] ELSE signInRow

AppleCrash ==
  /\ authCrashes < MaxAuthCrashes
  /\ authCrashes' = authCrashes + 1
  /\ task' = [t \in Tasks |-> IF task[t].stage = "idle" THEN Unused
                              ELSE [Unused EXCEPT !.stage = "over"]]
  /\ lastTask' = NoTask
  /\ released' = {}
  /\ raced' = {}
  /\ signIn' = Restored
  /\ signInRow' = Restored
  /\ UNCHANGED <<vault, authFailures>>

(* What the event loop and the processes get to by themselves.             *)
AppleProgress ==
  \/ \E t \in Tasks : EnterWorkspace(t) \/ PassOn(t) \/ SignInAnswers(t) \/ SaveSession(t) \/ LeaveWorkspace(t)
  \/ \E s \in SignIns : TimeOut(s)

AppleNext ==
  \/ AppleProgress
  \/ \E s \in SignIns : StartSignIn(s)
  \/ \E d \in Downloads : StartDownload(d) \/ AbortDownload(d)
  \/ \E a \in Accounts : SaveAccount(a)
  \/ RemoveAccount
  \/ AppleCrash

AppleSpec == AppleInit /\ [][AppleNext]_appleVars

----------------------------------------------------------------------------
(* Properties.                                                             *)

(* Two tasks never work on the session at once, also when one in the       *)
(* middle of the chain gives up its turn (withSessionWorkspace).           *)
WorkspaceIsExclusive ==
  \A t, u \in Tasks :
    task[t].stage \in InWorkspace /\ task[u].stage \in InWorkspace => t = u

(* The result of an operation replaces nothing but that operation's        *)
(* `running': an answer that comes after the timeout, a new start or an    *)
(* account change is dropped (Promise.race in start).                      *)
ResultsAreCurrent ==
  [][signIn'.state \in {"succeeded", "failed", "verification_required"}
       => \/ signIn' = signIn
          \/ signIn.state = "running" /\ signIn.op = signIn'.op
          \/ signIn.state # "running" /\ task[signIn'.op].stage = "idle"
          \/ authCrashes' # authCrashes]_appleVars

(* The status says `running' only while an operation is, or because start  *)
(* could not write its row: also after a crash.                            *)
RunningIsReal ==
  signIn.state = "running" => signIn.op \in raced \/ authFailures > 0

(* The session is used by one task at a time, and a status that says so is *)
(* one of an operation that is under way.                                  *)
AppleSessionIsSound == WorkspaceIsExclusive /\ RunningIsReal

(* An account is marked as verified only when the session in the vault is  *)
(* its own ("Apple Account session has not been verified" is the blocker   *)
(* otherwise).                                                             *)
VerifiedSessionIsOwn == vault.verified => vault.session = vault.account
=============================================================================
