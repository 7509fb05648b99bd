-------------------------- MODULE BetaSubscription --------------------------
(***************************************************************************)
(* TestFlight subscriptions (packages/dkrypt/src/testflightSubscriptions.ts, *)
(* store/state.ts, routes/dashboardTestFlightRoutes.ts): users submit an   *)
(* invite, managers decide, background work subscribes the devices.        *)
(*                                                                         *)
(* Look-ups read the table, changes are made to what memory holds and then *)
(* written, and the write may fail (persistNow). All submissions are of    *)
(* one invite, and there are at most three devices, which is one batch. A  *)
(* subscription has the name of the submission that created it.            *)
(***************************************************************************)
EXTENDS Naturals, FiniteSets

CONSTANTS
  Submissions,   \* POSTs of the invite
  ByManager,     \* those whose user manages subscriptions
  TestDevices,   \* enabled devices
  SyncTasks,     \* bound: work under way at the same time
  Attempts,      \* TESTFLIGHT_VERIFICATION_ATTEMPTS
  MaxIncidents,  \* bound: lost writes, restarts, lost access and swept files
  NoSubmission

ASSUME BetaAssumption ==
  /\ ByManager \subseteq Submissions /\ NoSubmission \notin Submissions
  /\ Attempts \in Nat \ {0} /\ MaxIncidents \in Nat /\ IsFiniteSet(TestDevices)

VARIABLES
  submission,  \* submission[p]: how far it is
  book,        \* state.testFlightSubscriptions
  saved,       \* the tables
  sync,        \* sync[t]: a synchronization or removal under way
  stored,      \* the answers of the bridge's transaction files
  member,      \* devices that have access to the beta
  asked,       \* history: <<s, d>>: d has opened the invite for s
  memberFor,   \* history: <<s, d>>: d has had access since s was created
  unsaved,     \* history: subscriptions whose creation could not be written
  incidents

betaVars == <<submission, book, saved, sync, stored, member, asked, memberFor, unsaved, incidents>>

Open     == {"pending", "approved", "denied"}
Checks   == 1 .. Attempts

(* What is asked of a device: 0 is the invite, n > 0 the n-th check.       *)
Asking   == 0 .. Attempts

(* What a device has before it: a question, to be left, or nothing.        *)
Question(n) == [do |-> "ask", n |-> n]
Leaving     == [do |-> "leave", n |-> 0]
Done        == [do |-> "nothing", n |-> 0]
Steps       == {Question(n) : n \in Asking} \cup {Leaving, Done}

NoSubscription == [status |-> "none", rows |-> [d \in TestDevices |-> "none"]]
NoSync         == [of |-> NoSubmission, at |-> [d \in TestDevices |-> Done]]

(* Mutant: the id of an operation does not say which subscription it is of. *)
OfInvite(s, d, a) == <<NoSubmission, d, a>>

(* verifySubscriptionOnDevice: the operation ids.                          *)
BetaOperation(s, d, a) == <<s, d, a>>

BetaOperations == (Submissions \cup {NoSubmission}) \X TestDevices \X Asking

BetaTypeOK ==
  /\ submission \in [Submissions -> {"new", "resolving", "over"}]
  /\ \A kept \in {book, saved} :
       kept \in [Submissions ->
         [status : {"none", "withdrawn"} \cup Open,
          rows : [TestDevices -> {"none", "pending", "syncing", "active", "failed", "unsubscribed"}]]]
  /\ sync \in [SyncTasks -> [of : Submissions \cup {NoSubmission}, at : [TestDevices -> Steps]]]
  /\ stored \in [BetaOperations -> {"none", "requested", "failed", "yes", "no"}]
  /\ member \subseteq TestDevices
  /\ asked \cup memberFor \subseteq Submissions \X TestDevices
  /\ unsaved \subseteq Submissions
  /\ incidents \in 0 .. MaxIncidents

BetaInit ==
  /\ submission = [p \in Submissions |-> "new"]
  /\ book = [s \in Submissions |-> NoSubscription]
  /\ saved = book
  /\ sync = [t \in SyncTasks |-> NoSync]
  /\ stored = [o \in BetaOperations |-> "none"]
  /\ member = {} /\ asked = {} /\ memberFor = {} /\ unsaved = {} /\ incidents = 0
-----------------------------------------------------------------------------
device == <<stored, member, asked, memberFor>>

Incident == incidents < MaxIncidents /\ incidents' = incidents + 1

(* Memory is changed and the write succeeds, or throws.                    *)
Written(new)    == book' = new /\ saved' = new /\ UNCHANGED incidents
NotWritten(new) == Incident /\ book' = new /\ saved' = saved
Unwritten       == UNCHANGED <<book, saved, incidents>>

WithStatus(s, status) == [book EXCEPT ![s].status = status]
WithRow(s, d, status) == [book EXCEPT ![s].rows[d] = status]

(* findTestFlightSubscriptionByInviteCode.                                 *)
Found == {s \in Submissions : saved[s].status \in Open}

Over(p) == submission' = [submission EXCEPT ![p] = "over"]

(* scheduleSync, scheduleUnsubscribe: some time later.                     *)
Unchanged == UNCHANGED <<sync, device, unsaved>>

(* approveTestFlightSubscription and denyTestFlightSubscription, which look *)
(* at memory, after a route that looks at the table.                       *)
Decide(s, status) ==
  /\ saved[s].status = "pending"
  /\ IF book[s].status = "pending"
       THEN Written(WithStatus(s, status)) \/ NotWritten(WithStatus(s, status))
       ELSE Unwritten

ManagerDecides(s) ==
  /\ \E status \in {"approved", "denied"} : Decide(s, status)
  /\ UNCHANGED submission /\ Unchanged

(* POST subscriptions, up to the await of resolveInvite.                   *)
Submit(p) ==
  /\ submission[p] = "new"
  /\ IF Found = {}
       THEN submission' = [submission EXCEPT ![p] = "resolving"] /\ Unwritten
       ELSE /\ Over(p)
            /\ \E s \in Found :
                 IF p \in ByManager /\ saved[s].status = "pending"
                   THEN Decide(s, "approved")
                   ELSE Unwritten
  /\ Unchanged

(* The invite cannot be resolved, the catalog not be read, or it shows the *)
(* app on a device.                                                        *)
SubmissionFails(p) ==
  /\ submission[p] = "resolving"
  /\ Over(p)
  /\ Unwritten /\ Unchanged

(* createTestFlightSubscription looks for the invite again.                *)
MayCreate == Found = {}

CreateSubscription(p) ==
  /\ submission[p] = "resolving"
  /\ Over(p)
  /\ IF MayCreate
       THEN LET new == [book EXCEPT ![p] =
                          [status |-> IF p \in ByManager THEN "approved" ELSE "pending",
                           rows |-> [d \in TestDevices |-> "pending"]]]
            IN /\ \/ Written(new) /\ UNCHANGED unsaved
                  \/ NotWritten(new) /\ unsaved' = unsaved \cup {p}
               /\ memberFor' = memberFor \cup {<<p, d>> : d \in member}
       ELSE Unwritten /\ UNCHANGED <<unsaved, memberFor>>
  /\ UNCHANGED <<sync, stored, member, asked>>

(* Any other change of the state is written, and all of memory with it.    *)
WriteRest ==
  /\ saved # book /\ saved' = book
  /\ UNCHANGED <<submission, book, incidents>> /\ Unchanged
-----------------------------------------------------------------------------
(* Background work.                                                        *)

(* Nothing remains of a task that is done with every device.               *)
IsAt(t, s, at) ==
  sync' = [sync EXCEPT ![t] = IF at = NoSync.at THEN NoSync ELSE [of |-> s, at |-> at]]

Begins(t, s, devices, step) ==
  /\ sync[t] = NoSync
  /\ IsAt(t, s, [d \in TestDevices |-> IF d \in devices THEN step ELSE Done])

(* The work of t on d is at `step'.                                        *)
Goes(t, d, step) == IsAt(t, sync[t].of, [sync[t].at EXCEPT ![d] = step])

Syncing(s) == [book EXCEPT ![s].rows = [d \in TestDevices |-> "syncing"]]

(* syncTestFlightSubscription, begun by a route or by the poller: all      *)
(* devices of the batch begin at once. If the write of one throws, the     *)
(* others go on, and a later write saves its row as well.                  *)
BeginSync(t, s) ==
  /\ saved[s].status = "approved"
  /\ \/ Begins(t, s, TestDevices, Question(0)) /\ Written(Syncing(s))
     \/ \E d \in TestDevices :
          /\ Begins(t, s, TestDevices \ {d}, Question(0))
          /\ Incident
          /\ book' = Syncing(s)
          /\ saved' \in {book', [book' EXCEPT ![s].rows[d] = book[s].rows[d]]}
  /\ UNCHANGED <<submission, device, unsaved>>

(* ensureTestFlightSubscriptionDevices throws.                             *)
SyncNotBegun(s) ==
  /\ saved[s].status = "approved"
  /\ NotWritten(book)
  /\ UNCHANGED submission /\ Unchanged

(* syncDevice records how it ended. If `active' cannot be written the      *)
(* catch block records the failure.                                        *)
Settles(t, d, status) ==
  LET s == sync[t].of IN
  /\ Goes(t, d, Done)
  /\ \/ Written(WithRow(s, d, status))
     \/ /\ status = "active" /\ Incident
        /\ book' = WithRow(s, d, "failed") /\ saved' = book'
     \/ NotWritten(WithRow(s, d, "failed"))

(* subscribe_invite: the device is not reachable, has access, has been     *)
(* asked before, or opens the invite; whoever asked may not hear of it.    *)
AskToJoin(t, d) ==
  LET s == sync[t].of
      o == BetaOperation(s, d, 0)
  IN
  /\ sync[t].at[d] = Question(0)
  /\ \/ /\ d \notin member /\ stored[o] \in {"none", "failed"}
        /\ \E state \in {"requested", "failed"} : stored' = [stored EXCEPT ![o] = state]
        /\ asked' = asked \cup {<<s, d>>}
     \/ UNCHANGED <<stored, asked>>
  /\ \/ /\ d \in member \/ stored'[o] # "none"
        /\ Goes(t, d, Question(1))
        /\ Unwritten
     \/ Settles(t, d, "failed")
  /\ UNCHANGED <<submission, member, memberFor, unsaved>>

NotVerified(t, d, n) ==
  IF n < Attempts
    THEN Goes(t, d, Question(n + 1)) /\ Unwritten
    ELSE Settles(t, d, "failed")

(* What TestFlight says of the access of a device.                         *)
Truth(d) == IF d \in member THEN "yes" ELSE "no"

(* status_invite: a stored answer is given again, otherwise TestFlight is  *)
(* asked; the answer may not come, or come too late.                       *)
AskStatus(t, d, n) ==
  LET o == BetaOperation(sync[t].of, d, n) IN
  /\ sync[t].at[d] = Question(n)
  /\ \/ stored[o] \notin {"none", "failed"} /\ UNCHANGED stored
     \/ /\ stored[o] \in {"none", "failed"}
        /\ \E state \in {"requested", "failed", Truth(d)} : stored' = [stored EXCEPT ![o] = state]
     \/ UNCHANGED stored
  /\ \/ stored'[o] = "yes" /\ Settles(t, d, "active")
     \/ NotVerified(t, d, n)
  /\ UNCHANGED <<submission, member, asked, memberFor, unsaved>>

(* unsubscribeTestFlightSubscription: at once, if it is not approved.      *)
BeginUnsubscribe(t, s) ==
  /\ saved[s].status # "none"
  /\ IF saved[s].status = "approved"
       THEN Begins(t, s, TestDevices, Leaving) /\ Unwritten
       ELSE /\ UNCHANGED sync
            /\ IF book[s].status = "withdrawn"
                 THEN Unwritten
                 ELSE \/ Written(WithStatus(s, "withdrawn"))
                      \/ NotWritten(WithStatus(s, "withdrawn"))
  /\ UNCHANGED <<submission, device, unsaved>>

(* A device is done with (the bridge only notes it, the app is removed);   *)
(* after the last one the subscription is withdrawn.                       *)
LeaveDevice(t, d, status) ==
  LET s    == sync[t].of
      new  == WithRow(s, d, status)
      last == \A e \in TestDevices \ {d} : sync[t].at[e] = Done
  IN
  /\ sync[t].at[d] = Leaving
  /\ \/ Goes(t, d, Done) /\ Written(IF last THEN [new EXCEPT ![s].status = "withdrawn"] ELSE new)
     \/ /\ sync' = [sync EXCEPT ![t] = NoSync]
        /\ \/ NotWritten(new)
           \/ /\ last /\ Incident
              /\ book' = [new EXCEPT ![s].status = "withdrawn"] /\ saved' = new
  /\ UNCHANGED <<submission, device, unsaved>>

(* The process dies and starts again: memory is what was saved.            *)
BetaRestart ==
  /\ Incident
  /\ book' = saved
  /\ submission' = [p \in Submissions |-> IF submission[p] = "resolving" THEN "over" ELSE submission[p]]
  /\ sync' = [t \in SyncTasks |-> NoSync]
  /\ UNCHANGED <<saved, device, unsaved>>
-----------------------------------------------------------------------------
(* The devices.                                                            *)

(* An opened invite is accepted, or somebody joins on the device itself.   *)
JoinsBeta(d) ==
  /\ d \notin member
  /\ member' = member \cup {d}
  /\ memberFor' = memberFor \cup {<<s, d>> : s \in {s \in Submissions : book[s].status # "none"}}
  /\ UNCHANGED <<submission, book, saved, sync, stored, asked, unsaved, incidents>>

LeavesBeta(d) ==
  /\ d \in member /\ Incident
  /\ member' = member \ {d}
  /\ UNCHANGED <<submission, book, saved, sync, stored, asked, memberFor, unsaved>>

(* A late answer is stored; a file is swept after 30 minutes.              *)
StoredChanges(o) ==
  /\ stored[o] # "none"
  /\ \/ stored[o] = "requested" /\ o[3] \in Checks /\ stored' = [stored EXCEPT ![o] = Truth(o[2])] /\ UNCHANGED incidents
     \/ Incident /\ stored' = [stored EXCEPT ![o] = "none"]
  /\ UNCHANGED <<submission, book, saved, sync, member, asked, memberFor, unsaved>>

BetaNext ==
  \/ \E p \in Submissions :
       Submit(p) \/ SubmissionFails(p) \/ CreateSubscription(p) \/ ManagerDecides(p) \/ SyncNotBegun(p)
  \/ WriteRest
  \/ \E t \in SyncTasks :
       \/ \E s \in Submissions : BeginSync(t, s) \/ BeginUnsubscribe(t, s)
       \/ \E d \in TestDevices :
            \/ AskToJoin(t, d)
            \/ \E n \in Checks : AskStatus(t, d, n)
            \/ \E status \in {"failed", "unsubscribed"} : LeaveDevice(t, d, status)
  \/ BetaRestart
  \/ \E d \in TestDevices : JoinsBeta(d) \/ LeavesBeta(d)
  \/ \E o \in BetaOperations : StoredChanges(o)

BetaSpec == BetaInit /\ [][BetaNext]_betaVars
-----------------------------------------------------------------------------
(* However submissions of an invite overlap, one of them becomes its       *)
(* subscription (createTestFlightSubscription): there is no other beside   *)
(* those that could not be written when they were made and have stayed in  *)
(* memory, and perhaps been written later.                                 *)
OneSubscriptionPerInvite ==
  Cardinality({s \in Submissions \ unsaved : book[s].status \in Open}) <= 1

(* No device is asked to join for a subscription that no manager approved, *)
(* whatever is decided, lost and decided again.                            *)
OnlyApprovedJoin ==
  \A s \in Submissions : (\E d \in TestDevices : <<s, d>> \in asked) =>
    book[s].status \in {"approved", "withdrawn"}

(* A device shown as active has had access since the subscription began:   *)
(* no answer of an earlier subscription is taken for it.                   *)
ActiveWasVerified ==
  \A s \in Submissions, d \in TestDevices :
    book[s].rows[d] = "active" => <<s, d>> \in memberFor

SubscriptionsAreSound == OneSubscriptionPerInvite /\ OnlyApprovedJoin /\ ActiveWasVerified

(* An unsubscribed subscription leaves no device behind that is active     *)
(* or being synchronized (unsubscribeTestFlightSubscription).              *)
WithdrawnIsLeft ==
  \A s \in Submissions :
    book[s].status = "withdrawn" /\ (\A t \in SyncTasks : sync[t].of # s) =>
      \A d \in TestDevices : book[s].rows[d] \notin {"active", "syncing"}
=============================================================================
