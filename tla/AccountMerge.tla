---------------------------- MODULE AccountMerge ----------------------------
(* Two accounts of one person become one when a sign-in method of the      *)
(* first, the source, is linked to the second, the target (linkOauthAccount *)
(* in packages/dkrypt/src/account.ts).  Its stores are written in turn,    *)
(* each in a transaction of its own that may fail, and the process may be  *)
(* lost between any two of them; the person confirms the link again then.  *)
(* Meanwhile payment events arrive, and requests of the source finish.     *)
(*                                                                         *)
(* Of a store only the accounts that own something in it are kept; the     *)
(* history of entitlements in billing, a log that names the account it was *)
(* written for and is not moved, is left out.                              *)
EXTENDS Naturals, FiniteSets

CONSTANTS
  MergeFailures,  \* bound: writes that fail
  MergeCrashes,   \* bound
  MaxWaiting      \* bound: requests of the source that write after an await

ASSUME MergeBoundsAssumption ==
  MergeFailures \in Nat /\ MergeCrashes \in Nat /\ MaxWaiting \in Nat

VARIABLES
  listed,      \* the source is one of allowedUsers
  owners,      \* owners[k]: the owners in memory
  ownersKept,  \* the same on disk
  profile,     \* whose the sign-in method is, in memory
  profileKept, \* on disk; `both' when the row of the source has stayed there
  linking,     \* the store that is merged next, and whether jobs have moved
  waiting,     \* stores that requests of the source will write to
  strayed,     \* stores one of them has written to after the merge
  mergeFaults  \* failures, crashes and such requests so far

mergeVars ==
  <<listed, owners, ownersKept, profile, profileKept, linking, waiting, strayed, mergeFaults>>

Source == "source"
Target == "target"

(* Accounts with their API keys and projects; subscriptions and checkouts; *)
(* the quota ledger; jobs; trigger policies.                               *)
Stores     == {"users", "billing", "quota", "jobs", "policies"}
Buffered   == {"users", "billing", "jobs"}
NotLinking == [at |-> "idle", moved |-> FALSE]

MergeTypeOK ==
  /\ listed \in BOOLEAN
  /\ owners \in [Stores -> SUBSET {Source, Target}]
  /\ ownersKept \in [Stores -> SUBSET {Source, Target}]
  /\ profile \in {Source, Target}
  /\ profileKept \in {Source, Target, "both"}
  /\ linking \in [at : Stores \cup {"idle", "profile"}, moved : BOOLEAN]
  /\ waiting \subseteq {"billing", "jobs"}
  /\ strayed \subseteq {"billing", "jobs"}
  /\ mergeFaults \in [failures : 0..MergeFailures, crashes : 0..MergeCrashes,
                      requests : 0..MaxWaiting]

MergeInit ==
  /\ listed \in BOOLEAN
  /\ owners = [k \in Stores |-> {Source, Target}]
  /\ ownersKept = owners
  /\ profile = Source
  /\ profileKept = Source
  /\ linking = NotLinking
  /\ waiting = {}
  /\ strayed = {}
  /\ mergeFaults = [failures |-> 0, crashes |-> 0, requests |-> 0]

----------------------------------------------------------------------------
(* The merge.                                                              *)

(* The order of mergeProfileData; the quota is merged by                   *)
(* mergeActiveJobOwner, before the jobs are written.                       *)
Following(k) ==
  CASE k = "idle" -> "users"   [] k = "users" -> "billing" [] k = "billing" -> "quota"
    [] k = "quota" -> "jobs"   [] k = "jobs" -> "policies" [] k = "policies" -> "profile"
    [] OTHER -> "idle"

StepTo(k)  == [at |-> k, moved |-> FALSE]
Merged(as) == IF Source \in as THEN (as \ {Source}) \cup {Target} ELSE as

Failing == [mergeFaults EXCEPT !.failures = @ + 1]
MayFail == mergeFaults.failures < MergeFailures

(* The identity still leads to the source: the merge begins, or is         *)
(* repeated.                                                               *)
Confirm ==
  /\ linking = NotLinking /\ profile = Source
  /\ linking' = StepTo(Following("idle"))
  /\ UNCHANGED <<listed, owners, ownersKept, profile, profileKept, waiting, strayed, mergeFaults>>

(* mergeUserAccounts and mergeBillingAccounts: memory is changed, and      *)
(* written if it has been.                                                 *)
MergeMemory(k) ==
  /\ linking.at = k
  /\ k \in {"users", "billing"}
  /\ LET moves == Source \in owners[k] /\ (k = "users" => listed)
     IN  /\ owners' = IF moves THEN [owners EXCEPT ![k] = Merged(@)] ELSE owners
         /\ \/ /\ ownersKept' = IF moves THEN [ownersKept EXCEPT ![k] = owners'[k]] ELSE ownersKept
               /\ linking' = StepTo(Following(k))
               /\ UNCHANGED mergeFaults
            \/ /\ moves /\ MayFail
               /\ mergeFaults' = Failing
               /\ linking' = NotLinking
               /\ UNCHANGED ownersKept
  /\ UNCHANGED <<listed, profile, profileKept, waiting, strayed>>

(* mergeActiveJobOwner: the jobs in memory, the ledger on disk, ...        *)
MergeQuota ==
  /\ linking.at = "quota"
  /\ \/ /\ owners' = [owners EXCEPT !["jobs"] = Merged(@), !["quota"] = Merged(@)]
        /\ ownersKept' = [ownersKept EXCEPT !["quota"] = Merged(@)]
        /\ linking' = [at |-> Following("quota"), moved |-> Source \in owners["jobs"]]
        /\ UNCHANGED mergeFaults
     \/ /\ MayFail
        /\ owners' = [owners EXCEPT !["jobs"] = Merged(@)]
        /\ mergeFaults' = Failing
        /\ linking' = NotLinking
        /\ UNCHANGED ownersKept
  /\ UNCHANGED <<listed, profile, profileKept, waiting, strayed>>

(* ... and the jobs on disk.                                               *)
WriteJobs ==
  /\ linking.at = "jobs"
  /\ \/ /\ ownersKept' = IF linking.moved THEN [ownersKept EXCEPT !["jobs"] = owners["jobs"]]
                         ELSE ownersKept
        /\ linking' = StepTo(Following("jobs"))
        /\ UNCHANGED mergeFaults
     \/ /\ linking.moved /\ MayFail
        /\ mergeFaults' = Failing
        /\ linking' = NotLinking
        /\ UNCHANGED ownersKept
  /\ UNCHANGED <<listed, owners, profile, profileKept, waiting, strayed>>

(* mergeIntegrationBillingOwner                                            *)
MergePolicies ==
  /\ linking.at = "policies"
  /\ \/ /\ owners' = [owners EXCEPT !["policies"] = Merged(@)]
        /\ ownersKept' = [ownersKept EXCEPT !["policies"] = Merged(@)]
        /\ linking' = StepTo(Following("policies"))
        /\ UNCHANGED mergeFaults
     \/ /\ MayFail
        /\ mergeFaults' = Failing
        /\ linking' = NotLinking
        /\ UNCHANGED <<owners, ownersKept>>
  /\ UNCHANGED <<listed, profile, profileKept, waiting, strayed>>

(* mergeAuthProfiles                                                       *)
MergeProfile ==
  /\ linking.at = "profile"
  /\ profile' = Target
  /\ \/ /\ profileKept' = Target
        /\ linking' = StepTo(Following("profile"))
        /\ UNCHANGED mergeFaults
     \/ /\ MayFail
        /\ mergeFaults' = Failing
        /\ linking' = NotLinking
        /\ UNCHANGED profileKept
  /\ UNCHANGED <<listed, owners, ownersKept, waiting, strayed>>

(* upsertAuthIdentity: the profile is written once more, without the       *)
(* deletion of another.                                                    *)
SignIn ==
  /\ linking = NotLinking /\ profile = Target
  /\ profileKept' = IF profileKept = Source THEN "both" ELSE profileKept
  /\ UNCHANGED <<listed, owners, ownersKept, profile, linking, waiting, strayed, mergeFaults>>

----------------------------------------------------------------------------
(* What else is written.                                                   *)

Writes(k, now) ==
  /\ owners' = [owners EXCEPT ![k] = now]
  /\ ownersKept' = [ownersKept EXCEPT ![k] = now]

(* metadataUserId: the account that has the id now.                        *)
MetadataUserId(id) == IF id = Source THEN profile ELSE id

(* A payment event of a subscription the source has bought.                *)
PaymentEvent ==
  /\ linking = NotLinking
  /\ Writes("billing", owners["billing"] \cup {MetadataUserId(Source)})
  /\ UNCHANGED <<listed, profile, profileKept, linking, waiting, strayed, mergeFaults>>

(* The next write of a store writes all of its memory.                     *)
WriteStore(k) ==
  /\ linking = NotLinking
  /\ Writes(k, owners[k])
  /\ UNCHANGED <<listed, profile, profileKept, linking, waiting, strayed, mergeFaults>>

(* A crypto checkout, or a decrypt request: the account is read, then a    *)
(* provider is asked, then the record is written.                          *)
BeginWaiting(k) ==
  /\ linking = NotLinking /\ profile = Source
  /\ mergeFaults.requests < MaxWaiting
  /\ mergeFaults' = [mergeFaults EXCEPT !.requests = @ + 1]
  /\ waiting' = waiting \cup {k}
  /\ UNCHANGED <<listed, owners, ownersKept, profile, profileKept, linking, strayed>>

EndWaiting(k) ==
  /\ linking = NotLinking
  /\ k \in waiting
  /\ waiting' = waiting \ {k}
  /\ Writes(k, owners[k] \cup {Source})
  /\ strayed' = IF profile = Target THEN strayed \cup {k} ELSE strayed
  /\ UNCHANGED <<listed, profile, profileKept, linking, mergeFaults>>

MergeCrash ==
  /\ mergeFaults.crashes < MergeCrashes
  /\ mergeFaults' = [mergeFaults EXCEPT !.crashes = @ + 1]
  /\ owners' = ownersKept
  /\ profile' \in IF profileKept = "both" THEN {Source, Target} ELSE {profileKept}
  /\ linking' = NotLinking
  /\ waiting' = {}
  /\ UNCHANGED <<listed, ownersKept, profileKept, strayed>>

----------------------------------------------------------------------------
MergeNext ==
  \/ Confirm \/ MergeMemory("users") \/ MergeMemory("billing") \/ MergeQuota \/ WriteJobs
  \/ MergePolicies \/ MergeProfile \/ SignIn
  \/ PaymentEvent
  \/ \E k \in Buffered : WriteStore(k)
  \/ \E k \in {"billing", "jobs"} : BeginWaiting(k) \/ EndWaiting(k)
  \/ MergeCrash

MergeSpec == MergeInit /\ [][MergeNext]_mergeVars

----------------------------------------------------------------------------
Belongs(k, held) == held[k] = {Target}

Promised == (Stores \ strayed) \ (IF listed THEN {} ELSE {"users"})

(* When the sign-in method leads to the target, so does everything the     *)
(* source had: on disk, however often the process was lost, unless a write *)
(* has failed; in memory, however often a write has failed, unless the     *)
(* process was lost as well (account.ts: the profile is merged last).      *)
MergeIsComplete ==
  /\ profileKept = Target /\ mergeFaults.failures = 0 =>
        \A k \in Promised : Belongs(k, ownersKept) /\ Belongs(k, owners)
  /\ profile = Target /\ (mergeFaults.failures = 0 \/ mergeFaults.crashes = 0) =>
        \A k \in Promised : Belongs(k, owners)

(* The same for all that store/oauthLinkReview.ts announces, whatever      *)
(* fails and whichever request is under way.                               *)
NothingIsLeft == profile = Target => \A k \in Stores : Belongs(k, owners)
=============================================================================
