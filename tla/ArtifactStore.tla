--------------------------- MODULE ArtifactStore ---------------------------
(***************************************************************************)
(* The IPA library (packages/dkrypt/src/artifacts.ts): an index in memory, *)
(* its rows in the database and the files on disk.                         *)
(*                                                                         *)
(* Mutations run one after the other on a promise chain (withMutation).    *)
(* The long one, promoteArtifact, awaits the file system several times; in *)
(* between, enqueueDecryptJob may link an artifact to a project without    *)
(* taking the chain, the job may be aborted, and the process may die.      *)
(*                                                                         *)
(* A promotion is named by the request that made it, and so is the file it *)
(* creates; an index record is identified by its file.                     *)
(***************************************************************************)
EXTENDS Naturals, FiniteSets

CONSTANTS
  Requests,     \* decrypt requests, each with at most one promotion
  ArtifactKey,  \* ArtifactKey[r]: artifactKeyForJob
  SizeOf,       \* SizeOf[r]: bytes of the IPA
  Projects, ProjectOf,
  MaxBytes,     \* config.artifactMaxBytes
  ProjectQuota, \* ProjectQuota[p]: storageQuotaBytes, 0 for none
  MaxFailures,  \* bound on database writes that fail
  MaxLibraryCrashes    \* bound on libraryCrashes

ASSUME RequestsAssumption ==
  /\ IsFiniteSet(Requests)
  /\ SizeOf \in [Requests -> Nat \ {0}]
  /\ ProjectOf \in [Requests -> Projects]
ASSUME QuotaAssumption ==
  /\ MaxBytes \in Nat
  /\ ProjectQuota \in [Projects -> Nat]
ASSUME LibraryAssumption == MaxFailures \in Nat /\ MaxLibraryCrashes \in Nat

VARIABLES
  up,        \* the process runs
  index,     \* index.artifacts
  rows,      \* the artifacts table
  files,     \* IPA files in artifactDir
  staging,   \* files in artifactDir/.staging
  promotion,     \* promotion[r]: where the promotion of r is
  evicting,  \* evicting[r]: evictedArtifacts of the promotion of r
  result,    \* result[r]: the artifact the promotion of r returned
  aborted,   \* requests whose signal is aborted
  jobFile,   \* jobFile[r]: filePath in the row of the finished job r
  writeFailures,  \* failed writes so far
  libraryCrashes    \* libraryCrashes so far

libraryVars == <<up, index, rows, files, staging, promotion, evicting, result, aborted,
          jobFile, writeFailures, libraryCrashes>>

NoArtifact == "none"

(* No request is mistaken for it.                                          *)
ASSUME NoArtifactAssumption == NoArtifact \notin Requests

(* projectIds is kept as a set of pairs, pinnedAt as the set of the pinned. *)
Index == [in: SUBSET Requests, pinned: SUBSET Requests, links: SUBSET (Requests \X Projects)]

Holding == {"opened", "reusing", "measured", "hashed", "renamed"}
Ended   == {"done", "failed"}
PromotionStages == {"idle", "waiting", "returned"} \cup Holding \cup Ended

(* Pins and links belong to records. *)
WellFormed(x) == x.pinned \subseteq x.in /\ \A l \in x.links : l[1] \in x.in

(* Each variable has its type. *)
LibraryTypeOK ==
  /\ up \in BOOLEAN
  /\ index \in Index /\ WellFormed(index)
  /\ rows \in Index /\ WellFormed(rows)
  /\ files \subseteq Requests
  /\ staging \subseteq Requests
  /\ promotion \in [Requests -> PromotionStages]
  /\ evicting \in [Requests -> SUBSET Requests]
  /\ result \in [Requests -> Requests \cup {NoArtifact}]
  /\ aborted \subseteq Requests
  /\ jobFile \in [Requests -> Requests \cup {NoArtifact}]
  /\ writeFailures \in 0..MaxFailures
  /\ libraryCrashes \in 0..MaxLibraryCrashes

Empty == [in |-> {}, pinned |-> {}, links |-> {}]

LibraryInit ==
  /\ up = TRUE
  /\ index = Empty /\ rows = Empty
  /\ files = {} /\ staging = {}
  /\ promotion = [r \in Requests |-> "idle"]
  /\ evicting = [r \in Requests |-> {}]
  /\ result = [r \in Requests |-> NoArtifact]
  /\ aborted = {}
  /\ jobFile = [r \in Requests |-> NoArtifact]
  /\ writeFailures = 0 /\ libraryCrashes = 0

----------------------------------------------------------------------------
(* The index.                                                              *)

(* The bytes of the files F, counted one by one.                           *)
Bytes(F) == Cardinality(UNION {{f} \X (1..SizeOf[f]) : f \in F})

(* getArtifactByKey: the record of the key whose file is there.            *)
ByKey(r) == {f \in rows.in \cap files : ArtifactKey[f] = ArtifactKey[r]}

(* assertProjectStorageQuota does not throw.                               *)
WithinProjectQuota(x, p, more) ==
  LET held == {f \in x.in \cap files : <<f, p>> \in x.links}
  IN ProjectQuota[p] = 0 \/ Bytes(held) + more <= ProjectQuota[p]

(* linkArtifactToProject: refused by the quota unless linked already.      *)
MayLink(x, f, p) == <<f, p>> \in x.links \/ WithinProjectQuota(x, p, SizeOf[f])
Linked(x, f, p)  == [x EXCEPT !.links = @ \cup {<<f, p>>}]

Without(x, F) ==
  [in |-> x.in \ F, pinned |-> x.pinned \ F, links |-> {l \in x.links : l[1] \notin F}]

WithArtifact(x, r) ==
  [in |-> x.in \cup {r}, pinned |-> x.pinned, links |-> x.links \cup {<<r, ProjectOf[r]>>}]

Fits(F, more) == Bytes(F) + more <= MaxBytes

(* planArtifactEvictions: unpinned records, least recently used first,     *)
(* until `more' bytes fit.  Recency is abstracted: any order is possible,  *)
(* so a plan is a set in which no record came too late.                    *)
EvictionPlans(x, more, key) ==
  LET available  == x.in \cap files
      candidates == {f \in available \ x.pinned : ArtifactKey[f] # key}
  IN {E \in SUBSET candidates :
        E # {} => \E last \in E : ~Fits(available \ (E \ {last}), more)}
SufficientPlans(x, more, key) ==
  {E \in EvictionPlans(x, more, key) : more <= MaxBytes /\ Fits((x.in \cap files) \ E, more)}

(* persistIndex() writes `x' or throws.                                    *)
Persisted(x) == rows' = x /\ UNCHANGED writeFailures
PersistFails == writeFailures < MaxFailures /\ writeFailures' = writeFailures + 1 /\ UNCHANGED rows

----------------------------------------------------------------------------
(* The mutation chain.                                                     *)

(* Mutant: a mutation that failed blocks those behind it.                  *)
WedgedByFailure == \A r \in Requests : promotion[r] \notin Holding \cup {"failed"}

(* Mutant: mutations do not wait for one another. *)
AlwaysFree == TRUE

ChainIsFree == \A r \in Requests : promotion[r] \notin Holding

(* The decrypt is done and promoteArtifact called: it waits for the chain. *)
(* The key may be known by now and not have been when the request came in, *)
(* so an artifact of the key may be there already.                         *)
Request(r) ==
  /\ up
  /\ promotion[r] = "idle"
  /\ promotion' = [promotion EXCEPT ![r] = "waiting"]
  /\ staging' = staging \cup {r}
  /\ UNCHANGED <<up, index, rows, files, evicting, result, aborted, jobFile, writeFailures, libraryCrashes>>

(* The job is cancelled, out of time, or the server shuts down.            *)
Abort(r) ==
  /\ up
  /\ promotion[r] \in Holding \cup {"waiting"}
  /\ r \notin aborted
  /\ aborted' = aborted \cup {r}
  /\ UNCHANGED <<up, index, rows, files, staging, promotion, evicting, result, jobFile, writeFailures,
                 libraryCrashes>>

(* promoteArtifact throws; runOneJob removes what is left in staging.      *)
Throws(r) == promotion' = [promotion EXCEPT ![r] = "failed"] /\ staging' = staging \ {r}

Promoting(r, at) ==
  /\ up
  /\ promotion[r] = at
  /\ UNCHANGED <<up, aborted, jobFile, libraryCrashes>>

Open(r) ==
  /\ Promoting(r, "waiting")
  /\ ChainIsFree
  /\ IF r \in aborted THEN Throws(r)
     ELSE promotion' = [promotion EXCEPT ![r] = "opened"] /\ UNCHANGED staging
  /\ UNCHANGED <<index, rows, files, evicting, result, writeFailures>>

(* The directory exists.  An artifact of the same key makes the staging    *)
(* file superfluous; without one it is measured.                           *)
LookUp(r) ==
  /\ Promoting(r, "opened")
  /\ \/ r \in aborted /\ Throws(r) /\ UNCHANGED result
     \/ /\ r \notin aborted
        /\ \E f \in ByKey(r) :
             IF MayLink(index, f, ProjectOf[r])
             THEN /\ promotion' = [promotion EXCEPT ![r] = "reusing"]
                  /\ staging' = staging \ {r}
                  /\ result' = [result EXCEPT ![r] = f]
             ELSE Throws(r) /\ UNCHANGED result
     \/ /\ r \notin aborted
        /\ ByKey(r) = {}
        /\ promotion' = [promotion EXCEPT ![r] = "measured"]
        /\ UNCHANGED <<staging, result>>
  /\ UNCHANGED <<index, rows, files, evicting, writeFailures>>

(* The staging file is gone: link, refresh the metadata, touch.            *)
Reuse(r) ==
  LET x == Linked(index, result[r], ProjectOf[r]) IN
  /\ Promoting(r, "reusing")
  /\ \/ /\ r \in aborted \/ ~MayLink(index, result[r], ProjectOf[r])
        /\ Throws(r)
        /\ UNCHANGED <<index, rows, writeFailures>>
     \/ /\ r \notin aborted /\ MayLink(index, result[r], ProjectOf[r])
        /\ index' = x
        /\ \/ Persisted(x) /\ promotion' = [promotion EXCEPT ![r] = "returned"] /\ UNCHANGED staging
           \/ PersistFails /\ Throws(r)
  /\ UNCHANGED <<files, evicting, result>>

(* stat() returned: the project quota is checked before the file is hashed. *)
CheckQuota(r) ==
  /\ Promoting(r, "measured")
  /\ IF r \in aborted \/ ~WithinProjectQuota(index, ProjectOf[r], SizeOf[r]) THEN Throws(r)
     ELSE promotion' = [promotion EXCEPT ![r] = "hashed"] /\ UNCHANGED staging
  /\ UNCHANGED <<index, rows, files, evicting, result, writeFailures>>

(* Mutant: the evicted files are removed before the index is written.      *)
FilesEvictedEarly(r, E) == (files \cup {r}) \ E

(* What a promotion does with the files when it has planned the evictions E. *)
FilesAfterPlan(r, E) == files \cup {r}

(* The hash is known: evictions are planned and the file is renamed.       *)
PlanAndRename(r) ==
  /\ Promoting(r, "hashed")
  /\ \/ /\ r \in aborted \/ SufficientPlans(index, SizeOf[r], ArtifactKey[r]) = {}
        /\ Throws(r)
        /\ UNCHANGED <<files, evicting>>
     \/ /\ r \notin aborted
        /\ \E E \in SufficientPlans(index, SizeOf[r], ArtifactKey[r]) :
             /\ evicting' = [evicting EXCEPT ![r] = E]
             /\ files' = FilesAfterPlan(r, E)
             /\ promotion' = [promotion EXCEPT ![r] = "renamed"]
             /\ staging' = staging \ {r}
  /\ UNCHANGED <<index, rows, result, writeFailures>>

(* Records whose file is gone leave the index with the evicted ones.       *)
Replaced(r) == WithArtifact(Without(index, evicting[r] \cup (index.in \ files)), r)

(* The file is renamed: give it up, or enter it in the index and then      *)
(* remove the evicted files.                                               *)
Commit(r) ==
  /\ Promoting(r, "renamed")
  /\ \/ /\ r \in aborted
        /\ Throws(r)
        /\ files' = files \ {r}
        /\ UNCHANGED <<index, rows, result, writeFailures>>
     \/ /\ r \notin aborted
        /\ index' = Replaced(r)
        /\ Persisted(Replaced(r))
        /\ files' = files \ evicting[r]
        /\ promotion' = [promotion EXCEPT ![r] = "returned"]
        /\ result' = [result EXCEPT ![r] = r]
        /\ UNCHANGED staging
     \/ /\ r \notin aborted
        /\ PersistFails
        /\ Throws(r)
        /\ files' = files \ {r}
        /\ UNCHANGED <<index, result>>
  /\ evicting' = [evicting EXCEPT ![r] = {}]

(* runOneJob: the job is done, its row holds the path of the artifact.     *)
Finish(r) ==
  /\ up
  /\ promotion[r] = "returned"
  /\ promotion' = [promotion EXCEPT ![r] = "done"]
  /\ jobFile' = [jobFile EXCEPT ![r] = result[r]]
  /\ UNCHANGED <<up, index, rows, files, staging, evicting, result, aborted, writeFailures, libraryCrashes>>

(* enqueueDecryptJob finds an artifact: it is linked to the project outside *)
(* the chain and a finished job is created for it.  When the quota refuses  *)
(* the link the request fails and nothing changes.                          *)
EnqueueCached(r) ==
  /\ up
  /\ promotion[r] = "idle"
  /\ \E f \in ByKey(r) :
       /\ MayLink(index, f, ProjectOf[r])
       /\ index' = Linked(index, f, ProjectOf[r])
       /\ \/ /\ IF index' = index THEN UNCHANGED <<rows, writeFailures>> ELSE Persisted(index')
             /\ promotion' = [promotion EXCEPT ![r] = "done"]
             /\ jobFile' = [jobFile EXCEPT ![r] = f]
          \/ /\ index' # index
             /\ PersistFails
             /\ UNCHANGED <<promotion, jobFile>>
  /\ UNCHANGED <<up, files, staging, evicting, result, aborted, libraryCrashes>>

(* setArtifactsPinned: all of X or, when the write fails, none of it.      *)
Pinned(x, X, value) == [x EXCEPT !.pinned = IF value THEN @ \cup X ELSE @ \ X]

RolledBack(before, after) == before

SetPinned(X, value) ==
  LET x == Pinned(index, X, value) IN
  /\ up
  /\ ChainIsFree
  /\ X \subseteq index.in
  /\ x # index
  /\ \/ index' = x /\ Persisted(x)
     \/ index' = RolledBack(index, x) /\ PersistFails
  /\ UNCHANGED <<up, files, staging, promotion, evicting, result, aborted, jobFile, libraryCrashes>>

----------------------------------------------------------------------------
(* LibraryCrash and start-up.                                                     *)

Dies ==
  /\ libraryCrashes < MaxLibraryCrashes
  /\ libraryCrashes' = libraryCrashes + 1
  /\ up' = FALSE
  /\ promotion' = [r \in Requests |-> IF promotion[r] \in {"idle", "done"} THEN promotion[r] ELSE "failed"]
  /\ evicting' = [r \in Requests |-> {}]
  /\ result' = [r \in Requests |-> NoArtifact]
  /\ index' = Empty
  /\ UNCHANGED <<staging, jobFile, aborted, writeFailures>>

LibraryCrash == up /\ Dies /\ UNCHANGED <<rows, files>>

(* The process dies after the index is written, before the evicted files   *)
(* are removed.                                                            *)
CrashWhileEvicting(r) ==
  /\ up
  /\ promotion[r] = "renamed" /\ r \notin aborted
  /\ Dies
  /\ rows' = Replaced(r)
  /\ UNCHANGED files

(* registerLegacyJobArtifact for every finished job whose file is there:   *)
(* the record of its key is linked to its project; a key without a record  *)
(* gets one for the file of the first such job.                            *)
Holders(k) == {r \in Requests : jobFile[r] \in files /\ ArtifactKey[r] = k}
Indexed(k) == {f \in rows.in \cap files : ArtifactKey[f] = k}
Unindexed  == {k \in {ArtifactKey[r] : r \in Requests} : Holders(k) # {} /\ Indexed(k) = {}}

(* first[k]: the job whose file is entered for the unindexed key k.        *)
OwnLinks(first) == {<<jobFile[first[k]], ProjectOf[first[k]]>> : k \in Unindexed}
Registered(first) ==
  LET known == rows.in \cup {jobFile[first[k]] : k \in Unindexed}
      all == {<<f, ProjectOf[r]>> : f \in known \cap files, r \in Requests}
      owed == {l \in all : \E r \in Holders(ArtifactKey[l[1]]) : ProjectOf[r] = l[2]}
  IN [in |-> known, pinned |-> rows.pinned, links |-> rows.links \cup OwnLinks(first) \cup owed]

(* A link that the quota refuses makes the start fail; the project of the  *)
(* job whose file is entered is not asked.                                 *)
StartIsRefused(first) ==
  LET x == Registered(first) IN
  \E l \in x.links \ (rows.links \cup OwnLinks(first)) : ~WithinProjectQuota(x, l[2], 0)

(* reconcileArtifactStore: staging is emptied, records without a file and  *)
(* files without a record are dropped, and the quota is enforced, as far   *)
(* as the pinned allow.                                                    *)
Reconciled(x) ==
  LET present == Without(x, x.in \ files)
      enough  == {E \in EvictionPlans(present, 0, NoArtifact) : Fits(present.in \ E, 0)}
      plans   == IF enough = {} THEN {present.in \ present.pinned} ELSE enough
  IN {Without(present, E) : E \in plans}

(* initializeArtifactStore, before the server listens.                     *)
Start ==
  /\ ~up
  /\ \E first \in [Unindexed -> Requests] :
       /\ \A k \in Unindexed : first[k] \in Holders(k)
       /\ ~StartIsRefused(first)
       /\ \E x \in Reconciled(Registered(first)) :
            /\ up' = TRUE
            /\ index' = x
            /\ rows' = x
            /\ files' = x.in
            /\ staging' = {}
  /\ UNCHANGED <<promotion, evicting, result, aborted, jobFile, writeFailures, libraryCrashes>>

(* The process dies after the jobs are registered, before it reconciles.   *)
CrashWhileStarting ==
  /\ ~up
  /\ libraryCrashes < MaxLibraryCrashes
  /\ libraryCrashes' = libraryCrashes + 1
  /\ \E first \in [Unindexed -> Requests] :
       /\ \A k \in Unindexed : first[k] \in Holders(k)
       /\ rows' = Registered(first)
  /\ UNCHANGED <<up, index, files, staging, promotion, evicting, result, aborted, jobFile, writeFailures>>

----------------------------------------------------------------------------
PromotionStep(r) ==
  Open(r) \/ LookUp(r) \/ Reuse(r) \/ CheckQuota(r) \/ PlanAndRename(r) \/ Commit(r)

LibraryNext ==
  \/ \E r \in Requests :
       \/ Request(r)
       \/ Abort(r)
       \/ PromotionStep(r)
       \/ Finish(r)
       \/ EnqueueCached(r)
       \/ CrashWhileEvicting(r)
  \/ \E X \in SUBSET index.in, value \in BOOLEAN : SetPinned(X, value)
  \/ LibraryCrash
  \/ Start
  \/ CrashWhileStarting

LibrarySpec == LibraryInit /\ [][LibraryNext]_libraryVars

(* File system calls return, and the chain takes the next mutation.        *)
FairLibrarySpec == LibrarySpec /\ WF_libraryVars(Start) /\ \A r \in Requests : WF_libraryVars(PromotionStep(r))

----------------------------------------------------------------------------
(* Properties.                                                             *)

(* The rows never name a file that is not there, libraryCrashes included          *)
(* (promoteArtifact: rename, then persist, then remove the evicted).       *)
RowsHaveFiles == rows.in \subseteq files

(* No IPA is forgotten on disk: between mutations every file is indexed,   *)
(* and a staging file belongs to a promotion that still needs it.          *)
NothingIsOrphaned ==
  up => /\ ChainIsFree => files = index.in
        /\ \A r \in staging : promotion[r] \in Holding \cup {"waiting"}

(* Whatever fails to be written, the records and their pins in memory are  *)
(* those a restart would load.                                             *)
MemoryMatchesRows == up => index.in = rows.in /\ index.pinned = rows.pinned

(* However promotions overlap, the library never exceeds its quota.        *)
LibraryFits == up => Fits(index.in, 0)

(* Two requests for one build never leave two artifacts.                   *)
OneArtifactPerKey == \A f, g \in rows.in : f # g => ArtifactKey[f] # ArtifactKey[g]

(* Memory, rows and files tell the same story at every await, crash and    *)
(* failed write, of a library within its quota and without duplicates      *)
(* (promoteArtifact, setArtifactsPinned, loadIndex).                       *)
LibraryIsSound ==
  RowsHaveFiles /\ NothingIsOrphaned /\ MemoryMatchesRows /\ LibraryFits /\ OneArtifactPerKey

(* A pinned artifact is not evicted, not even by a promotion that planned  *)
(* its evictions before the pin, nor by a restart.                         *)
PinnedSurvive == [][rows.pinned \subseteq rows'.in]_libraryVars

(* A project never holds more than its storage quota (artifacts.test.ts,   *)
(* "enforces a project storage quota before promoting an artifact").       *)
ProjectQuotaHolds == up => \A p \in Projects : WithinProjectQuota(index, p, 0)

(* Every promotion that waits for the chain ends.                          *)
PromotionsEnd == \A r \in Requests : promotion[r] = "waiting" ~> promotion[r] \in {"returned"} \cup Ended
=============================================================================
