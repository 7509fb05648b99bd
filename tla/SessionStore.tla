---------------------------- MODULE SessionStore ----------------------------
(************************************************************************** *)
(* The sessions of one account in the state store                          *)
(* (packages/dkrypt/src/store/state.ts).  They are kept three times: in    *)
(* the table `sessions' (sessionRepository.ts), in memory, and in the      *)
(* snapshot row that holds the whole state.  An operation changes the      *)
(* table in one transaction and writes snapshot and table from memory in a *)
(* second (persistNow, writeState in sqlite.ts); the code in between is    *)
(* synchronous, but the process may die there and the second may fail.     *)
(* At start-up the three must agree, or the server refuses to start.       *)
(************************************************************************** *)
EXTENDS Naturals, Sequences, SequencesExt

CONSTANTS
  Sessions,
  MaxSessions,       \* MAX_SESSIONS_PER_USER
  MaxVersion,        \* bound on the calls of bumpSessionVersion
  MaxStoreFailures,  \* bound on failed writes of the snapshot
  MaxStoreCrashes    \* bound on crashes

ASSUME SessionBoundsAssumption ==
  /\ MaxSessions \in Nat \ {0}
  /\ {MaxVersion, MaxStoreFailures, MaxStoreCrashes} \subseteq Nat

VARIABLES
  table,      \* the table, in the order of creation
  sessionMemory,     \* state.activeSessions
  version,    \* the session version of the account, in sessionMemory
  snapshot,   \* the snapshot: [rows, version]
  dirty,
  token,      \* token[s]: the version its cookie was issued with
  writing,    \* the operation whose second transaction is due
  server,     \* up, down, or refused to start
  (* history                                                               *)
  revoked,    \* sessions whose revocation has been confirmed
  torn,       \* an operation was cut between its transactions since the last write
  storeFailures, storeCrashes

sessionVars == <<table, sessionMemory, version, snapshot, dirty, token, writing, server,
                 revoked, torn, storeFailures, storeCrashes>>

NoVersion == 0
NothingToWrite == [due |-> FALSE, confirms |-> {}]
Row == [id: Sessions, seen: {"lately", "long ago"}]
Rows == {rows \in BoundedSeq(Row, MaxSessions) :
           \A i, j \in DOMAIN rows : rows[i].id = rows[j].id => i = j}

SessionTypeOK ==
  /\ {table, sessionMemory, snapshot.rows} \subseteq Rows
  /\ {version, snapshot.version} \subseteq 1..MaxVersion + 1
  /\ dirty \in BOOLEAN
  /\ token \in [Sessions -> NoVersion..MaxVersion + 1]
  /\ writing \in [due: BOOLEAN, confirms: SUBSET Sessions]
  /\ server \in {"up", "down", "refused"}
  /\ revoked \subseteq Sessions
  /\ torn \in BOOLEAN
  /\ storeFailures \in 0..MaxStoreFailures
  /\ storeCrashes \in 0..MaxStoreCrashes

Ids(rows) == {rows[i].id : i \in DOMAIN rows}
Has(rows, s) == s \in Ids(rows)

SessionInit ==
  /\ table = <<>>
  /\ sessionMemory = <<>>
  /\ version = 1
  /\ snapshot = [rows |-> <<>>, version |-> 1]
  /\ dirty = FALSE
  /\ token = [s \in Sessions |-> NoVersion]
  /\ writing = NothingToWrite
  /\ server = "up"
  /\ revoked = {}
  /\ torn = FALSE
  /\ storeFailures = 0
  /\ storeCrashes = 0

Ready == server = "up" /\ ~writing.due

----------------------------------------------------------------------------
(* The first transaction of an operation, and listAll into memory.  The    *)
(* second will confirm that the sessions `confirms' are revoked.           *)
ChangeTable(rows, confirms) ==
  /\ table' = rows
  /\ sessionMemory' = rows
  /\ writing' = [due |-> TRUE, confirms |-> confirms]
  /\ UNCHANGED <<snapshot, dirty, server, revoked, torn, storeFailures, storeCrashes>>

Remaining(gone) ==
  LET left[n \in 0..Len(table)] ==
        IF n = 0 THEN <<>>
        ELSE IF table[n].id \in gone THEN left[n - 1] ELSE Append(left[n - 1], table[n])
  IN  left[Len(table)]

(* createSessionRecord: the oldest go when there are too many.             *)
CreateSession(s) ==
  /\ Ready
  /\ token[s] = NoVersion
  /\ token' = [token EXCEPT ![s] = version]
  /\ LET all == Append(table, [id |-> s, seen |-> "lately"]) IN
     ChangeTable(IF Len(all) > MaxSessions THEN Tail(all) ELSE all, {})
  /\ UNCHANGED version

(* revokeSessionRecord and revokeOtherSessionRecords.                      *)
RevokeSessions(gone) ==
  /\ Ready
  /\ gone # {} /\ gone \subseteq Ids(table)
  /\ ChangeTable(Remaining(gone), gone)
  /\ UNCHANGED <<version, token>>

(* bumpSessionVersion: the next version in memory, then revokeUserSessions. *)
LogOutEverywhere ==
  /\ Ready
  /\ version <= MaxVersion
  /\ version' = version + 1
  /\ ChangeTable(<<>>, {s \in Sessions : token[s] # NoVersion})
  /\ UNCHANGED token

(* startSessionSweeper                                                     *)
SweepSessions ==
  /\ Ready
  /\ LET gone == {s \in Sessions : [id |-> s, seen |-> "long ago"] \in ToSet(table)} IN
     gone # {} /\ ChangeTable(Remaining(gone), {})
  /\ UNCHANGED <<version, token>>

(* touchSessionRecord: the snapshot is left to the flusher.                *)
TouchSession(s) ==
  /\ Ready
  /\ \E i \in DOMAIN sessionMemory : sessionMemory[i] = [id |-> s, seen |-> "long ago"]
  /\ table' = [i \in DOMAIN table |->
                 IF table[i].id = s THEN [table[i] EXCEPT !.seen = "lately"] ELSE table[i]]
  /\ sessionMemory' = table'
  /\ dirty' = TRUE
  /\ UNCHANGED <<version, snapshot, token, writing, server, revoked, torn, storeFailures, storeCrashes>>

(* writeState: snapshot and table are replaced by what memory holds.       *)
WriteState ==
  /\ snapshot' = [rows |-> sessionMemory, version |-> version]
  /\ table' = sessionMemory
  /\ dirty' = FALSE
  /\ torn' = FALSE

(* The second transaction.                                                 *)
PersistNow ==
  /\ server = "up" /\ writing.due
  /\ WriteState
  /\ writing' = NothingToWrite
  /\ revoked' = revoked \cup writing.confirms
  /\ UNCHANGED <<sessionMemory, version, token, server, storeFailures, storeCrashes>>
PersistNowFails ==
  /\ server = "up" /\ writing.due
  /\ storeFailures < MaxStoreFailures
  /\ storeFailures' = storeFailures + 1
  /\ writing' = NothingToWrite
  /\ torn' = TRUE
  /\ UNCHANGED <<table, sessionMemory, version, snapshot, dirty, token, server, revoked, storeCrashes>>

(* persistNow for anything else in the state, or the flusher.              *)
WriteOther ==
  /\ Ready
  /\ WriteState
  /\ UNCHANGED <<sessionMemory, version, token, writing, server, revoked, storeFailures, storeCrashes>>

(* Twelve hours pass.                                                      *)
SessionsAge ==
  LET aged(rows) == [i \in DOMAIN rows |-> [rows[i] EXCEPT !.seen = "long ago"]] IN
  /\ table' = aged(table)
  /\ sessionMemory' = aged(sessionMemory)
  /\ snapshot' = [snapshot EXCEPT !.rows = aged(@)]
  /\ UNCHANGED <<version, dirty, token, writing, server, revoked, torn, storeFailures, storeCrashes>>

----------------------------------------------------------------------------
(* stopStateBackgroundServices, when the process ends in good order.       *)
StopServer ==
  /\ Ready
  /\ server' = "down"
  /\ IF dirty THEN WriteState ELSE UNCHANGED <<snapshot, table, dirty, torn>>
  /\ UNCHANGED <<sessionMemory, version, token, writing, revoked, storeFailures, storeCrashes>>

CrashServer ==
  /\ server = "up"
  /\ storeCrashes < MaxStoreCrashes
  /\ storeCrashes' = storeCrashes + 1
  /\ server' = "down"
  /\ torn' = (torn \/ writing.due)
  /\ writing' = NothingToWrite
  /\ dirty' = FALSE
  /\ UNCHANGED <<table, sessionMemory, version, snapshot, token, revoked, storeFailures>>

(* reconcileSessionLastSeen: the same sessions, but for when they were     *)
(* last seen.                                                              *)
Reconcilable ==
  /\ Len(snapshot.rows) = Len(table)
  /\ Ids(snapshot.rows) = Ids(table)

LastSeen(row) ==
  IF \E i \in DOMAIN table : table[i].id = row.id
  THEN table[CHOOSE i \in DOMAIN table : table[i].id = row.id] ELSE row

(* load and the checks of start-up.                                        *)
StartServer ==
  /\ server = "down"
  /\ IF Reconcilable
     THEN /\ server' = "up"
          /\ sessionMemory' = [i \in DOMAIN snapshot.rows |-> LastSeen(snapshot.rows[i])]
          /\ version' = snapshot.version
          /\ dirty' = (sessionMemory' # snapshot.rows)
     ELSE server' = "refused" /\ UNCHANGED <<sessionMemory, version, dirty>>
  /\ UNCHANGED <<table, snapshot, token, writing, revoked, torn, storeFailures, storeCrashes>>

SessionNext ==
  \/ \E s \in Sessions : CreateSession(s) \/ TouchSession(s)
  \/ \E gone \in SUBSET Sessions : RevokeSessions(gone)
  \/ LogOutEverywhere
  \/ SweepSessions
  \/ PersistNow
  \/ PersistNowFails
  \/ WriteOther
  \/ SessionsAge
  \/ StopServer
  \/ CrashServer
  \/ StartServer

SessionSpec == SessionInit /\ [][SessionNext]_sessionVars

----------------------------------------------------------------------------
(* Properties.                                                             *)

(* A cookie is accepted while its session has a row and its version is the *)
(* account's (deserialize in session.ts).                                  *)
CookieAccepted(s) == server = "up" /\ Has(table, s) /\ token[s] = version

(* No write from memory and no restart brings back a session whose         *)
(* revocation was confirmed: the table is replaced from memory at every    *)
(* write of the state (writeState).                                        *)
RevokedStaysRevoked == \A s \in revoked : ~Has(table, s)

(* Between operations memory is what the table says, also after a failed   *)
(* write and after a restart, and every session with a row is accepted.    *)
MemoryIsTable ==
  Ready => sessionMemory = table /\ \A s \in Ids(table) : CookieAccepted(s)

(* The server refuses to start over its sessions only if an operation was  *)
(* cut between its two transactions and nothing was written since.         *)
RefusedOnlyIfTorn == server = "refused" => torn

(* A revocation is final, and table, memory and snapshot stay one, or the  *)
(* cut that parted them shows.                                             *)
SessionsAgree == RevokedStaysRevoked /\ MemoryIsTable /\ RefusedOnlyIfTorn
=============================================================================
