---------------------------- MODULE DeviceSession ----------------------------
(* The connections to devices that are kept between uses (withSSH and      *)
(* withDeviceAgent in packages/dkrypt/src/idevice.ts): one per device, in  *)
(* a map; all uses of all devices take turns under one lock.  A connection *)
(* may break at any moment, a use may be aborted at any moment, and an     *)
(* idle connection is closed by its timer.                                 *)
EXTENDS Naturals, Sequences, SequencesExt

CONSTANTS
  Uses,          \* calls of withSSH and withDeviceAgent
  Endpoints,     \* devices
  EndpointOf,    \* EndpointOf[u]
  Connections,   \* connections that can be opened
  NoConnection

ASSUME EndpointOfAssumption == EndpointOf \in [Uses -> Endpoints]
ASSUME NoConnectionAssumption == NoConnection \notin Connections

VARIABLES
  turn,     \* the uses in the lock, the first of them holds it
  use,      \* use[u]
  quit,     \* uses whose signal has been aborted
  holds,    \* holds[u]: the connection a use works with
  pool,     \* pool[e]: sshSessions, deviceAgentSessions
  link,     \* link[c]; `broken' is unusable
  idleTimer \* connections whose timer runs

poolVars == <<turn, use, quit, holds, pool, link, idleTimer>>

PoolTypeOK ==
  /\ turn \in Seq(Uses)
  /\ use \in [Uses -> {"new", "waiting", "opening", "using", "over"}]
  /\ quit \subseteq Uses
  /\ holds \in [Uses -> Connections \cup {NoConnection}]
  /\ pool \in [Endpoints -> Connections \cup {NoConnection}]
  /\ link \in [Connections -> {"new", "open", "broken", "closed"}]
  /\ idleTimer \subseteq Connections

PoolInit ==
  /\ turn = <<>>
  /\ use = [u \in Uses |-> "new"]
  /\ quit = {}
  /\ holds = [u \in Uses |-> NoConnection]
  /\ pool = [e \in Endpoints |-> NoConnection]
  /\ link = [c \in Connections |-> "new"]
  /\ idleTimer = {}

HasLock(u) == turn # <<>> /\ Head(turn) = u

----------------------------------------------------------------------------
(* closeSshSession, closeDeviceAgentSession: out of the map, if it is the  *)
(* one there, no timer, closed.                                            *)
Close(c) ==
  /\ pool' = [e \in Endpoints |-> IF pool[e] = c THEN NoConnection ELSE pool[e]]
  /\ link' = [link EXCEPT ![c] = "closed"]
  /\ idleTimer' = idleTimer \ {c}

Unlock(u) ==
  /\ use' = [use EXCEPT ![u] = "over"]
  /\ turn' = Tail(turn)

Enter(u) ==
  /\ use[u] = "new"
  /\ \/ u \in quit /\ use' = [use EXCEPT ![u] = "over"] /\ UNCHANGED turn
     \/ u \notin quit /\ use' = [use EXCEPT ![u] = "waiting"] /\ turn' = Append(turn, u)
  /\ UNCHANGED <<quit, holds, pool, link, idleTimer>>

(* It was aborted while it waited.                                         *)
Leave(u) ==
  /\ use[u] = "waiting" /\ HasLock(u) /\ u \in quit
  /\ Unlock(u)
  /\ UNCHANGED <<quit, holds, pool, link, idleTimer>>

(* Mutant: the timer of the last use goes on.                              *)
TimerGoesOn(c) == idleTimer

StopTimer(c) == idleTimer \ {c}

(* getSshSession, getDeviceAgentSession: the connection there is ...       *)
ReuseConnection(u) ==
  /\ use[u] = "waiting" /\ HasLock(u) /\ u \notin quit
  /\ LET c == pool[EndpointOf[u]]
     IN  /\ c # NoConnection /\ link[c] = "open"
         /\ holds' = [holds EXCEPT ![u] = c]
         /\ idleTimer' = StopTimer(c)
  /\ use' = [use EXCEPT ![u] = "using"]
  /\ UNCHANGED <<turn, quit, pool, link>>

(* ... or one is opened, after an unusable one has been closed.            *)
BeginToOpen(u) ==
  /\ use[u] = "waiting" /\ HasLock(u) /\ u \notin quit
  /\ LET c == pool[EndpointOf[u]]
     IN  \/ c = NoConnection /\ UNCHANGED <<pool, link, idleTimer>>
         \/ c # NoConnection /\ link[c] # "open" /\ Close(c)
  /\ use' = [use EXCEPT ![u] = "opening"]
  /\ UNCHANGED <<turn, quit, holds>>

(* openSshSession, openDeviceAgentSession                                  *)
Opened(u) ==
  /\ use[u] = "opening" /\ u \notin quit
  /\ \E c \in Connections :
       /\ link[c] = "new"
       /\ link' = [link EXCEPT ![c] = "open"]
       /\ pool' = [pool EXCEPT ![EndpointOf[u]] = c]
       /\ holds' = [holds EXCEPT ![u] = c]
  /\ use' = [use EXCEPT ![u] = "using"]
  /\ UNCHANGED <<turn, quit, idleTimer>>

(* It cannot be opened, after all attempts, or the use is aborted.         *)
FailsToOpen(u) ==
  /\ use[u] = "opening"
  /\ Unlock(u)
  /\ UNCHANGED <<quit, holds, pool, link, idleTimer>>

(* The end of a use.  A transient error closes the connection at once,     *)
(* unless the use was aborted; releaseSshSession keeps it if it is still   *)
(* the one in the map and usable.                                          *)
Release(u) ==
  /\ use[u] = "using"
  /\ LET c == holds[u]
     IN  \/ /\ link[c] = "open" /\ pool[EndpointOf[u]] = c
            /\ idleTimer' = idleTimer \cup {c}
            /\ UNCHANGED <<pool, link>>
         \/ /\ u \notin quit \/ link[c] # "open" \/ pool[EndpointOf[u]] # c
            /\ Close(c)
  /\ holds' = [holds EXCEPT ![u] = NoConnection]
  /\ Unlock(u)
  /\ UNCHANGED quit

AbortUse(u) ==
  /\ use[u] # "over" /\ u \notin quit
  /\ quit' = quit \cup {u}
  /\ UNCHANGED <<turn, use, holds, pool, link, idleTimer>>

(* error, end or close of the connection                                   *)
Breaks(c) ==
  /\ link[c] = "open"
  /\ link' = [link EXCEPT ![c] = "broken"]
  /\ UNCHANGED <<turn, use, quit, holds, pool, idleTimer>>

TimerFires(c) ==
  /\ c \in idleTimer
  /\ \/ /\ \E e \in Endpoints : pool[e] = c
        /\ Close(c)
     \/ /\ \A e \in Endpoints : pool[e] # c
        /\ idleTimer' = idleTimer \ {c}
        /\ UNCHANGED <<pool, link>>
  /\ UNCHANGED <<turn, use, quit, holds>>

PoolNext ==
  \/ \E u \in Uses :
       \/ Enter(u) \/ Leave(u) \/ ReuseConnection(u) \/ BeginToOpen(u) \/ Opened(u) \/ FailsToOpen(u)
       \/ Release(u) \/ AbortUse(u)
  \/ \E c \in Connections : Breaks(c) \/ TimerFires(c)

PoolSpec == PoolInit /\ [][PoolNext]_poolVars

----------------------------------------------------------------------------
(* A connection in use is in the map for its device and is not closed      *)
(* under the use, which has it alone; one that is not in use will be       *)
(* closed: its timer runs (idevice.ts, releaseSshSession).                 *)
PoolIsSound ==
  /\ \A u \in Uses : use[u] = "using" =>
        /\ link[holds[u]] # "closed" /\ pool[EndpointOf[u]] = holds[u]
        /\ holds[u] \notin idleTimer
        /\ \A v \in Uses \ {u} : holds[v] # holds[u]
  /\ \A c \in Connections : link[c] \in {"open", "broken"} =>
        c \in idleTimer \/ \E u \in Uses : holds[u] = c
=============================================================================
